--------------------------- MODULE MCDriveCommands ---------------------------
(* Small instances of DriveCommands for TLC: a window of two sectors, a    *)
(* file that ends at its end and one that ends after it has slid, and       *)
(* executables of up to three chunks, one of them without any.              *)
EXTENDS DriveCommands, TLC

MCBlocks == (0 :> 4) @@ (1 :> 3)
MCChunkSizes == {<<>>, <<2>>, <<3, 1>>, <<1, 2, 1>>}
=============================================================================
