------------------------------ MODULE MCPcLink ------------------------------
(* Small instances of PcLink for TLC: two units, a table of three handles,  *)
(* one of which no link's number closes; the programs of the second unit    *)
(* are there to get in the way of those of the first.                       *)
EXTENDS PcLink, TLC

MCUses == (1 :> AllFunctions) @@ (2 :> {"FOPEN", "FREAD", "FCLOSE", "CHDIR"})
=============================================================================
