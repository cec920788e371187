-------------------------- MODULE MCAtariFileSystem --------------------------
(* Small instances of AtariFileSystem for TLC: directories of one sector    *)
(* with three entries, files of no, one and two sectors, a folder, and too  *)
(* little room for all of them.                                             *)
EXTENDS AtariFileSystem, TLC

MCSystem   == 0..4
MCBlocks   == ("a" :> 0) @@ ("b" :> 2)
MCHostDirs == ("h" :> <<"b", "a">>)
MCDrops    == {<<"a">>, <<"b", "a">>, <<"h">>}
=============================================================================
