----------------------------- MODULE FolderImage -----------------------------
(***************************************************************************)
(* A folder of the host shown to the Atari as a disk (folderimage.cpp).    *)
(* File number f of the directory starts at sector 369 + f.  The sectors   *)
(* from 433 to LastSector are a window on the rest of the file whose first *)
(* sector was read last; it slides on each time its last sector is read.   *)
(* A folder is a record, and readSector an operator that returns the       *)
(* sector's data and the folder as it is afterwards.                       *)
(***************************************************************************)
EXTENDS Naturals

CONSTANTS
  LastSector,  \* the end of the window: 1023 in the program
  Blocks       \* the files' lengths in blocks of 125 bytes, by file number

ASSUME FolderAssumption ==
  /\ LastSector \in Nat /\ LastSector >= 433
  /\ DOMAIN Blocks \subseteq 0..63
  /\ DOMAIN Blocks # {}
  /\ \A f \in DOMAIN Blocks : Blocks[f] \in Nat

Files     == DOMAIN Blocks
Directory == 361
First(f)  == 369 + f
Window    == LastSector - 432

Folders == [current : Files, pass : [Files -> Nat], boots : BOOLEAN]

(* A data sector: its file number, which block of the file it holds, if it  *)
(* holds any, and the link to the next sector.                              *)
FileData == [file : Files, block : Nat, full : BOOLEAN, next : 0..LastSector]

(* FolderImage::open.  atariFileNo is not initialised.                      *)
OpenFolder(c, boots) == [current |-> c, pass |-> [f \in Files |-> 0], boots |-> boots]

(* buildDirectory, which every look into the directory begins with.         *)
BuildDirectory(folder) == [folder EXCEPT !.pass = [f \in Files |-> 0]]

(* What the bytes 125 to 127 of a sector say of it.                         *)
DataOf(f, b, next) ==
  [file |-> f, block |-> b, full |-> b < Blocks[f],
   next |-> IF b + 1 >= Blocks[f] THEN 0 ELSE next]

IsFirst(s) == s \in {First(f) : f \in Files}
IsData(s)  == s >= 433 /\ s <= LastSector

(* Mutant: the window starts at the first block again.                      *)
BlockAtFromZero(folder, s) == (s - 433) + folder.pass[folder.current] * Window

(* Which block of the current file a sector of the window stands for.       *)
BlockAt(folder, s) == 1 + (s - 433) + folder.pass[folder.current] * Window

FirstData(f) == DataOf(f, 0, 433)

WindowData(folder, s) ==
  DataOf(folder.current, BlockAt(folder, s), IF s = LastSector THEN 433 ELSE s + 1)

(* Reading the last sector slides the window, whether or not the answer     *)
(* will reach the Atari.                                                    *)
AfterRead(folder, s) ==
  IF s = Directory \/ (s = 1 /\ folder.boots) THEN BuildDirectory(folder)
  ELSE IF IsFirst(s) THEN [folder EXCEPT !.current = s - 369]
  ELSE IF s = LastSector THEN [folder EXCEPT !.pass[folder.current] = @ + 1]
  ELSE folder

=============================================================================
