------------------------------ MODULE AutoBoot ------------------------------
(***************************************************************************)
(* The boot disk that replaces drive 1 while an executable is loaded       *)
(* (autoboot.cpp): it serves its own boot sectors until the first chunk is *)
(* asked for, then the chunks, and passes everything else to the drive     *)
(* that it has replaced.  A booter is a record.                            *)
(***************************************************************************)
EXTENDS Naturals, Sequences, SequencesExt

CONSTANTS
  ChunkSizes,  \* the chunk lengths of the executables: a set of sequences
  BootSize     \* the length of the boot loader's code in bytes

ASSUME BooterAssumption ==
  /\ ChunkSizes \subseteq Seq(Nat \ {0})
  /\ BootSize \in Nat

(* chunks holds the bytes that the program keeps of each chunk, of which    *)
(* the first sizes[i] come from the executable.                             *)
OpenBooter(sizes) == [chunks |-> sizes, sizes |-> sizes, loaded |-> FALSE]

(* "(boot.size() + 127) * 128": many more sectors than the boot loader has, *)
(* and a read of one it has not returns an empty sector.                    *)
SectorCount == (BootSize + 127) * 128

(* Sectors are the booter's own until the program is being loaded.          *)
ServesSector(b, s) == ~b.loaded /\ s >= 1 /\ s <= SectorCount

(* QList::at asserts that the number, which comes from the Atari, is one of *)
(* the list's; it counts from 0.                                            *)
HasChunk(b, i) == i < Len(b.chunks)

(* Mutant: the last chunk says that there is another one.                   *)
ChunkInfoOffByOne(b, i) == [size |-> b.chunks[i + 1], more |-> Len(b.chunks) >= i + 1]

(* Mutant: the last chunk but one says that it is the last.                 *)
ChunkInfoStopsEarly(b, i) == [size |-> b.chunks[i + 1], more |-> Len(b.chunks) > i + 2]

ChunkInfo(b, i) == [size |-> b.chunks[i + 1], more |-> Len(b.chunks) # i + 1]

Loading(b) == [b EXCEPT !.loaded = TRUE]

(* writeDataFrame appends the checksum to the array it is given, and it is  *)
(* given the chunk itself, not a copy.                                      *)
ChunkSent(b, i) == [b EXCEPT !.chunks[i + 1] = @ + 1]

=============================================================================
