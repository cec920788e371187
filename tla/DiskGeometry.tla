---------------------------- MODULE DiskGeometry ----------------------------
(***************************************************************************)
(* How many sectors a disk has, how long they are and where they lie in    *)
(* the image: DiskGeometry, the size checks of openAtr and openXfd, what   *)
(* saveAtr and saveXfd write down of the geometry, and New Image.          *)
(*                                                                         *)
(* A geometry can come from a format command (sides, tracks, sectors), from*)
(* a file's size and header, or from a file's size alone.  A saved image   *)
(* has only the latter two, so every save relies on finding the same       *)
(* sectors again from the size.                                            *)
(***************************************************************************)
EXTENDS Integers

CONSTANT UInt   \* the values of an unsigned int: 2^32 in the program

UShort == 65536 \* those of quint16

(* Every size up to the largest hard disk of New Image fits an int.         *)
ASSUME WidthAssumption ==
  /\ UInt \in Nat
  /\ UInt >= 2 * UShort * 8192
  /\ UInt % 1048576 = 0

(* The sector sizes that openAtr and the New Image dialog know.             *)
SectorSizes == {128, 256, 512, 8192}

-----------------------------------------------------------------------------
(* initialize(sides, tracks, sectors per track, bytes per sector).  The     *)
(* first three sectors of a double density disk have 128 bytes.             *)
Geometry(sides, tracks, spt, bps) ==
  LET n == sides * tracks * spt
      size == IF bps = 256 /\ n > 3 THEN n * 128 + 128 * (n - 3)
              ELSE n * (IF bps = 256 THEN 128 ELSE bps)
  IN  [sides |-> sides, tracks |-> tracks, spt |-> spt, bps |-> bps,
       count |-> n, total |-> size % UInt]

Floppies == {Geometry(1, 40, 18, 128), Geometry(1, 40, 26, 128),
             Geometry(1, 40, 18, 256), Geometry(2, 40, 18, 256)}

(* One track that holds all sectors; spt is a quint16.                      *)
HardDisk(sectors, bps) == Geometry(1, 1, sectors % UShort, bps)

(* n div d, rounded up, in unsigned arithmetic.                             *)
RoundUp(n, d) == ((n + d - 1) % UInt) \div d

(* initialize(size, bps): the standard floppies by their size, any other    *)
(* size as a hard disk with a last sector that may be incomplete.           *)
FromSize(size, bps) ==
  CASE size = 92160  /\ bps = 128 -> Geometry(1, 40, 18, 128)
    [] size = 133120 /\ bps = 128 -> Geometry(1, 40, 26, 128)
    [] size = 183936 /\ bps = 256 -> Geometry(1, 40, 18, 256)
    [] size = 368256 /\ bps = 256 -> Geometry(2, 40, 18, 256)
    [] OTHER -> HardDisk(IF bps # 256 THEN RoundUp(size, bps)
                         ELSE IF size <= 384 THEN RoundUp(size, 128)
                         ELSE RoundUp(size + 384, 256), bps)

(* initialize(size), for formats without a header: whatever is left beyond  *)
(* three short sectors decides about the density, and the three are not     *)
(* counted again.                                                           *)
FromSizeAlone(size) ==
  LET rest == (size - 384) % UInt
  IN  CASE size = 92160  -> Geometry(1, 40, 18, 128)
        [] size = 133120 -> Geometry(1, 40, 26, 128)
        [] size = 183936 -> Geometry(1, 40, 18, 256)
        [] size = 368256 -> Geometry(2, 40, 18, 256)
        [] OTHER -> IF rest % 256 = 0 THEN HardDisk(rest \div 256, 256)
                                      ELSE HardDisk(RoundUp(size, 128), 128)

(* toPercomBlock and initialize(percom), without the bytes nobody reads.    *)
ToPercom(g) ==
  [tracks |-> g.tracks, sptHi |-> g.spt \div 256, sptLo |-> g.spt % 256,
   doubleSided |-> g.sides - 1, bpsHi |-> g.bps \div 256, bpsLo |-> g.bps % 256]

FromPercom(p) ==
  Geometry(IF p.doubleSided = 0 THEN 1 ELSE 2, p.tracks,
           p.sptHi * 256 + p.sptLo, p.bpsHi * 256 + p.bpsLo)

-----------------------------------------------------------------------------
(* Where a sector lies: bytesPerSector(sector) and seekToSector.            *)
SectorLength(g, s) == IF g.bps = 256 /\ s <= 3 THEN 128 ELSE g.bps

SectorOffset(g, s) ==
  IF g.bps # 256 THEN (s - 1) * g.bps
  ELSE IF s <= 3 THEN (s - 1) * 128
  ELSE (s - 1) * 256 - 384

-----------------------------------------------------------------------------
(* saveAtr's header: the size in paragraphs of 16 bytes, low and high word. *)
AtrHeader(g) ==
  [lo |-> (g.total \div 16) % 65536, hi |-> (g.total \div 1048576) % 65536,
   secSize |-> g.bps]

HeaderSize(h) == ((h.lo + h.hi * 65536) * 16) % UInt

(* The odd sizes openAtr puts up with: at least a full floppy of sectors.   *)
SizeValid(size, secSize) ==
  IF secSize = 256
    THEN IF size <= 384 THEN size % 128 = 0
         ELSE (size + 384) % 256 = 0 \/ size \div 256 >= 720
    ELSE \/ size % secSize = 0
         \/ size \div secSize >= (IF size < 133120 THEN 720 ELSE 1040)

Refused == [opened |-> FALSE]
Opened(g, repaired) == [opened |-> TRUE, geometry |-> g, modified |-> repaired]

(* openAtr on a file with header h and size bytes behind it.                *)
OpenAtr(h, size) ==
  LET g == FromSize(size, h.secSize)
  IN  IF h.secSize \in SectorSizes /\ SizeValid(size, h.secSize) /\ g.count < UShort
        THEN Opened(g, HeaderSize(h) # size)
        ELSE Refused

OpenXfd(size) == IF size % 128 = 0 THEN Opened(FromSizeAlone(size), FALSE) ELSE Refused

(* saveXfd refuses a disk whose density a reader would take for another.    *)
XfdAccepts(g) == FromSizeAlone(g.total).bps = g.bps

(* on_actionNewImage: the dialog's number of sectors, by way of a size.     *)
NewImage(sectors, bps) ==
  FromSize(IF bps # 256 THEN sectors * bps
           ELSE sectors * 256 - (IF sectors >= 3 THEN 384 ELSE sectors * 128), bps)
=============================================================================
