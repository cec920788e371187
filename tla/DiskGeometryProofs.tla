------------------------- MODULE DiskGeometryProofs -------------------------
(***************************************************************************)
(* Sectors tile the image, and a saved image is opened as the same sectors,*)
(* for every geometry that fits the program's integers.                    *)
(***************************************************************************)
EXTENDS DiskGeometry, TLAPS

(* What a sector size and a number of sectors say about the size of a disk  *)
(* whose size fits an unsigned int.                                         *)
Size(n, bps) ==
  IF bps # 256 THEN n * bps ELSE IF n <= 3 THEN n * 128 ELSE n * 256 - 384

Fits(sides, tracks, spt, bps) ==
  /\ sides \in {1, 2}
  /\ tracks \in 0..255
  /\ spt \in Nat /\ spt < UShort
  /\ bps \in Nat /\ bps > 0 /\ bps < UShort
  /\ Size(sides * tracks * spt, bps) < UInt

LEMMA ProductIsNat ==
  ASSUME NEW a \in Nat, NEW b \in Nat PROVE a * b \in Nat
  OBVIOUS

LEMMA SmallModulus ==
  ASSUME NEW x \in Nat, NEW m \in Nat, x < m PROVE x % m = x
  OBVIOUS

LEMMA TwoBytes ==
  ASSUME NEW x \in Nat PROVE (x \div 256) * 256 + (x % 256) = x
  OBVIOUS

LEMMA GeometryFields ==
  ASSUME NEW sides, NEW tracks, NEW spt, NEW bps, Fits(sides, tracks, spt, bps)
  PROVE  LET g == Geometry(sides, tracks, spt, bps)
         IN  /\ g.sides = sides /\ g.tracks = tracks /\ g.spt = spt /\ g.bps = bps
             /\ g.count = sides * tracks * spt
             /\ g.count \in Nat
             /\ g.total = Size(g.count, bps)
             /\ g.total \in Nat
<1> DEFINE n == sides * tracks * spt
<1>1. sides \in Nat /\ tracks \in Nat /\ spt \in Nat /\ bps \in Nat /\ bps > 0
  BY DEF Fits, UShort
<1>2. n \in Nat
  <2>1. sides * tracks \in Nat
    BY <1>1, ProductIsNat
  <2> QED BY <2>1, <1>1, ProductIsNat
<1>3. n * bps \in Nat
  BY <1>1, <1>2, ProductIsNat
<1> HIDE DEF n
<1>4. Size(n, bps) \in Nat /\ Size(n, bps) < UInt
  <2>1. Size(n, bps) \in Nat
    BY <1>1, <1>2, <1>3 DEF Size
  <2> QED BY <2>1 DEF Fits, n
<1>5. Size(n, bps) % UInt = Size(n, bps)
  BY <1>4, SmallModulus, WidthAssumption
<1>6. (IF bps = 256 /\ n > 3 THEN n * 128 + 128 * (n - 3)
       ELSE n * (IF bps = 256 THEN 128 ELSE bps)) = Size(n, bps)
  BY <1>1, <1>2 DEF Size
<1>7. Geometry(sides, tracks, spt, bps)
        = [sides |-> sides, tracks |-> tracks, spt |-> spt, bps |-> bps,
           count |-> n, total |-> Size(n, bps)]
  BY <1>5, <1>6 DEF Geometry, n
<1> QED BY <1>2, <1>4, <1>7 DEF n

(* seekToSector puts the sectors of a disk one behind the other, without a  *)
(* gap and without overlap, from the first byte of the temporary file to    *)
(* its last: no write to a sector touches another.                          *)
THEOREM SectorsTile ==
  ASSUME NEW sides, NEW tracks, NEW spt, NEW bps, Fits(sides, tracks, spt, bps)
  PROVE  LET g == Geometry(sides, tracks, spt, bps)
         IN  /\ SectorOffset(g, 1) = 0
             /\ \A s \in 1..g.count :
                  SectorOffset(g, s + 1) = SectorOffset(g, s) + SectorLength(g, s)
             /\ g.count > 0 => SectorOffset(g, g.count) + SectorLength(g, g.count) = g.total
<1> DEFINE g == Geometry(sides, tracks, spt, bps)
<1>1. g.bps = bps /\ g.count \in Nat /\ g.total = Size(g.count, bps) /\ bps \in Nat
  <2>1. bps \in Nat
    BY DEF Fits, UShort
  <2> QED BY <2>1, GeometryFields
<1> HIDE DEF g
<1>2. SectorOffset(g, 1) = 0
  BY <1>1 DEF SectorOffset
<1>3. ASSUME NEW s \in 1..g.count
      PROVE  SectorOffset(g, s + 1) = SectorOffset(g, s) + SectorLength(g, s)
  <2>1. s \in Nat /\ s >= 1 /\ (s + 1) - 1 = s
    BY <1>1
  <2>2. CASE bps # 256
    <3>1. s * bps = (s - 1) * bps + bps
      BY <1>1, <2>1
    <3> QED BY <1>1, <2>1, <2>2, <3>1 DEF SectorOffset, SectorLength
  <2>3. CASE bps = 256
    BY <1>1, <2>1, <2>3 DEF SectorOffset, SectorLength
  <2> QED BY <2>2, <2>3
<1>4. ASSUME g.count > 0
      PROVE  SectorOffset(g, g.count) + SectorLength(g, g.count) = g.total
  <2>1. CASE bps # 256
    <3>1. g.count * bps = (g.count - 1) * bps + bps
      BY <1>1
    <3> QED BY <1>1, <2>1, <3>1 DEF SectorOffset, SectorLength, Size
  <2>2. CASE bps = 256
    BY <1>1, <1>4, <2>2 DEF SectorOffset, SectorLength, Size
  <2> QED BY <2>1, <2>2
<1> QED BY <1>2, <1>3, <1>4 DEF g

(* Every disk of up to 65535 sectors of a known size fits.                  *)
LEMMA SizeBound ==
  ASSUME NEW n \in Nat, n >= 1, n < UShort, NEW bps \in SectorSizes
  PROVE  /\ Size(n, bps) \in Nat /\ Size(n, bps) >= 128 /\ Size(n, bps) <= 536870912
         /\ Size(n, bps) % 128 = 0
         /\ Size(n, bps) + 8192 < UInt
<1>1. n \in Nat /\ n >= 1 /\ n <= 65535
  BY DEF UShort
<1>2. UInt \in Nat /\ UInt >= 1073741824
  BY WidthAssumption DEF UShort
<1>3. CASE bps = 256
  <2> DEFINE m == IF n <= 3 THEN n ELSE 2 * n - 3
  <2>1. Size(n, bps) = 128 * m
    BY <1>1, <1>3 DEF Size
  <2>2. m \in Nat /\ m >= 1 /\ m <= 131067
    BY <1>1
  <2> HIDE DEF m
  <2>3. (128 * m) % 128 = 0
    BY <2>2
  <2>4. 128 * m \in Nat /\ 128 * m >= 128 /\ 128 * m <= 536870912 /\ 128 * m + 8192 < UInt
    BY <1>2, <2>2
  <2> QED BY <1>2, <2>1, <2>3, <2>4
<1>4. ASSUME NEW k \in {1, 4, 64}, bps = 128 * k
      PROVE  /\ Size(n, bps) \in Nat /\ Size(n, bps) >= 128 /\ Size(n, bps) <= 536870912
             /\ Size(n, bps) % 128 = 0
             /\ Size(n, bps) + 8192 < UInt
  <2> DEFINE m == n * k
  <2>1. m \in Nat /\ m >= 1 /\ m <= 4194240
    BY <1>1
  <2>2. Size(n, bps) = 128 * m
    BY <1>1, <1>4 DEF Size
  <2> HIDE DEF m
  <2>3. (128 * m) % 128 = 0
    BY <2>1
  <2>4. 128 * m \in Nat /\ 128 * m >= 128 /\ 128 * m <= 536870912 /\ 128 * m + 8192 < UInt
    BY <1>2, <2>1
  <2> QED BY <1>2, <2>2, <2>3, <2>4
<1>5. CASE bps # 256
  <2>1. PICK k \in {1, 4, 64} : bps = 128 * k
    BY <1>5 DEF SectorSizes
  <2> QED BY <2>1, <1>4
<1> QED BY <1>3, <1>5

LEMMA RoundUpExact ==
  ASSUME NEW n \in Nat, n >= 1, n < UShort, NEW d \in {128, 256, 512, 8192}
  PROVE  RoundUp(n * d, d) = n
<1>0. n \in Nat /\ n <= 65535 /\ UInt \in Nat /\ UInt >= 1073741824
  BY WidthAssumption DEF UShort
<1>1. n * d + d - 1 \in Nat /\ n * d + d - 1 < UInt
  BY <1>0
<1>2. (n * d + d - 1) % UInt = n * d + d - 1
  BY <1>0, <1>1, SmallModulus
<1>3. (n * d + d - 1) \div d = n
  BY <1>0
<1> QED BY <1>2, <1>3 DEF RoundUp

LEMMA HardDiskFields ==
  ASSUME NEW n \in Nat, n >= 1, n < UShort, NEW bps \in SectorSizes
  PROVE  /\ Fits(1, 1, n, bps)
         /\ HardDisk(n, bps) = Geometry(1, 1, n, bps)
         /\ HardDisk(n, bps).count = n /\ HardDisk(n, bps).bps = bps
         /\ HardDisk(n, bps).total = Size(n, bps)
<1>1. n % UShort = n /\ 1 * 1 * n = n
  BY SmallModulus DEF UShort
<1>2. Size(n, bps) < UInt
  <2>1. Size(n, bps) \in Nat /\ Size(n, bps) + 8192 < UInt
    BY SizeBound
  <2> QED BY <2>1, WidthAssumption
<1>3. bps \in Nat /\ bps > 0 /\ bps < UShort
  BY DEF SectorSizes, UShort
<1>4. Fits(1, 1, n, bps)
  BY <1>1, <1>2, <1>3 DEF Fits
<1>5. HardDisk(n, bps) = Geometry(1, 1, n, bps)
  BY <1>1 DEF HardDisk
<1> QED BY <1>1, <1>4, <1>5, GeometryFields

LEMMA FloppyFields ==
  /\ Geometry(1, 40, 18, 128).count = 720 /\ Geometry(1, 40, 18, 128).bps = 128
  /\ Geometry(1, 40, 26, 128).count = 1040 /\ Geometry(1, 40, 26, 128).bps = 128
  /\ Geometry(1, 40, 18, 256).count = 720 /\ Geometry(1, 40, 18, 256).bps = 256
  /\ Geometry(2, 40, 18, 256).count = 1440 /\ Geometry(2, 40, 18, 256).bps = 256
  BY DEF Geometry

(* The size of a disk gives its number of sectors back.                     *)
LEMMA SizeGivesCount ==
  ASSUME NEW n \in Nat, n >= 1, n < UShort, NEW bps \in SectorSizes
  PROVE  LET g == FromSize(Size(n, bps), bps) IN g.count = n /\ g.bps = bps
<1> DEFINE size == Size(n, bps)
<1>0. n \in Nat /\ n >= 1 /\ n < UShort
  BY DEF UShort
<1>1. CASE bps # 256
  <2>1. size = n * bps /\ RoundUp(size, bps) = n
    BY <1>1, RoundUpExact DEF Size, SectorSizes
  <2>2. CASE size = 92160 /\ bps = 128
    <3>1. n = 720
      BY <1>0, <2>1, <2>2
    <3> QED BY <3>1, <2>2, FloppyFields DEF FromSize
  <2>3. CASE size = 133120 /\ bps = 128
    <3>1. n = 1040
      BY <1>0, <2>1, <2>3
    <3> QED BY <3>1, <2>3, FloppyFields DEF FromSize
  <2>4. CASE ~(size = 92160 /\ bps = 128) /\ ~(size = 133120 /\ bps = 128)
    <3>1. FromSize(size, bps) = HardDisk(n, bps)
      BY <1>1, <2>1, <2>4 DEF FromSize
    <3> QED BY <3>1, HardDiskFields
  <2> QED BY <2>2, <2>3, <2>4
<1>2. CASE bps = 256
  <2>1. size = IF n <= 3 THEN n * 128 ELSE n * 256 - 384
    BY <1>2 DEF Size
  <2>2. CASE size = 183936
    <3>1. n = 720
      BY <1>0, <2>1, <2>2
    <3> QED BY <3>1, <2>2, <1>2, FloppyFields DEF FromSize
  <2>3. CASE size = 368256
    <3>1. n = 1440
      BY <1>0, <2>1, <2>3
    <3> QED BY <3>1, <2>3, <1>2, FloppyFields DEF FromSize
  <2>4. CASE size # 183936 /\ size # 368256
    <3>1. FromSize(size, bps)
            = HardDisk(IF size <= 384 THEN RoundUp(size, 128) ELSE RoundUp(size + 384, 256), 256)
      BY <1>2, <2>4 DEF FromSize
    <3>2. CASE n <= 3
      <4>1. size = n * 128 /\ size <= 384
        BY <1>0, <2>1, <3>2
      <4> QED BY <1>2, <3>1, <4>1, RoundUpExact, HardDiskFields DEF SectorSizes
    <3>3. CASE n > 3
      <4>1. size + 384 = n * 256 /\ ~(size <= 384)
        BY <1>0, <2>1, <3>3
      <4> QED BY <1>2, <3>1, <4>1, RoundUpExact, HardDiskFields DEF SectorSizes
    <3> QED BY <1>0, <3>2, <3>3
  <2> QED BY <2>2, <2>3, <2>4
<1> QED BY <1>1, <1>2

(* A new image has the number of sectors and the density that the dialog    *)
(* was asked for, although on_actionNewImage passes only a size on.         *)
THEOREM NewImageHasItsSectors ==
  ASSUME NEW n \in Nat, n >= 1, n < UShort, NEW bps \in SectorSizes
  PROVE  NewImage(n, bps).count = n /\ NewImage(n, bps).bps = bps
<1>1. (IF bps # 256 THEN n * bps
       ELSE n * 256 - (IF n >= 3 THEN 384 ELSE n * 128)) = Size(n, bps)
  BY DEF Size, UShort
<1> QED BY <1>1, SizeGivesCount DEF NewImage

(* The two words of the header hold the size of every disk of a known kind. *)
LEMMA HeaderHoldsSize ==
  ASSUME NEW t \in Nat, t % 16 = 0, t < UInt, t <= 536870912
  PROVE  ((((t \div 16) % 65536) + ((t \div 1048576) % 65536) * 65536) * 16) % UInt = t
<1> DEFINE p == t \div 16
           h == t \div 1048576
<1>1. p \in Nat /\ t = 16 * p
  OBVIOUS
<1>2. h \in Nat /\ h < 65536
  BY DEF UShort
<1>3. h = p \div 65536
  OBVIOUS
<1>4. h % 65536 = h
  BY <1>2, SmallModulus
<1>5. (p % 65536) + h * 65536 = p
  <2> HIDE DEF p, h
  <2> QED BY <1>1, <1>3
<1>6. ((p % 65536) + (h % 65536) * 65536) * 16 = t
  <2> HIDE DEF p, h
  <2> QED BY <1>1, <1>4, <1>5
<1> QED BY <1>6, SmallModulus, WidthAssumption

(* A disk of a known sector size that saveAtr has written is opened by      *)
(* openAtr as a disk of the same number of sectors of the same lengths, and *)
(* is not taken for a damaged one: nothing is lost beyond the tracks.       *)
THEOREM AtrReopens ==
  ASSUME NEW sides, NEW tracks, NEW spt, NEW bps \in SectorSizes,
         Fits(sides, tracks, spt, bps),
         Geometry(sides, tracks, spt, bps).count >= 1,
         Geometry(sides, tracks, spt, bps).count < UShort
  PROVE  LET g == Geometry(sides, tracks, spt, bps)
             r == OpenAtr(AtrHeader(g), g.total)
         IN  r.opened /\ ~r.modified /\ r.geometry.count = g.count /\ r.geometry.bps = g.bps
<1> DEFINE g == Geometry(sides, tracks, spt, bps)
           n == g.count
<1>1. g.bps = bps /\ g.total = Size(n, bps)
  BY GeometryFields
<1>2. n \in Nat /\ n >= 1 /\ n < UShort
  BY GeometryFields
<1> HIDE DEF g
<1>3. /\ g.total \in Nat /\ g.total <= 536870912
      /\ g.total % 128 = 0
      /\ g.total < UInt
  <2> HIDE DEF n
  <2> QED BY <1>1, <1>2, SizeBound, WidthAssumption DEF UShort
<1>4. HeaderSize(AtrHeader(g)) = g.total
  <2>1. g.total \in Nat /\ g.total % 16 = 0 /\ g.total <= 536870912
    BY <1>3 DEF UShort
  <2> QED BY <1>3, <2>1, HeaderHoldsSize DEF HeaderSize, AtrHeader
<1>5. SizeValid(g.total, bps)
  <2> HIDE DEF n
  <2>1. CASE bps = 256
    <3>1. g.total = IF n <= 3 THEN n * 128 ELSE n * 256 - 384
      BY <1>1, <2>1 DEF Size
    <3> QED BY <1>2, <2>1, <3>1 DEF SizeValid, UShort
  <2>2. CASE bps # 256
    <3>1. g.total = n * bps
      BY <1>1, <2>2 DEF Size
    <3>2. g.total % bps = 0
      BY <1>2, <2>2, <3>1 DEF SectorSizes, UShort
    <3> QED BY <2>2, <3>2 DEF SizeValid
  <2> QED BY <2>1, <2>2
<1>6. FromSize(g.total, bps).count = n /\ FromSize(g.total, bps).bps = bps
  BY <1>1, <1>2, SizeGivesCount
<1>7. AtrHeader(g).secSize = bps
  BY <1>1 DEF AtrHeader
<1>8. OpenAtr(AtrHeader(g), g.total) = Opened(FromSize(g.total, bps), FALSE)
  <2> HIDE DEF n
  <2>1. n < UShort
    BY <1>2 DEF UShort
  <2> QED BY <1>4, <1>5, <1>6, <1>7, <2>1 DEF OpenAtr
<1> QED BY <1>1, <1>6, <1>8 DEF Opened, g

(* The PERCOM block that toPercomBlock gives to the Atari and initialize    *)
(* takes back describes the same disk: a format after a get and a set of    *)
(* the block changes no sector.                                             *)
THEOREM PercomRoundTrip ==
  ASSUME NEW sides, NEW tracks, NEW spt, NEW bps, Fits(sides, tracks, spt, bps)
  PROVE  LET g == Geometry(sides, tracks, spt, bps) IN FromPercom(ToPercom(g)) = g
<1> DEFINE g == Geometry(sides, tracks, spt, bps)
<1>1. g.sides = sides /\ g.tracks = tracks /\ g.spt = spt /\ g.bps = bps
  BY GeometryFields
<1> HIDE DEF g
<1>2. sides \in {1, 2} /\ spt \in Nat /\ bps \in Nat
  BY DEF Fits, UShort
<1>3. (spt \div 256) * 256 + (spt % 256) = spt /\ (bps \div 256) * 256 + (bps % 256) = bps
  BY <1>2, TwoBytes
<1>4. (IF sides - 1 = 0 THEN 1 ELSE 2) = sides
  BY <1>2
<1>5. FromPercom(ToPercom(g)) = Geometry(sides, tracks, spt, bps)
  BY <1>1, <1>3, <1>4 DEF FromPercom, ToPercom
<1> QED BY <1>5 DEF g

(* An image of more than 65535 single density sectors is not refused: the   *)
(* count has gone through a quint16 before openAtr compares it with 65535,  *)
(* so that the disk is opened with what is left of it.                      *)
THEOREM LargeImagesAreCut ==
  ASSUME NEW h, h.secSize = 128, NEW n \in Nat, n >= UShort, n * 128 + 128 < UInt
  PROVE  LET r == OpenAtr(h, n * 128) IN r.opened /\ r.geometry.count = n % UShort
<1> DEFINE size == n * 128
           m == n % UShort
<1>1. size \in Nat /\ size > 133120 /\ size % 128 = 0 /\ UInt \in Nat
  BY WidthAssumption DEF UShort
<1>2. m \in Nat /\ m < UShort /\ 1 * 1 * m = m
  BY DEF UShort
<1>3. RoundUp(size, 128) = n
  <2>1. size + 128 - 1 \in Nat /\ size + 128 - 1 < UInt
    BY <1>1
  <2>2. (size + 128 - 1) % UInt = size + 128 - 1
    BY <1>1, <2>1, SmallModulus
  <2>3. (size + 128 - 1) \div 128 = n
    OBVIOUS
  <2> QED BY <2>2, <2>3 DEF RoundUp
<1> HIDE DEF size
<1>4. FromSize(size, 128) = Geometry(1, 1, m, 128)
  BY <1>1, <1>3 DEF FromSize, HardDisk
<1> HIDE DEF m
<1>5. FromSize(size, 128).count = m
  BY <1>2, <1>4 DEF Geometry
<1>6. SizeValid(size, 128)
  BY <1>1 DEF SizeValid
<1>7. OpenAtr(h, size) = Opened(FromSize(size, 128), HeaderSize(h) # size)
  BY <1>2, <1>5, <1>6 DEF OpenAtr, SectorSizes
<1> QED BY <1>5, <1>7 DEF Opened, size, m

(* A double density disk that is not one of the standard floppies comes     *)
(* back from an XFD file without its last three sectors: saveXfd accepts it,*)
(* but initialize(size) does not count the three short sectors.             *)
THEOREM XfdLosesThreeSectors ==
  ASSUME NEW n \in Nat, n >= 4, n < UShort, n # 720, n # 1440
  PROVE  LET g == Geometry(1, 1, n, 256)
         IN  /\ XfdAccepts(g)
             /\ OpenXfd(g.total).opened
             /\ OpenXfd(g.total).geometry.count = n - 3
<1> DEFINE g == Geometry(1, 1, n, 256)
<1>1. n \in Nat /\ n >= 1 /\ 1 * 1 * n = n
  BY DEF UShort
<1>2. 256 \in SectorSizes
  BY DEF SectorSizes
<1>3. g.total = n * 256 - 384 /\ g.bps = 256
  BY <1>1, <1>2, HardDiskFields DEF Size
<1> HIDE DEF g
<1>4. (g.total - 384) % UInt = (n - 3) * 256
  <2>1. g.total - 384 = (n - 3) * 256
    BY <1>1, <1>3
  <2>2. (n - 3) * 256 \in Nat /\ (n - 3) * 256 < UInt
    BY WidthAssumption DEF UShort
  <2> QED BY <2>1, <2>2, SmallModulus, WidthAssumption
<1>5. ((n - 3) * 256) % 256 = 0 /\ ((n - 3) * 256) \div 256 = n - 3
  BY <1>1
<1>6. g.total \notin {92160, 133120, 183936, 368256}
  BY <1>1, <1>3
<1>7. FromSizeAlone(g.total) = HardDisk(n - 3, 256)
  BY <1>4, <1>5, <1>6 DEF FromSizeAlone
<1>8. n - 3 \in Nat /\ n - 3 >= 1 /\ n - 3 < UShort
  BY DEF UShort
<1>9. FromSizeAlone(g.total).count = n - 3 /\ FromSizeAlone(g.total).bps = 256
  BY <1>7, <1>8, HardDiskFields DEF SectorSizes
<1>10. g.total % 128 = 0
  BY <1>1, <1>3
<1> QED BY <1>3, <1>9, <1>10 DEF XfdAccepts, OpenXfd, Opened, g
=============================================================================
