--------------------------- MODULE MCDiskGeometry ---------------------------
(* The operators of DiskGeometry against reference definitions, over small  *)
(* inputs; evaluated by the runs whose module extends this one.             *)
EXTENDS DiskGeometry

SmallDisks == {Geometry(sides, tracks, spt, bps) :
                 sides \in {1, 2}, tracks \in {1, 2, 3}, spt \in {1, 2, 3, 4, 9, 18, 26},
                 bps \in SectorSizes \cup {1024}}

(* A sector begins where the lengths of the sectors before it end.          *)
ASSUME OffsetsAreSums ==
  \A g \in SmallDisks :
    LET End[s \in 0..g.count] == IF s = 0 THEN 0 ELSE End[s - 1] + SectorLength(g, s)
    IN  /\ \A s \in 1..g.count : SectorOffset(g, s) = End[s - 1]
        /\ End[g.count] = g.total

(* What is saved as ATR is opened as the same sectors, not counted repaired.*)
ASSUME AtrKeepsSectors ==
  \A g \in Floppies \cup {d \in SmallDisks : d.bps \in SectorSizes} :
    LET r == OpenAtr(AtrHeader(g), g.total)
    IN  r.opened /\ ~r.modified /\ r.geometry.count = g.count /\ r.geometry.bps = g.bps

(* The New Image dialog gets the number of sectors it asks for.             *)
ASSUME NewImageCounts ==
  \A n \in 1..800 \cup 65530..65535, bps \in SectorSizes : NewImage(n, bps).count = n

(* The floppies keep all their sectors as XFD, another double density disk  *)
(* loses three, and a single density disk of an odd size is refused.        *)
ASSUME XfdOutcomes ==
  /\ \A g \in Floppies : OpenXfd(g.total) = Opened(g, FALSE)
  /\ \A n \in 4..800 \ {720} :
       LET g == Geometry(1, 1, n, 256)
       IN  XfdAccepts(g) /\ OpenXfd(g.total).geometry.count = n - 3
  /\ \A n \in 1..800 \ {720} :
       LET g == Geometry(1, 1, n, 128)
       IN  IF n % 2 = 1 THEN ~XfdAccepts(g) ELSE OpenXfd(g.total).geometry.count = n

ASSUME PercomIsExact == \A g \in SmallDisks : FromPercom(ToPercom(g)) = g

(* An image of too many sectors is opened with a few of them.               *)
ASSUME OversizeIsCut ==
  \A n \in {65536, 65537, 65536 + 720} :
    LET r == OpenAtr([lo |-> 0, hi |-> 0, secSize |-> 128], n * 128)
    IN  r.opened /\ r.geometry.count = n % UShort
=============================================================================
