------------------------- MODULE AtariFileSystemProofs -------------------------
(***************************************************************************)
(* The explorer on a DOS disk, for any disk, directories, files and tasks: *)
(* no sector belongs to two entries, every file can be read back, both     *)
(* maps count what they hold, and the window shows what is on the disk.    *)
(*                                                                         *)
(* The directories in use, how deep each lies and where the blocks of each *)
(* file are can be told from the disk, but only by following its links.    *)
(* The invariant speaks of them as of three things that exist, and each    *)
(* action says how they change.                                            *)
(***************************************************************************)
EXTENDS AtariFileSystem, FiniteSetTheorems, SequenceTheorems, WellFoundedInduction, TLAPS

-----------------------------------------------------------------------------
(* Induction.                                                               *)

(* A set of numbers that is not empty has a least element.                  *)
LEMMA Least ==
  ASSUME NEW T \in SUBSET Nat, T # {}
  PROVE  \E x \in T : \A y \in T : x <= y
<1>1. \A x, y \in Nat : y < x => <<y, x>> \in OpToRel(<, Nat)
  BY DEF OpToRel
<1>2. PICK R : IsWellFoundedOn(R, Nat) /\ \A x, y \in Nat : y < x => <<y, x>> \in R
  BY <1>1, NatLessThanWellFounded
<1>3. \E x \in T : \A y \in T : ~ (<<y, x>> \in R)
  BY <1>2, WFMin
<1>4. PICK x \in T : \A y \in T : ~ (<<y, x>> \in R)
  BY <1>3
<1>5. \A y \in T : ~ (y < x)
  BY <1>2, <1>4
<1> QED
  BY <1>5

(* Min of the community modules is that element.                            *)
LEMMA MinIs ==
  ASSUME NEW T \in SUBSET Nat, T # {}
  PROVE  Min(T) \in T /\ \A y \in T : Min(T) <= y
  BY Least DEF Min

(* Induction, for a set instead of a predicate.                             *)
LEMMA Induction ==
  ASSUME NEW S, 0 \in S, \A n \in Nat : n \in S => n + 1 \in S
  PROVE  Nat \subseteq S
<1> SUFFICES ASSUME Nat \ S # {} PROVE FALSE
  OBVIOUS
<1>1. PICK x \in Nat \ S : \A y \in Nat \ S : x <= y
  BY Least
<1>2. x # 0 /\ x - 1 \in Nat
  BY <1>1
<1>3. x - 1 \in S
  BY <1>1, <1>2
<1> QED
  BY <1>1, <1>2, <1>3

(* A function that is given step by step exists.                            *)
Follows(f, base, G, n) == f[0] = base /\ \A i \in 1..n : f[i] = G[<<i, f[i - 1]>>]

(* For every length such a function is there, because it is for 0 and can   *)
(* be made longer by one.                                                   *)
LEMMA Recursion ==
  ASSUME NEW S, NEW base \in S, NEW G, G \in [Nat \X S -> S], NEW n \in Nat
  PROVE  \E f \in [0..n -> S] : Follows(f, base, G, n)
<1> DEFINE Given(f, m) == f = [i \in 0..m |-> IF i = 0 THEN base ELSE G[<<i, f[i - 1]>>]]
           Upto(m) == \E f \in [0..m -> S] : Given(f, m)
           T == {m \in Nat : Upto(m)}
<1>1. Upto(0)
  <2>1. [i \in 0..0 |-> base] \in [0..0 -> S] /\ Given([i \in 0..0 |-> base], 0)
    OBVIOUS
  <2> QED
    BY <2>1
<1>2. ASSUME NEW m \in Nat, Upto(m)
      PROVE  Upto(m + 1)
  <2>1. PICK f \in [0..m -> S] : Given(f, m)
    BY <1>2
  <2> DEFINE g == [i \in 0..m + 1 |-> IF i = 0 THEN base ELSE G[<<i, f[i - 1]>>]]
  <2>2. \A i \in 0..m : g[i] = f[i]
    BY <2>1
  <2>3. \A i \in 0..m + 1 : g[i] \in S
    <3> TAKE i \in 0..m + 1
    <3>1. i = 0 \/ (i - 1 \in 0..m /\ i \in Nat)
      OBVIOUS
    <3>2. i # 0 => <<i, f[i - 1]>> \in Nat \X S
      BY <2>1, <3>1
    <3> QED
      BY <3>1, <3>2
  <2>4. \A i \in 0..m + 1 : g[i] = IF i = 0 THEN base ELSE G[<<i, g[i - 1]>>]
    <3> TAKE i \in 0..m + 1
    <3>1. i # 0 => i - 1 \in 0..m
      OBVIOUS
    <3> QED
      BY <2>2, <3>1
  <2>5. g = [i \in 0..m + 1 |-> IF i = 0 THEN base ELSE G[<<i, g[i - 1]>>]]
    BY <2>4
  <2>6. g \in [0..m + 1 -> S]
    BY <2>3
  <2> HIDE DEF g
  <2> QED
    BY <2>5, <2>6
<1>3. Nat \subseteq T
  <2> HIDE DEF Upto
  <2>1. 0 \in T /\ \A m \in Nat : m \in T => m + 1 \in T
    BY <1>1, <1>2
  <2> HIDE DEF T
  <2> QED
    BY <2>1, Induction
<1>4. PICK f \in [0..n -> S] : Given(f, n)
  BY <1>3
<1>5. f[0] = base /\ \A i \in 1..n : i \in 0..n /\ i # 0 /\ f[i] = G[<<i, f[i - 1]>>]
  BY <1>4
<1> QED
  BY <1>5 DEF Follows

-----------------------------------------------------------------------------
(* Free sectors.                                                            *)

Data == Sector \ System

(* The sectors that may be free at all are numbers, none of them system's.  *)
LEMMA DataIs == Data \subseteq Nat /\ \A s \in Data : s >= FirstFree /\ s \in Sector
  BY FileSystemAssumption DEF Data, Sector, FirstFree

(* Sectors are finitely many numbers.                                       *)
LEMMA SectorIs == 0 \in Sector /\ Sector \subseteq Nat /\ IsFiniteSet(Sector)
<1>1. LastSector \in Nat
  BY FileSystemAssumption
<1>2. IsFiniteSet(0..LastSector)
  BY <1>1, FS_Interval
<1> QED
  BY <1>1, <1>2 DEF Sector

(* A map of free sectors can be counted.                                    *)
LEMMA FiniteMap ==
  ASSUME NEW map \in SUBSET Data
  PROVE  IsFiniteSet(map) /\ Cardinality(map) \in Nat
<1>1. map \in SUBSET Sector
  BY DEF Data
<1>2. IsFiniteSet(map)
  BY <1>1, SectorIs, FS_Subset
<1> QED
  BY <1>2, FS_CardinalityType

(* No map is larger than what can be counted.                               *)
LEMMA CountIs ==
  ASSUME NEW map \in SUBSET Data
  PROVE  Cardinality(map) \in 0..CountRange - 1 /\ Cardinality(map) % CountRange = Cardinality(map)
<1>1. LastSector \in Nat /\ CountRange \in Nat /\ LastSector < CountRange
  BY FileSystemAssumption
<1>2. map \subseteq 1..LastSector
  BY DataIs DEF Sector, FirstFree
<1>3. IsFiniteSet(1..LastSector) /\ Cardinality(1..LastSector) = LastSector
  BY <1>1, FS_Interval
<1>4. Cardinality(map) <= LastSector /\ Cardinality(map) \in Nat
  BY <1>2, <1>3, FS_Subset, FiniteMap
<1> DEFINE n == Cardinality(map)
<1>5. n \in Nat /\ n < CountRange
  BY <1>1, <1>4
<1> HIDE DEF n
<1>6. n % CountRange = n
  BY <1>1, <1>5
<1> QED
  BY <1>1, <1>5, <1>6 DEF n

(* Whatever is counted fits into 16 bits.                                   *)
LEMMA CounterIs ==
  ASSUME NEW n \in Int
  PROVE  n % CountRange \in 0..CountRange - 1
<1>1. CountRange \in Nat /\ CountRange > 0
  BY FileSystemAssumption
<1> QED
  BY <1>1

(* All sectors of a map can be had.                                         *)
LEMMA UsableIs ==
  ASSUME NEW map \in SUBSET Data
  PROVE  Usable(map) = map
BY DataIs DEF Usable

(* findFreeSector finds one as long as there is one.                        *)
LEMMA FindFreeIs ==
  ASSUME NEW map \in SUBSET Data, NEW from \in Nat
  PROVE  /\ FindFree(map, from) \in Sector
         /\ map # {} => FindFree(map, from) \in map
<1> DEFINE usable == Usable(map)
           later  == {s \in usable : s >= from}
<1>1. usable = map /\ later \in SUBSET Nat /\ map \in SUBSET Nat
  BY UsableIs, DataIs
<1>2. later # {} => Min(later) \in later
  BY <1>1, MinIs
<1>3. usable # {} => Min(usable) \in usable
  BY <1>1, MinIs
<1>4. FindFree(map, from) =
        IF later # {} THEN Min(later) ELSE IF usable # {} THEN Min(usable) ELSE 0
  BY DEF FindFree
<1>5. later \subseteq map
  BY <1>1
<1>6. CASE map # {}
  <2> HIDE DEF usable, later
  <2>1. FindFree(map, from) \in map
    BY <1>1, <1>2, <1>3, <1>4, <1>5, <1>6
  <2> QED
    BY <2>1, DataIs
<1>7. CASE map = {}
  <2> HIDE DEF usable, later
  <2>1. FindFree(map, from) = 0
    BY <1>1, <1>4, <1>5, <1>7
  <2> QED
    BY <2>1, <1>7, SectorIs
<1> QED
  BY <1>6, <1>7

Before(at, i)         == {at[j] : j \in 1..i - 1}
NextSector(map, at, i) ==
  FindFree(map \ Before(at, i), IF i = 1 THEN 0 ELSE at[i - 1] + 1)

(* Each block of a file takes a sector that the blocks before it have not   *)
(* taken, as long as there is one.                                          *)
LEMMA NextSectorIs ==
  ASSUME NEW map \in SUBSET Data, NEW i \in Nat \ {0}, NEW at, \A j \in 1..i - 1 : at[j] \in Sector
  PROVE  /\ NextSector(map, at, i) \in Sector
         /\ map \ Before(at, i) # {} => NextSector(map, at, i) \in map \ Before(at, i)
<1> DEFINE from == IF i = 1 THEN 0 ELSE at[i - 1] + 1
           left == map \ Before(at, i)
<1>1. from \in Nat
  <2>1. i # 1 => i - 1 \in 1..i - 1
    OBVIOUS
  <2>2. i # 1 => at[i - 1] \in Sector
    BY <2>1
  <2>3. \A s \in Sector : s + 1 \in Nat
    BY SectorIs
  <2> QED
    BY <2>2, <2>3
<1>2. left \in SUBSET Data
  OBVIOUS
<1> QED
  BY <1>1, <1>2, FindFreeIs DEF NextSector

(* There is a function that satisfies the equation of Allocation, so that   *)
(* its CHOOSE chooses one.                                                  *)
LEMMA AllocationExists ==
  ASSUME NEW map \in SUBSET Data, NEW n \in Nat
  PROVE  \E at \in [1..n -> Sector] : at = [i \in 1..n |-> NextSector(map, at, i)]
<1> DEFINE Upto(m) == \E at \in [1..m -> Sector] : at = [i \in 1..m |-> NextSector(map, at, i)]
           T == {m \in Nat : Upto(m)}
<1>1. Upto(0)
  <2> DEFINE none == [i \in 1..0 |-> 0]
  <2>1. none \in [1..0 -> Sector] /\ none = [i \in 1..0 |-> NextSector(map, none, i)]
    OBVIOUS
  <2> QED
    BY <2>1
<1>2. ASSUME NEW m \in Nat, Upto(m)
      PROVE  Upto(m + 1)
  <2>1. PICK at \in [1..m -> Sector] : at = [i \in 1..m |-> NextSector(map, at, i)]
    BY <1>2
  <2> DEFINE g == [i \in 1..m + 1 |-> NextSector(map, at, i)]
  <2>2. \A i \in 1..m : g[i] = at[i]
    BY <2>1
  <2>3. ASSUME NEW i \in 1..m + 1
        PROVE  g[i] \in Sector /\ NextSector(map, g, i) = NextSector(map, at, i)
    <3>1. \A j \in 1..i - 1 : j \in 1..m /\ at[j] \in Sector /\ g[j] = at[j]
      BY <2>2
    <3>2. g[i] \in Sector
      <4>1. i \in Nat \ {0} /\ \A j \in 1..i - 1 : at[j] \in Sector
        BY <3>1
      <4>2. NextSector(map, at, i) \in Sector
        BY <4>1, NextSectorIs
      <4> QED
        BY <4>2
    <3>3. Before(g, i) = Before(at, i)
      <4> HIDE DEF g
      <4> QED
        BY <3>1 DEF Before
    <3>4. i # 1 => g[i - 1] = at[i - 1]
      <4> HIDE DEF g
      <4>1. i # 1 => i - 1 \in 1..i - 1
        OBVIOUS
      <4> QED
        BY <3>1, <4>1
    <3> QED
      <4> HIDE DEF g
      <4> QED
        BY <3>2, <3>3, <3>4 DEF NextSector
  <2>4. g = [i \in 1..m + 1 |-> NextSector(map, g, i)]
    BY <2>3
  <2>5. g \in [1..m + 1 -> Sector]
    BY <2>3
  <2> HIDE DEF g
  <2> QED
    BY <2>4, <2>5
<1>3. Nat \subseteq T
  <2> HIDE DEF Upto
  <2>1. 0 \in T /\ \A m \in Nat : m \in T => m + 1 \in T
    BY <1>1, <1>2
  <2> HIDE DEF T
  <2> QED
    BY <2>1, Induction
<1> QED
  BY <1>3

(* What Allocation chooses is a sector for every block, each found as       *)
(* findFreeSector finds it.                                                 *)
LEMMA AllocationIs ==
  ASSUME NEW map \in SUBSET Data, NEW n \in Nat
  PROVE  LET at == Allocation(map, n)
         IN  at \in [1..n -> Sector] /\ \A i \in 1..n : at[i] = NextSector(map, at, i)
<1>1. Allocation(map, n) = CHOOSE at : at = [i \in 1..n |-> NextSector(map, at, i)]
  BY DEF Allocation, NextSector, Before
<1>2. PICK f \in [1..n -> Sector] : f = [i \in 1..n |-> NextSector(map, f, i)]
  BY AllocationExists
<1> DEFINE at == Allocation(map, n)
<1>3. at = [i \in 1..n |-> NextSector(map, at, i)]
  BY <1>1, <1>2
<1> HIDE DEF at
<1>4. \A i \in 1..n : at[i] = NextSector(map, at, i)
  BY <1>3
<1> DEFINE T == {m \in Nat : \A i \in 1..n : i <= m => at[i] \in Sector}
<1>5. 0 \in T
  OBVIOUS
<1>6. ASSUME NEW m \in Nat, m \in T
      PROVE  m + 1 \in T
  <2>1. ASSUME NEW i \in 1..n, i <= m + 1
        PROVE  at[i] \in Sector
    <3>1. \A j \in 1..i - 1 : at[j] \in Sector
      BY <1>6, <2>1
    <3>2. i \in Nat \ {0}
      OBVIOUS
    <3>3. NextSector(map, at, i) \in Sector
      BY <3>1, <3>2, NextSectorIs
    <3> QED
      BY <1>4, <3>3
  <2> QED
    BY <2>1
<1>7. Nat \subseteq T
  <2> HIDE DEF T
  <2> QED
    BY <1>5, <1>6, Induction
<1>8. \A i \in 1..n : at[i] \in Sector
  BY <1>7
<1>9. at \in [1..n -> Sector]
  BY <1>3, <1>8
<1> QED
  BY <1>4, <1>9 DEF at

(* A list has at most as many values as places, and exactly as many if no   *)
(* two are the same.                                                        *)
LEMMA ImageSize ==
  ASSUME NEW m \in Nat, NEW at
  PROVE  /\ IsFiniteSet({at[j] : j \in 1..m})
         /\ Cardinality({at[j] : j \in 1..m}) <= m
         /\ (\A i, j \in 1..m : i # j => at[i] # at[j]) => Cardinality({at[j] : j \in 1..m}) = m
<1> DEFINE T == {at[j] : j \in 1..m}
           f == [j \in 1..m |-> at[j]]
<1>1. f \in Surjection(1..m, T)
  BY DEF Surjection
<1>2. IsFiniteSet(1..m) /\ Cardinality(1..m) = m
  BY FS_Interval
<1>3. (\A i, j \in 1..m : i # j => at[i] # at[j]) => f \in Injection(1..m, T)
  BY DEF Injection, IsInjective
<1> HIDE DEF f, T
<1>4. IsFiniteSet(T) /\ Cardinality(T) <= m /\ (Cardinality(T) = m <=> f \in Injection(1..m, T))
  BY <1>1, <1>2, FS_Surjection
<1> QED
  BY <1>3, <1>4 DEF T

(* A file that is not longer than the free space gets different free        *)
(* sectors for all its blocks.                                              *)
LEMMA AllocationGood ==
  ASSUME NEW map \in SUBSET Data, NEW n \in Nat, n <= Cardinality(map)
  PROVE  LET at == Allocation(map, n)
         IN  /\ at \in [1..n -> map]
             /\ \A i, j \in 1..n : i # j => at[i] # at[j]
<1> DEFINE at == Allocation(map, n)
<1>1. at \in [1..n -> Sector] /\ \A i \in 1..n : at[i] = NextSector(map, at, i)
  BY AllocationIs
<1> HIDE DEF at
<1>2. ASSUME NEW i \in 1..n
      PROVE  at[i] \in map \ Before(at, i)
  <2>1. i - 1 \in Nat /\ i \in Nat \ {0} /\ \A j \in 1..i - 1 : at[j] \in Sector
    BY <1>1
  <2>2. IsFiniteSet(Before(at, i)) /\ Cardinality(Before(at, i)) <= i - 1
    BY <2>1, ImageSize DEF Before
  <2>3. IsFiniteSet(map) /\ Cardinality(map) \in Nat
    BY FiniteMap
  <2>4. map \ Before(at, i) # {}
    <3> SUFFICES ASSUME map \subseteq Before(at, i) PROVE FALSE
      OBVIOUS
    <3>1. Cardinality(map) <= Cardinality(Before(at, i)) /\ Cardinality(Before(at, i)) \in Nat
      BY <2>2, FS_Subset, FS_CardinalityType
    <3> QED
      BY <2>1, <2>2, <2>3, <3>1
  <2> QED
    BY <1>1, <2>1, <2>4, NextSectorIs
<1>3. \A i, j \in 1..n : j < i => at[i] # at[j]
  BY <1>2 DEF Before
<1>4. at \in [1..n -> map]
  BY <1>1, <1>2
<1>5. \A i, j \in 1..n : i # j => at[i] # at[j]
  BY <1>3
<1> QED
  BY <1>4, <1>5 DEF at

-----------------------------------------------------------------------------
(* Chains.                                                                  *)

(* A file whose blocks are at p: its chain visits p, and then ends.         *)
LEMMA ChainIs ==
  ASSUME NEW e \in Entry, e.count >= 1, NEW p, p[1] = e.first,
         \A i \in 1..e.count :
           /\ p[i] \in Data
           /\ data[p[i]].next = IF i < e.count THEN p[i + 1] ELSE 0
  PROVE  /\ DOMAIN Chain(e) = 0..e.count
         /\ \A i \in 0..e.count : Chain(e)[i] = IF i < e.count THEN p[i + 1] ELSE 0
<1> DEFINE n == e.count
           Rec(at) == [i \in 0..n |->
                         IF i = 0 THEN e.first
                         ELSE IF at[i - 1] = 0 THEN 0 ELSE data[at[i - 1]].next]
           g == [i \in 0..n |-> IF i < n THEN p[i + 1] ELSE 0]
           c == Chain(e)
<1>1. n \in Nat /\ n >= 1
  BY DEF Entry
<1>2. \A i \in 1..n : p[i] # 0 /\ data[p[i]].next = IF i < n THEN p[i + 1] ELSE 0
  BY DataIs DEF FirstFree
<1>3. ASSUME NEW i \in 0..n
      PROVE  g[i] = Rec(g)[i]
  <2>1. CASE i = 0
    BY <1>1, <2>1
  <2>2. CASE i # 0
    <3>1. i - 1 \in 0..n /\ i - 1 < n /\ i \in 1..n
      BY <1>1, <2>2
    <3>2. g[i - 1] = p[i]
      BY <3>1
    <3>3. g[i - 1] # 0 /\ data[g[i - 1]].next = IF i < n THEN p[i + 1] ELSE 0
      BY <1>2, <3>1, <3>2
    <3> HIDE DEF n
    <3>4. Rec(g)[i] = IF i < n THEN p[i + 1] ELSE 0
      <4> HIDE DEF g
      <4> QED
        BY <2>2, <3>3
    <3> QED
      BY <3>4
  <2> QED
    BY <2>1, <2>2
<1>4. g = Rec(g)
  <2>1. DOMAIN g = DOMAIN Rec(g)
    OBVIOUS
  <2> HIDE DEF n
  <2> QED
    BY <1>3, <2>1
<1>5. c = CHOOSE at : at = Rec(at)
  BY DEF Chain
<1>6. c = Rec(c)
  <2> HIDE DEF g, c
  <2> QED
    BY <1>4, <1>5
<1> HIDE DEF c
<1>7. DOMAIN c = 0..n
  BY <1>6
<1> DEFINE T == {m \in Nat : m <= n => c[m] = g[m]}
<1>8. 0 \in T
  BY <1>1, <1>6
<1>9. ASSUME NEW m \in Nat, m \in T
      PROVE  m + 1 \in T
  <2> SUFFICES ASSUME m + 1 <= n PROVE c[m + 1] = g[m + 1]
    OBVIOUS
  <2>1. c[m] = g[m]
    BY <1>1, <1>9
  <2>2. m + 1 \in 0..n /\ m + 1 # 0 /\ (m + 1) - 1 = m
    BY <1>1
  <2> HIDE DEF n, g
  <2>3. c[m + 1] = Rec(c)[m + 1] /\ g[m + 1] = Rec(g)[m + 1]
    BY <1>4, <1>6
  <2> QED
    BY <2>1, <2>2, <2>3
<1>10. Nat \subseteq T
  <2> HIDE DEF T
  <2> QED
    BY <1>8, <1>9, Induction
<1>11. \A i \in 0..n : c[i] = g[i]
  <2> HIDE DEF c, g
  <2> QED
    BY <1>1, <1>10
<1> QED
  BY <1>7, <1>11 DEF c

ChainSet(e, no)   == {Chain(e)[i] : i \in Steps(e, no)}
SectorsUpTo(p, n) == {p[i] : i \in 1..n}

(* Where all sectors carry the file's number, none is foreign and every     *)
(* step is taken.                                                           *)
LEMMA ChainOwn ==
  ASSUME NEW e \in Entry, e.count >= 1, NEW p, p[1] = e.first, NEW no,
         \A i \in 1..e.count :
           /\ p[i] \in Data
           /\ data[p[i]].next = IF i < e.count THEN p[i + 1] ELSE 0
           /\ data[p[i]].file = no
  PROVE  /\ Foreign(e, no) = {}
         /\ Steps(e, no) = 0..e.count - 1
         /\ ChainSet(e, no) = SectorsUpTo(p, e.count)
<1>1. \A i \in 0..e.count : Chain(e)[i] = IF i < e.count THEN p[i + 1] ELSE 0
  BY ChainIs
<1>2. e.count \in Nat
  BY DEF Entry
<1>3. \A i \in 0..e.count - 1 : i + 1 \in 1..e.count /\ Chain(e)[i] = p[i + 1]
  BY <1>1, <1>2
<1>4. \A i \in 0..e.count - 1 : Chain(e)[i] # 0 /\ data[Chain(e)[i]].file = no
  BY <1>3, DataIs DEF FirstFree
<1>5. Foreign(e, no) = {}
  BY <1>4 DEF Foreign
<1>6. Steps(e, no) = 0..e.count - 1
  BY <1>4, <1>5 DEF Steps
<1>7. {Chain(e)[i] : i \in 0..e.count - 1} = {p[i] : i \in 1..e.count}
  <2>1. \A i \in 1..e.count : i - 1 \in 0..e.count - 1 /\ p[i] = Chain(e)[i - 1]
    BY <1>2, <1>3
  <2> QED
    BY <1>3, <2>1
<1> QED
  BY <1>5, <1>6, <1>7 DEF ChainSet, SectorsUpTo

(* On a disk with fewer sectors than a link can number, insert's |= leaves  *)
(* the sector's number as it is.                                            *)
LEMMA LinkIs ==
  ASSUME LastSector < LinkRange, NEW no, NEW s \in Sector
  PROVE  Link(no, s) = [file |-> no, next |-> s]
<1>1. s \in Nat /\ s < LinkRange /\ LinkRange \in Nat
  BY FileSystemAssumption DEF Sector
<1>2. s % LinkRange = s
  BY <1>1
<1> QED
  BY <1>1, <1>2 DEF Link

-----------------------------------------------------------------------------
(* Rows.                                                                    *)

RowOf(d, no) == [no |-> no, dir |-> d, entry |-> dirs[d][no]]

(* File numbers are finitely many.                                          *)
LEMMA NumberIs == Number \subseteq Nat /\ IsFiniteSet(Number)
<1>1. DirSectors * EntriesPerSector - 1 \in Int
  BY FileSystemAssumption
<1>2. Number \subseteq Nat
  BY <1>1 DEF Number
<1>3. IsFiniteSet(Number)
  BY <1>1, FS_Interval DEF Number
<1> QED
  BY <1>2, <1>3

(* Nth counts through the entries of a directory, each once.                *)
LEMMA NthIs ==
  ASSUME NEW d
  PROVE  LET n == Cardinality(Listed(d))
         IN  /\ n \in Nat
             /\ \A i \in 1..n : Nth(d, i) \in Listed(d)
             /\ \A i, j \in 1..n : i # j => Nth(d, i) # Nth(d, j)
             /\ \A no \in Listed(d) : \E i \in 1..n : Nth(d, i) = no
<1> DEFINE S == Listed(d)
           n == Cardinality(S)
           upto(no) == {k \in S : k <= no}
           f == [no \in S |-> Cardinality(upto(no))]
<1>1. S \subseteq Number /\ S \subseteq Nat
  BY NumberIs DEF Listed
<1>2. IsFiniteSet(S) /\ n \in Nat
  BY <1>1, NumberIs, FS_Subset, FS_CardinalityType
<1>3. ASSUME NEW no \in S
      PROVE  IsFiniteSet(upto(no)) /\ f[no] = Cardinality(upto(no)) /\ f[no] \in 1..n
  <2>1. upto(no) \in SUBSET S /\ no \in upto(no)
    BY <1>1
  <2>2. IsFiniteSet(upto(no)) /\ Cardinality(upto(no)) <= n /\ Cardinality(upto(no)) \in Nat
    <3> HIDE DEF upto
    <3> QED
      BY <1>2, <2>1, FS_Subset, FS_CardinalityType
  <2>3. Cardinality(upto(no)) # 0
    <3> HIDE DEF upto
    <3> QED
      BY <2>1, <2>2, FS_EmptySet
  <2> HIDE DEF S
  <2> QED
    BY <1>2, <2>2, <2>3
<1>4. ASSUME NEW a \in S, NEW b \in S, a < b
      PROVE  f[a] # f[b]
  <2>1. upto(a) \in SUBSET upto(b) /\ b \in upto(b) /\ b \notin upto(a)
    BY <1>1, <1>4
  <2>2. IsFiniteSet(upto(b)) /\ f[a] = Cardinality(upto(a)) /\ f[b] = Cardinality(upto(b))
    BY <1>3
  <2> HIDE DEF upto, f, S
  <2> QED
    BY <2>1, <2>2, FS_Subset
<1>5. f \in Injection(S, 1..n)
  <2>1. \A a, b \in S : a # b => f[a] # f[b]
    BY <1>1, <1>4
  <2>2. f \in [S -> 1..n]
    BY <1>3
  <2> HIDE DEF f, S
  <2> QED
    BY <2>1, <2>2 DEF Injection, IsInjective
<1>6. IsFiniteSet(1..n) /\ Cardinality(1..n) = n
  BY <1>2, FS_Interval
<1>7. f \in Surjection(S, 1..n)
  <2> HIDE DEF f, S
  <2> QED
    BY <1>5, <1>6, FS_Injection
<1>8. ASSUME NEW i \in 1..n
      PROVE  Nth(d, i) \in S /\ f[Nth(d, i)] = i
  <2>1. \E no \in S : f[no] = i
    <3> HIDE DEF f, S
    <3> QED
      BY <1>7 DEF Surjection
  <2>2. \E no \in S : Cardinality(upto(no)) = i
    BY <2>1
  <2>3. Nth(d, i) = CHOOSE no \in S : Cardinality(upto(no)) = i
    BY DEF Nth
  <2>4. Nth(d, i) \in S /\ Cardinality(upto(Nth(d, i))) = i
    <3> HIDE DEF upto, S
    <3> QED
      BY <2>2, <2>3
  <2> QED
    BY <2>4
<1>9. ASSUME NEW no \in S
      PROVE  \E i \in 1..n : Nth(d, i) = no
  <2>1. f[no] \in 1..n
    BY <1>3
  <2>2. Nth(d, f[no]) \in S /\ f[Nth(d, f[no])] = f[no]
    BY <1>8, <2>1
  <2>3. Nth(d, f[no]) = no
    <3> HIDE DEF f, S
    <3> QED
      BY <1>5, <2>2 DEF Injection, IsInjective
  <2> HIDE DEF f
  <2> QED
    BY <2>1, <2>3
<1> HIDE DEF f
<1> QED
  BY <1>2, <1>8, <1>9

(* A sequence of rows that shows each listed entry of a directory once.     *)
Shows(v, d) ==
  /\ v \in Seq(Row)
  /\ \A i \in 1..Len(v) : v[i].no \in Listed(d) /\ v[i] = RowOf(d, v[i].no)
  /\ \A i, j \in 1..Len(v) : i # j => v[i].no # v[j].no

(* getEntries gives the window one row for every entry.                     *)
LEMMA EntriesShown ==
  ASSUME NEW d \in Sector, dirs \in [Sector -> [Number -> Entry]]
  PROVE  /\ Shows(GetEntries(d), d)
         /\ \A no \in Listed(d) : \E i \in 1..Len(GetEntries(d)) : GetEntries(d)[i].no = no
         /\ ToSet(GetEntries(d)) = {RowOf(d, no) : no \in Listed(d)}
<1> DEFINE n == Cardinality(Listed(d))
           v == GetEntries(d)
<1>1. /\ n \in Nat
      /\ \A i \in 1..n : Nth(d, i) \in Listed(d)
      /\ \A i, j \in 1..n : i # j => Nth(d, i) # Nth(d, j)
      /\ \A no \in Listed(d) : \E i \in 1..n : Nth(d, i) = no
  BY NthIs
<1>2. v = [i \in 1..n |-> RowOf(d, Nth(d, i))]
  BY DEF GetEntries, RowOf
<1>3. \A no \in Listed(d) : RowOf(d, no) \in Row /\ RowOf(d, no).no = no
  BY DEF Listed, RowOf, Row
<1> HIDE DEF n, v
<1>4. v \in Seq(Row) /\ Len(v) = n /\ DOMAIN v = 1..n
  <2>1. v \in [1..n -> Row]
    BY <1>1, <1>2, <1>3
  <2> QED
    BY <1>1, <2>1, SeqDef
<1>5. \A i \in 1..n : v[i] = RowOf(d, Nth(d, i)) /\ v[i].no = Nth(d, i)
  BY <1>1, <1>2, <1>3
<1>6. Shows(v, d)
  BY <1>1, <1>4, <1>5 DEF Shows
<1>7. \A no \in Listed(d) : \E i \in 1..Len(v) : v[i].no = no
  BY <1>1, <1>4, <1>5
<1>8. ToSet(v) = {RowOf(d, no) : no \in Listed(d)}
  <2>1. ToSet(v) = {v[i] : i \in 1..n}
    BY <1>4 DEF ToSet
  <2>2. \A no \in Listed(d) : \E i \in 1..n : v[i] = RowOf(d, no)
    BY <1>1, <1>5
  <2> QED
    BY <1>1, <1>5, <2>1, <2>2
<1> QED
  BY <1>6, <1>7, <1>8 DEF v

(* RemoveAt closes the gap.                                                 *)
LEMMA RemoveAtIs ==
  ASSUME NEW S, NEW s \in Seq(S), NEW r \in 1..Len(s)
  PROVE  /\ RemoveAt(s, r) \in Seq(S)
         /\ Len(RemoveAt(s, r)) = Len(s) - 1
         /\ \A i \in 1..Len(s) - 1 : RemoveAt(s, r)[i] = IF i < r THEN s[i] ELSE s[i + 1]
<1> DEFINE a == SubSeq(s, 1, r - 1)
           b == SubSeq(s, r + 1, Len(s))
<1>1. Len(s) \in Nat /\ \A i \in 1..Len(s) : s[i] \in S
  BY ElementOfSeq
<1>2. /\ a \in Seq(S) /\ Len(a) = r - 1
      /\ \A i \in 1..r - 1 : a[i] = s[i]
  <2>1. \A i \in 1..r - 1 : s[i] \in S
    BY <1>1
  <2>2. \A i \in 1..(r - 1) - 1 + 1 : a[i] = s[1 + i - 1]
    BY <2>1, SubSeqProperties
  <2> QED
    BY <2>1, <2>2, SubSeqProperties
<1>3. /\ b \in Seq(S) /\ Len(b) = Len(s) - r
      /\ \A i \in 1..Len(s) - r : b[i] = s[r + i]
  <2>1. \A i \in r + 1..Len(s) : s[i] \in S
    BY <1>1
  <2>2. /\ b \in Seq(S)
        /\ Len(b) = IF r + 1 <= Len(s) THEN Len(s) - (r + 1) + 1 ELSE 0
        /\ \A i \in 1..Len(s) - (r + 1) + 1 : b[i] = s[(r + 1) + i - 1]
    BY <1>1, <2>1, SubSeqProperties
  <2>3. Len(b) = Len(s) - r
    BY <1>1, <2>2
  <2>4. \A i \in 1..Len(s) - r : (r + 1) + i - 1 = r + i /\ i \in 1..Len(s) - (r + 1) + 1
    BY <1>1
  <2> HIDE DEF b
  <2> QED
    BY <2>2, <2>3, <2>4
<1> HIDE DEF a, b
<1>4. /\ a \o b \in Seq(S) /\ Len(a \o b) = Len(a) + Len(b)
      /\ \A i \in 1..Len(a) + Len(b) : (a \o b)[i] = IF i <= Len(a) THEN a[i] ELSE b[i - Len(a)]
  BY <1>2, <1>3, ConcatProperties
<1>5. RemoveAt(s, r) = a \o b
  BY DEF RemoveAt, a, b
<1>6. \A i \in 1..Len(s) - 1 : (a \o b)[i] = IF i < r THEN s[i] ELSE s[i + 1]
  <2> TAKE i \in 1..Len(s) - 1
  <2>1. CASE i < r
    BY <1>1, <1>2, <1>3, <1>4, <2>1
  <2>2. CASE i >= r
    <3>1. i - (r - 1) \in 1..Len(s) - r /\ r + (i - (r - 1)) = i + 1
      BY <1>1, <2>2
    <3>2. (a \o b)[i] = b[i - (r - 1)]
      BY <1>1, <1>2, <1>3, <1>4, <2>2
    <3> QED
      BY <1>3, <2>2, <3>1, <3>2
  <2>3. i < r \/ i >= r
    BY <1>1
  <2> QED
    BY <2>1, <2>2, <2>3
<1>7. Len(a) + Len(b) = Len(s) - 1
  BY <1>1, <1>2, <1>3
<1> QED
  BY <1>4, <1>5, <1>6, <1>7


Injective(v) == \A k, l \in 1..Len(v) : k # l => v[k].no # v[l].no

(* What is left of the rows when the last i selected ones are gone.         *)
Stripped(v, rows, i) ==
  LET m    == Len(rows)
      q    == IF i = 0 THEN Len(view) + 1 ELSE rows[m - i + 1]
      kept == {j \in 1..Len(view) : \A a \in m - i + 1..m : rows[a] # j}
  IN  /\ v \in Seq(Row) /\ Injective(v)
      /\ Len(v) >= q - 1
      /\ \A k \in 1..q - 1 : v[k] = view[k]
      /\ \A k \in 1..Len(v) : \E j \in kept : v[k] = view[j]
      /\ \A j \in kept : \E k \in 1..Len(v) : v[k] = view[j]

(* One more row from the bottom: the row number is still that of the row it *)
(* was before.                                                              *)
LEMMA StripOne ==
  ASSUME view \in Seq(Row), Injective(view),
         NEW rows, rows \in Seq(1..Len(view)), TopDown(rows),
         NEW i \in 0..Len(rows) - 1, NEW v, Stripped(v, rows, i)
  PROVE  /\ rows[Len(rows) - i] <= Len(v)
         /\ Stripped(RemoveAt(v, rows[Len(rows) - i]), rows, i + 1)
<1> DEFINE m == Len(rows)
           r == rows[m - i]
           q == IF i = 0 THEN Len(view) + 1 ELSE rows[m - i + 1]
           kept(n) == {j \in 1..Len(view) : \A a \in m - n + 1..m : rows[a] # j}
           w == RemoveAt(v, r)
<1>1. m \in Nat /\ Len(view) \in Nat /\ DOMAIN rows = 1..m
  OBVIOUS
<1>2. m - i \in 1..m
  BY <1>1
<1>3. r \in 1..Len(view)
  BY <1>1, <1>2
<1>4. r <= q - 1 /\ q \in Nat
  <2>1. CASE i = 0
    BY <1>1, <1>3, <2>1
  <2>2. CASE i # 0
    <3>1. m - i + 1 \in 1..m /\ m - i < m - i + 1
      BY <1>1, <2>2
    <3>2. rows[m - i + 1] \in 1..Len(view)
      BY <3>1
    <3>3. r < rows[m - i + 1]
      BY <1>1, <1>2, <3>1 DEF TopDown
    <3> QED
      BY <1>1, <1>3, <2>2, <3>2, <3>3
  <2> QED
    BY <2>1, <2>2
<1>5. /\ v \in Seq(Row) /\ Injective(v) /\ Len(v) >= q - 1
      /\ \A k \in 1..q - 1 : v[k] = view[k]
      /\ \A k \in 1..Len(v) : \E j \in kept(i) : v[k] = view[j]
      /\ \A j \in kept(i) : \E k \in 1..Len(v) : v[k] = view[j]
  BY DEF Stripped
<1>6. Len(v) \in Nat
  BY <1>5
<1> HIDE DEF q
<1>7. r \in 1..Len(v) /\ v[r] = view[r]
  BY <1>1, <1>3, <1>4, <1>5, <1>6
<1>8. /\ w \in Seq(Row) /\ Len(w) = Len(v) - 1
      /\ \A k \in 1..Len(v) - 1 : w[k] = IF k < r THEN v[k] ELSE v[k + 1]
  <2> HIDE DEF r
  <2> QED
    BY <1>5, <1>7, RemoveAtIs
<1>9. kept(i + 1) = kept(i) \ {r}
  <2>1. m - (i + 1) + 1 = m - i
    BY <1>1
  <2>2. m - i..m = {m - i} \cup (m - i + 1..m)
    <3>1. m \in Int /\ i \in Nat
      BY <1>1
    <3> HIDE DEF m
    <3>2. \A x \in Int : x \in m - i..m <=> x = m - i \/ x \in m - i + 1..m
      BY <3>1
    <3> QED
      BY <3>1, <3>2
  <2> QED
    BY <2>1, <2>2
<1> HIDE DEF r, kept, w
<1>10. Injective(w)
  <2> SUFFICES ASSUME NEW k \in 1..Len(w), NEW l \in 1..Len(w), k # l
               PROVE  w[k].no # w[l].no
    BY DEF Injective
  <2>1. k \in 1..Len(v) - 1 /\ l \in 1..Len(v) - 1
    BY <1>8
  <2> DEFINE kk == IF k < r THEN k ELSE k + 1
             ll == IF l < r THEN l ELSE l + 1
  <2>2. kk \in 1..Len(v) /\ ll \in 1..Len(v) /\ kk # ll
    BY <1>6, <1>7, <2>1
  <2>3. w[k] = v[kk] /\ w[l] = v[ll]
    BY <1>8, <2>1
  <2> HIDE DEF kk, ll
  <2> QED
    BY <1>5, <2>2, <2>3 DEF Injective
<1>11. Len(w) >= r - 1 /\ \A k \in 1..r - 1 : w[k] = view[k]
  <2>1. \A k \in 1..r - 1 : k \in 1..q - 1 /\ k \in 1..Len(v) - 1 /\ k < r
    BY <1>4, <1>6, <1>7
  <2>2. Len(w) >= r - 1
    BY <1>6, <1>7, <1>8
  <2> QED
    BY <1>5, <1>8, <2>1, <2>2
<1>12. ASSUME NEW k \in 1..Len(w)
       PROVE  \E j \in kept(i + 1) : w[k] = view[j]
  <2> DEFINE kk == IF k < r THEN k ELSE k + 1
  <2>1. k \in 1..Len(v) - 1 /\ kk \in 1..Len(v) /\ kk # r
    BY <1>6, <1>7, <1>8
  <2>2. w[k] = v[kk]
    BY <1>8, <2>1
  <2>3. PICK j \in kept(i) : v[kk] = view[j]
    BY <1>5, <2>1
  <2>4. j # r
    <3> HIDE DEF kk
    <3>1. j = r => v[kk] = v[r]
      BY <1>7, <2>3
    <3> QED
      BY <1>5, <1>7, <2>1, <3>1 DEF Injective
  <2> QED
    BY <1>9, <2>2, <2>3, <2>4
<1>13. ASSUME NEW j \in kept(i + 1)
       PROVE  \E k \in 1..Len(w) : w[k] = view[j]
  <2>1. j \in kept(i) /\ j # r /\ j \in 1..Len(view)
    BY <1>9 DEF kept
  <2>2. PICK k \in 1..Len(v) : v[k] = view[j]
    BY <1>5, <2>1
  <2>3. k # r
    BY <1>3, <1>7, <2>1, <2>2 DEF Injective
  <2> DEFINE kk == IF k < r THEN k ELSE k - 1
  <2>4. kk \in 1..Len(v) - 1 /\ k = IF kk < r THEN kk ELSE kk + 1
    BY <1>6, <1>7, <2>3
  <2>5. w[kk] = v[k]
    BY <1>8, <2>4
  <2> QED
    BY <1>8, <2>2, <2>4, <2>5
<1>14. r = rows[m - (i + 1) + 1] /\ i + 1 # 0
  BY <1>1 DEF r
<1>15. Stripped(w, rows, i + 1)
  BY <1>8, <1>10, <1>11, <1>12, <1>13, <1>14 DEF Stripped, kept
<1> QED
  BY <1>7, <1>15 DEF r, w

Less(v, r) == IF r <= Len(v) THEN RemoveAt(v, r) ELSE v

(* deleteFiles takes the rows off one after the other.                      *)
LEMMA RowsLeftSteps ==
  ASSUME view \in Seq(Row), NEW rows, rows \in Seq(1..Len(view))
  PROVE  \E left :
           /\ RowsLeft(rows) = left[Len(rows)] /\ left[0] = view
           /\ \A i \in 1..Len(rows) : left[i] = Less(left[i - 1], rows[Len(rows) - i + 1])
           /\ \A i \in 1..Len(rows) : rows[Len(rows) - i + 1] \in 1..Len(view)
           /\ \A v \in Seq(Row), r \in 1..Len(view) : Less(v, r) \in Seq(Row)
<1> DEFINE m == Len(rows)
           Rec(f) == [i \in 0..m |-> IF i = 0 THEN view ELSE Less(f[i - 1], rows[m - i + 1])]
           G == [x \in Nat \X Seq(Row) |->
                   IF x[1] \in 1..m THEN Less(x[2], rows[m - x[1] + 1]) ELSE x[2]]
<1>1. m \in Nat /\ Len(view) \in Nat /\ \A i \in 1..m : m - i + 1 \in 1..m /\ rows[m - i + 1] \in 1..Len(view)
  <2>1. m \in Nat /\ Len(view) \in Nat /\ \A i \in 1..m : m - i + 1 \in 1..m
    OBVIOUS
  <2> QED
    BY <2>1, ElementOfSeq
<1> USE DEF Less
<1>2. \A v \in Seq(Row), r \in 1..Len(view) : Less(v, r) \in Seq(Row)
  <2> TAKE v \in Seq(Row), r \in 1..Len(view)
  <2>1. CASE r <= Len(v)
    <3>1. r \in 1..Len(v)
      BY <2>1
    <3> QED
      BY <2>1, <3>1, RemoveAtIs
  <2> QED
    BY <2>1
<1>3. G \in [Nat \X Seq(Row) -> Seq(Row)]
  <2>1. \A x \in Nat \X Seq(Row) :
          (IF x[1] \in 1..m THEN Less(x[2], rows[m - x[1] + 1]) ELSE x[2]) \in Seq(Row)
    <3> TAKE x \in Nat \X Seq(Row)
    <3>1. x[2] \in Seq(Row)
      OBVIOUS
    <3>2. CASE x[1] \in 1..m
      <4>1. rows[m - x[1] + 1] \in 1..Len(view)
        BY <1>1, <3>2
      <4> HIDE DEF Less, m
      <4> QED
        BY <1>2, <3>1, <3>2, <4>1
    <3> HIDE DEF Less, m
    <3> QED
      BY <3>1, <3>2
  <2> HIDE DEF Less, m
  <2> QED
    BY <2>1
<1>4. \E f : f = Rec(f)
  <2> HIDE DEF G, m
  <2>1. PICK f \in [0..m -> Seq(Row)] :
          f[0] = view /\ \A i \in 1..m : f[i] = G[<<i, f[i - 1]>>]
    <3> DEFINE S == Seq(Row)
    <3>1. view \in S /\ m \in Nat /\ G \in [Nat \X S -> S]
      BY <1>1, <1>3
    <3> HIDE DEF S
    <3>2. \E f \in [0..m -> S] : Follows(f, view, G, m)
      BY <3>1, Recursion
    <3> QED
      BY <3>2 DEF S, Follows
  <2> USE DEF G
  <2>2. \A i \in 1..m : G[<<i, f[i - 1]>>] = Less(f[i - 1], rows[m - i + 1])
    <3> TAKE i \in 1..m
    <3>1. i \in Nat /\ i - 1 \in 0..m
      BY <1>1
    <3>2. f[i - 1] \in Seq(Row)
      BY <3>1
    <3> HIDE DEF Less
    <3> QED
      BY <3>1, <3>2
  <2> HIDE DEF G, Less
  <2>3. \A i \in 0..m : i # 0 => i \in 1..m
    BY <1>1
  <2>4. f = Rec(f)
    <3>1. \A i \in 0..m : f[i] = Rec(f)[i]
      BY <2>1, <2>2, <2>3
    <3> QED
      BY <3>1
  <2> QED
    BY <2>4
<1> DEFINE left == CHOOSE f : f = Rec(f)
<1>5. RowsLeft(rows) = left[m]
  BY DEF RowsLeft
<1>6. left = Rec(left)
  <2> HIDE DEF Rec
  <2> QED
    BY <1>4
<1>7. left[0] = view /\ \A i \in 1..m : left[i] = Less(left[i - 1], rows[m - i + 1])
  <2>1. \A i \in 1..m : i \in 0..m /\ i # 0
    BY <1>1
  <2>2. 0 \in 0..m
    BY <1>1
  <2> HIDE DEF left, Less, m
  <2> QED
    BY <1>6, <2>1, <2>2
<1> HIDE DEF left, G, Less
<1> QED
  BY <1>1, <1>2, <1>5, <1>7

(* Whatever rows they are, rows are left.                                   *)
LEMMA RowsLeftType ==
  ASSUME view \in Seq(Row), NEW rows, rows \in Seq(1..Len(view))
  PROVE  RowsLeft(rows) \in Seq(Row)
<1> DEFINE m == Len(rows)
<1>1. PICK left :
        /\ RowsLeft(rows) = left[m] /\ left[0] = view
        /\ \A i \in 1..m : left[i] = Less(left[i - 1], rows[m - i + 1])
        /\ \A i \in 1..m : rows[m - i + 1] \in 1..Len(view)
        /\ \A v \in Seq(Row), r \in 1..Len(view) : Less(v, r) \in Seq(Row)
  BY RowsLeftSteps
<1>2. m \in Nat
  OBVIOUS
<1> HIDE DEF m
<1> DEFINE T == {i \in Nat : i <= m => left[i] \in Seq(Row)}
<1>3. 0 \in T
  BY <1>1
<1>4. ASSUME NEW i \in Nat, i \in T
      PROVE  i + 1 \in T
  <2> SUFFICES ASSUME i + 1 <= m PROVE left[i + 1] \in Seq(Row)
    OBVIOUS
  <2>1. i + 1 \in 1..m /\ (i + 1) - 1 = i /\ left[i] \in Seq(Row)
    BY <1>2, <1>4
  <2>2. left[i + 1] = Less(left[i], rows[m - (i + 1) + 1])
    BY <1>1, <2>1
  <2> QED
    BY <1>1, <2>1, <2>2
<1>5. Nat \subseteq T
  <2> HIDE DEF T
  <2> QED
    BY <1>3, <1>4, Induction
<1> QED
  BY <1>1, <1>2, <1>5

(* Of rows that were selected top down, exactly the others stay.            *)
LEMMA RowsLeftIs ==
  ASSUME view \in Seq(Row), Injective(view),
         NEW rows, rows \in Seq(1..Len(view)), TopDown(rows)
  PROVE  Stripped(RowsLeft(rows), rows, Len(rows))
<1> DEFINE m == Len(rows)
<1>1. PICK left :
        /\ RowsLeft(rows) = left[m] /\ left[0] = view
        /\ \A i \in 1..m : left[i] = Less(left[i - 1], rows[m - i + 1])
  BY RowsLeftSteps
<1>2. m \in Nat
  OBVIOUS
<1> DEFINE T == {i \in Nat : i <= m => Stripped(left[i], rows, i)}
<1>7. 0 \in T
  <2>1. {j \in 1..Len(view) : \A a \in m - 0 + 1..m : rows[a] # j} = 1..Len(view)
    BY <1>2
  <2>2. Stripped(view, rows, 0)
    BY <1>2, <2>1 DEF Stripped
  <2> QED
    BY <1>1, <2>2
<1>8. ASSUME NEW i \in Nat, i \in T
      PROVE  i + 1 \in T
  <2> SUFFICES ASSUME i + 1 <= m PROVE Stripped(left[i + 1], rows, i + 1)
    OBVIOUS
  <2>1. i \in 0..m - 1 /\ i + 1 \in 1..m /\ (i + 1) - 1 = i /\ m - (i + 1) + 1 = m - i
    BY <1>2
  <2>2. Stripped(left[i], rows, i)
    BY <1>2, <1>8, <2>1
  <2>3. rows[m - i] <= Len(left[i]) /\ Stripped(RemoveAt(left[i], rows[m - i]), rows, i + 1)
    BY <2>1, <2>2, StripOne
  <2>4. left[i + 1] = Less(left[i], rows[m - i])
    <3> HIDE DEF m
    <3> QED
      BY <1>1, <2>1
  <2> QED
    BY <2>3, <2>4 DEF Less
<1>9. Nat \subseteq T
  <2> HIDE DEF T
  <2> QED
    BY <1>7, <1>8, Induction
<1>10. Stripped(left[m], rows, m)
  <2> HIDE DEF m
  <2> QED
    BY <1>2, <1>9
<1> QED
  BY <1>1, <1>10

(* A file that cannot be inserted takes nothing new into the task.          *)
LEMMA ListAboveIs ==
  ASSUME NEW S, todo \in Seq(S), todo # <<>>
  PROVE  /\ ListAbove \in Seq(S)
         /\ \A i \in 1..Len(ListAbove) : \E k \in 1..Len(todo) : ListAbove[i] = todo[k]
<1> DEFINE above == {i \in DOMAIN todo : todo[i].level < Head(todo).level}
<1>1. Len(todo) \in Nat /\ above \subseteq 1..Len(todo)
  OBVIOUS
<1>2. CASE above = {}
  <2>1. ListAbove = <<>>
    BY <1>2 DEF ListAbove
  <2> QED
    BY <2>1
<1>3. CASE above # {}
  <2> HIDE DEF above
  <2>1. Min(above) \in 1..Len(todo)
    <3>1. above \in SUBSET Nat
      BY <1>1
    <3> QED
      BY <1>1, <1>3, <3>1, MinIs
  <2>2. ListAbove = SubSeq(todo, Min(above), Len(todo))
    BY <1>3 DEF ListAbove, above
  <2> DEFINE a == Min(above)
             n == Len(todo)
  <2>3. \A i \in a..n : todo[i] \in S
    BY <1>1, <2>1, ElementOfSeq
  <2> HIDE DEF a
  <2>4. /\ SubSeq(todo, a, n) \in Seq(S)
        /\ Len(SubSeq(todo, a, n)) = IF a <= n THEN n - a + 1 ELSE 0
        /\ \A i \in 1..n - a + 1 : SubSeq(todo, a, n)[i] = todo[a + i - 1]
    BY <1>1, <2>1, <2>3, SubSeqProperties DEF a
  <2>5. \A i \in 1..n - a + 1 : a + i - 1 \in 1..n
    BY <1>1, <2>1 DEF a
  <2>6. Len(SubSeq(todo, a, n)) = n - a + 1
    BY <1>1, <2>1, <2>4 DEF a
  <2> HIDE DEF n
  <2>7. ListAbove = SubSeq(todo, a, n)
    BY <2>2 DEF a, n
  <2>8. \A i \in 1..Len(ListAbove) : ListAbove[i] = todo[a + i - 1] /\ a + i - 1 \in 1..n
    BY <2>4, <2>5, <2>6, <2>7
  <2> QED
    BY <2>4, <2>7, <2>8 DEF n
<1> QED
  BY <1>2, <1>3

-----------------------------------------------------------------------------
(* The invariant.                                                           *)

TaskSet ==
  [op : {"insert"}, dir : Sector, host : Files \cup Folders, level : Nat \ {0}]
    \cup [op : {"erase", "list", "remove"}, row : Row, level : {1}]

MapSet     == [map : SUBSET Data, count : 0..CountRange - 1, zero : BOOLEAN]
Counted(m) == m.zero \/ m.count = Cardinality(m.map)

TypeInv ==
  /\ data \in [Sector -> [file : Nat, next : Sector, from : Files \cup {"none"}, block : Nat]]
  /\ dirs \in [Sector -> [Number -> Entry]]
  /\ vtoc \in MapSet /\ fs \in MapSet
  /\ path \in Seq(Sector) /\ path # <<>>
  /\ view \in Seq(Row)
  /\ todo \in Seq(TaskSet)

(* A sector is marked free in the object only if it is on the disk.         *)
MapsInv == fs.map \subseteq vtoc.map /\ Counted(vtoc) /\ Counted(fs)

(* live is a set of directories that holds the root and with a directory    *)
(* all those in it; rank grows downwards, so that none lies within itself.  *)
IsDir(d, no)  == dirs[d][no].flag = "dir"
IsFile(d, no) == dirs[d][no].flag = "file"
Used(d, no)   == dirs[d][no].flag \in {"file", "dir"}
First(d, no)  == dirs[d][no].first

DirsInv(live, rank) ==
  /\ Root \in live
  /\ \A d \in live : \A k, no \in Number :
       k < no /\ dirs[d][k].flag = "never" => dirs[d][no].flag = "never"
  /\ \A d \in live : \A no \in Number :
       IsDir(d, no) => First(d, no) \in live \ {Root} /\ rank[First(d, no)] > rank[d]
  /\ \A d1, d2 \in live : \A n1, n2 \in Number :
       IsDir(d1, n1) /\ IsDir(d2, n2) /\ First(d1, n1) = First(d2, n2) => d1 = d2 /\ n1 = n2
  /\ \A d \in live :
       DirAt(d) \subseteq Sector \ vtoc.map /\ (d # Root => DirAt(d) \cap System = {})
  /\ \A d1, d2 \in live : d1 # d2 => DirAt(d1) \cap DirAt(d2) = {}

(* place tells for each file where its blocks are.                          *)
BlockOK(live, p, e, no, i) ==
  /\ p[i] \in Data \ vtoc.map
  /\ data[p[i]] = [file |-> no, next |-> IF i < e.count THEN p[i + 1] ELSE 0,
                   from |-> e.from, block |-> i]
  /\ \A d \in live : p[i] \notin DirAt(d)

FilesInv(live, place) ==
  /\ \A d \in live : \A no \in Number :
       IsFile(d, no) =>
         /\ dirs[d][no].count >= 1
         /\ place[d][no][1] = First(d, no)
         /\ \A i \in 1..dirs[d][no].count : BlockOK(live, place[d][no], dirs[d][no], no, i)
  /\ \A d1, d2 \in live : \A n1, n2 \in Number :
       IsFile(d1, n1) /\ IsFile(d2, n2) =>
         \A i \in 1..dirs[d1][n1].count, j \in 1..dirs[d2][n2].count :
           place[d1][n1][i] = place[d2][n2][j] => d1 = d2 /\ n1 = n2 /\ i = j

Here == path[Len(path)]

PathInv(live, rank) ==
  /\ path[1] = Root
  /\ \A i \in 1..Len(path) : path[i] \in live
  /\ \A i, j \in 1..Len(path) : i < j => rank[path[i]] < rank[path[j]]

(* Either files are inserted, or entries are deleted, each once and those   *)
(* that lie deeper first.                                                   *)
InsertionOK(live, t) ==
  t.dir \in live /\ (t.level = 1 <=> t.dir = Here)

DeletionOK(live, rank, t) ==
  /\ t.row.dir \in live
  /\ Used(t.row.dir, t.row.no) /\ t.row.entry = dirs[t.row.dir][t.row.no]
  /\ t.op = "erase" <=> IsFile(t.row.dir, t.row.no)
  /\ rank[t.row.dir] >= rank[Here]

TodoInv(live, rank) ==
  /\ \A i, j \in 1..Len(todo) : todo[i].op = "insert" => todo[j].op = "insert"
  /\ \A i \in 1..Len(todo) : todo[i].op = "insert" => InsertionOK(live, todo[i])
  /\ \A i \in 1..Len(todo) : todo[i].op # "insert" => DeletionOK(live, rank, todo[i])
  /\ \A i, j \in 1..Len(todo) :
       i < j /\ todo[i].op # "insert" =>
         /\ todo[i].row.dir # todo[j].row.dir \/ todo[i].row.no # todo[j].row.no
         /\ rank[todo[i].row.dir] >= rank[todo[j].row.dir]

(* The window shows what is in its directory and is not going to be deleted, *)
(* unless it has become stale.                                              *)
Doomed(d, no) ==
  \E j \in 1..Len(todo) :
    todo[j].op # "insert" /\ todo[j].row.dir = d /\ todo[j].row.no = no

ViewExact ==
  /\ Shows(view, Here)
  /\ \A no \in Listed(Here) :
       (\E i \in 1..Len(view) : view[i].no = no) <=> ~Doomed(Here, no)

ViewInv == ~stale => ViewExact

Places == [Sector -> [Number -> [Nat -> Sector]]]

Good(live, rank, place) ==
  /\ live \in SUBSET Sector /\ rank \in [Sector -> Nat] /\ place \in Places
  /\ TypeInv /\ MapsInv
  /\ DirsInv(live, rank) /\ FilesInv(live, place)
  /\ PathInv(live, rank) /\ TodoInv(live, rank) /\ ViewInv

FileSystemInv == ~misled => \E live, rank, place : Good(live, rank, place)

-----------------------------------------------------------------------------
(* What the parts of the invariant say, and what leaves them alone.         *)

(* In a directory in use every used entry is listed, because none follows a *)
(* never-used one.                                                          *)
LEMMA ListedIs ==
  ASSUME NEW live, NEW rank, DirsInv(live, rank), NEW d \in live
  PROVE  \A no : no \in Listed(d) <=> no \in Number /\ Used(d, no)
<1>1. Number = 0..DirSectors * EntriesPerSector - 1 /\ DirSectors * EntriesPerSector \in Nat
  BY FileSystemAssumption DEF Number
<1> DEFINE N == DirSectors * EntriesPerSector
<1> SUFFICES ASSUME NEW no \in Number, Used(d, no)
             PROVE  \A k \in 0..no : dirs[d][k].flag # "never"
  BY DEF Listed, Used
<1> SUFFICES ASSUME NEW k \in 0..no, dirs[d][k].flag = "never"
             PROVE  FALSE
  OBVIOUS
<1>2. k \in Number /\ k <= no /\ k \in Int /\ no \in Int
  <2> HIDE DEF N
  <2> QED
    BY <1>1
<1>3. CASE k = no
  BY <1>3 DEF Used
<1>4. CASE k < no
  <2>1. dirs[d][no].flag = "never"
    BY <1>2, <1>4 DEF DirsInv
  <2> QED
    BY <2>1 DEF Used
<1> QED
  BY <1>2, <1>3, <1>4

(* The window stands in a directory in use.                                 *)
LEMMA HereIs ==
  ASSUME NEW live, NEW rank, TypeInv, PathInv(live, rank)
  PROVE  Len(path) \in Nat \ {0} /\ Here \in live /\ Here = Last(path)
<1>1. Len(path) \in Nat \ {0}
  BY DEF TypeInv
<1> QED
  BY <1>1 DEF PathInv, Here, Last

(* A step that writes neither directories nor the map of the disk keeps     *)
(* what is known of directories.                                            *)
LEMMA DirsKept ==
  ASSUME NEW live, NEW rank, DirsInv(live, rank), UNCHANGED <<dirs, vtoc>>
  PROVE  DirsInv(live, rank)'
BY DEF DirsInv, IsDir, First

(* A step that writes no sectors either keeps what is known of files.       *)
LEMMA FilesKept ==
  ASSUME NEW live, NEW place, FilesInv(live, place), UNCHANGED <<data, dirs, vtoc>>
  PROVE  FilesInv(live, place)'
BY DEF FilesInv, BlockOK, IsFile, First

(* A step that leaves the path alone keeps where the window stands.         *)
LEMMA PathKept ==
  ASSUME NEW live, NEW rank, PathInv(live, rank), UNCHANGED path
  PROVE  PathInv(live, rank)' /\ Here' = Here
BY DEF PathInv, Here

(* Nothing is wrong with a task that is finished.                           *)
LEMMA IdleTodo ==
  ASSUME NEW live, NEW rank, todo' = <<>>
  PROVE  TodoInv(live, rank)' /\ \A d, no : ~Doomed(d, no)'
BY DEF TodoInv, Doomed

(* A directory that is listed while nothing is to be done.                  *)
LEMMA ListedView ==
  ASSUME TypeInv, NEW d \in Sector, dirs' = dirs, todo' = <<>>,
         Here' = d, view' = GetEntries(d)
  PROVE  ViewInv' /\ view' \in Seq(Row)
<1>1. /\ Shows(GetEntries(d), d)
      /\ \A no \in Listed(d) : \E i \in 1..Len(GetEntries(d)) : GetEntries(d)[i].no = no
  BY EntriesShown DEF TypeInv
<1>2. Listed(d)' = Listed(d) /\ \A x, no : RowOf(x, no)' = RowOf(x, no)
  BY DEF Listed, RowOf
<1>3. Shows(view, d)'
  BY <1>1, <1>2 DEF Shows
<1>4. \A no : ~Doomed(d, no)'
  BY IdleTodo
<1>5. \A no \in Listed(d) : \E i \in 1..Len(view') : view'[i].no = no
  BY <1>1
<1> QED
  BY <1>2, <1>3, <1>4, <1>5 DEF ViewInv, ViewExact, Shows

-----------------------------------------------------------------------------
(* What a user does.                                                        *)

(* A formatted disk has one directory without entries.                      *)
LEMMA InitGood == Init => FileSystemInv
<1> SUFFICES ASSUME Init PROVE FileSystemInv
  OBVIOUS
<1> DEFINE live == {Root}
           rank == [s \in Sector |-> 0]
           place == [s \in Sector |-> [no \in Number |-> [i \in Nat |-> 0]]]
<1>1. Root \in Sector /\ DirAt(Root) \subseteq System /\ System \subseteq Sector
  <2>1. Root..Root + DirSectors - 1 \subseteq System /\ System \subseteq Sector /\ DirSectors \in Nat \ {0}
    BY FileSystemAssumption
  <2>2. Root \in Root..Root + DirSectors - 1
    BY <2>1, FileSystemAssumption
  <2> QED
    BY <2>1, <2>2 DEF DirAt
<1>2. 0 \in Sector
  BY SectorIs
<1>3. live \in SUBSET Sector /\ rank \in [Sector -> Nat] /\ place \in Places
  BY <1>1, <1>2 DEF Places
<1>4. \A d \in Sector, no \in Number : dirs[d][no] = Never
  BY DEF Init, Empty
<1>5. Never \in Entry /\ Never.flag = "never"
  BY <1>2 DEF Never, Entry
<1>6. vtoc = [map |-> Data, count |-> Cardinality(Data), zero |-> FALSE] /\ fs = vtoc
  BY DEF Init, Data
<1>7. vtoc \in MapSet /\ MapsInv
  <2>1. Cardinality(Data) \in 0..CountRange - 1
    BY CountIs
  <2> QED
    BY <1>6, <2>1 DEF MapsInv, MapSet, Counted
<1>8. TypeInv
  <2>1. dirs \in [Sector -> [Number -> Entry]]
    BY <1>4, <1>5 DEF Init, Empty
  <2>2. data \in [Sector -> [file : Nat, next : Sector, from : Files \cup {"none"}, block : Nat]]
    BY <1>2 DEF Init
  <2>3. path \in Seq(Sector) /\ path # <<>>
    BY <1>1 DEF Init
  <2>4. view \in Seq(Row) /\ todo \in Seq(TaskSet)
    BY DEF Init
  <2> QED
    BY <1>6, <1>7, <2>1, <2>2, <2>3, <2>4 DEF TypeInv
<1>9. \A no \in Number : ~IsDir(Root, no) /\ ~IsFile(Root, no) /\ ~Used(Root, no)
  BY <1>1, <1>4, <1>5 DEF IsDir, IsFile, Used
<1>10. DirsInv(live, rank)
  BY <1>1, <1>4, <1>5, <1>6, <1>9 DEF DirsInv, Data
<1>11. FilesInv(live, place)
  BY <1>9 DEF FilesInv
<1>12. path = <<Root>> /\ Here = Root /\ Len(path) = 1
  BY DEF Init, Here
<1>13. PathInv(live, rank)
  BY <1>12 DEF PathInv
<1>14. todo = <<>> /\ view = <<>>
  BY DEF Init
<1>15. TodoInv(live, rank)
  BY <1>14 DEF TodoInv
<1>16. Listed(Root) = {}
  BY <1>9 DEF Listed, Used
<1>17. ViewInv
  BY <1>12, <1>14, <1>16 DEF ViewInv, ViewExact, Shows
<1>18. Good(live, rank, place)
  <2> HIDE DEF live, rank, place
  <2> QED
    BY <1>3, <1>7, <1>8, <1>10, <1>11, <1>13, <1>15, <1>17 DEF Good
<1> QED
  <2> HIDE DEF live, rank, place
  <2> QED
    BY <1>18 DEF FileSystemInv

(* Open reads the map of the disk into a new file system object, as MapsInv *)
(* asks.                                                                    *)
LEMMA OpenStep ==
  ASSUME NEW live, NEW rank, NEW place, Good(live, rank, place), Open
  PROVE  Good(live, rank, place)'
<1>1. /\ todo = <<>> /\ UNCHANGED <<data, dirs, vtoc, todo>>
      /\ fs' = vtoc /\ path' = <<Root>> /\ view' = GetEntries(Root)
  BY DEF Open, Idle, Fills
<1>2. Root \in live /\ Root \in Sector
  BY DEF Good, DirsInv
<1>3. Here' = Root /\ Len(path') = 1 /\ path'[1] = Root
  BY <1>1 DEF Here
<1>4. ViewInv' /\ view' \in Seq(Row)
  BY <1>1, <1>2, <1>3, ListedView DEF Good
<1>5. TypeInv'
  BY <1>1, <1>2, <1>4 DEF Good, TypeInv
<1>6. MapsInv'
  BY <1>1 DEF Good, MapsInv, Counted
<1>7. DirsInv(live, rank)' /\ FilesInv(live, place)'
  BY <1>1, DirsKept, FilesKept DEF Good
<1>8. PathInv(live, rank)'
  BY <1>2, <1>3 DEF PathInv
<1>9. TodoInv(live, rank)'
  BY <1>1, IdleTodo
<1> QED
  BY <1>4, <1>5, <1>6, <1>7, <1>8, <1>9 DEF Good

(* The window goes to another directory and shows what is in it.            *)
LEMMA MovedStep ==
  ASSUME NEW live, NEW rank, NEW place, Good(live, rank, place),
         todo = <<>>, UNCHANGED <<data, dirs, vtoc, fs, todo>>,
         path' \in Seq(Sector), path' # <<>>, PathInv(live, rank)',
         view' = GetEntries(Last(path'))
  PROVE  Good(live, rank, place)'
<1>1. Here' = Last(path')
  BY DEF Here, Last
<1>2. Last(path') \in live /\ Last(path') \in Sector
  <2>1. Len(path') \in 1..Len(path')
    OBVIOUS
  <2> QED
    BY <2>1 DEF PathInv, Good, Last
<1>3. ViewInv' /\ view' \in Seq(Row)
  BY <1>1, <1>2, ListedView DEF Good
<1>4. TypeInv'
  BY <1>3 DEF Good, TypeInv
<1>5. MapsInv'
  BY DEF Good, MapsInv, Counted
<1>6. DirsInv(live, rank)' /\ FilesInv(live, place)'
  BY DirsKept, FilesKept DEF Good
<1>7. TodoInv(live, rank)'
  BY IdleTodo
<1> QED
  BY <1>3, <1>4, <1>5, <1>6, <1>7 DEF Good

(* A row that is meant is that of an entry.                                 *)
LEMMA MeantRow ==
  ASSUME NEW live, NEW rank, NEW place, Good(live, rank, place),
         NEW v, v \in ToSet(GetEntries(Last(path)))
  PROVE  /\ v \in Row /\ v.no \in Listed(Here) /\ v = RowOf(Here, v.no)
         /\ v.no \in Number /\ v.dir = Here /\ Used(Here, v.no)
         /\ v.entry = dirs[Here][v.no]
<1>1. Here \in live /\ Here \in Sector /\ Here = Last(path)
  BY HereIs DEF Good
<1>2. ToSet(GetEntries(Here)) = {RowOf(Here, no) : no \in Listed(Here)}
  BY <1>1, EntriesShown DEF Good, TypeInv
<1>3. PICK no \in Listed(Here) : v = RowOf(Here, no)
  BY <1>1, <1>2
<1>4. no \in Number /\ Used(Here, no) /\ dirs[Here][no] \in Entry
  BY <1>1 DEF Listed, Used, Good, TypeInv
<1>5. v.no = no /\ v.dir = Here /\ v.entry = dirs[Here][no]
  BY <1>3 DEF RowOf
<1>6. v \in Row
  BY <1>1, <1>3, <1>4 DEF RowOf, Row
<1> QED
  BY <1>3, <1>4, <1>5, <1>6

(* Entering a directory: it is in use, since an entry in use names it.      *)
LEMMA SetDirectoryStep ==
  ASSUME NEW live, NEW rank, NEW place, Good(live, rank, place),
         NEW r \in DOMAIN view, SetDirectory(r), ~misled'
  PROVE  Good(live, rank, place)'
<1> DEFINE d == view[r].entry.first
<1>1. /\ todo = <<>> /\ UNCHANGED <<data, dirs, vtoc, fs, todo>>
      /\ path' = Append(path, d) /\ view' = GetEntries(d) /\ view[r].entry.flag = "dir"
  BY DEF SetDirectory, Idle, Fills
<1>2. path \in Seq(Sector) /\ view \in Seq(Row) /\ Len(path) \in Nat \ {0} /\ Here \in live
  BY HereIs DEF Good, TypeInv
<1>3. view[r].no \in Number /\ view[r].entry = dirs[Here][view[r].no]
  <2>1. Meant(<<r>>)
    BY DEF SetDirectory
  <2>2. 1 \in DOMAIN <<r>> /\ <<r>>[1] = r
    OBVIOUS
  <2>3. view[r] \in ToSet(GetEntries(Last(path)))
    BY <2>1, <2>2 DEF Meant
  <2> QED
    BY <2>3, MeantRow
<1>4. d \in live /\ rank[d] > rank[Here]
  BY <1>1, <1>2, <1>3 DEF Good, DirsInv, IsDir, First
<1> HIDE DEF d
<1>5. d \in Sector
  BY <1>4 DEF Good
<1>6. /\ path' \in Seq(Sector) /\ path' # <<>> /\ Len(path') = Len(path) + 1
      /\ path'[Len(path')] = d /\ \A i \in 1..Len(path) : path'[i] = path[i]
  BY <1>1, <1>2, <1>5
<1>7. PathInv(live, rank)'
  <2>1. path'[1] = Root
    <3>1. 1 \in 1..Len(path)
      BY <1>2
    <3> QED
      BY <1>6, <3>1 DEF Good, PathInv
  <2>2. ASSUME NEW i \in 1..Len(path')
        PROVE  path'[i] \in live
    <3>1. i = Len(path') \/ i \in 1..Len(path)
      BY <1>2, <1>6
    <3> QED
      BY <1>4, <1>6, <3>1 DEF Good, PathInv
  <2>3. \A i \in 1..Len(path) : rank[path[i]] <= rank[Here] /\ rank[path[i]] \in Nat
    <3> TAKE i \in 1..Len(path)
    <3>1. path[i] \in Sector /\ rank[path[i]] \in Nat
      BY <1>2 DEF Good
    <3>2. i = Len(path) \/ i < Len(path)
      BY <1>2
    <3>3. Len(path) \in 1..Len(path)
      BY <1>2
    <3>4. Here \in Sector /\ rank[Here] \in Nat
      BY <1>2 DEF Good
    <3>5. CASE i = Len(path)
      BY <3>1, <3>5 DEF Here
    <3>6. CASE i < Len(path)
      <4>1. rank[path[i]] < rank[Here]
        BY <3>3, <3>6 DEF Good, PathInv, Here
      <4> QED
        BY <3>1, <3>4, <4>1
    <3> QED
      BY <3>2, <3>5, <3>6
  <2>4. ASSUME NEW i \in 1..Len(path'), NEW j \in 1..Len(path'), i < j
        PROVE  rank[path'[i]] < rank[path'[j]]
    <3>1. i \in 1..Len(path) /\ (j \in 1..Len(path) \/ j = Len(path'))
      BY <1>2, <1>6, <2>4
    <3>2. rank[Here] \in Nat /\ rank[d] \in Nat
      BY <1>2, <1>5 DEF Good
    <3>3. CASE j \in 1..Len(path)
      BY <1>6, <2>4, <3>1, <3>3 DEF Good, PathInv
    <3>4. CASE j = Len(path')
      BY <1>4, <1>6, <2>3, <3>1, <3>2, <3>4
    <3> QED
      BY <3>1, <3>3, <3>4
  <2> QED
    BY <2>1, <2>2, <2>4 DEF PathInv
<1>8. view' = GetEntries(Last(path'))
  BY <1>1, <1>6 DEF Last
<1> QED
  BY <1>1, <1>6, <1>7, <1>8, MovedStep

(* Leaving a directory: the path holds its parent.                          *)
LEMMA ToParentStep ==
  ASSUME NEW live, NEW rank, NEW place, Good(live, rank, place), ToParent
  PROVE  Good(live, rank, place)'
<1>1. /\ todo = <<>> /\ UNCHANGED <<data, dirs, vtoc, fs, todo>>
      /\ path' = Front(path) /\ view' = GetEntries(Last(path')) /\ Len(path) > 1
  BY DEF ToParent, Idle, Fills
<1>2. path \in Seq(Sector) /\ Len(path) \in Nat
  BY DEF Good, TypeInv
<1>3. /\ path' \in Seq(Sector) /\ Len(path') = Len(path) - 1
      /\ \A i \in 1..Len(path) - 1 : path'[i] = path[i]
  <2> DEFINE n == Len(path) - 1
  <2>1. path' = SubSeq(path, 1, n)
    BY <1>1 DEF Front
  <2>2. \A i \in 1..n : path[i] \in Sector
    BY <1>2
  <2>3. /\ SubSeq(path, 1, n) \in Seq(Sector)
        /\ Len(SubSeq(path, 1, n)) = IF 1 <= n THEN n - 1 + 1 ELSE 0
        /\ \A i \in 1..n - 1 + 1 : SubSeq(path, 1, n)[i] = path[1 + i - 1]
    BY <1>1, <1>2, <2>2, SubSeqProperties
  <2> QED
    BY <1>1, <1>2, <2>1, <2>3
<1>4. path' # <<>>
  BY <1>1, <1>2, <1>3
<1>5. PathInv(live, rank)'
  <2>1. \A i \in 1..Len(path') : i \in 1..Len(path) /\ path'[i] = path[i]
    BY <1>2, <1>3
  <2>2. 1 \in 1..Len(path')
    BY <1>1, <1>2, <1>3
  <2> QED
    BY <2>1, <2>2 DEF Good, PathInv
<1> QED
  BY <1>1, <1>3, <1>4, <1>5, MovedStep

(* Rows stay right as long as nobody writes directories.                    *)
LEMMA ShowsKept ==
  ASSUME NEW d, Shows(view, d), UNCHANGED <<dirs, view>>
  PROVE  Shows(view, d)'
BY DEF Shows, Listed, RowOf

(* Inserting starts with the directory that the window stands in.           *)
LEMMA InsertFilesStep ==
  ASSUME NEW live, NEW rank, NEW place, Good(live, rank, place),
         NEW hosts \in Drops, InsertFiles(hosts)
  PROVE  Good(live, rank, place)'
<1>1. /\ todo = <<>> /\ UNCHANGED <<data, dirs, vtoc, fs, path, view>>
      /\ todo' = [i \in DOMAIN hosts |-> Insertion(Last(path), hosts[i], 1)]
  BY DEF InsertFiles, Idle, Starts
<1>2. hosts \in Seq(Files \cup Folders)
  BY FileSystemAssumption
<1>3. Here \in live /\ Here = Last(path) /\ Here \in Sector
  BY HereIs DEF Good
<1>4. \A i \in 1..Len(hosts) :
        Insertion(Here, hosts[i], 1) \in TaskSet
  <2> TAKE i \in 1..Len(hosts)
  <2>1. hosts[i] \in Files \cup Folders
    BY <1>2, ElementOfSeq
  <2> QED
    BY <1>3, <2>1 DEF Insertion, TaskSet
<1>5. /\ todo' \in Seq(TaskSet) /\ Len(todo') = Len(hosts)
      /\ \A i \in 1..Len(todo') : todo'[i] = Insertion(Here, hosts[i], 1)
  <2>1. DOMAIN hosts = 1..Len(hosts) /\ Len(hosts) \in Nat
    BY <1>2
  <2>2. todo' = [i \in 1..Len(hosts) |-> Insertion(Here, hosts[i], 1)]
    BY <1>1, <1>3, <2>1
  <2>3. todo' \in [1..Len(hosts) -> TaskSet]
    BY <1>4, <2>2
  <2>4. todo' \in Seq(TaskSet) /\ Len(todo') = Len(hosts)
    BY <2>1, <2>3, SeqDef
  <2> QED
    BY <2>2, <2>4
<1>6. TypeInv'
  BY <1>1, <1>5 DEF Good, TypeInv
<1>7. MapsInv'
  BY <1>1 DEF Good, MapsInv, Counted
<1>8. DirsInv(live, rank)' /\ FilesInv(live, place)' /\ PathInv(live, rank)' /\ Here' = Here
  BY <1>1, DirsKept, FilesKept, PathKept DEF Good
<1>9. \A i \in 1..Len(todo') :
        todo'[i].op = "insert" /\ todo'[i].dir = Here /\ todo'[i].level = 1
  <2>1. \A h : LET t == Insertion(Here, h, 1)
              IN  t.op = "insert" /\ t.dir = Here /\ t.level = 1
    BY DEF Insertion
  <2> QED
    BY <1>5, <2>1
<1>10. TodoInv(live, rank)'
  BY <1>3, <1>8, <1>9 DEF TodoInv, InsertionOK
<1>11. \A no : ~Doomed(Here, no)' /\ ~Doomed(Here, no)
  BY <1>1, <1>8, <1>9 DEF Doomed
<1>12. Listed(Here)' = Listed(Here)
  BY <1>1, <1>8 DEF Listed
<1>13. ViewInv'
  <2> SUFFICES ASSUME ~stale' PROVE ViewExact'
    BY DEF ViewInv
  <2>1. ViewExact
    BY DEF InsertFiles, history, Good, ViewInv
  <2>2. Shows(view, Here)'
    BY <1>1, <1>8, <2>1, ShowsKept DEF ViewExact
  <2> QED
    BY <1>1, <1>8, <1>11, <1>12, <2>1, <2>2 DEF ViewExact
<1> QED
  BY <1>6, <1>7, <1>8, <1>10, <1>13 DEF Good

(* Deleting starts with rows that are all different entries, since the user *)
(* was not misled.  Selected from the top down, exactly these are gone from *)
(* the window.                                                              *)
LEMMA DeleteFilesStep ==
  ASSUME NEW live, NEW rank, NEW place, Good(live, rank, place),
         NEW rows \in Selections, DeleteFiles(rows), ~misled'
  PROVE  Good(live, rank, place)'
<1> DEFINE m == Len(rows)
           T(i) == DeletionOf(view[rows[i]])
<1>1. /\ todo = <<>> /\ UNCHANGED <<data, dirs, vtoc, fs, path>>
      /\ todo' = [i \in DOMAIN rows |-> T(i)]
      /\ view' = RowsLeft(rows)
      /\ Meant(rows) /\ stale' = (stale \/ ~TopDown(rows))
  BY DEF DeleteFiles, Idle, Selected, Starts
<1>2. view \in Seq(Row) /\ Len(view) \in Nat /\ DOMAIN view = 1..Len(view)
  BY DEF Good, TypeInv
<1>3. /\ rows \in Seq(1..Len(view)) /\ DOMAIN rows = 1..m /\ m \in Nat
      /\ \A i \in 1..m : rows[i] \in 1..Len(view)
      /\ \A i, j \in 1..m : i # j => rows[i] # rows[j]
  <2>1. PICK n \in 1..Len(view) : rows \in [1..n -> 1..Len(view)]
    BY <1>2 DEF Selections
  <2>2. n \in Nat
    BY <1>2
  <2>3. rows \in Seq(1..Len(view)) /\ Len(rows) = n
    BY <2>1, <2>2, SeqDef
  <2>4. DOMAIN rows = 1..n
    BY <2>1
  <2> QED
    BY <2>1, <2>2, <2>3, <2>4 DEF Selections
<1>4. Here \in live /\ Here \in Sector
  BY HereIs DEF Good
<1>5. ASSUME NEW i \in 1..m
      PROVE  /\ view[rows[i]] \in Row /\ view[rows[i]] = RowOf(Here, view[rows[i]].no)
             /\ view[rows[i]].dir = Here /\ Used(Here, view[rows[i]].no)
             /\ view[rows[i]].entry = dirs[Here][view[rows[i]].no]
  <2>1. view[rows[i]] \in ToSet(GetEntries(Last(path)))
    BY <1>1, <1>3 DEF Meant
  <2> QED
    BY <2>1, MeantRow
<1>6. ASSUME NEW i \in 1..m, NEW j \in 1..m, i # j
      PROVE  view[rows[i]].no # view[rows[j]].no
  <2>1. view[rows[i]] # view[rows[j]]
    BY <1>1, <1>3, <1>6 DEF Meant
  <2> QED
    BY <1>5, <2>1
<1>8. \A i \in 1..m :
        /\ T(i).row = view[rows[i]] /\ T(i).level = 1
        /\ T(i).op = IF view[rows[i]].entry.flag = "dir" THEN "list" ELSE "erase"
  BY DEF DeletionOf, Deletion
<1>9. \A i \in 1..m : T(i) \in TaskSet
  BY <1>3, <1>5 DEF DeletionOf, Deletion, TaskSet
<1> HIDE DEF T
<1>10. /\ todo' \in Seq(TaskSet) /\ Len(todo') = m
       /\ \A i \in 1..Len(todo') : todo'[i] = T(i)
  <2>1. todo' = [i \in 1..m |-> T(i)]
    BY <1>1, <1>3
  <2> HIDE DEF m
  <2>2. todo' \in [1..m -> TaskSet]
    BY <1>9, <2>1
  <2>3. todo' \in Seq(TaskSet) /\ Len(todo') = m
    BY <1>3, <2>2, SeqDef
  <2> QED
    BY <2>1, <2>3
<1>11. view' \in Seq(Row)
  BY <1>1, <1>2, <1>3, RowsLeftType
<1>13. TypeInv'
  BY <1>1, <1>10, <1>11 DEF Good, TypeInv
<1>14. MapsInv'
  BY <1>1 DEF Good, MapsInv, Counted
<1>15. DirsInv(live, rank)' /\ FilesInv(live, place)' /\ PathInv(live, rank)' /\ Here' = Here
  BY <1>1, DirsKept, FilesKept, PathKept DEF Good
<1>16. rank[Here] \in Nat
  BY <1>4 DEF Good
<1>17. TodoInv(live, rank)'
  <2>1. \A i \in 1..Len(todo') :
          /\ todo'[i].row = view[rows[i]] /\ rows[i] \in 1..Len(view)
          /\ todo'[i].op # "insert"
          /\ todo'[i].op = "erase" <=> view[rows[i]].entry.flag # "dir"
    BY <1>3, <1>8, <1>10
  <2>2. ASSUME NEW i \in 1..Len(todo')
        PROVE  DeletionOK(live, rank, todo[i])'
    <3> DEFINE v == view[rows[i]]
    <3>1. todo'[i].row = v /\ (todo'[i].op = "erase" <=> v.entry.flag # "dir")
      BY <2>1
    <3>2. v.dir = Here /\ Used(Here, v.no) /\ v.entry = dirs[Here][v.no]
      BY <1>5, <1>10
    <3> HIDE DEF v
    <3> QED
      BY <1>1, <1>4, <1>15, <1>16, <3>1, <3>2 DEF DeletionOK, Used, IsFile
  <2>3. ASSUME NEW i \in 1..Len(todo'), NEW j \in 1..Len(todo'), i < j
        PROVE  /\ todo'[i].row.no # todo'[j].row.no
               /\ todo'[i].row.dir = Here /\ todo'[j].row.dir = Here
    <3>1. i \in 1..m /\ j \in 1..m /\ i # j
      BY <1>3, <1>10, <2>3
    <3> QED
      BY <1>5, <1>6, <2>1, <3>1
  <2> QED
    BY <1>16, <2>1, <2>2, <2>3 DEF TodoInv
<1>18. ViewInv'
  <2> SUFFICES ASSUME ~stale' PROVE ViewExact'
    BY DEF ViewInv
  <2>0. ViewExact /\ TopDown(rows)
    BY <1>1 DEF Good, ViewInv
  <2>5. Shows(view, Here) /\ Injective(view)
    BY <2>0 DEF ViewExact, Shows, Injective
  <2>6. \A j \in 1..Len(view) :
          view[j].no \in Listed(Here) /\ view[j] = RowOf(Here, view[j].no)
    BY <2>5 DEF Shows
  <2>7. Stripped(view', rows, m)
    BY <1>1, <1>2, <1>3, <2>0, <2>5, RowsLeftIs
  <2> DEFINE kept == {j \in 1..Len(view) : \A a \in 1..m : rows[a] # j}
  <2>8. /\ Injective(view')
        /\ \A k \in 1..Len(view') : \E j \in kept : view'[k] = view[j]
        /\ \A j \in kept : \E k \in 1..Len(view') : view'[k] = view[j]
    <3>1. m - m + 1 = 1
      BY <1>3
    <3> QED
      BY <2>7, <3>1 DEF Stripped
  <2>1. \A no : ~Doomed(Here, no)
    BY <1>1 DEF Doomed
  <2>2. Listed(Here)' = Listed(Here) /\ \A no : RowOf(Here, no)' = RowOf(Here, no)
    BY <1>1, <1>15 DEF Listed, RowOf
  <2>3. Shows(view, Here)'
    <3>1. ASSUME NEW k \in 1..Len(view')
          PROVE  view'[k].no \in Listed(Here) /\ view'[k] = RowOf(Here, view'[k].no)
      <4>1. PICK j \in kept : view'[k] = view[j]
        BY <2>8
      <4> QED
        BY <2>6, <4>1
    <3> QED
      BY <1>11, <1>15, <2>2, <2>8, <3>1 DEF Shows, Injective
  <2>4. ASSUME NEW no \in Listed(Here)
        PROVE  (\E i \in 1..Len(view') : view'[i].no = no) <=> ~Doomed(Here, no)'
    <3>1. PICK j \in 1..Len(view) : view[j].no = no
      BY <2>0, <2>1 DEF ViewExact
    <3>2. Doomed(Here, no)' <=> \E i \in 1..m : view[rows[i]].no = no
      <4>1. \A i \in 1..m : /\ todo'[i].op # "insert" /\ todo'[i].row = view[rows[i]]
                            /\ todo'[i].row.dir = Here
        BY <1>3, <1>5, <1>8, <1>10
      <4> QED
        BY <1>10, <1>15, <4>1 DEF Doomed
    <3>3. \A i \in 1..m : view[rows[i]].no = no <=> rows[i] = j
      BY <1>3, <2>5, <3>1 DEF Injective
    <3>4. j \in kept <=> ~Doomed(Here, no)'
      BY <3>2, <3>3
    <3>5. ASSUME j \in kept
          PROVE  \E i \in 1..Len(view') : view'[i].no = no
      BY <2>8, <3>1, <3>5
    <3>6. ASSUME NEW i \in 1..Len(view'), view'[i].no = no
          PROVE  j \in kept
      <4>1. PICK l \in kept : view'[i] = view[l]
        BY <2>8
      <4>2. l = j
        BY <2>5, <3>1, <3>6, <4>1 DEF Injective
      <4> QED
        BY <4>1, <4>2
    <3> QED
      BY <3>4, <3>5, <3>6
  <2> QED
    BY <1>15, <2>2, <2>3, <2>4 DEF ViewExact
<1> QED
  BY <1>13, <1>14, <1>15, <1>17, <1>18 DEF Good


-----------------------------------------------------------------------------
(* Insertion.                                                               *)

(* While files are inserted nothing is going to be deleted.                 *)
LEMMA AllInserts ==
  ASSUME NEW live, NEW rank, TypeInv, TodoInv(live, rank),
         todo # <<>>, Head(todo).op = "insert"
  PROVE  /\ \A i \in 1..Len(todo) : todo[i].op = "insert" /\ InsertionOK(live, todo[i])
         /\ \A d, no : ~Doomed(d, no)
         /\ Head(todo) = todo[1] /\ 1 \in 1..Len(todo) /\ Head(todo) \in TaskSet
         /\ InsertionOK(live, Head(todo))
<1>1. todo \in Seq(TaskSet) /\ Len(todo) \in Nat \ {0} /\ Head(todo) = todo[1]
  BY DEF TypeInv
<1>2. 1 \in 1..Len(todo) /\ todo[1] \in TaskSet
  BY <1>1, ElementOfSeq
<1>3. \A i \in 1..Len(todo) : todo[i].op = "insert"
  BY <1>1, <1>2 DEF TodoInv
<1>4. \A i \in 1..Len(todo) : InsertionOK(live, todo[i])
  BY <1>3 DEF TodoInv
<1>5. \A d, no : ~Doomed(d, no)
  BY <1>3 DEF Doomed
<1> QED
  BY <1>1, <1>2, <1>3, <1>4, <1>5

(* Insertions spare every entry that the window shows.                      *)
LEMMA InsertsLeft ==
  ASSUME NEW live, NEW rank,
         \A i \in 1..Len(todo') : todo'[i].op = "insert" /\ InsertionOK(live, todo[i])'
  PROVE  TodoInv(live, rank)' /\ \A d, no : ~Doomed(d, no)'
BY DEF TodoInv, Doomed

(* What a failed insertion leaves of the task is a part of it.              *)
LEMMA AboveLeft ==
  ASSUME NEW live, NEW rank, TypeInv, TodoInv(live, rank),
         todo # <<>>, Head(todo).op = "insert", todo' = ListAbove, Here' = Here
  PROVE  /\ todo' \in Seq(TaskSet)
         /\ TodoInv(live, rank)' /\ \A d, no : ~Doomed(d, no)'
<1>1. \A i \in 1..Len(todo) : todo[i].op = "insert" /\ InsertionOK(live, todo[i])
  BY AllInserts
<1>2. /\ todo' \in Seq(TaskSet)
      /\ \A i \in 1..Len(todo') : \E k \in 1..Len(todo) : todo'[i] = todo[k]
  BY ListAboveIs DEF TypeInv
<1>3. ASSUME NEW i \in 1..Len(todo')
      PROVE  todo'[i].op = "insert" /\ InsertionOK(live, todo[i])'
  <2>1. PICK k \in 1..Len(todo) : todo'[i] = todo[k]
    BY <1>2
  <2> QED
    BY <1>1, <2>1 DEF InsertionOK
<1>4. TodoInv(live, rank)' /\ \A d, no : ~Doomed(d, no)'
  BY <1>3, InsertsLeft
<1> QED
  BY <1>2, <1>4

(* What the window shows is not touched while nothing is going to be        *)
(* deleted, before and after.                                               *)
LEMMA ViewKept ==
  ASSUME ViewInv, UNCHANGED <<dirs, view, stale>>, Here' = Here,
         \A d, no : ~Doomed(d, no) /\ ~Doomed(d, no)'
  PROVE  ViewInv'
<1> SUFFICES ASSUME ~stale' PROVE ViewExact'
  BY DEF ViewInv
<1>1. ViewExact
  BY DEF ViewInv
<1>2. Shows(view, Here)'
  BY <1>1, ShowsKept DEF ViewExact
<1>3. Listed(Here)' = Listed(Here)
  BY DEF Listed
<1> QED
  BY <1>1, <1>2, <1>3 DEF ViewExact

(* An insertion that is given up before it writes anything.                 *)
LEMMA GivenUpStep ==
  ASSUME NEW live, NEW rank, NEW place, Good(live, rank, place),
         ~Idle, Head(todo).op = "insert", InsertFails, UNCHANGED fs,
         UNCHANGED stale
  PROVE  Good(live, rank, place)'
<1>1. todo' = ListAbove /\ todo # <<>> /\ UNCHANGED <<data, dirs, vtoc, fs, path, view>>
  BY DEF InsertFails, Idle
<1>2. DirsInv(live, rank)' /\ FilesInv(live, place)' /\ PathInv(live, rank)' /\ Here' = Here
  BY <1>1, DirsKept, FilesKept, PathKept DEF Good
<1>3. /\ todo' \in Seq(TaskSet)
      /\ TodoInv(live, rank)' /\ \A d, no : ~Doomed(d, no)'
  BY <1>1, <1>2, AboveLeft DEF Good
<1>4. \A d, no : ~Doomed(d, no)
  BY <1>1, AllInserts DEF Good
<1>5. ViewInv'
  BY <1>1, <1>2, <1>3, <1>4, ViewKept DEF Good
<1>6. TypeInv' /\ MapsInv'
  BY <1>1, <1>3 DEF Good, TypeInv, MapsInv, Counted
<1> QED
  BY <1>2, <1>3, <1>5, <1>6 DEF Good

(* What is taken is counted.                                                *)
LEMMA TakenIs ==
  ASSUME NEW m \in MapSet, Counted(m), NEW s \in SUBSET m.map, NEW zeros \in Nat
  PROVE  /\ Taken(m, s, zeros) \in MapSet
         /\ Taken(m, s, zeros).map = m.map \ s
         /\ Counted(Taken(m, s, zeros))
<1>1. IsFiniteSet(m.map) /\ m.map \in SUBSET Data /\ m.count \in Int /\ m.zero \in BOOLEAN
  BY FiniteMap DEF MapSet
<1>2. m.map \cap s = s /\ s \in SUBSET Data
  BY <1>1
<1>3. Cardinality(m.map \ s) = Cardinality(m.map) - Cardinality(s)
  <2>1. Cardinality(m.map \ s) = Cardinality(m.map) - Cardinality(m.map \cap s)
    BY <1>1, FS_Difference
  <2> QED
    BY <1>2, <2>1
<1>4. Cardinality(s) \in Nat /\ Cardinality(m.map) \in Nat /\ m.map \ s \in SUBSET Data
  BY <1>1, <1>2, FiniteMap
<1>5. (m.count - (Cardinality(s) + zeros)) % CountRange \in 0..CountRange - 1
  <2>1. m.count - (Cardinality(s) + zeros) \in Int
    BY <1>1, <1>4
  <2> QED
    BY <2>1, CounterIs
<1>6. Taken(m, s, zeros) =
        [map |-> m.map \ s, count |-> (m.count - (Cardinality(s) + zeros)) % CountRange,
         zero |-> m.zero \/ zeros > 0]
  BY DEF Taken
<1>7. ASSUME ~m.zero, ~(zeros > 0)
      PROVE  (m.count - (Cardinality(s) + zeros)) % CountRange = Cardinality(m.map \ s)
  <2>1. m.count - (Cardinality(s) + zeros) = Cardinality(m.map \ s)
    BY <1>3, <1>4, <1>7 DEF Counted
  <2> QED
    BY <1>4, <2>1, CountIs
<1>8. Counted(Taken(m, s, zeros))
  <2> DEFINE t == Taken(m, s, zeros)
  <2>1. /\ t.map = m.map \ s
        /\ t.count = (m.count - (Cardinality(s) + zeros)) % CountRange
        /\ t.zero = (m.zero \/ zeros > 0)
    BY <1>6
  <2> HIDE DEF t
  <2>2. ~t.zero => ~m.zero /\ ~(zeros > 0)
    BY <2>1
  <2>3. ~t.zero => t.count = Cardinality(t.map)
    BY <1>7, <2>1, <2>2
  <2> QED
    BY <2>3 DEF t, Counted
<1>9. Taken(m, s, zeros) \in MapSet
  <2>1. (m.zero \/ zeros > 0) \in BOOLEAN
    OBVIOUS
  <2> QED
    BY <1>4, <1>5, <1>6, <2>1 DEF MapSet
<1> QED
  BY <1>6, <1>8, <1>9

(* What is freed is counted, when it was not free.                          *)
LEMMA FreedIs ==
  ASSUME NEW m \in MapSet, Counted(m),
         NEW s \in SUBSET Data, s \cap m.map = {}
  PROVE  /\ Freed(m, s, Cardinality(s)) \in MapSet
         /\ Freed(m, s, Cardinality(s)).map = m.map \cup s
         /\ Counted(Freed(m, s, Cardinality(s)))
<1>1. IsFiniteSet(m.map) /\ m.map \in SUBSET Data /\ IsFiniteSet(s) /\ m.count \in Int
  BY FiniteMap DEF MapSet
<1>2. m.map \cap s = {} /\ Cardinality({}) = 0
  BY FS_EmptySet
<1>3. Cardinality(m.map \cup s) = Cardinality(m.map) + Cardinality(s) - Cardinality(m.map \cap s)
  BY <1>1, FS_Union
<1>4. /\ Cardinality(m.map) \in Nat /\ Cardinality(s) \in Nat
      /\ m.map \cup s \in SUBSET Data
  BY <1>1, FiniteMap
<1>5. m.zero \in BOOLEAN
  BY DEF MapSet
<1>6. Freed(m, s, Cardinality(s)) =
        [map |-> m.map \cup s, count |-> (m.count + Cardinality(s)) % CountRange, zero |-> m.zero]
  BY DEF Freed
<1>7. ASSUME ~m.zero
      PROVE  (m.count + Cardinality(s)) % CountRange = Cardinality(m.map \cup s)
  <2>1. m.count = Cardinality(m.map)
    BY <1>7 DEF Counted
  <2>2. Cardinality(m.map \cap s) = 0
    BY <1>2
  <2>3. m.count + Cardinality(s) = Cardinality(m.map \cup s)
    BY <1>3, <1>4, <2>1, <2>2
  <2> QED
    BY <1>4, <2>3, CountIs
<1>8. (m.count + Cardinality(s)) % CountRange \in 0..CountRange - 1
  <2>1. m.count + Cardinality(s) \in Int
    BY <1>1, <1>4
  <2> QED
    BY <2>1, CounterIs
<1>9. Counted(Freed(m, s, Cardinality(s)))
  BY <1>6, <1>7 DEF Counted
<1>10. Freed(m, s, Cardinality(s)) \in MapSet
  BY <1>4, <1>5, <1>6, <1>8 DEF MapSet
<1> QED
  BY <1>6, <1>9, <1>10

DataSet == [file : Nat, next : Sector, from : Files \cup {"none"}, block : Nat]

(* Different sectors out of those that are free.                            *)
Distinct(at, n, map) == at \in [1..n -> map] /\ \A i, j \in 1..n : i # j => at[i] # at[j]

BlockOf(no, f, at, n, i) ==
  [file |-> no, next |-> IF i < n THEN at[i + 1] ELSE 0, from |-> f, block |-> i]

Holds(w, no, f, at, n, m, map) ==
  /\ w \in [Sector -> DataSet]
  /\ \A s \in Sector \ map : w[s] = data[s]
  /\ \A i \in 1..m : w[at[i]] = BlockOf(no, f, at, n, i)

(* The blocks and links that are written to the first m of n new sectors.   *)
LEMMA WrittenIs ==
  ASSUME LastSector < LinkRange, data \in [Sector -> DataSet],
         NEW map \in SUBSET Data, NEW n \in Nat, NEW at, Distinct(at, n, map),
         NEW no \in Number, NEW f \in Files, NEW m \in 0..n
  PROVE  Holds(Written(no, f, at, m), no, f, at, n, m, map)
<1> DEFINE w == Written(no, f, at, m)
           next(i) == IF i = n THEN 0 ELSE at[i + 1]
           new(i) == [file |-> no, next |-> next(i), from |-> f, block |-> i]
<1>0. at \in [1..n -> map] /\ \A i, j \in 1..n : i # j => at[i] # at[j]
  BY DEF Distinct
<1>1. Len(at) = n /\ 0 \in Sector /\ Data \subseteq Sector /\ no \in Nat
  BY <1>0, SectorIs, NumberIs, SeqDef DEF Data
<1>2. ASSUME NEW i \in 1..n
      PROVE  next(i) \in Sector /\ new(i) \in DataSet
             /\ Link(no, next(i)) = [file |-> no, next |-> next(i)]
  <2>1. i = n \/ i + 1 \in 1..n
    OBVIOUS
  <2>2. next(i) \in Sector
    BY <1>0, <1>1, <2>1
  <2> HIDE DEF next
  <2> QED
    BY <1>1, <2>2, LinkIs DEF DataSet
<1> DEFINE of(s) == CHOOSE j \in 1..m : at[j] = s
<1>3. ASSUME NEW s \in Sector
      PROVE  w[s] = IF \E i \in 1..m : at[i] = s
                    THEN [file |-> Link(no, next(of(s))).file, next |-> Link(no, next(of(s))).next,
                          from |-> f, block |-> of(s)]
                    ELSE data[s]
  BY <1>1 DEF Written
<1>4. ASSUME NEW s \in Sector, \E i \in 1..m : at[i] = s
      PROVE  of(s) \in 1..m /\ at[of(s)] = s
  BY <1>4
<1>5. DOMAIN w = Sector
  BY DEF Written
<1>6. w = [s \in Sector |-> w[s]]
  BY DEF Written
<1> HIDE DEF w, of, next
<1>7. ASSUME NEW s \in Sector, \E i \in 1..m : at[i] = s
      PROVE  w[s] = new(of(s)) /\ of(s) \in 1..n
  <2>1. of(s) \in 1..n
    BY <1>4, <1>7
  <2>2. Link(no, next(of(s))) = [file |-> no, next |-> next(of(s))]
    BY <1>2, <2>1
  <2> QED
    BY <1>3, <1>7, <2>1, <2>2
<1>8. ASSUME NEW s \in Sector
      PROVE  w[s] \in DataSet
  <2>1. CASE \E i \in 1..m : at[i] = s
    <3>1. w[s] = new(of(s)) /\ of(s) \in 1..n
      BY <1>7, <2>1
    <3>2. new(of(s)) \in DataSet
      BY <1>2, <3>1
    <3> QED
      BY <3>1, <3>2
  <2>2. CASE ~ \E i \in 1..m : at[i] = s
    BY <1>3, <2>2
  <2> QED
    BY <2>1, <2>2
<1>9. w \in [Sector -> DataSet]
  BY <1>6, <1>8
<1>10. ASSUME NEW s \in Sector \ map
       PROVE  w[s] = data[s]
  <2>1. ~ \E i \in 1..m : at[i] = s
    <3>1. \A i \in 1..m : at[i] \in map
      BY <1>0
    <3> QED
      BY <3>1
  <2> QED
    BY <1>3, <2>1
<1>11. ASSUME NEW i \in 1..m
       PROVE  w[at[i]] = BlockOf(no, f, at, n, i)
  <2>1. at[i] \in Sector /\ i \in 1..n
    BY <1>0, <1>1
  <2>2. of(at[i]) \in 1..n /\ at[of(at[i])] = at[i] /\ w[at[i]] = new(of(at[i]))
    BY <1>4, <1>7, <2>1
  <2>3. of(at[i]) = i
    BY <1>0, <2>1, <2>2
  <2>4. next(i) = IF i < n THEN at[i + 1] ELSE 0
    BY <2>1 DEF next
  <2> QED
    BY <2>2, <2>3, <2>4 DEF BlockOf
<1> QED
  BY <1>9, <1>10, <1>11 DEF w, Holds

(* Files stay where they are when only free sectors are written to and      *)
(* nothing becomes free.                                                    *)
LEMMA BlockKept ==
  ASSUME NEW live, NEW p, NEW e, NEW no, NEW i,
         BlockOK(live, p, e, no, i), NEW live2,
         \A s \in Sector \ vtoc.map : data'[s] = data[s],
         vtoc'.map \subseteq vtoc.map,
         \A d \in live2 : d \in live \/ DirAt(d) \subseteq vtoc.map
  PROVE  BlockOK(live2, p, e, no, i)'
BY DEF BlockOK, Data

(* An insertion that fails in the middle: the sectors it took are lost to   *)
(* the explorer, but no entry has them and the disk still counts them free. *)
LEMMA HalfWayStep ==
  ASSUME LastSector < LinkRange,
         NEW live, NEW rank, NEW place, Good(live, rank, place),
         ~Idle, Head(todo).op = "insert",
         NEW n \in Nat, n <= Cardinality(fs.map), NEW no \in Number, NEW f \in Files,
         NEW w \in 0..n, NEW zeros \in Nat,
         fs' = Taken(fs, {Allocation(fs.map, n)[j] : j \in 1..n}, zeros),
         todo' = ListAbove,
         data' = Written(no, f, Allocation(fs.map, n), w),
         UNCHANGED <<dirs, vtoc, path, view>>,
         UNCHANGED stale
  PROVE  Good(live, rank, place)'
<1> DEFINE at == Allocation(fs.map, n)
           s == {at[j] : j \in 1..n}
<1>1. /\ fs \in MapSet /\ Counted(fs)
      /\ fs.map \subseteq vtoc.map /\ fs.map \in SUBSET Data
  BY DEF Good, TypeInv, MapsInv, MapSet
<1>2. Distinct(at, n, fs.map)
  BY <1>1, AllocationGood DEF Distinct
<1>3. s \in SUBSET fs.map
  <2> HIDE DEF at
  <2> QED
    BY <1>2 DEF Distinct
<1>4. /\ fs' \in MapSet
      /\ fs'.map = fs.map \ s /\ Counted(fs')
  <2> HIDE DEF s
  <2>1. fs' = Taken(fs, s, zeros)
    BY DEF s
  <2>2. /\ Taken(fs, s, zeros) \in MapSet
        /\ Taken(fs, s, zeros).map = fs.map \ s
        /\ Counted(Taken(fs, s, zeros))
    BY <1>1, <1>3, TakenIs
  <2> QED
    BY <2>1, <2>2 DEF Counted
<1>6. data \in [Sector -> DataSet]
  BY DEF Good, TypeInv, DataSet
<1> HIDE DEF at
<1>7. data' \in [Sector -> DataSet] /\ \A x \in Sector \ fs.map : data'[x] = data[x]
  <2> DEFINE new == Written(no, f, at, w)
  <2>1. data' = new
    BY DEF at
  <2>2. new \in [Sector -> DataSet] /\ \A x \in Sector \ fs.map : new[x] = data[x]
    <3>1. Holds(new, no, f, at, n, w, fs.map)
      BY <1>1, <1>2, <1>6, WrittenIs
    <3> QED
      BY <3>1 DEF Holds
  <2> HIDE DEF new
  <2> QED
    BY <2>1, <2>2
<1>8. DirsInv(live, rank)' /\ PathInv(live, rank)' /\ Here' = Here
  BY DirsKept, PathKept DEF Good
<1>9. todo # <<>>
  BY DEF Idle
<1>10. /\ todo' \in Seq(TaskSet)
       /\ TodoInv(live, rank)' /\ \A d, k : ~Doomed(d, k)'
  BY <1>8, <1>9, AboveLeft DEF Good
<1>11. ViewInv'
  <2>1. \A d, k : ~Doomed(d, k)
    BY <1>9, AllInserts DEF Good
  <2> QED
    BY <1>8, <1>10, <2>1, ViewKept DEF Good
<1>12. FilesInv(live, place)'
  <2>1. \A x \in Sector \ vtoc.map : data'[x] = data[x]
    BY <1>1, <1>7
  <2>2. ASSUME NEW p, NEW e, NEW k, NEW b, BlockOK(live, p, e, k, b)
        PROVE  BlockOK(live, p, e, k, b)'
    BY <2>1, <2>2, BlockKept
  <2> QED
    BY <2>2 DEF Good, FilesInv, IsFile, First
<1>13. TypeInv'
  BY <1>4, <1>7, <1>10 DEF Good, TypeInv, DataSet
<1>14. MapsInv'
  BY <1>1, <1>4 DEF Good, MapsInv, Counted
<1> QED
  BY <1>8, <1>10, <1>11, <1>12, <1>13, <1>14 DEF Good

(* A new entry in a directory.                                              *)
FreeNumberOf(d) == Min(FreeNumbers(d))

(* The file number an insertion gets is not in use, and no never-used       *)
(* number comes before it.                                                  *)
LEMMA FreeNumberIs ==
  ASSUME NEW d, FreeNumbers(d) # {}
  PROVE  /\ FreeNumberOf(d) \in Number /\ ~Used(d, FreeNumberOf(d))
         /\ \A k \in Number : dirs[d][k].flag = "never" => FreeNumberOf(d) <= k
<1>1. FreeNumbers(d) \subseteq Number /\ FreeNumbers(d) \in SUBSET Nat
  BY NumberIs DEF FreeNumbers
<1>2. FreeNumberOf(d) \in FreeNumbers(d) /\ \A k \in FreeNumbers(d) : FreeNumberOf(d) <= k
  BY <1>1, MinIs DEF FreeNumberOf
<1> QED
  BY <1>1, <1>2 DEF FreeNumbers, Used

(* The entries that were never used stay the last ones.                     *)
NeverLast(d) ==
  \A k, no \in Number : k < no /\ dirs[d][k].flag = "never" => dirs[d][no].flag = "never"

(* Whoever writes a used or the next entry keeps the never-used ones last.  *)
LEMMA NeverLastKept ==
  ASSUME NEW d, NeverLast(d), NEW no \in Number, NEW e, e.flag # "never",
         Used(d, no) \/ \A k \in Number : dirs[d][k].flag = "never" => no <= k,
         \A k \in Number : dirs'[d][k] = IF k = no THEN e ELSE dirs[d][k]
  PROVE  NeverLast(d)'
<1> SUFFICES ASSUME NEW k \in Number, NEW l \in Number, k < l, dirs'[d][k].flag = "never"
             PROVE  dirs'[d][l].flag = "never"
  BY DEF NeverLast
<1>1. k # no /\ dirs[d][k].flag = "never"
  OBVIOUS
<1>2. dirs[d][l].flag = "never"
  BY <1>1 DEF NeverLast
<1>3. l # no
  <2>1. k \in Nat /\ l \in Nat /\ no \in Nat
    BY NumberIs
  <2>2. CASE Used(d, no)
    BY <1>2, <2>2 DEF Used
  <2>3. CASE ~Used(d, no)
    <3>1. no <= k
      BY <1>1, <2>3
    <3> QED
      BY <2>1, <3>1
  <2> QED
    BY <2>2, <2>3
<1> QED
  BY <1>2, <1>3

(* ListedIs after the step.                                                 *)
LEMMA ListedIsNext ==
  ASSUME NEW live, NEW rank, DirsInv(live, rank)', NEW d \in live
  PROVE  \A no : no \in Listed(d)' <=> no \in Number /\ Used(d, no)'
<1>1. Number = 0..DirSectors * EntriesPerSector - 1 /\ DirSectors * EntriesPerSector \in Nat
  BY FileSystemAssumption DEF Number
<1> DEFINE N == DirSectors * EntriesPerSector
<1> SUFFICES ASSUME NEW no \in Number, Used(d, no)'
             PROVE  \A k \in 0..no : dirs'[d][k].flag # "never"
  BY DEF Listed, Used
<1> SUFFICES ASSUME NEW k \in 0..no, dirs'[d][k].flag = "never"
             PROVE  FALSE
  OBVIOUS
<1>2. k \in Number /\ k <= no /\ k \in Int /\ no \in Int
  <2> HIDE DEF N
  <2> QED
    BY <1>1
<1>3. CASE k = no
  BY <1>3 DEF Used
<1>4. CASE k < no
  <2>1. dirs'[d][no].flag = "never"
    BY <1>2, <1>4 DEF DirsInv
  <2> QED
    BY <2>1 DEF Used
<1> QED
  BY <1>2, <1>3, <1>4

(* One entry of the directories in use is changed.                          *)
EntrySet(live, d, no, e) ==
  \A x \in live, k \in Number :
    dirs'[x][k] = IF x = d /\ k = no THEN e ELSE dirs[x][k]

RowAdded(d, no, e) ==
  view' = IF d = Here THEN Append(view, [no |-> no, dir |-> d, entry |-> e]) ELSE view

(* It is shown when its directory is.                                       *)
LEMMA AddedRow ==
  ASSUME NEW live, NEW rank, TypeInv, DirsInv(live, rank), PathInv(live, rank), ViewInv,
         NEW live2, NEW rank2, DirsInv(live2, rank2)', live \subseteq live2, live \subseteq Sector,
         NEW d \in live, NEW no \in Number, ~Used(d, no),
         NEW e \in Entry, e.flag \in {"file", "dir"}, EntrySet(live, d, no, e),
         Here' = Here, \A x, k : ~Doomed(x, k) /\ ~Doomed(x, k)', RowAdded(d, no, e),
         UNCHANGED stale
  PROVE  ViewInv' /\ view' \in Seq(Row)
<1>0. \A x \in live, k \in Number :
        dirs'[x][k] = IF x = d /\ k = no THEN e ELSE dirs[x][k]
  BY DEF EntrySet
<1>1. view \in Seq(Row) /\ Len(view) \in Nat
  BY DEF TypeInv
<1>2. Here \in live /\ Here \in live2 /\ d \in Sector
  BY HereIs
<1>20. view' \in Seq(Row)
  <2>1. [no |-> no, dir |-> d, entry |-> e] \in Row
    BY <1>2 DEF Row
  <2> QED
    BY <1>1, <2>1 DEF RowAdded
<1> SUFFICES ASSUME ~stale' PROVE ViewExact'
  BY <1>20 DEF ViewInv
<1>21. ViewExact
  BY DEF ViewInv
<1>3. \A k : k \in Listed(Here)' <=> k \in Listed(Here) \/ (d = Here /\ k = no)
  <2>1. \A k : k \in Listed(Here) <=> k \in Number /\ Used(Here, k)
    BY <1>2, ListedIs
  <2>2. \A k : k \in Listed(Here)' <=> k \in Number /\ Used(Here, k)'
    BY <1>2, ListedIsNext
  <2>3. \A k \in Number : Used(Here, k)' <=> Used(Here, k) \/ (d = Here /\ k = no)
    BY <1>0, <1>2 DEF Used
  <2> QED
    BY <2>1, <2>2, <2>3
<1>4. \A i \in 1..Len(view) : view[i].no \in Listed(Here) /\ view[i] = RowOf(Here, view[i].no)
  BY <1>21 DEF ViewExact, Shows
<1>5. no \notin Listed(d)
  BY DEF Listed, Used
<1>6. \A k \in Listed(Here) : RowOf(Here, k)' = RowOf(Here, k)
  <2>1. \A k \in Listed(Here) : k \in Number /\ (d = Here => k # no)
    BY <1>5 DEF Listed
  <2> QED
    BY <1>0, <1>2, <2>1 DEF RowOf
<1>7. \A k \in Listed(Here) : \E i \in 1..Len(view) : view[i].no = k
  BY <1>21 DEF ViewExact
<1>8. \A i, j \in 1..Len(view) : i # j => view[i].no # view[j].no
  BY <1>21 DEF ViewExact, Shows
<1>9. CASE d # Here
  <2>1. view' = view /\ Listed(Here)' = Listed(Here)
    BY <1>3, <1>9 DEF RowAdded
  <2>2. Shows(view, Here)'
    BY <1>1, <1>4, <1>6, <1>8, <2>1 DEF Shows
  <2> QED
    BY <1>1, <1>7, <2>1, <2>2 DEF ViewExact
<1>10. CASE d = Here
  <2> DEFINE r == [no |-> no, dir |-> d, entry |-> e]
  <2>1. r \in Row
    BY <1>2 DEF Row
  <2>2. r.no = no /\ r = RowOf(Here, no)'
    BY <1>0, <1>2, <1>10 DEF RowOf
  <2> HIDE DEF r
  <2>3. /\ view' \in Seq(Row) /\ Len(view') = Len(view) + 1
        /\ \A i \in 1..Len(view) : view'[i] = view[i]
        /\ view'[Len(view) + 1] = r
    BY <1>1, <1>10, <2>1 DEF r, RowAdded
  <2>4. ASSUME NEW i \in 1..Len(view')
        PROVE  view'[i].no \in Listed(Here)' /\ view'[i] = RowOf(Here, view[i].no)'
    <3>1. CASE i \in 1..Len(view)
      BY <1>3, <1>4, <1>6, <2>3, <3>1
    <3>2. CASE i = Len(view) + 1
      BY <1>3, <1>10, <2>2, <2>3, <3>2
    <3> QED
      BY <1>1, <2>3, <3>1, <3>2
  <2>5. ASSUME NEW i \in 1..Len(view'), NEW j \in 1..Len(view'), i # j
        PROVE  view'[i].no # view'[j].no
    <3>1. \A k \in 1..Len(view) : view'[k].no # no /\ view'[k] = view[k]
      BY <1>4, <1>5, <1>10, <2>3
    <3>2. view'[Len(view) + 1].no = no
      BY <2>2, <2>3
    <3> QED
      BY <1>1, <1>8, <2>3, <2>5, <3>1, <3>2
  <2>6. Shows(view, Here)'
    BY <2>3, <2>4, <2>5 DEF Shows
  <2>7. ASSUME NEW k \in Listed(Here)'
        PROVE  \E i \in 1..Len(view') : view'[i].no = k
    <3>1. CASE k = no
      <4>1. Len(view) + 1 \in 1..Len(view')
        BY <1>1, <2>3
      <4> QED
        BY <2>2, <2>3, <3>1, <4>1
    <3>2. CASE k # no
      <4>1. PICK i \in 1..Len(view) : view[i].no = k
        BY <1>3, <1>7, <3>2
      <4> QED
        BY <1>1, <2>3, <4>1
    <3> QED
      BY <3>1, <3>2
  <2> QED
    BY <2>3, <2>6, <2>7 DEF ViewExact
<1> QED
  BY <1>9, <1>10

(* What a task leaves of the tasks.                                         *)
LEMMA TailIs ==
  ASSUME todo \in Seq(TaskSet), todo # <<>>
  PROVE  /\ Tail(todo) \in Seq(TaskSet) /\ Len(todo) \in Nat \ {0}
         /\ Len(Tail(todo)) = Len(todo) - 1
         /\ \A i \in 1..Len(todo) - 1 : Tail(todo)[i] = todo[i + 1]
         /\ Head(todo) = todo[1] /\ Head(todo) \in TaskSet
<1>1. Len(todo) \in Nat \ {0} /\ Head(todo) = todo[1]
  OBVIOUS
<1>2. 1 \in 1..Len(todo)
  BY <1>1
<1>3. todo[1] \in TaskSet
  BY <1>2, ElementOfSeq
<1>4. /\ Tail(todo) \in Seq(TaskSet)
      /\ Len(Tail(todo)) = Len(todo) - 1
      /\ \A i \in 1..Len(todo) - 1 : Tail(todo)[i] = todo[i + 1]
  OBVIOUS
<1> QED
  BY <1>1, <1>3, <1>4

(* A file has been written: an entry, and its blocks in sectors that were   *)
(* free.                                                                    *)
FileEntry(first, n, f) == [flag |-> "file", first |-> first, count |-> n, from |-> f]

(* A new file in sectors that were free: the others keep theirs.            *)
LEMMA NewFile ==
  ASSUME NEW live, NEW place, live \subseteq Sector, place \in Places, FilesInv(live, place),
         NEW map \in SUBSET Data, map \subseteq vtoc.map, vtoc'.map \subseteq vtoc.map,
         NEW d \in live, NEW no \in Number, NEW e, e.flag = "file", e.count \in Nat,
         e.count >= 1, NEW at, Distinct(at, e.count, map), e.first = at[1],
         \A x \in live : DirAt(x) \subseteq Sector \ vtoc.map,
         \A i \in 1..e.count : at[i] \notin vtoc'.map,
         Holds(data', no, e.from, at, e.count, e.count, map),
         EntrySet(live, d, no, e)
  PROVE  \E place2 \in Places : FilesInv(live, place2)'
<1> DEFINE n == e.count
           p == [i \in Nat |-> IF i \in 1..n THEN at[i] ELSE 0]
           place2 == [place EXCEPT ![d][no] = p]
           Here1(x, k) == x = d /\ k = no
<1>1. at \in [1..n -> map] /\ \A i, j \in 1..n : i # j => at[i] # at[j]
  BY DEF Distinct
<1>2. p \in [Nat -> Sector] /\ \A i \in 1..n : p[i] = at[i]
  <2>1. map \subseteq Sector /\ 0 \in Sector
    BY SectorIs DEF Data
  <2> QED
    BY <1>1, <2>1
<1> HIDE DEF p
<1>3. place2 \in Places
  BY <1>2 DEF Places
<1>4. \A x \in live, k \in Number : place2[x][k] = IF Here1(x, k) THEN p ELSE place[x][k]
  BY DEF Places
<1> HIDE DEF place2
<1>5. \A s \in Sector \ map : data'[s] = data[s]
  BY DEF Holds
<1>6. \A i \in 1..n : data'[at[i]] = BlockOf(no, e.from, at, n, i)
  BY DEF Holds
<1>7. \A x \in live, k \in Number : IsFile(x, k)' <=> Here1(x, k) \/ IsFile(x, k)
  BY DEF IsFile, EntrySet
<1>8. \A x \in live, k \in Number :
        dirs'[x][k] = (IF Here1(x, k) THEN e ELSE dirs[x][k])
        /\ First(x, k)' = (IF Here1(x, k) THEN e.first ELSE First(x, k))
  BY DEF First, EntrySet
<1>9. ASSUME NEW i \in 1..n
      PROVE  BlockOK(live, p, e, no, i)'
  <2>1. p[i] = at[i] /\ at[i] \in map /\ at[i] \in vtoc.map \ vtoc'.map
    BY <1>1, <1>2
  <2>2. data'[p[i]] = [file |-> no, next |-> IF i < n THEN p[i + 1] ELSE 0,
                       from |-> e.from, block |-> i]
    <3>1. i < n => p[i + 1] = at[i + 1]
      BY <1>2
    <3> QED
      BY <1>6, <2>1, <3>1 DEF BlockOf
  <2>3. \A x \in live : p[i] \notin DirAt(x)
    BY <2>1
  <2> QED
    BY <2>1, <2>2, <2>3 DEF BlockOK
<1>10. ASSUME NEW x \in live, NEW k \in Number, IsFile(x, k), NEW i \in 1..dirs[x][k].count,
              ~Here1(x, k)
       PROVE  BlockOK(live, place[x][k], dirs[x][k], k, i)'
  <2>1. BlockOK(live, place[x][k], dirs[x][k], k, i)
    BY <1>10 DEF FilesInv
  <2>2. \A s \in Sector \ vtoc.map : data'[s] = data[s]
    BY <1>5
  <2>3. ASSUME NEW f, BlockOK(live, place[x][k], f, k, i)
        PROVE  BlockOK(live, place[x][k], f, k, i)'
    BY <2>2, <2>3, BlockKept
  <2>4. dirs'[x][k] = dirs[x][k]
    BY <1>8, <1>10
  <2> QED
    BY <2>1, <2>3, <2>4 DEF BlockOK
<1>11. ASSUME NEW x \in live, NEW k \in Number, IsFile(x, k)'
       PROVE  /\ dirs'[x][k].count >= 1
              /\ place2[x][k][1] = First(x, k)'
              /\ \A i \in 1..dirs'[x][k].count : BlockOK(live, place2[x][k], dirs[x][k], k, i)'
  <2>1. CASE Here1(x, k)
    <3>1. place2[x][k] = p /\ dirs'[x][k] = e /\ First(x, k)' = e.first
      BY <1>4, <1>8, <2>1
    <3>2. 1 \in 1..n
      OBVIOUS
    <3>3. p[1] = e.first
      BY <1>2, <3>2
    <3> QED
      BY <1>9, <2>1, <3>1, <3>3 DEF BlockOK
  <2>2. CASE ~Here1(x, k)
    <3>1. place2[x][k] = place[x][k] /\ dirs'[x][k] = dirs[x][k] /\ First(x, k)' = First(x, k)
      BY <1>4, <1>8, <2>2
    <3>2. IsFile(x, k)
      BY <1>7, <1>11, <2>2
    <3>3. dirs[x][k].count >= 1 /\ place[x][k][1] = First(x, k)
      BY <3>2 DEF FilesInv
    <3> QED
      BY <1>10, <2>2, <3>1, <3>2, <3>3 DEF BlockOK
  <2> QED
    BY <2>1, <2>2
<1>12. ASSUME NEW x \in live, NEW k \in Number, IsFile(x, k), NEW i \in 1..dirs[x][k].count
       PROVE  place[x][k][i] \notin map
  <2>1. BlockOK(live, place[x][k], dirs[x][k], k, i)
    BY <1>12 DEF FilesInv
  <2> QED
    BY <2>1 DEF BlockOK
<1>13. ASSUME NEW x \in live, NEW y \in live, NEW k \in Number, NEW l \in Number,
              IsFile(x, k)', IsFile(y, l)',
              NEW i \in 1..dirs'[x][k].count, NEW j \in 1..dirs'[y][l].count,
              place2[x][k][i] = place2[y][l][j]
       PROVE  x = y /\ k = l /\ i = j
  <2>1. CASE Here1(x, k) /\ Here1(y, l)
    <3>1. i \in 1..n /\ j \in 1..n /\ p[i] = p[j]
      BY <1>4, <1>8, <1>13, <2>1
    <3>2. i = j
      BY <1>1, <1>2, <3>1
    <3> QED
      BY <2>1, <3>2
  <2>2. CASE Here1(x, k) /\ ~Here1(y, l)
    <3>1. i \in 1..n /\ p[i] = place[y][l][j] /\ j \in 1..dirs[y][l].count
      BY <1>4, <1>8, <1>13, <2>2
    <3>2. IsFile(y, l)
      BY <1>7, <1>13, <2>2
    <3> QED
      BY <1>1, <1>2, <1>12, <3>1, <3>2
  <2>3. CASE ~Here1(x, k) /\ Here1(y, l)
    <3>1. j \in 1..n /\ p[j] = place[x][k][i] /\ i \in 1..dirs[x][k].count
      BY <1>4, <1>8, <1>13, <2>3
    <3>2. IsFile(x, k)
      BY <1>7, <1>13, <2>3
    <3> QED
      BY <1>1, <1>2, <1>12, <3>1, <3>2
  <2>4. CASE ~Here1(x, k) /\ ~Here1(y, l)
    <3>1. /\ place[x][k][i] = place[y][l][j]
          /\ i \in 1..dirs[x][k].count /\ j \in 1..dirs[y][l].count
      BY <1>4, <1>8, <1>13, <2>4
    <3>2. IsFile(x, k) /\ IsFile(y, l)
      BY <1>7, <1>13, <2>4
    <3> QED
      BY <3>1, <3>2 DEF FilesInv
  <2> QED
    BY <2>1, <2>2, <2>3, <2>4
<1>14. FilesInv(live, place2)'
  BY <1>11, <1>13 DEF FilesInv
<1> QED
  BY <1>3, <1>14

(* An insertion that succeeds. Blocks, map and entry fit together at the    *)
(* end of it.                                                               *)
LEMMA InsertedStep ==
  ASSUME LastSector < LinkRange,
         NEW live, NEW rank, NEW place, Good(live, rank, place),
         ~Idle, Head(todo).op = "insert", NEW d, d = Head(todo).dir, FreeNumbers(d) # {},
         NEW f \in Files, NEW n \in Nat \ {0}, n <= Cardinality(fs.map),
         fs' = Taken(fs, {Allocation(fs.map, n)[j] : j \in 1..n}, 0),
         data' = Written(FreeNumberOf(d), f, Allocation(fs.map, n), n),
         AddEntry(d, FreeNumberOf(d), FileEntry(Allocation(fs.map, n)[1], n, f)),
         vtoc' = fs', todo' = Tail(todo), UNCHANGED path,
         UNCHANGED stale
  PROVE  FileSystemInv'
<1> DEFINE at == Allocation(fs.map, n)
           s == {at[j] : j \in 1..n}
           no == FreeNumberOf(d)
           e == FileEntry(at[1], n, f)
<1>1. /\ fs \in MapSet /\ Counted(fs)
      /\ fs.map \subseteq vtoc.map /\ fs.map \in SUBSET Data
  BY DEF Good, TypeInv, MapsInv, MapSet
<1>2. Distinct(at, n, fs.map) /\ at \in [1..n -> fs.map]
  BY <1>1, AllocationGood DEF Distinct
<1>3. s \in SUBSET fs.map
  <2> HIDE DEF at
  <2> QED
    BY <1>2
<1>4. /\ fs' \in MapSet
      /\ fs'.map = fs.map \ s /\ Counted(fs')
  <2> HIDE DEF s
  <2>1. fs' = Taken(fs, s, 0)
    BY DEF s
  <2>2. /\ Taken(fs, s, 0) \in MapSet
        /\ Taken(fs, s, 0).map = fs.map \ s
        /\ Counted(Taken(fs, s, 0))
    BY <1>1, <1>3, TakenIs
  <2> QED
    BY <2>1, <2>2 DEF Counted
<1>5. \A i \in 1..n : at[i] \notin fs'.map
  <2> HIDE DEF at
  <2> QED
    BY <1>4
<1>6. /\ todo \in Seq(TaskSet) /\ todo # <<>>
      /\ \A i \in 1..Len(todo) : todo[i].op = "insert" /\ InsertionOK(live, todo[i])
      /\ \A x, k : ~Doomed(x, k)
      /\ InsertionOK(live, Head(todo)) /\ Head(todo) \in TaskSet
  BY AllInserts DEF Good, TypeInv, Idle
<1>7. d \in live /\ d \in Sector /\ (Head(todo).level = 1 <=> d = Here)
  BY <1>6 DEF InsertionOK, Good
<1>8. /\ no \in Number /\ ~Used(d, no)
      /\ \A k \in Number : dirs[d][k].flag = "never" => no <= k
  BY FreeNumberIs
<1>9. e \in Entry /\ e.flag = "file" /\ e.count = n /\ e.first = at[1] /\ e.from = f
  <2> HIDE DEF at
  <2>1. at[1] \in Sector
    <3>1. 1 \in 1..n /\ Data \subseteq Sector
      BY DEF Data
    <3> QED
      BY <1>1, <1>2, <3>1
  <2> QED
    BY <2>1 DEF FileEntry, Entry
<1>10. Holds(data', no, f, at, n, n, fs.map)
  <2>1. data \in [Sector -> DataSet] /\ n \in 0..n /\ n \in Nat
    BY DEF Good, TypeInv, DataSet
  <2> HIDE DEF at, no
  <2>2. data' = Written(no, f, at, n)
    BY DEF at, no
  <2>3. Holds(Written(no, f, at, n), no, f, at, n, n, fs.map)
    BY <1>1, <1>2, <1>8, <2>1, WrittenIs
  <2> QED
    BY <2>2, <2>3
<1> HIDE DEF at, s, no, e
<1>11. /\ dirs' = [dirs EXCEPT ![d][no] = e]
       /\ RowAdded(d, no, e)
  BY <1>7 DEF AddEntry, RowAdded, at, no, e
<1>12. dirs \in [Sector -> [Number -> Entry]] /\ live \subseteq Sector
  BY DEF Good, TypeInv
<1>13. /\ dirs' \in [Sector -> [Number -> Entry]]
       /\ \A x \in live, k \in Number : dirs'[x][k] = IF x = d /\ k = no THEN e ELSE dirs[x][k]
       /\ EntrySet(live, d, no, e)
  BY <1>7, <1>8, <1>9, <1>11, <1>12 DEF EntrySet
<1>14. vtoc' = fs' /\ vtoc'.map \subseteq vtoc.map
  BY <1>1, <1>4
<1>15. DirsInv(live, rank)'
  <2>1. Root \in live
    BY DEF Good, DirsInv
  <2>2. \A x \in live : NeverLast(x)'
    <3> TAKE x \in live
    <3>1. NeverLast(x)
      BY DEF Good, DirsInv, NeverLast
    <3>2. CASE x = d
      BY <1>7, <1>8, <1>9, <1>13, <3>1, <3>2, NeverLastKept
    <3>3. CASE x # d
      BY <1>13, <3>1, <3>3 DEF NeverLast
    <3> QED
      BY <3>2, <3>3
  <2>3. \A x \in live, k \in Number : IsDir(x, k)' => IsDir(x, k) /\ First(x, k)' = First(x, k)
    BY <1>9, <1>13 DEF IsDir, First
  <2>4. \A x \in live : \A k \in Number :
          IsDir(x, k) => First(x, k) \in live \ {Root} /\ rank[First(x, k)] > rank[x]
    BY DEF Good, DirsInv
  <2>5. \A x, y \in live : \A k, l \in Number :
          IsDir(x, k) /\ IsDir(y, l) /\ First(x, k) = First(y, l) => x = y /\ k = l
    BY DEF Good, DirsInv
  <2>6. \A x \in live : \A k \in Number :
          IsDir(x, k)' => First(x, k)' \in live \ {Root} /\ rank[First(x, k)'] > rank[x]
    BY <2>3, <2>4
  <2>7. \A x, y \in live : \A k, l \in Number :
          IsDir(x, k)' /\ IsDir(y, l)' /\ First(x, k)' = First(y, l)' => x = y /\ k = l
    BY <2>3, <2>5
  <2>8. \A x \in live :
          DirAt(x) \subseteq Sector \ vtoc'.map /\ (x # Root => DirAt(x) \cap System = {})
    BY <1>14 DEF Good, DirsInv
  <2>9. \A x, y \in live : x # y => DirAt(x) \cap DirAt(y) = {}
    BY DEF Good, DirsInv
  <2> QED
    BY <2>1, <2>2, <2>6, <2>7, <2>8, <2>9 DEF DirsInv, NeverLast
<1>16. PathInv(live, rank)' /\ Here' = Here
  BY PathKept DEF Good
<1>17. todo' \in Seq(TaskSet) /\ TodoInv(live, rank)' /\ \A x, k : ~Doomed(x, k)'
  <2>1. /\ todo' \in Seq(TaskSet) /\ Len(todo) \in Nat \ {0} /\ Len(todo') = Len(todo) - 1
        /\ \A i \in 1..Len(todo) - 1 : todo'[i] = todo[i + 1]
    BY <1>6, TailIs
  <2>2. ASSUME NEW i \in 1..Len(todo')
        PROVE  todo'[i].op = "insert" /\ InsertionOK(live, todo[i])'
    <3>1. i + 1 \in 1..Len(todo) /\ todo'[i] = todo[i + 1]
      BY <2>1
    <3> QED
      BY <1>6, <1>16, <3>1 DEF InsertionOK
  <2>3. TodoInv(live, rank)' /\ \A x, k : ~Doomed(x, k)'
    BY <2>2, InsertsLeft
  <2> QED
    BY <2>1, <2>3
<1>18. ViewInv' /\ view' \in Seq(Row)
  BY <1>6, <1>7, <1>8, <1>9, <1>11, <1>12, <1>13, <1>15, <1>16, <1>17, AddedRow DEF Good
<1>19. PICK place2 \in Places : FilesInv(live, place2)'
  <2>1. place \in Places /\ FilesInv(live, place) /\ \A x \in live : DirAt(x) \subseteq Sector \ vtoc.map
    BY DEF Good, DirsInv
  <2>2. /\ e.flag = "file" /\ e.count \in Nat /\ e.count >= 1 /\ e.first = at[1]
        /\ Distinct(at, e.count, fs.map) /\ Holds(data', no, e.from, at, e.count, e.count, fs.map)
        /\ \A i \in 1..e.count : at[i] \notin vtoc'.map
    BY <1>2, <1>5, <1>9, <1>10, <1>14
  <2>3. \E place2 \in Places : FilesInv(live, place2)'
    BY <1>1, <1>7, <1>8, <1>12, <1>13, <1>14, <2>1, <2>2, NewFile
  <2> QED
    BY <2>3
<1>20. TypeInv'
  <2>1. data' \in [Sector -> DataSet]
    BY <1>10 DEF Holds
  <2> QED
    BY <1>4, <1>13, <1>14, <1>17, <1>18, <2>1 DEF Good, TypeInv, DataSet
<1>21. MapsInv'
  BY <1>4, <1>14 DEF MapsInv, Counted
<1>22. Good(live, rank, place2)'
  BY <1>15, <1>16, <1>17, <1>18, <1>19, <1>20, <1>21 DEF Good
<1> QED
  BY <1>22 DEF FileSystemInv

(* Insert, in all its outcomes.                                             *)
LEMMA InsertStep ==
  ASSUME LastSector < LinkRange,
         NEW live, NEW rank, NEW place, Good(live, rank, place), Insert,
         UNCHANGED stale
  PROVE  FileSystemInv'
<1> DEFINE d    == Head(todo).dir
           f    == Head(todo).host
           no   == FreeNumberOf(d)
           room == Cardinality(Usable(fs.map))
<1>1. ~Idle /\ Head(todo).op = "insert" /\ f \in Files
  BY DEF Insert
<1>2. Blocks[f] \in Nat
  BY <1>1, FileSystemAssumption
<1>3. fs.map \in SUBSET Data /\ room = Cardinality(fs.map) /\ room \in Nat
  BY UsableIs, FiniteMap DEF Good, TypeInv, MapSet
<1> DEFINE Whole(n) == n <= room /\ Inserted(no, d, f, n)
           Broken(n, w, zeros) == n <= room /\ GivenUp(no, f, n, w, zeros)
<1>4. \/ InsertFails /\ UNCHANGED fs
      \/ /\ FreeNumbers(d) # {}
         /\ \/ \E n \in 1..Most(f) : Whole(n)
            \/ \E i \in 1..Blocks[f] : Broken(i, i - 1, 0)
            \/ Broken(room, room, 1)
            \/ Broken(room, room, 2)
  BY <1>3 DEF Insert, FreeNumberOf
<1>5. CASE InsertFails /\ UNCHANGED fs
  <2>1. Good(live, rank, place)'
    BY <1>1, <1>5, GivenUpStep
  <2> QED
    BY <2>1 DEF FileSystemInv
<1> HIDE DEF room
<1>6. ASSUME NEW n \in Nat \ {0}, FreeNumbers(d) # {}, Whole(n)
      PROVE  FileSystemInv'
  <2>1. n <= Cardinality(fs.map)
    BY <1>3, <1>6
  <2>2. /\ fs' = Taken(fs, {Allocation(fs.map, n)[j] : j \in 1..n}, 0)
        /\ data' = Written(no, f, Allocation(fs.map, n), n)
        /\ AddEntry(d, no, FileEntry(Allocation(fs.map, n)[1], n, f))
        /\ vtoc' = fs' /\ todo' = Tail(todo) /\ UNCHANGED path
    BY <1>6 DEF Inserted, FileEntry
  <2> HIDE DEF f
  <2> QED
    BY <1>1, <1>6, <2>1, <2>2, InsertedStep
<1>7. ASSUME NEW n \in Nat, NEW w \in 0..n, NEW zeros \in Nat, FreeNumbers(d) # {},
             Broken(n, w, zeros)
      PROVE  FileSystemInv'
  <2>1. n <= Cardinality(fs.map) /\ no \in Number
    BY <1>3, <1>7, FreeNumberIs
  <2>2. /\ fs' = Taken(fs, {Allocation(fs.map, n)[j] : j \in 1..n}, zeros)
        /\ todo' = ListAbove
        /\ data' = Written(no, f, Allocation(fs.map, n), w)
        /\ UNCHANGED <<dirs, vtoc, path, view>>
    BY <1>7 DEF GivenUp
  <2> HIDE DEF f, no
  <2>3. Good(live, rank, place)'
    BY <1>1, <2>1, <2>2, HalfWayStep
  <2> QED
    BY <2>3 DEF FileSystemInv
<1>8. Most(f) \in Nat
  BY <1>2 DEF Most
<1> HIDE DEF Whole, Broken
<1>9. CASE FreeNumbers(d) # {} /\ \E n \in 1..Most(f) : Whole(n)
  BY <1>6, <1>8, <1>9
<1>10. CASE FreeNumbers(d) # {} /\ \E i \in 1..Blocks[f] : Broken(i, i - 1, 0)
  <2>1. PICK i \in 1..Blocks[f] : Broken(i, i - 1, 0)
    BY <1>10
  <2>2. i \in Nat /\ i - 1 \in 0..i /\ 0 \in Nat
    BY <1>2
  <2> QED
    BY <1>7, <1>10, <2>1, <2>2
<1>11. CASE FreeNumbers(d) # {} /\ (Broken(room, room, 1) \/ Broken(room, room, 2))
  <2>1. room \in 0..room
    BY <1>3
  <2> QED
    BY <1>3, <1>7, <1>11, <2>1
<1> QED
  BY <1>4, <1>5, <1>9, <1>10, <1>11

(* A new directory has no entries.                                          *)
LEMMA EmptyIs == Empty \in [Number -> Entry] /\ \A k \in Number : Empty[k].flag = "never"
<1>1. Never \in Entry /\ Never.flag = "never"
  BY SectorIs DEF Never, Entry
<1> QED
  BY <1>1 DEF Empty

DirEntry(s, h) == [flag |-> "dir", first |-> s, count |-> DirSectors, from |-> h]

MadeDir(d, h, s) ==
  /\ fs' = Taken(fs, DirAt(s), 0)
  /\ dirs' = [dirs EXCEPT ![s] = Empty, ![d][FreeNumberOf(d)] = DirEntry(s, h)]
  /\ view' = IF Head(todo).level > 1 THEN view
             ELSE Append(view, [no |-> FreeNumberOf(d), dir |-> d, entry |-> DirEntry(s, h)])
  /\ vtoc' = fs'
  /\ todo' = [i \in DOMAIN HostDirs[h] |->
                Insertion(s, HostDirs[h][i], Head(todo).level + 1)] \o Tail(todo)
  /\ UNCHANGED <<data, path>>

(* A directory in sectors that were free, and what is in it comes next.     *)
LEMMA MadeDirStep ==
  ASSUME NEW live, NEW rank, NEW place, Good(live, rank, place),
         ~Idle, Head(todo).op = "insert", NEW d, d = Head(todo).dir, FreeNumbers(d) # {},
         NEW h \in Folders, NEW s \in Room(fs.map),
         MadeDir(d, h, s),
         UNCHANGED stale
  PROVE  FileSystemInv'
<1> DEFINE no == FreeNumberOf(d)
           e == DirEntry(s, h)
           live2 == live \cup {s}
           rank2 == [rank EXCEPT ![s] = rank[d] + 1]
<1>1. /\ fs \in MapSet /\ Counted(fs)
      /\ fs.map \subseteq vtoc.map /\ fs.map \in SUBSET Data
  BY DEF Good, TypeInv, MapsInv, MapSet
<1>2. /\ DirAt(s) \subseteq fs.map /\ s \in fs.map /\ s \in Sector /\ s \in DirAt(s)
      /\ DirAt(s) \cap System = {} /\ s \in Nat
  <2>1. s \in fs.map /\ DirAt(s) \subseteq fs.map
    BY DEF Room
  <2>2. s \in Sector /\ s \in Nat
    BY <1>1, <2>1, SectorIs DEF Data
  <2>3. DirSectors \in Nat \ {0}
    BY FileSystemAssumption
  <2>4. s \in DirAt(s)
    BY <2>2, <2>3 DEF DirAt
  <2> QED
    BY <1>1, <2>1, <2>2, <2>4 DEF Data
<1>3. /\ fs' \in MapSet
      /\ fs'.map = fs.map \ DirAt(s) /\ Counted(fs')
  <2> DEFINE t == Taken(fs, DirAt(s), 0)
  <2>1. t \in MapSet /\ t.map = fs.map \ DirAt(s) /\ Counted(t)
    BY <1>1, <1>2, TakenIs
  <2>2. fs' = t
    BY DEF MadeDir
  <2> HIDE DEF t
  <2> QED
    BY <2>1, <2>2 DEF Counted
<1>4. /\ todo \in Seq(TaskSet) /\ todo # <<>>
      /\ \A i \in 1..Len(todo) : todo[i].op = "insert" /\ InsertionOK(live, todo[i])
      /\ \A x, k : ~Doomed(x, k)
      /\ InsertionOK(live, Head(todo)) /\ Head(todo) \in TaskSet
  BY AllInserts DEF Good, TypeInv, Idle
<1>5. /\ d \in live /\ d \in Sector /\ (Head(todo).level = 1 <=> d = Here)
      /\ Head(todo).level \in Nat \ {0}
  BY <1>4 DEF InsertionOK, Good, TaskSet
<1>6. /\ no \in Number /\ ~Used(d, no)
      /\ \A k \in Number : dirs[d][k].flag = "never" => no <= k
  BY FreeNumberIs
<1>7. e \in Entry /\ e.flag = "dir" /\ e.first = s
  <2>1. DirSectors \in Nat
    BY FileSystemAssumption
  <2> QED
    BY <1>2, <2>1 DEF DirEntry, Entry
<1>8. s \notin live
  BY <1>1, <1>2 DEF Good, DirsInv
<1> HIDE DEF no, e
<1>9. dirs \in [Sector -> [Number -> Entry]] /\ live \subseteq Sector /\ rank \in [Sector -> Nat]
  BY DEF Good, TypeInv
<1>10. /\ dirs' \in [Sector -> [Number -> Entry]]
       /\ EntrySet(live, d, no, e) /\ RowAdded(d, no, e)
       /\ \A x \in live, k \in Number : dirs'[x][k] = IF x = d /\ k = no THEN e ELSE dirs[x][k]
       /\ \A k \in Number : dirs'[s][k].flag = "never"
  <2>1. dirs' = [dirs EXCEPT ![s] = Empty, ![d][no] = e]
    BY DEF MadeDir, no, e
  <2>2. \A x \in live, k \in Number : dirs'[x][k] = IF x = d /\ k = no THEN e ELSE dirs[x][k]
    BY <1>5, <1>6, <1>8, <1>9, <2>1
  <2>3. dirs'[s] = Empty
    BY <1>2, <1>5, <1>8, <1>9, <2>1
  <2>4. dirs' \in [Sector -> [Number -> Entry]]
    <3>1. [dirs EXCEPT ![s] = Empty] \in [Sector -> [Number -> Entry]]
      BY <1>2, <1>9, EmptyIs
    <3> DEFINE a == [dirs EXCEPT ![s] = Empty]
    <3>2. dirs' = [a EXCEPT ![d][no] = e]
      BY <2>1
    <3> HIDE DEF a
    <3> QED
      BY <1>5, <1>6, <1>7, <3>1, <3>2 DEF a
  <2>5. RowAdded(d, no, e)
    <3>1. /\ Head(todo).level = 1 => d = Here /\ ~(Head(todo).level > 1)
          /\ Head(todo).level # 1 => d # Here /\ Head(todo).level > 1
      BY <1>5
    <3>2. view' = IF Head(todo).level > 1 THEN view
                  ELSE Append(view, [no |-> no, dir |-> d, entry |-> e])
      BY DEF MadeDir, no, e
    <3> QED
      BY <3>1, <3>2 DEF RowAdded
  <2> QED
    BY <2>2, <2>3, <2>4, <2>5, EmptyIs DEF EntrySet
<1>11. vtoc' = fs' /\ vtoc'.map \subseteq vtoc.map
  BY <1>1, <1>3 DEF MadeDir
<1>12. rank2 \in [Sector -> Nat] /\ (\A x \in live : rank2[x] = rank[x]) /\ rank2[s] > rank2[d]
  <2>1. rank[d] + 1 \in Nat /\ rank[d] \in Nat /\ d # s
    BY <1>5, <1>8, <1>9
  <2>2. rank2 \in [Sector -> Nat] /\ rank2[s] = rank[d] + 1
    BY <1>2, <1>9, <2>1
  <2>3. \A x \in live : rank2[x] = rank[x]
    BY <1>2, <1>8, <1>9
  <2> QED
    BY <1>5, <2>1, <2>2, <2>3
<1> HIDE DEF rank2
<1>13. DirsInv(live2, rank2)'
  <2>1. Root \in live /\ s # Root
    BY <1>8 DEF Good, DirsInv
  <2>2. \A x \in live2 : NeverLast(x)'
    <3> TAKE x \in live2
    <3>1. CASE x = s
      BY <1>10, <3>1 DEF NeverLast
    <3>2. CASE x \in live
      <4>1. NeverLast(x)
        BY <3>2 DEF Good, DirsInv, NeverLast
      <4>2. CASE x = d
        BY <1>5, <1>6, <1>7, <1>10, <4>1, <4>2, NeverLastKept
      <4>3. CASE x # d
        BY <1>10, <3>2, <4>1, <4>3 DEF NeverLast
      <4> QED
        BY <4>2, <4>3
    <3> QED
      BY <3>1, <3>2
  <2>3. ASSUME NEW x \in live2, NEW k \in Number, IsDir(x, k)'
        PROVE  /\ x \in live
               /\ \/ x = d /\ k = no /\ First(x, k)' = s
                  \/ IsDir(x, k) /\ First(x, k)' = First(x, k)
    <3>1. x \in live
      BY <1>10, <2>3 DEF IsDir
    <3>2. dirs'[x][k] = IF x = d /\ k = no THEN e ELSE dirs[x][k]
      BY <1>10, <3>1
    <3> QED
      BY <1>7, <2>3, <3>1, <3>2 DEF IsDir, First
  <2>4. \A x \in live : \A k \in Number :
          IsDir(x, k) => First(x, k) \in live \ {Root} /\ rank[First(x, k)] > rank[x]
    BY DEF Good, DirsInv
  <2>5. \A x, y \in live : \A k, l \in Number :
          IsDir(x, k) /\ IsDir(y, l) /\ First(x, k) = First(y, l) => x = y /\ k = l
    BY DEF Good, DirsInv
  <2>6. ASSUME NEW x \in live2, NEW k \in Number, IsDir(x, k)'
        PROVE  First(x, k)' \in live2 \ {Root} /\ rank2[First(x, k)'] > rank2[x]
    <3>1. CASE x = d /\ First(x, k)' = s
      BY <1>12, <2>1, <3>1
    <3>2. CASE x \in live /\ IsDir(x, k) /\ First(x, k)' = First(x, k)
      <4>1. First(x, k) \in live \ {Root} /\ rank[First(x, k)] > rank[x]
        BY <2>4, <3>2
      <4> QED
        BY <1>12, <3>2, <4>1
    <3> QED
      BY <2>3, <2>6, <3>1, <3>2
  <2>7. ASSUME NEW x \in live2, NEW y \in live2, NEW k \in Number, NEW l \in Number,
               IsDir(x, k)', IsDir(y, l)', First(x, k)' = First(y, l)'
        PROVE  x = y /\ k = l
    <3>1. /\ x \in live /\ y \in live
          /\ \/ x = d /\ k = no /\ First(x, k)' = s
             \/ IsDir(x, k) /\ First(x, k)' = First(x, k)
          /\ \/ y = d /\ l = no /\ First(y, l)' = s
             \/ IsDir(y, l) /\ First(y, l)' = First(y, l)
      BY <2>3, <2>7
    <3>2. /\ IsDir(x, k) => First(x, k) # s
          /\ IsDir(y, l) => First(y, l) # s
      BY <1>8, <2>4, <3>1
    <3> QED
      BY <2>5, <2>7, <3>1, <3>2
  <2>8. \A x \in live2 :
          DirAt(x) \subseteq Sector \ vtoc'.map /\ (x # Root => DirAt(x) \cap System = {})
    <3>1. DirAt(s) \subseteq Sector
      BY <1>1, <1>2 DEF Data
    <3> QED
      BY <1>2, <1>3, <1>11, <3>1 DEF Good, DirsInv
  <2>9. \A x, y \in live2 : x # y => DirAt(x) \cap DirAt(y) = {}
    <3>1. \A x \in live : DirAt(x) \cap DirAt(s) = {}
      BY <1>1, <1>2 DEF Good, DirsInv
    <3>2. \A x, y \in live : x # y => DirAt(x) \cap DirAt(y) = {}
      BY DEF Good, DirsInv
    <3> QED
      BY <3>1, <3>2
  <2> HIDE DEF live2
  <2>10. Root \in live2
    BY <2>1 DEF live2
  <2> QED
    BY <2>2, <2>6, <2>7, <2>8, <2>9, <2>10 DEF DirsInv, NeverLast
<1>14. PathInv(live2, rank2)' /\ Here' = Here
  <2>1. path \in Seq(Sector) /\ path' = path
    BY DEF Good, TypeInv, MadeDir
  <2>2. \A i \in 1..Len(path) : path[i] \in live
    BY DEF Good, PathInv
  <2>3. \A i, j \in 1..Len(path) : i < j => rank2[path[i]] < rank2[path[j]]
    BY <1>12, <2>2 DEF Good, PathInv
  <2> QED
    BY <2>1, <2>2, <2>3 DEF Good, PathInv, Here
<1>15. Here \in live
  BY HereIs DEF Good
<1>16. todo' \in Seq(TaskSet) /\ TodoInv(live2, rank2)' /\ \A x, k : ~Doomed(x, k)'
  <2> DEFINE l == Head(todo).level + 1
             hosts == HostDirs[h]
             below == [i \in DOMAIN hosts |-> Insertion(s, hosts[i], l)]
  <2>1. /\ Tail(todo) \in Seq(TaskSet) /\ Len(todo) \in Nat \ {0}
        /\ Len(Tail(todo)) = Len(todo) - 1
        /\ \A i \in 1..Len(todo) - 1 : Tail(todo)[i] = todo[i + 1]
    BY <1>4, TailIs
  <2>2. hosts \in Seq(Files) /\ l \in Nat \ {0} /\ l # 1
    BY <1>5, FileSystemAssumption
  <2> HIDE DEF l, hosts
  <2>3. \A f \in Files : LET t == Insertion(s, f, l)
                        IN  t \in TaskSet /\ t.op = "insert" /\ t.dir = s /\ t.level = l
    BY <1>2, <2>2 DEF Insertion, TaskSet
  <2>4. DOMAIN hosts = 1..Len(hosts) /\ Len(hosts) \in Nat /\ \A i \in 1..Len(hosts) : hosts[i] \in Files
    BY <2>2, ElementOfSeq
  <2>5. below \in Seq(TaskSet) /\ Len(below) = Len(hosts)
    <3>1. below \in [1..Len(hosts) -> TaskSet]
      BY <2>3, <2>4
    <3> HIDE DEF below
    <3> QED
      BY <2>4, <3>1, SeqDef
  <2>6. \A i \in 1..Len(below) :
          below[i].op = "insert" /\ below[i].dir = s /\ below[i].level = l
    <3>1. \A i \in 1..Len(hosts) : below[i] = Insertion(s, hosts[i], l)
      BY <2>4
    <3> HIDE DEF below
    <3> QED
      BY <2>3, <2>4, <2>5, <3>1
  <2>7. todo' = below \o Tail(todo)
    BY DEF MadeDir, below, l, hosts
  <2> HIDE DEF below
  <2>8. /\ todo' \in Seq(TaskSet) /\ Len(todo') = Len(below) + Len(Tail(todo))
        /\ \A i \in 1..Len(todo') :
             todo'[i] = IF i <= Len(below) THEN below[i] ELSE Tail(todo)[i - Len(below)]
    BY <2>1, <2>5, <2>7, ConcatProperties
  <2>9. ASSUME NEW i \in 1..Len(todo')
        PROVE  todo'[i].op = "insert" /\ InsertionOK(live2, todo[i])'
    <3>1. Len(below) \in Nat
      BY <2>5
    <3>2. CASE i <= Len(below)
      <4>1. i \in 1..Len(below) /\ todo'[i] = below[i]
        BY <2>8, <3>1, <3>2
      <4>2. todo'[i].op = "insert" /\ todo'[i].dir = s /\ todo'[i].level # 1
        BY <2>2, <2>6, <4>1
      <4> QED
        BY <1>8, <1>14, <1>15, <4>2 DEF InsertionOK
    <3>3. CASE i > Len(below)
      <4> DEFINE j == i - Len(below)
      <4>1. j \in 1..Len(todo) - 1 /\ j + 1 \in 1..Len(todo) /\ todo'[i] = Tail(todo)[j]
        BY <2>1, <2>8, <3>1, <3>3
      <4> HIDE DEF j
      <4>2. todo'[i] = todo[j + 1]
        BY <2>1, <4>1
      <4>3. todo[j + 1].op = "insert" /\ InsertionOK(live, todo[j + 1])
        BY <1>4, <4>1
      <4> QED
        BY <1>14, <4>2, <4>3 DEF InsertionOK
    <3> QED
      BY <2>8, <3>1, <3>2, <3>3
  <2> HIDE DEF live2
  <2>10. TodoInv(live2, rank2)' /\ \A x, k : ~Doomed(x, k)'
    BY <2>9, InsertsLeft
  <2> QED
    BY <2>8, <2>10
<1>17. live2 \in SUBSET Sector /\ live \subseteq live2
  BY <1>2, <1>9
<1>18. FilesInv(live2, place)'
  <2>1. \A x \in live2, k \in Number :
          IsFile(x, k)' => /\ x \in live /\ IsFile(x, k)
                           /\ dirs'[x][k] = dirs[x][k] /\ First(x, k)' = First(x, k)
    BY <1>7, <1>10 DEF IsFile, First
  <2>2. \A x \in live2 : x \in live \/ DirAt(x) \subseteq vtoc.map
    BY <1>1, <1>2
  <2> HIDE DEF live2
  <2>3. ASSUME NEW p, NEW f, NEW k, NEW b, BlockOK(live, p, f, k, b)
        PROVE  BlockOK(live2, p, f, k, b)'
    <3>1. \A x \in Sector \ vtoc.map : data'[x] = data[x]
      BY DEF MadeDir
    <3> QED
      BY <1>11, <2>2, <2>3, <3>1, BlockKept
  <2>4. ASSUME NEW x \in live2, NEW k \in Number, IsFile(x, k)'
        PROVE  /\ dirs'[x][k].count >= 1
               /\ place[x][k][1] = First(x, k)'
               /\ \A i \in 1..dirs'[x][k].count : BlockOK(live2, place[x][k], dirs[x][k], k, i)'
    <3>1. x \in live /\ IsFile(x, k) /\ dirs'[x][k] = dirs[x][k] /\ First(x, k)' = First(x, k)
      BY <2>1, <2>4
    <3>2. /\ dirs[x][k].count >= 1 /\ place[x][k][1] = First(x, k)
          /\ \A i \in 1..dirs[x][k].count : BlockOK(live, place[x][k], dirs[x][k], k, i)
      BY <3>1 DEF Good, FilesInv
    <3>3. ASSUME NEW i \in 1..dirs'[x][k].count
          PROVE  BlockOK(live2, place[x][k], dirs[x][k], k, i)'
      <4>1. BlockOK(live, place[x][k], dirs[x][k], k, i)
        BY <3>1, <3>2
      <4>2. ASSUME NEW f, BlockOK(live, place[x][k], f, k, i)
            PROVE  BlockOK(live2, place[x][k], f, k, i)'
        BY <2>3, <4>2
      <4> QED
        BY <3>1, <4>1, <4>2 DEF BlockOK
    <3> QED
      BY <3>1, <3>2, <3>3
  <2>5. \A d1, d2 \in live2 : \A n1, n2 \in Number :
          IsFile(d1, n1)' /\ IsFile(d2, n2)' =>
            \A i \in 1..dirs'[d1][n1].count, j \in 1..dirs'[d2][n2].count :
              place[d1][n1][i] = place[d2][n2][j] => d1 = d2 /\ n1 = n2 /\ i = j
    BY <2>1 DEF Good, FilesInv
  <2> QED
    BY <2>4, <2>5 DEF FilesInv
<1> HIDE DEF live2
<1>19. ViewInv' /\ view' \in Seq(Row)
  BY <1>4, <1>5, <1>6, <1>7, <1>9, <1>10, <1>13, <1>14, <1>16, <1>17, AddedRow DEF Good
<1>20. TypeInv'
  BY <1>3, <1>10, <1>11, <1>16, <1>19 DEF Good, TypeInv, MadeDir
<1>21. MapsInv'
  BY <1>3, <1>11 DEF MapsInv, Counted
<1>22. Good(live2, rank2, place)'
  BY <1>12, <1>13, <1>14, <1>16, <1>17, <1>18, <1>19, <1>20, <1>21 DEF Good
<1> QED
  BY <1>22 DEF FileSystemInv

(* A new folder: eight sectors in a row that were free, a place in the      *)
(* parent, and the folder's files put in front of the task.                 *)
LEMMA MakeDirStep ==
  ASSUME NEW live, NEW rank, NEW place, Good(live, rank, place), MakeDir,
         UNCHANGED stale
  PROVE  FileSystemInv'
<1> DEFINE d == Head(todo).dir
           h == Head(todo).host
           room == Room(fs.map)
           later == {s \in room : s >= DirsFrom}
           s == Min(IF later # {} THEN later ELSE room)
<1>1. ~Idle /\ Head(todo).op = "insert" /\ h \in Folders
  BY DEF MakeDir
<1>2. CASE FreeNumbers(d) = {} \/ room = {}
  <2>1. InsertFails /\ UNCHANGED fs
    BY <1>2 DEF MakeDir
  <2>2. Good(live, rank, place)'
    BY <1>1, <2>1, GivenUpStep
  <2> QED
    BY <2>2 DEF FileSystemInv
<1>3. CASE ~(FreeNumbers(d) = {} \/ room = {})
  <2>1. s \in room
    <3>1. fs.map \in SUBSET Nat
      BY DataIs DEF Good, TypeInv, MapSet
    <3>2. room \in SUBSET Nat /\ later \in SUBSET room
      BY <3>1 DEF Room
    <3>3. later # {} => Min(later) \in later
      BY <3>2, MinIs
    <3>4. Min(room) \in room
      BY <1>3, <3>2, MinIs
    <3> QED
      BY <3>2, <3>3, <3>4
  <2>2. MadeDir(d, h, s)
    BY <1>3 DEF MakeDir, MadeDir, FreeNumberOf, DirEntry
  <2> HIDE DEF s, h
  <2> QED
    BY <1>1, <1>3, <2>1, <2>2, MadeDirStep
<1> QED
  BY <1>2, <1>3

-----------------------------------------------------------------------------
(* Deletion.                                                                *)

(* A task that starts with a deletion has nothing else in it, and each      *)
(* deletion's entry is no other's.                                          *)
LEMMA AllDeletions ==
  ASSUME NEW live, NEW rank, TypeInv, TodoInv(live, rank),
         todo # <<>>, Head(todo).op # "insert"
  PROVE  LET row == Head(todo).row
         IN  /\ \A i \in 1..Len(todo) : todo[i].op # "insert" /\ DeletionOK(live, rank, todo[i])
             /\ DeletionOK(live, rank, Head(todo)) /\ row \in Row
             /\ Head(todo).op \in {"erase", "list", "remove"} /\ Head(todo).level = 1
             /\ Doomed(row.dir, row.no)
             /\ \A j \in 2..Len(todo) :
                  /\ todo[j].row.dir # row.dir \/ todo[j].row.no # row.no
                  /\ rank[row.dir] >= rank[todo[j].row.dir]
<1>1. todo \in Seq(TaskSet) /\ Len(todo) \in Nat \ {0} /\ Head(todo) = todo[1] /\ Head(todo) \in TaskSet
  BY TailIs DEF TypeInv
<1>2. 1 \in 1..Len(todo)
  BY <1>1
<1>3. \A i \in 1..Len(todo) : todo[i].op # "insert"
  BY <1>1, <1>2 DEF TodoInv
<1>4. \A i \in 1..Len(todo) : DeletionOK(live, rank, todo[i])
  BY <1>3 DEF TodoInv
<1>5. Head(todo) \in [op : {"erase", "list", "remove"}, row : Row, level : {1}]
  BY <1>1 DEF TaskSet
<1>6. Doomed(Head(todo).row.dir, Head(todo).row.no)
  BY <1>1, <1>2, <1>3 DEF Doomed
<1>7. ASSUME NEW j \in 2..Len(todo)
      PROVE  /\ todo[j].row.dir # todo[1].row.dir \/ todo[j].row.no # todo[1].row.no
             /\ rank[todo[1].row.dir] >= rank[todo[j].row.dir]
  <2>1. j \in 1..Len(todo) /\ 1 < j
    BY <1>1
  <2> QED
    BY <1>2, <1>3, <2>1 DEF TodoInv
<1> QED
  BY <1>1, <1>2, <1>3, <1>4, <1>5, <1>6, <1>7

LaterIn(live) == \A j \in 2..Len(todo) : todo[j].row.dir \in live

(* The deletion at hand is done, the others are left.                       *)
LEMMA DeletionsLeft ==
  ASSUME NEW live, NEW rank, TypeInv, TodoInv(live, rank),
         todo # <<>>, Head(todo).op # "insert",
         NEW d, d = Head(todo).row.dir, NEW no, no = Head(todo).row.no,
         NEW e, EntrySet(live, d, no, e),
         NEW live2, LaterIn(live2),
         todo' = Tail(todo), Here' = Here
  PROVE  /\ todo' \in Seq(TaskSet) /\ TodoInv(live2, rank)'
         /\ \A x, k : Doomed(x, k)' <=> Doomed(x, k) /\ ~(x = d /\ k = no)
<1>1. /\ todo' \in Seq(TaskSet) /\ Len(todo) \in Nat \ {0} /\ Len(todo') = Len(todo) - 1
      /\ \A i \in 1..Len(todo) - 1 : todo'[i] = todo[i + 1]
      /\ Head(todo) = todo[1]
  BY TailIs DEF TypeInv
<1>2. \A i \in 1..Len(todo) : todo[i].op # "insert" /\ DeletionOK(live, rank, todo[i])
  BY AllDeletions
<1>3. \A j \in 2..Len(todo) : todo[j].row.dir # d \/ todo[j].row.no # no
  BY AllDeletions
<1>4. ASSUME NEW i \in 1..Len(todo')
      PROVE  /\ i + 1 \in 2..Len(todo) /\ i + 1 \in 1..Len(todo) /\ todo'[i] = todo[i + 1]
             /\ todo'[i].op # "insert" /\ todo'[i].row.dir \in live2
  BY <1>1, <1>2 DEF LaterIn
<1>5. ASSUME NEW j \in 2..Len(todo)
      PROVE  /\ todo[j].row \in Row /\ todo[j].row.no \in Number
             /\ dirs'[todo[j].row.dir][todo[j].row.no] = dirs[todo[j].row.dir][todo[j].row.no]
  <2>1. todo[j] \in TaskSet /\ todo[j].op # "insert" /\ DeletionOK(live, rank, todo[j])
    <3>1. j \in 1..Len(todo)
      BY <1>1
    <3> QED
      BY <1>2, <3>1, ElementOfSeq DEF TypeInv
  <2>2. todo[j].row \in Row
    BY <2>1 DEF TaskSet
  <2>3. todo[j].row.no \in Number /\ todo[j].row.dir \in live
    BY <2>1, <2>2 DEF Row, DeletionOK
  <2> QED
    BY <1>3, <2>2, <2>3 DEF EntrySet
<1>6. ASSUME NEW i \in 1..Len(todo')
      PROVE  DeletionOK(live2, rank, todo[i])'
  <2> DEFINE t == todo[i + 1]
  <2>1. i + 1 \in 2..Len(todo) /\ i + 1 \in 1..Len(todo) /\ todo'[i] = t /\ t.row.dir \in live2
    BY <1>4
  <2>2. DeletionOK(live, rank, t)
    BY <1>2, <2>1
  <2>3. dirs'[t.row.dir][t.row.no] = dirs[t.row.dir][t.row.no]
    BY <1>5, <2>1
  <2> HIDE DEF t
  <2> QED
    BY <2>1, <2>2, <2>3 DEF DeletionOK, Used, IsFile
<1>7. ASSUME NEW i \in 1..Len(todo'), NEW j \in 1..Len(todo'), i < j
      PROVE  /\ todo'[i].row.dir # todo'[j].row.dir \/ todo'[i].row.no # todo'[j].row.no
             /\ rank[todo'[i].row.dir] >= rank[todo'[j].row.dir]
  <2>1. i + 1 \in 1..Len(todo) /\ j + 1 \in 1..Len(todo) /\ i + 1 < j + 1 /\ todo[i + 1].op # "insert"
    BY <1>2, <1>4, <1>7
  <2>2. todo'[i] = todo[i + 1] /\ todo'[j] = todo[j + 1]
    BY <1>4
  <2> QED
    BY <2>1, <2>2 DEF TodoInv
<1>8. TodoInv(live2, rank)'
  BY <1>4, <1>6, <1>7 DEF TodoInv
<1>9. ASSUME NEW x, NEW k
      PROVE  Doomed(x, k)' <=> Doomed(x, k) /\ ~(x = d /\ k = no)
  <2>1. ASSUME NEW i \in 1..Len(todo'), todo'[i].row.dir = x, todo'[i].row.no = k
        PROVE  Doomed(x, k) /\ ~(x = d /\ k = no)
    <3>1. i + 1 \in 2..Len(todo) /\ i + 1 \in 1..Len(todo) /\ todo'[i] = todo[i + 1]
      BY <1>4
    <3>2. todo[i + 1].op # "insert"
      BY <1>2, <3>1
    <3> QED
      BY <1>3, <2>1, <3>1, <3>2 DEF Doomed
  <2>2. ASSUME Doomed(x, k), ~(x = d /\ k = no)
        PROVE  Doomed(x, k)'
    <3>1. PICK j \in 1..Len(todo) : todo[j].row.dir = x /\ todo[j].row.no = k
      BY <2>2 DEF Doomed
    <3>2. j # 1
      BY <1>1, <2>2, <3>1
    <3>3. j - 1 \in 1..Len(todo') /\ (j - 1) + 1 = j
      BY <1>1, <3>2
    <3>4. todo'[j - 1] = todo[j] /\ todo'[j - 1].op # "insert"
      BY <1>4, <3>3
    <3> QED
      BY <3>1, <3>3, <3>4 DEF Doomed
  <2> QED
    BY <2>1, <2>2 DEF Doomed
<1> QED
  BY <1>1, <1>8, <1>9

(* What is deleted was not shown any more.                                  *)
LEMMA RemovedRow ==
  ASSUME NEW live, NEW rank, TypeInv, DirsInv(live, rank), PathInv(live, rank), ViewInv,
         NEW live2, DirsInv(live2, rank)', Here \in live2,
         NEW d \in live, NEW no \in Number, Doomed(d, no),
         EntrySet(live, d, no, Deleted), Here' = Here, UNCHANGED <<view, stale>>,
         \A x, k : Doomed(x, k)' <=> Doomed(x, k) /\ ~(x = d /\ k = no)
  PROVE  ViewInv'
<1> SUFFICES ASSUME ~stale' PROVE ViewExact'
  BY DEF ViewInv
<1>0. ViewExact
  BY DEF ViewInv
<1>1. view \in Seq(Row) /\ Len(view) \in Nat
  BY DEF TypeInv
<1>2. Here \in live
  BY HereIs
<1>3. Deleted.flag = "deleted"
  BY DEF Deleted, Never
<1>4. \A k \in Number : dirs'[Here][k] = IF d = Here /\ k = no THEN Deleted ELSE dirs[Here][k]
  BY <1>2 DEF EntrySet
<1>5. \A k : k \in Listed(Here)' <=> k \in Listed(Here) /\ ~(d = Here /\ k = no)
  <2>1. \A k : k \in Listed(Here) <=> k \in Number /\ Used(Here, k)
    BY <1>2, ListedIs
  <2>2. \A k : k \in Listed(Here)' <=> k \in Number /\ Used(Here, k)'
    BY ListedIsNext
  <2>3. \A k \in Number : Used(Here, k)' <=> Used(Here, k) /\ ~(d = Here /\ k = no)
    BY <1>3, <1>4 DEF Used
  <2> QED
    BY <2>1, <2>2, <2>3
<1>6. \A i \in 1..Len(view) : view[i].no \in Listed(Here) /\ view[i] = RowOf(Here, view[i].no)
  BY <1>0 DEF ViewExact, Shows
<1>7. \A i \in 1..Len(view) : ~(d = Here /\ view[i].no = no)
  BY <1>0, <1>6 DEF ViewExact
<1>8. \A k \in Listed(Here) : ~(d = Here /\ k = no) => RowOf(Here, k)' = RowOf(Here, k)
  <2>1. \A k \in Listed(Here) : k \in Number
    BY DEF Listed
  <2> QED
    BY <1>4, <2>1 DEF RowOf
<1>9. Shows(view, Here)'
  <2>1. \A i, j \in 1..Len(view) : i # j => view[i].no # view[j].no
    BY <1>0 DEF ViewExact, Shows
  <2>2. ASSUME NEW i \in 1..Len(view)
        PROVE  view[i].no \in Listed(Here)' /\ view[i] = RowOf(Here, view[i].no)'
    <3>1. view[i].no \in Listed(Here) /\ view[i] = RowOf(Here, view[i].no)
      BY <1>6
    <3>2. ~(d = Here /\ view[i].no = no)
      BY <1>7
    <3> QED
      BY <1>5, <1>8, <3>1, <3>2
  <2> QED
    BY <1>1, <2>1, <2>2 DEF Shows
<1>10. ASSUME NEW k \in Listed(Here)'
       PROVE  (\E i \in 1..Len(view) : view[i].no = k) <=> ~Doomed(Here, k)'
  <2>1. k \in Listed(Here) /\ ~(d = Here /\ k = no)
    BY <1>5
  <2>2. (\E i \in 1..Len(view) : view[i].no = k) <=> ~Doomed(Here, k)
    BY <1>0, <2>1 DEF ViewExact
  <2>3. Doomed(Here, k)' <=> Doomed(Here, k)
    BY <2>1
  <2> QED
    BY <2>2, <2>3
<1> QED
  BY <1>9, <1>10 DEF ViewExact

(* The mark of a deleted entry is an entry.                                 *)
LEMMA DeletedIs == Deleted \in Entry /\ Deleted.flag = "deleted"
BY SectorIs DEF Deleted, Never, Entry

(* Directories without one entry, and without those it led to.              *)
LEMMA DirsLess ==
  ASSUME NEW live, NEW rank, DirsInv(live, rank),
         NEW d \in live, NEW no \in Number, Used(d, no), EntrySet(live, d, no, Deleted),
         NEW live2 \in SUBSET live, Root \in live2,
         \A x \in live2, k \in Number :
           IsDir(x, k) /\ ~(x = d /\ k = no) => First(x, k) \in live2,
         \A x \in live2 : DirAt(x) \cap vtoc'.map = {}
  PROVE  DirsInv(live2, rank)'
<1>1. \A x \in live2, k \in Number :
        dirs'[x][k] = IF x = d /\ k = no THEN Deleted ELSE dirs[x][k]
  BY DEF EntrySet
<1>2. \A x \in live2 : NeverLast(x)'
  <2> TAKE x \in live2
  <2>1. NeverLast(x)
    BY DEF DirsInv, NeverLast
  <2>2. CASE x = d
    <3>1. \A k \in Number : dirs'[d][k] = IF k = no THEN Deleted ELSE dirs[d][k]
      BY <1>1, <2>2
    <3> QED
      BY <2>1, <2>2, <3>1, DeletedIs, NeverLastKept
  <2>3. CASE x # d
    BY <1>1, <2>1, <2>3 DEF NeverLast
  <2> QED
    BY <2>2, <2>3
<1>3. ASSUME NEW x \in live2, NEW k \in Number, IsDir(x, k)'
      PROVE  IsDir(x, k) /\ First(x, k)' = First(x, k) /\ ~(x = d /\ k = no)
  BY <1>1, <1>3, DeletedIs DEF IsDir, First
<1>4. \A x \in live : \A k \in Number :
        IsDir(x, k) => First(x, k) \in live \ {Root} /\ rank[First(x, k)] > rank[x]
  BY DEF DirsInv
<1>5. \A x, y \in live : \A k, l \in Number :
        IsDir(x, k) /\ IsDir(y, l) /\ First(x, k) = First(y, l) => x = y /\ k = l
  BY DEF DirsInv
<1>6. ASSUME NEW x \in live2, NEW k \in Number, IsDir(x, k)'
      PROVE  First(x, k)' \in live2 \ {Root} /\ rank[First(x, k)'] > rank[x]
  BY <1>3, <1>4, <1>6
<1>7. ASSUME NEW x \in live2, NEW y \in live2, NEW k \in Number, NEW l \in Number,
             IsDir(x, k)', IsDir(y, l)', First(x, k)' = First(y, l)'
      PROVE  x = y /\ k = l
  BY <1>3, <1>5, <1>7
<1>8. \A x \in live2 :
        DirAt(x) \subseteq Sector \ vtoc'.map /\ (x # Root => DirAt(x) \cap System = {})
  BY DEF DirsInv
<1>9. \A x, y \in live2 : x # y => DirAt(x) \cap DirAt(y) = {}
  BY DEF DirsInv
<1> QED
  BY <1>2, <1>6, <1>7, <1>8, <1>9 DEF DirsInv, NeverLast

(* Files without one entry: the others keep their sectors.                  *)
LEMMA FilesLess ==
  ASSUME NEW live, NEW place, FilesInv(live, place), UNCHANGED data,
         NEW d \in live, NEW no \in Number, EntrySet(live, d, no, Deleted),
         NEW live2 \in SUBSET live,
         \A x \in live2, k \in Number :
           IsFile(x, k) /\ ~(x = d /\ k = no) =>
             \A i \in 1..dirs[x][k].count : place[x][k][i] \notin vtoc'.map
  PROVE  FilesInv(live2, place)'
<1>1. \A x \in live2, k \in Number :
        dirs'[x][k] = IF x = d /\ k = no THEN Deleted ELSE dirs[x][k]
  BY DEF EntrySet
<1>2. ASSUME NEW x \in live2, NEW k \in Number, IsFile(x, k)'
      PROVE  /\ IsFile(x, k) /\ First(x, k)' = First(x, k) /\ ~(x = d /\ k = no)
             /\ dirs'[x][k] = dirs[x][k] /\ x \in live
  BY <1>1, <1>2, DeletedIs DEF IsFile, First
<1>3. ASSUME NEW x \in live2, NEW k \in Number, IsFile(x, k)'
      PROVE  /\ dirs'[x][k].count >= 1
             /\ place[x][k][1] = First(x, k)'
             /\ \A i \in 1..dirs'[x][k].count : BlockOK(live2, place[x][k], dirs[x][k], k, i)'
  <2>1. /\ IsFile(x, k) /\ First(x, k)' = First(x, k) /\ ~(x = d /\ k = no)
        /\ dirs'[x][k] = dirs[x][k] /\ x \in live
    BY <1>2, <1>3
  <2>2. /\ dirs[x][k].count >= 1 /\ place[x][k][1] = First(x, k)
        /\ \A i \in 1..dirs[x][k].count : BlockOK(live, place[x][k], dirs[x][k], k, i)
    BY <2>1 DEF FilesInv
  <2>3. ASSUME NEW i \in 1..dirs'[x][k].count
        PROVE  BlockOK(live2, place[x][k], dirs[x][k], k, i)'
    <3>1. BlockOK(live, place[x][k], dirs[x][k], k, i) /\ place[x][k][i] \notin vtoc'.map
      BY <2>1, <2>2
    <3> QED
      BY <2>1, <3>1 DEF BlockOK
  <2> QED
    BY <2>1, <2>2, <2>3
<1>4. ASSUME NEW x \in live2, NEW y \in live2, NEW k \in Number, NEW l \in Number,
             IsFile(x, k)', IsFile(y, l)',
             NEW i \in 1..dirs'[x][k].count, NEW j \in 1..dirs'[y][l].count,
             place[x][k][i] = place[y][l][j]
      PROVE  x = y /\ k = l /\ i = j
  <2>1. /\ IsFile(x, k) /\ dirs'[x][k] = dirs[x][k] /\ x \in live
        /\ IsFile(y, l) /\ dirs'[y][l] = dirs[y][l] /\ y \in live
    BY <1>2, <1>4
  <2> QED
    BY <1>4, <2>1 DEF FilesInv
<1> QED
  BY <1>3, <1>4 DEF FilesInv

(* Erase frees the sectors of its own chain, which is no other file's.      *)
LEMMA EraseStep ==
  ASSUME NEW live, NEW rank, NEW place, Good(live, rank, place), Erase,
         UNCHANGED stale
  PROVE  Good(live, rank, place)'
<1> DEFINE row == Head(todo).row
           d == row.dir
           no == row.no
           e == dirs[d][no]
           p == place[d][no]
           steps == Steps(row.entry, no)
           s == {Chain(row.entry)[i] : i \in steps}
<1>1. todo # <<>> /\ Head(todo).op = "erase" /\ MarkDeleted(row) /\ UNCHANGED <<data, path, view>>
  BY DEF Erase, Idle
<1>2. /\ DeletionOK(live, rank, Head(todo)) /\ row \in Row /\ Doomed(d, no)
      /\ \A i \in 1..Len(todo) : todo[i].op # "insert" /\ DeletionOK(live, rank, todo[i])
  BY <1>1, AllDeletions DEF Good
<1>3. d \in live /\ no \in Number /\ d \in Sector /\ Used(d, no) /\ IsFile(d, no) /\ row.entry = e
  BY <1>1, <1>2 DEF DeletionOK, Row, Good
<1>4. /\ fs \in MapSet /\ Counted(fs)
      /\ fs.map \subseteq vtoc.map /\ fs.map \in SUBSET Data
  BY DEF Good, TypeInv, MapsInv, MapSet
<1>5. dirs \in [Sector -> [Number -> Entry]] /\ live \subseteq Sector /\ e \in Entry
  BY <1>3 DEF Good, TypeInv
<1>6. /\ e.count >= 1 /\ p[1] = e.first
      /\ \A i \in 1..e.count : BlockOK(live, p, e, no, i)
  BY <1>3 DEF Good, FilesInv, First
<1>7. \A i \in 1..e.count :
        /\ p[i] \in Data /\ p[i] \notin vtoc.map
        /\ data[p[i]].next = IF i < e.count THEN p[i + 1] ELSE 0
        /\ data[p[i]].file = no
        /\ \A x \in live : p[i] \notin DirAt(x)
  <2> HIDE DEF e, p, no, d, row
  <2> TAKE i \in 1..e.count
  <2>1. BlockOK(live, p, e, no, i)
    BY <1>6
  <2>2. p[i] \in Data \ vtoc.map /\ \A x \in live : p[i] \notin DirAt(x)
    BY <2>1 DEF BlockOK
  <2>3. data[p[i]] = [file |-> no, next |-> IF i < e.count THEN p[i + 1] ELSE 0,
                      from |-> e.from, block |-> i]
    BY <2>1 DEF BlockOK
  <2> QED
    BY <2>2, <2>3
<1>8. /\ Foreign(e, no) = {} /\ Steps(e, no) = 0..e.count - 1
      /\ ChainSet(e, no) = SectorsUpTo(p, e.count)
  <2> HIDE DEF e, p
  <2> QED
    BY <1>5, <1>6, <1>7, ChainOwn
<1>9. e.count \in Nat
  BY <1>5 DEF Entry
<1>10. s = {p[i] : i \in 1..e.count} /\ Cardinality(steps) = e.count /\ Foreign(row.entry, no) = {}
  <2>1. Cardinality(0..e.count - 1) = e.count
    <3> HIDE DEF e, p
    <3> QED
      BY <1>6, <1>9, FS_Interval
  <2> QED
    BY <1>3, <1>8, <2>1 DEF ChainSet, SectorsUpTo
<1>11. Cardinality({p[i] : i \in 1..e.count}) = e.count
  <2>1. \A i, j \in 1..e.count : i # j => p[i] # p[j]
    BY <1>3 DEF Good, FilesInv
  <2> HIDE DEF e, p
  <2> QED
    BY <1>9, <2>1, ImageSize
<1>12. fs' = Freed(fs, s, Cardinality(s)) /\ vtoc' = fs' /\ todo' = Tail(todo)
  <2>1. fs' = Freed(fs, s, Cardinality(steps)) /\ vtoc' = fs' /\ todo' = Tail(todo)
    BY <1>10 DEF Erase
  <2> HIDE DEF s, steps, e, p
  <2> QED
    BY <1>10, <1>11, <2>1
<1>13. \A y : y \in s <=> \E i \in 1..e.count : y = p[i]
  BY <1>10
<1> HIDE DEF s, steps, p, e
<1>14. /\ fs' \in MapSet
       /\ fs'.map = fs.map \cup s /\ Counted(fs')
  <2>1. s \in SUBSET Data /\ s \cap fs.map = {}
    BY <1>4, <1>7, <1>13
  <2> DEFINE new == Freed(fs, s, Cardinality(s))
  <2>2. new \in MapSet /\ new.map = fs.map \cup s /\ Counted(new)
    BY <1>4, <2>1, FreedIs
  <2>3. fs' = new
    BY <1>12
  <2> HIDE DEF new
  <2> QED
    BY <2>2, <2>3 DEF Counted
<1>15. dirs' = [dirs EXCEPT ![d][no] = Deleted]
  BY <1>1 DEF MarkDeleted
<1> HIDE DEF d, no
<1>16. dirs' \in [Sector -> [Number -> Entry]] /\ EntrySet(live, d, no, Deleted)
  BY <1>3, <1>5, <1>15, DeletedIs DEF EntrySet
<1>17. DirsInv(live, rank)'
  <2>1. Root \in live
    BY DEF Good, DirsInv
  <2>2. \A x \in live, k \in Number : IsDir(x, k) => First(x, k) \in live
    BY DEF Good, DirsInv
  <2>3. ASSUME NEW x \in live
        PROVE  DirAt(x) \cap vtoc'.map = {}
    <3>1. DirAt(x) \cap vtoc.map = {}
      BY DEF Good, DirsInv
    <3>2. DirAt(x) \cap s = {}
      BY <1>7, <1>13
    <3> QED
      BY <1>4, <1>12, <1>14, <3>1, <3>2
  <2> QED
    BY <1>3, <1>16, <2>1, <2>2, <2>3, DirsLess DEF Good
<1>18. FilesInv(live, place)'
  <2>1. ASSUME NEW x \in live, NEW k \in Number, IsFile(x, k), ~(x = d /\ k = no),
               NEW i \in 1..dirs[x][k].count
        PROVE  place[x][k][i] \notin vtoc'.map
    <3>1. place[x][k][i] \notin vtoc.map
      BY <2>1 DEF Good, FilesInv, BlockOK
    <3>2. \A j \in 1..e.count : place[x][k][i] # p[j]
      BY <1>3, <2>1 DEF Good, FilesInv, e, p
    <3> QED
      BY <1>4, <1>12, <1>13, <1>14, <3>1, <3>2
  <2> QED
    BY <1>1, <1>3, <1>16, <2>1, FilesLess DEF Good
<1>19. PathInv(live, rank)' /\ Here' = Here /\ Here \in live
  BY <1>1, PathKept, HereIs DEF Good
<1>20. /\ todo' \in Seq(TaskSet) /\ TodoInv(live, rank)'
       /\ \A x, k : Doomed(x, k)' <=> Doomed(x, k) /\ ~(x = d /\ k = no)
  <2>1. LaterIn(live)
    <3>1. Len(todo) \in Nat
      BY DEF Good, TypeInv
    <3> QED
      BY <1>2, <3>1 DEF DeletionOK, LaterIn
  <2>2. d = Head(todo).row.dir /\ no = Head(todo).row.no /\ Head(todo).op # "insert"
    BY <1>1 DEF d, no
  <2>3. TypeInv /\ TodoInv(live, rank)
    BY DEF Good
  <2> QED
    BY <1>1, <1>12, <1>16, <1>19, <2>1, <2>2, <2>3, DeletionsLeft
<1>21. ViewInv'
  <2>1. Doomed(d, no)
    BY <1>2 DEF d, no
  <2> QED
    BY <1>1, <1>3, <1>16, <1>17, <1>19, <1>20, <2>1, RemovedRow DEF Good
<1>22. TypeInv'
  BY <1>1, <1>12, <1>14, <1>16, <1>20 DEF Good, TypeInv
<1>23. MapsInv'
  BY <1>12, <1>14 DEF MapsInv, Counted
<1> QED
  BY <1>17, <1>18, <1>19, <1>20, <1>21, <1>22, <1>23 DEF Good

(* A directory takes eight sectors, whichever they are.                     *)
LEMMA DirSize ==
  ASSUME NEW s \in Nat
  PROVE  Cardinality(DirAt(s)) = DirSectors
<1>1. DirSectors \in Nat \ {0}
  BY FileSystemAssumption
<1>2. Cardinality(s..s + DirSectors - 1) = DirSectors
  BY <1>1, FS_Interval
<1> QED
  BY <1>2 DEF DirAt

(* No task looks at a directory that is removed, and it is not shown.       *)
LEMMA RemoveDirStep ==
  ASSUME NEW live, NEW rank, NEW place, Good(live, rank, place), RemoveDir,
         UNCHANGED stale
  PROVE  FileSystemInv'
<1> DEFINE row == Head(todo).row
           d == row.dir
           no == row.no
           D == row.entry.first
<1>0. PICK live2 : live2 = live \ {D}
  OBVIOUS
<1>1. todo # <<>> /\ Head(todo).op = "remove" /\ MarkDeleted(row) /\ UNCHANGED <<data, path, view>>
  BY DEF RemoveDir, Idle
<1>2. fs' = Freed(fs, DirAt(D), DirSectors) /\ vtoc' = fs' /\ todo' = Tail(todo)
  BY DEF RemoveDir
<1>3. /\ DeletionOK(live, rank, Head(todo)) /\ row \in Row /\ Doomed(d, no)
      /\ \A i \in 1..Len(todo) : todo[i].op # "insert" /\ DeletionOK(live, rank, todo[i])
      /\ \A j \in 2..Len(todo) : rank[d] >= rank[todo[j].row.dir]
  BY <1>1, AllDeletions DEF Good
<1>4. /\ d \in live /\ no \in Number /\ d \in Sector /\ Used(d, no) /\ IsDir(d, no)
      /\ D = First(d, no) /\ rank[d] >= rank[Here]
  <2>1. d \in live /\ Used(d, no) /\ row.entry = dirs[d][no] /\ ~IsFile(d, no) /\ rank[d] >= rank[Here]
    BY <1>1, <1>3 DEF DeletionOK
  <2>2. no \in Number /\ d \in Sector
    BY <1>3 DEF Row
  <2> QED
    BY <2>1, <2>2 DEF Used, IsFile, IsDir, First
<1>5. D \in live \ {Root} /\ rank[D] > rank[d]
  BY <1>4 DEF Good, DirsInv
<1>6. /\ fs \in MapSet /\ Counted(fs)
      /\ fs.map \subseteq vtoc.map /\ fs.map \in SUBSET Data
  BY DEF Good, TypeInv, MapsInv, MapSet
<1>7. /\ dirs \in [Sector -> [Number -> Entry]] /\ live \subseteq Sector
      /\ rank \in [Sector -> Nat] /\ Sector \subseteq Nat
  BY SectorIs DEF Good, TypeInv
<1>8. DirAt(D) \in SUBSET Data /\ DirAt(D) \cap fs.map = {} /\ Cardinality(DirAt(D)) = DirSectors
  <2>1. D \in Nat
    BY <1>5, <1>7
  <2>2. DirAt(D) \subseteq Sector \ vtoc.map /\ DirAt(D) \cap System = {}
    BY <1>5 DEF Good, DirsInv
  <2> HIDE DEF D
  <2> QED
    BY <1>6, <2>1, <2>2, DirSize DEF Data
<1> HIDE DEF D, d, no
<1>9. /\ fs' \in MapSet
      /\ fs'.map = fs.map \cup DirAt(D) /\ Counted(fs')
  <2> DEFINE new == Freed(fs, DirAt(D), Cardinality(DirAt(D)))
  <2>1. /\ new \in MapSet
        /\ new.map = fs.map \cup DirAt(D)
        /\ Counted(new)
    BY <1>6, <1>8, FreedIs
  <2>2. fs' = new
    BY <1>2, <1>8
  <2> HIDE DEF new
  <2> QED
    BY <2>1, <2>2 DEF Counted
<1>10. dirs' = [dirs EXCEPT ![d][no] = Deleted]
  BY <1>1 DEF MarkDeleted, d, no
<1>11. dirs' \in [Sector -> [Number -> Entry]] /\ EntrySet(live, d, no, Deleted)
  BY <1>4, <1>7, <1>10, DeletedIs DEF EntrySet
<1>12. live2 \in SUBSET live /\ Root \in live2 /\ d \in live2
  <2>1. Root \in live
    BY DEF Good, DirsInv
  <2>2. d # D
    BY <1>4, <1>5, <1>7
  <2> QED
    BY <1>0, <1>4, <1>5, <2>1, <2>2
<1>13. \A x \in live2 : DirAt(x) \cap vtoc'.map = {}
  <2>1. \A x \in live2 : DirAt(x) \cap vtoc.map = {} /\ DirAt(x) \cap DirAt(D) = {}
    BY <1>0, <1>5 DEF Good, DirsInv
  <2> QED
    BY <1>2, <1>6, <1>9, <2>1
<1>14. DirsInv(live2, rank)'
  <2>1. ASSUME NEW x \in live2, NEW k \in Number, IsDir(x, k), ~(x = d /\ k = no)
        PROVE  First(x, k) \in live2
    BY <1>0, <1>4, <1>12, <2>1 DEF Good, DirsInv
  <2> QED
    BY <1>4, <1>11, <1>12, <1>13, <2>1, DirsLess DEF Good
<1>15. FilesInv(live2, place)'
  <2>1. ASSUME NEW x \in live2, NEW k \in Number, IsFile(x, k), NEW i \in 1..dirs[x][k].count
        PROVE  place[x][k][i] \notin vtoc'.map
    <3>1. BlockOK(live, place[x][k], dirs[x][k], k, i)
      BY <1>12, <2>1 DEF Good, FilesInv
    <3>2. place[x][k][i] \notin vtoc.map /\ place[x][k][i] \notin DirAt(D)
      BY <1>5, <3>1 DEF BlockOK
    <3> QED
      BY <1>2, <1>6, <1>9, <3>2
  <2> QED
    BY <1>1, <1>4, <1>11, <1>12, <2>1, FilesLess DEF Good
<1>16. PathInv(live, rank)' /\ Here' = Here /\ Here \in live
  BY <1>1, PathKept, HereIs DEF Good
<1>17. \A x \in live : rank[x] <= rank[d] => x \in live2
  BY <1>0, <1>4, <1>5, <1>7
<1>18. \A i \in 1..Len(path) : path[i] \in live2
  <2> TAKE i \in 1..Len(path)
  <2>1. Len(path) \in Nat \ {0} /\ Len(path) \in 1..Len(path)
    BY HereIs DEF Good
  <2>2. path[i] \in live
    BY DEF Good, PathInv
  <2>3. rank[path[i]] <= rank[Here]
    <3>1. i = Len(path) \/ i < Len(path)
      BY <2>1
    <3>2. i < Len(path) => rank[path[i]] < rank[Here]
      BY <2>1 DEF Good, PathInv, Here
    <3>3. rank[path[i]] \in Nat /\ rank[Here] \in Nat
      BY <1>7, <1>16, <2>2
    <3>4. i = Len(path) => path[i] = Here
      BY DEF Here
    <3> QED
      BY <3>1, <3>2, <3>3, <3>4
  <2>4. rank[path[i]] <= rank[d]
    <3>1. rank[path[i]] \in Nat /\ rank[Here] \in Nat /\ rank[d] \in Nat
      BY <1>4, <1>7, <1>16, <2>2
    <3> QED
      BY <1>4, <2>3, <3>1
  <2> QED
    BY <1>17, <2>2, <2>4
<1>19. PathInv(live2, rank)' /\ Here \in live2
  <2>1. path' = path /\ path \in Seq(Sector) /\ Len(path) \in Nat \ {0}
    BY <1>1, HereIs DEF Good, TypeInv
  <2>2. Len(path) \in 1..Len(path)
    BY <2>1
  <2> QED
    BY <1>16, <1>18, <2>1, <2>2 DEF PathInv, Here
<1>20. /\ todo' \in Seq(TaskSet) /\ TodoInv(live2, rank)'
       /\ \A x, k : Doomed(x, k)' <=> Doomed(x, k) /\ ~(x = d /\ k = no)
  <2>1. LaterIn(live2)
    <3>1. Len(todo) \in Nat
      BY DEF Good, TypeInv
    <3>2. ASSUME NEW j \in 2..Len(todo)
          PROVE  todo[j].row.dir \in live2
      <4>1. j \in 1..Len(todo)
        BY <3>1
      <4>2. todo[j].row.dir \in live
        BY <1>3, <4>1 DEF DeletionOK
      <4>3. rank[todo[j].row.dir] <= rank[d]
        <5>1. rank[d] >= rank[todo[j].row.dir]
          BY <1>3
        <5>2. rank[d] \in Nat /\ rank[todo[j].row.dir] \in Nat
          BY <1>4, <1>7, <4>2
        <5> QED
          BY <5>1, <5>2
      <4> QED
        BY <1>17, <4>2, <4>3
    <3> QED
      BY <3>2 DEF LaterIn
  <2>2. d = Head(todo).row.dir /\ no = Head(todo).row.no /\ Head(todo).op # "insert"
    BY <1>1 DEF d, no
  <2>3. TypeInv /\ TodoInv(live, rank)
    BY DEF Good
  <2> QED
    BY <1>1, <1>2, <1>11, <1>16, <2>1, <2>2, <2>3, DeletionsLeft
<1>21. ViewInv'
  <2>1. view' = view /\ Doomed(d, no)
    BY <1>1, <1>3 DEF d, no
  <2> QED
    BY <1>4, <1>11, <1>14, <1>16, <1>19, <1>20, <2>1, RemovedRow DEF Good
<1>22. TypeInv'
  BY <1>1, <1>2, <1>9, <1>11, <1>20 DEF Good, TypeInv
<1>23. MapsInv'
  BY <1>2, <1>9 DEF MapsInv, Counted
<1>24. Good(live2, rank, place)'
  BY <1>7, <1>12, <1>14, <1>15, <1>19, <1>20, <1>21, <1>22, <1>23 DEF Good
<1> QED
  BY <1>24 DEF FileSystemInv

(* What is in a directory is deleted first, then the directory, then what   *)
(* was to be deleted before.                                                *)
LEMMA ListDirStep ==
  ASSUME NEW live, NEW rank, NEW place, Good(live, rank, place), ListDir,
         UNCHANGED stale
  PROVE  Good(live, rank, place)'
<1> DEFINE row == Head(todo).row
           d == row.dir
           no == row.no
           D == row.entry.first
           inner == GetEntries(D)
           first == [i \in DOMAIN inner |-> DeletionOf(inner[i])]
           last == Deletion("remove", row)
<1>1. /\ todo # <<>> /\ Head(todo).op = "list" /\ UNCHANGED <<data, dirs, vtoc, fs, path, view>>
      /\ todo' = (first \o <<last>>) \o Tail(todo)
  BY DEF ListDir, Idle
<1>2. /\ DeletionOK(live, rank, Head(todo)) /\ row \in Row /\ Doomed(d, no)
      /\ \A i \in 1..Len(todo) : todo[i].op # "insert" /\ DeletionOK(live, rank, todo[i])
      /\ \A j \in 2..Len(todo) :
           /\ rank[d] >= rank[todo[j].row.dir]
           /\ todo[j].row.dir # d \/ todo[j].row.no # no
  BY <1>1, AllDeletions DEF Good
<1>3. /\ d \in live /\ no \in Number /\ d \in Sector /\ Used(d, no) /\ IsDir(d, no) /\ ~IsFile(d, no)
      /\ row.entry = dirs[d][no] /\ D = First(d, no) /\ rank[d] >= rank[Here]
  <2>1. d \in live /\ Used(d, no) /\ row.entry = dirs[d][no] /\ ~IsFile(d, no) /\ rank[d] >= rank[Here]
    BY <1>1, <1>2 DEF DeletionOK
  <2>2. no \in Number /\ d \in Sector
    BY <1>2 DEF Row
  <2> QED
    BY <2>1, <2>2 DEF Used, IsFile, IsDir, First
<1>4. D \in live /\ rank[D] > rank[d]
  BY <1>3 DEF Good, DirsInv
<1>5. /\ dirs \in [Sector -> [Number -> Entry]] /\ live \subseteq Sector
      /\ rank \in [Sector -> Nat] /\ Here \in live
  BY HereIs DEF Good, TypeInv
<1>6. rank[D] \in Nat /\ rank[d] \in Nat /\ rank[Here] \in Nat
  BY <1>3, <1>4, <1>5
<1>7. Shows(inner, D) /\ inner \in Seq(Row) /\ DOMAIN inner = 1..Len(inner) /\ Len(inner) \in Nat
  <2>1. Shows(inner, D)
    BY <1>4, <1>5, EntriesShown
  <2> HIDE DEF inner
  <2>2. inner \in Seq(Row)
    BY <2>1 DEF Shows
  <2> QED
    BY <2>1, <2>2
<1>8. \A i \in 1..Len(inner) :
        /\ inner[i] \in Row /\ inner[i].dir = D /\ Used(D, inner[i].no)
        /\ inner[i].entry = dirs[D][inner[i].no]
  <2> HIDE DEF inner, D
  <2> TAKE i \in 1..Len(inner)
  <2>1. inner[i].no \in Listed(D) /\ inner[i] = RowOf(D, inner[i].no) /\ inner[i] \in Row
    BY <1>7, ElementOfSeq DEF Shows
  <2>2. \A k : RowOf(D, k).dir = D /\ RowOf(D, k).entry = dirs[D][k]
    BY DEF RowOf
  <2>3. Used(D, inner[i].no)
    BY <2>1 DEF Listed, Used
  <2>4. \A k : inner[i] = RowOf(D, k) => inner[i].dir = D /\ inner[i].entry = dirs[D][k]
    BY <2>2
  <2> QED
    BY <2>1, <2>3, <2>4
<1>9. \A r \in Row :
        LET t == DeletionOf(r)
        IN  /\ t \in TaskSet /\ t.row = r /\ t.op # "insert"
            /\ t.op = "erase" <=> r.entry.flag # "dir"
  BY DEF DeletionOf, Deletion, TaskSet
<1>10. last \in TaskSet /\ last.row = row /\ last.op = "remove"
  BY <1>2 DEF Deletion, TaskSet
<1> HIDE DEF inner, last, D, d, no
<1>11. /\ first \in Seq(TaskSet) /\ Len(first) = Len(inner)
       /\ \A i \in 1..Len(inner) : first[i] = DeletionOf(inner[i])
  <2>1. first \in [1..Len(inner) -> TaskSet]
    BY <1>7, <1>8, <1>9
  <2>2. \A i \in 1..Len(inner) : first[i] = DeletionOf(inner[i])
    BY <1>7
  <2> HIDE DEF first
  <2> QED
    BY <1>7, <2>1, <2>2, SeqDef
<1>12. /\ Tail(todo) \in Seq(TaskSet) /\ Len(todo) \in Nat \ {0}
       /\ Len(Tail(todo)) = Len(todo) - 1
       /\ \A i \in 1..Len(todo) - 1 : Tail(todo)[i] = todo[i + 1]
       /\ Head(todo) = todo[1]
  BY <1>1, TailIs DEF Good, TypeInv
<1> DEFINE m == Len(inner)
           n == Len(todo)
<1> HIDE DEF first
<1>13. /\ todo' \in Seq(TaskSet) /\ Len(todo') = m + n
       /\ \A i \in 1..m : todo'[i] = first[i]
       /\ todo'[m + 1] = last
       /\ \A i \in 2..n : todo'[m + i] = todo[i]
  <2> DEFINE a == first \o <<last>>
  <2>1. /\ <<last>> \in Seq(TaskSet) /\ Len(<<last>>) = 1 /\ <<last>>[1] = last
    BY <1>10
  <2>2. /\ a \in Seq(TaskSet) /\ Len(a) = m + 1
        /\ \A i \in 1..m + 1 : a[i] = IF i <= m THEN first[i] ELSE <<last>>[i - m]
    BY <1>7, <1>11, <2>1, ConcatProperties
  <2>3. (\A i \in 1..m : a[i] = first[i]) /\ a[m + 1] = last
    BY <1>7, <2>1, <2>2
  <2> HIDE DEF a
  <2>4. /\ a \o Tail(todo) \in Seq(TaskSet) /\ Len(a \o Tail(todo)) = (m + 1) + (n - 1)
        /\ \A i \in 1..(m + 1) + (n - 1) :
             (a \o Tail(todo))[i] = IF i <= m + 1 THEN a[i] ELSE Tail(todo)[i - (m + 1)]
    <3>1. /\ a \o Tail(todo) \in Seq(TaskSet) /\ Len(a \o Tail(todo)) = Len(a) + Len(Tail(todo))
          /\ \A i \in 1..Len(a) + Len(Tail(todo)) :
               (a \o Tail(todo))[i] = IF i <= Len(a) THEN a[i] ELSE Tail(todo)[i - Len(a)]
      BY <1>12, <2>2, ConcatProperties
    <3> QED
      BY <1>12, <2>2, <3>1
  <2>5. todo' = a \o Tail(todo)
    BY <1>1 DEF a
  <2>6. ASSUME NEW i \in 2..n
        PROVE  todo'[m + i] = todo[i]
    <3>1. /\ m + i \in 1..(m + 1) + (n - 1) /\ ~(m + i <= m + 1)
          /\ (m + i) - (m + 1) = i - 1 /\ i - 1 \in 1..n - 1 /\ (i - 1) + 1 = i
      BY <1>7, <1>12
    <3> QED
      BY <1>12, <2>4, <2>5, <3>1
  <2>7. ASSUME NEW i \in 1..m + 1
        PROVE  todo'[i] = a[i]
    <3>1. i \in 1..(m + 1) + (n - 1) /\ i <= m + 1
      BY <1>7, <1>12
    <3> QED
      BY <2>4, <2>5, <3>1
  <2>8. (m + 1) + (n - 1) = m + n /\ m + 1 \in 1..m + 1 /\ \A i \in 1..m : i \in 1..m + 1
    BY <1>7, <1>12
  <2> QED
    BY <2>3, <2>4, <2>5, <2>6, <2>7, <2>8
<1> DEFINE Inner(i) == i \in 1..m /\ todo'[i] = DeletionOf(inner[i])
           Later(i) == \E j \in 2..n : i = m + j /\ todo'[i] = todo[j]
<1>14. \A i \in 1..Len(todo') : Inner(i) \/ (i = m + 1 /\ todo'[i] = last) \/ Later(i)
  <2> TAKE i \in 1..Len(todo')
  <2>1. CASE i \in 1..m
    BY <1>11, <1>13, <2>1
  <2>2. CASE i = m + 1
    BY <1>13, <2>2
  <2>3. CASE i > m + 1
    <3>1. i - m \in 2..n /\ i = m + (i - m)
      BY <1>7, <1>12, <1>13, <2>3
    <3> QED
      BY <1>13, <3>1
  <2> QED
    BY <1>7, <2>1, <2>2, <2>3
<1>15. DirsInv(live, rank)' /\ FilesInv(live, place)' /\ PathInv(live, rank)' /\ Here' = Here
  BY <1>1, DirsKept, FilesKept, PathKept DEF Good
<1>16. ASSUME NEW i \in 1..Len(todo')
       PROVE  /\ todo'[i].op # "insert" /\ todo'[i].row.dir \in live
              /\ Inner(i) => /\ todo'[i].row = inner[i] /\ todo'[i].row.dir = D
                             /\ rank[todo'[i].row.dir] = rank[D]
              /\ i = m + 1 => todo'[i].row = row /\ todo'[i].row.dir = d /\ todo'[i].row.no = no
              /\ ~Inner(i) => rank[todo'[i].row.dir] <= rank[d]
              /\ DeletionOK(live, rank, todo[i])'
  <2>1. CASE Inner(i)
    <3>1. /\ todo'[i] = DeletionOf(inner[i]) /\ inner[i] \in Row /\ inner[i].dir = D
          /\ Used(D, inner[i].no) /\ inner[i].entry = dirs[D][inner[i].no]
      BY <1>8, <2>1
    <3>2. /\ todo'[i].row = inner[i] /\ todo'[i].op # "insert"
          /\ todo'[i].op = "erase" <=> inner[i].entry.flag # "dir"
      BY <1>9, <3>1
    <3>3. DeletionOK(live, rank, todo[i])'
      <4>1. todo'[i].op = "erase" <=> IsFile(D, inner[i].no)
        BY <3>1, <3>2 DEF Used, IsFile
      <4>2. rank[D] >= rank[Here]
        BY <1>3, <1>4, <1>6
      <4> QED
        BY <1>1, <1>4, <1>15, <3>1, <3>2, <4>1, <4>2 DEF DeletionOK, Used, IsFile
    <3>4. i # m + 1
      BY <1>7, <2>1
    <3> QED
      BY <1>4, <2>1, <3>1, <3>2, <3>3, <3>4
  <2>2. CASE i = m + 1 /\ todo'[i] = last
    <3>1. todo'[i].row = row /\ todo'[i].op = "remove"
      BY <1>10, <2>2
    <3>2. row.dir = d /\ row.no = no
      BY DEF d, no
    <3>3. DeletionOK(live, rank, todo[i])'
      BY <1>1, <1>3, <1>15, <3>1, <3>2 DEF DeletionOK, Used, IsFile
    <3>4. ~Inner(i)
      BY <1>7, <2>2
    <3> QED
      BY <1>3, <1>6, <3>1, <3>2, <3>3, <3>4
  <2>3. CASE Later(i)
    <3>1. PICK j \in 2..n : i = m + j /\ todo'[i] = todo[j]
      BY <2>3
    <3>2. j \in 1..Len(todo)
      BY <1>12
    <3>3. todo[j].op # "insert" /\ DeletionOK(live, rank, todo[j]) /\ rank[d] >= rank[todo[j].row.dir]
      BY <1>2, <3>2 DEF d
    <3>4. DeletionOK(live, rank, todo[i])'
      BY <1>1, <1>15, <3>1, <3>3 DEF DeletionOK, Used, IsFile
    <3>5. ~Inner(i) /\ i # m + 1
      BY <1>7, <3>1
    <3>6. rank[todo[j].row.dir] \in Nat /\ todo[j].row.dir \in live
      BY <1>5, <3>3 DEF DeletionOK
    <3> QED
      BY <1>6, <3>1, <3>3, <3>4, <3>5, <3>6
  <2> QED
    BY <1>14, <2>1, <2>2, <2>3
<1>17. ASSUME NEW i \in 1..Len(todo'), NEW j \in 1..Len(todo'), i < j
       PROVE  /\ todo'[i].row.dir # todo'[j].row.dir \/ todo'[i].row.no # todo'[j].row.no
              /\ rank[todo'[i].row.dir] >= rank[todo'[j].row.dir]
  <2>1. \A k \in 1..Len(todo') : rank[todo'[k].row.dir] \in Nat
    BY <1>5, <1>16
  <2>2. CASE Inner(i) /\ Inner(j)
    <3>1. inner[i].no # inner[j].no
      BY <1>7, <1>17, <2>2 DEF Shows
    <3>2. todo'[i].row = inner[i] /\ todo'[j].row = inner[j]
      BY <1>16, <2>2
    <3>3. rank[todo'[i].row.dir] = rank[D] /\ rank[todo'[j].row.dir] = rank[D]
      BY <1>16, <2>2
    <3> QED
      BY <1>6, <3>1, <3>2, <3>3
  <2>3. CASE Inner(i) /\ ~Inner(j)
    <3>1. rank[todo'[i].row.dir] = rank[D] /\ rank[todo'[j].row.dir] <= rank[d]
      BY <1>16, <2>3
    <3> QED
      BY <1>4, <1>6, <2>1, <3>1
  <2>4. CASE i = m + 1 /\ Later(j)
    <3>1. PICK l \in 2..n : j = m + l /\ todo'[j] = todo[l]
      BY <2>4
    <3>2. /\ todo[l].row.dir # d \/ todo[l].row.no # no
          /\ rank[d] >= rank[todo[l].row.dir]
      BY <1>2 DEF d, no
    <3>3. todo'[i].row.dir = d /\ todo'[i].row.no = no
      BY <1>16, <2>4
    <3> QED
      BY <3>1, <3>2, <3>3
  <2>5. CASE Later(i) /\ Later(j)
    <3>1. PICK k \in 2..n : i = m + k /\ todo'[i] = todo[k]
      BY <2>5
    <3>2. PICK l \in 2..n : j = m + l /\ todo'[j] = todo[l]
      BY <2>5
    <3>3. k \in 1..Len(todo) /\ l \in 1..Len(todo) /\ k < l
      BY <1>7, <1>12, <1>17, <3>1, <3>2
    <3>4. todo[k].op # "insert"
      BY <1>2, <3>3
    <3> QED
      BY <3>1, <3>2, <3>3, <3>4 DEF Good, TodoInv
  <2>6. \A k \in 1..Len(todo') : Later(k) => k > m + 1 /\ ~Inner(k)
    BY <1>7
  <2>7. Inner(i) \/ (i = m + 1 /\ Later(j)) \/ (Later(i) /\ Later(j))
    <3>1. Inner(i) \/ i = m + 1 \/ Later(i)
      BY <1>14
    <3>2. Inner(j) \/ j = m + 1 \/ Later(j)
      BY <1>14
    <3> QED
      BY <1>7, <1>17, <2>6, <3>1, <3>2
  <2> HIDE DEF Inner, Later
  <2> QED
    BY <2>2, <2>3, <2>4, <2>5, <2>7
<1>18. TodoInv(live, rank)'
  BY <1>16, <1>17 DEF TodoInv
<1>19. \A k : Doomed(Here, k)' <=> Doomed(Here, k)
  <2>1. D # Here
    BY <1>3, <1>4, <1>6
  <2> TAKE k
  <2>2. ASSUME NEW i \in 1..Len(todo'), todo'[i].row.dir = Here, todo'[i].row.no = k
        PROVE  Doomed(Here, k)
    <3>1. ~Inner(i)
      BY <1>16, <2>1, <2>2
    <3>2. CASE i = m + 1
      <4>1. d = Here /\ no = k
        BY <1>16, <2>2, <3>2
      <4> QED
        BY <1>2, <4>1 DEF d, no
    <3>3. CASE Later(i)
      <4>1. PICK j \in 2..n : todo'[i] = todo[j]
        BY <3>3
      <4>2. j \in 1..Len(todo)
        BY <1>12
      <4> QED
        BY <1>2, <2>2, <4>1, <4>2 DEF Doomed
    <3> QED
      BY <1>14, <3>1, <3>2, <3>3
  <2>3. ASSUME NEW j \in 1..Len(todo), todo[j].row.dir = Here, todo[j].row.no = k
        PROVE  Doomed(Here, k)'
    <3>1. CASE j = 1
      <4>1. m + 1 \in 1..Len(todo') /\ todo'[m + 1] = last
        BY <1>7, <1>12, <1>13
      <4>2. todo[j].row = row
        BY <1>12, <3>1
      <4> QED
        BY <1>10, <1>15, <2>3, <4>1, <4>2 DEF Doomed
    <3>2. CASE j # 1
      <4>1. j \in 2..n /\ m + j \in 1..Len(todo')
        BY <1>7, <1>12, <1>13, <3>2
      <4>2. todo'[m + j] = todo[j] /\ todo'[m + j].op # "insert"
        BY <1>13, <1>16, <4>1
      <4> QED
        BY <1>15, <2>3, <4>1, <4>2 DEF Doomed
    <3> QED
      BY <3>1, <3>2
  <2> QED
    BY <1>15, <2>2, <2>3 DEF Doomed
<1>20. ViewInv'
  <2> SUFFICES ASSUME ~stale' PROVE ViewExact'
    BY DEF ViewInv
  <2>0. ViewExact
    BY DEF Good, ViewInv
  <2>1. Shows(view, Here)'
    BY <1>1, <1>15, <2>0, ShowsKept DEF ViewExact
  <2>2. Listed(Here)' = Listed(Here)
    BY <1>1, <1>15 DEF Listed
  <2>3. \A k : Doomed(Here, k)' <=> Doomed(Here, k)
    BY <1>19
  <2> QED
    BY <1>1, <1>15, <2>0, <2>1, <2>2, <2>3 DEF ViewExact
<1>21. TypeInv'
  BY <1>1, <1>13 DEF Good, TypeInv
<1>22. MapsInv'
  BY <1>1 DEF Good, MapsInv, Counted
<1> QED
  BY <1>15, <1>18, <1>20, <1>21, <1>22 DEF Good

-----------------------------------------------------------------------------
(* Every step.                                                              *)

(* Nothing happens.                                                         *)
LEMMA StutterStep ==
  ASSUME NEW live, NEW rank, NEW place, Good(live, rank, place), UNCHANGED vars
  PROVE  Good(live, rank, place)'
<1>1. UNCHANGED <<data, dirs, vtoc, fs, path, view, todo, stale>>
  BY DEF vars, history
<1>2. DirsInv(live, rank)' /\ FilesInv(live, place)' /\ PathInv(live, rank)' /\ Here' = Here
  BY <1>1, DirsKept, FilesKept, PathKept DEF Good
<1>3. TypeInv' /\ MapsInv'
  BY <1>1 DEF Good, TypeInv, MapsInv, Counted
<1>4. TodoInv(live, rank)'
  BY <1>1, <1>2 DEF Good, TodoInv, InsertionOK, DeletionOK, Used, IsFile
<1>5. \A x, k : Doomed(x, k)' <=> Doomed(x, k)
  BY <1>1 DEF Doomed
<1>6. ViewInv'
  <2> SUFFICES ASSUME ~stale' PROVE ViewExact'
    BY DEF ViewInv
  <2>1. ViewExact
    BY <1>1 DEF Good, ViewInv
  <2>2. Shows(view, Here)'
    BY <1>1, <1>2, <2>1, ShowsKept DEF ViewExact
  <2>3. Listed(Here)' = Listed(Here)
    BY <1>1, <1>2 DEF Listed
  <2> QED
    BY <1>1, <1>2, <1>5, <2>1, <2>2, <2>3 DEF ViewExact
<1> QED
  BY <1>2, <1>3, <1>4, <1>6 DEF Good

(* The invariant is inductive: one case per action.                         *)
LEMMA NextGood ==
  ASSUME LastSector < LinkRange, FileSystemInv, [Next]_vars
  PROVE  FileSystemInv'
<1> SUFFICES ASSUME ~misled' PROVE FileSystemInv'
  BY DEF FileSystemInv
<1>0. ~misled
  BY DEF Next, Task, User, Open, ToParent, SetDirectory, InsertFiles, DeleteFiles, Selected,
         Starts, history, vars
<1>1. PICK live, rank, place : Good(live, rank, place)
  BY <1>0 DEF FileSystemInv
<1> DEFINE G == Good(live, rank, place)
<1>2. ASSUME G' PROVE FileSystemInv'
  BY <1>2 DEF FileSystemInv
<1>3. ASSUME Insert \/ MakeDir \/ Erase \/ ListDir \/ RemoveDir, UNCHANGED stale
      PROVE  FileSystemInv'
  <2>1. CASE Insert
    BY <1>1, <1>3, <2>1, InsertStep
  <2>2. CASE MakeDir
    BY <1>1, <1>3, <2>2, MakeDirStep
  <2>3. CASE Erase
    BY <1>1, <1>2, <1>3, <2>3, EraseStep
  <2>4. CASE ListDir
    BY <1>1, <1>2, <1>3, <2>4, ListDirStep
  <2>5. CASE RemoveDir
    BY <1>1, <1>3, <2>5, RemoveDirStep
  <2> QED
    BY <1>3, <2>1, <2>2, <2>3, <2>4, <2>5
<1>4. CASE Task
  BY <1>3, <1>4 DEF Task, history
<1>5. CASE Open
  BY <1>1, <1>2, <1>5, OpenStep
<1>6. CASE ToParent
  BY <1>1, <1>2, <1>6, ToParentStep
<1>7. ASSUME NEW r \in DOMAIN view, SetDirectory(r)
      PROVE  FileSystemInv'
  BY <1>1, <1>2, <1>7, SetDirectoryStep
<1>8. ASSUME NEW hosts \in Drops, InsertFiles(hosts)
      PROVE  FileSystemInv'
  BY <1>1, <1>2, <1>8, InsertFilesStep
<1>9. ASSUME NEW rows \in Selections, DeleteFiles(rows)
      PROVE  FileSystemInv'
  BY <1>1, <1>2, <1>9, DeleteFilesStep
<1>10. CASE UNCHANGED vars
  BY <1>1, <1>2, <1>10, StutterStep
<1> QED
  BY <1>4, <1>5, <1>6, <1>7, <1>8, <1>9, <1>10 DEF Next, User

-----------------------------------------------------------------------------
(* The properties.                                                          *)

(* Where sectors' numbers fit into a link: directories, files, free sectors, *)
(* window and tasks fit together until the user deletes or enters a row      *)
(* that is no entry.                                                         *)
THEOREM FileSystemInvariant ==
  ASSUME LastSector < LinkRange
  PROVE  Spec => []FileSystemInv
<1>1. Init => FileSystemInv
  BY InitGood
<1>2. FileSystemInv /\ [Next]_vars => FileSystemInv'
  BY NextGood
<1> QED
  BY <1>1, <1>2, PTL DEF Spec

Below(T) ==
  {dirs[x[1]][x[2]].first : x \in
     {y \in T \X Number : y[2] \in Listed(y[1]) /\ dirs[y[1]][y[2]].flag = "dir"}}

(* The directories reached from the root are in use.                        *)
LEMMA DirectoriesLive ==
  ASSUME NEW live, NEW rank, NEW place, Good(live, rank, place)
  PROVE  Directories \subseteq live
<1> DEFINE L == LastSector
           Rec(d) == [i \in 0..L |-> IF i = 0 THEN {Root} ELSE d[i - 1] \cup Below(d[i - 1])]
           S == SUBSET live
           G == [x \in Nat \X S |-> x[2] \cup Below(x[2])]
<1>1. L \in Nat /\ Root \in live
  BY FileSystemAssumption DEF Good, DirsInv
<1>2. ASSUME NEW T \in S
      PROVE  T \cup Below(T) \in S
  <2>1. ASSUME NEW x \in live, NEW k \in Number, IsDir(x, k)
        PROVE  dirs[x][k].first \in live
    BY <2>1 DEF Good, DirsInv, First
  <2> QED
    BY <2>1 DEF Below, IsDir
<1>3. G \in [Nat \X S -> S]
  BY <1>2
<1>4. \A i \in Nat, T \in S : G[<<i, T>>] = T \cup Below(T)
  OBVIOUS
<1> HIDE DEF G
<1>5. \E f : f = Rec(f)
  <2>1. PICK f \in [0..L -> S] : Follows(f, {Root}, G, L)
    <3>1. {Root} \in S
      BY <1>1
    <3> HIDE DEF S
    <3> QED
      BY <1>1, <1>3, <3>1, Recursion
  <2>2. f[0] = {Root} /\ \A i \in 1..L : f[i] = G[<<i, f[i - 1]>>]
    BY <2>1 DEF Follows
  <2>3. ASSUME NEW i \in 1..L
        PROVE  f[i] = f[i - 1] \cup Below(f[i - 1])
    <3>1. f[i - 1] \in S /\ i \in Nat
      BY <1>1, <2>1
    <3> QED
      BY <1>4, <2>2, <3>1
  <2>4. \A i \in 0..L : f[i] = IF i = 0 THEN {Root} ELSE f[i - 1] \cup Below(f[i - 1])
    BY <1>1, <2>2, <2>3
  <2>5. f = [i \in 0..L |-> f[i]]
    BY <2>1
  <2>6. f = Rec(f)
    BY <2>4, <2>5
  <2> QED
    BY <2>6
<1> DEFINE d == CHOOSE f : f = Rec(f)
           last == Cardinality(Sector \ System) \div DirSectors
<1>6. Directories = d[last]
  BY DEF Directories, Below
<1>7. d = Rec(d)
  <2> HIDE DEF Rec
  <2> QED
    BY <1>5
<1> HIDE DEF d
<1> DEFINE T == {i \in Nat : i <= L => d[i] \subseteq live}
<1>8. 0 \in T
  BY <1>1, <1>7
<1>9. ASSUME NEW i \in Nat, i \in T
      PROVE  i + 1 \in T
  <2> SUFFICES ASSUME i + 1 <= L PROVE d[i + 1] \subseteq live
    OBVIOUS
  <2>1. d[i] \in S
    BY <1>1, <1>9
  <2>2. d[i + 1] = d[i] \cup Below(d[i])
    <3>1. i + 1 \in 0..L /\ i + 1 # 0 /\ (i + 1) - 1 = i
      BY <1>1
    <3> QED
      BY <1>7, <3>1
  <2> QED
    BY <1>2, <2>1, <2>2
<1>10. Nat \subseteq T
  <2> HIDE DEF T
  <2> QED
    BY <1>8, <1>9, Induction
<1>11. last \in Nat /\ last <= L
  <2>1. Data \subseteq 1..L
    <3>1. \A s \in Data : s \in 0..L /\ s >= 4
      BY DataIs DEF Sector, FirstFree
    <3> QED
      BY <1>1, <3>1
  <2>2. Cardinality(Data) \in Nat /\ Cardinality(Data) <= L
    <3>1. IsFiniteSet(1..L) /\ Cardinality(1..L) = L
      BY <1>1, FS_Interval
    <3>2. Cardinality(Data) <= Cardinality(1..L)
      BY <2>1, <3>1, FS_Subset
    <3> QED
      BY <3>1, <3>2, FiniteMap
  <2>3. DirSectors \in Nat \ {0}
    BY FileSystemAssumption
  <2>4. ASSUME NEW a \in Nat, NEW b \in Nat \ {0}
        PROVE  a \div b \in Nat /\ a \div b <= a
    OBVIOUS
  <2> QED
    BY <1>1, <2>2, <2>3, <2>4 DEF Data
<1> QED
  BY <1>6, <1>10, <1>11

(* What an entry in use is.                                                 *)
LEMMA EntryIs ==
  ASSUME NEW live, NEW rank, NEW place, Good(live, rank, place), NEW x \in Entries
  PROVE  /\ x[1] \in live /\ x[2] \in Number /\ x = <<x[1], x[2]>>
         /\ dirs[x[1]][x[2]] \in Entry
         /\ IsDir(x[1], x[2]) <=> ~IsFile(x[1], x[2])
<1>1. x \in Directories \X Number /\ x[2] \in Listed(x[1])
  BY DEF Entries
<1>2. x[1] \in live /\ x[2] \in Number /\ x = <<x[1], x[2]>>
  BY <1>1, DirectoriesLive
<1>3. dirs[x[1]][x[2]] \in Entry
  BY <1>2 DEF Good, TypeInv
<1>4. IsDir(x[1], x[2]) <=> ~IsFile(x[1], x[2])
  BY <1>1 DEF Listed, IsDir, IsFile
<1> QED
  BY <1>2, <1>3, <1>4

(* A file's chain leads from block to block.                                *)
Readable(live, place, d, no) ==
  LET e == dirs[d][no]
      p == place[d][no]
  IN  /\ e.count \in Nat /\ e.count >= 1
      /\ \A i \in 1..e.count : BlockOK(live, p, e, no, i)
      /\ Foreign(e, no) = {}
      /\ ChainSet(e, no) = SectorsUpTo(p, e.count)
      /\ \A i \in 0..e.count - 1 : Chain(e)[i] = p[i + 1]

(* Every file is readable: its chain ends, and is its own blocks in order.  *)
LEMMA FileIs ==
  ASSUME NEW live, NEW rank, NEW place, Good(live, rank, place),
         NEW d \in live, NEW no \in Number, IsFile(d, no)
  PROVE  Readable(live, place, d, no)
<1> DEFINE e == dirs[d][no]
           p == place[d][no]
<1>1. e \in Entry /\ e.count \in Nat
  <2>1. e \in Entry
    BY DEF Good, TypeInv
  <2> QED
    BY <2>1 DEF Entry
<1>2. e.count >= 1 /\ p[1] = e.first /\ \A i \in 1..e.count : BlockOK(live, p, e, no, i)
  BY DEF Good, FilesInv, First
<1> HIDE DEF e, p
<1>3. ASSUME NEW i \in 1..e.count
      PROVE  /\ p[i] \in Data /\ data[p[i]].file = no
             /\ data[p[i]].next = IF i < e.count THEN p[i + 1] ELSE 0
  <2>1. BlockOK(live, p, e, no, i)
    BY <1>2
  <2>2. p[i] \in Data
    BY <2>1 DEF BlockOK
  <2>3. data[p[i]] = [file |-> no, next |-> IF i < e.count THEN p[i + 1] ELSE 0,
                      from |-> e.from, block |-> i]
    BY <2>1 DEF BlockOK
  <2> QED
    BY <2>2, <2>3
<1>4. Foreign(e, no) = {} /\ ChainSet(e, no) = SectorsUpTo(p, e.count)
  BY <1>1, <1>2, <1>3, ChainOwn
<1>5. \A i \in 0..e.count : Chain(e)[i] = IF i < e.count THEN p[i + 1] ELSE 0
  BY <1>1, <1>2, <1>3, ChainIs
<1>6. \A i \in 0..e.count - 1 : Chain(e)[i] = p[i + 1]
  BY <1>1, <1>5
<1> QED
  BY <1>1, <1>2, <1>4, <1>6 DEF e, p, Readable

(* Sectors of entries and free sectors are apart, seen through the chains   *)
(* on the disk.                                                             *)
LEMMA OwnedFromGood ==
  ASSUME NEW live, NEW rank, NEW place, Good(live, rank, place)
  PROVE  SectorsOwned
<1> DEFINE D(x) == DirAt(First(x[1], x[2]))
           F(x) == SectorsUpTo(place[x[1]][x[2]], dirs[x[1]][x[2]].count)
<1>1. ASSUME NEW x \in Entries
      PROVE  SectorsOf(x) = IF IsDir(x[1], x[2]) THEN D(x) ELSE F(x)
  <2>1. CASE IsDir(x[1], x[2])
    BY <2>1 DEF SectorsOf, IsDir, First
  <2>2. CASE ~IsDir(x[1], x[2])
    <3>1. x[1] \in live /\ x[2] \in Number /\ IsFile(x[1], x[2])
      BY <2>2, EntryIs
    <3>2. ChainSet(dirs[x[1]][x[2]], x[2]) = F(x)
      BY <3>1, FileIs DEF Readable
    <3>3. SectorsOf(x) = ChainSet(dirs[x[1]][x[2]], x[2])
      BY <2>2 DEF SectorsOf, IsDir, ChainSet
    <3> QED
      BY <2>2, <3>2, <3>3
  <2> QED
    BY <2>1, <2>2
<1> HIDE DEF D, F
<1>2. ASSUME NEW x \in Entries, IsDir(x[1], x[2])
      PROVE  /\ First(x[1], x[2]) \in live \ {Root} /\ x[1] \in live /\ x[2] \in Number
             /\ D(x) \cap (vtoc.map \cup fs.map \cup System) = {}
  <2>1. x[1] \in live /\ x[2] \in Number
    BY EntryIs
  <2>2. First(x[1], x[2]) \in live \ {Root}
    BY <1>2, <2>1 DEF Good, DirsInv
  <2>3. D(x) \cap vtoc.map = {} /\ D(x) \cap System = {}
    BY <2>2 DEF Good, DirsInv, D
  <2>4. fs.map \subseteq vtoc.map
    BY DEF Good, MapsInv
  <2> QED
    BY <2>1, <2>2, <2>3, <2>4
<1>3. ASSUME NEW x \in Entries, ~IsDir(x[1], x[2]), NEW s \in F(x)
      PROVE  /\ x[1] \in live /\ x[2] \in Number /\ IsFile(x[1], x[2])
             /\ s \in Data /\ s \notin vtoc.map \cup fs.map \cup System
             /\ \A d \in live : s \notin DirAt(d)
             /\ \E i \in 1..dirs[x[1]][x[2]].count : s = place[x[1]][x[2]][i]
  <2>1. x[1] \in live /\ x[2] \in Number /\ IsFile(x[1], x[2])
    BY <1>3, EntryIs
  <2>2. PICK i \in 1..dirs[x[1]][x[2]].count : s = place[x[1]][x[2]][i]
    BY <1>3 DEF F, SectorsUpTo
  <2>3. BlockOK(live, place[x[1]][x[2]], dirs[x[1]][x[2]], x[2], i)
    BY <2>1, FileIs DEF Readable
  <2>4. s \in Data \ vtoc.map /\ \A d \in live : s \notin DirAt(d)
    BY <2>2, <2>3 DEF BlockOK
  <2>5. fs.map \subseteq vtoc.map
    BY DEF Good, MapsInv
  <2> QED
    BY <2>1, <2>2, <2>4, <2>5 DEF Data
<1>4. ASSUME NEW x \in Entries
      PROVE  SectorsOf(x) \cap (vtoc.map \cup fs.map \cup System) = {}
  BY <1>1, <1>2, <1>3
<1>5. ASSUME NEW x \in Entries, NEW y \in Entries, x # y, NEW s, s \in SectorsOf(x), s \in SectorsOf(y)
      PROVE  FALSE
  <2>1. x[1] # y[1] \/ x[2] # y[2]
    BY <1>5, EntryIs
  <2>2. CASE IsDir(x[1], x[2]) /\ IsDir(y[1], y[2])
    <3>1. s \in D(x) /\ s \in D(y)
      BY <1>1, <1>5, <2>2
    <3>2. First(x[1], x[2]) # First(y[1], y[2])
      BY <1>2, <2>1, <2>2 DEF Good, DirsInv
    <3>3. DirAt(First(x[1], x[2])) \cap DirAt(First(y[1], y[2])) = {}
      BY <1>2, <2>2, <3>2 DEF Good, DirsInv
    <3> QED
      BY <3>1, <3>3 DEF D
  <2>3. CASE IsDir(x[1], x[2]) /\ ~IsDir(y[1], y[2])
    BY <1>1, <1>2, <1>3, <1>5, <2>3 DEF D
  <2>4. CASE ~IsDir(x[1], x[2]) /\ IsDir(y[1], y[2])
    BY <1>1, <1>2, <1>3, <1>5, <2>4 DEF D
  <2>5. CASE ~IsDir(x[1], x[2]) /\ ~IsDir(y[1], y[2])
    <3>1. s \in F(x) /\ s \in F(y)
      BY <1>1, <1>5, <2>5
    <3>2. PICK i \in 1..dirs[x[1]][x[2]].count : s = place[x[1]][x[2]][i]
      BY <1>3, <2>5, <3>1
    <3>3. PICK j \in 1..dirs[y[1]][y[2]].count : s = place[y[1]][y[2]][j]
      BY <1>3, <2>5, <3>1
    <3>4. /\ x[1] \in live /\ x[2] \in Number /\ IsFile(x[1], x[2])
          /\ y[1] \in live /\ y[2] \in Number /\ IsFile(y[1], y[2])
      BY <1>3, <2>5, <3>1
    <3>5. \A d1, d2 \in live : \A n1, n2 \in Number :
            IsFile(d1, n1) /\ IsFile(d2, n2) =>
              \A a \in 1..dirs[d1][n1].count, b \in 1..dirs[d2][n2].count :
                place[d1][n1][a] = place[d2][n2][b] => d1 = d2 /\ n1 = n2 /\ a = b
      BY DEF Good, FilesInv
    <3>6. place[x[1]][x[2]][i] = place[y[1]][y[2]][j]
      BY <3>2, <3>3
    <3>7. x[1] = y[1] /\ x[2] = y[2]
      BY <3>4, <3>5, <3>6
    <3> QED
      BY <2>1, <3>7
  <2> QED
    BY <2>2, <2>3, <2>4, <2>5
<1> QED
  BY <1>4, <1>5 DEF SectorsOwned

(* Files read back as they were inserted, seen through the chains on the    *)
(* disk.                                                                    *)
LEMMA IntactFromGood ==
  ASSUME NEW live, NEW rank, NEW place, Good(live, rank, place)
  PROVE  FilesIntact
<1> SUFFICES ASSUME NEW x \in Entries, dirs[x[1]][x[2]].flag = "file"
             PROVE  LET e == dirs[x[1]][x[2]]
                        c == Chain(e)
                    IN  /\ Foreign(e, x[2]) = {}
                        /\ \A i \in 0..e.count - 1 :
                             c[i] # 0 /\ data[c[i]].from = e.from /\ data[c[i]].block = i + 1
                        /\ data[c[e.count - 1]].next = 0
  BY DEF FilesIntact
<1> DEFINE e == dirs[x[1]][x[2]]
           p == place[x[1]][x[2]]
           c == Chain(e)
           no == x[2]
<1>1. x[1] \in live /\ no \in Number /\ IsFile(x[1], no)
  BY EntryIs DEF IsFile
<1>2. /\ e.count \in Nat /\ e.count >= 1
      /\ \A i \in 1..e.count : BlockOK(live, p, e, no, i)
      /\ Foreign(e, no) = {}
      /\ \A i \in 0..e.count - 1 : c[i] = p[i + 1]
  <2> HIDE DEF no
  <2>1. Readable(live, place, x[1], no)
    BY <1>1, FileIs
  <2> QED
    BY <2>1 DEF Readable, no
<1> HIDE DEF e, p, c, no
<1>3. ASSUME NEW i \in 1..e.count
      PROVE  /\ p[i] # 0 /\ data[p[i]].from = e.from /\ data[p[i]].block = i
             /\ i = e.count => data[p[i]].next = 0
  <2>1. BlockOK(live, p, e, no, i)
    BY <1>2
  <2>2. p[i] \in Data
    BY <2>1 DEF BlockOK
  <2>3. data[p[i]] = [file |-> no, next |-> IF i < e.count THEN p[i + 1] ELSE 0,
                      from |-> e.from, block |-> i]
    BY <2>1 DEF BlockOK
  <2>4. p[i] # 0
    BY <2>2, DataIs DEF FirstFree
  <2> QED
    BY <1>2, <2>3, <2>4
<1>4. \A i \in 0..e.count - 1 :
        c[i] # 0 /\ data[c[i]].from = e.from /\ data[c[i]].block = i + 1
  <2> TAKE i \in 0..e.count - 1
  <2>1. i + 1 \in 1..e.count /\ c[i] = p[i + 1]
    BY <1>2
  <2> QED
    BY <1>3, <2>1
<1>5. data[c[e.count - 1]].next = 0
  <2>1. /\ e.count - 1 \in 0..e.count - 1 /\ e.count \in 1..e.count
        /\ (e.count - 1) + 1 = e.count
    BY <1>2
  <2> QED
    BY <1>2, <1>3, <2>1
<1> QED
  BY <1>2, <1>4, <1>5 DEF e, c, no

(* When no task is at work the rows are those of the directory.             *)
LEMMA ViewFromGood ==
  ASSUME NEW live, NEW rank, NEW place, Good(live, rank, place)
  PROVE  ViewIsDirectory
<1> SUFFICES ASSUME todo = <<>>, ~stale
             PROVE  ToSet(view) = ToSet(GetEntries(Last(path)))
  BY DEF ViewIsDirectory, Idle
<1>0. ViewExact
  BY DEF Good, ViewInv
<1>1. Here \in live /\ Here = Last(path) /\ Here \in Sector
  BY HereIs DEF Good
<1>2. ToSet(GetEntries(Here)) = {RowOf(Here, no) : no \in Listed(Here)}
  BY <1>1, EntriesShown DEF Good, TypeInv
<1>3. \A no : ~Doomed(Here, no)
  BY DEF Doomed
<1>4. \A no \in Listed(Here) : \E i \in 1..Len(view) : view[i].no = no
  BY <1>0, <1>3 DEF ViewExact
<1>5. \A i \in 1..Len(view) : view[i].no \in Listed(Here) /\ view[i] = RowOf(Here, view[i].no)
  BY <1>0 DEF ViewExact, Shows
<1>6. ToSet(view) = {view[i] : i \in 1..Len(view)}
  <2>1. DOMAIN view = 1..Len(view)
    BY DEF Good, TypeInv
  <2> QED
    BY <2>1 DEF ToSet
<1>7. {view[i] : i \in 1..Len(view)} = {RowOf(Here, no) : no \in Listed(Here)}
  <2>1. \A i \in 1..Len(view) : view[i] \in {RowOf(Here, no) : no \in Listed(Here)}
    BY <1>5
  <2>2. ASSUME NEW no \in Listed(Here)
        PROVE  \E i \in 1..Len(view) : RowOf(Here, no) = view[i]
    <3>1. PICK i \in 1..Len(view) : view[i].no = no
      BY <1>4
    <3> QED
      BY <1>5, <3>1
  <2> QED
    BY <2>1, <2>2
<1> QED
  BY <1>1, <1>2, <1>6, <1>7

(* All that a run checks follows from the invariant.                        *)
LEMMA PropertiesHold ==
  ASSUME FileSystemInv
  PROVE  (~misled => TypeOK) /\ SectorsOwned /\ FilesIntact /\ CountsAgree /\ ViewIsDirectory
<1>1. CASE misled
  BY <1>1 DEF SectorsOwned, FilesIntact, CountsAgree, ViewIsDirectory
<1>2. CASE ~misled
  <2>1. PICK live, rank, place : Good(live, rank, place)
    BY <1>2 DEF FileSystemInv
  <2>2. TypeOK
    BY <2>1 DEF Good, TypeInv, TypeOK, MapSet, Data
  <2>3. CountsAgree
    BY <2>1 DEF Good, MapsInv, Counted, CountsAgree
  <2>4. SectorsOwned /\ FilesIntact /\ ViewIsDirectory
    BY <2>1, OwnedFromGood, IntactFromGood, ViewFromGood
  <2> QED
    BY <2>2, <2>3, <2>4
<1> QED
  BY <1>1, <1>2

(* Directories, maps and rows keep their form, until the user deletes or    *)
(* enters a row that is no entry.                                           *)
THEOREM TypesHold ==
  ASSUME LastSector < LinkRange
  PROVE  Spec => [](~misled => TypeOK)
<1>1. FileSystemInv => (~misled => TypeOK)
  BY PropertiesHold
<1> QED
  BY <1>1, FileSystemInvariant, PTL

(* No sector belongs to two entries, and none of an entry's is free, until   *)
(* the user deletes or enters a row that is no entry.                        *)
THEOREM SectorsStayOwned ==
  ASSUME LastSector < LinkRange
  PROVE  Spec => []SectorsOwned
<1>1. FileSystemInv => SectorsOwned
  BY PropertiesHold
<1> QED
  BY <1>1, FileSystemInvariant, PTL

(* Every file can be read back as it was inserted, until the user deletes or *)
(* enters a row that is no entry.                                            *)
THEOREM FilesStayIntact ==
  ASSUME LastSector < LinkRange
  PROVE  Spec => []FilesIntact
<1>1. FileSystemInv => FilesIntact
  BY PropertiesHold
<1> QED
  BY <1>1, FileSystemInvariant, PTL

(* The number of free sectors is that of the map, on the disk and in the    *)
(* explorer, unless sector 0 was ever counted off it, and until the user    *)
(* deletes or enters a row that is no entry.                                *)
THEOREM CountsStayRight ==
  ASSUME LastSector < LinkRange
  PROVE  Spec => []CountsAgree
<1>1. FileSystemInv => CountsAgree
  BY PropertiesHold
<1> QED
  BY <1>1, FileSystemInvariant, PTL

(* The window shows the directory as it is, unless a task is at work or     *)
(* rows have been removed bottom up since it was filled, and until the user *)
(* deletes or enters a row that is no entry.                                *)
THEOREM ViewStaysRight ==
  ASSUME LastSector < LinkRange
  PROVE  Spec => []ViewIsDirectory
<1>1. FileSystemInv => ViewIsDirectory
  BY PropertiesHold
<1> QED
  BY <1>1, FileSystemInvariant, PTL

=============================================================================
