------------------------- MODULE ImageBufferProofs -------------------------
(***************************************************************************)
(* Invariance proofs for ImageBuffer: types and locks, with and without    *)
(* auto-commit; that every change under auto-commit is announced; and that *)
(* without auto-commit a clean ATR image is in its file and every command  *)
(* acts on the disk at one instant.                                        *)
(***************************************************************************)
EXTENDS ImageBuffer, TLAPS

LEMMA ImageLength ==
  \A s : s \in Images <=> s \in Seq(Values) /\ Len(s) <= Room
  <1>1. ASSUME NEW s \in Images
        PROVE  s \in Seq(Values) /\ Len(s) <= Room
    <2>1. PICK m \in 0..Room : s \in [1..m -> Values]
      BY DEF Images, BoundedSeq, SeqOf
    <2>2. m \in Nat
      BY ImageAssumption, <2>1
    <2>3. s \in Seq(Values) /\ Len(s) = m
      BY <2>1, <2>2
    <2> QED
      BY <2>1, <2>3, ImageAssumption
  <1>2. ASSUME NEW s \in Seq(Values), Len(s) <= Room
        PROVE  s \in Images
    <2>1. s \in [1..Len(s) -> Values] /\ Len(s) \in 0..Room
      BY <1>2, ImageAssumption
    <2> QED
      BY <2>1 DEF Images, BoundedSeq, SeqOf
  <1> QED
    BY <1>1, <1>2

LEMMA BlanksLength ==
  ASSUME NEW n \in Nat
  PROVE  Blanks(n) \in Seq(Values) /\ Len(Blanks(n)) = n
  BY ImageAssumption DEF Blanks

(* What a write does to the temporary file.                                 *)
LEMMA OverwriteEffect ==
  ASSUME NEW s \in Seq(Values), NEW p \in Nat, NEW v \in Values
  PROVE  /\ Overwrite(s, p, v) \in Seq(Values)
         /\ Len(Overwrite(s, p, v)) = IF p < Len(s) THEN Len(s) ELSE p + 1
         /\ Overwrite(s, p, v) =
              [i \in 1..(IF p < Len(s) THEN Len(s) ELSE p + 1) |->
                 IF i = p + 1 THEN v ELSE IF i <= Len(s) THEN s[i] ELSE Blank]
  <1>1. CASE p < Len(s)
    <2>1. Overwrite(s, p, v) = [s EXCEPT ![p + 1] = v]
      BY <1>1 DEF Overwrite
    <2>2. [s EXCEPT ![p + 1] = v] \in Seq(Values) /\ Len([s EXCEPT ![p + 1] = v]) = Len(s)
      BY <1>1
    <2>3. s = [i \in 1..Len(s) |-> s[i]]
      OBVIOUS
    <2>4. [s EXCEPT ![p + 1] = v] = [i \in 1..Len(s) |-> IF i = p + 1 THEN v ELSE s[i]]
      BY <1>1, <2>3
    <2>5. [s EXCEPT ![p + 1] = v] =
            [i \in 1..Len(s) |-> IF i = p + 1 THEN v ELSE IF i <= Len(s) THEN s[i] ELSE Blank]
      BY <2>4
    <2> QED
      BY <1>1, <2>1, <2>2, <2>5
  <1>2. CASE ~(p < Len(s))
    <2> DEFINE b == Blanks(p - Len(s))
               t == s \o b
               u == t \o <<v>>
    <2>1. p - Len(s) \in Nat /\ b \in Seq(Values) /\ Len(b) = p - Len(s)
      <3>1. p - Len(s) \in Nat
        BY <1>2
      <3> QED
        BY <3>1, BlanksLength
    <2>2. \A i \in 1..p - Len(s) : b[i] = Blank
      BY DEF Blanks
    <2> HIDE DEF b
    <2>3. t \in Seq(Values) /\ Len(t) = p
      BY <2>1
    <2>4. \A i \in 1..p : t[i] = IF i <= Len(s) THEN s[i] ELSE Blank
      <3> SUFFICES ASSUME NEW i \in 1..p
                   PROVE  t[i] = IF i <= Len(s) THEN s[i] ELSE Blank
        OBVIOUS
      <3>1. CASE i <= Len(s)
        BY <2>1, <3>1
      <3>2. CASE ~(i <= Len(s))
        <4>1. i - Len(s) \in 1..p - Len(s)
          BY <3>2
        <4>2. t[i] = b[i - Len(s)]
          BY <2>1, <3>2
        <4> QED
          BY <2>2, <3>2, <4>1, <4>2
      <3> QED
        BY <3>1, <3>2
    <2> HIDE DEF t
    <2>5. u \in Seq(Values) /\ Len(u) = p + 1 /\ u[p + 1] = v /\ \A i \in 1..p : u[i] = t[i]
      BY <2>3
    <2>6. Overwrite(s, p, v) = u
      BY <1>2 DEF Overwrite, u, t, b
    <2> HIDE DEF u
    <2>7. u = [i \in 1..p + 1 |-> u[i]]
      BY <2>5
    <2>8. \A i \in 1..p + 1 : u[i] = IF i = p + 1 THEN v ELSE IF i <= Len(s) THEN s[i] ELSE Blank
      <3>1. \A i \in 1..p + 1 : i = p + 1 \/ i \in 1..p
        OBVIOUS
      <3> QED
        BY <2>4, <2>5, <3>1
    <2> QED
      BY <1>2, <2>5, <2>6, <2>7, <2>8
  <1> QED
    BY <1>1, <1>2

LEMMA JoinEffect ==
  ASSUME NEW f \in Seq(Values), NEW t \in Seq(Values)
  PROVE  /\ f \o t \in Seq(Values) /\ Len(f \o t) = Len(f) + Len(t)
         /\ SubSeq(f \o t, 1, Len(f)) = f
         /\ Len(t) = 0 => f \o t = f
  <1>1. f \o t \in Seq(Values) /\ Len(f \o t) = Len(f) + Len(t)
    OBVIOUS
  <1>2. \A i \in 1..Len(f) : (f \o t)[i] = f[i]
    OBVIOUS
  <1>3. SubSeq(f \o t, 1, Len(f)) = f
    BY <1>1, <1>2
  <1>4. Len(t) = 0 => f \o t = f
    OBVIOUS
  <1> QED
    BY <1>1, <1>3, <1>4

(* The beginning of a file read over what the temporary file held.          *)
LEMMA CopiedOverEffect ==
  ASSUME file \in Seq(Values), buffer \in Seq(Values), NEW k \in 0..Len(file)
  PROVE  /\ CopiedOver(k) \in Seq(Values)
         /\ Len(CopiedOver(k)) = IF k < Len(buffer) THEN Len(buffer) ELSE k
         /\ k = Len(file) => IsPrefix(file, CopiedOver(k))
         /\ k = Len(file) /\ Len(CopiedOver(k)) = k => CopiedOver(k) = file
  <1> DEFINE f == SubSeq(file, 1, k)
             t == SubSeq(buffer, k + 1, Len(buffer))
             c == f \o t
  <1>1. f \in Seq(Values) /\ Len(f) = k /\ (k = Len(file) => f = file)
    OBVIOUS
  <1>2. t \in Seq(Values) /\ Len(t) = IF k < Len(buffer) THEN Len(buffer) - k ELSE 0
    OBVIOUS
  <1> HIDE DEF f, t
  <1>3. c \in Seq(Values) /\ Len(c) = k + Len(t) /\ SubSeq(c, 1, k) = f
    BY <1>1, <1>2, JoinEffect
  <1>4. Len(t) = 0 => c = f
    BY <1>1, <1>2, JoinEffect
  <1>5. CopiedOver(k) = c
    BY DEF CopiedOver, f, t
  <1>6. k = Len(file) => IsPrefix(file, c)
    <2> SUFFICES ASSUME k = Len(file)
                 PROVE  IsPrefix(file, c)
      OBVIOUS
    <2>1. SubSeq(file, 1, Len(file)) = file
      OBVIOUS
    <2>2. Len(file) <= Len(c) /\ SubSeq(c, 1, Len(file)) = file
      BY <1>1, <1>2, <1>3
    <2> QED
      BY <2>1, <2>2 DEF IsPrefix
  <1> QED
    BY <1>1, <1>2, <1>3, <1>4, <1>5, <1>6

(* A copy from the beginning to the end is the file.                        *)
LEMMA WholeCopy ==
  ASSUME NEW s \in Seq(Values), NEW p \in Nat
  PROVE  /\ SubSeq(s, p + 1, Len(s)) \in Seq(Values) /\ Len(SubSeq(s, p + 1, Len(s))) <= Len(s)
         /\ p = 0 => SubSeq(s, p + 1, Len(s)) = s
  OBVIOUS

-----------------------------------------------------------------------------
(* Types and locks.                                                         *)

(* A save with the lock and the explorer exclude each other, and a command  *)
(* names a sector.                                                          *)
ImageRecords  == [size : 0..Room, modified : BOOLEAN, named : BOOLEAN, kind : Kinds]
WorkerRecords == [pc : WorkerPcs, op : {"none", "read", "write", "format"},
                  sector : 0..MaxSectors, value : Values]
GuiRecords    == [pc : GuiPcs, locked : BOOLEAN, new : BOOLEAN, copy : Images]

DataOK  ==
  /\ buffer \in Images /\ pos \in 0..Room /\ image \in ImageRecords
  /\ file \in Images /\ header \in 0..Room
FlagsOK == {isOpen, explorer, posted, autosave, failed} \subseteq BOOLEAN

LocksOK ==
  /\ lock \in {"free", "worker", "gui"}
  /\ lock = "worker" <=> worker.pc # "idle"
  /\ lock = "gui" <=> explorer \/ gui.locked
  /\ ~(explorer /\ gui.locked)
  /\ gui.pc = "idle" => ~gui.locked

TypeInv ==
  /\ DataOK /\ FlagsOK /\ LocksOK
  /\ worker \in WorkerRecords /\ gui \in GuiRecords
  /\ worker.pc # "idle" => worker.sector \in Sectors

LEMMA Bounds ==
  /\ MaxSectors \in Nat /\ Room \in Nat /\ Blank \in Values /\ MaxSectors <= Room
  /\ \A s \in Sectors : s \in Nat /\ s - 1 \in 0..Room /\ s \in 0..Room /\ s \in 0..MaxSectors
  /\ 0 \in 0..Room /\ 0 \in 0..MaxSectors
  /\ <<>> \in Images
  <1>1. MaxSectors \in Nat /\ Room \in Nat /\ Blank \in Values /\ MaxSectors <= Room
    BY ImageAssumption
  <1>2. PICK e : e = <<>>
    OBVIOUS
  <1>3. e \in Seq(Values) /\ Len(e) = 0
    BY <1>2
  <1>4. <<>> \in Images
    <2>0. Len(e) <= Room
      BY <1>1, <1>3
    <2>1. e \in Images
      BY <1>3, <2>0, ImageLength
    <2> QED
      BY <1>2, <2>1
  <1> QED
    BY <1>1, <1>4 DEF Sectors

LEMMA InitTypeInv == Init => TypeInv
  <1> SUFFICES ASSUME Init
               PROVE  TypeInv
    OBVIOUS
  <1>1. PICK s \in BoundedSeq(Values, MaxSectors) \ {<<>>}, k \in Kinds, opened \in BOOLEAN :
          /\ opened \/ (s = Blanks(Len(s)) /\ k = "atr")
          /\ buffer = s
          /\ file = IF opened THEN s ELSE <<>>
          /\ header \in IF opened /\ k = "atr" THEN 0..MaxSectors ELSE {0}
          /\ image = [size |-> Len(s), named |-> opened, kind |-> k,
                      modified |-> ~opened \/ (k = "atr" /\ header # Len(s))]
    BY DEF Init
  <1>2. PICK m \in 0..MaxSectors : s \in [1..m -> Values]
    BY DEF BoundedSeq, SeqOf
  <1>3. m \in Nat /\ m <= Room /\ s \in Seq(Values) /\ Len(s) = m
    BY <1>2, Bounds
  <1>4. s \in Images /\ Len(s) \in 0..Room
    BY <1>3, ImageLength, Bounds
  <1>5. buffer \in Images /\ file \in Images /\ header \in 0..Room
    BY <1>1, <1>4, Bounds
  <1>6. image \in ImageRecords
    BY <1>1, <1>4 DEF ImageRecords
  <1>7. worker \in WorkerRecords /\ worker.pc = "idle"
    BY Bounds DEF Init, WorkerIdle, WorkerRecords, WorkerPcs
  <1>8. gui \in GuiRecords /\ ~gui.locked
    BY Bounds DEF Init, GuiIdle, GuiRecords, GuiPcs
  <1>9. DataOK /\ FlagsOK
    BY <1>5, <1>6, Bounds DEF Init, DataOK, FlagsOK
  <1>10. LocksOK
    BY <1>7, <1>8 DEF Init, LocksOK
  <1> QED
    BY <1>7, <1>8, <1>9, <1>10 DEF TypeInv


(* The worker moves the position and writes within the room there is.       *)
LEMMA WorkerData ==
  ASSUME TypeInv, WorkerNext
  PROVE  DataOK'
  <1>0. /\ worker \in WorkerRecords /\ DataOK
        /\ worker.pc # "idle" => worker.sector \in Sectors
    BY DEF TypeInv
  <1>1. pos \in Nat /\ buffer \in Seq(Values) /\ Len(buffer) <= Room /\ worker.value \in Values
    BY <1>0, ImageLength, Bounds DEF DataOK, WorkerRecords
  <1>2. ASSUME \/ \E op \in {"read", "write", "format"}, s \in Sectors, v \in Values : Command(op, s, v)
               \/ Unlock
        PROVE  DataOK'
    BY <1>0, <1>2 DEF Command, Unlock, temporary, stored, DataOK
  <1>3. CASE SeekToSector
    <2>1. worker.sector - 1 \in 0..Room
      BY <1>0, <1>3, Bounds DEF SeekToSector
    <2> QED
      BY <1>0, <1>3, <2>1 DEF SeekToSector, stored, DataOK
  <1>4. CASE FlagModified
    BY <1>0, <1>4 DEF FlagModified, MarkModified, temporary, stored, DataOK, ImageRecords
  <1>5. CASE WriteData
    <2>1. /\ Overwrite(buffer, pos, worker.value) \in Seq(Values)
          /\ Len(Overwrite(buffer, pos, worker.value)) =
               IF pos < Len(buffer) THEN Len(buffer) ELSE pos + 1
      BY <1>1, OverwriteEffect
    <2>2. pos < Room =>
            Len(Overwrite(buffer, pos, worker.value)) <= Room /\ pos + 1 \in 0..Room
      BY <1>1, <2>1, Bounds
    <2>3. buffer' \in Images /\ pos' \in 0..Room
      BY <1>0, <1>5, <2>1, <2>2, ImageLength DEF WriteData, DataOK
    <2> QED
      BY <1>0, <1>5, <2>3 DEF WriteData, stored, DataOK
  <1>6. CASE ReadData
    <2>1. pos < Len(buffer) => pos + 1 \in 0..Room
      BY <1>1, Bounds
    <2> QED
      BY <1>0, <1>6, <2>1 DEF ReadData, stored, DataOK
  <1>7. CASE ResizeFile
    <2>1. worker.sector \in Nat /\ worker.sector <= Room
      BY <1>0, <1>7, Bounds DEF ResizeFile
    <2>2. Blanks(worker.sector) \in Images
      BY <2>1, BlanksLength, ImageLength
    <2>3. buffer' \in Images
      BY <1>0, <1>7, <2>2, Bounds DEF ResizeFile, DataOK
    <2>4. Len(buffer') \in 0..Room
      <3>1. buffer' \in Seq(Values) /\ Len(buffer') <= Room
        BY <2>3, ImageLength
      <3> QED
        BY <3>1, Bounds
    <2>5. pos' \in 0..Room
      BY <1>0, <1>7, <2>4 DEF ResizeFile, DataOK
    <2> QED
      BY <1>0, <1>7, <2>3, <2>5 DEF ResizeFile, stored, DataOK
  <1>8. CASE NewGeometry
    <2>1. worker.sector \in 0..Room
      BY <1>0, <1>8, Bounds DEF NewGeometry
    <2>2. image' \in ImageRecords
      BY <1>0, <1>8, <2>1 DEF NewGeometry, DataOK, ImageRecords
    <2> QED
      BY <1>0, <1>8, <2>2 DEF NewGeometry, temporary, stored, DataOK
  <1> QED
    BY <1>2, <1>3, <1>4, <1>5, <1>6, <1>7, <1>8, Bounds
       DEF WorkerNext, ReadCommand, WriteCommand, FormatCommand

LEMMA WorkerLocks ==
  ASSUME TypeInv, WorkerNext
  PROVE  LocksOK' /\ FlagsOK'
  <1>0. worker \in WorkerRecords /\ LocksOK /\ FlagsOK
    BY DEF TypeInv
  <1>1. ASSUME NEW op \in {"read", "write", "format"}, NEW s \in Sectors, NEW v \in Values,
               Command(op, s, v)
        PROVE  LocksOK' /\ FlagsOK'
    BY <1>0, <1>1 DEF Command, temporary, stored, LocksOK, FlagsOK
  <1>2. CASE Unlock
    BY <1>0, <1>2 DEF Unlock, WorkerIdle, temporary, stored, LocksOK, FlagsOK
  <1>3. ASSUME SeekToSector \/ FlagModified \/ WriteData \/ ReadData \/ ResizeFile \/ NewGeometry
        PROVE  LocksOK' /\ FlagsOK'
    <2>1. /\ worker.pc # "idle" /\ worker'.pc # "idle"
          /\ UNCHANGED <<lock, explorer, gui, isOpen, autosave, failed>>
      BY <1>0, <1>3 DEF SeekToSector, FlagModified, WriteData, ReadData, ResizeFile, NewGeometry,
                        WorkerGoes, WorkerRecords, temporary, stored
    <2>2. posted' \in BOOLEAN
      BY <1>0, <1>3 DEF SeekToSector, FlagModified, WriteData, ReadData, ResizeFile, NewGeometry,
                        MarkModified, FlagsOK
    <2> QED
      BY <1>0, <2>1, <2>2 DEF LocksOK, FlagsOK
  <1> QED
    BY <1>1, <1>2, <1>3, Bounds DEF WorkerNext, ReadCommand, WriteCommand, FormatCommand

LEMMA WorkerTypeInv ==
  ASSUME TypeInv, WorkerNext
  PROVE  TypeInv'
  <1>0. /\ worker \in WorkerRecords /\ gui \in GuiRecords
        /\ worker.pc # "idle" => worker.sector \in Sectors
        /\ pos \in Nat /\ buffer \in Seq(Values)
    BY ImageLength, Bounds DEF TypeInv, DataOK
  <1> USE DEF WorkerRecords, WorkerPcs, WorkerGoes
  <1>1. ASSUME NEW op \in {"read", "write", "format"}, NEW s \in Sectors, NEW v \in Values,
               Command(op, s, v)
        PROVE  worker' \in WorkerRecords /\ worker'.sector \in Sectors
    BY <1>1, Bounds DEF Command
  <1>2. ASSUME Unlock
        PROVE  worker' \in WorkerRecords /\ worker'.pc = "idle"
    BY <1>2, Bounds DEF Unlock, WorkerIdle
  <1>3. ASSUME SeekToSector \/ FlagModified \/ WriteData \/ ResizeFile \/ NewGeometry
        PROVE  worker' \in WorkerRecords /\ worker'.sector \in Sectors
    BY <1>0, <1>3 DEF SeekToSector, FlagModified, WriteData, ResizeFile, NewGeometry
  <1>4. ASSUME ReadData
        PROVE  worker' \in WorkerRecords /\ worker'.sector \in Sectors
    <2>1. pos < Len(buffer) => buffer[pos + 1] \in Values
      BY <1>0
    <2> QED
      BY <1>0, <1>4, <2>1 DEF ReadData
  <1>5. worker' \in WorkerRecords /\ (worker'.pc # "idle" => worker'.sector \in Sectors)
    BY <1>1, <1>2, <1>3, <1>4, Bounds DEF WorkerNext, ReadCommand, WriteCommand, FormatCommand
  <1>6. gui' = gui
    BY DEF WorkerNext, ReadCommand, WriteCommand, FormatCommand, Command, Unlock, SeekToSector,
           FlagModified, WriteData, ReadData, ResizeFile, NewGeometry
  <1> QED
    BY <1>0, <1>5, <1>6, WorkerData, WorkerLocks DEF TypeInv

LEMMA RevertEffect ==
  ASSUME TypeInv, Revert
  PROVE  /\ buffer' \in Images /\ image' \in ImageRecords
         /\ pos' \in 0..Room /\ isOpen' \in BOOLEAN
         /\ \/ image' = image
            \/ image.kind # "atr"
            \/ image'.modified
            \/ header = Len(buffer') /\ IsPrefix(file, buffer') /\ (header = Len(file) => buffer' = file)
  <1>0. /\ image \in ImageRecords /\ buffer \in Images /\ file \in Images /\ header \in 0..Room
        /\ file \in Seq(Values) /\ buffer \in Seq(Values) /\ Len(file) <= Room /\ Len(buffer) <= Room
    BY ImageLength DEF TypeInv, DataOK
  <1>1. ASSUME NEW k \in 0..Len(file)
        PROVE  /\ CopiedOver(k) \in Images /\ Len(CopiedOver(k)) \in 0..Room /\ k \in 0..Room
               /\ k = Len(file) => IsPrefix(file, CopiedOver(k))
               /\ k = Len(file) /\ Len(CopiedOver(k)) = k => CopiedOver(k) = file
    <2>1. /\ CopiedOver(k) \in Seq(Values)
          /\ Len(CopiedOver(k)) = IF k < Len(buffer) THEN Len(buffer) ELSE k
          /\ k = Len(file) => IsPrefix(file, CopiedOver(k))
          /\ k = Len(file) /\ Len(CopiedOver(k)) = k => CopiedOver(k) = file
      BY <1>0, CopiedOverEffect
    <2>2. Len(CopiedOver(k)) <= Room /\ Len(CopiedOver(k)) \in 0..Room /\ k \in 0..Room
      BY <1>0, <2>1, Bounds
    <2> QED
      BY <2>1, <2>2, ImageLength
  <1>2. CASE Reopen
    <2>1. /\ buffer' \in Images /\ Len(buffer') \in 0..Room /\ IsPrefix(file, buffer')
          /\ Len(buffer') = Len(file) => buffer' = file
          /\ pos' \in 0..Room
      BY <1>0, <1>1, <1>2 DEF Reopen
    <2>2. image' \in ImageRecords
      BY <1>0, <1>2, <2>1 DEF Reopen, ImageRecords
    <2>3. image'.modified = (image.kind = "atr" /\ header # Len(buffer'))
      BY <1>0, <1>2 DEF Reopen, ImageRecords
    <2> QED
      BY <1>2, <2>1, <2>2, <2>3 DEF Reopen
  <1>3. CASE ReopenFails
    <2>1. image' = image /\ isOpen' \in BOOLEAN
      BY <1>3 DEF ReopenFails
    <2>2. buffer' \in Images /\ pos' \in 0..Room
      BY <1>0, <1>1, <1>3, Bounds DEF ReopenFails
    <2> QED
      BY <1>0, <2>1, <2>2
  <1> QED
    BY <1>2, <1>3 DEF Revert

LEMMA GuiData ==
  ASSUME TypeInv, GuiNext
  PROVE  DataOK' /\ FlagsOK'
  <1>0. DataOK /\ FlagsOK /\ gui \in GuiRecords
    BY DEF TypeInv
  <1>1. CASE Revert
    BY <1>0, <1>1, RevertEffect DEF Revert, stored, DataOK, FlagsOK
  <1>2. ASSUME NEW s \in Sectors, NEW v \in Values, ExplorerWrite(s, v)
        PROVE  DataOK' /\ FlagsOK'
    <2>1. buffer \in Seq(Values) /\ Len(buffer) <= Room /\ s - 1 \in Nat /\ s <= Len(buffer)
      BY <1>0, <1>2, ImageLength, Bounds DEF ExplorerWrite, DataOK
    <2>2. /\ Overwrite(buffer, s - 1, v) \in Seq(Values)
          /\ Len(Overwrite(buffer, s - 1, v)) = Len(buffer)
      BY <2>1, OverwriteEffect, Bounds
    <2>3. buffer' \in Images /\ pos' \in 0..Room
      BY <1>2, <2>1, <2>2, ImageLength, Bounds DEF ExplorerWrite
    <2>4. image' \in ImageRecords
      BY <1>0, <1>2 DEF ExplorerWrite, MarkModified, DataOK, ImageRecords
    <2>5. DataOK'
      BY <1>0, <1>2, <2>3, <2>4 DEF ExplorerWrite, stored, DataOK
    <2>6. FlagsOK'
      BY <1>0, <1>2 DEF ExplorerWrite, MarkModified, FlagsOK
    <2> QED
      BY <2>5, <2>6
  <1>3. CASE CopyBuffer
    <2>1. buffer \in Seq(Values) /\ Len(buffer) <= Room /\ pos \in Nat
      BY <1>0, ImageLength, Bounds DEF DataOK
    <2>2. /\ SubSeq(buffer, pos + 1, Len(buffer)) \in Seq(Values)
          /\ Len(SubSeq(buffer, pos + 1, Len(buffer))) <= Room /\ Len(buffer) \in 0..Room
      BY <2>1, WholeCopy, Bounds
    <2>3. SubSeq(buffer, pos + 1, Len(buffer)) \in Images
      BY <2>2, ImageLength
    <2> QED
      BY <1>0, <1>3, <2>2, <2>3 DEF CopyBuffer, DataOK, FlagsOK
  <1>4. CASE OpenOutput
    <2>1. HeaderOf(image.size) \in 0..Room
      BY <1>0, Bounds DEF HeaderOf, DataOK, ImageRecords
    <2> QED
      BY <1>0, <1>4, <2>1, Bounds DEF OpenOutput, temporary, stored, DataOK, FlagsOK
  <1>5. CASE RewindBuffer
    BY <1>0, <1>5, Bounds DEF RewindBuffer, stored, DataOK, FlagsOK
  <1>6. CASE ClearModified
    <2>1. file' \in Images /\ image' \in ImageRecords
      BY <1>0, <1>6 DEF ClearModified, DataOK, ImageRecords, GuiRecords
    <2>2. header' \in 0..Room
      BY <1>0, <1>6, Bounds DEF ClearModified, HeaderOf, DataOK, ImageRecords
    <2> QED
      BY <1>0, <1>6, <2>1, <2>2 DEF ClearModified, temporary, stored, DataOK, FlagsOK
  <1>7. ASSUME \/ \E new \in BOOLEAN : Save(new)
               \/ ToggleAutoCommit \/ DeviceStatusChanged \/ SaveFailed
               \/ OpenExplorer \/ CloseExplorer
        PROVE  DataOK' /\ FlagsOK'
    <2>1. UNCHANGED <<buffer, pos, isOpen, file, header, image>>
      BY <1>7 DEF Save, ToggleAutoCommit, DeviceStatusChanged, SaveFailed, OpenExplorer,
                  CloseExplorer, temporary, stored
    <2>2. FlagsOK'
      BY <1>0, <1>7, <2>1 DEF Save, ToggleAutoCommit, DeviceStatusChanged, SaveFailed,
                              OpenExplorer, CloseExplorer, FlagsOK
    <2> QED
      BY <1>0, <2>1, <2>2 DEF DataOK
  <1> QED
    BY <1>1, <1>2, <1>3, <1>4, <1>5, <1>6, <1>7 DEF GuiNext, GuiProceeds

(* Starting a save, with the lock or without.                               *)
LEMMA SaveStarts ==
  ASSUME TypeInv, gui.pc = "idle", NEW locked \in BOOLEAN, NEW new \in BOOLEAN,
         locked => lock = "free", StartSave(locked, new), UNCHANGED <<explorer, worker>>
  PROVE  LocksOK' /\ gui' \in GuiRecords
  <1>1. gui' = [pc |-> "open", locked |-> locked, new |-> new, copy |-> <<>>]
    BY DEF StartSave
  <1>2. gui' \in GuiRecords
    BY <1>1, Bounds DEF GuiRecords, GuiPcs
  <1>3. LocksOK /\ explorer' = explorer /\ worker' = worker
    BY DEF TypeInv
  <1>4. gui'.pc = "open" /\ gui'.locked = locked
    BY <1>1
  <1>5. lock' = IF locked THEN "gui" ELSE lock
    BY DEF StartSave
  <1>6. CASE locked
    <2>1. lock = "free" /\ lock' = "gui" /\ gui'.locked
      BY <1>4, <1>5, <1>6
    <2>2. worker.pc = "idle" /\ ~explorer
      BY <1>3, <2>1 DEF LocksOK
    <2> QED
      BY <1>2, <1>3, <1>4, <2>1, <2>2 DEF LocksOK
  <1>7. CASE ~locked
    <2>1. lock' = lock /\ ~gui'.locked
      BY <1>4, <1>5, <1>7
    <2>2. ~gui.locked
      BY <1>3 DEF LocksOK
    <2> QED
      BY <1>2, <1>3, <1>4, <2>1, <2>2 DEF LocksOK
  <1> QED
    BY <1>6, <1>7

LEMMA GuiLocks ==
  ASSUME TypeInv, GuiNext
  PROVE  LocksOK' /\ gui' \in GuiRecords
  <1>0. LocksOK /\ gui \in GuiRecords /\ image \in ImageRecords
    BY DEF TypeInv, DataOK
  <1>1. ASSUME NEW new \in BOOLEAN, Save(new)
        PROVE  LocksOK' /\ gui' \in GuiRecords
    <2>1. (new \/ ~image.named) \in BOOLEAN
      BY <1>0
    <2> QED
      BY <1>1, <2>1, SaveStarts DEF Save
  <1>2. CASE ToggleAutoCommit
    <2>1. (~image.named) \in BOOLEAN
      OBVIOUS
    <2>2. CASE StartSave(TRUE, ~image.named)
      BY <1>2, <2>1, <2>2, SaveStarts DEF ToggleAutoCommit
    <2>3. CASE UNCHANGED <<gui, lock>>
      BY <1>0, <1>2, <2>3 DEF ToggleAutoCommit, LocksOK
    <2> QED
      BY <1>2, <2>2, <2>3 DEF ToggleAutoCommit
  <1>3. ASSUME DeviceStatusChanged \/ Revert
        PROVE  LocksOK' /\ gui' \in GuiRecords
    <2>1. UNCHANGED <<explorer, worker>> /\ gui.pc = "idle"
      BY <1>3 DEF DeviceStatusChanged, Revert
    <2>2. StartSave(FALSE, FALSE) \/ UNCHANGED <<gui, lock>>
      BY <1>3 DEF DeviceStatusChanged, Revert, StatusChanged
    <2>3. CASE StartSave(FALSE, FALSE)
      BY <2>1, <2>3, SaveStarts
    <2>4. CASE UNCHANGED <<gui, lock>>
      BY <1>0, <2>1, <2>4 DEF LocksOK
    <2> QED
      BY <2>2, <2>3, <2>4
  <1>4. ASSUME OpenOutput \/ RewindBuffer
        PROVE  LocksOK' /\ gui' \in GuiRecords
    <2>1. /\ UNCHANGED <<lock, explorer, worker>> /\ gui.pc # "idle"
          /\ \E pc \in GuiPcs \ {"idle"} : gui' = [gui EXCEPT !.pc = pc]
      BY <1>4 DEF OpenOutput, RewindBuffer, GuiGoes, GuiPcs
    <2>2. gui' \in GuiRecords /\ gui'.locked = gui.locked /\ gui'.pc # "idle"
      BY <1>0, <2>1 DEF GuiRecords
    <2> QED
      BY <1>0, <2>1, <2>2 DEF LocksOK
  <1>5. CASE CopyBuffer
    <2>1. buffer \in Seq(Values) /\ Len(buffer) <= Room /\ pos \in Nat
      BY ImageLength, Bounds DEF TypeInv, DataOK
    <2>2. /\ SubSeq(buffer, pos + 1, Len(buffer)) \in Seq(Values)
          /\ Len(SubSeq(buffer, pos + 1, Len(buffer))) <= Room
      BY <2>1, WholeCopy, Bounds
    <2>3. SubSeq(buffer, pos + 1, Len(buffer)) \in Images
      BY <2>2, ImageLength
    <2>4. gui' \in GuiRecords /\ gui'.locked = gui.locked /\ gui'.pc # "idle"
      BY <1>0, <1>5, <2>3 DEF CopyBuffer, GuiGoes, GuiRecords, GuiPcs
    <2> QED
      BY <1>0, <1>5, <2>4 DEF CopyBuffer, LocksOK
  <1>6. ASSUME ClearModified \/ SaveFailed
        PROVE  LocksOK' /\ gui' \in GuiRecords
    <2>1. gui' = GuiIdle /\ UNCHANGED <<explorer, worker>>
          /\ lock' = IF gui.locked THEN "free" ELSE lock
      BY <1>6 DEF ClearModified, SaveFailed, FreeLock
    <2>2. gui' \in GuiRecords /\ ~gui'.locked
      BY <2>1, Bounds DEF GuiIdle, GuiRecords, GuiPcs
    <2> QED
      BY <1>0, <2>1, <2>2 DEF LocksOK
  <1>7. CASE OpenExplorer
    BY <1>0, <1>7 DEF OpenExplorer, LocksOK
  <1>8. CASE CloseExplorer
    BY <1>0, <1>8 DEF CloseExplorer, LocksOK
  <1>9. ASSUME NEW s \in Sectors, NEW v \in Values, ExplorerWrite(s, v)
        PROVE  LocksOK' /\ gui' \in GuiRecords
    BY <1>0, <1>9 DEF ExplorerWrite, LocksOK
  <1> QED
    BY <1>1, <1>2, <1>3, <1>4, <1>5, <1>6, <1>7, <1>8, <1>9 DEF GuiNext, GuiProceeds

LEMMA GuiTypeInv ==
  ASSUME TypeInv, GuiNext
  PROVE  TypeInv'
  <1>1. worker' = worker
    BY DEF GuiNext, GuiProceeds, Save, ToggleAutoCommit, DeviceStatusChanged, Revert, OpenOutput,
           RewindBuffer, CopyBuffer, ClearModified, SaveFailed, OpenExplorer, CloseExplorer,
           ExplorerWrite
  <1> QED
    BY <1>1, GuiData, GuiLocks DEF TypeInv

(* The invariant the other proofs rest on.                                  *)
THEOREM TypeInvariant == Spec => []TypeInv
  <1>1. TypeInv /\ [Next]_vars => TypeInv'
    <2>1. TypeInv /\ UNCHANGED vars => TypeInv'
      BY DEF vars, temporary, stored, TypeInv, DataOK, FlagsOK, LocksOK
    <2> QED
      BY <2>1, WorkerTypeInv, GuiTypeInv DEF Next
  <1> QED
    BY <1>1, InitTypeInv, PTL DEF Spec

(* Every variable keeps its type, and the image's lock is held by whoever   *)
(* works on it, but for the automatic save.                                 *)
THEOREM TypeCorrect == Spec => []TypeOK
  <1>1. TypeInv => TypeOK
    BY DEF TypeInv, DataOK, FlagsOK, LocksOK, ImageRecords, WorkerRecords, GuiRecords, TypeOK
  <1> QED
    BY <1>1, TypeInvariant, PTL

-----------------------------------------------------------------------------
(* Auto-commit.                                                             *)

LEMMA WorkerAnnounces ==
  ASSUME TypeInv, ModifiedIsAnnounced, WorkerNext
  PROVE  ModifiedIsAnnounced'
  <1>1. image \in ImageRecords
    BY DEF TypeInv, DataOK
  <1>2. UNCHANGED <<autosave, failed, gui>>
    BY DEF WorkerNext, ReadCommand, WriteCommand, FormatCommand, Command, Unlock, SeekToSector,
           FlagModified, WriteData, ReadData, ResizeFile, NewGeometry
  <1>3. \/ UNCHANGED <<image, posted>>
        \/ MarkModified
        \/ posted'
    BY DEF WorkerNext, ReadCommand, WriteCommand, FormatCommand, Command, Unlock, SeekToSector,
           FlagModified, WriteData, ReadData, ResizeFile, NewGeometry
  <1>4. CASE MarkModified
    <2>1. image'.named = image.named /\ (posted \/ ~image.modified => posted')
      BY <1>1, <1>4 DEF MarkModified, ImageRecords
    <2> QED
      BY <1>2, <2>1 DEF ModifiedIsAnnounced
  <1> QED
    BY <1>2, <1>3, <1>4 DEF ModifiedIsAnnounced

LEMMA SaveHasStarted ==
  ASSUME NEW locked, NEW new, StartSave(locked, new)
  PROVE  gui'.pc = "open"
  BY DEF StartSave

LEMMA GuiAnnounces ==
  ASSUME TypeInv, ModifiedIsAnnounced, GuiNext
  PROVE  ModifiedIsAnnounced'
  <1>1. image \in ImageRecords /\ gui \in GuiRecords
    BY DEF TypeInv, DataOK
  <1>2. ASSUME NEW new \in BOOLEAN, Save(new)
        PROVE  ModifiedIsAnnounced'
    BY <1>2, SaveHasStarted DEF Save, ModifiedIsAnnounced
  <1>3. CASE ToggleAutoCommit
    BY <1>3, SaveHasStarted DEF ToggleAutoCommit, ModifiedIsAnnounced
  <1>4. CASE DeviceStatusChanged
    BY <1>4, SaveHasStarted DEF DeviceStatusChanged, StatusChanged, ModifiedIsAnnounced
  <1>5. CASE Revert
    BY <1>5, SaveHasStarted DEF Revert, StatusChanged, ModifiedIsAnnounced
  <1>6. ASSUME OpenOutput \/ RewindBuffer \/ CopyBuffer
        PROVE  ModifiedIsAnnounced'
    <2>1. gui'.pc # "idle"
      BY <1>1, <1>6 DEF OpenOutput, RewindBuffer, CopyBuffer, GuiGoes, GuiRecords
    <2> QED
      BY <2>1 DEF ModifiedIsAnnounced
  <1>7. CASE ClearModified
    BY <1>7 DEF ClearModified, ModifiedIsAnnounced
  <1>8. CASE SaveFailed
    BY <1>8 DEF SaveFailed, ModifiedIsAnnounced
  <1>9. CASE OpenExplorer \/ CloseExplorer
    BY <1>9 DEF OpenExplorer, CloseExplorer, ModifiedIsAnnounced
  <1>10. ASSUME NEW s \in Sectors, NEW v \in Values, ExplorerWrite(s, v)
         PROVE  ModifiedIsAnnounced'
    <2>1. image'.named = image.named /\ (posted \/ ~image.modified => posted')
      BY <1>1, <1>10 DEF ExplorerWrite, MarkModified, ImageRecords
    <2> QED
      BY <1>10, <2>1 DEF ExplorerWrite, ModifiedIsAnnounced
  <1> QED
    BY <1>2, <1>3, <1>4, <1>5, <1>6, <1>7, <1>8, <1>9, <1>10 DEF GuiNext, GuiProceeds

(* With the auto-commit button down a modified image that has a file has    *)
(* its announcement in the queue or its save under way, after any sequence  *)
(* of commands, saves, reverts and clicks.                                  *)
THEOREM ModifiedIsAnnouncedAlways == Spec => []ModifiedIsAnnounced
  <1>1. Init => ModifiedIsAnnounced
    BY DEF Init, ModifiedIsAnnounced
  <1>2. TypeInv /\ ModifiedIsAnnounced /\ [Next]_vars => ModifiedIsAnnounced'
    <2>1. ModifiedIsAnnounced /\ UNCHANGED vars => ModifiedIsAnnounced'
      BY DEF vars, temporary, stored, ModifiedIsAnnounced
    <2> QED
      BY <2>1, WorkerAnnounces, GuiAnnounces DEF Next
  <1> QED
    BY <1>1, <1>2, TypeInvariant, PTL DEF Spec

-----------------------------------------------------------------------------
(* Without auto-commit every save holds the lock, so that the temporary     *)
(* file and its position belong to one thread at a time.                    *)

AloneInv ==
  /\ ~autosave
  /\ gui.pc # "idle" => gui.locked
  /\ worker.pc \in {"flag", "write", "read"} => pos = worker.sector - 1
  /\ worker.pc = "seek" => worker.op \in {"read", "write"}
  /\ worker.pc = "read" => worker.op = "read"
  /\ worker.pc \in {"flag", "write"} => worker.op = "write"
  /\ worker.pc = "resize" => worker.op = "format" /\ worker.value = Blank
  /\ worker.pc = "geometry" => worker.op = "format"

SavedInv ==
  /\ worker.pc = "write" => image.modified
  /\ gui.pc = "copy" => pos = 0
  /\ gui.pc = "clear" => gui.copy = buffer
  /\ gui.pc = "idle" /\ worker.pc # "geometry" /\ ~image.modified /\ image.named /\ ~failed
       => file = buffer \/ HeaderMisleads

LEMMA OneThread ==
  ASSUME TypeInv, AloneInv
  PROVE  /\ worker.pc # "idle" => gui.pc = "idle" /\ ~explorer
         /\ gui.pc # "idle" => worker.pc = "idle" /\ ~explorer
         /\ explorer => worker.pc = "idle"
  BY DEF TypeInv, LocksOK, AloneInv

LEMMA CommandStarts ==
  ASSUME NEW op \in {"read", "write", "format"}, NEW s \in Sectors, NEW v \in Values,
         op = "format" => v = Blank, Command(op, s, v)
  PROVE  /\ worker.pc = "idle"
         /\ worker'.op = op /\ worker'.value = v /\ worker'.sector = s
         /\ worker'.pc = IF op = "format" THEN "resize" ELSE "seek"
         /\ UNCHANGED <<buffer, pos, isOpen, file, header, image, explorer, posted, autosave, failed, gui>>
  BY DEF Command, temporary, stored

LEMMA WorkerSteps ==
  ASSUME WorkerNext
  PROVE  \/ \E op \in {"read", "write", "format"}, s \in Sectors, v \in Values :
              (op = "format" => v = Blank) /\ Command(op, s, v)
         \/ SeekToSector \/ FlagModified \/ WriteData \/ ReadData
         \/ ResizeFile \/ NewGeometry \/ Unlock
  BY Bounds DEF WorkerNext, ReadCommand, WriteCommand, FormatCommand

LEMMA WorkerAlone ==
  ASSUME TypeInv, AloneInv, WorkerNext
  PROVE  AloneInv'
  <1>0. worker \in WorkerRecords
    BY DEF TypeInv
  <1>1. ~autosave' /\ gui' = gui
    BY DEF AloneInv, WorkerNext, ReadCommand, WriteCommand, FormatCommand, Command, Unlock,
           SeekToSector, FlagModified, WriteData, ReadData, ResizeFile, NewGeometry
  <1>2. ASSUME NEW op \in {"read", "write", "format"}, NEW s \in Sectors, NEW v \in Values,
               op = "format" => v = Blank, Command(op, s, v)
        PROVE  AloneInv'
    BY <1>1, <1>2, CommandStarts DEF AloneInv
  <1>3. CASE SeekToSector
    <2>1. \/ /\ worker'.pc = "read" /\ worker'.op = "read"
             /\ worker.op = "read" /\ worker'.sector = worker.sector /\ pos' = worker.sector - 1
          \/ /\ worker'.pc = "flag" /\ worker'.op = "write"
             /\ worker'.sector = worker.sector /\ pos' = worker.sector - 1
          \/ worker'.pc = "unlock"
      BY <1>0, <1>3 DEF SeekToSector, WorkerGoes, WorkerRecords, AloneInv
    <2> QED
      BY <1>1, <2>1 DEF AloneInv
  <1>4. CASE FlagModified
    <2>1. worker'.pc = "write" /\ worker'.op = worker.op /\ worker'.sector = worker.sector
          /\ pos' = pos /\ worker.pc = "flag"
      BY <1>0, <1>4 DEF FlagModified, WorkerGoes, WorkerRecords, temporary, stored
    <2> QED
      BY <1>1, <2>1 DEF AloneInv
  <1>5. ASSUME WriteData \/ ReadData \/ NewGeometry \/ Unlock \/ ResizeFile
        PROVE  AloneInv'
    <2>1. WriteData \/ NewGeometry => worker'.pc = "unlock"
      BY <1>0 DEF WriteData, NewGeometry, WorkerGoes, WorkerRecords
    <2>2. ReadData => worker'.pc = "unlock"
      BY <1>0 DEF ReadData, WorkerRecords
    <2>3. Unlock => worker'.pc = "idle"
      BY DEF Unlock, WorkerIdle
    <2>4. ResizeFile => worker.pc = "resize" /\ worker'.pc = "geometry" /\ worker'.op = worker.op
      BY <1>0 DEF ResizeFile, WorkerGoes, WorkerRecords
    <2> QED
      BY <1>1, <1>5, <2>1, <2>2, <2>3, <2>4 DEF AloneInv
  <1> QED
    BY <1>2, <1>3, <1>4, <1>5, WorkerSteps

LEMMA GuiAlone ==
  ASSUME ~AutoCommit, TypeInv, AloneInv, GuiNext
  PROVE  AloneInv'
  <1>0. gui \in GuiRecords
    BY DEF TypeInv
  <1>1. worker' = worker
    BY DEF GuiNext, GuiProceeds, Save, ToggleAutoCommit, DeviceStatusChanged, Revert, OpenOutput,
           RewindBuffer, CopyBuffer, ClearModified, SaveFailed, OpenExplorer, CloseExplorer,
           ExplorerWrite
  <1>2. ~autosave'
    BY DEF AloneInv, GuiNext, GuiProceeds, Save, ToggleAutoCommit, DeviceStatusChanged, Revert,
           OpenOutput, RewindBuffer, CopyBuffer, ClearModified, SaveFailed, OpenExplorer,
           CloseExplorer, ExplorerWrite
  <1>3. worker.pc \in {"flag", "write", "read"} => pos' = pos
    <2>1. worker.pc # "idle" => gui.pc = "idle" /\ ~explorer /\ lock = "worker"
      BY OneThread DEF TypeInv, LocksOK
    <2> QED
      BY <2>1 DEF GuiNext, GuiProceeds, Save, ToggleAutoCommit, DeviceStatusChanged, Revert,
                  OpenOutput, RewindBuffer, CopyBuffer, ClearModified, SaveFailed, OpenExplorer,
                  CloseExplorer, ExplorerWrite, temporary, stored
  <1>4. gui'.pc # "idle" => gui'.locked
    <2>1. ASSUME NEW new \in BOOLEAN, Save(new)
          PROVE  gui'.locked
      BY <2>1 DEF Save, StartSave
    <2>2. ASSUME OpenOutput \/ RewindBuffer \/ CopyBuffer
          PROVE  gui'.locked
      <3>1. gui.pc # "idle" /\ gui'.locked = gui.locked
        BY <1>0, <2>2 DEF OpenOutput, RewindBuffer, CopyBuffer, GuiGoes, GuiRecords
      <3> QED
        BY <3>1 DEF AloneInv
    <2>3. ASSUME ClearModified \/ SaveFailed
          PROVE  gui'.pc = "idle"
      BY <2>3 DEF ClearModified, SaveFailed, GuiIdle
    <2>4. ASSUME \/ DeviceStatusChanged \/ Revert \/ OpenExplorer \/ CloseExplorer
                 \/ \E s \in Sectors, v \in Values : ExplorerWrite(s, v)
          PROVE  gui' = gui
      BY <2>4 DEF DeviceStatusChanged, Revert, StatusChanged, OpenExplorer, CloseExplorer,
                  ExplorerWrite, AloneInv
    <2>5. ~ToggleAutoCommit
      BY DEF ToggleAutoCommit
    <2> QED
      BY <2>1, <2>2, <2>3, <2>4, <2>5 DEF GuiNext, GuiProceeds, AloneInv
  <1> QED
    BY <1>1, <1>2, <1>3, <1>4 DEF AloneInv

THEOREM AloneInvariant == ~AutoCommit => (Spec => [](TypeInv /\ AloneInv))
  <1> SUFFICES ASSUME ~AutoCommit
               PROVE  Spec => [](TypeInv /\ AloneInv)
    OBVIOUS
  <1>1. Init => AloneInv
    BY DEF Init, WorkerIdle, GuiIdle, AloneInv
  <1>2. TypeInv /\ AloneInv /\ [Next]_vars => AloneInv'
    <2>1. AloneInv /\ UNCHANGED vars => AloneInv'
      BY DEF vars, temporary, stored, AloneInv
    <2> QED
      BY <2>1, WorkerAlone, GuiAlone DEF Next
  <1> QED
    BY <1>1, <1>2, TypeInvariant, PTL DEF Spec

LEMMA WorkerSaved ==
  ASSUME TypeInv, AloneInv, SavedInv, WorkerNext
  PROVE  SavedInv'
  <1>0. worker \in WorkerRecords /\ image \in ImageRecords
    BY DEF TypeInv, DataOK
  <1>1. UNCHANGED <<gui, file, header, failed>>
    BY DEF WorkerNext, ReadCommand, WriteCommand, FormatCommand, Command, Unlock,
           SeekToSector, FlagModified, WriteData, ReadData, ResizeFile, NewGeometry, stored, temporary
  <1>2. ASSUME NEW op \in {"read", "write", "format"}, NEW s \in Sectors, NEW v \in Values,
               op = "format" => v = Blank, Command(op, s, v)
        PROVE  SavedInv'
    BY <1>1, <1>2, CommandStarts DEF SavedInv, HeaderMisleads
  <1>3. ASSUME worker.pc # "idle"
        PROVE  gui'.pc = "idle"
    BY <1>1, <1>3, OneThread
  <1>4. CASE SeekToSector
    <2>1. worker.pc = "seek" /\ worker'.pc \in {"read", "flag", "unlock"}
          /\ UNCHANGED <<buffer, image>>
      BY <1>0, <1>4 DEF SeekToSector, WorkerGoes, WorkerRecords
    <2> QED
      BY <1>1, <1>3, <2>1 DEF SavedInv, HeaderMisleads
  <1>5. CASE FlagModified
    <2>1. worker.pc = "flag" /\ image'.modified
      BY <1>0, <1>5 DEF FlagModified, MarkModified, ImageRecords
    <2> QED
      BY <1>1, <1>3, <2>1 DEF SavedInv, HeaderMisleads
  <1>6. CASE WriteData
    <2>1. worker.pc = "write" /\ image' = image
      BY <1>6 DEF WriteData
    <2>2. worker'.pc = "unlock"
      BY <1>0, <1>6 DEF WriteData, WorkerGoes, WorkerRecords
    <2> QED
      BY <1>1, <1>3, <2>1, <2>2 DEF SavedInv, HeaderMisleads
  <1>7. CASE ReadData
    <2>1. worker.pc = "read" /\ UNCHANGED <<buffer, image>>
      BY <1>7 DEF ReadData
    <2>2. worker'.pc = "unlock"
      BY <1>0, <1>7 DEF ReadData, WorkerRecords
    <2> QED
      BY <1>1, <1>3, <2>1, <2>2 DEF SavedInv, HeaderMisleads
  <1>8. CASE ResizeFile
    <2>1. worker.pc = "resize"
      BY <1>8 DEF ResizeFile
    <2>2. worker'.pc = "geometry"
      BY <1>0, <1>8 DEF ResizeFile, WorkerGoes, WorkerRecords
    <2> QED
      BY <1>1, <1>3, <2>1, <2>2 DEF SavedInv, HeaderMisleads
  <1>9. CASE NewGeometry
    <2>1. worker.pc = "geometry" /\ image'.modified
      BY <1>0, <1>9 DEF NewGeometry, ImageRecords
    <2> QED
      BY <1>1, <1>3, <2>1 DEF SavedInv, HeaderMisleads
  <1>10. CASE Unlock
    <2>1. worker.pc = "unlock" /\ worker'.pc = "idle" /\ UNCHANGED <<buffer, image>>
      BY <1>10 DEF Unlock, WorkerIdle, temporary, stored
    <2> QED
      BY <1>1, <1>3, <2>1 DEF SavedInv, HeaderMisleads
  <1> QED
    BY <1>2, <1>4, <1>5, <1>6, <1>7, <1>8, <1>9, <1>10, WorkerSteps

LEMMA GuiSaved ==
  ASSUME ~AutoCommit, "xfd" \notin Kinds, TypeInv, AloneInv, SavedInv, GuiNext
  PROVE  SavedInv'
  <1>0. /\ gui \in GuiRecords /\ image \in ImageRecords /\ image.kind = "atr"
        /\ buffer \in Seq(Values) /\ pos \in Nat
    <2>1. /\ gui \in GuiRecords /\ image \in ImageRecords
          /\ buffer \in Images /\ pos \in 0..Room
      BY DEF TypeInv, DataOK
    <2>2. image.kind \in Kinds
      BY <2>1 DEF ImageRecords
    <2>3. image.kind = "atr"
      BY <2>2, ImageAssumption
    <2> QED
      BY <2>1, <2>3, ImageLength, Bounds
  <1>1. worker' = worker
    BY DEF GuiNext, GuiProceeds, Save, ToggleAutoCommit, DeviceStatusChanged, Revert, OpenOutput,
           RewindBuffer, CopyBuffer, ClearModified, SaveFailed, OpenExplorer, CloseExplorer,
           ExplorerWrite
  <1>2. ASSUME NEW new \in BOOLEAN, Save(new)
        PROVE  SavedInv'
    <2>1. gui'.pc = "open" /\ image' = image
      BY <1>2 DEF Save, StartSave
    <2> QED
      BY <1>1, <2>1 DEF SavedInv, HeaderMisleads
  <1>3. ASSUME DeviceStatusChanged \/ OpenExplorer \/ CloseExplorer
        PROVE  SavedInv'
    <2>1. UNCHANGED <<gui, buffer, pos, file, header, image, failed>>
      BY <1>3 DEF DeviceStatusChanged, StatusChanged, OpenExplorer, CloseExplorer, temporary, stored,
                  AloneInv
    <2> QED
      BY <1>1, <2>1 DEF SavedInv, HeaderMisleads
  <1>4. CASE Revert
    <2>1. worker.pc = "idle" /\ image.modified /\ gui.pc = "idle" /\ UNCHANGED <<file, header>>
      BY <1>4 DEF Revert, stored, TypeInv, LocksOK
    <2>2. gui' = gui
      BY <1>4 DEF Revert, StatusChanged, AloneInv
    <2>3. \/ image'.modified
          \/ header = Len(buffer') /\ IsPrefix(file, buffer') /\ (header = Len(file) => buffer' = file)
      BY <1>0, <1>4, <2>1, RevertEffect
    <2>4. image'.modified \/ file' = buffer' \/ HeaderMisleads'
      BY <2>1, <2>3 DEF HeaderMisleads
    <2> QED
      BY <1>1, <2>1, <2>2, <2>4 DEF SavedInv, HeaderMisleads
  <1>5. CASE OpenOutput
    <2>1. gui.pc = "open" /\ gui'.pc \in {"rewind", "fail"} /\ image' = image
      BY <1>0, <1>5 DEF OpenOutput, GuiGoes, GuiRecords
    <2> QED
      BY <1>1, <2>1 DEF SavedInv, HeaderMisleads
  <1>6. CASE RewindBuffer
    <2>1. image' = image /\ ((gui'.pc = "copy" /\ pos' = 0) \/ gui'.pc = "fail")
      BY <1>0, <1>6 DEF RewindBuffer, GuiGoes, GuiRecords
    <2> QED
      BY <1>1, <2>1 DEF SavedInv, HeaderMisleads
  <1>7. CASE CopyBuffer
    <2>1. pos = 0 /\ SubSeq(buffer, pos + 1, Len(buffer)) = buffer
      BY <1>0, <1>7, WholeCopy DEF CopyBuffer, SavedInv, HeaderMisleads
    <2>2. UNCHANGED <<buffer, image>>
      BY <1>7 DEF CopyBuffer
    <2>3. (gui'.pc = "clear" /\ gui'.copy = buffer) \/ gui'.pc = "fail"
      BY <1>0, <1>7, <2>1 DEF CopyBuffer, GuiGoes, GuiRecords
    <2> QED
      BY <1>1, <2>2, <2>3 DEF SavedInv, HeaderMisleads
  <1>8. CASE ClearModified
    <2>1. gui.pc = "clear" /\ worker.pc = "idle" /\ gui'.pc = "idle" /\ file' = buffer /\ buffer' = buffer
      BY <1>8, OneThread DEF ClearModified, GuiIdle, temporary, stored, SavedInv, HeaderMisleads
    <2> QED
      BY <1>1, <2>1 DEF SavedInv, HeaderMisleads
  <1>9. CASE SaveFailed
    <2>1. gui'.pc = "idle" /\ image' = image /\ failed'
      BY <1>9 DEF SaveFailed, GuiIdle
    <2> QED
      BY <1>1, <2>1 DEF SavedInv, HeaderMisleads
  <1>10. ASSUME NEW s \in Sectors, NEW v \in Values, ExplorerWrite(s, v)
         PROVE  SavedInv'
    <2>1. gui.pc = "idle" /\ gui' = gui
      BY <1>10 DEF ExplorerWrite
    <2>2. image' = [image EXCEPT !.modified = TRUE]
      BY <1>10 DEF ExplorerWrite, MarkModified
    <2>3. image'.modified
      BY <1>0, <2>2 DEF ImageRecords
    <2> QED
      BY <1>1, <2>1, <2>3 DEF SavedInv, HeaderMisleads
  <1>11. ~ToggleAutoCommit
    BY DEF ToggleAutoCommit
  <1> QED
    BY <1>2, <1>3, <1>4, <1>5, <1>6, <1>7, <1>8, <1>9, <1>10, <1>11 DEF GuiNext, GuiProceeds

(* Without auto-commit, an ATR image that is not marked modified is in its  *)
(* file as it is in memory, whatever has been written, formatted, explored, *)
(* saved and reverted, unless the user has been told that a save failed.    *)
THEOREM CleanAtrIsSaved ==
  ~AutoCommit /\ "xfd" \notin Kinds => (Spec => []CleanIsSaved)
  <1> SUFFICES ASSUME ~AutoCommit, "xfd" \notin Kinds
               PROVE  Spec => []CleanIsSaved
    OBVIOUS
  <1>1. Init => SavedInv
    BY DEF Init, WorkerIdle, GuiIdle, SavedInv, HeaderMisleads
  <1>2. TypeInv /\ AloneInv /\ SavedInv /\ [Next]_vars => SavedInv'
    <2>1. SavedInv /\ UNCHANGED vars => SavedInv'
      BY DEF vars, temporary, stored, SavedInv, HeaderMisleads
    <2> QED
      BY <2>1, WorkerSaved, GuiSaved DEF Next
  <1>3. SavedInv => CleanIsSaved
    BY DEF SavedInv, CleanIsSaved
  <1>4. Spec => [](TypeInv /\ AloneInv)
    BY AloneInvariant
  <1> QED
    BY <1>1, <1>2, <1>3, <1>4, PTL DEF Spec

-----------------------------------------------------------------------------
(* The disk that the Atari sees.                                            *)

Serving == {"seek", "flag", "write", "read", "resize"}

LEMMA RequestIs ==
  /\ worker.pc \in Serving =>
       Request = [op |-> worker.op, sector |-> worker.sector, value |-> worker.value]
  /\ worker.pc \notin Serving => Request = NoRequest
  /\ worker'.pc \in Serving =>
       Request' = [op |-> worker'.op, sector |-> worker'.sector, value |-> worker'.value]
  /\ worker'.pc \notin Serving => Request' = NoRequest
  /\ worker.pc # "unlock" \/ worker.op # "read" => Answer = "none"
  /\ worker'.pc # "unlock" \/ worker'.op # "read" => Answer' = "none"
  /\ worker'.pc = "unlock" /\ worker'.op = "read" => Answer' = worker'.value
  BY DEF Serving, Request, NoRequest, Answer

(* A command in its own words is not the absence of one.                    *)
LEMMA RequestIsOne ==
  ASSUME worker.pc \in Serving, worker.op # "none"
  PROVE  /\ Request # NoRequest /\ Request.op = worker.op
         /\ Request.sector = worker.sector /\ Request.value = worker.value
  <1>1. Request = [op |-> worker.op, sector |-> worker.sector, value |-> worker.value]
    BY RequestIs
  <1> QED
    BY <1>1 DEF NoRequest

LEMMA CommandAsks ==
  ASSUME NEW op \in {"read", "write", "format"}, NEW s \in Sectors, NEW v \in Values,
         op = "format" => v = Blank, Command(op, s, v)
  PROVE  Disk!Ask
  <1>1. Request = NoRequest /\ buffer' = buffer
    BY CommandStarts, RequestIs DEF Serving
  <1>2. worker'.pc \in Serving /\ worker'.pc # "unlock"
    BY CommandStarts DEF Serving
  <1>3. Request' = [op |-> op, sector |-> s, value |-> v] /\ Answer' = "none"
    BY <1>2, CommandStarts, RequestIs
  <1> QED
    BY <1>1, <1>3 DEF Disk!Ask

LEMMA SeekIsInternal ==
  ASSUME TypeInv, AloneInv, SeekToSector
  PROVE  [Disk!Next]_Disk!vars
  <1>0. worker \in WorkerRecords /\ worker.pc = "seek" /\ worker.op \in {"read", "write"}
    BY DEF TypeInv, AloneInv, SeekToSector
  <1>1. buffer' = buffer /\ Request # NoRequest /\ Answer = "none"
    BY <1>0, RequestIs, RequestIsOne DEF SeekToSector, Serving
  <1>2. CASE isOpen
    <2>1. worker'.pc \in Serving \ {"unlock"} /\ worker'.op = worker.op
          /\ worker'.sector = worker.sector /\ worker'.value = worker.value
      BY <1>0, <1>2 DEF SeekToSector, WorkerGoes, WorkerRecords, Serving
    <2>2. Request' = Request /\ Answer' = "none"
      BY <1>0, <2>1, RequestIs DEF Serving
    <2> QED
      BY <1>1, <2>2 DEF Disk!vars
  <1>3. CASE ~isOpen
    <2>1. worker'.pc = "unlock" /\ worker'.op = "none"
      BY <1>0, <1>3 DEF SeekToSector, WorkerRecords
    <2>2. Request' = NoRequest /\ Answer' = "none"
      BY <2>1, RequestIs DEF Serving
    <2> QED
      BY <1>1, <2>2 DEF Disk!Next, Disk!Refuse
  <1> QED
    BY <1>2, <1>3

LEMMA FlagIsInternal ==
  ASSUME TypeInv, FlagModified
  PROVE  UNCHANGED Disk!vars
  <1>0. worker \in WorkerRecords /\ worker.pc = "flag"
    BY DEF TypeInv, FlagModified
  <1>1. worker' = [worker EXCEPT !.pc = "write"] /\ buffer' = buffer
    BY DEF FlagModified, WorkerGoes, temporary, stored
  <1>2. worker'.pc = "write" /\ worker'.op = worker.op
        /\ worker'.sector = worker.sector /\ worker'.value = worker.value
    BY <1>0, <1>1 DEF WorkerRecords
  <1>3. Request' = Request /\ Answer' = Answer
    BY <1>0, <1>2, RequestIs DEF Serving
  <1> QED
    BY <1>1, <1>3 DEF Disk!vars

LEMMA WriteIsAtomic ==
  ASSUME TypeInv, AloneInv, WriteData
  PROVE  Disk!Next
  <1>0. /\ worker \in WorkerRecords /\ worker.pc = "write" /\ worker.op = "write"
        /\ worker.sector \in Sectors /\ pos = worker.sector - 1
        /\ buffer \in Seq(Values) /\ pos \in Nat /\ worker.value \in Values
    <2>1. worker \in WorkerRecords /\ worker.pc = "write" /\ pos \in 0..Room /\ buffer \in Images
      BY DEF TypeInv, DataOK, WriteData
    <2>2. worker.op = "write" /\ pos = worker.sector - 1
      BY <2>1 DEF AloneInv
    <2>3. worker.sector \in Sectors
      BY <2>1 DEF TypeInv
    <2>4. worker.value \in Values
      BY <2>1 DEF WorkerRecords
    <2> QED
      BY <2>1, <2>2, <2>3, <2>4, ImageLength, Bounds
  <1>1. worker' = [worker EXCEPT !.pc = "unlock"]
    BY DEF WriteData, WorkerGoes
  <1>2. worker'.pc = "unlock" /\ worker'.op = "write"
    BY <1>0, <1>1 DEF WorkerRecords
  <1>3. /\ Request # NoRequest /\ Request.op = "write" /\ Request.sector = worker.sector
        /\ Request.value = worker.value /\ Answer = "none"
    BY <1>0, RequestIs, RequestIsOne DEF Serving
  <1>4. Request' = NoRequest /\ Answer' = "none"
    BY <1>2, RequestIs DEF Serving
  <1>5. CASE buffer' = Overwrite(buffer, pos, worker.value)
    <2> DEFINE s == worker.sector
               n == Len(buffer)
    <2>1. s \in Nat /\ pos + 1 = s /\ n \in Nat /\ s \in 1..s
      BY <1>0, Bounds DEF Sectors
    <2>2. buffer' = [i \in 1..(IF pos < n THEN n ELSE pos + 1) |->
                       IF i = pos + 1 THEN worker.value ELSE IF i <= n THEN buffer[i] ELSE Blank]
      BY <1>0, <1>5, OverwriteEffect
    <2>3. (IF pos < n THEN n ELSE pos + 1) = IF s > n THEN s ELSE n
      BY <1>0, <2>1
    <2>4. Disk!Grown(s) = [i \in 1..(IF s > n THEN s ELSE n) |->
                             IF i \in 1..n THEN buffer[i] ELSE Blank]
      BY <1>0 DEF Disk!Grown
    <2>5. [Disk!Grown(s) EXCEPT ![s] = worker.value] =
            [i \in 1..(IF s > n THEN s ELSE n) |->
               IF i = s THEN worker.value ELSE IF i \in 1..n THEN buffer[i] ELSE Blank]
      BY <2>1, <2>4
    <2>6. \A i \in 1..(IF s > n THEN s ELSE n) : i <= n <=> i \in 1..n
      BY <2>1
    <2>7. buffer' = [Disk!Grown(s) EXCEPT ![s] = worker.value]
      BY <2>1, <2>2, <2>3, <2>5, <2>6
    <2> QED
      BY <1>3, <1>4, <2>7 DEF Disk!Next, Disk!Write
  <1>6. CASE buffer' = buffer
    BY <1>3, <1>4, <1>6 DEF Disk!Next, Disk!Refuse
  <1> QED
    BY <1>5, <1>6 DEF WriteData

LEMMA ReadIsAtomic ==
  ASSUME TypeInv, AloneInv, ReadData
  PROVE  Disk!Next
  <1>0. /\ worker \in WorkerRecords /\ worker.pc = "read" /\ worker.op = "read"
        /\ worker.sector \in Sectors /\ pos = worker.sector - 1
        /\ buffer \in Seq(Values) /\ pos \in Nat
    <2>1. worker \in WorkerRecords /\ worker.pc = "read" /\ pos \in 0..Room /\ buffer \in Images
      BY DEF TypeInv, DataOK, ReadData
    <2>2. worker.op = "read" /\ pos = worker.sector - 1
      BY <2>1 DEF AloneInv
    <2>3. worker.sector \in Sectors
      BY <2>1 DEF TypeInv
    <2> QED
      BY <2>1, <2>2, <2>3, ImageLength, Bounds
  <1>1. /\ Request # NoRequest /\ Request.op = "read" /\ Request.sector = worker.sector
        /\ Answer = "none" /\ buffer' = buffer
    BY <1>0, RequestIs, RequestIsOne DEF Serving, ReadData
  <1>2. CASE pos < Len(buffer)
    <2>1. worker' = [worker EXCEPT !.pc = "unlock", !.value = buffer[pos + 1]]
      BY <1>2 DEF ReadData
    <2>2. worker'.pc = "unlock" /\ worker'.op = "read" /\ worker'.value = buffer[pos + 1]
      BY <1>0, <2>1 DEF WorkerRecords
    <2>3. Request' = NoRequest /\ Answer' = buffer[pos + 1]
      BY <2>2, RequestIs DEF Serving
    <2>4. pos + 1 = worker.sector /\ worker.sector \in DOMAIN buffer
      BY <1>0, <1>2, Bounds DEF Sectors
    <2> QED
      BY <1>1, <2>3, <2>4 DEF Disk!Next, Disk!Read
  <1>3. CASE ~(pos < Len(buffer))
    <2>1. worker' = [worker EXCEPT !.pc = "unlock", !.op = "none"]
      BY <1>3 DEF ReadData
    <2>2. worker'.pc = "unlock" /\ worker'.op = "none"
      BY <1>0, <2>1 DEF WorkerRecords
    <2>3. Request' = NoRequest /\ Answer' = "none"
      BY <2>2, RequestIs DEF Serving
    <2> QED
      BY <1>1, <2>3 DEF Disk!Next, Disk!Refuse
  <1> QED
    BY <1>2, <1>3

LEMMA ResizeFormats ==
  ASSUME TypeInv, AloneInv, ResizeFile
  PROVE  Disk!Next
  <1>0. /\ worker \in WorkerRecords /\ worker.pc = "resize"
        /\ worker.op = "format" /\ worker.value = Blank
    BY DEF TypeInv, AloneInv, ResizeFile
  <1>1. worker' = [worker EXCEPT !.pc = "geometry"]
    BY DEF ResizeFile, WorkerGoes
  <1>2. worker'.pc = "geometry"
    BY <1>0, <1>1 DEF WorkerRecords
  <1>3. /\ Request # NoRequest /\ Request.op = "format" /\ Request.sector = worker.sector
        /\ Request.value = Blank /\ Answer = "none"
    BY <1>0, RequestIs, RequestIsOne DEF Serving
  <1>4. Request' = NoRequest /\ Answer' = "none"
    BY <1>2, RequestIs DEF Serving
  <1>5. CASE buffer' = buffer
    BY <1>3, <1>4, <1>5 DEF Disk!Next, Disk!Refuse
  <1>6. CASE buffer' \in {<<>>, Blanks(worker.sector)}
    BY <1>3, <1>4, <1>6 DEF Disk!Next, Disk!Format, Blanks
  <1> QED
    BY <1>5, <1>6 DEF ResizeFile

LEMMA GeometryIsInternal ==
  ASSUME TypeInv, AloneInv, NewGeometry
  PROVE  UNCHANGED Disk!vars
  <1>0. worker \in WorkerRecords /\ worker.pc = "geometry" /\ worker.op = "format"
    BY DEF TypeInv, AloneInv, NewGeometry
  <1>1. worker' = [worker EXCEPT !.pc = "unlock"] /\ buffer' = buffer
    BY DEF NewGeometry, WorkerGoes, temporary, stored
  <1>2. worker'.pc = "unlock" /\ worker'.op = "format"
    BY <1>0, <1>1 DEF WorkerRecords
  <1>3. Request' = Request /\ Answer' = Answer
    BY <1>0, <1>2, RequestIs DEF Serving
  <1> QED
    BY <1>1, <1>3 DEF Disk!vars

LEMMA UnlockForgets ==
  ASSUME Unlock
  PROVE  Disk!Next
  <1>1. worker.pc = "unlock" /\ worker'.pc = "idle" /\ buffer' = buffer
    BY DEF Unlock, WorkerIdle, temporary, stored
  <1>2. Request' = Request /\ Answer' = "none"
    BY <1>1, RequestIs DEF Serving
  <1> QED
    BY <1>1, <1>2 DEF Disk!Next, Disk!Forget

LEMMA GuiReloads ==
  ASSUME TypeInv, AloneInv, GuiNext, TypeInv'
  PROVE  [Disk!Next]_Disk!vars
  <1>1. worker' = worker
    BY DEF GuiNext, GuiProceeds, Save, ToggleAutoCommit, DeviceStatusChanged, Revert, OpenOutput,
           RewindBuffer, CopyBuffer, ClearModified, SaveFailed, OpenExplorer, CloseExplorer,
           ExplorerWrite
  <1>2. Request' = Request /\ Answer' = Answer
    BY <1>1 DEF Request, Answer
  <1>3. buffer' = buffer \/ worker.pc = "idle"
    <2>1. Revert => worker.pc = "idle"
      BY DEF Revert, TypeInv, LocksOK
    <2>2. \A s \in Sectors, v \in Values : ExplorerWrite(s, v) => worker.pc = "idle"
      BY OneThread DEF ExplorerWrite
    <2> QED
      BY <2>1, <2>2
         DEF GuiNext, GuiProceeds, Save, ToggleAutoCommit, DeviceStatusChanged, OpenOutput,
             RewindBuffer, CopyBuffer, ClearModified, SaveFailed, OpenExplorer, CloseExplorer,
             temporary, stored
  <1>4. CASE buffer' = buffer
    BY <1>2, <1>4 DEF Disk!vars
  <1>5. CASE worker.pc = "idle"
    <2>1. Request = NoRequest
      BY <1>5, RequestIs DEF Serving
    <2>2. buffer' \in Images
      BY DEF TypeInv, DataOK
    <2>3. buffer' \in Seq(Values)
      BY <2>2, ImageLength
    <2> QED
      BY <1>2, <2>1, <2>3 DEF Disk!Next, Disk!Reload
  <1> QED
    BY <1>3, <1>4, <1>5

(* Without auto-commit every sector command and every format acts on the    *)
(* disk at one instant and on its own sector: the saves, which move the     *)
(* same file position, never come between the seek and the transfer.        *)
THEOREM ImplementsDisk == ~AutoCommit => (Spec => DiskSpec)
  <1> SUFFICES ASSUME ~AutoCommit
               PROVE  Spec => DiskSpec
    OBVIOUS
  <1>1. Init => Disk!Init
    <2> SUFFICES ASSUME Init
                 PROVE  Disk!Init
      OBVIOUS
    <2>1. buffer \in Images /\ worker.pc = "idle"
      BY InitTypeInv DEF TypeInv, DataOK, Init, WorkerIdle
    <2>2. buffer \in Seq(Values)
      BY <2>1, ImageLength
    <2>3. Request = NoRequest /\ Answer = "none"
      BY <2>1, RequestIs DEF Serving
    <2> QED
      BY <2>2, <2>3 DEF Disk!Init
  <1>2. TypeInv /\ AloneInv /\ TypeInv' /\ [Next]_vars => [Disk!Next]_Disk!vars
    <2> SUFFICES ASSUME TypeInv, AloneInv, TypeInv', [Next]_vars
                 PROVE  [Disk!Next]_Disk!vars
      OBVIOUS
    <2>1. UNCHANGED vars => UNCHANGED Disk!vars
      BY DEF vars, temporary, stored, Disk!vars, Request, Answer
    <2>2. WorkerNext => [Disk!Next]_Disk!vars
      BY WorkerSteps, CommandAsks, SeekIsInternal, FlagIsInternal, WriteIsAtomic, ReadIsAtomic,
         ResizeFormats, GeometryIsInternal, UnlockForgets DEF Disk!Next
    <2> QED
      BY <2>1, <2>2, GuiReloads DEF Next
  <1>3. Spec => [](TypeInv /\ AloneInv)
    BY AloneInvariant
  <1> QED
    BY <1>1, <1>2, <1>3, PTL DEF Spec, DiskSpec, Disk!Spec

=============================================================================
