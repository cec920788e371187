---------------------------- MODULE SioBusProofs ----------------------------
(***************************************************************************)
(* Invariance proofs for SioBus that hold with and without a remote        *)
(* client: every variable keeps its type, the table agrees with the        *)
(* devices' numbers, and the two threads implement the bay of drives.      *)
(***************************************************************************)
EXTENDS SioBus, TLAPS

(***************************************************************************)
(* The device table: its operations keep it well formed and keep the two   *)
(* directions of the device/number association in agreement, for any       *)
(* numbers and any devices.                                                *)
(***************************************************************************)
(* An empty table agrees with itself.                                       *)
LEMMA EmptyTableAgrees == EmptyTable \in Tables /\ Agrees(EmptyTable)
  BY DEF EmptyTable, Tables, Agrees

(* What uninstallDevice changes, for one table: the two cells of one pair.  *)
LEMMA UninstallEffect ==
  ASSUME NEW t \in Tables, Agrees(t), NEW s \in Slots
  PROVE  /\ Uninstall(t, s) \in Tables
         /\ Agrees(Uninstall(t, s))
         /\ Uninstall(t, s).alive = t.alive
         /\ Uninstall(t, s).dev = [t.dev EXCEPT ![s] = None]
         /\ \A d \in Devices :
              Uninstall(t, s).num[d] = IF t.dev[s] = d THEN None ELSE t.num[d]
  <1>1. CASE t.dev[s] = None
    BY <1>1, TableAssumption DEF Uninstall, Tables
  <1>2. CASE t.dev[s] # None
    <2> DEFINE u == Uninstall(t, s)
    <2>1. t.dev[s] \in Devices
      BY <1>2 DEF Tables
    <2>2. u = [dev   |-> [t.dev EXCEPT ![s] = None],
               num   |-> [t.num EXCEPT ![t.dev[s]] = None],
               alive |-> t.alive]
      BY <1>2 DEF Uninstall
    <2>3. /\ u.dev = [t.dev EXCEPT ![s] = None]
          /\ u.num = [t.num EXCEPT ![t.dev[s]] = None]
          /\ u.alive = t.alive
      BY <2>2 DEF Tables
    <2>4. u \in Tables
      BY <2>1, <2>2 DEF Tables
    <2>5. \A d \in Devices : u.num[d] = IF t.dev[s] = d THEN None ELSE t.num[d]
      BY <2>1, <2>3 DEF Tables
    <2>6. Agrees(u)
      BY <2>1, <2>3, <2>5, TableAssumption DEF Agrees, Tables
    <2> HIDE DEF u
    <2> QED
      BY <2>3, <2>4, <2>5, <2>6 DEF u
  <1> QED
    BY <1>1, <1>2

(* ~SioDevice leaves the object under no number.                            *)
LEMMA UnregisterEffect ==
  ASSUME NEW t \in Tables, Agrees(t), NEW d \in Devices
  PROVE  /\ Unregister(t, d) \in Tables
         /\ Agrees(Unregister(t, d))
         /\ Unregister(t, d).alive = t.alive
         /\ Unregister(t, d).num = [t.num EXCEPT ![d] = None]
         /\ \A s \in Slots :
              Unregister(t, d).dev[s] = IF t.dev[s] = d THEN None ELSE t.dev[s]
  <1>1. CASE t.num[d] = None
    BY <1>1, TableAssumption DEF Unregister, Tables, Agrees
  <1>2. CASE t.num[d] # None
    <2>1. t.num[d] \in Slots /\ t.dev[t.num[d]] = d
      BY <1>2 DEF Tables, Agrees
    <2>2. Unregister(t, d) = Uninstall(t, t.num[d])
      BY <1>2 DEF Unregister
    <2>3. \A e \in Devices :
            Uninstall(t, t.num[d]).num[e] = IF t.dev[t.num[d]] = e THEN None ELSE t.num[e]
      BY <2>1, UninstallEffect
    <2>4. /\ Unregister(t, d) \in Tables
          /\ Agrees(Unregister(t, d))
          /\ Unregister(t, d).alive = t.alive
          /\ Unregister(t, d).dev = [t.dev EXCEPT ![t.num[d]] = None]
      BY <2>1, <2>2, UninstallEffect
    <2>5. Unregister(t, d).num = [t.num EXCEPT ![d] = None]
      BY <2>1, <2>2, <2>3, <2>4 DEF Tables
    <2>6. \A s \in Slots : t.dev[s] = d => s = t.num[d]
      BY TableAssumption DEF Agrees, Tables
    <2>7. \A s \in Slots :
            Unregister(t, d).dev[s] = IF t.dev[s] = d THEN None ELSE t.dev[s]
      BY <2>1, <2>4, <2>6 DEF Tables
    <2> QED
      BY <2>4, <2>5, <2>7
  <1> QED
    BY <1>1, <1>2

(* Deleting an object takes it out of the table and changes nothing else.   *)
LEMMA DeleteEffect ==
  ASSUME NEW t \in Tables, Agrees(t), NEW d \in Devices
  PROVE  /\ Delete(t, d) \in Tables
         /\ Agrees(Delete(t, d))
         /\ Delete(t, d).alive = t.alive \ {d}
         /\ Delete(t, d).num = [t.num EXCEPT ![d] = None]
         /\ \A s \in Slots :
              Delete(t, d).dev[s] = IF t.dev[s] = d THEN None ELSE t.dev[s]
  <1> DEFINE u == WithAlive(t, t.alive \ {d})
  <1>1. u \in Tables /\ u.dev = t.dev /\ u.num = t.num /\ u.alive = t.alive \ {d}
    BY DEF Tables, WithAlive
  <1>2. Agrees(u)
    BY <1>1 DEF Agrees
  <1>3. Delete(t, d) = Unregister(u, d)
    BY DEF Delete
  <1> HIDE DEF u
  <1> QED
    BY <1>1, <1>2, <1>3, UnregisterEffect

(* Installing a device that is in no slot replaces the slot's occupant,     *)
(* which is deleted.                                                        *)
LEMMA InstallEffect ==
  ASSUME NEW t \in Tables, Agrees(t), NEW s \in Slots, NEW d \in Devices,
         t.num[d] = None
  PROVE  /\ Install(t, s, d) \in Tables
         /\ Agrees(Install(t, s, d))
         /\ Install(t, s, d).alive = t.alive \ {t.dev[s]}
         /\ Install(t, s, d).dev = [t.dev EXCEPT ![s] = d]
         /\ \A e \in Devices :
              Install(t, s, d).num[e] =
                IF e = d THEN s ELSE IF e = t.dev[s] THEN None ELSE t.num[e]
  <1> DEFINE u == IF t.dev[s] = None THEN t ELSE Delete(t, t.dev[s])
             v == Install(t, s, d)
  <1>1. /\ u \in Tables
        /\ Agrees(u)
        /\ u.alive = t.alive \ {t.dev[s]}
        /\ u.dev[s] = None
        /\ \A r \in Slots \ {s} : u.dev[r] = t.dev[r]
        /\ \A e \in Devices : u.num[e] = IF e = t.dev[s] THEN None ELSE t.num[e]
    <2>1. CASE t.dev[s] = None
      BY <2>1, TableAssumption DEF Tables
    <2>2. CASE t.dev[s] # None
      <3>1. t.dev[s] \in Devices
        BY <2>2 DEF Tables
      <3>2. \A r \in Slots \ {s} : t.dev[r] # t.dev[s]
        BY <2>2 DEF Agrees
      <3>3. u = Delete(t, t.dev[s])
        BY <2>2
      <3>4. /\ Delete(t, t.dev[s]) \in Tables
            /\ Agrees(Delete(t, t.dev[s]))
            /\ Delete(t, t.dev[s]).alive = t.alive \ {t.dev[s]}
            /\ Delete(t, t.dev[s]).num = [t.num EXCEPT ![t.dev[s]] = None]
            /\ \A r \in Slots :
                 Delete(t, t.dev[s]).dev[r] = IF t.dev[r] = t.dev[s] THEN None ELSE t.dev[r]
        BY <3>1, DeleteEffect
      <3>5. \A e \in Devices : Delete(t, t.dev[s]).num[e] = IF e = t.dev[s] THEN None ELSE t.num[e]
        BY <3>1, <3>4 DEF Tables
      <3> QED
        BY <3>2, <3>3, <3>4, <3>5
    <2> QED
      BY <2>1, <2>2
  <1>2. v = [dev |-> [u.dev EXCEPT ![s] = d], num |-> [u.num EXCEPT ![d] = s],
             alive |-> u.alive]
    BY DEF Install
  <1>3. /\ v.dev = [u.dev EXCEPT ![s] = d]
        /\ v.num = [u.num EXCEPT ![d] = s]
        /\ v.alive = u.alive
        /\ v \in Tables
    <2> HIDE DEF u
    <2> QED
      BY <1>1, <1>2 DEF Tables
  <1> HIDE DEF u, v
  <1>4. v.dev = [t.dev EXCEPT ![s] = d]
    BY <1>1, <1>3 DEF Tables
  <1>5. \A e \in Devices :
          v.num[e] = IF e = d THEN s ELSE IF e = t.dev[s] THEN None ELSE t.num[e]
    BY <1>1, <1>3 DEF Tables
  <1>6. \A r \in Slots : u.dev[r] # d
    <2>1. u.num[d] = None
      BY <1>1
    <2>2. ASSUME NEW r \in Slots, u.dev[r] = d
          PROVE  FALSE
      <3>1. u.num[u.dev[r]] = r
        BY <1>1, <2>2, TableAssumption DEF Agrees
      <3> QED
        BY <2>1, <2>2, <3>1, TableAssumption
    <2> QED
      BY <2>2
  <1>7. Agrees(v)
    BY <1>1, <1>3, <1>6, TableAssumption DEF Agrees, Tables
  <1> QED
    BY <1>1, <1>3, <1>4, <1>5, <1>7 DEF v

(* Swapping two different slots exchanges their contents and deletes        *)
(* nothing.                                                                 *)
LEMMA SwapEffect ==
  ASSUME NEW t \in Tables, Agrees(t), NEW a \in Slots, NEW b \in Slots, a # b
  PROVE  /\ Swap(t, a, b) \in Tables
         /\ Agrees(Swap(t, a, b))
         /\ Swap(t, a, b).alive = t.alive
         /\ Swap(t, a, b).dev = [t.dev EXCEPT ![a] = t.dev[b], ![b] = t.dev[a]]
         /\ \A d \in Devices : Swap(t, a, b).num[d] = None <=> t.num[d] = None
  <1> DEFINE w == Uninstall(t, a)
             u == Uninstall(w, b)
             v == IF t.dev[b] = None THEN u ELSE Install(u, a, t.dev[b])
             x == Swap(t, a, b)
  <1>1. /\ u \in Tables /\ Agrees(u) /\ u.alive = t.alive
        /\ u.dev = [t.dev EXCEPT ![a] = None, ![b] = None]
        /\ \A d \in Devices :
             u.num[d] = IF d = t.dev[a] \/ d = t.dev[b] THEN None ELSE t.num[d]
    <2>1. /\ w \in Tables /\ Agrees(w) /\ w.alive = t.alive
          /\ w.dev = [t.dev EXCEPT ![a] = None]
          /\ \A d \in Devices : w.num[d] = IF t.dev[a] = d THEN None ELSE t.num[d]
      BY UninstallEffect
    <2> HIDE DEF w
    <2>2. w.dev[b] = t.dev[b]
      BY <2>1 DEF Tables
    <2>3. /\ u \in Tables /\ Agrees(u) /\ u.alive = w.alive
          /\ u.dev = [w.dev EXCEPT ![b] = None]
          /\ \A d \in Devices : u.num[d] = IF w.dev[b] = d THEN None ELSE w.num[d]
      BY <2>1, UninstallEffect
    <2> QED
      BY <2>1, <2>2, <2>3
  <1> HIDE DEF w, u
  <1>2. t.dev[a] # None => t.dev[a] \in Devices /\ t.dev[a] # t.dev[b]
    BY DEF Tables, Agrees
  <1>3. t.dev[b] # None => t.dev[b] \in Devices
    BY DEF Tables
  <1>4. u.dev[a] = None /\ u.dev[b] = None
    BY <1>1 DEF Tables
  <1>5. /\ v \in Tables /\ Agrees(v) /\ v.alive = t.alive
        /\ v.dev = [u.dev EXCEPT ![a] = t.dev[b]]
        /\ \A d \in Devices : v.num[d] = IF d = t.dev[b] THEN a ELSE u.num[d]
    <2>1. CASE t.dev[b] = None
      BY <2>1, <1>1, <1>4, TableAssumption DEF Tables
    <2>2. CASE t.dev[b] # None
      <3>1. u.num[t.dev[b]] = None
        BY <1>1, <1>3, <2>2
      <3>2. /\ Install(u, a, t.dev[b]) \in Tables
            /\ Agrees(Install(u, a, t.dev[b]))
            /\ Install(u, a, t.dev[b]).alive = u.alive \ {u.dev[a]}
            /\ Install(u, a, t.dev[b]).dev = [u.dev EXCEPT ![a] = t.dev[b]]
            /\ \A e \in Devices :
                 Install(u, a, t.dev[b]).num[e] =
                   IF e = t.dev[b] THEN a ELSE IF e = u.dev[a] THEN None ELSE u.num[e]
        <4>1. u \in Tables /\ Agrees(u)
          BY <1>1
        <4>2. t.dev[b] \in Devices
          BY <1>3, <2>2
        <4> QED
          BY <3>1, <4>1, <4>2, InstallEffect
      <3>3. u.alive \ {None} = u.alive
        BY <1>1, TableAssumption DEF Tables
      <3> QED
        BY <1>1, <1>4, <2>2, <3>2, <3>3, TableAssumption
    <2> QED
      BY <2>1, <2>2
  <1>6. x = IF t.dev[a] = None THEN v ELSE Install(v, b, t.dev[a])
    BY DEF Swap, u, w
  <1> HIDE DEF v, x
  <1>7. v.dev[b] = None
    BY <1>1, <1>4, <1>5 DEF Tables
  <1>8. CASE t.dev[a] = None
    <2>1. x = v
      BY <1>6, <1>8
    <2>2. v.dev = [t.dev EXCEPT ![a] = t.dev[b], ![b] = t.dev[a]]
      BY <1>1, <1>5, <1>8 DEF Tables
    <2>3. \A d \in Devices : v.num[d] = None <=> t.num[d] = None
      BY <1>1, <1>3, <1>5, <1>8, TableAssumption DEF Agrees, Tables
    <2> QED
      BY <1>5, <2>1, <2>2, <2>3 DEF x
  <1>9. CASE t.dev[a] # None
    <2>1. v.num[t.dev[a]] = None
      BY <1>1, <1>2, <1>5, <1>9
    <2>2. /\ x \in Tables
          /\ Agrees(x)
          /\ x.alive = v.alive \ {v.dev[b]}
          /\ x.dev = [v.dev EXCEPT ![b] = t.dev[a]]
          /\ \A e \in Devices :
               x.num[e] = IF e = t.dev[a] THEN b ELSE IF e = v.dev[b] THEN None ELSE v.num[e]
      <3>1. v \in Tables /\ Agrees(v)
        BY <1>5
      <3>2. t.dev[a] \in Devices
        BY <1>2, <1>9
      <3>3. x = Install(v, b, t.dev[a])
        BY <1>6, <1>9
      <3> QED
        BY <2>1, <3>1, <3>2, <3>3, InstallEffect
    <2>3. x.alive = t.alive
      BY <1>5, <1>7, <2>2, TableAssumption DEF Tables
    <2>4. x.dev = [t.dev EXCEPT ![a] = t.dev[b], ![b] = t.dev[a]]
      BY <1>1, <1>5, <2>2 DEF Tables
    <2>5. \A d \in Devices : x.num[d] = None <=> t.num[d] = None
      <3> SUFFICES ASSUME NEW d \in Devices
                   PROVE  x.num[d] = None <=> t.num[d] = None
        OBVIOUS
      <3>1. t.num[d] = None => d # t.dev[a] /\ d # t.dev[b]
        BY TableAssumption DEF Agrees
      <3>2. d # v.dev[b]
        BY <1>7, TableAssumption
      <3> QED
        BY <1>1, <1>5, <2>2, <3>1, <3>2, TableAssumption
    <2> QED
      BY <2>2, <2>3, <2>4, <2>5 DEF x
  <1> QED
    BY <1>8, <1>9

(***************************************************************************)
(* The bus: which of these agreements a step of either thread relies on.   *)
(***************************************************************************)

(* A deleted image has no number, but while the GUI thread is still inside  *)
(* its destructor.                                                          *)
DeadHasNoNumber ==
  \A d \in Devices \ table.alive :
    table.num[d] = None \/ (gui.pc = "dtor" /\ gui.dev = d)

(* The disk that mountFile has opened is in no slot yet.                    *)
NewIsOutside == gui.new # None => table.num[gui.new] = None

(* The table does not change under a running handler.                       *)
ServedIsInside ==
  worker.pc \in {"try", "handle", "unlock"} => table.num[worker.dev] # None

(* An eject knows its slot, and a mount its new disk, to the end; a save     *)
(* knows its slot, only a revert does not.                                  *)
OperandsKnown ==
  /\ gui.op \in {"eject", "mount"} => gui.slot # None
  /\ gui.pc \in {"ask", "lock", "saving"} /\ gui.slot = None => gui.op = "revert"
  /\ gui.op = "mount" => gui.new # None
  /\ gui.auto # None => gui.pc \in EventLoops

TableInv ==
  TypeOK /\ TableAgrees /\ DeadHasNoNumber /\ NewIsOutside /\ ServedIsInside /\ OperandsKnown

LEMMA InitTableInv == Init => TableInv
  BY EmptyTableAgrees, TableAssumption
     DEF Init, TableInv, TypeOK, TableAgrees, DeadHasNoNumber, NewIsOutside,
         ServedIsInside, OperandsKnown, EmptyTable, WorkerIdle, GuiIdle, WorkerPcs, GuiPcs, Pointers,
         AllGuiOps, GuiStates

(* The operations of the table, at the table of the state.                  *)
LEMMA TableSwap ==
  ASSUME TypeOK, TableAgrees, NEW a \in Slots, NEW b \in Slots, a # b
  PROVE  /\ Swap(table, a, b) \in Tables
         /\ Agrees(Swap(table, a, b))
         /\ Swap(table, a, b).alive = table.alive
         /\ Swap(table, a, b).dev = [table.dev EXCEPT ![a] = table.dev[b], ![b] = table.dev[a]]
         /\ \A d \in Devices : Swap(table, a, b).num[d] = None <=> table.num[d] = None
  <1>1. table \in Tables /\ Agrees(table)
    BY DEF TypeOK, TableAgrees
  <1> QED
    BY <1>1, SwapEffect

LEMMA TableInstall ==
  ASSUME TypeOK, TableAgrees, NEW s \in Slots, NEW d \in Devices, table.num[d] = None
  PROVE  /\ Install(table, s, d) \in Tables
         /\ Agrees(Install(table, s, d))
         /\ Install(table, s, d).alive = table.alive \ {table.dev[s]}
         /\ Install(table, s, d).dev = [table.dev EXCEPT ![s] = d]
         /\ \A e \in Devices : Install(table, s, d).num[e] =
              IF e = d THEN s ELSE IF e = table.dev[s] THEN None ELSE table.num[e]
  <1>1. table \in Tables /\ Agrees(table)
    BY DEF TypeOK, TableAgrees
  <1> QED
    BY <1>1, InstallEffect

LEMMA InstallNewTable ==
  ASSUME TableInv, InstallNew
  PROVE  /\ Install(table, gui.slot, gui.new) \in Tables
         /\ Agrees(Install(table, gui.slot, gui.new))
         /\ Install(table, gui.slot, gui.new).alive = table.alive \ {table.dev[gui.slot]}
         /\ Install(table, gui.slot, gui.new).dev = [table.dev EXCEPT ![gui.slot] = gui.new]
         /\ \A d \in Devices : Install(table, gui.slot, gui.new).num[d] =
              IF d = gui.new THEN gui.slot
              ELSE IF d = table.dev[gui.slot] THEN None ELSE table.num[d]
  <1>1. gui.slot \in Slots /\ gui.new \in Devices /\ table.num[gui.new] = None
    BY DEF TableInv, InstallNew, TypeOK, NewIsOutside, Pointers, GuiStates
  <1>2. TypeOK /\ TableAgrees
    BY DEF TableInv
  <1> QED
    BY <1>1, <1>2, TableInstall

(* The worker's steps.                                                      *)
LEMMA WorkerTableInv == TableInv /\ WorkerNext => TableInv'
  <1> SUFFICES ASSUME TableInv, WorkerNext
               PROVE  TableInv'
    OBVIOUS
  <1> USE DEF TableInv, TypeOK, TableAgrees, DeadHasNoNumber, NewIsOutside,
              ServedIsInside, OperandsKnown, WorkerIdle, WorkerPcs, Pointers
  <1>0. table \in Tables /\ Agrees(table)
    OBVIOUS
  <1>0a. gui.new # None => gui.new \in Devices
    BY DEF GuiStates
  <1>1. ASSUME NEW s \in Slots, Dispatch(s)
        PROVE  TableInv'
    <2>1. /\ table.dev[s] \in Devices /\ table.num[table.dev[s]] = s /\ s # None
          /\ UNCHANGED <<table, lock, modified, explorer, gui>>
          /\ worker' = [worker EXCEPT !.pc = "try", !.dev = table.dev[s]] /\ worker.pc = "idle"
      BY <1>0, <1>1, TableAssumption DEF Dispatch, Agrees, Tables
    <2> QED
      BY <2>1, TableAssumption
  <1>2. ASSUME NEW s \in Slots, UnmountNext(s)
        PROVE  TableInv'
    <2> DEFINE d == table.dev[s]
               u == Uninstall(table, s)
    <2>1. /\ worker' \in [pc : WorkerPcs, dev : Pointers, todo : SUBSET Slots]
          /\ worker'.dev = None
          /\ worker'.pc \in {"idle", "unmount"}
          /\ worker'.todo # {} <=> worker'.pc = "unmount"
      BY <1>2 DEF UnmountNext
    <2>2. CASE d = None
      BY <1>2, <2>1, <2>2 DEF UnmountNext
    <2>3. CASE d # None
      <3>1. d \in Devices
        BY <2>3 DEF Tables
      <3>2. /\ u \in Tables /\ Agrees(u) /\ u.alive = table.alive
            /\ \A e \in Devices : u.num[e] = IF d = e THEN None ELSE table.num[e]
        BY <1>0, UninstallEffect
      <3> HIDE DEF u
      <3>3. /\ Delete(u, d) \in Tables
            /\ Agrees(Delete(u, d))
            /\ Delete(u, d).alive = u.alive \ {d}
            /\ Delete(u, d).num = [u.num EXCEPT ![d] = None]
        BY <3>1, <3>2, DeleteEffect
      <3>4. table' = Delete(u, d)
        BY <1>2, <2>3 DEF UnmountNext, u
      <3>5. \A e \in Devices : table'.num[e] = IF d = e THEN None ELSE table.num[e]
        BY <3>1, <3>2, <3>3, <3>4 DEF Tables
      <3>6. /\ explorer' = explorer \ {d}
            /\ lock' = [e \in Devices |-> IF e \in {d} THEN "free" ELSE lock[e]]
            /\ modified' = [e \in Devices |-> e \notin {d} /\ modified[e]]
            /\ gui' = gui
        BY <1>2, <2>3 DEF UnmountNext, CloseImages
      <3> HIDE DEF d
      <3>7. TypeOK'
        BY <2>1, <3>3, <3>4, <3>6
      <3>8. DeadHasNoNumber'
        BY <3>2, <3>3, <3>4, <3>5, <3>6
      <3>9. NewIsOutside'
        BY <1>0a, <3>5, <3>6
      <3>10. ServedIsInside' /\ OperandsKnown'
        BY <2>1, <3>6
      <3> QED
        BY <3>3, <3>4, <3>7, <3>8, <3>9, <3>10
    <2> QED
      BY <2>2, <2>3
  <1>3. ASSUME NEW ss \in SUBSET Slots, ss # {}, ClientUnmount(ss)
        PROVE  TableInv'
    BY <1>3 DEF ClientUnmount
  <1>4. ASSUME NEW a \in Slots, NEW b \in Slots, ClientSwap(a, b)
        PROVE  TableInv'
    <2>1. a # b /\ table' = Swap(table, a, b) /\ worker.pc = "idle"
      BY <1>4 DEF ClientSwap
    <2>2. /\ Swap(table, a, b) \in Tables
          /\ Agrees(Swap(table, a, b))
          /\ Swap(table, a, b).alive = table.alive
          /\ \A d \in Devices : Swap(table, a, b).num[d] = None <=> table.num[d] = None
      BY <2>1, TableSwap
    <2> QED
      BY <1>0a, <1>4, <2>1, <2>2 DEF ClientSwap
  <1>5. CASE TryLock
    BY <1>5 DEF TryLock
  <1>6. CASE Handle
    BY <1>6 DEF Handle
  <1>7. CASE WorkerUnlock
    BY <1>7 DEF WorkerUnlock
  <1> QED
    BY <1>1, <1>2, <1>3, <1>4, <1>5, <1>6, <1>7, TableAssumption DEF WorkerNext

(* What the GUI thread knows of its operation.                              *)
GuiKnows ==
  /\ gui \in GuiStates
  /\ gui.slot = None => gui.pc \in {"idle", "ask", "lock", "saving", "unlock", "openLock",
                                   "crash", "astray"}
  /\ gui.pc \in {"check", "confirm", "prompt", "delete", "dtor"} => gui.dev # None
  /\ gui.pc = "install" => gui.new # None
  /\ OperandsKnown

(* A step of the GUI thread that leaves the table alone has to keep that.   *)
LEMMA GuiMoves ==
  ASSUME TableInv, GuiKnows', gui'.new \in {gui.new, None}, gui.pc # "dtor",
         UNCHANGED <<table, worker>>, explorer' \in SUBSET Devices,
         lock' \in [Devices -> {"free", "worker", "gui"}], modified' \in [Devices -> BOOLEAN]
  PROVE  TableInv'
  BY DEF GuiKnows, TableInv, TypeOK, TableAgrees, DeadHasNoNumber, NewIsOutside, ServedIsInside

LEMMA GuiMovesTableInv ==
  ASSUME TableInv, gui.auto = None,
         \/ \E s \in Slots : Eject(s) \/ Save(s) \/ Revert(s) \/ OpenEditor(s) \/ StatusChanged(s)
         \/ AnswerRevert \/ ChooseFile \/ AnswerFailed
         \/ \E d \in Devices : CloseEditor(d) \/ EditImage(d)
         \/ Check \/ Confirm \/ SaveGet \/ SaveAsGet \/ LockImage \/ SaveImage
         \/ UnlockImage \/ OpenLock \/ GuiFault
  PROVE  TableInv'
  <1> DEFINE Kept == GuiKnows' /\ gui'.new \in {gui.new, None}
  <1>0. /\ GuiKnows /\ gui.pc \in GuiPcs /\ explorer \in SUBSET Devices
        /\ lock \in [Devices -> {"free", "worker", "gui"}] /\ modified \in [Devices -> BOOLEAN]
        /\ \A s \in Slots : table.dev[s] \in Pointers
    BY DEF GuiKnows, GuiStates, TableInv, TypeOK, Tables, Pointers
  <1>1. UNCHANGED <<table, worker>> /\ gui.pc # "dtor"
    BY DEF Eject, Save, Revert, OpenEditor, StatusChanged, AnswerRevert, ChooseFile, AnswerFailed,
           CloseEditor, EditImage, Check, Confirm, SaveGet, SaveAsGet, LockImage, SaveImage,
           UnlockImage, OpenLock, GuiFault, EventLoops
  <1>2. /\ explorer' \in SUBSET Devices
        /\ lock' \in [Devices -> {"free", "worker", "gui"}] /\ modified' \in [Devices -> BOOLEAN]
    <2>1. CASE SaveImage
      BY <1>0, <2>1 DEF SaveImage
    <2>2. CASE OpenLock
      <3>1. gui.save \in Devices
        BY <2>2 DEF OpenLock, TableInv, TypeOK, Tables
      <3> QED
        BY <1>0, <2>2, <3>1 DEF OpenLock
    <2>3. CASE LockImage \/ UnlockImage \/ \E d \in Devices : CloseEditor(d) \/ EditImage(d)
      BY <1>0, <2>3 DEF LockImage, UnlockImage, CloseEditor, EditImage
    <2>4. CASE \/ \E s \in Slots : \/ Eject(s) \/ Save(s) \/ Revert(s) \/ OpenEditor(s)
                                   \/ StatusChanged(s)
               \/ AnswerRevert \/ ChooseFile \/ AnswerFailed \/ Check \/ Confirm \/ SaveGet
               \/ SaveAsGet \/ GuiFault
      BY <1>0, <2>4 DEF Eject, Save, Revert, OpenEditor, StatusChanged, AnswerRevert, ChooseFile,
                        AnswerFailed, Check, Confirm, SaveGet, SaveAsGet, GuiFault
    <2> QED
      BY <2>1, <2>2, <2>3, <2>4
  <1> SUFFICES Kept
    BY <1>1, <1>2, GuiMoves
  <1> USE DEF GuiKnows, OperandsKnown, GuiStates, GuiGoes
  <1>3. ASSUME GuiGoes(gui.pc) \/ gui' = GuiIdle
        PROVE  Kept
    BY <1>0, <1>3 DEF GuiIdle, GuiPcs, Pointers, AllGuiOps
  <1>4. ASSUME AfterSave
        PROVE  Kept
    <2>1. CASE gui' = GuiIdle
      BY <1>3, <2>1
    <2>2. CASE gui.op \in {"eject", "mount"}
      BY <1>0, <1>4, <2>2 DEF AfterSave, GuiPcs, Pointers
    <2> QED
      BY <1>4, <2>1, <2>2 DEF AfterSave
  <1>5. ASSUME NEW s \in Slots, Eject(s)
        PROVE  Kept
    <2>1. /\ gui' = [gui EXCEPT !.pc = "check", !.op = "eject", !.slot = s,
                               !.dev = table.dev[s], !.new = None]
          /\ table.dev[s] # None
      BY <1>5 DEF Eject, StartEject
    <2>2. /\ gui' \in GuiStates /\ gui'.pc = "check" /\ gui'.op = "eject" /\ gui'.slot = s
          /\ gui'.dev = table.dev[s] /\ gui'.new = None /\ gui'.auto = None
      <3>1. gui \in GuiStates /\ table.dev[s] \in Pointers /\ None \in Pointers /\ s \in Slots
        BY <1>0 DEF Pointers
      <3> QED
        BY <2>1, <3>1 DEF GuiPcs, AllGuiOps
    <2> HIDE DEF GuiStates
    <2> QED
      BY <2>1, <2>2, TableAssumption
  <1>6. ASSUME NEW s \in Slots, Save(s) \/ Revert(s) \/ OpenEditor(s)
        PROVE  Kept
    <2>1. CASE Save(s)
      <3>1. PICK pc \in SaveOrSaveAs :
               gui' = [gui EXCEPT !.pc = pc, !.op = "save", !.slot = s, !.save = table.dev[s]]
        BY <2>1 DEF Save
      <3>2. gui' \in GuiStates /\ gui'.pc = pc /\ gui'.op = "save" /\ gui'.slot = s
            /\ gui'.new = gui.new /\ gui'.auto = None
        BY <1>0, <3>1 DEF SaveOrSaveAs, GuiPcs, Pointers, AllGuiOps
      <3> HIDE DEF GuiStates
      <3> QED
        BY <3>2, TableAssumption DEF SaveOrSaveAs
    <2>2. CASE Revert(s)
      BY <1>0, <2>2, TableAssumption DEF Revert, GuiPcs, Pointers, AllGuiOps
    <2>3. CASE OpenEditor(s)
      BY <1>0, <2>3, TableAssumption DEF OpenEditor, GuiPcs, Pointers, AllGuiOps
    <2> QED
      BY <1>6, <2>1, <2>2, <2>3
  <1>7. ASSUME NEW s \in Slots, StatusChanged(s)
        PROVE  Kept
    BY <1>0, <1>7 DEF StatusChanged
  <1>8. CASE AnswerRevert \/ ChooseFile \/ AnswerFailed
    BY <1>0, <1>3, <1>4, <1>8 DEF AnswerRevert, ChooseFile, AnswerFailed, GuiPcs
  <1>9. CASE UnlockImage \/ OpenLock
    BY <1>0, <1>3, <1>4, <1>9 DEF UnlockImage, OpenLock, GuiPcs
  <1>10. CASE Check \/ Confirm
    BY <1>0, <1>10 DEF Check, Confirm, GuiPcs
  <1>11. CASE SaveGet \/ SaveAsGet
    <2>1. gui.slot \in Slots /\ table.dev[gui.slot] \in Pointers
      BY <1>0, <1>11 DEF SaveGet, SaveAsGet
    <2>2. CASE SaveGet
      BY <1>0, <2>1, <2>2 DEF SaveGet, SaveOrSaveAs, GuiPcs
    <2>3. CASE SaveAsGet
      BY <1>0, <2>1, <2>3 DEF SaveAsGet, GuiPcs
    <2> QED
      BY <1>11, <2>2, <2>3
  <1>12. CASE LockImage \/ SaveImage
    BY <1>0, <1>12 DEF LockImage, SaveImage, GuiPcs
  <1>13. CASE GuiFault
    BY <1>0, <1>13 DEF GuiFault, GuiPcs
  <1>14. ASSUME NEW d \in Devices, CloseEditor(d) \/ EditImage(d)
         PROVE  Kept
    BY <1>0, <1>14 DEF CloseEditor, EditImage
  <1> QED
    BY <1>5, <1>6, <1>7, <1>8, <1>9, <1>10, <1>11, <1>12, <1>13, <1>14

(* The GUI thread's steps, the automatic save apart.                        *)
LEMMA OperationTableInv ==
  ASSUME TableInv, gui.auto = None, OperationProceeds \/ UserActs
  PROVE  TableInv'
  <1>0b. ASSUME NEW a \in Slots, NEW b \in Slots, DropSwap(a, b)
         PROVE  /\ table' = Swap(table, a, b) /\ Swap(table, a, b) \in Tables
                /\ Agrees(Swap(table, a, b)) /\ Swap(table, a, b).alive = table.alive
                /\ \A d \in Devices : Swap(table, a, b).num[d] = None <=> table.num[d] = None
    BY <1>0b, TableSwap DEF DropSwap, TableInv
  <1> USE DEF TableInv, TypeOK, TableAgrees, DeadHasNoNumber, NewIsOutside,
              ServedIsInside, OperandsKnown, GuiIdle, GuiPcs, GuiStates, Pointers, AllGuiOps, GuiGoes,
              MutexFree
  <1>0. table \in Tables /\ Agrees(table)
    OBVIOUS
  <1>2. ASSUME NEW s \in Slots, NEW d \in Devices, Mount(s, d)
        PROVE  TableInv'
    <2>1. table' = WithAlive(table, table.alive \cup {d}) /\ gui.pc = "idle" /\ d \notin table.alive
      BY <1>2 DEF Mount, Construct
    <2>2. /\ table' \in Tables /\ table'.dev = table.dev /\ table'.num = table.num
          /\ table'.alive = table.alive \cup {d}
      BY <1>0, <2>1 DEF Tables, WithAlive
    <2>3. Agrees(table')
      BY <1>0, <2>2 DEF Agrees
    <2>4. modified' \in [Devices -> BOOLEAN]
      BY <1>2 DEF Mount
    <2>5. table.dev[s] \in Devices \cup {None}
      BY <1>0 DEF Tables
    <2>6. table.num[d] = None
      BY <2>1
    <2>7. gui' = [gui EXCEPT !.pc = IF table.dev[s] = None THEN "uninstall" ELSE "check",
                             !.op = "mount", !.slot = s, !.dev = table.dev[s], !.new = d]
      BY <1>2 DEF Mount, StartEject
    <2>8. /\ gui' \in GuiStates /\ gui'.op = "mount" /\ gui'.slot = s
          /\ gui'.pc = IF table.dev[s] = None THEN "uninstall" ELSE "check"
          /\ gui'.dev = table.dev[s] /\ gui'.new = d /\ gui'.auto = None
      <3> DEFINE pc == IF table.dev[s] = None THEN "uninstall" ELSE "check"
      <3>1. pc \in GuiPcs /\ gui \in GuiStates
        OBVIOUS
      <3>2. gui' = [gui EXCEPT !.pc = pc, !.op = "mount", !.slot = s, !.dev = table.dev[s], !.new = d]
        BY <2>7
      <3>3. table.dev[s] \in Pointers /\ d \in Pointers /\ None \in Pointers
        BY <2>5
      <3> HIDE DEF pc, Pointers, GuiPcs, TableInv
      <3>4. gui' \in GuiStates /\ gui'.pc = pc /\ gui'.op = "mount" /\ gui'.slot = s
            /\ gui'.dev = table.dev[s] /\ gui'.new = d /\ gui'.auto = None
        BY <3>1, <3>2, <3>3
      <3> QED
        BY <3>4 DEF pc
    <2> HIDE DEF GuiStates
    <2>9. UNCHANGED <<lock, explorer, worker>> /\ gui.pc # "dtor"
      BY <1>2 DEF Mount
    <2>10. TypeOK'
      <3>1. gui'.pc \in {"uninstall", "check"} /\ (gui'.pc = "check" => gui'.dev # None)
        BY <2>8
      <3>2. gui'.slot # None /\ gui' \in GuiStates
        BY <2>8, TableAssumption
      <3> HIDE DEF Pointers, GuiPcs, AllGuiOps
      <3> QED
        BY <2>2, <2>4, <2>9, <3>1, <3>2
    <2>11. DeadHasNoNumber' /\ NewIsOutside'
      BY <2>1, <2>2, <2>6, <2>8, <2>9
    <2>12. TableAgrees' /\ ServedIsInside' /\ OperandsKnown'
      BY <2>2, <2>3, <2>8, <2>9, TableAssumption
    <2> QED
      BY <2>10, <2>11, <2>12
  <1>4. ASSUME NEW a \in AllAnswers, Answer(a)
        PROVE  TableInv'
    <2>1. CASE gui' # GuiIdle
      BY <1>4, <2>1 DEF Answer
    <2>2. CASE gui' = GuiIdle
      <3>1. CASE gui.new = None
        BY <1>4, <2>2, <3>1 DEF Answer
      <3>2. CASE gui.new # None
        <4>1. gui.new \in Devices /\ gui.pc = "prompt"
          BY <1>4, <3>2 DEF Answer
        <4>2. table' = Delete(table, gui.new)
          BY <1>4, <2>2, <3>2 DEF Answer
        <4>3. /\ Delete(table, gui.new) \in Tables
              /\ Agrees(Delete(table, gui.new))
              /\ Delete(table, gui.new).alive = table.alive \ {gui.new}
              /\ Delete(table, gui.new).num = [table.num EXCEPT ![gui.new] = None]
          BY <1>0, <4>1, DeleteEffect
        <4>4. \A d \in Devices : table'.num[d] = table.num[d]
          BY <1>0, <3>2, <4>1, <4>2, <4>3 DEF Tables
        <4> QED
          BY <1>4, <2>2, <4>1, <4>2, <4>3, <4>4 DEF Answer
      <3> QED
        BY <3>1, <3>2
    <2> QED
      BY <2>1, <2>2
  <1>5. CASE UninstallSlot
    <2>1. gui.slot \in Slots /\ table' = Uninstall(table, gui.slot) /\ worker.pc = "idle"
          /\ gui.pc = "uninstall"
      BY <1>5 DEF UninstallSlot
    <2>2. /\ Uninstall(table, gui.slot) \in Tables
          /\ Agrees(Uninstall(table, gui.slot))
          /\ Uninstall(table, gui.slot).alive = table.alive
          /\ \A d \in Devices : Uninstall(table, gui.slot).num[d] =
               IF table.dev[gui.slot] = d THEN None ELSE table.num[d]
      BY <1>0, <2>1, UninstallEffect
    <2>3. gui'.pc \in {"install", "idle", "delete"}
      BY <1>5 DEF UninstallSlot, AfterEject
    <2>4. UNCHANGED <<lock, modified, explorer, worker>>
      BY <1>5 DEF UninstallSlot
    <2>5. \/ gui' = GuiIdle
          \/ gui.op = "mount" /\ gui' = [gui EXCEPT !.pc = "install"]
          \/ gui.dev # None /\ gui' = [gui EXCEPT !.pc = "delete"]
      BY <1>5 DEF UninstallSlot, AfterEject
    <2>6. TypeOK'
      BY <2>1, <2>2, <2>4, <2>5
    <2>7. DeadHasNoNumber'
      BY <2>1, <2>2
    <2>8. NewIsOutside'
      BY <2>1, <2>2, <2>5
    <2>9. TableAgrees' /\ ServedIsInside' /\ OperandsKnown'
      BY <2>1, <2>2, <2>4, <2>5
    <2> QED
      BY <2>6, <2>7, <2>8, <2>9
  <1>6. CASE DeleteImage
    <2>1. /\ table' \in Tables /\ table'.dev = table.dev /\ table'.num = table.num
          /\ table'.alive = table.alive \ {gui.dev}
      BY <1>0, <1>6 DEF DeleteImage, Tables, WithAlive
    <2>2. Agrees(table')
      BY <1>0, <2>1 DEF Agrees
    <2> QED
      BY <1>6, <2>1, <2>2 DEF DeleteImage, CloseImages
  <1>7. CASE FinishDelete
    <2>1. /\ gui.dev \in Devices /\ table' = Unregister(table, gui.dev) /\ gui.pc = "dtor"
          /\ table.num[gui.dev] # None => worker.pc = "idle"
      BY <1>7 DEF FinishDelete
    <2>2. /\ Unregister(table, gui.dev) \in Tables
          /\ Agrees(Unregister(table, gui.dev))
          /\ Unregister(table, gui.dev).alive = table.alive
          /\ Unregister(table, gui.dev).num = [table.num EXCEPT ![gui.dev] = None]
      BY <1>0, <2>1, UnregisterEffect
    <2>3. \A d \in Devices : table'.num[d] = IF d = gui.dev THEN None ELSE table.num[d]
      BY <1>0, <2>1, <2>2 DEF Tables
    <2>4. /\ UNCHANGED <<lock, modified, explorer, worker>>
          /\ gui' = GuiIdle \/ (gui.op = "mount" /\ gui' = [gui EXCEPT !.pc = "install"])
      BY <1>7 DEF FinishDelete, AfterEject
    <2>5. TypeOK'
      BY <2>1, <2>2, <2>4
    <2>6. DeadHasNoNumber'
      BY <2>1, <2>2, <2>3
    <2>7. NewIsOutside'
      BY <2>3, <2>4
    <2>8. TableAgrees' /\ ServedIsInside' /\ OperandsKnown'
      BY <2>1, <2>2, <2>3, <2>4
    <2> QED
      BY <2>5, <2>6, <2>7, <2>8
  <1>8. CASE InstallNew
    <2>1. /\ gui.slot \in Slots /\ gui.new \in Devices /\ table.num[gui.new] = None
          /\ table' = Install(table, gui.slot, gui.new) /\ worker.pc = "idle"
          /\ gui.pc = "install" /\ gui.new \in table.alive
      BY <1>8 DEF InstallNew
    <2>2. /\ Install(table, gui.slot, gui.new) \in Tables
          /\ Agrees(Install(table, gui.slot, gui.new))
          /\ Install(table, gui.slot, gui.new).alive = table.alive \ {table.dev[gui.slot]}
          /\ \A d \in Devices : Install(table, gui.slot, gui.new).num[d] =
               IF d = gui.new THEN gui.slot
               ELSE IF d = table.dev[gui.slot] THEN None ELSE table.num[d]
      BY <1>8, InstallNewTable
    <2>3. \A d \in Devices \ table'.alive : table'.num[d] = None
      <3>1. gui.new # table.dev[gui.slot]
        BY <2>1, TableAssumption DEF Agrees
      <3> QED
        BY <2>1, <2>2, <3>1
    <2> QED
      BY <1>8, <2>1, <2>2, <2>3 DEF InstallNew, CloseImages
  <1>9. ASSUME NEW a \in Slots, NEW b \in Slots, DropSwap(a, b)
        PROVE  TableInv'
    <2>1. gui.new # None => gui.new \in Devices
      BY DEF GuiStates
    <2> QED
      BY <1>0b, <1>9, <2>1 DEF DropSwap
  <1>10. CASE OperationProceeds
    BY <1>10, <1>5, <1>6, <1>7, <1>8, GuiMovesTableInv DEF OperationProceeds
  <1>11. CASE UserActs
    BY <1>11, <1>2, <1>4, <1>9, GuiMovesTableInv DEF UserActs
  <1> QED
    BY <1>10, <1>11

LEMMA AutoSaveTableInv ==
  ASSUME TableInv, gui.auto # None, AutoSave \/ AutoFault
  PROVE  TableInv'
  <1>1. GuiKnows /\ gui.pc \in EventLoops /\ gui.pc # "dtor"
    BY DEF TableInv, TypeOK, OperandsKnown, GuiKnows, EventLoops
  <1>2. /\ modified' \in [Devices -> BOOLEAN] /\ UNCHANGED <<table, lock, explorer, worker>>
        /\ explorer \in SUBSET Devices /\ lock \in [Devices -> {"free", "worker", "gui"}]
    BY DEF AutoSave, AutoFault, TableInv, TypeOK
  <1>3. PICK pc \in {gui.pc, "astray", "crash"} : gui' = [gui EXCEPT !.auto = None, !.pc = pc]
    BY <1>1 DEF AutoSave, AutoFault, GuiKnows, GuiStates
  <1>4. /\ gui' \in GuiStates /\ gui'.pc = pc /\ gui'.auto = None /\ gui'.op = gui.op
        /\ gui'.slot = gui.slot /\ gui'.dev = gui.dev /\ gui'.new = gui.new
    BY <1>1, <1>3 DEF GuiKnows, GuiStates, GuiPcs, Pointers
  <1>5. GuiKnows'
    BY <1>1, <1>4 DEF GuiKnows, OperandsKnown
  <1> QED
    BY <1>1, <1>2, <1>4, <1>5, GuiMoves

LEMMA GuiTableInv == TableInv /\ GuiNext => TableInv'
  BY OperationTableInv, AutoSaveTableInv DEF GuiNext, GuiProceeds

(* The invariant the other proofs rest on.                                  *)
THEOREM TableInvariant == Spec => []TableInv
  <1>1. TableInv /\ [Next]_vars => TableInv'
    <2> SUFFICES ASSUME TableInv, [Next]_vars
                 PROVE  TableInv'
      OBVIOUS
    <2>1. CASE UNCHANGED vars
      BY <2>1 DEF vars, TableInv, TypeOK, TableAgrees, DeadHasNoNumber, NewIsOutside,
                  ServedIsInside, OperandsKnown
    <2> QED
      BY <2>1, WorkerTableInv, GuiTableInv DEF Next
  <1> QED
    BY <1>1, InitTableInv, PTL DEF Spec

(* Every variable keeps its type, for any numbers, images and operations.   *)
THEOREM TypeCorrect == Spec => []TypeOK
  BY TableInvariant, PTL DEF TableInv

(* The table and the devices' own numbers agree in every reachable state,   *)
(* with or without a remote client.                                         *)
THEOREM TableAgreement == Spec => []TableAgrees
  BY TableInvariant, PTL DEF TableInv

-----------------------------------------------------------------------------
(* The two threads implement the bay of drives.                             *)

Serving == IF worker.pc \in {"handle", "unlock"} THEN worker.dev ELSE None

LEMMA InitBay == Init => Bay!Init
  BY DEF Init, Bay!Init, EmptyTable, WorkerIdle

(* A step of the worker that leaves the table alone: it begins a command,   *)
(* ends one, or does nothing to the bay.                                    *)
LEMMA WorkerServes ==
  ASSUME TableInv, UNCHANGED table,
         \/ \E s \in Slots : Dispatch(s)
         \/ TryLock \/ Handle \/ WorkerUnlock
         \/ \E ss \in SUBSET Slots : ClientUnmount(ss)
  PROVE  [Bay!Next]_Bay!vars
  <1>0. /\ worker \in [pc : WorkerPcs, dev : Pointers, todo : SUBSET Slots]
        /\ worker.pc \in {"try", "handle", "unlock"} => worker.dev \in Devices
        /\ table \in Tables /\ Agrees(table)
    BY DEF TableInv, TypeOK, TableAgrees, Pointers
  <1> USE DEF Bay!vars
  <1>1. ASSUME NEW s \in Slots, Dispatch(s)
        PROVE  UNCHANGED Bay!vars
    BY <1>0, <1>1 DEF Dispatch
  <1>2. CASE TryLock
    <2>1. CASE lock[worker.dev] = "free"
      <3>1. worker.dev \in Devices /\ table.num[worker.dev] # None /\ worker.pc = "try"
        BY <1>0, <1>2 DEF TryLock, TableInv, ServedIsInside
      <3>2. table.num[worker.dev] \in Slots /\ table.dev[table.num[worker.dev]] = worker.dev
        BY <1>0, <3>1 DEF Tables, Agrees
      <3>3. worker.dev \in Bay!In(table.dev)
        BY <3>1, <3>2, TableAssumption DEF Bay!In
      <3>4. worker'.pc = "handle" /\ worker'.dev = worker.dev
        BY <1>0, <1>2, <2>1 DEF TryLock
      <3>5. Bay!BeginCommand(worker.dev)
        BY <3>1, <3>3, <3>4 DEF Bay!BeginCommand
      <3> QED
        BY <3>1, <3>5 DEF Bay!Next
    <2>2. CASE lock[worker.dev] # "free"
      BY <1>2, <2>2 DEF TryLock, WorkerIdle
    <2> QED
      BY <2>1, <2>2
  <1>3. CASE Handle
    BY <1>0, <1>3 DEF Handle
  <1>4. CASE WorkerUnlock
    <2>1. Bay!EndCommand
      BY <1>0, <1>4, TableAssumption DEF WorkerUnlock, WorkerIdle, Bay!EndCommand
    <2> QED
      BY <2>1 DEF Bay!Next
  <1>5. ASSUME NEW ss \in SUBSET Slots, ClientUnmount(ss)
        PROVE  UNCHANGED Bay!vars
    BY <1>0, <1>5 DEF ClientUnmount
  <1> QED
    BY <1>1, <1>2, <1>3, <1>4, <1>5

(* Every change of the table fills, empties or exchanges drives, and is     *)
(* made while no command is served.                                         *)
LEMMA TableSteps ==
  ASSUME TableInv, worker.pc \in {"idle", "unmount"}, worker'.pc \in {"idle", "unmount"},
         \/ \E s \in Slots : table' = Uninstall(table, s)
         \/ \E s \in Slots : table.dev[s] # None /\ table' = Delete(Uninstall(table, s), table.dev[s])
         \/ \E d \in Devices : table' = Unregister(table, d)
         \/ \E a, b \in Slots : a # b /\ table' = Swap(table, a, b)
         \/ \E s \in Slots, d \in Devices : table.num[d] = None /\ table' = Install(table, s, d)
  PROVE  [Bay!Next]_Bay!vars
  <1>0. table \in Tables /\ Agrees(table) /\ Serving = None /\ Serving' = None
    BY DEF TableInv, TypeOK, TableAgrees, Serving
  <1> USE DEF Serving
  <1>1. ASSUME NEW s \in Slots, table'.dev = [table.dev EXCEPT ![s] = None]
        PROVE  Bay!Next
    BY <1>0, <1>1 DEF Bay!Next, Bay!Remove
  <1>2. ASSUME NEW s \in Slots, table' = Uninstall(table, s)
        PROVE  Bay!Next
    BY <1>0, <1>1, <1>2, UninstallEffect
  <1>3. ASSUME NEW s \in Slots, table.dev[s] # None,
               table' = Delete(Uninstall(table, s), table.dev[s])
        PROVE  Bay!Next
    <2> DEFINE u == Uninstall(table, s)
    <2>1. /\ u \in Tables /\ Agrees(u) /\ u.dev = [table.dev EXCEPT ![s] = None]
          /\ u.num[table.dev[s]] = None /\ table.dev[s] \in Devices
      BY <1>0, <1>3, UninstallEffect DEF Tables
    <2> HIDE DEF u
    <2>2. Delete(u, table.dev[s]).dev = u.dev
      BY <2>1 DEF Delete, Unregister, WithAlive
    <2> QED
      BY <1>1, <1>3, <2>1, <2>2 DEF u
  <1>4. ASSUME NEW d \in Devices, table' = Unregister(table, d)
        PROVE  [Bay!Next]_Bay!vars
    <2>1. CASE table.num[d] = None
      BY <1>0, <1>4, <2>1 DEF Unregister, Bay!vars
    <2>2. CASE table.num[d] # None
      BY <1>0, <1>2, <1>4, <2>2 DEF Unregister, Tables
    <2> QED
      BY <2>1, <2>2
  <1>5. ASSUME NEW a \in Slots, NEW b \in Slots, a # b, table' = Swap(table, a, b)
        PROVE  Bay!Next
    <2>1. table'.dev = [table.dev EXCEPT ![a] = table.dev[b], ![b] = table.dev[a]]
      BY <1>0, <1>5, SwapEffect
    <2> QED
      BY <1>0, <2>1 DEF Bay!Next, Bay!Exchange
  <1>6. ASSUME NEW s \in Slots, NEW d \in Devices, table.num[d] = None,
               table' = Install(table, s, d)
        PROVE  Bay!Next
    <2>1. table'.dev = [table.dev EXCEPT ![s] = d]
      BY <1>0, <1>6, InstallEffect
    <2>2. d \notin Bay!In(table.dev)
      BY <1>0, <1>6, TableAssumption DEF Agrees, Bay!In
    <2> QED
      BY <1>0, <2>1, <2>2 DEF Bay!Next, Bay!Insert
  <1> QED
    BY <1>2, <1>3, <1>4, <1>5, <1>6

LEMMA WorkerBay == TableInv /\ WorkerNext => [Bay!Next]_Bay!vars
  <1> SUFFICES ASSUME TableInv, WorkerNext
               PROVE  [Bay!Next]_Bay!vars
    OBVIOUS
  <1>1. ASSUME NEW s \in Slots, UnmountNext(s)
        PROVE  [Bay!Next]_Bay!vars
    <2>1. /\ worker \in [pc : WorkerPcs, dev : Pointers, todo : SUBSET Slots]
          /\ worker.pc = "unmount" /\ worker'.pc \in {"idle", "unmount"}
      BY <1>1 DEF UnmountNext, WorkerIdle, TableInv, TypeOK
    <2>2. CASE table.dev[s] = None
      BY <1>1, <2>1, <2>2 DEF UnmountNext, Bay!vars
    <2>3. CASE table.dev[s] # None
      BY <1>1, <2>1, <2>3, TableSteps DEF UnmountNext
    <2> QED
      BY <2>2, <2>3
  <1>2. ASSUME NEW a \in Slots, NEW b \in Slots, ClientSwap(a, b)
        PROVE  [Bay!Next]_Bay!vars
    BY <1>2, TableSteps DEF ClientSwap
  <1>3. ASSUME \/ \E s \in Slots : Dispatch(s)
               \/ TryLock \/ Handle \/ WorkerUnlock
               \/ \E ss \in SUBSET Slots : ClientUnmount(ss)
        PROVE  [Bay!Next]_Bay!vars
    <2>1. UNCHANGED table
      BY <1>3 DEF Dispatch, TryLock, Handle, WorkerUnlock, ClientUnmount
    <2> QED
      BY <1>3, <2>1, WorkerServes
  <1>4. \A s \in Slots : {s} \in SUBSET Slots
    OBVIOUS
  <1> QED
    BY <1>1, <1>2, <1>3, <1>4 DEF WorkerNext

LEMMA GuiBay == TableInv /\ GuiNext => [Bay!Next]_Bay!vars
  <1> SUFFICES ASSUME TableInv, GuiNext
               PROVE  [Bay!Next]_Bay!vars
    OBVIOUS
  <1>0. /\ gui \in GuiStates
        /\ gui.pc \in {"uninstall", "install"} => gui.slot \in Slots
        /\ gui.pc \in {"delete", "dtor"} => gui.dev \in Devices
        /\ gui.pc = "install" => gui.new \in Devices
    BY DEF TableInv, TypeOK, Pointers, GuiStates
  <1>1. ASSUME UNCHANGED <<table.dev, worker>>
        PROVE  [Bay!Next]_Bay!vars
    BY <1>1 DEF Bay!vars
  <1>2. ASSUME NEW a \in AllAnswers, Answer(a)
        PROVE  UNCHANGED <<table.dev, worker>>
    <2>1. gui.new # None => gui.new \in Devices /\ table.num[gui.new] = None
      BY <1>0 DEF TableInv, NewIsOutside, Pointers, GuiStates
    <2>2. gui.new # None => Delete(table, gui.new).dev = table.dev
      BY <2>1 DEF Delete, Unregister, WithAlive
    <2> QED
      BY <1>2, <2>2 DEF Answer
  <1>3. CASE UninstallSlot
    BY <1>0, <1>3, TableSteps DEF UninstallSlot, MutexFree
  <1>4. CASE FinishDelete
    <2>1. CASE table.num[gui.dev] = None
      BY <1>1, <1>4, <2>1 DEF FinishDelete, Unregister
    <2>2. CASE table.num[gui.dev] # None
      BY <1>0, <1>4, <2>2, TableSteps DEF FinishDelete, MutexFree
    <2> QED
      BY <2>1, <2>2
  <1>5. CASE InstallNew
    BY <1>0, <1>5, TableSteps DEF InstallNew, MutexFree, TableInv, NewIsOutside, TypeOK
  <1>6. ASSUME NEW a \in Slots, NEW b \in Slots, DropSwap(a, b)
        PROVE  [Bay!Next]_Bay!vars
    BY <1>6, TableSteps DEF DropSwap, MutexFree
  <1>7. ASSUME NEW s \in Slots, NEW d \in Devices, Mount(s, d)
        PROVE  UNCHANGED <<table.dev, worker>>
    BY <1>7 DEF Mount, Construct, WithAlive
  <1>8. CASE DeleteImage
    BY <1>1, <1>8 DEF DeleteImage, WithAlive
  <1>9. ASSUME \/ \E s \in Slots : Eject(s) \/ Save(s) \/ Revert(s) \/ OpenEditor(s)
                                  \/ StatusChanged(s)
               \/ AnswerRevert \/ ChooseFile \/ AnswerFailed \/ AutoSave \/ AutoFault
               \/ \E d \in Devices : CloseEditor(d) \/ EditImage(d)
               \/ Check \/ Confirm \/ SaveGet \/ SaveAsGet \/ LockImage \/ SaveImage
               \/ UnlockImage \/ OpenLock \/ GuiFault
        PROVE  UNCHANGED <<table.dev, worker>>
    BY <1>9 DEF Eject, Save, Revert, OpenEditor, StatusChanged, AnswerRevert, ChooseFile,
                AnswerFailed, AutoSave, AutoFault, CloseEditor, EditImage, Check, Confirm, SaveGet,
                SaveAsGet, LockImage, SaveImage, UnlockImage, OpenLock, GuiFault
  <1> QED
    BY <1>1, <1>2, <1>3, <1>4, <1>5, <1>6, <1>7, <1>8, <1>9
       DEF GuiNext, GuiProceeds, OperationProceeds, UserActs

(* Whatever the two threads and the remote client do, a command is served   *)
(* by an image that sits in its drive from the first step of its handler to *)
(* the last, and no image sits in two drives.                               *)
THEOREM ImplementsBay == Spec => BaySpec
  <1>1. TableInv /\ [Next]_vars => [Bay!Next]_Bay!vars
    <2>1. TableInv /\ UNCHANGED vars => UNCHANGED Bay!vars
      BY DEF vars, Bay!vars
    <2> QED
      BY <2>1, WorkerBay, GuiBay DEF Next
  <1> QED
    BY <1>1, InitBay, TableInvariant, PTL DEF Spec, BaySpec, Bay!Spec

-----------------------------------------------------------------------------
(* A remote unmount.                                                        *)

(* Without explorers, what has been found unmodified stays so until the     *)
(* worker has emptied its drives: deviceMutex keeps the GUI thread from     *)
(* mounting or swapping, and nobody but the worker writes.                  *)
UnmountInv ==
  /\ explorer = {} /\ gui.pc # "openLock"
  /\ \A s \in worker.todo : table.dev[s] # None => ~ modified[table.dev[s]]

(* The GUI thread cannot move images between drives while the worker has    *)
(* the mutex.                                                               *)
LEMMA GuiWaits ==
  ASSUME TableInv, GuiNext, worker.pc # "idle"
  PROVE  table'.dev = table.dev /\ worker' = worker
  <1>1. ASSUME NEW a \in AllAnswers, Answer(a)
        PROVE  table'.dev = table.dev /\ worker' = worker
    <2>1. gui.new # None => gui.new \in Devices /\ table.num[gui.new] = None
      BY DEF TableInv, TypeOK, NewIsOutside, Pointers, GuiStates
    <2>2. gui.new # None => Delete(table, gui.new).dev = table.dev
      BY <2>1 DEF Delete, Unregister, WithAlive
    <2> QED
      BY <1>1, <2>2 DEF Answer
  <1>2. CASE FinishDelete
    BY <1>2 DEF FinishDelete, MutexFree, Unregister
  <1>3. CASE DeleteImage
    BY <1>3 DEF DeleteImage, WithAlive
  <1>4. CASE \/ AnswerRevert \/ ChooseFile \/ AnswerFailed \/ AutoSave \/ AutoFault
             \/ \E d \in Devices : CloseEditor(d) \/ EditImage(d)
    BY <1>4 DEF AnswerRevert, ChooseFile, AnswerFailed, AutoSave, AutoFault, CloseEditor, EditImage
  <1>5. CASE Check \/ LockImage \/ SaveImage \/ UnlockImage \/ OpenLock \/ GuiFault
    BY <1>5 DEF Check, LockImage, SaveImage, UnlockImage, OpenLock, GuiFault
  <1>6. ~ MutexFree
    BY DEF MutexFree
  <1>7. ASSUME NEW s \in Slots
        PROVE  /\ ~ Eject(s) /\ ~ Save(s) /\ ~ Revert(s) /\ ~ OpenEditor(s) /\ ~ StatusChanged(s)
               /\ \A d \in Devices : ~ Mount(s, d)
               /\ \A b \in Slots : ~ DropSwap(s, b)
    <2>1. ~ Eject(s)
      BY <1>6 DEF Eject
    <2>2. ~ Save(s)
      BY <1>6 DEF Save
    <2>3. ~ Revert(s)
      BY <1>6 DEF Revert
    <2>4. ~ OpenEditor(s)
      BY <1>6 DEF OpenEditor
    <2>5. \A d \in Devices : ~ Mount(s, d)
      BY <1>6 DEF Mount
    <2>6. \A b \in Slots : ~ DropSwap(s, b)
      BY <1>6 DEF DropSwap
    <2>7. ~ StatusChanged(s)
      BY <1>6 DEF StatusChanged
    <2> QED
      BY <2>1, <2>2, <2>3, <2>4, <2>5, <2>6, <2>7
  <1>8. ~ (Confirm \/ UninstallSlot \/ InstallNew \/ SaveGet \/ SaveAsGet)
    BY <1>6 DEF Confirm, UninstallSlot, InstallNew, SaveGet, SaveAsGet
  <1> QED
    BY <1>1, <1>2, <1>3, <1>4, <1>5, <1>7, <1>8
       DEF GuiNext, GuiProceeds, OperationProceeds, UserActs

(* Nor does it then modify an image, and it never opens an explorer.        *)
LEMMA GuiSpares ==
  ASSUME TableInv, UnmountInv, "edit" \notin GuiOps, GuiNext
  PROVE  /\ explorer' = {} /\ gui'.pc # "openLock"
         /\ worker.pc # "idle" => \A d \in Devices : modified'[d] => modified[d]
  <1>0. /\ modified \in [Devices -> BOOLEAN] /\ explorer = {} /\ gui.pc # "openLock"
        /\ gui \in GuiStates
    BY DEF TableInv, TypeOK, UnmountInv
  <1> USE DEF GuiStates
  <1>1. CASE (\E s \in Slots, d \in Devices : Mount(s, d)) \/ \E s \in Slots : Eject(s)
    <2>1. ASSUME NEW op, NEW s, NEW d, StartEject(op, s, d)
          PROVE  gui'.pc # "openLock"
      <3>1. gui'.pc = IF table.dev[s] = None THEN "uninstall" ELSE "check"
        BY <1>0, <2>1 DEF StartEject
      <3> QED
        BY <3>1
    <2>2. ASSUME NEW s \in Slots, NEW d \in Devices, Mount(s, d)
          PROVE  explorer' = {} /\ gui'.pc # "openLock" /\ worker.pc = "idle"
      <3>1. StartEject("mount", s, d) /\ explorer' = explorer /\ worker.pc = "idle"
        BY <2>2 DEF Mount, MutexFree
      <3> QED
        BY <1>0, <2>1, <3>1
    <2>3. ASSUME NEW s \in Slots, Eject(s)
          PROVE  explorer' = {} /\ gui'.pc # "openLock" /\ worker.pc = "idle"
      <3>1. StartEject("eject", s, None) /\ explorer' = explorer /\ worker.pc = "idle"
        BY <2>3 DEF Eject, MutexFree
      <3> QED
        BY <1>0, <2>1, <3>1
    <2> QED
      BY <1>1, <2>2, <2>3
  <1>2. CASE \E s \in Slots : Save(s) \/ Revert(s) \/ OpenEditor(s) \/ StatusChanged(s)
    BY <1>0, <1>2 DEF Save, SaveOrSaveAs, Revert, OpenEditor, StatusChanged
  <1>3. CASE (\E a, b \in Slots : DropSwap(a, b)) \/ \E a \in AllAnswers : Answer(a)
    BY <1>0, <1>3 DEF DropSwap, Answer, GuiGoes, GuiIdle
  <1>4. CASE AnswerRevert \/ \E d \in Devices : CloseEditor(d) \/ EditImage(d)
    BY <1>0, <1>4 DEF AnswerRevert, CloseEditor, EditImage, GuiGoes, GuiIdle
  <1>4a. ASSUME AfterSave
         PROVE  gui'.pc \in {"uninstall", "idle"}
    BY <1>0, <1>4a DEF AfterSave, GuiIdle
  <1>4b. CASE ChooseFile \/ AnswerFailed
    BY <1>0, <1>4a, <1>4b DEF ChooseFile, AnswerFailed, GuiGoes
  <1>4c. CASE gui.auto # None /\ (AutoSave \/ AutoFault)
    <2>1. gui'.pc \in {gui.pc, "astray", "crash"} /\ explorer' = explorer
      BY <1>0, <1>4c DEF AutoSave, AutoFault
    <2>2. \A d \in Devices : modified'[d] => modified[d]
      BY <1>0, <1>4c DEF AutoSave, AutoFault
    <2> QED
      BY <1>0, <2>1, <2>2
  <1>5. CASE Check \/ Confirm \/ UninstallSlot \/ FinishDelete
    BY <1>0, <1>5 DEF Check, Confirm, UninstallSlot, FinishDelete, AfterEject, GuiGoes, GuiIdle
  <1>6. CASE DeleteImage \/ InstallNew
    BY <1>0, <1>6 DEF DeleteImage, InstallNew, CloseImages, GuiGoes, GuiIdle
  <1>7. CASE LockImage \/ SaveImage \/ OpenLock \/ GuiFault
    BY <1>0, <1>7 DEF LockImage, SaveImage, OpenLock, GuiFault, GuiGoes
  <1>8. CASE SaveGet \/ SaveAsGet
    <2>1. gui'.pc \in {"crash", "chooser"} \cup SaveOrSaveAs
      BY <1>0, <1>8 DEF SaveGet, SaveAsGet, GuiGoes
    <2> QED
      BY <1>0, <1>8, <2>1 DEF SaveGet, SaveAsGet, SaveOrSaveAs
  <1>9. CASE UnlockImage
    BY <1>0, <1>4a, <1>9 DEF UnlockImage, GuiGoes
  <1>10. CASE gui.auto = None /\ OperationProceeds
    BY <1>10, <1>5, <1>6, <1>7, <1>8, <1>9 DEF OperationProceeds
  <1>11. CASE gui.auto = None /\ UserActs
    BY <1>11, <1>1, <1>2, <1>3, <1>4, <1>4b DEF UserActs
  <1> QED
    BY <1>4c, <1>10, <1>11 DEF GuiNext, GuiProceeds

(* One drive of an unmount: its image goes, the others stay where they are. *)
LEMMA UnmountEffect ==
  ASSUME TableInv, NEW s \in Slots, UnmountNext(s)
  PROVE  /\ \A r \in Slots : table'.dev[r] = IF r = s THEN None ELSE table.dev[r]
         /\ \A d \in Devices : d # table.dev[s] => (modified'[d] <=> modified[d])
         /\ \A d \in table.alive : d # table.dev[s] => d \in table'.alive
         /\ worker'.todo = worker.todo \ {s} /\ explorer' = explorer \ {table.dev[s]}
  <1> DEFINE d == table.dev[s]
             u == Uninstall(table, s)
  <1>1. /\ table \in Tables /\ Agrees(table) /\ modified \in [Devices -> BOOLEAN]
        /\ worker \in [pc : WorkerPcs, dev : Pointers, todo : SUBSET Slots]
        /\ explorer \subseteq Devices
    BY DEF TableInv, TypeOK, TableAgrees
  <1>2. worker'.todo = worker.todo \ {s}
    BY <1>1 DEF UnmountNext, WorkerIdle
  <1>3. CASE d = None
    BY <1>1, <1>2, <1>3, TableAssumption DEF UnmountNext
  <1>4. CASE d # None
    <2>1. d \in Devices
      BY <1>1, <1>4 DEF Tables
    <2>2. /\ u \in Tables /\ Agrees(u) /\ u.alive = table.alive
          /\ u.dev = [table.dev EXCEPT ![s] = None]
          /\ \A e \in Devices : u.num[e] = IF d = e THEN None ELSE table.num[e]
      BY <1>1, UninstallEffect
    <2>3. \A r \in Slots : u.dev[r] = IF r = s THEN None ELSE table.dev[r]
      BY <1>1, <2>2 DEF Tables
    <2>4. /\ table' = Delete(u, d)
          /\ explorer' = explorer \ {d}
          /\ modified' = [e \in Devices |-> e \notin {d} /\ modified[e]]
      BY <1>4 DEF UnmountNext, CloseImages, u, d
    <2> HIDE DEF u
    <2>5. /\ table'.alive = u.alive \ {d}
          /\ \A r \in Slots : table'.dev[r] = IF u.dev[r] = d THEN None ELSE u.dev[r]
      <3> HIDE DEF d
      <3>1. u \in Tables /\ Agrees(u)
        BY <2>2
      <3>2. /\ Delete(u, d).alive = u.alive \ {d}
            /\ \A r \in Slots : Delete(u, d).dev[r] = IF u.dev[r] = d THEN None ELSE u.dev[r]
        BY <2>1, <3>1, DeleteEffect
      <3> QED
        BY <2>4, <3>2
    <2>6. \A r \in Slots : u.dev[r] # d
      BY <2>1, <2>2, TableAssumption DEF Agrees, Tables
    <2>7. \A r \in Slots : table'.dev[r] = IF r = s THEN None ELSE table.dev[r]
      BY <2>3, <2>5, <2>6
    <2>8. \A e \in Devices : e # d => (modified'[e] <=> modified[e])
      BY <2>4
    <2>9. \A e \in table.alive : e # d => e \in table'.alive
      BY <2>2, <2>5
    <2> QED
      BY <1>2, <2>4, <2>7, <2>8, <2>9
  <1> QED
    BY <1>3, <1>4

(* The worker keeps UnmountInv: it asks before it starts, and empties only  *)
(* drives it has asked about.                                               *)
LEMMA WorkerUnmountInv ==
  ASSUME TableInv, UnmountInv, WorkerNext
  PROVE  UnmountInv'
  <1>0. /\ worker \in [pc : WorkerPcs, dev : Pointers, todo : SUBSET Slots]
        /\ worker.todo # {} <=> worker.pc = "unmount"
        /\ table \in Tables /\ modified \in [Devices -> BOOLEAN]
    BY DEF TableInv, TypeOK
  <1>1. ASSUME NEW ss, ClientUnmount(ss)
        PROVE  UnmountInv'
    BY <1>0, <1>1 DEF ClientUnmount, UnmountInv
  <1>2. ASSUME NEW s \in Slots, UnmountNext(s)
        PROVE  UnmountInv'
    <2>1. explorer' = {} /\ gui' = gui /\ worker'.todo \subseteq worker.todo \ {s}
      BY <1>2, UnmountEffect DEF UnmountInv, UnmountNext
    <2>2. ASSUME NEW r \in worker'.todo, table'.dev[r] # None
          PROVE  ~ modified'[table'.dev[r]]
      <3>1. r \in Slots /\ r # s /\ r \in worker.todo
        BY <1>0, <2>1
      <3>2. table'.dev[r] = table.dev[r] /\ table.dev[r] \in Devices
        BY <1>0, <1>2, <2>2, <3>1, UnmountEffect DEF Tables
      <3>3. table.dev[r] # table.dev[s]
        BY <3>1, <3>2, TableAssumption DEF TableInv, TableAgrees, Agrees
      <3>4. ~ modified[table.dev[r]]
        BY <3>1, <3>2, TableAssumption DEF UnmountInv
      <3> QED
        BY <1>2, <3>2, <3>3, <3>4, UnmountEffect
    <2> QED
      BY <2>1, <2>2 DEF UnmountInv
  <1>3. ASSUME NEW a \in Slots, NEW b \in Slots, ClientSwap(a, b)
        PROVE  UnmountInv'
    BY <1>0, <1>3 DEF ClientSwap, UnmountInv
  <1>4. ASSUME worker.pc # "unmount", worker'.todo = worker.todo \/ worker' = WorkerIdle,
               UNCHANGED <<explorer, gui>>
        PROVE  UnmountInv'
    <2>1. worker'.todo = {}
      BY <1>0, <1>4 DEF WorkerIdle
    <2> QED
      BY <1>4, <2>1 DEF UnmountInv
  <1>5. ASSUME NEW s \in Slots, Dispatch(s)
        PROVE  UnmountInv'
    BY <1>0, <1>4, <1>5 DEF Dispatch
  <1>6. CASE TryLock
    BY <1>0, <1>4, <1>6 DEF TryLock
  <1>7. CASE Handle
    BY <1>0, <1>4, <1>7 DEF Handle
  <1>8. CASE WorkerUnlock
    BY <1>0, <1>4, <1>8 DEF WorkerUnlock
  <1> QED
    BY <1>1, <1>2, <1>3, <1>5, <1>6, <1>7, <1>8 DEF WorkerNext

(* Both threads together.                                                   *)
LEMMA UnmountStep ==
  ASSUME TableInv, UnmountInv, "edit" \notin GuiOps, [Next]_vars
  PROVE  UnmountInv'
  <1>0. /\ worker \in [pc : WorkerPcs, dev : Pointers, todo : SUBSET Slots]
        /\ worker.todo # {} <=> worker.pc = "unmount"
        /\ table \in Tables
    BY DEF TableInv, TypeOK
  <1>1. CASE GuiNext
    <2>1. explorer' = {} /\ gui'.pc # "openLock"
      BY <1>1, GuiSpares
    <2>2. worker' = worker
      BY <1>1 DEF GuiNext, GuiProceeds, OperationProceeds, UserActs, Eject, Save, Revert,
                  OpenEditor, StatusChanged, Mount, DropSwap, Answer, AnswerRevert, ChooseFile,
                  AnswerFailed, CloseEditor, EditImage, Check, Confirm, UninstallSlot,
                  DeleteImage, FinishDelete, InstallNew, SaveGet, SaveAsGet, LockImage, SaveImage,
                  UnlockImage, OpenLock, GuiFault, AutoSave, AutoFault
    <2>3. ASSUME NEW s \in worker.todo, table'.dev[s] # None
          PROVE  ~ modified'[table'.dev[s]]
      <3>1. worker.pc # "idle" /\ s \in Slots
        BY <1>0
      <3>2. table'.dev = table.dev
        BY <1>1, <3>1, GuiWaits
      <3>3. table.dev[s] \in Devices /\ ~ modified[table.dev[s]]
        BY <1>0, <2>3, <3>1, <3>2 DEF Tables, UnmountInv
      <3> QED
        BY <1>1, <3>1, <3>2, <3>3, GuiSpares
    <2> QED
      BY <2>1, <2>2, <2>3 DEF UnmountInv
  <1>2. CASE UNCHANGED vars
    BY <1>2 DEF vars, UnmountInv
  <1> QED
    BY <1>1, <1>2, WorkerUnmountInv DEF Next

(* As long as nobody edits an image in an explorer, a remote unmount never  *)
(* destroys changes, although it asks about all drives first and empties    *)
(* them one by one: history.txt's promise, which bus_explorer_unmount shows *)
(* broken with explorers.                                                   *)
THEOREM UnmountKeepsChanges ==
  ASSUME "edit" \notin GuiOps
  PROVE  Spec => RemoteUnmountKeepsChanges
  <1> DEFINE Kept == \A d \in table.alive :
                       worker.pc = "unmount" /\ worker' # worker /\ modified[d] => d \in table'.alive
  <1>1. Init => UnmountInv
    BY DEF Init, UnmountInv, WorkerIdle, GuiIdle
  <1>2. TableInv /\ UnmountInv /\ [Next]_vars => UnmountInv'
    BY UnmountStep
  <1>3. TableInv /\ UnmountInv /\ [Next]_vars => [Kept]_vars
    <2> SUFFICES ASSUME TableInv, UnmountInv, Next, worker.pc = "unmount", worker' # worker,
                        NEW d \in table.alive, modified[d]
                 PROVE  d \in table'.alive
      OBVIOUS
    <2>1. ~ GuiNext
      BY GuiWaits
    <2>2. PICK s \in Slots : UnmountNext(s)
      BY <2>1 DEF Next, WorkerNext, Dispatch, ClientUnmount, ClientSwap, TryLock, Handle,
                  WorkerUnlock
    <2>3. d \in Devices
      BY DEF TableInv, TypeOK, Tables
    <2>4. d # table.dev[s]
      BY <2>2, <2>3, TableAssumption DEF UnmountNext, UnmountInv
    <2> QED
      BY <2>2, <2>4, UnmountEffect
  <1>4. Spec => [][Kept]_vars
    BY <1>1, <1>2, <1>3, TableInvariant, PTL DEF Spec
  <1> QED
    BY <1>4 DEF RemoteUnmountKeepsChanges

=============================================================================
