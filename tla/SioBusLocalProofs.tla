-------------------------- MODULE SioBusLocalProofs --------------------------
(***************************************************************************)
(* What SioBus promises while no remote client is at work: the GUI thread  *)
(* alone changes the table, so that the pointers it keeps between its      *)
(* steps stay good, and image locks keep the two threads apart.            *)
(***************************************************************************)
EXTENDS SioBusProofs

EjectPcs == {"check", "confirm", "prompt", "uninstall", "saveGet", "saveAs"}
SavePcs  == {"chooser", "lock", "saving", "unlock", "unlockFailed", "failed"}
LockPcs  == {"saving", "unlock", "unlockFailed"}

(* An eject, and the save inside of it, works on the image of its slot.     *)
EjectKnowsItsImage ==
  /\ gui.pc \in (EjectPcs \ {"saveAs"}) \cup {"delete", "dtor", "install"} =>
       gui.op \in {"eject", "mount"}
  /\ gui.op \in {"eject", "mount"} /\ gui.pc \in EjectPcs \cup SavePcs =>
       gui.dev = table.dev[gui.slot]
  /\ gui.pc = "openLock" => gui.op = "edit"
  /\ gui.pc = "ask" => gui.op = "revert"
  /\ gui.op = "eject" => gui.new = None
  /\ gui.op \notin {"eject", "mount"} => gui.dev = None /\ gui.new = None
  /\ gui.pc = "idle" => gui.op = "none"
  /\ gui.pc \in SavePcs /\ gui.op # "revert" =>
       gui.slot # None /\ gui.save = table.dev[gui.slot]
  /\ gui.pc \in {"saveAs", "chooser", "unlockFailed", "failed"} => gui.op # "revert"

(* What the next steps of the GUI thread dereference.                       *)
PointersGood ==
  /\ gui.pc \in SavePcs \cup {"openLock", "ask"} => gui.save # None /\ table.num[gui.save] # None
  /\ gui.pc \in {"saveGet", "check", "confirm", "prompt"} => gui.dev # None
  /\ gui.op \in {"eject", "mount"} /\ gui.pc \in SavePcs => gui.dev # None
  /\ gui.new # None => gui.new \in table.alive
  /\ gui.pc = "install" => gui.op = "mount"
  /\ gui.new # None => gui.new # gui.dev
  /\ gui.pc = "saveAs" => gui.slot # None /\ table.dev[gui.slot] # None
  /\ gui.auto # None => gui.pc \in EventLoops /\ table.num[gui.auto] # None

(* An image that is being deleted is outside of the table, its slot empty.  *)
EjectedIsOutside ==
  /\ gui.pc \in {"delete", "dtor"} => table.num[gui.dev] = None
  /\ gui.pc = "delete" => gui.dev \in table.alive
  /\ gui.pc \in {"dtor", "install"} => gui.dev \notin table.alive
  /\ gui.pc \in {"delete", "dtor", "install"} => table.dev[gui.slot] = None

(* A lock belongs to whoever uses the image.                                *)
LocksHeld ==
  /\ worker.pc \in {"handle", "unlock"} => lock[worker.dev] = "worker"
  /\ gui.pc \in LockPcs => lock[gui.save] = "gui" /\ gui.save \notin explorer
  /\ \A d \in explorer : lock[d] = "gui"

GuiInv == NoFault /\ NoOrphan /\ EjectKnowsItsImage /\ PointersGood /\ EjectedIsOutside

LocalInv == worker.pc # "unmount" /\ GuiInv /\ LocksHeld

(* A table that agrees with itself names installed images only, and, but in *)
(* a destructor, images that exist.                                         *)
LEMMA InstalledExists ==
  ASSUME TableInv, LocalInv, NEW s \in Slots, table.dev[s] # None
  PROVE  /\ table.dev[s] \in Devices /\ table.num[table.dev[s]] = s
         /\ table.dev[s] \in table.alive
  <1>1. table \in Tables /\ Agrees(table)
    BY DEF TableInv, TypeOK, TableAgrees
  <1>2. table.dev[s] \in Devices /\ table.num[table.dev[s]] = s
    BY <1>1 DEF Tables, Agrees
  <1>3. table.num[table.dev[s]] # None
    BY <1>2, TableAssumption
  <1> QED
    BY <1>2, <1>3 DEF TableInv, DeadHasNoNumber, LocalInv, GuiInv, EjectedIsOutside

LEMMA InitLocalInv == Init => LocalInv
  BY TableAssumption
     DEF Init, LocalInv, GuiInv, NoFault, NoOrphan, EjectKnowsItsImage, PointersGood,
         EjectedIsOutside, LocksHeld, EmptyTable, WorkerIdle, GuiIdle, EjectPcs, SavePcs, LockPcs

(* The worker changes no table and takes free locks only.                   *)
LEMMA WorkerLocalInv ==
  ASSUME ClientOps = {}, TableInv, LocalInv, WorkerNext
  PROVE  LocalInv'
  <1>0. /\ lock \in [Devices -> {"free", "worker", "gui"}] /\ explorer \subseteq Devices
        /\ worker.dev \in Devices \cup {None} /\ gui.save \in Devices \cup {None}
        /\ worker.pc \in {"try", "handle", "unlock"} => worker.dev \in Devices
        /\ gui.pc \in LockPcs => gui.save \in Devices
    BY DEF TableInv, TypeOK, GuiStates, Pointers, LocalInv, GuiInv, PointersGood, SavePcs, LockPcs
  <1>1. \/ \E s \in Slots : Dispatch(s)
        \/ TryLock \/ Handle \/ WorkerUnlock
    BY DEF WorkerNext, ClientSwap, ClientUnmount, UnmountNext, LocalInv
  <1>2. worker'.pc # "unmount" /\ UNCHANGED <<table, explorer, gui>>
    <2>1. worker \in [pc : WorkerPcs, dev : Pointers, todo : SUBSET Slots]
      BY DEF TableInv, TypeOK
    <2>2. worker'.pc \in {"try", "idle", "handle", "unlock"}
      <3>1. ASSUME NEW s \in Slots, Dispatch(s)
            PROVE  worker'.pc = "try"
        BY <2>1, <3>1 DEF Dispatch
      <3>2. CASE TryLock
        BY <2>1, <3>2 DEF TryLock, WorkerIdle
      <3>3. CASE Handle
        BY <2>1, <3>3 DEF Handle
      <3>4. CASE WorkerUnlock
        BY <2>1, <3>4 DEF WorkerUnlock, WorkerIdle
      <3> QED
        BY <1>1, <3>1, <3>2, <3>3, <3>4
    <2> QED
      BY <1>1, <2>2 DEF Dispatch, TryLock, Handle, WorkerUnlock
  <1>3. GuiInv'
    BY <1>2 DEF LocalInv, GuiInv, NoFault, NoOrphan, EjectKnowsItsImage, PointersGood,
                EjectedIsOutside, Installed, EjectPcs, SavePcs
  <1>4. LocksHeld'
    <2> USE DEF LocksHeld, TableInv, TypeOK
    <2>1. LocksHeld
      BY DEF LocalInv
    <2>2. CASE \E s \in Slots : Dispatch(s)
      BY <1>2, <2>1, <2>2 DEF Dispatch
    <2>3. CASE TryLock
      BY <1>0, <1>2, <2>1, <2>3 DEF TryLock, WorkerIdle
    <2>4. CASE Handle
      BY <1>2, <2>1, <2>4 DEF Handle
    <2>5. CASE WorkerUnlock
      BY <1>0, <1>2, <2>1, <2>5 DEF WorkerUnlock, WorkerIdle
    <2> QED
      BY <1>1, <2>2, <2>3, <2>4, <2>5
  <1> QED
    BY <1>2, <1>3, <1>4 DEF LocalInv

(* The types that the steps of the GUI thread need.                         *)
LEMMA GuiTypes ==
  ASSUME TableInv, LocalInv
  PROVE  /\ table \in Tables /\ Agrees(table)
         /\ gui \in GuiStates
         /\ lock \in [Devices -> {"free", "worker", "gui"}] /\ explorer \subseteq Devices
         /\ worker.dev \in Devices \cup {None}
         /\ worker.pc \in {"try", "handle", "unlock"} => worker.dev \in Devices
         /\ gui.pc \in SavePcs \cup {"openLock"} => gui.save \in Devices
         /\ gui.op \in {"eject", "mount"} => gui.slot \in Slots
  BY DEF TableInv, TypeOK, TableAgrees, OperandsKnown, LocalInv, GuiInv, PointersGood, GuiStates,
         Pointers

(* The user starts something: an image of the table, or a new one.          *)
LEMMA UserLocalInv ==
  ASSUME TableInv, LocalInv, gui.auto = None, NEW s \in Slots,
         \/ Eject(s) \/ Save(s) \/ Revert(s) \/ OpenEditor(s)
         \/ \E d \in Devices : Mount(s, d)
  PROVE  LocalInv'
  <1>1. /\ gui.pc = "idle" /\ gui.op = "none" /\ gui.dev = None /\ gui.new = None
        /\ gui \in GuiStates
    BY GuiTypes DEF Eject, Save, Revert, OpenEditor, Mount, LocalInv, GuiInv, EjectKnowsItsImage
  <1>2. UNCHANGED <<lock, explorer, worker>> /\ gui'.pc \notin LockPcs
    BY <1>1 DEF Eject, Save, SaveOrSaveAs, Revert, OpenEditor, Mount, StartEject, GuiStates, LockPcs
  <1>3. worker'.pc # "unmount" /\ LocksHeld'
    BY <1>2 DEF LocalInv, LocksHeld, LockPcs
  <1>4. GuiInv'
    <2> USE DEF GuiInv, NoFault, NoOrphan, EjectKnowsItsImage, PointersGood, EjectedIsOutside,
                EjectPcs, SavePcs, GuiStates
    <2>0. /\ table.dev[s] # None =>
               /\ table.dev[s] \in Devices /\ table.num[table.dev[s]] # None
               /\ table.dev[s] \in table.alive
          /\ GuiInv
      BY InstalledExists, TableAssumption DEF LocalInv
    <2>1. CASE Eject(s)
      BY <1>1, <2>0, <2>1 DEF Eject, StartEject, Installed
    <2>2. CASE Save(s)
      <3>1. PICK pc \in SaveOrSaveAs :
               gui' = [gui EXCEPT !.pc = pc, !.op = "save", !.slot = s, !.save = table.dev[s]]
        BY <2>2 DEF Save
      <3>2. /\ gui'.pc = pc /\ gui'.op = "save" /\ gui'.slot = s /\ gui'.save = table.dev[s]
            /\ gui'.dev = None /\ gui'.new = None /\ gui'.auto = None
            /\ table.dev[s] # None /\ table' = table /\ s # None
        BY <1>1, <2>2, <3>1, TableAssumption DEF Save
      <3> QED
        BY <1>1, <2>0, <3>2 DEF SaveOrSaveAs, Installed
    <2>3. CASE Revert(s)
      BY <1>1, <2>0, <2>3 DEF Revert, Installed
    <2>4. CASE OpenEditor(s)
      BY <1>1, <2>0, <2>4 DEF OpenEditor, Installed
    <2>5. ASSUME NEW d \in Devices, Mount(s, d)
          PROVE  GuiInv'
      <3>1. /\ table'.dev = table.dev /\ table'.num = table.num
            /\ table'.alive = table.alive \cup {d} /\ d \notin table.alive
        BY <2>5 DEF Mount, Construct, WithAlive
      <3>2. /\ gui'.pc = IF table.dev[s] = None THEN "uninstall" ELSE "check"
            /\ gui'.op = "mount" /\ gui'.slot = s /\ gui'.dev = table.dev[s] /\ gui'.new = d
            /\ gui'.auto = None
        BY <1>1, <2>5 DEF Mount, StartEject
      <3>3. d # table.dev[s] /\ d # None
        BY <2>0, <3>1, TableAssumption
      <3>4. \A e \in table.alive : e \in Installed(table)
        BY <1>1, <2>0, TableAssumption, GuiTypes DEF Tables
      <3> QED
        BY <3>1, <3>2, <3>3, <3>4, <2>0 DEF Installed
    <2> QED
      BY <2>1, <2>2, <2>3, <2>4, <2>5
  <1> QED
    BY <1>3, <1>4 DEF LocalInv

(* Swapping two drives by drag and drop moves images, and deletes none.     *)
LEMMA SwapLocalInv ==
  ASSUME TableInv, LocalInv, gui.auto = None, NEW a \in Slots, NEW b \in Slots, DropSwap(a, b)
  PROVE  LocalInv'
  <1>1. /\ gui.pc = "idle" /\ gui.op = "none" /\ gui.dev = None /\ gui.new = None
        /\ UNCHANGED <<lock, explorer, worker, gui>>
        /\ a # b /\ table' = Swap(table, a, b)
    BY DEF DropSwap, LocalInv, GuiInv, EjectKnowsItsImage
  <1>2. /\ table'.alive = table.alive
        /\ \A d \in Devices : table'.num[d] = None <=> table.num[d] = None
    BY <1>1, TableSwap DEF TableInv
  <1>3. table.alive \subseteq Devices
    BY GuiTypes DEF Tables
  <1> QED
    BY <1>1, <1>2, <1>3
       DEF LocalInv, GuiInv, NoFault, NoOrphan, EjectKnowsItsImage, PointersGood,
           EjectedIsOutside, LocksHeld, EjectPcs, SavePcs, LockPcs, Installed

(* The steps that leave table, images and explorers as they are.            *)
LEMMA SteadyLocalInv ==
  ASSUME TableInv, LocalInv, gui.auto = None,
         \/ Check \/ Confirm \/ SaveGet \/ SaveAsGet \/ LockImage \/ SaveImage \/ UnlockImage
         \/ AnswerRevert \/ ChooseFile \/ AnswerFailed \/ OpenLock \/ GuiFault
         \/ \E s \in Slots : StatusChanged(s)
         \/ \E d \in Devices : CloseEditor(d) \/ EditImage(d)
  PROVE  LocalInv'
  <1> USE DEF LocalInv, GuiInv, NoFault, NoOrphan, EjectKnowsItsImage, PointersGood,
              EjectedIsOutside, LocksHeld, EjectPcs, SavePcs, LockPcs, Installed, GuiGoes, GuiStates
  <1>0. /\ gui \in GuiStates
        /\ lock \in [Devices -> {"free", "worker", "gui"}] /\ explorer \subseteq Devices
        /\ worker.pc \in {"try", "handle", "unlock"} => worker.dev \in Devices
        /\ gui.pc \in SavePcs \cup {"openLock"} => gui.save \in Devices
        /\ gui.op \in {"eject", "mount"} => gui.slot \in Slots
    BY GuiTypes
  <1>1. gui.pc \in SavePcs \cup {"openLock"} => gui.save \in table.alive
    BY <1>0 DEF TableInv, DeadHasNoNumber
  <1>2. CASE Check
    BY <1>0, <1>2 DEF Check
  <1>3. CASE Confirm
    BY <1>0, <1>3 DEF Confirm
  <1>4. CASE SaveGet
    <2>1. /\ gui.op \in {"eject", "mount"} /\ gui.slot \in Slots /\ gui.dev = table.dev[gui.slot]
          /\ gui.dev # None
      BY <1>0, <1>4 DEF SaveGet
    <2>2. table.num[table.dev[gui.slot]] # None
      BY <2>1, InstalledExists, TableAssumption
    <2>3. PICK pc \in SaveOrSaveAs : gui' = [gui EXCEPT !.pc = pc, !.save = table.dev[gui.slot]]
      BY <1>4, <2>1 DEF SaveGet
    <2>4. /\ gui'.pc = pc /\ gui'.op = gui.op /\ gui'.slot = gui.slot
          /\ gui'.save = table.dev[gui.slot] /\ gui'.dev = gui.dev /\ gui'.new = gui.new
          /\ gui'.auto = None /\ UNCHANGED <<table, lock, explorer, worker>>
      BY <1>0, <1>4, <2>3 DEF SaveGet
    <2> QED
      BY <1>0, <1>4, <2>1, <2>2, <2>4, TableAssumption DEF SaveGet, SaveOrSaveAs
  <1>4a. CASE SaveAsGet
    <2>1. gui.slot \in Slots /\ table.dev[gui.slot] # None
      BY <1>0, <1>4a DEF SaveAsGet
    <2>2. table.num[table.dev[gui.slot]] # None
      BY <2>1, InstalledExists, TableAssumption
    <2>3. gui' = [gui EXCEPT !.pc = "chooser", !.save = table.dev[gui.slot], !.saver = "saveDiskAs"]
      BY <1>4a, <2>1 DEF SaveAsGet
    <2>4. gui.op # "revert"
      BY <1>0, <1>4a DEF SaveAsGet
    <2>5. /\ gui'.pc = "chooser" /\ gui'.op = gui.op /\ gui'.slot = gui.slot
          /\ gui'.save = table.dev[gui.slot] /\ gui'.dev = gui.dev /\ gui'.new = gui.new
          /\ gui'.auto = None /\ UNCHANGED <<table, lock, explorer, worker>>
      BY <1>0, <1>4a, <2>3 DEF SaveAsGet
    <2> QED
      BY <1>0, <1>4a, <2>1, <2>2, <2>4, <2>5, TableAssumption DEF SaveAsGet
  <1>5. CASE LockImage
    BY <1>0, <1>5 DEF LockImage
  <1>6. CASE SaveImage
    BY <1>0, <1>6 DEF SaveImage
  <1>6a. ASSUME AfterSave, UNCHANGED table, gui.pc \in SavePcs
         PROVE  GuiInv' /\ gui'.pc \in {"idle", "uninstall"}
    <2>1. CASE gui.op \in {"eject", "mount"}
      <3>1. /\ gui'.pc = "uninstall" /\ gui'.op = gui.op /\ gui'.slot = gui.slot
            /\ gui'.dev = gui.dev /\ gui'.new = gui.new /\ gui'.auto = None
        BY <1>0, <1>6a, <2>1 DEF AfterSave
      <3> QED
        BY <1>6a, <2>1, <3>1
    <2>2. CASE gui.op \notin {"eject", "mount"}
      BY <1>6a, <2>2 DEF AfterSave, GuiIdle
    <2> QED
      BY <2>1, <2>2
  <1>6b. ASSUME UNCHANGED <<lock, explorer, worker>>, gui'.pc \notin LockPcs
         PROVE  worker'.pc # "unmount" /\ LocksHeld'
    BY <1>6b
  <1>7. CASE UnlockImage
    <2>1. gui.save \in Devices /\ lock[gui.save] = "gui"
      BY <1>0, <1>7 DEF UnlockImage
    <2>2. /\ gui.save \notin explorer
          /\ worker.dev # gui.save \/ worker.pc \notin {"handle", "unlock"}
      BY <1>7, <2>1 DEF UnlockImage
    <2>3. /\ lock' = [lock EXCEPT ![gui.save] = "free"]
          /\ UNCHANGED <<table, explorer, worker>>
      BY <1>7 DEF UnlockImage
    <2>4. gui'.pc \in {"idle", "uninstall", "failed"} /\ GuiInv'
      <3>1. CASE gui.pc = "unlock"
        BY <1>6a, <1>7, <2>3, <3>1 DEF UnlockImage
      <3>2. CASE gui.pc = "unlockFailed"
        BY <1>0, <1>7, <2>3, <3>2 DEF UnlockImage
      <3> QED
        BY <1>7, <3>1, <3>2 DEF UnlockImage
    <2>5. worker'.pc # "unmount" /\ LocksHeld'
      BY <1>0, <2>1, <2>2, <2>3, <2>4
    <2> QED
      BY <2>4, <2>5
  <1>7a. CASE ChooseFile
    <2>1. UNCHANGED <<table, lock, explorer, worker>> /\ gui.pc = "chooser"
      BY <1>7a DEF ChooseFile
    <2>2. CASE AfterSave
      BY <1>6a, <1>6b, <2>1, <2>2
    <2>3. CASE ~ AfterSave
      BY <1>0, <1>7a, <2>1, <2>3 DEF ChooseFile
    <2> QED
      BY <2>2, <2>3
  <1>7b. CASE AnswerFailed
    <2>1. UNCHANGED <<table, lock, explorer, worker>> /\ gui.pc = "failed"
      BY <1>7b DEF AnswerFailed
    <2>2. CASE AfterSave
      BY <1>6a, <1>6b, <2>1, <2>2
    <2>3. CASE ~ AfterSave
      <3>1. PICK pc \in {"chooser", "saveAs"} : gui' = [gui EXCEPT !.pc = pc]
        BY <1>7b, <2>3 DEF AnswerFailed
      <3>2. /\ gui'.pc = pc /\ gui'.op = gui.op /\ gui'.slot = gui.slot /\ gui'.save = gui.save
            /\ gui'.dev = gui.dev /\ gui'.new = gui.new /\ gui'.auto = None
        BY <1>0, <3>1
      <3>3. gui.save # None /\ gui.save = table.dev[gui.slot] /\ gui.slot # None
        BY <2>1
      <3>4. GuiInv'
        BY <2>1, <3>2, <3>3
      <3> QED
        BY <1>6b, <2>1, <3>2, <3>4
    <2> QED
      BY <2>2, <2>3
  <1>7c. ASSUME NEW s \in Slots, StatusChanged(s)
         PROVE  LocalInv'
    <2>1. table.dev[s] # None /\ table.num[table.dev[s]] # None
      BY <1>7c, InstalledExists, TableAssumption DEF StatusChanged
    <2>2. /\ gui'.pc = gui.pc /\ gui'.op = gui.op /\ gui'.slot = gui.slot /\ gui'.save = gui.save
          /\ gui'.dev = gui.dev /\ gui'.new = gui.new /\ gui'.auto = table.dev[s]
          /\ UNCHANGED <<table, lock, explorer, worker>> /\ gui.pc \in EventLoops
      BY <1>0, <1>7c DEF StatusChanged
    <2> QED
      BY <2>1, <2>2
  <1>8. CASE AnswerRevert
    BY <1>0, <1>8 DEF AnswerRevert, GuiIdle
  <1>9. CASE OpenLock
    <2>1. /\ gui.dev = None /\ gui.new = None /\ gui' = GuiIdle /\ gui.save \in Devices
          /\ lock' = [lock EXCEPT ![gui.save] = "gui"] /\ lock[gui.save] = "free"
          /\ explorer' = explorer \cup {gui.save} /\ UNCHANGED <<table, worker>>
      BY <1>0, <1>9 DEF OpenLock
    <2>2. worker'.pc # "unmount" /\ LocksHeld'
      BY <1>0, <2>1 DEF GuiIdle
    <2>3. GuiInv'
      BY <2>1 DEF GuiIdle
    <2> QED
      BY <2>2, <2>3
  <1>10. CASE GuiFault
    <2>1. gui.pc = "check" => gui.dev \in table.alive
      BY <1>0, InstalledExists
    <2>2. gui.pc = "install" => gui.new \in table.alive
      BY DEF TableInv, OperandsKnown
    <2> QED
      BY <1>1, <1>10, <2>1, <2>2 DEF GuiFault
  <1>11. ASSUME NEW d \in Devices, CloseEditor(d)
         PROVE  LocalInv'
    BY <1>0, <1>11 DEF CloseEditor, GuiIdle
  <1>12. ASSUME NEW d \in Devices, EditImage(d)
         PROVE  LocalInv'
    BY <1>0, <1>12 DEF EditImage, GuiIdle
  <1> QED
    BY <1>2, <1>3, <1>4, <1>4a, <1>5, <1>6, <1>7, <1>7a, <1>7b, <1>7c, <1>8, <1>9, <1>10, <1>11,
       <1>12

(* The automatic save ends where it began, or astray.                       *)
LEMMA AutoSaveLocalInv ==
  ASSUME TableInv, LocalInv, gui.auto # None, AutoSave \/ AutoFault
  PROVE  LocalInv'
  <1>1. gui.auto \in Devices /\ table.num[gui.auto] # None /\ gui.pc \in EventLoops
    BY GuiTypes DEF LocalInv, GuiInv, PointersGood, GuiStates, Pointers
  <1>2. gui.auto \in table.alive
    BY <1>1 DEF TableInv, DeadHasNoNumber, EventLoops
  <1>3. UNCHANGED <<table, lock, explorer, worker>>
    BY <1>2 DEF AutoSave, AutoFault
  <1>4. PICK pc \in {gui.pc, "astray"} : gui' = [gui EXCEPT !.auto = None, !.pc = pc]
    BY <1>2, GuiTypes DEF AutoSave, AutoFault, GuiStates
  <1>5. /\ gui'.pc = pc /\ gui'.op = gui.op /\ gui'.slot = gui.slot /\ gui'.save = gui.save
        /\ gui'.dev = gui.dev /\ gui'.new = gui.new /\ gui'.auto = None
    BY <1>4, GuiTypes DEF GuiStates
  <1> QED
    BY <1>1, <1>3, <1>5
       DEF LocalInv, GuiInv, NoFault, NoOrphan, EjectKnowsItsImage, PointersGood,
           EjectedIsOutside, LocksHeld, EjectPcs, SavePcs, LockPcs, EventLoops, Installed

(* The answer to "save it?": a cancelled mount deletes the disk it opened.  *)
LEMMA AnswerLocalInv ==
  ASSUME TableInv, LocalInv, gui.auto = None, NEW a \in AllAnswers, Answer(a)
  PROVE  LocalInv'
  <1> USE DEF GuiInv, NoFault, NoOrphan, EjectKnowsItsImage, PointersGood,
              EjectedIsOutside, EjectPcs, SavePcs, GuiGoes, GuiStates
  <1>1. /\ gui.pc = "prompt" /\ UNCHANGED <<lock, explorer, worker>>
        /\ gui.slot \in Slots /\ gui.dev = table.dev[gui.slot] /\ gui.dev # None
        /\ gui.op \in {"eject", "mount"}
    BY GuiTypes DEF Answer, LocalInv
  <1>2. gui.dev \in Devices /\ table.num[gui.dev] # None /\ gui.dev \in table.alive
    BY <1>1, InstalledExists, TableAssumption
  <1>3. gui \in GuiStates
    BY GuiTypes
  <1>4. LocksHeld' /\ worker'.pc # "unmount"
    BY <1>1, <1>3 DEF Answer, LocalInv, LocksHeld, LockPcs, GuiIdle
  <1>5. CASE a # "Cancel"
    BY <1>1, <1>2, <1>3, <1>4, <1>5 DEF Answer, LocalInv, Installed
  <1>6. CASE a = "Cancel"
    <2>1. gui' = GuiIdle
      BY <1>6 DEF Answer
    <2>2. ASSUME NEW d \in table'.alive
          PROVE  d \in Installed(table')
      <3>1. CASE gui.new = None
        <4>1. table' = table
          BY <1>6, <3>1 DEF Answer
        <4> QED
          BY <1>2, <2>2, <3>1, <4>1, GuiTypes, TableAssumption DEF LocalInv, Installed, Tables
      <3>2. CASE gui.new # None
        <4>1. gui.new \in Devices /\ table' = Delete(table, gui.new)
          BY <1>3, <1>6, <3>2 DEF Answer, Pointers
        <4>2. table'.alive = table.alive \ {gui.new} /\ table'.num = [table.num EXCEPT ![gui.new] = None]
          BY <4>1, DeleteEffect, GuiTypes
        <4>3. d \in Devices /\ table.num[d] # None
          BY <1>2, <2>2, <4>2 DEF LocalInv, Installed
        <4>4. table'.num[d] = table.num[d]
          BY <2>2, <4>2, <4>3, GuiTypes DEF Tables
        <4> QED
          BY <4>3, <4>4 DEF Installed
      <3> QED
        BY <3>1, <3>2
    <2>3. GuiInv'
      BY <2>1, <2>2 DEF GuiIdle
    <2> QED
      BY <1>4, <2>3 DEF LocalInv
  <1> QED
    BY <1>5, <1>6

(* The eject takes out of the table the very image it has looked at.        *)
LEMMA UninstallLocalInv ==
  ASSUME TableInv, LocalInv, gui.auto = None, UninstallSlot
  PROVE  LocalInv'
  <1> USE DEF GuiInv, NoFault, NoOrphan, EjectKnowsItsImage, PointersGood,
              EjectedIsOutside, EjectPcs, SavePcs, GuiStates
  <1>1. /\ gui.pc = "uninstall" /\ UNCHANGED <<lock, explorer, worker>>
        /\ gui.slot \in Slots /\ gui.dev = table.dev[gui.slot] /\ gui.op \in {"eject", "mount"}
        /\ table' = Uninstall(table, gui.slot)
    BY GuiTypes DEF UninstallSlot, LocalInv
  <1>2. /\ table'.alive = table.alive /\ table'.dev = [table.dev EXCEPT ![gui.slot] = None]
        /\ \A d \in Devices : table'.num[d] = IF gui.dev = d THEN None ELSE table.num[d]
    BY <1>1, UninstallEffect, GuiTypes
  <1>3. /\ gui \in GuiStates
        /\ table \in Tables
    BY GuiTypes
  <1>4. gui.dev # None =>
          gui.dev \in Devices /\ table.num[gui.dev] # None /\ gui.dev \in table.alive
    BY <1>1, InstalledExists, TableAssumption
  <1>5. \/ gui.dev = None /\ gui.op = "eject" /\ gui' = GuiIdle
        \/ gui.dev = None /\ gui.op = "mount" /\ gui' = [gui EXCEPT !.pc = "install"]
        \/ gui.dev # None /\ gui' = [gui EXCEPT !.pc = "delete"]
    BY <1>1 DEF UninstallSlot, AfterEject, GuiGoes
  <1>6. LocksHeld' /\ worker'.pc # "unmount"
    BY <1>1, <1>3, <1>5 DEF LocalInv, LocksHeld, LockPcs, GuiIdle
  <1>7. table'.dev[gui.slot] = None
    BY <1>1, <1>2, <1>3 DEF Tables
  <1>8. table.alive \subseteq Devices /\ None \notin table.alive
    BY <1>3, TableAssumption DEF Tables
  <1>9. \A d \in table'.alive : d \in Installed(table') \cup {gui.dev, gui.new}
    BY <1>2, <1>8 DEF LocalInv, Installed
  <1>10. CASE gui.dev = None /\ gui.op = "eject" /\ gui' = GuiIdle
    BY <1>6, <1>8, <1>9, <1>10, <1>2 DEF LocalInv, GuiIdle
  <1>11. CASE gui.dev = None /\ gui.op = "mount" /\ gui' = [gui EXCEPT !.pc = "install"]
    BY <1>1, <1>2, <1>3, <1>6, <1>7, <1>8, <1>9, <1>11 DEF LocalInv
  <1>12. CASE gui.dev # None /\ gui' = [gui EXCEPT !.pc = "delete"]
    BY <1>1, <1>2, <1>3, <1>4, <1>6, <1>7, <1>9, <1>12 DEF LocalInv
  <1> QED
    BY <1>5, <1>10, <1>11, <1>12

(* What is deleted is outside of the table: no handler works on it.         *)
LEMMA DeleteLocalInv ==
  ASSUME TableInv, LocalInv, gui.auto = None, DeleteImage \/ FinishDelete
  PROVE  LocalInv'
  <1> USE DEF GuiInv, NoFault, NoOrphan, EjectKnowsItsImage, PointersGood,
              EjectedIsOutside, EjectPcs, SavePcs, GuiGoes, GuiStates
  <1>1. /\ gui.pc \in {"delete", "dtor"} /\ gui.dev \in Devices /\ table.num[gui.dev] = None
        /\ gui.op \in {"eject", "mount"}
    BY DEF DeleteImage, FinishDelete, LocalInv, TableInv, TypeOK, Pointers
  <1>2. gui \in GuiStates
    BY GuiTypes
  <1>3. worker.pc \in {"try", "handle", "unlock"} => worker.dev # gui.dev
    BY <1>1 DEF TableInv, ServedIsInside
  <1>4. CASE DeleteImage
    <2>1. /\ table'.dev = table.dev /\ table'.num = table.num
          /\ table'.alive = table.alive \ {gui.dev}
          /\ explorer' = explorer \ {gui.dev} /\ worker' = worker
          /\ lock' = [d \in Devices |-> IF d \in {gui.dev} THEN "free" ELSE lock[d]]
          /\ gui' = [gui EXCEPT !.pc = "dtor"] /\ gui.pc = "delete"
      BY <1>4 DEF DeleteImage, WithAlive, CloseImages
    <2>2. LocksHeld' /\ worker'.pc # "unmount"
      BY <1>2, <1>3, <2>1, GuiTypes DEF LocalInv, LocksHeld, LockPcs
    <2>3. GuiInv'
      BY <1>1, <1>2, <2>1 DEF LocalInv, Installed
    <2> QED
      BY <2>2, <2>3 DEF LocalInv
  <1>5. CASE FinishDelete
    <2>1. /\ table' = table /\ UNCHANGED <<lock, explorer, worker>> /\ gui.pc = "dtor"
          /\ \/ gui.op = "eject" /\ gui' = GuiIdle
             \/ gui.op = "mount" /\ gui' = [gui EXCEPT !.pc = "install"]
      BY <1>1, <1>5 DEF FinishDelete, Unregister, AfterEject
    <2>2. LocksHeld' /\ worker'.pc # "unmount"
      BY <1>2, <2>1 DEF LocalInv, LocksHeld, LockPcs, GuiIdle
    <2>3. CASE gui.op = "eject" /\ gui' = GuiIdle
      <3>1. \A d \in table.alive : d \in Installed(table)
        BY <2>1, <2>3, TableAssumption, GuiTypes DEF LocalInv, Tables
      <3> QED
        BY <2>1, <2>2, <2>3, <3>1 DEF LocalInv, GuiIdle
    <2>4. CASE gui.op = "mount" /\ gui' = [gui EXCEPT !.pc = "install"]
      BY <1>1, <1>2, <2>1, <2>2, <2>4 DEF LocalInv
    <2> QED
      BY <2>1, <2>3, <2>4
  <1> QED
    BY <1>4, <1>5

(* The new disk comes into an empty slot.                                   *)
LEMMA InstallLocalInv ==
  ASSUME TableInv, LocalInv, gui.auto = None, InstallNew
  PROVE  LocalInv'
  <1> USE DEF GuiInv, NoFault, NoOrphan, EjectKnowsItsImage, PointersGood,
              EjectedIsOutside, EjectPcs, SavePcs, GuiStates
  <1>1. /\ table.dev[gui.slot] = None /\ gui' = GuiIdle /\ worker' = worker
        /\ table' = Install(table, gui.slot, gui.new) /\ gui.dev \notin table.alive
        /\ explorer' = explorer
        /\ lock' = [d \in Devices |-> lock[d]]
    BY DEF InstallNew, CloseImages, LocalInv
  <1>2. /\ table'.alive = table.alive \ {None}
        /\ \A d \in Devices :
             table'.num[d] = IF d = gui.new THEN gui.slot
                             ELSE IF d = None THEN None ELSE table.num[d]
    BY <1>1, InstallNewTable
  <1>3. gui.slot # None /\ table.alive \subseteq Devices
    BY GuiTypes, TableAssumption DEF Tables, LocalInv, InstallNew
  <1>4. LocksHeld' /\ worker'.pc # "unmount"
    BY <1>1, GuiTypes DEF LocalInv, LocksHeld, LockPcs, GuiIdle
  <1>5. \A d \in table'.alive : d \in Installed(table')
    BY <1>1, <1>2, <1>3, TableAssumption DEF LocalInv, Installed
  <1> QED
    BY <1>1, <1>4, <1>5 DEF LocalInv, GuiIdle

LEMMA GuiLocalInv ==
  ASSUME TableInv, LocalInv, GuiNext
  PROVE  LocalInv'
  <1>1. CASE gui.auto = None /\ OperationProceeds
    BY <1>1, SteadyLocalInv, UninstallLocalInv, DeleteLocalInv, InstallLocalInv
       DEF OperationProceeds
  <1>2. CASE gui.auto = None /\ UserActs
    BY <1>2, SwapLocalInv, UserLocalInv, AnswerLocalInv, SteadyLocalInv DEF UserActs
  <1>3. CASE gui.auto # None /\ (AutoSave \/ AutoFault)
    BY <1>3, AutoSaveLocalInv
  <1> QED
    BY <1>1, <1>2, <1>3 DEF GuiNext, GuiProceeds

LEMMA LocalInvariant == ClientOps = {} => (Spec => []LocalInv)
  <1> SUFFICES ASSUME ClientOps = {}
               PROVE  Spec => []LocalInv
    OBVIOUS
  <1>1. TableInv /\ LocalInv /\ [Next]_vars => LocalInv'
    <2> SUFFICES ASSUME TableInv, LocalInv, [Next]_vars
                 PROVE  LocalInv'
      OBVIOUS
    <2>1. CASE UNCHANGED vars
      BY <2>1 DEF vars, LocalInv, GuiInv, NoFault, NoOrphan, EjectKnowsItsImage, PointersGood,
                  EjectedIsOutside, LocksHeld, EjectPcs, SavePcs, LockPcs, Installed
    <2> QED
      BY <2>1, WorkerLocalInv, GuiLocalInv DEF Next
  <1> QED
    BY <1>1, InitLocalInv, TableInvariant, PTL DEF Spec

(* Without a remote client the GUI thread dereferences no dead and no null  *)
(* pointer, for any number of drives and images.                            *)
THEOREM NoFaultWithoutClient == ClientOps = {} => (Spec => []NoFault)
  <1>1. LocalInv => NoFault
    BY DEF LocalInv, GuiInv
  <1> QED
    BY <1>1, LocalInvariant, PTL

(* ... no image is left where nothing can reach it ...                      *)
THEOREM NoOrphanWithoutClient == ClientOps = {} => (Spec => []NoOrphan)
  <1>1. LocalInv => NoOrphan
    BY DEF LocalInv, GuiInv
  <1> QED
    BY <1>1, LocalInvariant, PTL

(* ... a command's handler never runs on a deleted image ...                *)
THEOREM HandledAliveWithoutClient == ClientOps = {} => (Spec => []HandledAlive)
  <1>1. TableInv /\ LocalInv => HandledAlive
    BY GuiTypes DEF TableInv, DeadHasNoNumber, ServedIsInside, LocalInv, GuiInv,
                    EjectedIsOutside, HandledAlive
  <1> QED
    BY <1>1, LocalInvariant, TableInvariant, PTL

(* ... and while it runs, neither the explorer nor a save or revert that    *)
(* takes the image's lock uses the image (deviceStatusChanged takes none).  *)
THEOREM OneUserWithoutClient == ClientOps = {} => (Spec => []OneUser)
  <1>1. LocalInv => OneUser
    BY DEF LocalInv, LocksHeld, LockPcs, OneUser
  <1> QED
    BY <1>1, LocalInvariant, PTL

=============================================================================
