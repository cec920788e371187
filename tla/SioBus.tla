------------------------------- MODULE SioBus -------------------------------
(***************************************************************************)
(* The disk drives of the emulator as two threads share them: the SIO      *)
(* worker (SioWorker::run), which serves the Atari's command frames and    *)
(* also runs the remote-control commands of the AspeQt client (AspeCl),    *)
(* and the GUI thread (MainWindow, DiskEditDialog), which mounts, ejects,  *)
(* swaps, saves and explores images.                                       *)
(*                                                                         *)
(* Two kinds of lock protect them.  deviceMutex guards the table and is    *)
(* held by the worker from the look-up of a command's device to the end of *)
(* its handler; SioDevice::mLock is held by the worker while a handler     *)
(* runs, by the GUI while it saves, and by the image explorer for as long  *)
(* as its window is open; the automatic save of deviceStatusChanged takes  *)
(* neither.  The GUI keeps raw pointers between steps, and those are what  *)
(* goes wrong.                                                             *)
(***************************************************************************)
EXTENDS DeviceTable

CONSTANTS
  GuiOps,     \* what the user does: subset of AllGuiOps
  ClientOps,  \* what the remote client does: subset of AllClientOps
  Answers     \* how the user answers "save it?": subset of AllAnswers

AllGuiOps    == {"mount", "eject", "swap", "save", "revert", "edit", "autosave"}
AllClientOps == {"swap", "unmount"}
AllAnswers   == {"Yes", "No", "Cancel"}

ASSUME OperationsAssumption ==
  /\ GuiOps \subseteq AllGuiOps
  /\ ClientOps \subseteq AllClientOps
  /\ Answers \subseteq AllAnswers

VARIABLES
  table,     \* SioWorker::devices, m_deviceNo and the objects
  lock,      \* SioDevice::mLock: "free", or the thread that holds it
  modified,  \* SimpleDiskImage::m_isModified
  explorer,  \* images whose m_editDialog is open
  worker,    \* the worker thread: where it is, its device, slots to unmount
  gui        \* the GUI thread: where it is and the pointers it keeps

vars == <<table, lock, modified, explorer, worker, gui>>

WorkerPcs == {"idle", "try", "handle", "unlock", "unmount"}
GuiPcs    == {"idle", "check", "confirm", "prompt", "uninstall", "delete", "dtor",
              "install", "saveGet", "saveAs", "chooser", "ask", "lock", "saving",
              "unlock", "unlockFailed", "failed", "openLock", "crash", "astray"}

(* Where the GUI thread runs an event loop: its own, or a modal dialog's.   *)
EventLoops == {"idle", "prompt", "ask", "chooser", "failed"}

Pointers == Devices \cup {None}

GuiStates == [pc : GuiPcs, op : AllGuiOps \cup {"none"}, slot : Slots \cup {None},
              dev : Pointers, save : Pointers, new : Pointers,
              saver : {"saveDisk", "saveDiskAs"},
              auto : Pointers]   \* the image deviceStatusChanged has looked up

TypeOK ==
  /\ table \in Tables
  /\ lock \in [Devices -> {"free", "worker", "gui"}]
  /\ modified \in [Devices -> BOOLEAN]
  /\ explorer \in SUBSET Devices
  /\ worker \in [pc : WorkerPcs, dev : Pointers, todo : SUBSET Slots]
  /\ gui \in GuiStates
  /\ worker.dev # None <=> worker.pc \in {"try", "handle", "unlock"}
  /\ worker.todo # {} <=> worker.pc = "unmount"
  /\ gui.slot = None => gui.pc \in {"idle", "ask", "lock", "saving", "unlock", "openLock",
                                    "crash", "astray"}
  /\ gui.pc \in {"check", "confirm", "prompt", "delete", "dtor"} => gui.dev # None
  /\ gui.pc = "install" => gui.new # None

WorkerIdle == [pc |-> "idle", dev |-> None, todo |-> {}]

GuiIdle == [pc |-> "idle", op |-> "none", slot |-> None,
            dev |-> None, save |-> None, new |-> None, saver |-> "saveDisk", auto |-> None]

Init ==
  /\ table = EmptyTable
  /\ lock = [d \in Devices |-> "free"]
  /\ modified = [d \in Devices |-> FALSE]
  /\ explorer = {}
  /\ worker = WorkerIdle
  /\ gui = GuiIdle

-----------------------------------------------------------------------------
(* deviceMutex belongs to the worker from the look-up to the end of the     *)
(* handler; the GUI's own critical sections are single steps.               *)
MutexFree == worker.pc = "idle"

(* ~SimpleDiskImage -> close(): the explorer window goes with its image.    *)
CloseImages(ds) ==
  /\ explorer' = explorer \ ds
  /\ lock' = [d \in Devices |-> IF d \in ds THEN "free" ELSE lock[d]]
  /\ modified' = [d \in Devices |-> d \notin ds /\ modified[d]]

-----------------------------------------------------------------------------
(* The worker: one command frame at a time.                                 *)

(* deviceMutex->lock() and devices[no]; a frame for an empty slot changes   *)
(* nothing.                                                                 *)
Dispatch(s) ==
  /\ worker.pc = "idle"
  /\ table.dev[s] # None
  /\ worker' = [worker EXCEPT !.pc = "try", !.dev = table.dev[s]]
  /\ UNCHANGED <<table, lock, modified, explorer, gui>>

(* Mutant: the lock is not asked for.                                       *)
TryLockIgnored ==
  /\ worker.pc = "try"
  /\ worker' = [worker EXCEPT !.pc = "handle"]
  /\ lock' = [lock EXCEPT ![worker.dev] = "worker"]
  /\ UNCHANGED <<table, modified, explorer, gui>>

(* Mutant: lock() for tryLock(), the worker waits with deviceMutex held.    *)
LockForTryLock ==
  /\ worker.pc = "try"
  /\ lock[worker.dev] = "free"
  /\ worker' = [worker EXCEPT !.pc = "handle"]
  /\ lock' = [lock EXCEPT ![worker.dev] = "worker"]
  /\ UNCHANGED <<table, modified, explorer, gui>>

(* devices[no]->tryLock(): the command is dropped, not queued, when the     *)
(* image is locked.                                                         *)
TryLock ==
  /\ worker.pc = "try"
  /\ IF lock[worker.dev] = "free"
       THEN /\ worker' = [worker EXCEPT !.pc = "handle"]
            /\ lock' = [lock EXCEPT ![worker.dev] = "worker"]
       ELSE /\ worker' = WorkerIdle
            /\ UNCHANGED lock
  /\ UNCHANGED <<table, modified, explorer, gui>>

(* handleCommand: a write or a format of a writable image marks it          *)
(* modified, every other command leaves it.                                 *)
Handle ==
  /\ worker.pc = "handle"
  /\ \E m \in {modified[worker.dev], TRUE} :
        modified' = [modified EXCEPT ![worker.dev] = m]
  /\ worker' = [worker EXCEPT !.pc = "unlock"]
  /\ UNCHANGED <<table, lock, explorer, gui>>

(* Mutant: the worker keeps the device of the command it has finished.      *)
WorkerUnlockKeepsDevice ==
  /\ worker.pc = "unlock"
  /\ lock' = [lock EXCEPT ![worker.dev] = "free"]
  /\ worker' = [worker EXCEPT !.pc = "idle"]
  /\ UNCHANGED <<table, modified, explorer, gui>>

WorkerUnlock ==
  /\ worker.pc = "unlock"
  /\ lock' = [lock EXCEPT ![worker.dev] = "free"]
  /\ worker' = WorkerIdle
  /\ UNCHANGED <<table, modified, explorer, gui>>

(* AspeCl 0x94: invalid or equal drive numbers are refused.                 *)
ClientSwap(a, b) ==
  /\ "swap" \in ClientOps
  /\ worker.pc = "idle"
  /\ a # b
  /\ table' = Swap(table, a, b)
  /\ UNCHANGED <<lock, modified, explorer, worker, gui>>

(* Mutant: the images are not asked whether they are modified.              *)
ClientUnmountUnchecked(ss) ==
  /\ "unmount" \in ClientOps
  /\ worker.pc = "idle"
  /\ worker' = [worker EXCEPT !.pc = "unmount", !.todo = ss]
  /\ UNCHANGED <<table, lock, modified, explorer, gui>>

(* AspeCl 0x95 for one drive or for all of them: refused when one of the    *)
(* images is modified, otherwise the drives are emptied one after another.  *)
ClientUnmount(ss) ==
  /\ "unmount" \in ClientOps
  /\ worker.pc = "idle"
  /\ \A s \in ss : table.dev[s] # None => ~modified[table.dev[s]]
  /\ worker' = [worker EXCEPT !.pc = "unmount", !.todo = ss]
  /\ UNCHANGED <<table, lock, modified, explorer, gui>>

(* uninstallDevice and delete, with nothing asked of the image's lock.      *)
UnmountNext(s) ==
  /\ worker.pc = "unmount"
  /\ s \in worker.todo
  /\ LET d == table.dev[s]
     IN  IF d = None
           THEN UNCHANGED <<table, lock, modified, explorer>>
           ELSE /\ table' = Delete(Uninstall(table, s), d)
                /\ CloseImages({d})
  /\ worker' = IF worker.todo = {s} THEN WorkerIdle
                                    ELSE [worker EXCEPT !.todo = @ \ {s}]
  /\ UNCHANGED gui

WorkerNext ==
  \/ \E s \in Slots : Dispatch(s) \/ UnmountNext(s) \/ ClientUnmount({s})
  \/ ClientUnmount(Slots)
  \/ \E a, b \in Slots : ClientSwap(a, b)
  \/ TryLock \/ Handle \/ WorkerUnlock

-----------------------------------------------------------------------------
(* The GUI thread.  Between two steps it holds raw pointers in gui.dev,     *)
(* gui.save and gui.new; a step that dereferences one is enabled only while *)
(* the object exists, and GuiFault is what happens otherwise.               *)

GuiGoes(pc) == gui' = [gui EXCEPT !.pc = pc]

(* What ejectImage returns to: mountFile goes on to install its new disk.   *)
AfterEject == IF gui.op = "mount" THEN GuiGoes("install") ELSE gui' = GuiIdle

(* ejectImage(no): getDevice, then isModified if there is an image.         *)
StartEject(op, s, d) ==
  gui' = [gui EXCEPT !.pc = IF table.dev[s] = None THEN "uninstall" ELSE "check",
                     !.op = op, !.slot = s, !.dev = table.dev[s], !.new = d]

Eject(s) ==
  /\ "eject" \in GuiOps
  /\ gui.pc = "idle"
  /\ MutexFree
  /\ table.dev[s] # None
  /\ StartEject("eject", s, None)
  /\ UNCHANGED <<table, lock, modified, explorer, worker>>

(* mountFile and on_actionNewImage: the disk is opened or created first     *)
(* (a new or repaired image is born modified), then the slot is ejected.    *)
Mount(s, d) ==
  /\ "mount" \in GuiOps
  /\ gui.pc = "idle"
  /\ MutexFree
  /\ d \notin table.alive
  /\ table' = Construct(table, d)
  /\ \E m \in BOOLEAN : modified' = [modified EXCEPT ![d] = m]
  /\ StartEject("mount", s, d)
  /\ UNCHANGED <<lock, explorer, worker>>

Check ==
  /\ gui.pc = "check"
  /\ gui.dev \in table.alive
  /\ GuiGoes(IF modified[gui.dev] THEN "confirm" ELSE "uninstall")
  /\ UNCHANGED <<table, lock, modified, explorer, worker>>

(* saveImageWhenClosing looks the image up again to name it in the dialog.  *)
Confirm ==
  /\ gui.pc = "confirm"
  /\ MutexFree
  /\ GuiGoes(IF table.dev[gui.slot] = None THEN "crash" ELSE "prompt")
  /\ UNCHANGED <<table, lock, modified, explorer, worker>>

(* Mutant: mountFile ignores that ejectImage was cancelled.                 *)
AnswerIgnored(a) ==
  /\ gui.pc = "prompt"
  /\ a \in Answers
  /\ \/ a = "Yes" /\ GuiGoes("saveGet") /\ UNCHANGED table
     \/ a = "No" /\ GuiGoes("uninstall") /\ UNCHANGED table
     \/ /\ a = "Cancel"
        /\ table' = IF gui.new = None THEN table ELSE Delete(table, gui.new)
        /\ AfterEject
  /\ UNCHANGED <<lock, modified, explorer, worker>>

(* Mutant: a cancelled mount forgets the disk it has opened.                *)
AnswerLeaks(a) ==
  /\ gui.pc = "prompt"
  /\ a \in Answers
  /\ \/ a = "Yes" /\ GuiGoes("saveGet") /\ UNCHANGED table
     \/ a = "No" /\ GuiGoes("uninstall") /\ UNCHANGED table
     \/ a = "Cancel" /\ gui' = GuiIdle /\ UNCHANGED table
  /\ UNCHANGED <<lock, modified, explorer, worker>>

(* The modal question.  Cancel abandons the operation, and mountFile then   *)
(* deletes the disk it had opened.                                          *)
Answer(a) ==
  /\ gui.pc = "prompt"
  /\ a \in Answers
  /\ \/ a = "Yes" /\ GuiGoes("saveGet") /\ UNCHANGED table
     \/ a = "No" /\ GuiGoes("uninstall") /\ UNCHANGED table
     \/ /\ a = "Cancel"
        /\ table' = IF gui.new = None THEN table ELSE Delete(table, gui.new)
        /\ gui' = GuiIdle
  /\ UNCHANGED <<lock, modified, explorer, worker>>

(* Mutant: uninstallDevice without deviceMutex.                             *)
UninstallUnlocked ==
  /\ gui.pc = "uninstall"
  /\ table' = Uninstall(table, gui.slot)
  /\ IF gui.dev = None THEN AfterEject ELSE GuiGoes("delete")
  /\ UNCHANGED <<lock, modified, explorer, worker>>

UninstallSlot ==
  /\ gui.pc = "uninstall"
  /\ MutexFree
  /\ table' = Uninstall(table, gui.slot)
  /\ IF gui.dev = None THEN AfterEject ELSE GuiGoes("delete")
  /\ UNCHANGED <<lock, modified, explorer, worker>>

(* delete img: ~SimpleDiskImage closes the file and the explorer at once,   *)
(* ~SioDevice then waits for deviceMutex if the object still has a number.  *)
DeleteImage ==
  /\ gui.pc = "delete"
  /\ gui.dev \in table.alive
  /\ table' = WithAlive(table, table.alive \ {gui.dev})
  /\ CloseImages({gui.dev})
  /\ GuiGoes("dtor")
  /\ UNCHANGED worker

FinishDelete ==
  /\ gui.pc = "dtor"
  /\ table.num[gui.dev] # None => MutexFree
  /\ table' = Unregister(table, gui.dev)
  /\ AfterEject
  /\ UNCHANGED <<lock, modified, explorer, worker>>

(* installDevice deletes whatever has come into the slot since the eject.   *)
InstallNew ==
  /\ gui.pc = "install"
  /\ gui.new \in table.alive
  /\ MutexFree
  /\ table' = Install(table, gui.slot, gui.new)
  /\ CloseImages({table.dev[gui.slot]} \ {None})
  /\ gui' = GuiIdle
  /\ UNCHANGED worker

(* dropEvent of one disk row on another.                                    *)
DropSwap(a, b) ==
  /\ "swap" \in GuiOps
  /\ gui.pc = "idle"
  /\ MutexFree
  /\ a # b
  /\ table' = Swap(table, a, b)
  /\ UNCHANGED <<lock, modified, explorer, worker, gui>>

(* saveDisk and autoSaveDisk: getDevice, then lock(), save(), unlock(); an  *)
(* image that has no name yet is left to saveDiskAs, which looks it up again*)
(* and asks for one.                                                        *)
SaveOrSaveAs == {"lock", "saveAs"}

Save(s) ==
  /\ "save" \in GuiOps
  /\ gui.pc = "idle"
  /\ MutexFree
  /\ table.dev[s] # None
  /\ \E pc \in SaveOrSaveAs :
        gui' = [gui EXCEPT !.pc = pc, !.op = "save", !.slot = s, !.save = table.dev[s]]
  /\ UNCHANGED <<table, lock, modified, explorer, worker>>

(* revertDisk: a question, then lock(), reopen(), unlock().                 *)
Revert(s) ==
  /\ "revert" \in GuiOps
  /\ gui.pc = "idle"
  /\ MutexFree
  /\ table.dev[s] # None
  /\ gui' = [gui EXCEPT !.pc = "ask", !.op = "revert", !.save = table.dev[s]]
  /\ UNCHANGED <<table, lock, modified, explorer, worker>>

AnswerRevert ==
  /\ gui.pc = "ask"
  /\ GuiGoes("lock") \/ gui' = GuiIdle
  /\ UNCHANGED <<table, lock, modified, explorer, worker>>

(* saveDisk(no) called from saveImageWhenClosing: a third look-up.          *)
SaveGet ==
  /\ gui.pc = "saveGet"
  /\ MutexFree
  /\ IF table.dev[gui.slot] = None
       THEN GuiGoes("crash")
       ELSE \E pc \in SaveOrSaveAs :
              gui' = [gui EXCEPT !.pc = pc, !.save = table.dev[gui.slot]]
  /\ UNCHANGED <<table, lock, modified, explorer, worker>>

(* saveDiskAs(no): a look-up of its own, then the file dialog.              *)
SaveAsGet ==
  /\ gui.pc = "saveAs"
  /\ MutexFree
  /\ gui' = IF table.dev[gui.slot] = None
              THEN [gui EXCEPT !.pc = "crash"]
              ELSE [gui EXCEPT !.pc = "chooser", !.save = table.dev[gui.slot], !.saver = "saveDiskAs"]
  /\ UNCHANGED <<table, lock, modified, explorer, worker>>

(* Back in saveDisk's caller, if it was ejectImage, the eject goes on       *)
(* whether or not anything has been saved.                                  *)
AfterSave ==
  gui' = IF gui.op \in {"eject", "mount"}
           THEN [gui EXCEPT !.pc = "uninstall", !.save = None, !.saver = "saveDisk"]
           ELSE GuiIdle

ChooseFile ==
  /\ gui.pc = "chooser"
  /\ GuiGoes("lock") \/ AfterSave
  /\ UNCHANGED <<table, lock, modified, explorer, worker>>

LockImage ==
  /\ gui.pc = "lock"
  /\ gui.save \in table.alive
  /\ lock[gui.save] = "free"
  /\ lock' = [lock EXCEPT ![gui.save] = "gui"]
  /\ GuiGoes("saving")
  /\ UNCHANGED <<table, modified, explorer, worker>>

(* save() and reopen() clear m_isModified when they succeed; whether        *)
(* reopen() did is not asked.                                               *)
SaveImage ==
  /\ gui.pc = "saving"
  /\ gui.save \in table.alive
  /\ \/ modified' = [modified EXCEPT ![gui.save] = FALSE] /\ GuiGoes("unlock")
     \/ UNCHANGED modified /\ GuiGoes(IF gui.op = "revert" THEN "unlock" ELSE "unlockFailed")
  /\ UNCHANGED <<table, lock, explorer, worker>>

UnlockImage ==
  /\ gui.pc \in {"unlock", "unlockFailed"}
  /\ gui.save \in table.alive
  /\ lock' = [lock EXCEPT ![gui.save] = "free"]
  /\ IF gui.pc = "unlock" THEN AfterSave ELSE GuiGoes("failed")
  /\ UNCHANGED <<table, modified, explorer, worker>>

(* "'%1' cannot be saved, do you want to save the image with another name?" *)
(* saveDiskAs asks for the next name itself, and uses its image once more   *)
(* when the user wants none.                                                *)
AnswerFailed ==
  /\ gui.pc = "failed"
  /\ \/ GuiGoes(IF gui.saver = "saveDiskAs" THEN "chooser" ELSE "saveAs")
     \/ /\ gui.saver = "saveDiskAs" => gui.save \in table.alive
        /\ AfterSave
  /\ UNCHANGED <<table, lock, modified, explorer, worker>>

(* A queued statusChanged, which any event loop of the GUI thread delivers, *)
(* for a drive whose auto-commit button is down.  Bound: deviceStatusChanged*)
(* does not run inside of itself.                                           *)
StatusChanged(s) ==
  /\ "autosave" \in GuiOps
  /\ gui.pc \in EventLoops
  /\ MutexFree
  /\ table.dev[s] # None
  /\ gui' = [gui EXCEPT !.auto = table.dev[s]]
  /\ UNCHANGED <<table, lock, modified, explorer, worker>>

(* isModified and save(), "no need to lock it".  When it fails the user is  *)
(* asked whether to save with another name, and a Yes calls saveDiskAs with *)
(* the device's number for the drive's: it finds no image there.            *)
AutoSave ==
  /\ gui.auto \in table.alive
  /\ \/ /\ modified' = [modified EXCEPT ![gui.auto] = FALSE]
        /\ gui' = [gui EXCEPT !.auto = None]
     \/ /\ gui' = [gui EXCEPT !.auto = None]
        /\ UNCHANGED modified
     \/ /\ modified[gui.auto]
        /\ gui' = [gui EXCEPT !.auto = None, !.pc = "astray"]
        /\ UNCHANGED modified
  /\ UNCHANGED <<table, lock, explorer, worker>>

(* openEditor: the button opens the explorer or closes the one that is      *)
(* open; DiskEditDialog::go takes the image's lock for the whole session.   *)
OpenEditor(s) ==
  /\ "edit" \in GuiOps
  /\ gui.pc = "idle"
  /\ MutexFree
  /\ table.dev[s] # None
  /\ table.dev[s] \notin explorer
  /\ gui' = [gui EXCEPT !.pc = "openLock", !.op = "edit", !.save = table.dev[s]]
  /\ UNCHANGED <<table, lock, modified, explorer, worker>>

OpenLock ==
  /\ gui.pc = "openLock"
  /\ gui.save \in table.alive
  /\ lock[gui.save] = "free"
  /\ lock' = [lock EXCEPT ![gui.save] = "gui"]
  /\ explorer' = explorer \cup {gui.save}
  /\ gui' = GuiIdle
  /\ UNCHANGED <<table, modified, worker>>

(* The window is closed, by its button or by openEditor: ~DiskEditDialog.   *)
CloseEditor(d) ==
  /\ gui.pc = "idle"
  /\ d \in explorer
  /\ explorer' = explorer \ {d}
  /\ lock' = [lock EXCEPT ![d] = "free"]
  /\ UNCHANGED <<table, modified, worker, gui>>

(* Adding or deleting files in the explorer writes sectors of the image.    *)
EditImage(d) ==
  /\ gui.pc = "idle"
  /\ d \in explorer
  /\ modified' = [modified EXCEPT ![d] = TRUE]
  /\ UNCHANGED <<table, lock, explorer, worker, gui>>

(* The pointer the next step dereferences no longer points to an object.    *)
GuiFault ==
  /\ \/ gui.pc \in {"check", "delete"} /\ gui.dev \notin table.alive
     \/ /\ gui.pc \in {"lock", "saving", "unlock", "unlockFailed", "openLock"}
        /\ gui.save \notin table.alive
     \/ gui.pc = "failed" /\ gui.saver = "saveDiskAs" /\ gui.save \notin table.alive
     \/ gui.pc = "install" /\ gui.new \notin table.alive
  /\ GuiGoes("crash")
  /\ UNCHANGED <<table, lock, modified, explorer, worker>>

AutoFault ==
  /\ gui.auto \notin table.alive
  /\ gui' = [gui EXCEPT !.auto = None, !.pc = "crash"]
  /\ UNCHANGED <<table, lock, modified, explorer, worker>>

(* What the GUI thread goes on with, and what it starts, when               *)
(* deviceStatusChanged is not under way.                                    *)
OperationProceeds ==
  \/ Check \/ Confirm \/ UninstallSlot \/ DeleteImage \/ FinishDelete \/ InstallNew
  \/ SaveGet \/ SaveAsGet \/ LockImage \/ SaveImage \/ UnlockImage \/ OpenLock \/ GuiFault

UserActs ==
  \/ \E s \in Slots : Eject(s) \/ Save(s) \/ Revert(s) \/ OpenEditor(s) \/ StatusChanged(s)
  \/ \E s \in Slots, d \in Devices : Mount(s, d)
  \/ \E a, b \in Slots : DropSwap(a, b)
  \/ \E a \in AllAnswers : Answer(a)
  \/ AnswerRevert \/ ChooseFile \/ AnswerFailed
  \/ \E d \in Devices : CloseEditor(d) \/ EditImage(d)

GuiProceeds ==
  \/ gui.auto = None /\ OperationProceeds
  \/ gui.auto # None /\ (AutoSave \/ AutoFault)

GuiNext == GuiProceeds \/ (gui.auto = None /\ UserActs)

Next == WorkerNext \/ GuiNext

Spec == Init /\ [][Next]_vars

(* A handler that has started returns (its port calls have timeouts), and   *)
(* the GUI thread is scheduled.  The worker spends the time between two     *)
(* frames reading the serial line without deviceMutex, so a GUI thread that *)
(* waits for the mutex, or for an image's lock, is not overtaken forever:   *)
(* strong fairness.                                                         *)
Fairness ==
  /\ WF_vars(TryLock) /\ WF_vars(Handle) /\ WF_vars(WorkerUnlock)
  /\ \A s \in Slots : WF_vars(UnmountNext(s))
  /\ SF_vars(GuiProceeds)

FairSpec == Spec /\ Fairness

-----------------------------------------------------------------------------
(* The table and the devices' own numbers agree after every interleaving of *)
(* installDevice, uninstallDevice, swapDevices and ~SioDevice by the two    *)
(* threads: no image answers under two numbers, none under a number it does *)
(* not know of.                                                             *)
TableAgrees == Agrees(table)

(* The handler of a command never runs on a deleted image: deviceMutex is   *)
(* held from the look-up on, and an eject deletes only what it has taken    *)
(* out of the table (run, uninstallDevice, ejectImage).                     *)
HandledAlive == worker.pc \in {"try", "handle", "unlock"} => worker.dev \in table.alive

(* While a handler works on an image, neither the explorer nor a save or    *)
(* revert that takes the image's lock works on it: mLock is exclusive       *)
(* although the worker only tries it, and although a deleted image's lock   *)
(* goes with it.  The exception is gui.auto: the automatic save takes no    *)
(* lock, and does run beside a handler of the same image.                   *)
OneUser ==
  worker.pc = "handle" =>
    /\ worker.dev \notin explorer
    /\ ~(gui.pc = "saving" /\ gui.save = worker.dev)

(* The GUI thread never dereferences a pointer to a deleted image nor a     *)
(* null one, in particular none of the three pointers that ejectImage,      *)
(* saveImageWhenClosing, saveDisk and saveDiskAs look up one after the      *)
(* other, and of the one that deviceStatusChanged looks up inside of their  *)
(* dialogs.  The null pointer of saveDiskAs after a failed automatic save   *)
(* ("astray") is the exception: it is followed every time.                  *)
NoFault == gui.pc # "crash"

(* Every image that exists is in a drive or in the hands of the running GUI *)
(* operation: an eject deletes the very image it took out, so that no image *)
(* with the user's changes is left where nothing can reach it.              *)
NoOrphan ==
  \A d \in table.alive : d \in Installed(table) \cup {gui.dev, gui.new}

(* "Unmount will not unmount disks that have changes until the changes are  *)
(* commited" (history.txt): the remote client never destroys a modified     *)
(* image.                                                                   *)
RemoteUnmountKeepsChanges ==
  [][\A d \in table.alive :
       worker.pc = "unmount" /\ worker' # worker /\ modified[d] => d \in table'.alive]_vars

(* The GUI thread always comes back to its event loop or to a question it   *)
(* has asked: it is not stuck between deviceMutex, which the worker holds   *)
(* while it tries an image, and that image's lock, which the explorer holds.*)
(* Two exceptions are named: saveDisk waits for the lock of an image whose  *)
(* explorer window, in the same thread, holds it, and never returns; and    *)
(* after an automatic save that failed saveDiskAs follows a null pointer.   *)
InEventLoop == gui.pc \in EventLoops /\ gui.auto = None

GuiReturns ==
  ~InEventLoop ~>
    \/ InEventLoop
    \/ gui.pc = "lock" /\ gui.save \in explorer
    \/ gui.pc = "astray"

(* The two threads together implement the bay of drives.                    *)
Bay == INSTANCE DriveBay WITH
         bay <- table.dev,
         serving <- IF worker.pc \in {"handle", "unlock"} THEN worker.dev ELSE None

BaySpec == Bay!Spec

=============================================================================
