---------------------------- MODULE ImageBuffer ----------------------------
(***************************************************************************)
(* One mounted disk image: its temporary file, which every sector command  *)
(* and every save moves about in with one shared position, the image file  *)
(* it was read from, and the flag m_isModified that connects the two.      *)
(*                                                                         *)
(* The worker thread reads, writes and formats with the image's lock held. *)
(* The GUI thread saves, reverts and explores with the lock held as well,  *)
(* with one exception: a disk whose auto-commit button is down is saved by *)
(* deviceStatusChanged, out of the event queue, without it.                *)
(***************************************************************************)
EXTENDS Naturals, Sequences, SequencesExt

CONSTANTS
  Values,       \* what a sector may hold
  Blank,        \* what a format leaves in it
  MaxSectors,   \* bound: the largest geometry
  Room,         \* bound: sectors that the temporary file has room for
  Kinds,        \* the image formats: subset of {"atr", "xfd"}
  AutoCommit    \* whether the user uses the auto-commit button

ASSUME ImageAssumption ==
  /\ Blank \in Values
  /\ MaxSectors \in Nat \ {0}
  /\ Room \in Nat /\ MaxSectors <= Room
  /\ Kinds \subseteq {"atr", "xfd"}
  /\ AutoCommit \in BOOLEAN

VARIABLES
  buffer,    \* the temporary file, sector by sector
  pos,       \* its position
  isOpen,    \* whether it is open
  file,      \* the sectors in the image file
  header,    \* how many the header of an ATR file says there are
  image,     \* m_geometry's sector count, m_isModified, m_isUnnamed, the format
  lock,      \* SioDevice::mLock: "free" or the thread that holds it
  explorer,  \* whether the image explorer is open
  posted,    \* whether a statusChanged waits in the event queue
  autosave,  \* whether the auto-commit button is down
  failed,    \* whether the user has been told that the last save failed
  worker,    \* the worker thread and the command it handles
  gui        \* the GUI thread and the save it is in

vars == <<buffer, pos, isOpen, file, header, image, lock, explorer, posted, autosave,
          failed, worker, gui>>

temporary == <<buffer, pos, isOpen>>
stored    == <<file, header>>

Sectors == 1..MaxSectors
Images  == BoundedSeq(Values, Room)

WorkerPcs == {"idle", "seek", "flag", "write", "read", "resize", "geometry", "unlock"}
GuiPcs    == {"idle", "open", "rewind", "copy", "clear", "fail"}

TypeOK ==
  /\ buffer \in Images
  /\ pos \in 0..Room
  /\ isOpen \in BOOLEAN
  /\ file \in Images /\ header \in 0..Room
  /\ image \in [size : 0..Room, modified : BOOLEAN, named : BOOLEAN, kind : Kinds]
  /\ lock \in {"free", "worker", "gui"}
  /\ explorer \in BOOLEAN /\ posted \in BOOLEAN
  /\ autosave \in BOOLEAN /\ failed \in BOOLEAN
  /\ worker \in [pc : WorkerPcs, op : {"none", "read", "write", "format"},
                 sector : 0..MaxSectors, value : Values]
  /\ gui \in [pc : GuiPcs, locked : BOOLEAN, new : BOOLEAN, copy : Images]
  /\ lock = "worker" <=> worker.pc # "idle"
  /\ lock = "gui" <=> explorer \/ gui.locked

WorkerIdle == [pc |-> "idle", op |-> "none", sector |-> 0, value |-> Blank]
GuiIdle    == [pc |-> "idle", locked |-> FALSE, new |-> FALSE, copy |-> <<>>]

Blanks(n) == [i \in 1..n |-> Blank]

(* A mounted image; one whose header is wrong has been repaired in memory   *)
(* and counts as modified.  Or a new one, which has no file yet and has     *)
(* just been formatted.                                                     *)
Init ==
  /\ \E s \in BoundedSeq(Values, MaxSectors) \ {<<>>}, k \in Kinds, opened \in BOOLEAN :
       /\ opened \/ (s = Blanks(Len(s)) /\ k = "atr")
       /\ buffer = s
       /\ file = IF opened THEN s ELSE <<>>
       /\ header \in IF opened /\ k = "atr" THEN 0..MaxSectors ELSE {0}
       /\ image = [size |-> Len(s), named |-> opened, kind |-> k,
                   modified |-> ~opened \/ (k = "atr" /\ header # Len(s))]
  /\ pos = 0
  /\ isOpen = TRUE
  /\ lock = "free"
  /\ explorer = FALSE /\ posted = TRUE
  /\ autosave = FALSE /\ failed = FALSE
  /\ worker = WorkerIdle
  /\ gui = GuiIdle

(* QFile::write at a position: in the file, at its end, or past it.         *)
Overwrite(s, p, v) ==
  IF p < Len(s) THEN [s EXCEPT ![p + 1] = v] ELSE s \o Blanks(p - Len(s)) \o <<v>>

(* Mutant: the change of the flag is not announced.                         *)
MarkModifiedSilently ==
  /\ image' = [image EXCEPT !.modified = TRUE]
  /\ UNCHANGED posted

(* writeSector sets the flag first; only a change of the flag is announced. *)
MarkModified ==
  /\ image' = [image EXCEPT !.modified = TRUE]
  /\ posted' = (posted \/ ~image.modified)

-----------------------------------------------------------------------------
(* The worker thread: handleCommand between tryLock and unlock.             *)

WorkerGoes(pc) == worker' = [worker EXCEPT !.pc = pc]

Command(op, s, v) ==
  /\ worker.pc = "idle"
  /\ lock = "free"
  /\ lock' = "worker"
  /\ worker' = [pc |-> IF op = "format" THEN "resize" ELSE "seek",
                op |-> op, sector |-> s, value |-> v]
  /\ UNCHANGED <<temporary, stored, image, explorer, posted, autosave, failed, gui>>

(* Sector numbers outside the geometry are refused before the seek.         *)
ReadCommand(s)     == s <= image.size /\ Command("read", s, Blank)
WriteCommand(s, v) == s <= image.size /\ Command("write", s, v)
FormatCommand(n)   == Command("format", n, Blank)

SeekToSector ==
  /\ worker.pc = "seek"
  /\ IF isOpen
       THEN /\ pos' = worker.sector - 1
            /\ WorkerGoes(IF worker.op = "read" THEN "read" ELSE "flag")
       ELSE worker' = [worker EXCEPT !.pc = "unlock", !.op = "none"] /\ UNCHANGED pos
  /\ UNCHANGED <<buffer, isOpen, stored, image, lock, explorer, posted, autosave, failed, gui>>

FlagModified ==
  /\ worker.pc = "flag"
  /\ MarkModified
  /\ WorkerGoes("write")
  /\ UNCHANGED <<temporary, stored, lock, explorer, autosave, failed, gui>>

(* The write itself, which may fail, at the latest for want of room.        *)
WriteData ==
  /\ worker.pc = "write"
  /\ \/ /\ pos < Room
        /\ buffer' = Overwrite(buffer, pos, worker.value)
        /\ pos' = pos + 1
     \/ UNCHANGED <<buffer, pos>>
  /\ WorkerGoes("unlock")
  /\ UNCHANGED <<isOpen, stored, image, lock, explorer, posted, autosave, failed, gui>>

ReadData ==
  /\ worker.pc = "read"
  /\ IF pos < Len(buffer)
       THEN /\ worker' = [worker EXCEPT !.pc = "unlock", !.value = buffer[pos + 1]]
            /\ pos' = pos + 1
       ELSE /\ worker' = [worker EXCEPT !.pc = "unlock", !.op = "none"]
            /\ UNCHANGED pos
  /\ UNCHANGED <<buffer, isOpen, stored, image, lock, explorer, posted, autosave, failed, gui>>

(* format: resize(0), then resize to the new size; it ignores their failure *)
(* and goes on.                                                             *)
ResizeFile ==
  /\ worker.pc = "resize"
  /\ IF isOpen
       THEN buffer' \in {buffer, <<>>, Blanks(worker.sector)}
       ELSE UNCHANGED buffer
  /\ pos' = IF pos > Len(buffer') THEN Len(buffer') ELSE pos
  /\ WorkerGoes("geometry")
  /\ UNCHANGED <<isOpen, stored, image, lock, explorer, posted, autosave, failed, gui>>

NewGeometry ==
  /\ worker.pc = "geometry"
  /\ image' = [image EXCEPT !.size = worker.sector, !.modified = TRUE]
  /\ posted' = TRUE
  /\ WorkerGoes("unlock")
  /\ UNCHANGED <<temporary, stored, lock, explorer, autosave, failed, gui>>

Unlock ==
  /\ worker.pc = "unlock"
  /\ lock' = "free"
  /\ worker' = WorkerIdle
  /\ UNCHANGED <<temporary, stored, image, explorer, posted, autosave, failed, gui>>

WorkerNext ==
  \/ \E s \in Sectors : ReadCommand(s) \/ FormatCommand(s)
  \/ \E s \in Sectors, v \in Values : WriteCommand(s, v)
  \/ SeekToSector \/ FlagModified \/ WriteData \/ ReadData
  \/ ResizeFile \/ NewGeometry \/ Unlock

-----------------------------------------------------------------------------
(* The GUI thread.                                                          *)

GuiGoes(pc) == gui' = [gui EXCEPT !.pc = pc]

StartSave(locked, new) ==
  /\ gui' = [pc |-> "open", locked |-> locked, new |-> new, copy |-> <<>>]
  /\ lock' = IF locked THEN "gui" ELSE lock

(* Mutant: a save that does not take the lock.                              *)
SaveUnlocked(new) ==
  /\ gui.pc = "idle"
  /\ StartSave(FALSE, new \/ ~image.named)
  /\ UNCHANGED <<temporary, stored, image, explorer, posted, autosave, failed, worker>>

(* saveDisk, which asks for a name when there is none (saveDiskAs), and     *)
(* saveDiskAs itself: the lock is waited for.                               *)
Save(new) ==
  /\ gui.pc = "idle"
  /\ lock = "free"
  /\ StartSave(TRUE, new \/ ~image.named)
  /\ UNCHANGED <<temporary, stored, image, explorer, posted, autosave, failed, worker>>

(* autoSaveDisk: either way the button goes, the image is saved, unless the *)
(* user is asked for a name and gives none.                                 *)
ToggleAutoCommit ==
  /\ AutoCommit
  /\ gui.pc = "idle"
  /\ lock = "free"
  /\ autosave' = ~autosave
  /\ \/ StartSave(TRUE, ~image.named)
     \/ ~image.named /\ UNCHANGED <<gui, lock>>
  /\ UNCHANGED <<temporary, stored, image, explorer, posted, failed, worker>>

(* Mutant: the automatic save is given up when the image is locked.         *)
StatusChangedTries(modified) ==
  IF modified /\ autosave /\ lock = "free"
    THEN StartSave(TRUE, FALSE)
    ELSE UNCHANGED <<gui, lock>>

(* deviceStatusChanged: "Image is modified and autosave is checked, so save *)
(* the image (no need to lock it)".                                         *)
StatusChanged(modified) ==
  IF modified /\ autosave THEN StartSave(FALSE, FALSE) ELSE UNCHANGED <<gui, lock>>

DeviceStatusChanged ==
  /\ gui.pc = "idle"
  /\ posted
  /\ posted' = FALSE
  /\ StatusChanged(image.modified)
  /\ UNCHANGED <<temporary, stored, image, explorer, autosave, failed, worker>>

(* saveAtr and saveXfd.  The output is truncated, and an ATR's header is    *)
(* written from the geometry, before anything is known of the rest; the     *)
(* file of the image is touched only if it is the output.                   *)
HeaderOf(size) == IF image.kind = "atr" THEN size ELSE 0

OpenOutput ==
  /\ gui.pc = "open"
  /\ \/ /\ GuiGoes("rewind")
        /\ file' = IF gui.new THEN file ELSE <<>>
        /\ header' = IF gui.new THEN header ELSE HeaderOf(image.size)
     \/ GuiGoes("fail") /\ UNCHANGED stored
  /\ UNCHANGED <<temporary, image, lock, explorer, posted, autosave, failed, worker>>

RewindBuffer ==
  /\ gui.pc = "rewind"
  /\ IF isOpen
       THEN pos' = 0 /\ GuiGoes("copy")
       ELSE UNCHANGED pos /\ GuiGoes("fail")
  /\ UNCHANGED <<buffer, isOpen, stored, image, lock, explorer, posted, autosave, failed, worker>>

(* Read from where the position is to the end, and write, which may fail.   *)
CopyBuffer ==
  /\ gui.pc = "copy"
  /\ pos' = Len(buffer)
  /\ \/ LET tail == SubSeq(buffer, pos + 1, Len(buffer))
        IN  /\ gui' = [gui EXCEPT !.pc = "clear", !.copy = tail]
            /\ file' = IF gui.new THEN file ELSE tail
     \/ GuiGoes("fail") /\ UNCHANGED file
  /\ UNCHANGED <<buffer, isOpen, header, image, lock, explorer, posted, autosave, failed, worker>>

FreeLock == lock' = IF gui.locked THEN "free" ELSE lock

(* The new file, if there is one, is the image's file from now on.          *)
ClearModified ==
  /\ gui.pc = "clear"
  /\ file' = gui.copy
  /\ header' = IF gui.new THEN HeaderOf(image.size) ELSE header
  /\ image' = [image EXCEPT !.modified = FALSE, !.named = TRUE]
  /\ posted' = TRUE
  /\ failed' = FALSE
  /\ FreeLock
  /\ gui' = GuiIdle
  /\ UNCHANGED <<temporary, explorer, autosave, worker>>

(* Mutant: a save that fails returns with the lock held.                    *)
SaveFailedLocked ==
  /\ gui.pc = "fail"
  /\ failed' = TRUE
  /\ gui' = GuiIdle
  /\ UNCHANGED <<temporary, stored, image, lock, explorer, posted, autosave, worker>>

(* "'%1' cannot be saved".                                                  *)
SaveFailed ==
  /\ gui.pc = "fail"
  /\ failed' = TRUE
  /\ FreeLock
  /\ gui' = GuiIdle
  /\ UNCHANGED <<temporary, stored, image, explorer, posted, autosave, worker>>

(* The first k sectors of the image file, copied over the temporary file:   *)
(* QTemporaryFile keeps its content when it is closed and opened again.     *)
CopiedOver(k) == SubSeq(file, 1, k) \o SubSeq(buffer, k + 1, Len(buffer))

(* open, which copies the whole file.  An ATR whose header disagrees with   *)
(* the size of what is then in the temporary file counts as repaired.       *)
Reopen ==
  /\ image.named
  /\ isOpen' = TRUE
  /\ buffer' = CopiedOver(Len(file))
  /\ pos' = Len(file)
  /\ image' = [image EXCEPT !.size = Len(buffer'),
                 !.modified = image.kind = "atr" /\ header # Len(buffer')]

(* A file that cannot be opened, as an unnamed image's, leaves the temporary*)
(* file closed; so does an ATR that cannot be read or copied to its end, and*)
(* an XFD leaves it open.                                                   *)
ReopenFails ==
  /\ \/ isOpen' = FALSE /\ pos' = 0 /\ UNCHANGED buffer
     \/ \E k \in 0..Len(file) :
          /\ image.named
          /\ isOpen' = (image.kind = "xfd")
          /\ pos' = IF isOpen' THEN k ELSE 0
          /\ buffer' = CopiedOver(k)
  /\ UNCHANGED image

(* revertDisk, once the user has agreed: reopen, which closes the temporary *)
(* file and opens the image file again, under the lock.  Whether it worked  *)
(* is not asked; revertDisk calls deviceStatusChanged itself.               *)
Revert ==
  /\ gui.pc = "idle"
  /\ lock = "free"
  /\ image.modified
  /\ Reopen \/ ReopenFails
  /\ StatusChanged(image'.modified)
  /\ UNCHANGED <<stored, explorer, posted, autosave, failed, worker>>

OpenExplorer ==
  /\ gui.pc = "idle"
  /\ lock = "free"
  /\ lock' = "gui"
  /\ explorer' = TRUE
  /\ posted' = TRUE
  /\ UNCHANGED <<temporary, stored, image, autosave, failed, worker, gui>>

(* writeSector called by the explorer, in one go for the GUI thread.        *)
ExplorerWrite(s, v) ==
  /\ gui.pc = "idle"
  /\ explorer
  /\ isOpen
  /\ s <= Len(buffer)
  /\ MarkModified
  /\ buffer' = Overwrite(buffer, s - 1, v)
  /\ pos' = s
  /\ UNCHANGED <<isOpen, stored, lock, explorer, autosave, failed, worker, gui>>

CloseExplorer ==
  /\ gui.pc = "idle"
  /\ explorer
  /\ explorer' = FALSE
  /\ lock' = "free"
  /\ posted' = TRUE
  /\ UNCHANGED <<temporary, stored, image, autosave, failed, worker, gui>>

GuiProceeds == OpenOutput \/ RewindBuffer \/ CopyBuffer \/ ClearModified \/ SaveFailed

GuiNext ==
  \/ \E new \in BOOLEAN : Save(new)
  \/ ToggleAutoCommit \/ DeviceStatusChanged \/ Revert
  \/ GuiProceeds
  \/ OpenExplorer \/ CloseExplorer
  \/ \E s \in Sectors, v \in Values : ExplorerWrite(s, v)

Next == WorkerNext \/ GuiNext

Spec == Init /\ [][Next]_vars

(* Qt delivers the queued event when the GUI thread is back in its event    *)
(* loop, which the user may keep from it for a while, and a save, once      *)
(* started, runs to its end.                                                *)
FairSpec == Spec /\ WF_vars(GuiProceeds) /\ SF_vars(DeviceStatusChanged)

-----------------------------------------------------------------------------
(* A revert takes what it copied over for the file when the file's header   *)
(* gives the size of the whole: the header was wrong when the file was      *)
(* opened, or a save wrote it after a format that could not resize the      *)
(* temporary file.                                                          *)
HeaderMisleads == header # Len(file) /\ header = Len(buffer) /\ IsPrefix(file, buffer)

(* An image that is not marked modified is in its file as it is in memory,  *)
(* whatever the Atari, the explorer, the saves and the reverts have done in *)
(* whatever order, unless the user has been told that a save failed or the  *)
(* header in the file misled a revert.  Eject and the remote unmount rely   *)
(* on it: they drop such an image without a question.                       *)
CleanIsSaved ==
  gui.pc = "idle" /\ worker.pc = "idle" /\ ~image.modified /\ image.named /\ ~failed
    => file = buffer \/ HeaderMisleads

(* No change escapes auto-commit for good: while the button is down, an     *)
(* image marked modified has an event in the queue that will save it, or a  *)
(* save is under way, although only the first write after a save announces  *)
(* itself.                                                                  *)
ModifiedIsAnnounced ==
  autosave /\ image.modified /\ ~failed /\ image.named => posted \/ gui.pc # "idle"

(* Under auto-commit a modified image that has a file does not stay         *)
(* modified.                                                                *)
AutoCommitSaves ==
  autosave /\ image.modified /\ image.named ~> ~image.modified \/ failed \/ ~autosave

(* "Revert to last saved" (the title of revertDisk's question): an image    *)
(* that has been reverted is what its file holds.                           *)
RevertRestores == [][Revert /\ Reopen => buffer' = file]_vars

(* The command between its start and the instant it takes effect, and the   *)
(* data of a read.                                                          *)
NoRequest == [op |-> "none", sector |-> 0, value |-> Blank]
Request ==
  IF worker.pc \in {"seek", "flag", "write", "read", "resize"}
    THEN [op |-> worker.op, sector |-> worker.sector, value |-> worker.value]
    ELSE NoRequest
Answer == IF worker.pc = "unlock" /\ worker.op = "read" THEN worker.value ELSE "none"

(* Each sector command acts on the disk at one instant and on its own       *)
(* sector, although it seeks, flags and writes in separate steps and shares *)
(* the file position with the saves.                                        *)
Disk == INSTANCE SectorDisk WITH
  Requests  <- [op : {"read", "write", "format"}, sector : Sectors, value : Values],
  NoRequest <- NoRequest,
  NoAnswer  <- "none",
  content   <- buffer,
  request   <- Request,
  answer    <- Answer

DiskSpec == Disk!Spec

=============================================================================
