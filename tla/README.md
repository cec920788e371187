# AspeQt: a verification development in TLA+

AspeQt emulates the peripherals of an 8-bit Atari (disk drives, printer, cassette, a
host file server) over a serial adapter. One thread, the *SIO worker*, reads command
frames from the Atari and serves them; another, the *GUI thread*, lets the user mount,
swap, edit, save and eject disk images while the Atari is using them, and starts and
stops the worker. A third actor, the *AspeQt client* (`AspeCl`), is a program on the
Atari that remotely swaps and unmounts drives; its commands run in the worker.

This directory holds TLA+ modules that model those threads, the protocols on the line and
the file systems behind them, TLC configurations that check them on small instances, and
TLAPS proofs for every value of the constants. `PROJECT.json` lists components, runs,
hazards and theorems, and maps each definition to the source lines it models. Paths below
are relative to `src/`. The program is C++ (`*.cpp`, `*.h`) with some Java; the `*.ts`
files are Qt Linguist catalogues, that is translated texts, and hold nothing to model.

Contents: 1 inventory, 2 modules, 3 runs, 4 disagreements found, 5 proofs,
6 what is not modelled, 7 plan.

## 1. Inventory

### Device table and bus worker: `sioworker.{h,cpp}`
- *State.* `SioWorker::devices[256]`, the number each `SioDevice` carries
  (`m_deviceNo`), `deviceMutex`, one `mLock` per device, `mustTerminate`, `mPort`.
- *Operations.* `installDevice` (deletes what was in the slot), `uninstallDevice`,
  `swapDevices`, `getDevice`, `~SioDevice`; `start`, `wait`, `run`.
- *Interaction.* `run` holds `deviceMutex` from the look-up of a frame's device to the
  end of its handler, and only *tries* the device's lock: a busy device drops the
  command. The GUI takes the mutex for single table operations and the device's lock for
  saves, reverts and the explorer. `getDevice` hands out a raw pointer.
- *Hard.* Two threads change one table whose entries point back at it; raw pointers
  survive modal dialogs; two locks with different owners and lifetimes; a stop that must
  interrupt a blocking read.
- *Correct means.* Table and numbers agree; a handler's device exists; one user of an
  image at a time; the GUI thread never waits for ever; a stop returns.

### Main window: `mainwindow.{h,cpp}`
- *State.* The drive rows with their auto-commit buttons, the check box "Start
  emulation", the queue of posted signals, program-wide session settings.
- *Operations.* mount, new image, eject, swap by drag and drop, save, save as,
  auto-commit, revert, edit, boot an executable, play a cassette, options, sessions,
  tray, close.
- *Interaction.* Calls the worker and the images directly; receives `statusChanged`,
  `started`, `finished` as queued signals; asks modal questions, during which other
  events are handled, and calls `processEvents()` inside handlers.
- *Hard.* `trigger()` is a toggle used as "start" and as "stop"; handlers nest;
  questions separate a look-up from its use.
- *Correct means.* No change is lost without a question; the check box tells the truth;
  no null or dangling pointer is followed.

### Disk image: `diskimage.{h,cpp}`, `diskimagepro.{h,cpp}`
- *State.* A temporary file with a position, `m_isModified`, the geometry and the PERCOM
  geometry of the next format, the image file it was opened from.
- *Operations.* read, write, format, status, PERCOM get and set; open, save, save as,
  reopen, create; as ATR, XFD and further formats.
- *Hard.* The worker and an automatic save share one file and its position without the
  lock; the output is truncated before the save is known to succeed; formats compute
  sizes in 16- and 32-bit integers.
- *Correct means.* Each sector command acts on its sector at one instant; an image
  without changes equals its file; auto-commit commits; revert restores.

### Serial back ends: `serialport*.{h,cpp}`
- *State.* The handle, `mCanceled`, `mHighSpeed`.
- *Operations.* `open`, `close`, `cancel`, `readCommandFrame` with its search for the
  Atari's speed, data frames, acknowledgements.
- *Hard.* `open` clears a cancel that came before it; blocking waits; time-outs; noise.
- *Correct means.* A command is heard after a bounded number of attempts; cancel is not
  lost; a command repeated because an answer was lost does no harm.

### AspeQt client and other SIO devices: `miscdevices.{h,cpp}`
Printer, smart device (clock), and the client's swap `0x94`, unmount `0x95`, mount
`0x96`, create `0x97`, auto-commit `0x98`. They change the drive table from the worker
thread, and mount by a signal to the GUI thread, which then writes the reply.
*Correct means*: a remote unmount destroys no changes; every command gets one reply.

### Image explorer and file systems: `diskeditdialog.{h,cpp}`, `atarifilesystem.{h,cpp}`
- *State.* The window's rows and its path; the directory and the map of free sectors on
  the image, and a second copy of the map in the file system object.
- *Operations.* Open a view, enter and leave a directory, insert files and folders,
  delete selected rows, for AtariDOS, MyDOS and (reading only) SpartaDOS disks.
- *Hard.* Recursive tasks that may be given up at any file; two copies of a map and of its
  count; rows removed by index; links of 10 bits that share a byte with the file's number.
- *Correct means.* No sector in two files or both used and free; a file reads back as it
  was inserted; the window shows the directory; what is deleted is what was selected.

### Folder images: `folderimage.{h,cpp}`
A host folder shown as a read-only DOS 2.0 disk of at most 64 files. Data sectors
433–1023 are a window that slides over the file read last, each time its last sector is
read. *Correct means*: following the links of a file returns the file.

### Executable boot loader: `autoboot.{h,cpp}`, `autobootdialog.cpp`, `bootoptionsdialog.cpp`
A boot disk that replaces drive 1 and serves the chunks of an executable; every answer
lengthens the stored chunk by its checksum. *Correct means*: the chunks arrive in order,
no chunk is asked for that there is not, the old drive comes back.

### PCLink: `pclink.{h,cpp}`
- *State.* Per unit a folder, a directory, the last parameter block and a status; a table
  of 16 open files shared by all units; the last command, one for all units.
- *Operations.* A call of SpartaDOS X is the commands P, S, R, S; FOPEN to FCLOSE,
  directories, INIT. The main window sets, clears and exchanges links meanwhile.
- *Hard.* Repetitions are told from new calls by comparing blocks and by remembering one
  command; R uses what P has checked; changing a link closes the handle numbered like it.
- *Correct means.* A call is carried out once; a program's files are where it left them;
  units keep apart; handles do not leak.

### Cassette: `sioworker.cpp` (second half), `cassettedialog.cpp`
CAS parsing, FSK decoding and pulse generation, and a playing thread.

### Settings: `aspeqtsettings.{h,cpp}`
Mounted images, recent files, sessions; touched by both threads.

### Android activity and drivers: `android/`
Java side of the Android back end; file names pass through a static field.

### Others
Vendored USB driver, dialogs and helpers, translations: no protocol state of their own.
The 6502 programs (`autoboot.src`, the PCLink driver's other end) appear in the models as
what the handlers expect at the other end of the line.

## 2. Modules

| Module | Models | Composes |
|---|---|---|
| `DeviceTable` | the table, the numbers and the objects as one record; install, uninstall, swap, `~SioDevice`, delete as operators | |
| `SioBus` | worker and GUI thread over that table, with both kinds of lock | extends `DeviceTable` |
| `DriveBay` | abstract: drives that are filled, emptied and exchanged only between commands | refined by `SioBus` |
| `ImageBuffer` | one image: temporary file, modified flag, saves, auto-commit, revert, explorer, sector commands | |
| `SectorDisk` | abstract: a disk whose commands act at one instant each | refined by `ImageBuffer` |
| `DiskGeometry` | geometries, sector offsets, size and header arithmetic of ATR and XFD, PERCOM blocks, New Image, as operators with the program's integer widths | |
| `SioLifecycle` | start, stop and quit; the queue of signals; open, cancel, close; the speed search | |
| `FolderImage` | a folder as a disk: directory, first sectors, sliding window, as operators | |
| `AutoBoot` | the boot disk: boot sectors, chunk information, chunks, as operators | |
| `DriveCommands` | drive 1 with an image, a folder or a boot disk; the handlers frame by frame; a line that loses frames; the Atari that repeats commands; DOS and the boot loader's program | extends `FolderImage`, `AutoBoot` |
| `RetriedDisk` | abstract: a disk that carries out each request once or more often and reports one outcome | refined by `DriveCommands` |
| `AtariFileSystem` | the explorer on a DOS disk: entries, chains, both maps of free sectors, the window's rows, tasks of several files | |
| `PcLink` | the file server, the line, the Atari's driver and programs, the window that changes links | |
| `MC*` | instances, operators against reference definitions | extend the above |
| `SioBusProofs`, `SioBusLocalProofs`, `ImageBufferProofs`, `SioStartStopProofs`, `DriveCommandsProofs`, `DiskGeometryProofs`, `PcLinkProofs`, `AtariFileSystemProofs` | lemmas and theorems | extend the above and TLAPS |

**DeviceTable / SioBus.** `table` is `devices` (`dev`), `m_deviceNo` (`num`) and the set
of objects that exist (`alive`). `worker.pc` follows `SioWorker::run`: look-up
(`Dispatch`), `TryLock`, `Handle`, `WorkerUnlock`; `deviceMutex` is held exactly when
`worker.pc # "idle"`, since the GUI's own critical sections are single steps that need
`MutexFree`. The client's commands are `ClientSwap` and `ClientUnmount`, whose drives are
emptied one by one (`UnmountNext`). `gui` is a program counter with the three pointers
the handlers keep (`dev` of `ejectImage`, `save` of `saveDisk`, `new` of `mountFile`).
Every step that follows a pointer needs it alive; `GuiFault` is what happens otherwise.
`mountFile` is `Mount`, then `ejectImage` (`Check`, `Confirm`, `Answer`, optionally
`SaveGet` … `UnlockImage`, `UninstallSlot`, `DeleteImage`, `FinishDelete`), then
`InstallNew`; a cancel ends it and deletes the disk it had opened. `Save` goes to the lock,
or, for an image without a name, to `saveDiskAs`, which looks the image up once more and
opens a file dialog (`SaveAsGet`, `ChooseFile`); a save that fails asks for another name
(`AnswerFailed`). `StatusChanged` and `AutoSave` are the automatic save of
`deviceStatusChanged`: any event loop of the GUI thread, also that of a modal dialog,
delivers it, and it saves without lock or mutex while the worker may be in a handler of the
same image. When it fails and the user wants another name, `saveDiskAs` is called with the
device's number and follows a null pointer (`gui.pc = "astray"`). While a modal question is
open only the asking handler, queued signals and the worker proceed, because Qt blocks the
other windows' input.

**ImageBuffer.** `buffer`, `pos`, `isOpen` are the temporary file; `file` the image file;
`posted` says that a queued `statusChanged` waits (one stands for several, whose effect
is the same). A command is its handler's steps: seek, flag, then write or read, or resize
and new geometry for a format. A save opens (and truncates) the output, rewinds, copies
from the position on, and clears the flag. `DeviceStatusChanged` starts a save *without*
the lock when auto-commit is on, as the code does. Sector contents are members of
`Values`. `header` is how many sectors the header of an ATR file announces: a save writes it
from the geometry, which a format that could not resize the temporary file has already
changed, so that header and data may disagree. `Revert` copies the file over the temporary
file, which is not truncated, and marks an ATR as modified when the size of the whole
disagrees with the header; it may fail before the copy, or at any sector of it
(`ReopenFails`), and nobody asks whether it has. Only writable images are modelled.

**DiskGeometry.** A record with the fields of the class; `FromSize`, `FromSizeAlone` and
`FromPercom` are the overloads of `initialize`, `SectorOffset` is `seekToSector`.
`OpenAtr` and `OpenXfd` map a header and a size to the image they open or to `Refused`.
`quint16` is arithmetic modulo `UShort`, `unsigned int` modulo `UInt`, which is 2^32 in the
program and 2^30 in the instances (TLC's integers have 31 bits; the formulas wrap at both
alike, since both are multiples of 256 above every size in use). Sector sizes are taken
to be positive: `initialize(size, bps)` divides by them.

**SioLifecycle.** A handler of the GUI thread is the sequence of instructions it still
has to execute; `trigger` unfolds to the body of the action's slot, `events` delivers the
posted signals and may take a nested click. `NewPort` and `Launch` are `SioWorker::start`;
`Terminate`, `Cancel`, `Join`, `DeletePort` are `SioWorker::wait`. The worker's counter
follows `run` and the Unix back end's `open` and `readCommandFrame`. The Atari is
external: it raises its command line and sends frames at one of two speeds, and repeats
an unanswered frame at the same speed. `highSpeed` is `mHighSpeed`, the speed last asked
for, and `portSpeed` the one the port is set to: `setHighSpeed` and `setNormalSpeed` set the
flag first, and `readCommandFrame` does not look at their result, so that after a failure
the two differ, perhaps into the next call. `search` counts the attempts, the lost frames and
the failed changes of speed of one call; the counters exist for `HeardInTime`.

**FolderImage, AutoBoot, DriveCommands.** `mounted` is what is in drive 1; `disk`, `folder`
and `booter` are its fields. `handler.pc` follows `handleCommand`: `Check` (the sector
number, NAK or acknowledgement), `Receive` (the data frame), and an `Act…` per kind of
drive, which changes the drive and sends Complete and data, or Error. `line` holds the
frames on their way to the Atari, `sent` the data frame on its way to the drive; `LoseReply`
and `LoseData` take one away, `SendCommand` may send one in vain. `atari` is the SIO
routine of the computer's ROM (external): it awaits one kind of frame at a time, repeats
the command after any other or after silence, and gives up after `MaxTries`. `answers`
and `told` record what the drive has computed for the request and what the program hears.
Above it run two programs: DOS (`reader`), which follows the links of a folder's files and
may read two files by turns, and the boot loader (`loader`). A folder's file `f` starts at
sector 369 + `f`; `folder.pass` counts how often the window has slid. `slid` collects the
files whose window moved under their reader. `AutoBoot.ChunkSent` lengthens a chunk,
because `writeDataFrame` appends the checksum to the stored array itself.

**AtariFileSystem.** `data` is the data sectors: the file number and link each holds, and
of which host file which block it is. `dirs` are the directories, `vtoc` the map and count
in sector 360, `fs` the same in the `Dos10FileSystem` object, which `Open` replaces. `path`
and `view` are the window. `todo` is the rest of the task at hand, which unfolds the
recursion of `insertRecursive` and `deleteRecursive` file by file. `Insert` may fail before
its first sector, or at any block because a host file becomes unreadable, and then leaves
the sectors it has taken out of `fs` only. In text mode such a file goes unnoticed: it never
comes to its end, takes every free sector, then sector 0, which is in no map but is counted
(`count` wraps like the code's `quint16`), and fails when that is written; a text file may
also turn out shorter than its size, and one too long for the disk ends the same way
(`GivenUp`). `vtoc.zero` and `fs.zero` remember that sector 0 has been counted. Directories
and the map are written as the code writes them, entry and map together at the end of a
file. `DeleteFiles` takes any rows in any order of selection and then removes rows from
`view` as the code does, by index, the last selected first (where the index is past the end,
Qt 5 removes nothing; Qt 6 would leave it undefined). `stale` says that rows were removed
bottom up since the window was filled, `misled` that the user has since deleted or entered a
row that is no entry of the directory: that task is carried out to its end, with sectors
freed twice and perhaps another file deleted, and no other one is begun. The explorer holds
the image's lock, hence nobody else acts.

**PcLink.** `server` is the device's fields and `iodesc`; `parbuf`, `old` (`old_ccom`) and
`err` are what it remembers between commands. Each function has its part of `HandleP` and
of `HandleR`. `gui` takes the device out of the worker's table, changes a link, and puts it
back. `call` is the Atari's driver, which sends P, S, R, S, retries, and gives up.
`known`, `knownDirs` and `knownCwd` are what the programs believe of their files, opened
directories and current directory, `lost` and `pulled` the handles that a call without an answer or a change of links has put
out of their sight. The driver is inferred from the code: R is sent only when the status
after P is 1. File lengths and whether a path exists are nondeterministic. REMOVE, which
stands for RENAME and CHMOD, goes through all files of a name with wild cards: it may report
an error after it has changed some of them. MKDIR, which stands for RMDIR, changes one entry
or none. FNEXT on a plain file's handle reads from a directory cache that is not there
(`Entries`, `RNullFile`); programs use it only on handles that FFIRST gave them.

## 3. Runs

| Run | Configuration | Checks |
|---|---|---|
| `bus_local` | all GUI operations, the automatic save among them, no client, fair | `TypeOK`, `HandledAlive`, `OneUser`, `NoFault`, `NoOrphan`, `GuiReturns` |
| `bus_client` | client swaps and unmounts, automatic saves, no explorer | `TableAgrees`, `RemoteUnmountKeepsChanges`, `BaySpec` |
| `bus_explorer_unmount` | client unmount with the explorer | `RemoteUnmountKeepsChanges` *(violated)* |
| `image_locked` | no auto-commit, ATR | `TypeOK`, `CleanIsSaved`, `DiskSpec` |
| `image_autocommit` | auto-commit, fair | `ModifiedIsAnnounced`, `AutoCommitSaves` |
| `image_race` | auto-commit | `CleanIsSaved` *(violated)* |
| `image_revert` | ATR and XFD | `RevertRestores` *(violated)* |
| `lifecycle` | all user operations, posted events first, fair | `TypeOK`, `ActionInSync`, `PortUsable`, `QuitStopsWorker`, `HeardInTime`, `StopReturns` |
| `drives` | image, folder and boot disk, lost frames, fair | `TypeOK`, `FolderServesFile`, `LoadedIsFile`, `ChunkExists`, `RequestEnds`, `RetriedSpec` |
| `filesystem` | four tasks on a disk that fills up, rows selected in any order, fair | `TypeOK`, `SectorsOwned`, `FilesIntact`, `CountsAgree`, `ViewIsDirectory`, `TaskEnds` |
| `filesystem_upwards` | up to five tasks on the same disk, no fairness | `OnlySelectedFiles` *(violated)* |
| `pclink` | three calls of two units, one change of links, lost frames | `TypeOK`, `CallsOnce`, `ProgramsAgree`, `NoLeak`, `NullFileOnlyWhenCut`, `UnitsApart` |

**What the properties say.** `HandledAlive`: no handler runs on a deleted image.
`OneUser`: no explorer, and no save or revert that takes the image's lock, works on the
image a handler works on; the automatic save takes none, does work beside a handler, and is
left to `image_race`. `NoFault`: no null
or dangling pointer is followed across the three look-ups of eject, question and save; the
null pointer after a failed automatic save (`"astray"`) is a state of its own.
`NoOrphan`: every image is in a drive or in the hands of the running operation.
`GuiReturns`: every operation comes back to the event loop or to a question, except a save
of an image whose explorer is open (it waits, in the thread that owns the lock, for that
lock) and an automatic save that failed and then looks for its image under the wrong
number. `TableAgrees`: table and numbers describe the same bay. `BaySpec`: a command is
served by an image that stays in its drive to the end. `RemoteUnmountKeepsChanges`: the
client destroys no modified image.

`CleanIsSaved`: an image not marked modified equals its file, unless a save failed and the
user was told, or a file whose header announces more than it holds has misled a revert
(`HeaderMisleads`: the file was damaged from the start, or a save wrote it after a format
that could not resize the temporary file; the revert then leaves the file's sectors in
front of the ones it meant to discard, and takes the result for the file). `DiskSpec`: sector commands are atomic although they take several steps and
share the file position with saves. `ModifiedIsAnnounced`, `AutoCommitSaves`: no change
escapes auto-commit.

`ActionInSync`: at rest the check box is checked exactly when the worker runs.
`PortUsable`: the worker uses only a port that it has opened and that still exists.
`QuitStopsWorker`: the worker object is destroyed after its run ended. `HeardInTime`:
without noise a command is heard at the third attempt, each two frames lost to noise cost
two further attempts, and each change of speed that fails at most four. `StopReturns`: `wait()` returns.

`RequestEnds`: every request gets its answer or its error. `RetriedSpec`: a request lost
anywhere on the line is carried out zero or more times, and what the Atari hears is one of
the answers computed for it; a repeated write, format or PERCOM block leaves the disk as
one would. `FolderServesFile`: a file read along its links from the directory on is the
file, block by block, except when its window slid without its reader (`slid`): the
directory was read again, another file was read to the window's end, or the answer with
the window's last sector was lost. `LoadedIsFile`: an executable that starts has all its
chunks in memory, in order, although stored chunks grow with each repeated answer.
`ChunkExists`: the loader asks for no chunk that `QList::at` would refuse, unless the
executable has none at all, which `readExecutable` lets pass.

`SectorsOwned`, `FilesIntact`, `CountsAgree`: directory, chains, and both maps agree after
every task, also one given up half-way in binary or text mode, and after reopening, until
the user deletes or enters a row that is no entry (`misled`); the count of free sectors,
however, is wrong once sector 0 has been counted (`zero`). `ViewIsDirectory`: the window
shows what is on the disk, unless rows were removed bottom up (`stale`). `OnlySelectedFiles`:
a row to be deleted names no other entry than the one it shows. `TaskEnds`: the recursion
ends.

`CallsOnce`: a call is carried out at most once, and exactly once or never when its result
says so, but for REMOVE, RENAME and CHMOD, which may be refused after having changed some
files. `ProgramsAgree`: between calls, the server's handles, positions and directories
are those the programs believe in. `NoLeak`: an open handle belongs to a program or to a
call that ended without an answer. `NullFileOnlyWhenCut`: R meets a closed file only when
links changed in the middle of the call, and FNEXT a plain file only when they closed its
directory before. `UnitsApart`: a call moves and closes only its
own unit's files.

**Bounds, and why they suffice.** *Bus*: two drives and three images, because every
operation names at most two slots and a mount brings one image more than the bay holds;
a third slot adds only idle state. *Image*: two sectors, so that a write to one can disturb
the other, and `Room` one more, so that a format can enlarge the image; two values, one of
them the blank a format leaves. The liveness run has one sector and may be enlarged to two.
*Lifecycle*: `MaxNest` 4 admits a click taken within a click taken within a restart
(`MaxNest` counts pending instructions); `MaxNoise` 3 lets noise strike at both halves of a
speed change, and `MaxFails` 2 lets two changes fail, or one after one left from the last
call. *Drives*: `LastSector` 434 makes a window of two data sectors; the files have
four and three blocks, so that one needs its window to slide and the other ends at its end;
executables of no, one, two and three chunks; `MaxTries` 2 makes each command fail, succeed,
and succeed unnoticed. *File system*: five
sectors for files and folders and directories of three entries, so that the disk and a
directory can both fill up; four tasks fill the disk, delete, and fill it again with reused
sectors and numbers; `CountRange` 32 lets the count wrap. *Automatic save*: it does not run
inside of itself. *PCLink*:
two units, three handles, of which link numbers hit two and miss one; a file of one block
and positions up to two, so that a program may pass the end; three calls allow open, use and
close, or two programs at once; one change of links can strike at any moment of them.

**What the runs leave out, by configuration.** `bus_local` runs without the client: with
it, a GUI operation that overlaps a remote unmount does follow a dangling pointer
(`getDevice` returns after releasing the mutex); nothing in the repository promises
otherwise, so it is a hazard and no finding. `bus_client` has no "edit" and `image_locked`
no auto-commit: see the findings. `SioBus` knows of an image's content only whether it is
modified: what an automatic save does to a handler it runs beside is `image_race`. For an
XFD, `CleanIsSaved` fails after "enlarge and revert", for the reason `image_revert` shows,
and because a failing revert of an XFD leaves the temporary file open with a part of the
file copied over it. `lifecycle` has `ClicksFirst = FALSE`, that
is, posted signals are delivered before a click is taken within `processEvents()`: were a
second click taken first, it could restart the worker before the first run's `finished()`
arrives, which then unchecks the action of a running worker. `drives` excludes an answer
that arrives after the Atari has given an attempt up. `filesystem` follows a task on a stale
row to its end but begins no other after it: what such a disk comes to is not described. Its
disks have all sectors within the reach of a short link (`LinkRange`); on larger ones
`insert` and `deleteFile` decide differently how long links are. In `pclink` no more than
three calls are made: FNEXT on a directory that was closed by a change of links, and whose
handle a file has got since, needs four and is covered by the proof.

**Fairness.** `SioBus`: handlers return, as every port call has a time-out, hence WF for
the worker's steps; the worker spends the time between frames outside the mutex, so a
waiting GUI thread gets it: SF for `GuiProceeds`. Nothing is assumed of the user or the
Atari. `ImageBuffer`: WF for the steps of a save, SF for the delivery of a queued event,
which is possible again and again when the GUI thread returns to its loop.
`SioLifecycle`: WF for the steps of each thread. A stop returns although the Atari may be
silent for ever; failing ports and lines may, and need not, happen. `DriveCommands`: WF for
the handler, whose port calls have time-outs, and for the Atari's SIO routine, which has
its own; none for the line, which may lose everything, and none for the programs.
`AtariFileSystem`: WF for the task at hand, which runs in one call of the GUI thread.
`PcLink` states no liveness.

Deadlock is checked in every run but `pclink`, whose programs may have made all their calls.

**Operators.** The four image runs also evaluate the named assumptions of
`MCDiskGeometry`: offsets against the sum of the lengths of the preceding sectors, ATR and
PERCOM round trips for 210 geometries and the standard floppies, New Image for every count up to 800 and the largest
ones, the outcomes of an XFD round trip, and the fate of oversized images.

## 4. Where code and documents disagree

1. *An explorer edit can be destroyed by a remote unmount* (`bus_explorer_unmount`).
   `history.txt:150` says that unmount will not unmount disks that have changes. `AspeCl`
   asks `isModified` and deletes in two steps and never asks for the image's lock, which
   the explorer holds while it writes.
2. *Auto-commit can leave a change unsaved and unmarked* (`image_race`). The comment at
   `mainwindow.cpp:1023` says the automatic save needs no lock. The worker sets the flag
   before it writes; a save in between clears the flag, and the sector lands in an image
   that counts as saved.
3. *Revert does not revert a disk that was formatted larger* (`image_revert`).
   `mainwindow.cpp:1916` offers to revert to the last saved state; `reopen` copies the
   file over the temporary file without truncating it.
4. *Deleting a selected row can delete another file* (`filesystem_upwards`).
   `diskeditdialog.cpp:667` asks about the "selected files". `MyModel::deleteFiles` removes
   rows by index in reverse order of selection; with rows selected upwards (Ctrl-click, the
   list has ExtendedSelection) a deleted file's row stays and a living one's goes. The row
   that stayed names an entry by its number, and a file inserted since has got that number:
   deleting the row deletes the new file.

Where the code surprises and no document promises otherwise, the property names the case
instead: the save that waits for its own explorer, and the automatic save that, having
failed, calls `saveDiskAs` with a device number for a drive's (`mainwindow.cpp:1030`) and
follows a null pointer (`GuiReturns`); the window that comes back from the tray and, with
"Starting emulation", stops it (`mainwindow.cpp:737-739`: `shownFirstTime` is set and never
cleared, and `trigger()` toggles; a trace that `lifecycle` allows); the text file that takes
sector 0 (`CountsAgree`, `zero`), the sectors freed twice for a stale row (`misled`), the
header that misleads a revert (`HeaderMisleads`), REMOVE that fails half-way (`CallsOnce`),
the files a folder serves
wrongly (`slid`), a fresh PCLink call taken for a repetition because its block equals the
last one (`CallsOnce`, `twin`), files closed because a link of the same number changed
(`pulled`), and the crash of an R whose file was closed in between, or of an FNEXT that finds
a plain file (`NullFileOnlyWhenCut`).

## 5. Proofs

`tlapm` checks eight modules, all leaves, no assumption besides the named ones of the
modules (`TableAssumption`, `OperationsAssumption`, `ImageAssumption`,
`LifecycleAssumption`, `WidthAssumption`, `FolderAssumption`, `BooterAssumption`,
`CommandsAssumption`, `PcLinkAssumption`, `FileSystemAssumption`; `CommandsAssumption`
also asks that no sector value is the mark `"done"`, so that data and a bare Complete can be told apart, and
`PcLinkAssumption` that 255, the mark of no handle, is not one of the handles).

- **`SioBusProofs`**, first what each table operator does to `Agrees` and to the parts of
  the table (`EmptyTableAgrees`, `UninstallEffect`, `UnregisterEffect`, `DeleteEffect`,
  `InstallEffect`, `SwapEffect`), the lemmas of all that follows; then `TableInvariant`, `TypeCorrect` (`Spec => []TypeOK`) and
  `TableAgreement` (`Spec => []TableAgrees`), for any number of slots and images and any
  choice of GUI and client operations. `TableAgrees` alone is not inductive: an
  `InstallNew` keeps it only if the new disk is not in the table yet, and the end of
  `delete img` only if a deleted image is out of it. The inductive invariant `TableInv`
  is `TypeOK /\ TableAgrees` together with `DeadHasNoNumber` (a dead image has no number,
  except the one whose destructor runs), `NewIsOutside` (the disk being mounted has none),
  `ServedIsInside` (the device a command is dispatched to is in the table) and
  `OperandsKnown` (the operation's pointers are images). The step has one case per action.
  On top of it, `ImplementsBay` (`Spec => BaySpec`) maps every action to a step of
  `DriveBay` or to a stutter. `UnmountKeepsChanges` (`Spec =>
  RemoteUnmountKeepsChanges`) holds if the user opens no explorer (`"edit" \notin GuiOps`;
  finding 1 is what happens otherwise). The client asks about all drives first and empties
  them one by one; `UnmountInv` carries the answer from one to the other: the images in the
  drives still to be emptied are unmodified, because `deviceMutex` keeps the GUI thread
  from mounting and swapping (`GuiWaits`) and no other step modifies an image then
  (`GuiSpares`).
- **`SioBusLocalProofs`**: without client operations, `HandledAlive`, `OneUser`, `NoFault`
  and `NoOrphan`. The invariant `LocalInv` adds to `TableInv` what only the GUI thread can
  undo: `EjectKnowsItsImage` (the slot of an eject holds the image the eject looked up, so
  that the three look-ups agree), `PointersGood` (every pointer kept is to a living
  image), `EjectedIsOutside`, and `LocksHeld` (who holds the lock of which image). A client
  breaks the first two at once, which is why the theorems assume there is none.
- **`ImageBufferProofs`**: `TypeCorrect` and `ModifiedIsAnnouncedAlways` with auto-commit
  and without; without it, for ATR images, `CleanAtrIsSaved` (`[]CleanIsSaved`) and
  `ImplementsDisk` (`Spec => DiskSpec`). The argument: every save that takes the lock
  excludes the commands, so the temporary file and its position belong to one thread
  (`AloneInv`); a save then copies from the beginning, and what it has copied when it
  clears the flag is still what the image holds (`SavedInv`). A revert leaves the flag clear
  only when the header gives the size of the whole: then file and image are equal, or
  `HeaderMisleads`. An automatic save takes no lock, and
  `image_race` shows what remains of the argument then.
- **`SioStartStopProofs`**, first `CommandHeardInTime` (`Spec => []HeardInTime`) for any
  amount of noise and any number of changes of speed that fail. `HeardInTime` bounds a count
  by a function of both and needs to know where the search stands: `SearchInv` relates
  attempts, noise, failures, retry count, whether the port has the Atari's speed, and
  whether it has the one that `mHighSpeed` tells. `LinkInv` adds the types.
  Then `LifecycleTypes`, `ActionInSyncAlways`, `PortUsableAlways` and
  `QuitStopsWorkerAlways`, for `~ClicksFirst` and any depth of nested clicks. The state of
  a handler is the list of instructions it has left, so the invariant must say which lists
  there are: `WorkOK` gives for each instruction which may follow and what must be true of
  the worker when it is reached. With `QueueInv` (which signals are posted, in which
  order), `SyncInv` (what check box and worker are while they still arrive) and `QuitInv`
  it makes `SwitchInv`, which is inductive.
- **`DriveCommandsProofs`**: `CommandsTypeOK`, `FolderServesFileAlways`,
  `LoadedIsFileAlways`, `ChunkExistsAlways` and `ImplementsRetriedDisk`
  (`Spec => RetriedSpec`), for any disks, folders, executables and number of attempts. The
  inductive invariant `DriveInv` has five parts: `PhaseInv` (where drive and Atari stand in
  a request; while a handler works, nothing but an acknowledgement can be on the line),
  `AnswersInv` (what is on the line tells of an answer computed for this request),
  `RequestInv` (which program asks for what, and that what is carried out has passed the
  handler's check), `LoaderInv` (what the loader has, and which chunks have not grown yet)
  and `ReaderInv` with `WindowInv` (how far each reader is in its file, and where that
  file stands in the shared window; inductive only when they also speak of sectors other
  than the last). One case per action.
  For the refinement, a handler's work maps to `CarryOut` or `DenyFormat`, the issue of a
  request to `Ask`, its end to `Finish`, a program's use of the answer to `Forget`, and
  everything else (frames, losses, repeats) to a stutter.
- **`DiskGeometryProofs`**: `SectorsTile` — for every geometry whose size fits an unsigned
  int, sectors follow each other without gap or overlap and end at the size of the image;
  this is what lets `ImageBuffer` count positions in sectors. `AtrReopens` — what is saved
  as ATR is opened as the same sectors and not taken for damaged. `NewImageHasItsSectors`,
  `PercomRoundTrip`. Two theorems state what the code does where one might expect
  otherwise: `XfdLosesThreeSectors` (a double density disk of a non-standard size comes
  back from an XFD without its last three sectors; the code warns only of "detailed disk
  geometry information") and `LargeImagesAreCut` (the test for more than 65535 sectors
  never fires, because the count has been through a `quint16`).

- **`PcLinkProofs`**: `TypesHold`, `CallsAreOnce`, `ProgramsAlwaysAgree`,
  `HandlesNeverLeak` and the action properties `NullFileNeedsCut` and `UnitsStayApart`,
  for any links, handles, files, programs, losses, repeats and changes of links. All rest
  on one invariant, `PcLinkInv`, with one case per function of the server and per step of
  driver and window. None of the properties is inductive, because each speaks of what is
  so between calls or of one counter, and the server decides by what earlier requests have
  left in `parbuf`, `err` and `old_ccom`:
  `PhaseInv` says where driver and server stand in the sequence P, S, R, S and which P or R
  was the last; `StoredInv` what a unit's stored block and status tell of its files when
  the next call comes (a stored FCLOSE names a file that is no longer open, a stored FSEEK
  a position that has been taken: this is why a P that is taken for a repetition does no
  harm); `PreparedInv` what P has left for R: the call's own block, or the zero block of a
  change of links; `DoneByPInv` and `DoneByRInv` relate what has been carried out to what
  status will say of it, which gives `CallsOnce`; `FilesInv` and `CwdInv` carry the
  programs' beliefs through a call, where file and belief differ by what the server has
  done and not yet told; `OpenedInv` and `LeakInv` follow a handle from R's choice of it
  to the program that learns its number. `UnitsApart` follows from `OwnerInv` (a call's
  handle is its own unit's) and `FilesInv`.
- **`AtariFileSystemProofs`**: `TypesHold`, `SectorsStayOwned`, `FilesStayIntact`,
  `CountsStayRight` and `ViewStaysRight`, for any disk, directories, host files and
  folders, any order of selection, host files that fail in either mode, and any number of
  tasks. One hypothesis: every sector's number fits into a short link (`LastSector <
  LinkRange`: DOS 2.0's map ends at sector 719 and DOS 2.5's at 1023, only MyDOS on larger
  disks goes further); without it `FilesIntact` is false. The exceptions are in the
  properties: all hold until the user deletes or enters a row that is no entry (`~misled`),
  `CountsAgree` of maps that never counted sector 0, `ViewIsDirectory` of windows that are
  not stale. (`TypeOK` is checked by the run after that, too, and proved before.) A stale
  window alone does no harm: as long as the rows that are deleted are entries, each once,
  the invariant holds. What the properties speak of (directories reached from the root,
  chains, the sectors of an entry) is computed by
  following links on the disk, which says little about one step. The inductive invariant
  `FileSystemInv` says instead that three things *exist*: `live`, the directories in use;
  `rank`, which grows from a directory to those in it, so that none lies in itself; and
  `place`, the sector of each block of each file. `DirsInv` and `FilesInv` say how the disk
  agrees with them (every entry of its own, all apart, none free, links as in `place`, no
  used entry behind a never-used one); `PathInv` that the window stands in `live` and
  deeper with every step; `TodoInv` what is left of a task: either insertions into
  directories in use, or deletions of entries that are still there, each once and the
  deepest first, which is why a directory is empty when `removeDir` gets to it; `ViewInv`
  that the rows are the entries not yet doomed, unless the window is stale; `MapsInv` that
  the object's map is part of the disk's, which is all that a file given up half-way leaves of the relation between
  the two. Each action says how `live`, `rank` and `place` change: a new folder gets a
  rank above its parent's, a removed one leaves `live`.
  At the end `OwnedFromGood` and `IntactFromGood` show that following links from the root
  arrives in `live` and at the blocks of `place`. `Allocation`, `Chain` and `Directories`
  are recursive functions; that they are what their equations say needs induction over
  numbers, which `Induction` derives for sets from the library's statement that `<` is
  well-founded.

Only model-checked: all liveness (`GuiReturns`, `AutoCommitSaves`, `StopReturns`,
`RequestEnds`, `TaskEnds`), which is out of the prover's reach. Every safety invariant,
action property and refinement of a passing run is a theorem.

## 6. Not modelled

*Main window.* The Android mount that restarts the worker (`mainwindow.cpp:1524-1544`) and
its automatic start; the port that leaks when a run ended by itself; boot of an executable
in drive 1 as an operation on the table (`bootExe`); eject all and sessions as sequences of
drive operations. *Back ends.* Time-outs as wall-clock time (they are steps that may
happen), hence not their failure at midnight; the Windows and Android back ends.

*The client's mount, create and auto-commit* (`0x96`–`0x98`) *and the settings.* They were
read, not modelled. What was seen: `findNewSlot`, posted by the client's commands, calls
`firstEmptyDiskSlot`, which emits `newSlot` on every call; so does every local mount, New
Image and drop, and `AspeCl::gotNewSlot` then mounts the last remote file name again,
overwrites the slot number the client asks for, and writes a reply from the GUI thread. A
mount that fails or is cancelled removes the drive's entry from the stored list although
its old image stays. `swapDevices` and `swapImages` are two steps that both threads take.

*Image formats.* `diskimagepro`, DCM, SCP and other formats that are only read; write
protection of files; the two formats' files as bytes.

*File systems.* SpartaDOS and the other read-only views; extracting; how host names become
8.3 names (names are model values, and no property depends on them); sectors that cannot
be read.

*Folders and boot disks.* How the list of files and its names are built; the boot files a
folder may offer; the segments of an executable and the dialogs.

*PCLink.* File contents; RENAME, CHMOD, RMDIR, CHVOL, DFREE (REMOVE stands for the functions
that go through the files of a name with wild cards, MKDIR for those that change one entry);
R of a function that P has completed; S is one step; a path to a directory beside the folder
whose name begins with the folder's, which `validate_user_path` accepts because it compares
the beginning of the string (programs move by one directory at a time here). Seen and left out: a failing FOPEN replies with a stale `pcl_dbf` and leaves the
directory it has searched open on its error paths; `st_size` stays what it was at FOPEN
when the file grows; ejecting a folder's drive keeps its link.

*Components outside.* Cassette (CAS files, FSK, the playing thread: timing and signal
processing), the Android activity and its drivers, the printer and the clock (stateless
replies, or output to a window), dialogs and helpers. The translation catalogues are text
without logic; no definition can stand for any of their lines.

## 7. Plan

Done: everything of section 2, in the order of what can lose data first, then protocols,
then file formats. What is left, in order:

1. `ClientMount`: the commands `0x96` to `0x98` across both threads, as a module that
   extends `SioBus` by the stored list and the recent files. Properties: what is stored
   for a drive is what the drive holds; a file name leaves the lists only at their end;
   every command gets one reply.
2. The boot menu (`bootExe`) as an operation of `SioBus`; sessions and eject all as
   sequences of its operations.
3. `Cassette`: the playing thread's start and stop against the worker's.
