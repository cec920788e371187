---------------------------- MODULE SioLifecycle ----------------------------
(***************************************************************************)
(* Starting and stopping the emulation, and how the worker hears the Atari.*)
(*                                                                         *)
(* The GUI thread owns the check box "Start emulation", the queue of the   *)
(* worker thread's started() and finished() signals, and the life of the   *)
(* serial back end: SioWorker::start creates it, SioWorker::wait cancels   *)
(* it, joins the thread and deletes it.  The worker opens it, looks for    *)
(* command frames at two speeds and may also end by itself, when the port  *)
(* does not open or is unplugged.                                          *)
(*                                                                         *)
(* What the GUI thread still has to do is a sequence of instructions: a    *)
(* handler replaces its name by its body, qApp->processEvents() and modal  *)
(* dialogs deliver the queued signals, and processEvents() may also run a  *)
(* click of the user within the handler that called it.                    *)
(***************************************************************************)
EXTENDS Naturals, Sequences

CONSTANTS
  UserOps,   \* what the user does besides opening the window: subset of AllUserOps
  FirstRun,  \* AspeqtSettings::isFirstTime
  ClicksFirst, \* processEvents() takes the window's events before posted ones
  MaxNest,   \* bound: instructions pending when a click is still taken within a handler
  MaxNoise,  \* bound: frames lost on the line during one readCommandFrame
  MaxFails   \* bound: changes of speed that fail during one, with one left from the last

AllUserOps == {"click", "restart", "options", "cassette", "ejectAll", "tray", "close"}

ASSUME LifecycleAssumption ==
  /\ UserOps \subseteq AllUserOps
  /\ FirstRun \in BOOLEAN
  /\ ClicksFirst \in BOOLEAN
  /\ MaxNest \in Nat
  /\ MaxNoise \in Nat
  /\ MaxFails \in Nat

VARIABLES
  checked,        \* ui->actionStartEmulation->isChecked()
  label,          \* what the action's text offers: "start" or "stop"
  posted,         \* the worker's signals in the GUI thread's event queue
  gui,            \* the instructions left to the GUI thread
  thread,         \* where the worker thread is
  mustTerminate,  \* SioWorker::mustTerminate
  port,           \* SioWorker::mPort, its mHandle and mCanceled
  highSpeed,      \* mHighSpeed: the speed last asked for
  portSpeed,      \* the speed the port is really set to
  search,         \* readCommandFrame's retries; frames missed, noise and failures, counted
  line            \* the Atari: its command line and the speed of its frames

guiVars == <<checked, label, posted, gui>>
linkVars == <<highSpeed, portSpeed, search, line>>
vars == <<checked, label, posted, gui, thread, mustTerminate, port,
          highSpeed, portSpeed, search, line>>

Instructions ==
  {"trigger", "newPort", "launch", "terminate", "cancel", "join", "delete",
   "events", "startIfStopped", "dialog", "options", "destroy", "gone"}
ThreadPcs ==
  {"off", "opening", "opened", "setSpeed", "loop", "waitOff", "waitOn", "reading",
   "release", "got", "gotNothing", "handling", "closing", "finishing"}
Speeds == {"normal", "high"}

TypeOK ==
  /\ checked \in BOOLEAN
  /\ label \in {"start", "stop"}
  /\ posted \in Seq({"started", "finished"})
  /\ gui \in Seq(Instructions)
  /\ thread \in ThreadPcs
  /\ mustTerminate \in BOOLEAN
  /\ port \in [exists : BOOLEAN, open : BOOLEAN, canceled : BOOLEAN]
  /\ port.open => port.exists
  /\ highSpeed \in BOOLEAN
  /\ portSpeed \in Speeds
  /\ search \in [retries : {0, 1}, missed : Nat, noise : 0..MaxNoise, failed : 0..MaxFails]
  /\ line \in [on : BOOLEAN, speed : Speeds]

NoPort == [exists |-> FALSE, open |-> FALSE, canceled |-> FALSE]

SpeedOf(high) == IF high THEN "high" ELSE "normal"

(* setHighSpeed and setNormalSpeed set mHighSpeed before they try: it is    *)
(* wrong after a failure, also for the next search.                         *)
FlagWrong == portSpeed # SpeedOf(highSpeed)

NewSearch ==
  [retries |-> 0, missed |-> 0, noise |-> 0, failed |-> IF FlagWrong THEN 1 ELSE 0]

-----------------------------------------------------------------------------
(* The handlers of the GUI thread, as the instructions they consist of.     *)

(* Mutants: cancel before mustTerminate; the port deleted under the thread. *)
WaitCancelsFirst == <<"cancel", "terminate", "join", "delete">>
WaitDeletesFirst == <<"terminate", "cancel", "delete", "join">>

(* SioWorker::wait                                                          *)
Wait == <<"terminate", "cancel", "join", "delete">>

(* Mutant: the stop returns before finished() has been delivered.           *)
TriggeredHurried(start) ==
  IF start THEN <<"newPort", "launch">> ELSE Wait

(* on_actionStartEmulation_triggered, after trigger() toggled the action.   *)
Triggered(start) ==
  IF start THEN <<"newPort", "launch">> ELSE Wait \o <<"events">>

(* if (isChecked()) { trigger(); sio->wait(); processEvents(); }            *)
StopFirst == IF checked THEN <<"trigger">> \o Wait \o <<"events">> ELSE <<>>

(* restartForXexOpen, restartForCassetteOpen, prepareForXexBoot.            *)
Restart == StopFirst \o <<"startIfStopped", "events">>

(* on_actionOptions_triggered: the last trigger() is unconditional.         *)
Options == StopFirst \o <<"dialog", "trigger">>

(* playCassetteImage: the tape plays in a modal dialog.                     *)
Cassette == StopFirst \o <<"dialog">> \o (IF checked THEN <<"trigger">> ELSE <<>>)

(* closeEvent cancelled at a question, and on_actionEjectAll_triggered.     *)
Interrupt ==
  IF checked THEN <<"trigger", "dialog", "trigger">> ELSE <<"dialog">>

(* closeEvent accepted, then ~MainWindow.                                   *)
Close == (IF checked THEN <<"trigger">> ELSE <<>>) \o <<"dialog", "destroy">>

(* MainWindow::show, also called when the window comes back from the tray:  *)
(* nothing clears the flag of the first time, so that this "Starting        *)
(* emulation" stops the emulation that is running.                          *)
Show(options) ==
  (IF FirstRun THEN <<"dialog">> ELSE <<>>)
    \o (IF options THEN <<"options">> ELSE <<>>) \o <<"trigger">>

Init ==
  /\ checked = FALSE
  /\ label = "start"
  /\ posted = <<>>
  /\ gui \in {Show(options) : options \in {FALSE, FirstRun}}
  /\ thread = "off"
  /\ mustTerminate = FALSE
  /\ port = NoPort
  /\ highSpeed = FALSE
  /\ portSpeed = "normal"
  /\ search = NewSearch
  /\ line \in [on : {FALSE}, speed : Speeds]

-----------------------------------------------------------------------------
(* The GUI thread.                                                          *)

At(instructions) == gui # <<>> /\ Head(gui) \in instructions

Perform(body) == gui' = body \o Tail(gui)

(* The user starts a handler from the main event loop.                      *)
Begin(op, body) ==
  /\ op \in UserOps
  /\ gui = <<>>
  /\ gui' = body
  /\ UNCHANGED <<checked, label, posted, thread, mustTerminate, port, linkVars>>

UserActs ==
  \/ Begin("click", <<"trigger">>)
  \/ Begin("restart", Restart)
  \/ Begin("options", Options)
  \/ Begin("cassette", Cassette)
  \/ Begin("ejectAll", Interrupt)
  \/ Begin("close", Interrupt)
  \/ Begin("close", Close)
  \/ \E options \in {FALSE, FirstRun} : Begin("tray", Show(options))

(* A click that processEvents() takes within another handler.  Whether it   *)
(* comes before the signals already queued depends on Qt's dispatcher.      *)
NestedClick ==
  /\ At({"events"})
  /\ ClicksFirst \/ posted = <<>>
  /\ "click" \in UserOps
  /\ Len(gui) <= MaxNest
  /\ \A i \in 1..Len(gui) : gui[i] # "gone"
  /\ gui' = <<"trigger">> \o gui
  /\ UNCHANGED <<checked, label, posted, thread, mustTerminate, port, linkVars>>

(* QAction::trigger() toggles the action and calls its handler.             *)
Trigger ==
  /\ At({"trigger"})
  /\ checked' = ~checked
  /\ Perform(Triggered(~checked))
  /\ UNCHANGED <<label, posted, thread, mustTerminate, port, linkVars>>

OpenOptions ==
  /\ At({"options"})
  /\ Perform(Options)
  /\ UNCHANGED <<checked, label, posted, thread, mustTerminate, port, linkVars>>

StartIfStopped ==
  /\ At({"startIfStopped"})
  /\ Perform(IF checked THEN <<>> ELSE <<"trigger">>)
  /\ UNCHANGED <<checked, label, posted, thread, mustTerminate, port, linkVars>>

(* SioWorker::start: a new back end, closed, whose mCanceled nobody has     *)
(* initialised; one that is still there is forgotten.                       *)
NewPort ==
  /\ At({"newPort"})
  /\ \E c \in BOOLEAN : port' = [exists |-> TRUE, open |-> FALSE, canceled |-> c]
  /\ mustTerminate' = FALSE
  /\ Perform(<<>>)
  /\ UNCHANGED <<checked, label, posted, thread, linkVars>>

(* QThread::start: nothing when the thread runs, and it waits for one that  *)
(* is finishing.                                                            *)
Launch ==
  /\ At({"launch"})
  /\ thread # "finishing"
  /\ IF thread = "off"
       THEN /\ thread' = "opening"
            /\ posted' = Append(posted, "started")
       ELSE UNCHANGED <<thread, posted>>
  /\ Perform(<<>>)
  /\ UNCHANGED <<checked, label, mustTerminate, port, linkVars>>

Terminate ==
  /\ At({"terminate"})
  /\ mustTerminate' = TRUE
  /\ Perform(<<>>)
  /\ UNCHANGED <<checked, label, posted, thread, port, linkVars>>

Cancel ==
  /\ At({"cancel"})
  /\ port' = [port EXCEPT !.canceled = port.exists \/ @]
  /\ Perform(<<>>)
  /\ UNCHANGED <<checked, label, posted, thread, mustTerminate, linkVars>>

(* QThread::wait                                                            *)
Join ==
  /\ At({"join"})
  /\ thread = "off"
  /\ Perform(<<>>)
  /\ UNCHANGED <<checked, label, posted, thread, mustTerminate, port, linkVars>>

DeletePort ==
  /\ At({"delete"})
  /\ port' = NoPort
  /\ Perform(<<>>)
  /\ UNCHANGED <<checked, label, posted, thread, mustTerminate, linkVars>>

(* sioStarted and sioFinished, when the GUI thread gets to its events.      *)
Deliver ==
  /\ gui = <<>> \/ At({"events", "dialog"})
  /\ posted # <<>>
  /\ posted' = Tail(posted)
  /\ IF Head(posted) = "started"
       THEN label' = "stop" /\ UNCHANGED checked
       ELSE label' = "start" /\ checked' = FALSE
  /\ UNCHANGED <<gui, thread, mustTerminate, port, linkVars>>

EventsDone ==
  /\ At({"events"})
  /\ posted = <<>>
  /\ Perform(<<>>)
  /\ UNCHANGED <<checked, label, posted, thread, mustTerminate, port, linkVars>>

(* The user closes the dialog, whatever the queue holds.                    *)
DialogDone ==
  /\ At({"dialog"})
  /\ Perform(<<>>)
  /\ UNCHANGED <<checked, label, posted, thread, mustTerminate, port, linkVars>>

(* Mutant: ~MainWindow relies on closeEvent for the stop.                   *)
DestroyHurried ==
  /\ At({"destroy"})
  /\ gui' = <<"gone">>
  /\ UNCHANGED <<checked, label, posted, thread, mustTerminate, port, linkVars>>

(* ~MainWindow, up to the delete of the worker.                             *)
Destroy ==
  /\ At({"destroy"})
  /\ gui' = (IF checked THEN <<"trigger">> ELSE <<>>) \o <<"gone">>
  /\ UNCHANGED <<checked, label, posted, thread, mustTerminate, port, linkVars>>

GuiProceeds ==
  \/ Trigger \/ OpenOptions \/ StartIfStopped \/ NewPort \/ Launch
  \/ Terminate \/ Cancel \/ Join \/ DeletePort
  \/ Deliver \/ EventsDone \/ Destroy

GuiNext == GuiProceeds \/ DialogDone \/ NestedClick \/ UserActs

-----------------------------------------------------------------------------
(* The worker thread: SioWorker::run over the back end.                     *)

Canceled == port.exists /\ port.canceled

Goes(from, to) == thread = from /\ thread' = to

Finishes == thread' = "finishing" /\ posted' = Append(posted, "finished")

(* The port cannot be opened; or, once open, cannot be set to its speed.    *)
OpenFails ==
  /\ thread \in {"opening", "setSpeed"}
  /\ Finishes
  /\ port' = IF thread = "opening" THEN port
             ELSE [port EXCEPT !.open = FALSE, !.canceled = TRUE]
  /\ UNCHANGED <<checked, label, gui, mustTerminate, linkVars>>

OpenHandle ==
  /\ Goes("opening", "opened")
  /\ port' = [port EXCEPT !.open = TRUE]
  /\ UNCHANGED <<guiVars, mustTerminate, linkVars>>

(* open() clears a cancel that came before it.                              *)
ClearCanceled ==
  /\ Goes("opened", "setSpeed")
  /\ port' = [port EXCEPT !.canceled = FALSE]
  /\ UNCHANGED <<guiVars, mustTerminate, linkVars>>

SetNormalSpeed ==
  /\ Goes("setSpeed", "loop")
  /\ highSpeed' = FALSE
  /\ portSpeed' = "normal"
  /\ UNCHANGED <<guiVars, mustTerminate, port, search, line>>

Loop ==
  /\ thread = "loop"
  /\ thread' = IF mustTerminate THEN "closing" ELSE "waitOff"
  /\ search' = NewSearch
  /\ UNCHANGED <<guiVars, mustTerminate, port, highSpeed, portSpeed, line>>

WaitCommandOff ==
  /\ ~line.on \/ Canceled
  /\ Goes("waitOff", "waitOn")
  /\ UNCHANGED <<guiVars, mustTerminate, port, linkVars>>

WaitCommandOn ==
  /\ thread = "waitOn"
  /\ line.on \/ Canceled
  /\ thread' = IF Canceled THEN "gotNothing" ELSE "reading"
  /\ UNCHANGED <<guiVars, mustTerminate, port, linkVars>>

SameSpeed == line.speed = portSpeed

ReadFrame ==
  /\ SameSpeed
  /\ Goes("reading", "release")
  /\ UNCHANGED <<guiVars, mustTerminate, port, linkVars>>

(* One more attempt missed, and perhaps one more change of speed failed.    *)
Missed(retries, failures) ==
  [retries |-> retries, missed |-> search.missed + 1,
   noise |-> search.noise + (IF SameSpeed THEN 1 ELSE 0), failed |-> search.failed + failures]

(* A change of speed; the port keeps the speed it has when that fails.      *)
SetSpeed(high, failures) ==
  /\ highSpeed' = high
  /\ portSpeed' = IF failures = 0 THEN SpeedOf(high) ELSE portSpeed

(* Nothing in readCommandFrame looks at the result of a change of speed.    *)
Failures == IF search.failed < MaxFails THEN {0, 1} ELSE {0}

(* Mutants: the count is not reset; the speed is not changed back.          *)
CountMissForEver ==
  /\ search' = Missed(search.retries + 1, 0)
  /\ UNCHANGED <<highSpeed, portSpeed>>
CountMissUpwards ==
  \/ search.retries = 0 /\ search' = Missed(1, 0) /\ UNCHANGED <<highSpeed, portSpeed>>
  \/ search.retries = 1 /\ search' = Missed(0, 0) /\ SetSpeed(TRUE, 0)

(* The frame did not come or its checksum was wrong: after two of them the  *)
(* other speed is tried.                                                    *)
CountMiss ==
  \/ search.retries = 0 /\ search' = Missed(1, 0) /\ UNCHANGED <<highSpeed, portSpeed>>
  \/ /\ search.retries = 1
     /\ \E failures \in Failures :
          search' = Missed(0, failures) /\ SetSpeed(~highSpeed, failures)

MissFrame ==
  /\ SameSpeed => search.noise < MaxNoise
  /\ Goes("reading", "waitOff")
  /\ CountMiss
  /\ UNCHANGED <<guiVars, mustTerminate, port, line>>

AwaitRelease ==
  /\ ~line.on \/ Canceled
  /\ Goes("release", "got")
  /\ UNCHANGED <<guiVars, mustTerminate, port, linkVars>>

(* ioctl fails: the adapter was unplugged.  A frame that is already read is *)
(* returned all the same.                                                   *)
LineFails ==
  /\ \/ thread \in {"waitOff", "waitOn"} /\ thread' = "gotNothing"
     \/ Goes("release", "got")
  /\ UNCHANGED <<guiVars, mustTerminate, port, linkVars>>

(* Back in run(): a frame that arrives during a stop is dropped.            *)
GotFrame ==
  /\ thread = "got"
  /\ thread' = IF mustTerminate THEN "closing" ELSE "handling"
  /\ UNCHANGED <<guiVars, mustTerminate, port, linkVars>>

GotNothing ==
  /\ Goes("gotNothing", "closing")
  /\ UNCHANGED <<guiVars, mustTerminate, port, linkVars>>

Handled ==
  /\ Goes("handling", "loop")
  /\ UNCHANGED <<guiVars, mustTerminate, port, linkVars>>

ClosePort ==
  /\ thread = "closing"
  /\ port' = [port EXCEPT !.open = FALSE, !.canceled = port.exists]
  /\ Finishes
  /\ UNCHANGED <<checked, label, gui, mustTerminate, linkVars>>

Finish ==
  /\ Goes("finishing", "off")
  /\ UNCHANGED <<guiVars, mustTerminate, port, linkVars>>

WorkerProceeds ==
  \/ OpenHandle \/ ClearCanceled \/ SetNormalSpeed \/ Loop
  \/ WaitCommandOff \/ WaitCommandOn \/ ReadFrame \/ MissFrame \/ AwaitRelease
  \/ GotFrame \/ GotNothing \/ Handled \/ ClosePort \/ Finish

WorkerNext == WorkerProceeds \/ OpenFails \/ LineFails

-----------------------------------------------------------------------------
(* The Atari: it raises its command line, sends the frame and lowers it; a  *)
(* frame it repeats has the speed of the first attempt.                     *)
CommandOn ==
  /\ ~line.on
  /\ \E s \in IF search.missed = 0 THEN Speeds ELSE {line.speed} :
       line' = [on |-> TRUE, speed |-> s]
  /\ UNCHANGED <<guiVars, thread, mustTerminate, port, highSpeed, portSpeed, search>>

CommandOff ==
  /\ line.on
  /\ thread # "reading"
  /\ line' = [line EXCEPT !.on = FALSE]
  /\ UNCHANGED <<guiVars, thread, mustTerminate, port, highSpeed, portSpeed, search>>

Next == GuiNext \/ WorkerNext \/ CommandOn \/ CommandOff

Spec == Init /\ [][Next]_vars

(* The threads are scheduled; the user and the Atari may do nothing for     *)
(* ever, and nothing has to fail.                                           *)
FairSpec == Spec /\ WF_vars(GuiProceeds) /\ WF_vars(WorkerProceeds)

-----------------------------------------------------------------------------
(* When the GUI thread has come to rest the action shows the truth: it is   *)
(* checked, and offers "Stop", exactly while the worker runs.  A finished() *)
(* of an earlier run must not reach the action after a new start.           *)
ActionInSync ==
  gui = <<>> /\ posted = <<>> =>
    /\ checked <=> thread \notin {"off", "finishing"}
    /\ label = IF checked THEN "stop" ELSE "start"

(* The worker reads commands only from a back end that exists and that it   *)
(* has opened itself: wait() joins before it deletes, and no start replaces *)
(* the back end of a running thread.                                        *)
PortUsable ==
  /\ thread \in {"opening", "opened", "setSpeed"} => port.exists
  /\ thread \in ThreadPcs \ {"off", "opening", "finishing"} => port.open

(* The worker object is deleted only after its run() has ended, also when a *)
(* click restarted the emulation while the window was closing; ~QThread     *)
(* waits for a thread that is only finishing.                               *)
QuitStopsWorker == gui = <<"gone">> => thread \in {"off", "finishing"}

(* Without noise a command is heard at the third attempt at the latest;     *)
(* each pair of frames lost to noise costs two attempts at the other speed, *)
(* and each change of speed that fails, which nobody notices, four.         *)
HeardInTime ==
  search.missed <= 2 + search.noise + 2 * (search.noise \div 2) + 4 * search.failed

(* A stop always returns: the cancel that open() may clear is backed by     *)
(* mustTerminate, which is set first and read last.                         *)
StopReturns == At({"join"}) ~> ~At({"join"})

=============================================================================
