---------------------------- MODULE PcLinkProofs ----------------------------
(***************************************************************************)
(* The PCLink server, for any links, handles, files, programs and number   *)
(* of attempts: a call is carried out at most once, the handle table is    *)
(* what the programs believe of it, no handle is lost, and the units stay  *)
(* apart in the one table.                                                 *)
(*                                                                         *)
(* The invariant follows a call through its four requests: what P has      *)
(* stored, what R makes of it, and what status will say of both.           *)
(***************************************************************************)
EXTENDS PcLink, TLAPS

(* What is where: the types of all variables.                               *)
BlockType == [fn : AllFunctions, handle : Handles \cup {NoHandle}, arg : Int]

FileType == [open : BOOLEAN, unit : Units, mode : AllModes \cup {0}, dir : BOOLEAN,
             size : 0..MaxLen + 1, pos : 0..MaxPos, eof : BOOLEAN]

ServerType ==
  [linked : [Units -> Folders \cup {NoFolder}], cwd : [Units -> 0..MaxDepth],
   parbuf : [Units -> BlockType], err : [Units -> Nat], io : [Handles -> FileType],
   old : {"none", "P", "R"}, crashed : BOOLEAN]

LineType == [at : {"quiet", "command", "reply"},
             fn : AllFunctions \cup {"none", "complete", "nak"}, val : Nat]

CallType ==
  [pc : {"idle", "busy"}, unit : Units, block : BlockType, stage : {"P", "S1", "R", "S2"},
   tries : 0..MaxTries - 1, size : Nat, handle : Handles \cup {NoHandle}, times : Nat,
   twin : BOOLEAN, cut : BOOLEAN, honest : BOOLEAN]

GuiType ==
  [pc : {"idle", "change", "install"}, op : AllGuiOps \cup {"none"},
   from : Units, to : Units, folder : Folders \cup {NoFolder}]

ServerInv ==
  /\ server \in ServerType
  /\ server.linked[0] = NoFolder
  /\ \A h \in Handles : ~server.io[h].open => server.io[h] = Closed

OthersInv ==
  /\ gui \in GuiType /\ (gui.pc = "change" => gui.from \in Links /\ gui.to \in Links)
  /\ installed <=> gui.pc = "idle"
  /\ line \in LineType /\ call \in CallType
  /\ known \in [Handles -> [unit : Units, pos : Nat \cup {Unknown}]]
  /\ knownCwd \in [Units -> Int]
  /\ lost \subseteq Handles /\ pulled \subseteq Handles

-----------------------------------------------------------------------------
(* The call at hand: which one it is and how far it has come.               *)
Busy  == call.pc = "busy"
Fn    == Blk.fn
Err   == server.err[Unit]

(* 'P' has been answered in this call.                                      *)
Heard == call.stage # "P" \/ line.at = "reply"

(* 'R' has still to be carried out, has been, has been answered.            *)
ToDo == call.stage \in {"P", "S1"} \/ (call.stage = "R" /\ server.old = "P")
Got  == call.stage = "S2" \/ (call.stage = "R" /\ line.at = "reply" /\ Expected)

PhaseInv ==
  /\ line.at = "quiet" <=> ~Busy
  /\ Busy =>
       /\ Blk \in Blocks
       /\ Fn = "INIT" <=> Unit = 0
       /\ Fn \in ByP => call.stage \in {"P", "S1"}
       /\ call.stage \in {"S1", "S2"} => line.at = "command"
       /\ call.stage = "P" /\ line.at = "reply" => line.fn = "complete"
       /\ call.stage \in {"P", "S1"} /\ Heard => server.old = "P"
       /\ call.stage = "R" => server.old \in {"P", "R"}
       /\ call.stage = "R" /\ server.old = "P" => line.at = "command"
       /\ call.stage = "S2" => server.old = "R"

(* A program calls for a file of its own, and a warm reset for none.        *)
OwnerInv ==
  Busy =>
    /\ Fn \in OnFile => known[Blk.handle] # NoFile /\ known[Blk.handle].unit = Unit
    /\ Fn = "INIT" => /\ \A h \in Handles : known[h] = NoFile
                      /\ lost = Handles /\ pulled = {}

-----------------------------------------------------------------------------
(* The stored blocks and what their units' status says of them.             *)
StoredInv ==
  \A n \in Units :
    LET p == server.parbuf[n]
    IN  /\ p.fn # "INIT"
        /\ p.fn # "CHDIR" => p.arg \in Nat
        /\ p.fn = "FFIRST" => p.arg = DirMode
        /\ server.err[n] = 3 => p.fn \in {"FREAD", "FNEXT", "FFIRST"}
        /\ p.fn = "FCLOSE" /\ known[p.handle] # NoFile /\ known[p.handle].unit = n
             => Busy /\ Unit = n /\ Blk = p
        /\ p.fn = "FSEEK" /\ server.err[n] \in {1, 3} /\ known[p.handle] # NoFile
             /\ known[p.handle].unit = n /\ p.handle \notin pulled
             => server.io[p.handle].pos = p.arg
        /\ p.fn \in {"FSEEK", "FCLOSE"} => p.handle \in Handles

(* The stored block is the call's, as 'P' and 'R' have changed it, or it    *)
(* has been cleared by a change of links.                                   *)
Matches ==
  /\ Par.fn = Fn
  /\ Fn \notin Opens => Par.handle = Blk.handle
  /\ Fn = "FOPEN" => Par.arg = Blk.arg
  /\ Fn \in {"FREAD", "FWRITE"} => Par.arg <= Blk.arg

Zeroed == Par = ZeroBlock /\ call.cut

(* What 'P' has left for 'R'.                                               *)
PreparedInv ==
  Busy /\ Fn \notin ByP =>
    /\ call.stage \in {"R", "S2"} \/ (Heard /\ Err = 1) => Matches \/ Zeroed
    /\ ToDo => call.times = 0 /\ call.handle = NoHandle
    /\ call.stage = "R" /\ server.old = "P" => Err = 1
    /\ call.stage \in {"P", "S1"} /\ Heard => Err # 3
    /\ Fn \in {"FREAD", "FWRITE"} /\ ToDo =>
         /\ server.io[Blk.handle].pos + Blk.arg <= MaxPos
         /\ Heard /\ Err = 1 /\ ~call.cut => server.io[Blk.handle].open

(* What 'P' has done in a call that it carries out.                         *)
DoneByPInv ==
  Busy /\ Fn \in ByP =>
    /\ call.handle = NoHandle
    /\ Heard => Err # 3
    /\ Fn = "INIT" => /\ ~call.twin /\ Par # Blk /\ call.times = 0
                      /\ Heard /\ Err # 143 => \A h \in Handles : ~server.io[h].open
    /\ Fn = "FCLOSE" => /\ ~call.twin
                        /\ Par = Blk => ~server.io[Blk.handle].open
                        /\ Heard /\ Err # 143 => ~server.io[Blk.handle].open
    /\ Fn # "INIT" /\ ~call.cut =>
         IF call.twin THEN Par = Blk /\ call.times = 0
         ELSE IF Par = Blk
              THEN \/ call.times = 1 /\ Err \in {1, 143}
                   \/ call.times = 0 /\ Err \in {Refusal, 143}
                   \/ call.times = 1 /\ Err \in {Refusal, 143} /\ Fn = "REMOVE"
              ELSE call.times = 0 /\ (Heard => Err = 143)

(* What 'R' has done.                                                       *)
DoneByRInv ==
  Busy /\ Fn \notin ByP =>
    /\ call.times <= 1
    /\ Got /\ Fn \notin {"FNEXT", "FTELL", "GETCWD"} /\ Err \in {1, 3} =>
         call.times = 1 /\ (Fn \in Opens => call.handle \in Handles)
    /\ Got /\ Fn \in Opens /\ Err \notin {1, 3} => call.times = 0 /\ call.handle = NoHandle
    /\ Got /\ Fn \in {"FREAD", "FWRITE"} /\ Err # 143 => call.times = 1
    /\ Got /\ Fn = "FNEXT" => call.stage = "R" /\ (line.val \in {1, 3} => call.times = 1)

-----------------------------------------------------------------------------
(* The programs and the server agree about every file: between calls on its *)
(* position, in a call on what it has still to tell.                        *)
WorksOn(h) == Busy /\ Fn \in OnFile /\ Blk.handle = h

Answer == IF call.stage = "S2" THEN call.size ELSE line.val

FilesInv ==
  \A h \in Handles \ pulled :
    LET f == server.io[h]
        k == known[h]
    IN  k # NoFile =>
          /\ f.open => f.unit = k.unit
          /\ (WorksOn(h) /\ Fn = "FCLOSE") \/ f.open
          /\ ~WorksOn(h) => k.pos \in {Unknown, f.pos}
          /\ WorksOn(h) /\ k.pos # Unknown =>
               /\ Fn \in {"FREAD", "FWRITE"} =>
                    f.pos = k.pos + IF call.times = 0 THEN 0 ELSE call.size
               /\ Fn = "FSEEK" /\ call.times = 0 => f.pos = k.pos
               /\ Fn = "FTELL" => f.pos = k.pos
          /\ WorksOn(h) /\ ~call.cut /\ Fn = "FTELL" /\ Got => Answer = f.pos

CwdInv ==
  \A n \in Links :
    IF Busy /\ Fn = "CHDIR" /\ Unit = n
    THEN ~call.cut /\ ~call.twin /\ knownCwd[n] # Unknown =>
           server.cwd[n] = knownCwd[n] + IF call.times = 0 THEN 0 ELSE Blk.arg
    ELSE /\ knownCwd[n] \in {Unknown, server.cwd[n]}
         /\ Busy /\ Fn = "GETCWD" /\ Unit = n /\ Got /\ ~call.cut => Answer = server.cwd[n]

(* A handle that 'R' has opened is one the program will know or have lost.  *)
OpenedInv ==
  Busy /\ call.handle # NoHandle =>
    /\ Fn \in Opens /\ ~ToDo
    /\ ~call.cut =>
         LET f == server.io[call.handle]
         IN  /\ f.open /\ f.unit = Unit
             /\ Fn = "FFIRST" => f.pos = 1
             /\ Fn = "FOPEN" /\ Blk.arg # 9 => f.pos = 0
             /\ Fn = "FOPEN" /\ Blk.arg = 9 /\ Got => f.pos = Answer

LeakInv ==
  \A h \in Handles :
    server.io[h].open => known[h] # NoFile \/ h \in lost \/ (Busy /\ call.handle = h)

HonestInv == call.honest /\ (~Busy => call.times = 0)

PcLinkInv ==
  ServerInv /\ OthersInv /\ PhaseInv /\ OwnerInv /\ StoredInv /\ PreparedInv
    /\ DoneByPInv /\ DoneByRInv /\ FilesInv /\ CwdInv /\ OpenedInv /\ LeakInv /\ HonestInv

-----------------------------------------------------------------------------
(* Types.                                                                   *)

LEMMA BlockFacts ==
  ASSUME NEW b \in Blocks
  PROVE  /\ b \in BlockType /\ b.handle \in Handles
         /\ b.fn \in {"FREAD", "FWRITE"} => b.arg \in 1..MaxLen
         /\ b.fn = "FSEEK" => b.arg \in 0..MaxLen
         /\ b.fn = "FOPEN" => b.arg \in AllModes /\ b.handle = 0
         /\ b.fn = "FFIRST" => b.arg = 0 /\ b.handle = 0
         /\ b.fn = "CHDIR" => b.arg \in {-1, 1}
         /\ b.fn # "CHDIR" => b.arg \in Nat
         /\ b # ZeroBlock
  BY PcLinkAssumption
  DEF Blocks, Block, BlockType, AllFunctions, ByP, OnFile, Handles, AllModes, ZeroBlock

LEMMA ClosedType == Closed \in FileType
  BY PcLinkAssumption DEF Closed, FileType, Units, AllModes

LEMMA ZeroBlockType == ZeroBlock \in BlockType
  BY PcLinkAssumption DEF ZeroBlock, Block, BlockType, AllFunctions, OnFile, Handles

(* What the invariant says of the call's unit, block and files.             *)
LEMMA BusyFacts ==
  ASSUME PcLinkInv, Busy
  PROVE  /\ Unit \in Units /\ Blk \in Blocks /\ Blk \in BlockType /\ Par \in BlockType
         /\ Err \in Nat /\ Blk.handle \in Handles
         /\ server.io[Blk.handle] \in FileType
         /\ call.times \in Nat /\ call.size \in Nat
  <1>1. Blk \in Blocks
    BY DEF PcLinkInv, PhaseInv
  <1> QED
    BY <1>1, BlockFacts
    DEF PcLinkInv, ServerInv, OthersInv, ServerType, CallType, Unit, Blk, Par, Err

LEMMA InitInv == Init => PcLinkInv
  <1> SUFFICES ASSUME Init PROVE PcLinkInv
    OBVIOUS
  <1> USE PcLinkAssumption
  <1>1. ServerInv
    <2>1. PICK l \in [Links -> Folders] :
            server = [linked |-> [n \in Units |-> IF n = 0 THEN NoFolder ELSE l[n]],
                 cwd    |-> [n \in Units |-> 0],
                 parbuf |-> [n \in Units |-> ZeroBlock],
                 err    |-> [n \in Units |-> 0],
                 io     |-> [h \in Handles |-> Closed],
                 old    |-> "none", crashed |-> FALSE]
      BY DEF Init
    <2> QED
      BY <2>1, ZeroBlockType, ClosedType DEF ServerInv, ServerType, Units, Links
  <1>2. /\ server.parbuf = [n \in Units |-> ZeroBlock] /\ server.err = [n \in Units |-> 0]
        /\ server.io = [h \in Handles |-> Closed] /\ server.cwd = [n \in Units |-> 0]
    BY DEF Init
  <1>3. ~Busy
    BY DEF Init, NoCall, Busy
  <1>4. OthersInv
    BY ZeroBlockType
    DEF Init, OthersInv, GuiType, GuiIdle, LineType, Quiet, CallType, NoCall, NoFile, Unknown,
        Units, Handles, AllFunctions
  <1>5. PhaseInv /\ OwnerInv /\ PreparedInv /\ DoneByPInv /\ DoneByRInv /\ OpenedInv /\ HonestInv
    BY <1>3 DEF PhaseInv, OwnerInv, PreparedInv, DoneByPInv, DoneByRInv, OpenedInv, HonestInv,
      Init, Quiet, NoCall
  <1>6. StoredInv
    BY <1>2 DEF StoredInv, ZeroBlock, Block
  <1>7. FilesInv /\ LeakInv
    BY <1>2, <1>3 DEF Init, FilesInv, LeakInv, Closed, NoFile
  <1>8. CwdInv
    BY <1>2, <1>3 DEF Init, CwdInv, Links, Units
  <1> QED
    BY <1>1, <1>4, <1>5, <1>6, <1>7, <1>8 DEF PcLinkInv

-----------------------------------------------------------------------------
(* What a step does to the fields of the records.                           *)
ServerStep(q, e, ios, cs, o) ==
  /\ server' \in ServerType
  /\ server'.linked = server.linked /\ server'.cwd = cs
  /\ server'.parbuf = [server.parbuf EXCEPT ![Unit] = q]
  /\ server'.err = [server.err EXCEPT ![Unit] = e]
  /\ server'.io = ios /\ server'.old = o

CallStep(n, t, hd) ==
  /\ call' \in CallType
  /\ call'.pc = call.pc /\ call'.unit = call.unit /\ call'.block = call.block
  /\ call'.stage = call.stage /\ call'.twin = call.twin /\ call'.cut = call.cut
  /\ call'.honest = call.honest
  /\ call'.size = n /\ call'.times = t /\ call'.handle = hd

LEMMA ServerStepBy ==
  ASSUME PcLinkInv, Busy, NEW q \in BlockType, NEW e \in Nat,
         NEW ios \in [Handles -> FileType], NEW d \in 0..MaxDepth, NEW o \in {"P", "R"},
         server' = [server EXCEPT !.parbuf[Unit] = q, !.err[Unit] = e, !.io = ios,
                                  !.cwd[Unit] = d, !.old = o]
  PROVE  ServerStep(q, e, ios, [server.cwd EXCEPT ![Unit] = d], o)
  BY BusyFacts DEF ServerStep, ServerType, PcLinkInv, ServerInv

LEMMA CallStepBy ==
  ASSUME PcLinkInv, NEW n \in Nat, NEW t \in Nat, NEW hd \in Handles \cup {NoHandle},
         call' = [call EXCEPT !.size = n, !.times = t, !.handle = hd]
  PROVE  CallStep(n, t, hd)
  BY DEF CallStep, CallType, PcLinkInv, OthersInv

(* A 'P' that leaves q as the stored block, e as the status, files ios and  *)
(* directories cs.                                                          *)
PStep(q, e, ios, cs, n, t) ==
  /\ Takes("P")
  /\ ServerStep(q, e, ios, cs, "P") /\ CallStep(n, t, call.handle)
  /\ Complete /\ ServerOnly

(* An 'R' that answers v.                                                   *)
RStep(q, e, ios, n, t, hd, f, v) ==
  /\ Takes("R")
  /\ ServerStep(q, e, ios, server.cwd, "R") /\ CallStep(n, t, hd)
  /\ Reply(f, v) /\ ServerOnly

LEMMA TakesBusy ==
  ASSUME PcLinkInv, NEW s, Takes(s)
  PROVE  Busy
  BY DEF PcLinkInv, PhaseInv, Takes

(* What every 'P' keeps, whatever it does.                                  *)
LEMMA PStepKeeps ==
  ASSUME PcLinkInv, NEW q, NEW e, NEW ios, NEW cs, NEW n, NEW t, PStep(q, e, ios, cs, n, t),
         Fn \notin ByP => t = call.times,
         \A h \in Handles : /\ ~ios[h].open => ios[h] = Closed
                            /\ ios[h].open => server.io[h].open
  PROVE  /\ ServerInv' /\ OthersInv' /\ PhaseInv' /\ OwnerInv'
         /\ DoneByRInv' /\ OpenedInv' /\ LeakInv' /\ HonestInv'
  <1> USE DEF PStep, PcLinkInv
  <1>1. Busy /\ call.stage = "P" /\ line.at = "command" /\ Busy' /\ Blk' = Blk /\ Unit' = Unit /\ Fn' = Fn
    BY TakesBusy DEF Takes, CallStep, Busy, Blk, Unit, Fn
  <1>2. line' = [Quiet EXCEPT !.at = "reply", !.fn = "complete", !.val = 0]
    BY DEF Complete, Reply
  <1>3. ServerInv'
    BY BusyFacts, <1>1 DEF ServerInv, ServerStep, Unit, ServerType
  <1>4. OthersInv'
    BY <1>2 DEF OthersInv, ServerOnly, programs, CallStep, LineType, Quiet
  <1>5. PhaseInv'
    BY <1>1, <1>2 DEF PhaseInv, Heard, Quiet, CallStep, ServerStep
  <1>6. OwnerInv'
    BY <1>1 DEF OwnerInv, ServerOnly, programs
  <1>7. DoneByRInv'
    BY <1>1, <1>2 DEF DoneByRInv, Got, CallStep, PreparedInv, ToDo
  <1>8. call'.handle = NoHandle
    BY <1>1 DEF CallStep, PreparedInv, DoneByPInv, ToDo
  <1>9. OpenedInv'
    BY <1>8 DEF OpenedInv
  <1>10. LeakInv'
    BY <1>1, <1>8 DEF LeakInv, ServerStep, ServerOnly, programs, CallStep
  <1>11. HonestInv'
    BY <1>1 DEF HonestInv, CallStep
  <1> QED
    BY <1>3, <1>4, <1>5, <1>6, <1>7, <1>9, <1>10, <1>11

(* The stored blocks stay in order if the new one is, and if only the       *)
(* call's own file is moved.                                                *)
LEMMA PStepStored ==
  ASSUME PcLinkInv, NEW q, NEW e, NEW ios, NEW cs, NEW n, NEW t, PStep(q, e, ios, cs, n, t),
         q.fn # "INIT", q.fn # "CHDIR" => q.arg \in Nat,
         q.fn = "FFIRST" => q.arg = DirMode,
         e = 3 => q.fn \in {"FREAD", "FNEXT", "FFIRST"},
         q.fn = "FCLOSE" => q = Blk,
         q.fn \in {"FSEEK", "FCLOSE"} => q.handle \in Handles,
         q.fn = "FSEEK" /\ e \in {1, 3} /\ known[q.handle] # NoFile
           /\ known[q.handle].unit = Unit /\ q.handle \notin pulled
           => ios[q.handle].pos = q.arg,
         \A h \in Handles : ios[h].pos # server.io[h].pos => Fn \in OnFile /\ h = Blk.handle
  PROVE  StoredInv'
  <1> USE DEF PStep, PcLinkInv
  <1>1. Busy /\ Busy' /\ Blk' = Blk /\ Unit' = Unit /\ Fn' = Fn
    BY TakesBusy DEF CallStep, Busy, Blk, Unit, Fn
  <1>2. UNCHANGED <<known, pulled>>
    BY DEF ServerOnly, programs
  <1> SUFFICES ASSUME NEW m \in Units
               PROVE  LET p == server'.parbuf[m]
                      IN  /\ p.fn # "INIT"
                          /\ p.fn # "CHDIR" => p.arg \in Nat
                          /\ p.fn = "FFIRST" => p.arg = DirMode
                          /\ server'.err[m] = 3 => p.fn \in {"FREAD", "FNEXT", "FFIRST"}
                          /\ p.fn = "FCLOSE" /\ known[p.handle] # NoFile /\ known[p.handle].unit = m
                               => Unit = m /\ Blk = p
                          /\ p.fn = "FSEEK" /\ server'.err[m] \in {1, 3} /\ known[p.handle] # NoFile
                               /\ known[p.handle].unit = m /\ p.handle \notin pulled
                               => server'.io[p.handle].pos = p.arg
                          /\ p.fn \in {"FSEEK", "FCLOSE"} => p.handle \in Handles
    BY <1>1, <1>2 DEF StoredInv
  <1>3. CASE m = Unit
    BY <1>3, BusyFacts, <1>1 DEF ServerStep, ServerInv, ServerType
  <1>4. CASE m # Unit
    <2>1. server'.parbuf[m] = server.parbuf[m] /\ server'.err[m] = server.err[m]
      BY <1>4, <1>1, BusyFacts DEF ServerStep, ServerInv, ServerType
    <2>2. server.parbuf[m].fn = "FSEEK" /\ known[server.parbuf[m].handle] # NoFile
            /\ known[server.parbuf[m].handle].unit = m
            => server'.io[server.parbuf[m].handle].pos = server.io[server.parbuf[m].handle].pos
      BY <1>4, <1>1 DEF OwnerInv, ServerStep, StoredInv
    <2> QED
      BY <1>4, <2>1, <2>2, <1>1 DEF StoredInv
  <1> QED
    BY <1>3, <1>4

(* A 'P' that moves no file and counts nothing.                             *)
LEMMA PStepFiles ==
  ASSUME PcLinkInv, NEW q, NEW e, NEW ios, NEW cs, NEW n, PStep(q, e, ios, cs, n, call.times),
         \A h \in Handles : /\ ios[h].open = server.io[h].open
                            /\ ios[h].unit = server.io[h].unit
                            /\ ios[h].pos = server.io[h].pos
  PROVE  FilesInv'
  <1> USE DEF PStep, PcLinkInv
  <1>1. Busy /\ call.stage = "P" /\ Busy' /\ Blk' = Blk /\ Unit' = Unit /\ Fn' = Fn
    BY TakesBusy DEF Takes, CallStep, Busy, Blk, Unit, Fn
  <1>2. UNCHANGED <<known, pulled>> /\ ~Got'
    BY <1>1 DEF ServerOnly, programs, Got, CallStep
  <1>3. Fn \in {"FREAD", "FWRITE"} => call.times = 0
    BY <1>1 DEF PreparedInv, ToDo, ByP
  <1> QED
    BY <1>1, <1>2, <1>3 DEF FilesInv, WorksOn, ServerStep, CallStep

LEMMA PStepCwd ==
  ASSUME PcLinkInv, NEW q, NEW e, NEW ios, NEW n, NEW t,
         PStep(q, e, ios, server.cwd, n, t), Fn = "CHDIR" => t = call.times
  PROVE  CwdInv'
  <1> USE DEF PStep, PcLinkInv
  <1>1. Busy /\ call.stage = "P" /\ Busy' /\ Blk' = Blk /\ Unit' = Unit /\ Fn' = Fn
    BY TakesBusy DEF Takes, CallStep, Busy, Blk, Unit, Fn
  <1>2. knownCwd' = knownCwd /\ ~Got'
    BY <1>1 DEF ServerOnly, programs, Got, CallStep
  <1> QED
    BY <1>1, <1>2 DEF CwdInv, ServerStep, CallStep

(* What 'P' leaves for 'R' is in order if the stored block is the call's.   *)
LEMMA PStepPrepared ==
  ASSUME PcLinkInv, NEW q, NEW e, NEW ios, NEW cs, NEW n, NEW t, PStep(q, e, ios, cs, n, t),
         Fn \notin ByP =>
           /\ t = call.times /\ e # 3
           /\ e = 1 => /\ q.fn = Fn
                       /\ Fn \notin Opens => q.handle = Blk.handle
                       /\ Fn = "FOPEN" => q.arg = Blk.arg
                       /\ Fn \in {"FREAD", "FWRITE"} =>
                            q.arg <= Blk.arg /\ ios[Blk.handle].open
           /\ ios[Blk.handle].pos = server.io[Blk.handle].pos
  PROVE  PreparedInv'
  <1> USE DEF PStep, PcLinkInv
  <1>1. Busy /\ call.stage = "P" /\ Busy' /\ Blk' = Blk /\ Unit' = Unit /\ Fn' = Fn
    BY TakesBusy DEF Takes, CallStep, Busy, Blk, Unit, Fn
  <1>2. Err' = e /\ Par' = q
    BY <1>1, BusyFacts DEF Err, Par, ServerStep, Unit, ServerInv, ServerType
  <1>3. Fn \notin ByP => call.times = 0 /\ call.handle = NoHandle
    BY <1>1 DEF PreparedInv, ToDo
  <1>4. Fn \in {"FREAD", "FWRITE"} => server.io[Blk.handle].pos + Blk.arg <= MaxPos
    BY <1>1 DEF PreparedInv, ToDo, ByP
  <1> QED
    BY <1>1, <1>2, <1>3, <1>4 DEF PreparedInv, Matches, Zeroed, CallStep, ServerStep, ToDo, Opens

-----------------------------------------------------------------------------
(* The actions of 'P', one by one.                                          *)

(* For the handlers that leave files and directories as they are.           *)
LEMMA PQuietStep ==
  ASSUME PcLinkInv, Takes("P"), NEW q \in BlockType, NEW e \in Nat, NEW n \in Nat, NEW t \in Nat,
         server' = [server EXCEPT !.parbuf[Unit] = q, !.err[Unit] = e, !.old = "P"],
         call' = [call EXCEPT !.size = n, !.times = t], Complete, ServerOnly
  PROVE  PStep(q, e, server.io, server.cwd, n, t)
  <1>1. Busy
    BY TakesBusy
  <1>2. server' = [server EXCEPT !.parbuf[Unit] = q, !.err[Unit] = e, !.io = server.io,
                                 !.cwd[Unit] = server.cwd[Unit], !.old = "P"]
    BY BusyFacts, <1>1 DEF PcLinkInv, ServerInv, ServerType
  <1>3. ServerStep(q, e, server.io, [server.cwd EXCEPT ![Unit] = server.cwd[Unit]], "P")
    BY <1>1, <1>2, ServerStepBy, BusyFacts DEF PcLinkInv, ServerInv, ServerType
  <1>4. [server.cwd EXCEPT ![Unit] = server.cwd[Unit]] = server.cwd
    BY BusyFacts, <1>1 DEF PcLinkInv, ServerInv, ServerType
  <1>5. CallStep(n, t, call.handle)
    <2>1. call' = [call EXCEPT !.size = n, !.times = t, !.handle = call.handle]
      BY DEF PcLinkInv, OthersInv, CallType
    <2> QED
      BY <2>1, CallStepBy DEF PcLinkInv, OthersInv, CallType
  <1> QED
    BY <1>3, <1>4, <1>5 DEF PStep

(* A quiet 'P' that counts nothing and whose status is not 1 or 3 or whose  *)
(* block is the call's.                                                     *)
LEMMA PQuietKeeps ==
  ASSUME PcLinkInv, NEW q \in BlockType, NEW e \in Nat, NEW n \in Nat,
         PStep(q, e, server.io, server.cwd, n, call.times), StoredInv', PreparedInv', DoneByPInv'
  PROVE  PcLinkInv'
  <1>1. \A h \in Handles : ~server.io[h].open => server.io[h] = Closed
    BY DEF PcLinkInv, ServerInv
  <1>2. ServerInv' /\ OthersInv' /\ PhaseInv' /\ OwnerInv' /\ DoneByRInv' /\ OpenedInv'
          /\ LeakInv' /\ HonestInv'
    BY <1>1, PStepKeeps, Zenon
  <1>3. FilesInv' /\ CwdInv'
    BY PStepFiles, PStepCwd, Zenon
  <1> QED
    BY <1>2, <1>3 DEF PcLinkInv

LEMMA PFrame ==
  ASSUME PcLinkInv, NEW q, NEW e, NEW ios, NEW cs, NEW n, NEW t, PStep(q, e, ios, cs, n, t)
  PROVE  /\ Busy /\ Busy' /\ Blk' = Blk /\ Unit' = Unit /\ Fn' = Fn
         /\ call.stage = "P" /\ ~Heard /\ Heard'
         /\ Err' = e /\ Par' = q /\ call'.times = t /\ call'.handle = call.handle
         /\ call'.twin = call.twin /\ call'.cut = call.cut /\ server'.io = ios
  <1>1. Busy /\ call.stage = "P" /\ Busy' /\ Blk' = Blk /\ Unit' = Unit /\ Fn' = Fn
    BY TakesBusy DEF PStep, Takes, CallStep, Busy, Blk, Unit, Fn
  <1>2. Err' = e /\ Par' = q
    BY <1>1, BusyFacts DEF PStep, Err, Par, ServerStep, Unit, ServerInv, ServerType, PcLinkInv
  <1>3. line.at = "command" /\ line'.at = "reply"
    BY DEF PStep, Takes, Complete, Reply, Quiet
  <1> QED
    BY <1>1, <1>2, <1>3 DEF PStep, CallStep, ServerStep, Heard

LEMMA PGarbledKeeps ==
  ASSUME PcLinkInv, PGarbled
  PROVE  PcLinkInv'
  <1>1. Busy /\ Takes("P")
    BY TakesBusy DEF PGarbled
  <1>2. PStep(Par, 143, server.io, server.cwd, call.size, call.times)
    <2>1. server' = [server EXCEPT !.parbuf[Unit] = Par, !.err[Unit] = 143, !.old = "P"]
      BY BusyFacts, <1>1 DEF PGarbled, WithErr, Par, PcLinkInv, ServerInv, ServerType
    <2>2. call' = [call EXCEPT !.size = call.size, !.times = call.times]
      BY DEF PGarbled, PcLinkInv, OthersInv, CallType
    <2> QED
      BY <1>1, <2>1, <2>2, PQuietStep, BusyFacts DEF PGarbled
  <1>3. StoredInv'
    <2>1. Par \in BlockType /\ Unit \in Units
      BY <1>1, BusyFacts
    <2>2. /\ Par.fn # "CHDIR" => Par.arg \in Nat
          /\ Par.fn = "FFIRST" => Par.arg = DirMode
          /\ Par.fn \in {"FSEEK", "FCLOSE"} => Par.handle \in Handles
      BY <2>1 DEF PcLinkInv, StoredInv, Par
    <2>3. UNCHANGED <<known, pulled>> /\ server'.io = server.io
      BY <1>2 DEF PStep, ServerOnly, programs, ServerStep
    <2>4. \A m \in Units : server'.parbuf[m] = server.parbuf[m]
                             /\ server'.err[m] \in {server.err[m], 143}
      BY <1>2, <2>1 DEF PStep, ServerStep, PcLinkInv, ServerInv, ServerType, Par
    <2>5. Busy' /\ Unit' = Unit /\ Blk' = Blk
      BY <1>2, PFrame
    <2> QED
      BY <1>1, <2>3, <2>4, <2>5 DEF PcLinkInv, StoredInv
  <1>4. PreparedInv'
    BY <1>2, PStepPrepared
  <1>5. DoneByPInv'
    BY <1>1, <1>2, PFrame DEF DoneByPInv, PcLinkInv, Refusal
  <1> QED
    BY <1>1, <1>2, <1>3, <1>4, <1>5, PQuietKeeps, BusyFacts

LEMMA PIgnoredKeeps ==
  ASSUME PcLinkInv, PIgnored
  PROVE  PcLinkInv'
  <1>1. Busy /\ Takes("P") /\ Par = Blk /\ Fn \notin Repeatable
    BY TakesBusy DEF PIgnored, Ignores, Fn
  <1>2. PStep(Par, Err, server.io, server.cwd, call.size, call.times)
    <2>1. server' = [server EXCEPT !.parbuf[Unit] = Par, !.err[Unit] = Err, !.old = "P"]
      BY BusyFacts, <1>1 DEF PIgnored, Par, Err, PcLinkInv, ServerInv, ServerType
    <2>2. call' = [call EXCEPT !.size = call.size, !.times = call.times]
      BY DEF PIgnored, PcLinkInv, OthersInv, CallType
    <2> QED
      BY <1>1, <2>1, <2>2, PQuietStep, BusyFacts DEF PIgnored
  <1>3. StoredInv'
    <2>1. UNCHANGED <<known, pulled>> /\ server'.io = server.io
      BY <1>2 DEF PStep, ServerOnly, programs, ServerStep
    <2>2. \A m \in Units : server'.parbuf[m] = server.parbuf[m]
                             /\ server'.err[m] = server.err[m]
      BY <1>1, <1>2, BusyFacts DEF PStep, ServerStep, PcLinkInv, ServerInv, ServerType, Par, Err
    <2>3. Busy' /\ Unit' = Unit /\ Blk' = Blk
      BY <1>2, PFrame
    <2> QED
      BY <1>1, <2>1, <2>2, <2>3 DEF PcLinkInv, StoredInv
  <1>4. Err # 3 /\ Fn # "FFIRST"
    <2>1. /\ Par.fn = "FFIRST" => Par.arg = DirMode
          /\ Err = 3 => Par.fn \in {"FREAD", "FNEXT", "FFIRST"}
      BY <1>1, BusyFacts DEF PcLinkInv, StoredInv, Par, Err
    <2>2. Fn = "FFIRST" => Blk.arg = 0
      BY <1>1, BusyFacts, BlockFacts DEF Fn
    <2> QED
      BY <1>1, <2>1, <2>2 DEF Fn, Repeatable, DirMode
  <1>5. PreparedInv'
    BY <1>1, <1>2, <1>4, PStepPrepared DEF Fn, Repeatable
  <1>6. DoneByPInv'
    BY <1>1, <1>2, <1>4, PFrame DEF DoneByPInv, PcLinkInv
  <1> QED
    BY <1>1, <1>2, <1>3, <1>5, <1>6, PQuietKeeps, BusyFacts

(* A block that is looked at is not the one stored, if 'P' carries it out.  *)
LEMMA PBlockFacts ==
  ASSUME PcLinkInv, NEW fns, PBlock(fns)
  PROVE  /\ Busy /\ Takes("P") /\ Fn \in fns /\ Blk \in Blocks /\ Blk \in BlockType
         /\ Fn \in ByP => Par # Blk
         /\ Fn \in ByP \ {"INIT"} /\ ~call.cut => ~call.twin /\ call.times = 0
         /\ Fn = "FCLOSE" => ~call.twin
         /\ Fn = "INIT" => ~call.twin
         /\ call.handle = NoHandle
         /\ Fn \notin ByP => call.times = 0
  <1>1. Busy /\ Takes("P") /\ Fn \in fns
    BY TakesBusy DEF PBlock, Fn
  <1>2. Fn \in ByP => Par # Blk
    BY DEF PBlock, Ignores, Repeatable, ByP, Fn
  <1>3. call.stage = "P"
    BY <1>1 DEF Takes
  <1>4. /\ Fn \in ByP \ {"INIT"} /\ ~call.cut => ~call.twin /\ call.times = 0
        /\ Fn = "FCLOSE" => ~call.twin
        /\ Fn = "INIT" => ~call.twin
        /\ Fn \in ByP => call.handle = NoHandle
    BY <1>1, <1>2 DEF PcLinkInv, DoneByPInv, ByP
  <1>5. Fn \notin ByP => call.times = 0 /\ call.handle = NoHandle
    BY <1>1, <1>3 DEF PcLinkInv, PreparedInv, ToDo
  <1> QED
    BY <1>1, <1>2, <1>4, <1>5, BusyFacts

(* The new block is stored, nothing else is done.                           *)
LEMMA PStoredKeeps ==
  ASSUME PcLinkInv, NEW fns, PBlock(fns), NEW e \in Nat, NEW n \in Nat, NEW q \in BlockType,
         PStep(q, e, server.io, server.cwd, n, call.times),
         q.fn = Fn /\ q.handle = Blk.handle,
         Fn = "FFIRST" => q.arg = DirMode,
         Fn \in {"FREAD", "FWRITE"} => q.arg \in 0..Blk.arg,
         Fn \notin {"FFIRST", "FREAD", "FWRITE"} => q = Blk,
         e # 3, Fn \in ByP => e = Refusal /\ (Fn = "FCLOSE" => ~server.io[Blk.handle].open),
         Fn = "INIT" => FALSE,
         Fn \in {"FREAD", "FWRITE"} /\ e = 1 => server.io[Blk.handle].open
  PROVE  PcLinkInv'
  <1>1. /\ Busy /\ Takes("P") /\ Blk \in Blocks /\ Blk \in BlockType
        /\ Fn \in ByP \ {"INIT"} /\ ~call.cut => ~call.twin /\ call.times = 0
        /\ Fn = "FCLOSE" => ~call.twin
        /\ call.handle = NoHandle
    BY PBlockFacts
  <1>2. /\ q.fn # "CHDIR" => q.arg \in Nat
        /\ q.fn = "FCLOSE" => q = Blk
        /\ q.fn \in {"FSEEK", "FCLOSE"} => q.handle \in Handles
        /\ q.fn = "FSEEK" => e \notin {1, 3}
    <2>1. Fn \in {"FREAD", "FWRITE"} => Blk.arg \in Nat
      BY <1>1, BlockFacts, PcLinkAssumption DEF Fn
    <2> QED
      BY <1>1, <2>1, BlockFacts DEF Fn, ByP, Refusal, DirMode
  <1>3. StoredInv'
    <2>1. q.fn = "FFIRST" => q.arg = DirMode
      OBVIOUS
    <2>2. e = 3 => q.fn \in {"FREAD", "FNEXT", "FFIRST"}
      OBVIOUS
    <2>3. q.fn = "FSEEK" /\ e \in {1, 3} /\ known[q.handle] # NoFile
            /\ known[q.handle].unit = Unit /\ q.handle \notin pulled
            => server.io[q.handle].pos = q.arg
      BY <1>2
    <2> QED
      BY <1>2, <2>1, <2>2, <2>3, PStepStored
  <1>4. PreparedInv'
    <2>1. Fn \in {"FREAD", "FWRITE"} => q.arg <= Blk.arg
      BY <1>1, BlockFacts, PcLinkAssumption DEF Fn
    <2> QED
      BY <2>1, PStepPrepared
  <1>5. DoneByPInv'
    <2>1. /\ Busy' /\ Fn' = Fn /\ Blk' = Blk /\ Err' = e /\ Par' = q /\ server'.io = server.io
          /\ call'.times = call.times /\ call'.handle = NoHandle /\ call'.twin = call.twin
          /\ call'.cut = call.cut
      BY <1>1, PFrame
    <2>2. Fn \in ByP => q = Blk /\ e = 255
      BY DEF ByP, Refusal
    <2> QED
      BY <1>1, <2>1, <2>2 DEF DoneByPInv, Refusal
  <1> QED
    BY <1>3, <1>4, <1>5, PQuietKeeps

LEMMA PBadHandleKeeps ==
  ASSUME PcLinkInv, PBadHandle
  PROVE  PcLinkInv'
  <1>1. /\ PBlock(OnFile \ {"FNEXT"}) /\ Busy /\ Takes("P") /\ Fn \in OnFile \ {"FNEXT"}
        /\ Blk \in Blocks /\ Blk \in BlockType
    BY PBlockFacts DEF PBadHandle
  <1>2. PStep(Blk, Refusal, server.io, server.cwd, call.size, call.times)
    <2>1. server' = [server EXCEPT !.parbuf[Unit] = Blk, !.err[Unit] = Refusal, !.old = "P"]
      BY BusyFacts, <1>1 DEF PBadHandle, Answered, WithErr, Stored, PcLinkInv, ServerInv, ServerType
    <2>2. call' = [call EXCEPT !.size = call.size, !.times = call.times]
      BY DEF PBadHandle, PcLinkInv, OthersInv, CallType
    <2> QED
      BY <1>1, <2>1, <2>2, PQuietStep, BusyFacts DEF PBadHandle, Answered, Refusal
  <1>3. ~server.io[Blk.handle].open
    BY <1>1, BusyFacts DEF PBadHandle, IsOpen, IO
  <1>4. Fn \in {"FREAD", "FWRITE"} => Blk.arg \in 0..Blk.arg
    BY <1>1, BlockFacts, PcLinkAssumption DEF Fn
  <1>5. Fn # "FFIRST" /\ Fn # "INIT"
    BY <1>1 DEF OnFile
  <1> QED
    BY <1>1, <1>2, <1>3, <1>4, <1>5, BusyFacts, PStoredKeeps DEF Refusal, Fn

LEMMA PReadKeeps ==
  ASSUME PcLinkInv, PRead
  PROVE  PcLinkInv'
  <1> DEFINE f     == IO(Blk.handle)
             rest  == f.size - f.pos
             short == 0 <= rest /\ rest < Blk.arg
             n     == IF short THEN rest ELSE Blk.arg
             q     == [Blk EXCEPT !.arg = n]
             e     == IF n = 0 THEN 136 ELSE 1
             ios   == [server.io EXCEPT ![Blk.handle].eof = short]
  <1>1. /\ Busy /\ Takes("P") /\ Fn = "FREAD" /\ Blk \in Blocks /\ Blk \in BlockType
        /\ call.handle = NoHandle /\ call.times = 0
    BY PBlockFacts DEF PRead, ByP
  <1>2. Blk.arg \in 1..MaxLen /\ Blk.handle \in Handles /\ server.io[Blk.handle] \in FileType
    BY <1>1, BlockFacts, BusyFacts DEF Fn
  <1>3. n \in 0..Blk.arg /\ n \in Nat /\ q \in BlockType /\ e \in Nat
    BY <1>2, <1>1, PcLinkAssumption DEF IO, FileType, BlockType
  <1>4. ios \in [Handles -> FileType] /\ server.io[Blk.handle].open
    BY <1>2 DEF PcLinkInv, ServerInv, ServerType, FileType, PRead, HasFile, IsOpen, IO
  <1>5. /\ server' = [server EXCEPT !.parbuf[Unit] = q, !.err[Unit] = e, !.io = ios,
                                    !.cwd[Unit] = server.cwd[Unit], !.old = "P"]
        /\ call' = [call EXCEPT !.size = n, !.times = call.times, !.handle = call.handle]
    <2>1. /\ server' = [WithErr(Stored, e) EXCEPT !.io[Blk.handle].eof = short, !.parbuf[Unit].arg = n]
          /\ call' = [call EXCEPT !.size = n]
      BY DEF PRead, Answered, Tells
    <2>2. server' = [server EXCEPT !.parbuf[Unit] = q, !.err[Unit] = e, !.io = ios,
                                    !.cwd[Unit] = server.cwd[Unit], !.old = "P"]
      <3> HIDE DEF n, e, short
      <3>1. Unit \in Units /\ server.parbuf \in [Units -> BlockType]
        BY <1>1, BusyFacts DEF PcLinkInv, ServerInv, ServerType
      <3>2. [[server.parbuf EXCEPT ![Unit] = Blk] EXCEPT ![Unit].arg = n]
              = [server.parbuf EXCEPT ![Unit] = q]
        BY <3>1
      <3>3. /\ server'.parbuf = [[server.parbuf EXCEPT ![Unit] = Blk] EXCEPT ![Unit].arg = n]
            /\ server'.err = [server.err EXCEPT ![Unit] = e] /\ server'.io = ios
            /\ server'.old = "P" /\ server'.linked = server.linked /\ server'.cwd = server.cwd
            /\ server'.crashed = server.crashed
            /\ server' = [linked |-> server'.linked, cwd |-> server'.cwd, parbuf |-> server'.parbuf,
                          err |-> server'.err, io |-> server'.io, old |-> server'.old,
                          crashed |-> server'.crashed]
        <4> HIDE DEF ios
        <4>1. ios = [server.io EXCEPT ![Blk.handle].eof = short]
          BY DEF ios
        <4> QED
          BY <2>1, <4>1 DEF WithErr, Stored, PcLinkInv, ServerInv, ServerType
      <3>4. server.cwd = [server.cwd EXCEPT ![Unit] = server.cwd[Unit]]
        BY <3>1 DEF PcLinkInv, ServerInv, ServerType
      <3> QED
        BY <3>2, <3>3, <3>4 DEF PcLinkInv, ServerInv, ServerType
    <2> QED
      BY <2>1, <2>2 DEF PcLinkInv, OthersInv, CallType
  <1> HIDE DEF q, e, ios
  <1>6. PStep(q, e, ios, server.cwd, n, call.times)
    <2>1. ServerStep(q, e, ios, [server.cwd EXCEPT ![Unit] = server.cwd[Unit]], "P")
      BY <1>1, <1>3, <1>4, <1>5, BusyFacts, ServerStepBy DEF PcLinkInv, ServerInv, ServerType
    <2>2. CallStep(n, call.times, call.handle)
      BY <1>3, <1>5, CallStepBy DEF PcLinkInv, OthersInv, CallType
    <2>3. [server.cwd EXCEPT ![Unit] = server.cwd[Unit]] = server.cwd
      BY BusyFacts, <1>1 DEF PcLinkInv, ServerInv, ServerType
    <2> QED
      BY <1>1, <2>1, <2>2, <2>3 DEF PStep, PRead, Answered
  <1>7. /\ q.fn = "FREAD" /\ q.handle = Blk.handle /\ q.arg = n /\ e \in {1, 136}
        /\ \A h \in Handles : /\ ios[h].open = server.io[h].open
                              /\ ios[h].unit = server.io[h].unit
                              /\ ios[h].pos = server.io[h].pos
                              /\ ~ios[h].open => ios[h] = Closed
    <2>1. q.fn = "FREAD" /\ q.handle = Blk.handle /\ q.arg = n /\ e \in {1, 136}
      BY <1>1 DEF q, e, BlockType, Fn
    <2>2. ASSUME NEW h \in Handles, h # Blk.handle
          PROVE  ios[h] = server.io[h]
      BY <2>2 DEF ios, PcLinkInv, ServerInv, ServerType
    <2>3. /\ ios[Blk.handle].open = server.io[Blk.handle].open
          /\ ios[Blk.handle].unit = server.io[Blk.handle].unit
          /\ ios[Blk.handle].pos = server.io[Blk.handle].pos
      BY <1>2 DEF ios, PcLinkInv, ServerInv, ServerType, FileType
    <2> QED
      BY <1>4, <2>1, <2>2, <2>3 DEF PcLinkInv, ServerInv
  <1>8. n <= Blk.arg
    BY <1>2, <1>3, PcLinkAssumption
  <1> HIDE DEF n
  <1>9. /\ ServerInv' /\ OthersInv' /\ PhaseInv' /\ OwnerInv' /\ DoneByRInv' /\ OpenedInv'
        /\ LeakInv' /\ HonestInv'
    BY <1>6, <1>7, PStepKeeps
  <1>10. FilesInv' /\ CwdInv'
    BY <1>6, <1>7, PStepFiles, PStepCwd
  <1>11. StoredInv'
    <2>1. /\ q.fn # "CHDIR" => q.arg \in Nat
          /\ q.fn = "FFIRST" => q.arg = DirMode
          /\ e = 3 => q.fn \in {"FREAD", "FNEXT", "FFIRST"}
          /\ q.fn = "FCLOSE" => q = Blk
          /\ q.fn \in {"FSEEK", "FCLOSE"} => q.handle \in Handles
      BY <1>3, <1>7
    <2>2. q.fn = "FSEEK" /\ e \in {1, 3} /\ known[q.handle] # NoFile
            /\ known[q.handle].unit = Unit /\ q.handle \notin pulled
            => ios[q.handle].pos = q.arg
      BY <1>7
    <2> QED
      BY <1>6, <1>7, <2>1, <2>2, PStepStored
  <1>12. PreparedInv'
    BY <1>1, <1>2, <1>4, <1>6, <1>7, <1>8, PStepPrepared DEF Fn
  <1>13. DoneByPInv'
    BY <1>1, <1>6, PFrame DEF DoneByPInv, ByP
  <1> QED
    BY <1>9, <1>10, <1>11, <1>12, <1>13 DEF PcLinkInv

(* For the handlers that move a file or the unit's directory.               *)
LEMMA PMovingStep ==
  ASSUME PcLinkInv, Takes("P"), NEW e \in Nat, NEW ios \in [Handles -> FileType],
         NEW d \in 0..MaxDepth, NEW t \in Nat, Blk \in BlockType,
         server'.linked = server.linked, server'.crashed = server.crashed,
         server'.parbuf = [server.parbuf EXCEPT ![Unit] = Blk],
         server'.err = [server.err EXCEPT ![Unit] = e], server'.io = ios,
         server'.cwd = [server.cwd EXCEPT ![Unit] = d], server'.old = "P",
         server' = [linked |-> server'.linked, cwd |-> server'.cwd, parbuf |-> server'.parbuf,
                    err |-> server'.err, io |-> server'.io, old |-> server'.old,
                    crashed |-> server'.crashed],
         call' = [call EXCEPT !.times = t], Complete, ServerOnly
  PROVE  PStep(Blk, e, ios, [server.cwd EXCEPT ![Unit] = d], call.size, t)
  <1>1. Busy
    BY TakesBusy
  <1>2. ServerStep(Blk, e, ios, [server.cwd EXCEPT ![Unit] = d], "P")
    BY <1>1, BusyFacts DEF ServerStep, PcLinkInv, ServerInv, ServerType
  <1>3. CallStep(call.size, t, call.handle)
    BY DEF CallStep, CallType, PcLinkInv, OthersInv
  <1> QED
    BY <1>2, <1>3 DEF PStep

LEMMA PQuietBlock ==
  ASSUME PcLinkInv, NEW fns, PBlock(fns), NEW e \in Nat, NEW n \in Nat,
         Answered(WithErr(Stored, e)), call' = [call EXCEPT !.size = n]
  PROVE  PStep(Blk, e, server.io, server.cwd, n, call.times)
  <1>1. Busy /\ Takes("P") /\ Blk \in BlockType
    BY PBlockFacts
  <1>2. server' = [server EXCEPT !.parbuf[Unit] = Blk, !.err[Unit] = e, !.old = "P"]
    BY BusyFacts, <1>1 DEF Answered, WithErr, Stored, PcLinkInv, ServerInv, ServerType
  <1>3. call' = [call EXCEPT !.size = n, !.times = call.times] /\ call.times \in Nat
    BY DEF PcLinkInv, OthersInv, CallType
  <1> QED
    BY <1>1, <1>2, <1>3, PQuietStep DEF Answered

LEMMA PWriteKeeps ==
  ASSUME PcLinkInv, PWrite
  PROVE  PcLinkInv'
  <1>1. /\ PBlock({"FWRITE"}) /\ Busy /\ Takes("P") /\ Fn = "FWRITE"
        /\ Blk \in Blocks /\ Blk \in BlockType /\ server.io[Blk.handle].open
    BY PBlockFacts DEF PWrite, HasFile, IsOpen, IO
  <1>2. Blk.arg \in Nat /\ Blk.arg \in 0..Blk.arg
    BY <1>1, BlockFacts, PcLinkAssumption DEF Fn
  <1>3. PStep(Blk, 1, server.io, server.cwd, Blk.arg, call.times)
    BY <1>1, <1>2, PQuietBlock DEF PWrite, Tells
  <1> QED
    BY <1>1, <1>2, <1>3, PStoredKeeps DEF Fn, ByP

LEMMA PPrepareKeeps ==
  ASSUME PcLinkInv, PPrepare
  PROVE  PcLinkInv'
  <1> DEFINE fns == {"FTELL", "FNEXT", "GETCWD", "FOPEN", "FFIRST"}
             q == [Blk EXCEPT !.arg = IF Fn = "FFIRST" THEN DirMode ELSE @]
  <1>1. /\ PBlock(fns) /\ Busy /\ Takes("P") /\ Fn \in fns
        /\ Blk \in Blocks /\ Blk \in BlockType
    BY PBlockFacts DEF PPrepare
  <1>2. q \in BlockType /\ q.fn = Fn /\ q.handle = Blk.handle
        /\ (Fn = "FFIRST" => q.arg = DirMode) /\ (Fn # "FFIRST" => q = Blk)
    BY <1>1 DEF Fn, BlockType, DirMode
  <1>3. PStep(q, 1, server.io, server.cwd, call.size, call.times)
    <2>1. server' = [WithErr(Stored, 1) EXCEPT
                 !.parbuf[Unit].arg = IF Blk.fn = "FFIRST" THEN DirMode ELSE @]
          /\ Complete /\ ServerOnly /\ UNCHANGED call
      BY DEF PPrepare, Answered
    <2>2. server' = [server EXCEPT !.parbuf[Unit] = q, !.err[Unit] = 1, !.old = "P"]
      <3>1. Unit \in Units /\ server.parbuf \in [Units -> BlockType]
        BY <1>1, BusyFacts DEF PcLinkInv, ServerInv, ServerType
      <3>2. [[server.parbuf EXCEPT ![Unit] = Blk]
               EXCEPT ![Unit].arg = IF Blk.fn = "FFIRST" THEN DirMode ELSE @]
              = [server.parbuf EXCEPT ![Unit] = q]
        BY <3>1 DEF Fn
      <3>3. /\ server'.parbuf = [[server.parbuf EXCEPT ![Unit] = Blk]
                       EXCEPT ![Unit].arg = IF Blk.fn = "FFIRST" THEN DirMode ELSE @]
            /\ server'.err = [server.err EXCEPT ![Unit] = 1] /\ server'.io = server.io
            /\ server'.old = "P" /\ server'.linked = server.linked /\ server'.cwd = server.cwd
            /\ server'.crashed = server.crashed
            /\ server' = [linked |-> server'.linked, cwd |-> server'.cwd, parbuf |-> server'.parbuf,
                          err |-> server'.err, io |-> server'.io, old |-> server'.old,
                          crashed |-> server'.crashed]
        BY <2>1 DEF WithErr, Stored, PcLinkInv, ServerInv, ServerType
      <3>4. server'.parbuf = [server.parbuf EXCEPT ![Unit] = q]
        BY <3>2, <3>3
      <3> HIDE DEF q
      <3> QED
        BY <3>3, <3>4 DEF PcLinkInv, ServerInv, ServerType
    <2>3. call' = [call EXCEPT !.size = call.size, !.times = call.times]
      BY <2>1 DEF PcLinkInv, OthersInv, CallType
    <2> QED
      BY <1>1, <1>2, <2>1, <2>2, <2>3, PQuietStep, BusyFacts
  <1> HIDE DEF q
  <1>4. Fn \notin ByP /\ Fn \notin {"FREAD", "FWRITE"} /\ Fn # "INIT"
    BY <1>1 DEF ByP
  <1>5. call.size \in Nat
    BY <1>1, BusyFacts
  <1> HIDE DEF fns
  <1> QED
    BY <1>1, <1>2, <1>3, <1>4, <1>5, PStoredKeeps

(* A function that changes the folder has failed and changed nothing.       *)
LEMMA PRefusesKeeps ==
  ASSUME PcLinkInv, PBlock({"REMOVE", "MKDIR"}), Answered(WithErr(Stored, Refusal)), UNCHANGED call
  PROVE  PcLinkInv'
  <1> DEFINE fns == {"REMOVE", "MKDIR"}
  <1>1. PBlock(fns) /\ Busy /\ Takes("P") /\ Fn \in fns /\ Blk \in BlockType
    BY PBlockFacts
  <1>2. call' = [call EXCEPT !.size = call.size]
    BY DEF PcLinkInv, OthersInv, CallType
  <1> HIDE DEF fns
  <1>3. PStep(Blk, Refusal, server.io, server.cwd, call.size, call.times)
    BY <1>1, <1>2, PQuietBlock, BusyFacts DEF Refusal
  <1>4. Fn \in {"REMOVE", "MKDIR"} /\ Blk.fn = Fn
    BY <1>1 DEF fns, Fn
  <1> QED
    BY <1>1, <1>3, <1>4, PStoredKeeps, BusyFacts DEF Refusal

(* It has changed something.                                                *)
LEMMA PChangesKeeps ==
  ASSUME PcLinkInv, PBlock({"REMOVE", "MKDIR"}), NEW e \in {1, Refusal}, e = 1 \/ Fn = "REMOVE",
         Answered(WithErr(Stored, e)), Counts
  PROVE  PcLinkInv'
  <1>1. /\ Busy /\ Takes("P") /\ Fn \in {"REMOVE", "MKDIR"}
        /\ Blk \in Blocks /\ Blk \in BlockType /\ Par # Blk /\ call.handle = NoHandle
        /\ ~call.cut => ~call.twin /\ call.times = 0
    BY PBlockFacts DEF ByP
  <1>2. e \in Nat /\ e # 3
    BY DEF Refusal
  <1>3. PStep(Blk, e, server.io, server.cwd, call.size, call.times + 1)
    <2>1. server' = [server EXCEPT !.parbuf[Unit] = Blk, !.err[Unit] = e, !.old = "P"]
      BY BusyFacts, <1>1 DEF Answered, WithErr, Stored, PcLinkInv, ServerInv, ServerType
    <2>2. call' = [call EXCEPT !.size = call.size, !.times = call.times + 1]
      BY DEF Counts, PcLinkInv, OthersInv, CallType
    <2>3. call.size \in Nat /\ call.times + 1 \in Nat
      BY <1>1, BusyFacts
    <2> QED
      BY <1>1, <1>2, <2>1, <2>2, <2>3, PQuietStep DEF Answered
  <1>4. \A h \in Handles : ~server.io[h].open => server.io[h] = Closed
    BY DEF PcLinkInv, ServerInv
  <1>5. /\ ServerInv' /\ OthersInv' /\ PhaseInv' /\ OwnerInv' /\ DoneByRInv' /\ OpenedInv'
        /\ LeakInv' /\ HonestInv'
    BY <1>1, <1>3, <1>4, PStepKeeps DEF ByP
  <1>6. CwdInv'
    BY <1>1, <1>3, PStepCwd
  <1>7. StoredInv'
    BY <1>1, <1>2, <1>3, PStepStored, BlockFacts DEF Fn
  <1>8. PreparedInv' /\ DoneByPInv'
    <2>1. PreparedInv'
      BY <1>1, <1>2, <1>3, PStepPrepared, PFrame, BusyFacts DEF ByP, OnFile
    <2>2. /\ Busy' /\ Fn' = Fn /\ Blk' = Blk /\ Unit' = Unit /\ Par' = Blk /\ Err' = e
          /\ call'.times = call.times + 1 /\ call'.handle = NoHandle
          /\ call'.twin = call.twin /\ call'.cut = call.cut
      BY <1>1, <1>3, PFrame DEF PStep, CallStep
    <2>3. Fn \notin {"INIT", "FCLOSE"}
      BY <1>1
    <2> QED
      BY <1>1, <1>2, <2>1, <2>2, <2>3 DEF DoneByPInv
  <1>9. FilesInv'
    <2>1. Busy' /\ Fn' = Fn /\ server'.io = server.io /\ UNCHANGED <<known, pulled>>
      BY <1>3, PFrame DEF PStep, ServerOnly, programs
    <2> QED
      BY <1>1, <2>1 DEF PcLinkInv, FilesInv, WorksOn, OnFile
  <1> QED
    BY <1>5, <1>6, <1>7, <1>8, <1>9 DEF PcLinkInv

LEMMA PRemoveKeeps ==
  ASSUME PcLinkInv, PRemove
  PROVE  PcLinkInv'
  <1>1. /\ PBlock({"REMOVE", "MKDIR"}) /\ Fn = "REMOVE"
    BY PBlockFacts DEF PRemove, PBlock, Fn
  <1>2. PICK e \in {1, Refusal} :
          Answered(WithErr(Stored, e)) /\ (Counts \/ (e = Refusal /\ UNCHANGED call))
    BY DEF PRemove
  <1>3. CASE Counts
    BY <1>1, <1>2, <1>3, PChangesKeeps
  <1>4. CASE e = Refusal /\ UNCHANGED call
    BY <1>1, <1>2, <1>4, PRefusesKeeps
  <1> QED
    BY <1>2, <1>3, <1>4

LEMMA PMkdirKeeps ==
  ASSUME PcLinkInv, PMkdir
  PROVE  PcLinkInv'
  <1>1. PBlock({"REMOVE", "MKDIR"})
    BY DEF PMkdir, PBlock
  <1>2. CASE Answered(WithErr(Stored, 1)) /\ Counts
    BY <1>1, <1>2, PChangesKeeps
  <1>3. CASE Answered(WithErr(Stored, Refusal)) /\ UNCHANGED call
    BY <1>1, <1>3, PRefusesKeeps
  <1> QED
    BY <1>2, <1>3 DEF PMkdir

LEMMA PSeekKeeps ==
  ASSUME PcLinkInv, PSeek
  PROVE  PcLinkInv'
  <1> DEFINE h   == Blk.handle
             ios == [server.io EXCEPT ![h].pos = Blk.arg]
  <1>1. /\ PBlock({"FSEEK"}) /\ Busy /\ Takes("P") /\ Fn = "FSEEK"
        /\ Blk \in Blocks /\ Blk \in BlockType /\ Par # Blk /\ call.handle = NoHandle
        /\ ~call.cut => ~call.twin /\ call.times = 0
        /\ server.io[h].open
    BY PBlockFacts DEF PSeek, ByP, HasFile, IsOpen, IO
  <1>2. Blk.arg \in 0..MaxPos /\ h \in Handles /\ server.io[h] \in FileType /\ Blk.arg \in Nat
    BY <1>1, BlockFacts, BusyFacts, PcLinkAssumption DEF Fn
  <1>3. CASE Answered(WithErr(Stored, Refusal)) /\ UNCHANGED call
    <2>1. call' = [call EXCEPT !.size = call.size]
      BY <1>3 DEF PcLinkInv, OthersInv, CallType
    <2>2. PStep(Blk, Refusal, server.io, server.cwd, call.size, call.times)
      BY <1>1, <1>3, <2>1, PQuietBlock, BusyFacts DEF Refusal
    <2> QED
      BY <1>1, <2>2, PStoredKeeps, BusyFacts DEF Refusal, Fn
  <1>4. CASE /\ Answered([WithErr(Stored, 1) EXCEPT !.io[h].pos = Blk.arg])
             /\ Counts
    <2>1. ios \in [Handles -> FileType]
      BY <1>2 DEF PcLinkInv, ServerInv, ServerType, FileType
    <2>2. \A g \in Handles : g # h => ios[g] = server.io[g]
      BY DEF PcLinkInv, ServerInv, ServerType
    <2>3. /\ ios[h].open = server.io[h].open /\ ios[h].unit = server.io[h].unit
          /\ ios[h].pos = Blk.arg
      BY <1>2 DEF PcLinkInv, ServerInv, ServerType, FileType
    <2>4. PStep(Blk, 1, ios, server.cwd, call.size, call.times + 1)
      <3>1. /\ server'.linked = server.linked /\ server'.crashed = server.crashed
            /\ server'.parbuf = [server.parbuf EXCEPT ![Unit] = Blk]
            /\ server'.err = [server.err EXCEPT ![Unit] = 1] /\ server'.io = ios
            /\ server'.cwd = server.cwd /\ server'.old = "P"
            /\ server' = [linked |-> server'.linked, cwd |-> server'.cwd, parbuf |-> server'.parbuf,
                    err |-> server'.err, io |-> server'.io, old |-> server'.old,
                    crashed |-> server'.crashed]
        BY <1>4, <1>2 DEF Answered, WithErr, Stored, PcLinkInv, ServerInv, ServerType
      <3>2. server.cwd = [server.cwd EXCEPT ![Unit] = server.cwd[Unit]] /\ server.cwd[Unit] \in 0..MaxDepth
        BY <1>1, BusyFacts DEF PcLinkInv, ServerInv, ServerType
      <3>3. call' = [call EXCEPT !.times = call.times + 1] /\ call.times + 1 \in Nat
        BY <1>1, <1>4, BusyFacts DEF Counts, PcLinkInv, OthersInv, CallType
      <3> HIDE DEF ios
      <3>4. server'.cwd = [server.cwd EXCEPT ![Unit] = server.cwd[Unit]]
        BY <3>1, <3>2
      <3>5. PStep(Blk, 1, ios, [server.cwd EXCEPT ![Unit] = server.cwd[Unit]], call.size, call.times + 1)
        BY <1>1, <1>4, <2>1, <3>1, <3>2, <3>3, <3>4, PMovingStep DEF Answered
      <3> QED
        BY <3>2, <3>5
    <2> HIDE DEF ios
    <2>5. /\ ServerInv' /\ OthersInv' /\ PhaseInv' /\ OwnerInv' /\ DoneByRInv' /\ OpenedInv'
          /\ LeakInv' /\ HonestInv'
      <3>1. \A g \in Handles : /\ ~ios[g].open => ios[g] = Closed
                               /\ ios[g].open => server.io[g].open
        BY <1>1, <2>2, <2>3 DEF PcLinkInv, ServerInv
      <3> QED
        BY <1>1, <2>4, <3>1, PStepKeeps DEF ByP
    <2>6. CwdInv'
      BY <1>1, <2>4, PStepCwd
    <2>7. StoredInv'
      <3>1. \A g \in Handles : ios[g].pos # server.io[g].pos => Fn \in OnFile /\ g = Blk.handle
        BY <1>1, <2>2 DEF OnFile
      <3> QED
        BY <1>1, <1>2, <2>3, <2>4, <3>1, PStepStored DEF Fn
    <2>8. /\ Busy' /\ Blk' = Blk /\ Fn' = Fn /\ Err' = 1 /\ Par' = Blk /\ server'.io = ios
          /\ call'.times = call.times + 1 /\ call'.handle = NoHandle /\ call'.twin = call.twin
          /\ call'.cut = call.cut /\ UNCHANGED <<known, pulled>>
      BY <1>1, <2>4, PFrame DEF PStep, ServerOnly, programs
    <2>9. PreparedInv' /\ DoneByPInv'
      BY <1>1, <2>8 DEF PreparedInv, DoneByPInv, ByP
    <2>10. FilesInv'
      <3>1. call.times + 1 # 0
        BY <1>1, BusyFacts
      <3>2. ~(call'.times = 0)
        BY <2>8, <3>1
      <3>3. \A g \in Handles : WorksOn(g)' <=> g = h
        BY <1>1, <2>8 DEF WorksOn, OnFile
      <3>4. \A g \in Handles : WorksOn(g) <=> g = h
        BY <1>1 DEF WorksOn, OnFile
      <3>5. ASSUME NEW g \in Handles \ pulled, known[g] # NoFile
            PROVE  /\ ios[g].open /\ ios[g].unit = known[g].unit
                   /\ g # h => known[g].pos \in {Unknown, ios[g].pos}
        <4>1. /\ server.io[g].open /\ server.io[g].unit = known[g].unit
              /\ g # h => known[g].pos \in {Unknown, server.io[g].pos}
          BY <1>1, <3>4, <3>5 DEF PcLinkInv, FilesInv
        <4> QED
          BY <4>1, <2>2, <2>3
      <3> QED
        BY <1>1, <2>8, <3>2, <3>3, <3>5 DEF FilesInv
    <2> QED
      BY <2>5, <2>6, <2>7, <2>9, <2>10 DEF PcLinkInv
  <1> QED
    BY <1>3, <1>4 DEF PSeek, IO

LEMMA PCloseKeeps ==
  ASSUME PcLinkInv, PClose
  PROVE  PcLinkInv'
  <1> DEFINE h   == Blk.handle
             ios == [server.io EXCEPT ![h] = Closed]
  <1>1. /\ PBlock({"FCLOSE"}) /\ Busy /\ Takes("P") /\ Fn = "FCLOSE"
        /\ Blk \in Blocks /\ Blk \in BlockType /\ Par # Blk /\ call.handle = NoHandle
        /\ ~call.cut => ~call.twin /\ call.times = 0
        /\ ~call.twin
    BY PBlockFacts DEF PClose, ByP
  <1>2. h \in Handles /\ server.io[h] \in FileType
    BY <1>1, BusyFacts
  <1>3. ios \in [Handles -> FileType]
    BY <1>2, ClosedType DEF PcLinkInv, ServerInv, ServerType
  <1>4. (\A g \in Handles : g # h => ios[g] = server.io[g]) /\ ios[h] = Closed
    BY <1>2 DEF PcLinkInv, ServerInv, ServerType
  <1>5. PStep(Blk, 1, ios, server.cwd, call.size, call.times + 1)
    <2>1. /\ server'.linked = server.linked /\ server'.crashed = server.crashed
          /\ server'.parbuf = [server.parbuf EXCEPT ![Unit] = Blk]
          /\ server'.err = [server.err EXCEPT ![Unit] = 1] /\ server'.io = ios
          /\ server'.cwd = server.cwd /\ server'.old = "P"
          /\ server' = [linked |-> server'.linked, cwd |-> server'.cwd, parbuf |-> server'.parbuf,
                    err |-> server'.err, io |-> server'.io, old |-> server'.old,
                    crashed |-> server'.crashed]
      BY <1>2 DEF PClose, ClosedFile, Answered, WithErr, Stored, PcLinkInv, ServerInv, ServerType
    <2>2. server.cwd = [server.cwd EXCEPT ![Unit] = server.cwd[Unit]] /\ server.cwd[Unit] \in 0..MaxDepth
      BY <1>1, BusyFacts DEF PcLinkInv, ServerInv, ServerType
    <2>3. call' = [call EXCEPT !.times = call.times + 1] /\ call.times + 1 \in Nat
      BY <1>1, BusyFacts DEF PClose, Counts, PcLinkInv, OthersInv, CallType
    <2> HIDE DEF ios
    <2>4. server'.cwd = [server.cwd EXCEPT ![Unit] = server.cwd[Unit]]
      BY <2>1, <2>2
    <2>5. PStep(Blk, 1, ios, [server.cwd EXCEPT ![Unit] = server.cwd[Unit]], call.size, call.times + 1)
      BY <1>1, <1>3, <2>1, <2>2, <2>3, <2>4, PMovingStep DEF Answered, PClose
    <2> QED
      BY <2>2, <2>5
  <1> HIDE DEF ios
  <1>6. /\ ServerInv' /\ OthersInv' /\ PhaseInv' /\ OwnerInv' /\ DoneByRInv' /\ OpenedInv'
        /\ LeakInv' /\ HonestInv'
    <2>1. \A g \in Handles : /\ ~ios[g].open => ios[g] = Closed
                             /\ ios[g].open => server.io[g].open
      BY <1>1, <1>4 DEF PcLinkInv, ServerInv, Closed
    <2> QED
      BY <1>1, <1>5, <2>1, PStepKeeps DEF ByP
  <1>7. CwdInv'
    BY <1>1, <1>5, PStepCwd
  <1>8. StoredInv'
    <2>1. \A g \in Handles : ios[g].pos # server.io[g].pos => Fn \in OnFile /\ g = Blk.handle
      BY <1>1, <1>4 DEF OnFile
    <2> QED
      BY <1>1, <1>2, <1>5, <2>1, PStepStored, BlockFacts DEF Fn
  <1>9. /\ Busy' /\ Blk' = Blk /\ Fn' = Fn /\ Err' = 1 /\ Par' = Blk /\ server'.io = ios
        /\ call'.times = call.times + 1 /\ call'.handle = NoHandle /\ call'.twin = call.twin
        /\ call'.cut = call.cut /\ UNCHANGED <<known, pulled>>
    BY <1>1, <1>5, PFrame DEF PStep, ServerOnly, programs
  <1>10. PreparedInv' /\ DoneByPInv'
    BY <1>1, <1>4, <1>9 DEF PreparedInv, DoneByPInv, ByP, Closed
  <1>11. FilesInv'
    BY <1>1, <1>4, <1>9 DEF PcLinkInv, FilesInv, WorksOn, OnFile, Closed
  <1> QED
    BY <1>6, <1>7, <1>8, <1>10, <1>11 DEF PcLinkInv

LEMMA PChdirKeeps ==
  ASSUME PcLinkInv, PChdir
  PROVE  PcLinkInv'
  <1> DEFINE depth == server.cwd[Unit] + Blk.arg
  <1>1. /\ PBlock({"CHDIR"}) /\ Busy /\ Takes("P") /\ Fn = "CHDIR"
        /\ Blk \in Blocks /\ Blk \in BlockType /\ Par # Blk /\ call.handle = NoHandle
        /\ ~call.cut => ~call.twin /\ call.times = 0
    BY PBlockFacts DEF PChdir, ByP
  <1>2. CASE Answered(WithErr(Stored, Refusal)) /\ UNCHANGED call
    <2>1. call' = [call EXCEPT !.size = call.size]
      BY <1>2 DEF PcLinkInv, OthersInv, CallType
    <2>2. PStep(Blk, Refusal, server.io, server.cwd, call.size, call.times)
      BY <1>1, <1>2, <2>1, PQuietBlock, BusyFacts DEF Refusal
    <2> QED
      BY <1>1, <2>2, PStoredKeeps, BusyFacts DEF Refusal, Fn
  <1>3. CASE /\ InFolder(depth)
             /\ Answered([WithErr(Stored, 1) EXCEPT !.cwd[Unit] = depth])
             /\ Counts
    <2>1. depth \in 0..MaxDepth
      BY <1>3 DEF InFolder
    <2>2. Unit \in Units /\ server.cwd[Unit] \in Nat /\ Blk.arg \in Int
      BY <1>1, BusyFacts, PcLinkAssumption DEF BlockType, PcLinkInv, ServerInv, ServerType
    <2>3. PStep(Blk, 1, server.io, [server.cwd EXCEPT ![Unit] = depth], call.size, call.times + 1)
      <3>1. /\ server'.linked = server.linked /\ server'.crashed = server.crashed
            /\ server'.parbuf = [server.parbuf EXCEPT ![Unit] = Blk]
            /\ server'.err = [server.err EXCEPT ![Unit] = 1] /\ server'.io = server.io
            /\ server'.cwd = [server.cwd EXCEPT ![Unit] = depth] /\ server'.old = "P"
            /\ server' = [linked |-> server'.linked, cwd |-> server'.cwd, parbuf |-> server'.parbuf,
                    err |-> server'.err, io |-> server'.io, old |-> server'.old,
                    crashed |-> server'.crashed]
        BY <1>3 DEF Answered, WithErr, Stored, PcLinkInv, ServerInv, ServerType
      <3>2. call' = [call EXCEPT !.times = call.times + 1] /\ call.times + 1 \in Nat
        BY <1>1, <1>3, BusyFacts DEF Counts, PcLinkInv, OthersInv, CallType
      <3>3. server.io \in [Handles -> FileType]
        BY DEF PcLinkInv, ServerInv, ServerType
      <3> HIDE DEF depth
      <3> QED
        BY <1>1, <1>3, <2>1, <3>1, <3>2, <3>3, PMovingStep DEF Answered
    <2> HIDE DEF depth
    <2>4. /\ ServerInv' /\ OthersInv' /\ PhaseInv' /\ OwnerInv' /\ DoneByRInv' /\ OpenedInv'
          /\ LeakInv' /\ HonestInv'
      <3>1. \A g \in Handles : ~server.io[g].open => server.io[g] = Closed
        BY DEF PcLinkInv, ServerInv
      <3> QED
        BY <1>1, <2>3, <3>1, PStepKeeps DEF ByP
    <2>5. StoredInv'
      BY <1>1, <2>3, PStepStored DEF Fn
    <2>6. /\ Busy' /\ Unit' = Unit /\ Blk' = Blk /\ Fn' = Fn /\ Err' = 1 /\ Par' = Blk
          /\ server'.io = server.io
          /\ call'.times = call.times + 1 /\ call'.handle = NoHandle /\ call'.twin = call.twin
          /\ call'.cut = call.cut /\ UNCHANGED <<known, pulled, knownCwd>>
      BY <1>1, <2>3, PFrame DEF PStep, ServerOnly, programs
    <2>7. PreparedInv' /\ DoneByPInv'
      BY <1>1, <2>6 DEF PreparedInv, DoneByPInv, ByP
    <2>8. FilesInv'
      BY <1>1, <2>6 DEF PcLinkInv, FilesInv, WorksOn, OnFile
    <2>9. CwdInv'
      <3>1. server'.cwd = [server.cwd EXCEPT ![Unit] = depth] /\ server.cwd \in [Units -> 0..MaxDepth]
        BY <2>3 DEF PStep, ServerStep, PcLinkInv, ServerInv, ServerType
      <3>2. \A m \in Links : m # Unit => server'.cwd[m] = server.cwd[m]
        BY <3>1 DEF Links, Units
      <3>3. server'.cwd[Unit] = server.cwd[Unit] + Blk.arg
        BY <2>2, <3>1 DEF depth
      <3>4. ~call.cut /\ ~call.twin => call.times = 0 /\ call'.times = 1
        BY <1>1, <2>6
      <3>5. knownCwd[Unit] \in Int
        BY <2>2 DEF PcLinkInv, OthersInv
      <3> QED
        BY <1>1, <2>2, <2>6, <3>2, <3>3, <3>4, <3>5 DEF PcLinkInv, CwdInv
    <2> QED
      BY <2>4, <2>5, <2>7, <2>8, <2>9 DEF PcLinkInv
  <1> QED
    BY <1>2, <1>3 DEF PChdir

LEMMA PInitKeeps ==
  ASSUME PcLinkInv, PInit
  PROVE  PcLinkInv'
  <1> DEFINE pars == [v \in Units |-> IF v = Unit THEN Block("FREAD", NoHandle, 0)
                                                 ELSE ZeroBlock]
             ios  == [h \in Handles |-> Closed]
  <1>1. /\ Busy /\ Takes("P") /\ Fn = "INIT" /\ Unit \in Units /\ ~call.twin
        /\ call.handle = NoHandle /\ Blk \in Blocks
    BY PBlockFacts, BusyFacts DEF PInit
  <1>2. /\ server'.linked = server.linked /\ server'.crashed = server.crashed
        /\ server'.parbuf = pars
        /\ server'.err = [server.err EXCEPT ![Unit] = 1] /\ server'.io = ios
        /\ server'.cwd = server.cwd /\ server'.old = "P"
        /\ server' = [linked |-> server'.linked, cwd |-> server'.cwd, parbuf |-> server'.parbuf,
                    err |-> server'.err, io |-> server'.io, old |-> server'.old,
                    crashed |-> server'.crashed]
    BY DEF PInit, Answered, WithErr, Stored, PcLinkInv, ServerInv, ServerType
  <1>3. pars \in [Units -> BlockType] /\ \A m \in Units : pars[m].fn = "FREAD" /\ pars[m].arg = 0
    BY ZeroBlockType DEF ZeroBlock, Block, BlockType, AllFunctions, OnFile
  <1>4. ios \in [Handles -> FileType] /\ \A h \in Handles : ios[h] = Closed
    BY ClosedType
  <1> HIDE DEF pars, ios
  <1>5. /\ line' = [Quiet EXCEPT !.at = "reply", !.fn = "complete", !.val = 0]
        /\ UNCHANGED <<call, known, knownCwd, lost, pulled, gui, installed>>
        /\ call.stage = "P"
    BY <1>1 DEF PInit, Answered, Complete, Reply, ServerOnly, programs, Takes
  <1>6. Busy' /\ Blk' = Blk /\ Fn' = Fn /\ Unit' = Unit /\ Par' = pars[Unit] /\ Par'.fn = "FREAD"
        /\ Err' = 1
    BY <1>1, <1>2, <1>3, <1>5 DEF Busy, Blk, Fn, Unit, Par, Err, PcLinkInv, ServerInv, ServerType
  <1>7. ServerInv'
    BY <1>1, <1>2, <1>3, <1>4 DEF PcLinkInv, ServerInv, ServerType
  <1>8. OthersInv'
    BY <1>5 DEF PcLinkInv, OthersInv, LineType, Quiet
  <1>9. PhaseInv'
    BY <1>1, <1>2, <1>5, <1>6 DEF PcLinkInv, PhaseInv, Quiet
  <1>10. OwnerInv' /\ OpenedInv' /\ HonestInv'
    BY <1>1, <1>5, <1>6 DEF PcLinkInv, OwnerInv, OpenedInv, HonestInv
  <1>11. StoredInv'
    BY <1>2, <1>3 DEF StoredInv
  <1>12. PreparedInv' /\ DoneByRInv'
    BY <1>1, <1>6 DEF PreparedInv, DoneByRInv, ByP
  <1>13. DoneByPInv'
    <2>1. call.times = 0
      BY <1>1 DEF PcLinkInv, DoneByPInv, ByP
    <2> QED
      BY <1>1, <1>2, <1>4, <1>5, <1>6, <2>1 DEF DoneByPInv, Closed, Fn
  <1>14. FilesInv' /\ LeakInv'
    BY <1>1, <1>2, <1>4, <1>5 DEF PcLinkInv, OwnerInv, FilesInv, LeakInv, Closed
  <1>15. CwdInv'
    BY <1>1, <1>2, <1>5, <1>6 DEF PcLinkInv, CwdInv
  <1> QED
    BY <1>7, <1>8, <1>9, <1>10, <1>11, <1>12, <1>13, <1>14, <1>15 DEF PcLinkInv

LEMMA HandlePKeeps ==
  ASSUME PcLinkInv, HandleP
  PROVE  PcLinkInv'
  BY PGarbledKeeps, PIgnoredKeeps, PBadHandleKeeps, PReadKeeps, PWriteKeeps, PPrepareKeeps,
     PSeekKeeps, PCloseKeeps, PInitKeeps, PRemoveKeeps, PMkdirKeeps, PChdirKeeps
  DEF HandleP

-----------------------------------------------------------------------------
(* 'R'.                                                                     *)

LEMMA RFrame ==
  ASSUME PcLinkInv, NEW q, NEW e, NEW ios, NEW n, NEW t, NEW hd, NEW f, NEW v,
         RStep(q, e, ios, n, t, hd, f, v)
  PROVE  /\ Busy /\ Busy' /\ Blk' = Blk /\ Unit' = Unit /\ Fn' = Fn
         /\ call.stage = "R" /\ call'.stage = "R" /\ server'.old = "R" /\ Fn \notin ByP
         /\ Err' = e /\ Par' = q /\ server'.io = ios /\ server'.cwd = server.cwd
         /\ call'.size = n /\ call'.times = t /\ call'.handle = hd
         /\ call'.twin = call.twin /\ call'.cut = call.cut
         /\ line' = [at |-> "reply", fn |-> f, val |-> v]
         /\ UNCHANGED <<known, knownCwd, lost, pulled>>
         /\ ~ToDo' /\ Heard'
  <1>1. /\ Busy /\ Busy' /\ Blk' = Blk /\ Unit' = Unit /\ Fn' = Fn
        /\ call.stage = "R" /\ call'.stage = "R" /\ server'.old = "R" /\ Fn \notin ByP
    BY TakesBusy DEF RStep, CallStep, ServerStep, Takes, Busy, Blk, Unit, Fn, PcLinkInv, PhaseInv
  <1>2. Err' = e /\ Par' = q
    BY <1>1, BusyFacts DEF RStep, Err, Par, ServerStep, Unit, ServerInv, ServerType, PcLinkInv
  <1> QED
    BY <1>1, <1>2 DEF RStep, CallStep, ServerStep, Reply, Quiet, ServerOnly, programs, ToDo, Heard

(* What every 'R' keeps.                                                    *)
LEMMA RStepKeeps ==
  ASSUME PcLinkInv, NEW q, NEW e, NEW ios, NEW n, NEW t, NEW hd,
         NEW f \in AllFunctions \cup {"nak"}, NEW v \in Nat,
         RStep(q, e, ios, n, t, hd, f, v),
         \A h \in Handles : ~ios[h].open => ios[h] = Closed,
         Fn \in {"GETCWD"} => f # Fn \/ v = server.cwd[Unit],
         \A h \in Handles : ios[h].open => server.io[h].open \/ h = hd,
         call.handle # NoHandle => hd = call.handle
  PROVE  /\ ServerInv' /\ OthersInv' /\ PhaseInv' /\ OwnerInv' /\ DoneByPInv' /\ CwdInv'
         /\ LeakInv' /\ HonestInv'
  <1> USE DEF PcLinkInv
  <1>1. ServerInv'
    BY BusyFacts, RFrame DEF ServerInv, RStep, ServerStep, Unit, ServerType
  <1>2. OthersInv'
    BY RFrame DEF OthersInv, RStep, ServerOnly, programs, CallStep, LineType
  <1>3. PhaseInv'
    BY RFrame DEF PhaseInv
  <1>4. OwnerInv' /\ DoneByPInv' /\ HonestInv'
    BY RFrame DEF OwnerInv, DoneByPInv, HonestInv, RStep, CallStep
  <1>5. LeakInv'
    <2>1. /\ Busy /\ Busy' /\ server'.io = ios /\ call'.handle = hd
          /\ UNCHANGED <<known, lost>>
      BY RFrame
    <2>2. \A h \in Handles : call.handle = h => hd = h
      BY PcLinkAssumption DEF Handles, NoHandle
    <2> QED
      BY <2>1, <2>2 DEF LeakInv
  <1>6. CwdInv'
    <2>1. /\ Busy /\ Busy' /\ Unit' = Unit /\ Fn' = Fn /\ Fn # "CHDIR"
          /\ server'.cwd = server.cwd /\ UNCHANGED knownCwd /\ call'.cut = call.cut
          /\ Blk' = Blk /\ call'.stage = "R"
          /\ line' = [at |-> "reply", fn |-> f, val |-> v]
      BY RFrame DEF ByP
    <2>2. Answer' = v
      BY <2>1 DEF Answer
    <2>3. Got' => f = Fn
      BY <2>1 DEF Got, Expected, Fn
    <2>4. \A m \in Links : knownCwd[m] \in {Unknown, server.cwd[m]}
      BY <2>1 DEF CwdInv
    <2> QED
      BY <2>1, <2>2, <2>3, <2>4 DEF CwdInv
  <1> QED
    BY <1>1, <1>2, <1>3, <1>4, <1>5, <1>6

(* What 'R' finds: the call's block, or one that was cleared.               *)
LEMMA RFacts ==
  ASSUME PcLinkInv, Takes("R")
  PROVE  /\ Busy /\ call.stage = "R" /\ line.at = "command" /\ Fn \notin ByP
         /\ Matches \/ Zeroed
         /\ Par.fn # "FREAD" => Matches
         /\ Zeroed => Par.arg = 0 /\ Par.fn = "FREAD" /\ call.cut
         /\ Matches /\ Fn \notin Opens => Par.handle = Blk.handle
         /\ Par.fn # "CHDIR" => Par.arg \in Nat
         /\ ~SecondR => /\ server.old = "P" /\ ToDo /\ call.times = 0
                        /\ call.handle = NoHandle /\ Err = 1
  <1>1. Busy /\ call.stage = "R" /\ line.at = "command" /\ Fn \notin ByP
    BY TakesBusy DEF Takes, PcLinkInv, PhaseInv
  <1>2. Matches \/ Zeroed
    BY <1>1 DEF PcLinkInv, PreparedInv
  <1>3. ~SecondR => /\ server.old = "P" /\ ToDo /\ call.times = 0
                    /\ call.handle = NoHandle /\ Err = 1
    BY <1>1 DEF PcLinkInv, PhaseInv, PreparedInv, SecondR, ToDo
  <1>4. Par.fn # "CHDIR" => Par.arg \in Nat
    BY <1>1, BusyFacts DEF PcLinkInv, StoredInv, Par
  <1> QED
    BY <1>1, <1>2, <1>3, <1>4 DEF Matches, Zeroed, ZeroBlock, Block

LEMMA RStepStored ==
  ASSUME PcLinkInv, NEW q, NEW e, NEW ios, NEW n, NEW t, NEW hd, NEW f, NEW v,
         RStep(q, e, ios, n, t, hd, f, v),
         q.arg \in Nat, q.fn = "FFIRST" => q.arg = DirMode,
         q.fn \notin {"FSEEK", "FCLOSE", "CHDIR", "INIT"},
         e = 3 => q.fn \in {"FREAD", "FNEXT", "FFIRST"},
         \A h \in Handles : /\ ios[h].pos # server.io[h].pos
                            /\ known[h] # NoFile /\ h \notin pulled
                            => known[h].unit = Unit
  PROVE  StoredInv'
  <1> USE DEF RStep, PcLinkInv
  <1>1. /\ Busy /\ Busy' /\ Blk' = Blk /\ Unit' = Unit /\ Unit \in Units
        /\ UNCHANGED <<known, pulled>> /\ server'.io = ios
    BY RFrame, BusyFacts
  <1> SUFFICES ASSUME NEW m \in Units
               PROVE  LET p == server'.parbuf[m]
                      IN  /\ p.fn # "INIT"
                          /\ p.fn # "CHDIR" => p.arg \in Nat
                          /\ p.fn = "FFIRST" => p.arg = DirMode
                          /\ server'.err[m] = 3 => p.fn \in {"FREAD", "FNEXT", "FFIRST"}
                          /\ p.fn = "FCLOSE" /\ known[p.handle] # NoFile /\ known[p.handle].unit = m
                               => Unit = m /\ Blk = p
                          /\ p.fn = "FSEEK" /\ server'.err[m] \in {1, 3} /\ known[p.handle] # NoFile
                               /\ known[p.handle].unit = m /\ p.handle \notin pulled
                               => ios[p.handle].pos = p.arg
                          /\ p.fn \in {"FSEEK", "FCLOSE"} => p.handle \in Handles
    BY <1>1 DEF StoredInv
  <1>2. CASE m = Unit
    BY <1>1, <1>2 DEF ServerStep, ServerInv, ServerType
  <1>3. CASE m # Unit
    <2>1. server'.parbuf[m] = server.parbuf[m] /\ server'.err[m] = server.err[m]
      BY <1>1, <1>3 DEF ServerStep, ServerInv, ServerType
    <2> QED
      BY <1>1, <1>3, <2>1 DEF StoredInv
  <1> QED
    BY <1>2, <1>3

(* An 'R' that changes no file and counts nothing.                          *)
LEMMA RQuietKeeps ==
  ASSUME PcLinkInv, NEW e \in Nat, NEW f \in AllFunctions \cup {"nak"}, NEW v \in Nat,
         RStep(Par, e, server.io, call.size, call.times, call.handle, f, v),
         Par.fn \notin {"FSEEK", "FCLOSE", "CHDIR", "INIT"},
         e = 3 => Err = 3,
         Fn = "FTELL" /\ f = Fn => v = server.io[Blk.handle].pos,
         Fn = "GETCWD" /\ f = Fn => v = server.cwd[Unit],
         \/ f # Fn
         \/ Fn \in {"FTELL", "GETCWD"}
         \/ /\ call.times = 0 /\ call.handle = NoHandle /\ e \notin {1, 3}
            /\ Fn \in {"FREAD", "FWRITE"} => e = 143
            /\ Fn = "FNEXT" => v \notin {1, 3}
  PROVE  PcLinkInv'
  <1>1. /\ Busy /\ Busy' /\ Blk' = Blk /\ Unit' = Unit /\ Fn' = Fn
        /\ call.stage = "R" /\ call'.stage = "R" /\ server'.old = "R" /\ Fn \notin ByP
        /\ Err' = e /\ Par' = Par /\ server'.io = server.io
        /\ call'.size = call.size /\ call'.times = call.times /\ call'.handle = call.handle
        /\ call'.twin = call.twin /\ call'.cut = call.cut
        /\ line' = [at |-> "reply", fn |-> f, val |-> v]
        /\ UNCHANGED <<known, knownCwd, lost, pulled>> /\ ~ToDo'
    BY RFrame
  <1>2. Takes("R") /\ (Matches \/ Zeroed) /\ Par.arg \in Nat /\ Par \in BlockType
    BY RFacts, BusyFacts, <1>1 DEF RStep
  <1>3. /\ ServerInv' /\ OthersInv' /\ PhaseInv' /\ OwnerInv' /\ DoneByPInv' /\ CwdInv'
        /\ LeakInv' /\ HonestInv'
    <2>1. \A h \in Handles : ~server.io[h].open => server.io[h] = Closed
      BY DEF PcLinkInv, ServerInv
    <2> QED
      BY <2>1, RStepKeeps
  <1>4. StoredInv'
    <2>1. /\ Par.fn = "FFIRST" => Par.arg = DirMode
          /\ Err = 3 => Par.fn \in {"FREAD", "FNEXT", "FFIRST"}
      BY <1>1, BusyFacts DEF PcLinkInv, StoredInv, Par, Err
    <2> QED
      BY <1>2, <2>1, RStepStored
  <1>5. PreparedInv'
    BY <1>1, <1>2 DEF PreparedInv, Matches, Zeroed
  <1>6. Got' => f = Fn
    BY <1>1 DEF Got, Expected, Fn
  <1>7. DoneByRInv'
    BY <1>1, <1>6, RStepKeeps DEF PcLinkInv, DoneByRInv, Opens
  <1>8. Answer' = v
    BY <1>1 DEF Answer
  <1>9. FilesInv'
    BY <1>1, <1>6, <1>8 DEF PcLinkInv, FilesInv, WorksOn, OnFile, ByP
  <1>10. OpenedInv'
    <2>1. call.handle # NoHandle => Fn \in Opens
      BY <1>1 DEF PcLinkInv, OpenedInv
    <2> QED
      BY <1>1, <1>6, <2>1 DEF PcLinkInv, OpenedInv, Opens
  <1> QED
    BY <1>3, <1>4, <1>5, <1>7, <1>9, <1>10 DEF PcLinkInv

(* An 'R' that moves the file at hand to p and counts.                      *)
LEMMA RMoveKeeps ==
  ASSUME PcLinkInv, Takes("R"), ~SecondR, NEW e \in Nat, NEW n \in Nat, NEW v \in Nat,
         NEW p \in 0..MaxPos, Par.fn \in {"FREAD", "FWRITE", "FNEXT"},
         Par.handle \in Handles, server.io[Par.handle].open,
         RStep(Par, e, [server.io EXCEPT ![Par.handle].pos = p], n, 1, NoHandle, Par.fn, v),
         Par.fn \in {"FREAD", "FWRITE"} => p = server.io[Par.handle].pos + n,
         Par.fn = "FREAD" => n <= v /\ n <= Par.arg /\ v = Par.arg,
         e = 3 => Par.fn \in {"FREAD", "FNEXT"}
  PROVE  PcLinkInv'
  <1> DEFINE g   == Par.handle
             ios == [server.io EXCEPT ![g].pos = p]
  <1>1. /\ (\A h \in Handles : h # g => ios[h] = server.io[h])
        /\ ios[g].pos = p /\ ios[g].open /\ ios[g].unit = server.io[g].unit
    BY DEF PcLinkInv, ServerInv, ServerType, FileType
  <1>0. RStep(Par, e, ios, n, 1, NoHandle, Par.fn, v)
    OBVIOUS
  <1> HIDE DEF ios
  <1>2. /\ Busy /\ Busy' /\ Blk' = Blk /\ Unit' = Unit /\ Fn' = Fn
        /\ call.stage = "R" /\ call'.stage = "R" /\ server'.old = "R" /\ Fn \notin ByP
        /\ Err' = e /\ Par' = Par /\ server'.io = ios
        /\ call'.size = n /\ call'.times = 1 /\ call'.handle = NoHandle
        /\ call'.twin = call.twin /\ call'.cut = call.cut
        /\ line' = [at |-> "reply", fn |-> Par.fn, val |-> v]
        /\ UNCHANGED <<known, knownCwd, lost, pulled>> /\ ~ToDo'
    BY RFrame DEF ios
  <1>3. /\ Matches \/ Zeroed
        /\ Par.arg \in Nat /\ Par \in BlockType
        /\ Zeroed => Par.arg = 0 /\ Par.fn = "FREAD" /\ call.cut
        /\ call.times = 0 /\ call.handle = NoHandle
    BY RFacts, BusyFacts, <1>2
  <1>4. server.io[g].pos \in Nat
    BY PcLinkAssumption DEF PcLinkInv, ServerInv, ServerType, FileType
  <1>5. \/ Zeroed /\ p = server.io[g].pos /\ n = 0 /\ v = 0
        \/ Matches /\ Par.fn = Fn /\ g = Blk.handle
    BY <1>3, <1>4, RFacts DEF Matches, Opens
  <1>6. \A h \in Handles : /\ ~ios[h].open => ios[h] = Closed
                           /\ ios[h].open = server.io[h].open
                           /\ ios[h].unit = server.io[h].unit
    <2>1. \A h \in Handles : ~server.io[h].open => server.io[h] = Closed
      BY DEF PcLinkInv, ServerInv
    <2>2. ASSUME NEW h \in Handles
          PROVE  /\ ~ios[h].open => ios[h] = Closed
                 /\ ios[h].open = server.io[h].open
                 /\ ios[h].unit = server.io[h].unit
      <3>1. CASE h = g
        BY <1>1, <3>1
      <3>2. CASE h # g
        BY <1>1, <2>1, <3>2
      <3> QED
        BY <3>1, <3>2
    <2> QED
      BY <2>2
  <1>7. \A h \in Handles : ios[h].pos # server.io[h].pos =>
                             h = Blk.handle /\ Par.fn = Fn /\ Fn \in OnFile
    BY <1>1, <1>5 DEF OnFile
  <1>8. /\ ServerInv' /\ OthersInv' /\ PhaseInv' /\ OwnerInv' /\ DoneByPInv' /\ CwdInv'
        /\ LeakInv' /\ HonestInv'
    <2>1. Par.fn \in AllFunctions \cup {"nak"}
      BY DEF AllFunctions, OnFile
    <2> QED
      BY <1>0, <1>3, <1>6, <2>1, RStepKeeps
  <1>9. StoredInv'
    <2>1. \A h \in Handles : /\ ios[h].pos # server.io[h].pos
                             /\ known[h] # NoFile /\ h \notin pulled
                             => known[h].unit = Unit
      BY <1>2, <1>7 DEF PcLinkInv, OwnerInv
    <2> QED
      BY <1>0, <1>3, <2>1, RStepStored
  <1>10. PreparedInv'
    BY <1>2, <1>3 DEF PreparedInv, Matches, Zeroed
  <1>11. Got' => Par.fn = Fn /\ ~Zeroed
    BY <1>2, <1>3, <1>5, RFacts DEF Got, Expected, Fn, Matches
  <1>12. DoneByRInv'
    BY <1>2, <1>11 DEF DoneByRInv, Opens
  <1>13. OpenedInv'
    BY <1>2 DEF OpenedInv
  <1>14. FilesInv'
    <2>1. ASSUME NEW h \in Handles \ pulled, known[h] # NoFile
          PROVE  LET f == ios[h]
                     k == known[h]
                 IN  /\ f.open => f.unit = k.unit
                     /\ f.open
                     /\ ~WorksOn(h) => k.pos \in {Unknown, f.pos}
                     /\ WorksOn(h) /\ k.pos # Unknown =>
                          /\ Fn \in {"FREAD", "FWRITE"} => f.pos = k.pos + n
                          /\ Fn = "FSEEK" => f.pos = k.pos
                          /\ Fn = "FTELL" => f.pos = k.pos
      <3>1. /\ server.io[h].open /\ server.io[h].unit = known[h].unit
            /\ ~WorksOn(h) => known[h].pos \in {Unknown, server.io[h].pos}
            /\ WorksOn(h) /\ known[h].pos # Unknown =>
                 /\ Fn \in {"FREAD", "FWRITE"} => server.io[h].pos = known[h].pos + 0
                 /\ Fn = "FSEEK" => server.io[h].pos = known[h].pos
                 /\ Fn = "FTELL" => server.io[h].pos = known[h].pos
        BY <1>2, <1>3, <2>1 DEF PcLinkInv, FilesInv, ByP
      <3>2. known[h].pos \in Nat \cup {Unknown}
        BY DEF PcLinkInv, OthersInv
      <3>3. ~WorksOn(h) => ios[h].pos = server.io[h].pos
        BY <1>2, <1>7 DEF WorksOn
      <3>4. WorksOn(h) /\ Fn \notin {"FREAD", "FWRITE"} /\ Fn # Par.fn => ios[h].pos = server.io[h].pos
        BY <1>7
      <3>5. WorksOn(h) /\ Fn \in {"FREAD", "FWRITE"} => ios[h].pos = server.io[h].pos + n
        <4>0. server.io[h].pos \in Nat
          BY PcLinkAssumption DEF PcLinkInv, ServerInv, ServerType, FileType
        <4>1. CASE Zeroed /\ p = server.io[g].pos /\ n = 0
          BY <4>1, <1>1, <1>5, <1>4, <4>0
        <4>2. CASE Matches /\ Par.fn = Fn /\ g = Blk.handle
          BY <4>2, <1>1 DEF WorksOn
        <4> QED
          BY <4>1, <4>2, <1>5
      <3> QED
        BY <3>1, <3>2, <3>3, <3>4, <3>5, <1>6, <1>4 DEF Unknown
    <2>2. \A h : WorksOn(h)' <=> WorksOn(h)
      BY <1>2 DEF WorksOn
    <2>3. ~(Fn = "FTELL" /\ Got')
      BY <1>11
    <2>4. \A h : ~(WorksOn(h) /\ Fn = "FCLOSE")
      BY <1>2 DEF ByP
    <2> QED
      BY <1>2, <2>1, <2>2, <2>3, <2>4 DEF FilesInv
  <1> QED
    BY <1>8, <1>9, <1>10, <1>12, <1>13, <1>14 DEF PcLinkInv

LEMMA CountsOne ==
  ASSUME call \in CallType, call.times = 0, call.handle = NoHandle, NEW n
  PROVE  [call EXCEPT !.times = @ + 1, !.size = n]
           = [call EXCEPT !.size = n, !.times = 1, !.handle = NoHandle]
  <1>1. [call EXCEPT !.times = 1] = [call EXCEPT !.times = 1, !.handle = NoHandle]
    BY DEF CallType
  <1>2. [call EXCEPT !.times = @ + 1] = [call EXCEPT !.times = 1]
    BY DEF CallType
  <1>3. [call EXCEPT !.times = @ + 1, !.size = n]
          = [[call EXCEPT !.times = @ + 1] EXCEPT !.size = n]
    OBVIOUS
  <1>4. [call EXCEPT !.size = n, !.times = 1, !.handle = NoHandle]
          = [[call EXCEPT !.times = 1, !.handle = NoHandle] EXCEPT !.size = n]
    BY DEF CallType
  <1> QED
    BY <1>1, <1>2, <1>3, <1>4

LEMMA RStepBy ==
  ASSUME PcLinkInv, Takes("R"), NEW q \in BlockType, NEW e \in Nat,
         NEW ios \in [Handles -> FileType], NEW n \in Nat, NEW t \in Nat,
         NEW hd \in Handles \cup {NoHandle}, NEW f, NEW v,
         server'.linked = server.linked, server'.crashed = server.crashed,
         server'.parbuf = [server.parbuf EXCEPT ![Unit] = q],
         server'.err = [server.err EXCEPT ![Unit] = e], server'.io = ios,
         server'.cwd = server.cwd, server'.old = "R",
         server' = [linked |-> server'.linked, cwd |-> server'.cwd, parbuf |-> server'.parbuf,
                    err |-> server'.err, io |-> server'.io, old |-> server'.old,
                    crashed |-> server'.crashed],
         call' = [call EXCEPT !.size = n, !.times = t, !.handle = hd], Reply(f, v), ServerOnly
  PROVE  RStep(q, e, ios, n, t, hd, f, v)
  <1>1. Busy
    BY TakesBusy
  <1>2. ServerStep(q, e, ios, server.cwd, "R")
    BY <1>1, BusyFacts DEF ServerStep, PcLinkInv, ServerInv, ServerType
  <1>3. CallStep(n, t, hd)
    BY CallStepBy
  <1> QED
    BY <1>2, <1>3 DEF RStep

LEMMA RQuietStep ==
  ASSUME PcLinkInv, Takes("R"), NEW e \in Nat, NEW f, NEW v,
         server' = [server EXCEPT !.err[Unit] = e, !.old = "R"],
         UNCHANGED call, Reply(f, v), ServerOnly
  PROVE  RStep(Par, e, server.io, call.size, call.times, call.handle, f, v)
  <1>1. Busy
    BY TakesBusy
  <1>2. /\ Par \in BlockType /\ server.io \in [Handles -> FileType]
        /\ [server.parbuf EXCEPT ![Unit] = Par] = server.parbuf
    BY <1>1, BusyFacts DEF PcLinkInv, ServerInv, ServerType, Par
  <1>3. /\ server'.linked = server.linked /\ server'.crashed = server.crashed
        /\ server'.parbuf = server.parbuf
        /\ server'.err = [server.err EXCEPT ![Unit] = e] /\ server'.io = server.io
        /\ server'.cwd = server.cwd /\ server'.old = "R"
        /\ server' = [linked |-> server'.linked, cwd |-> server'.cwd, parbuf |-> server'.parbuf,
                    err |-> server'.err, io |-> server'.io, old |-> server'.old,
                    crashed |-> server'.crashed]
    BY DEF PcLinkInv, ServerInv, ServerType
  <1>4. /\ call' = [call EXCEPT !.size = call.size, !.times = call.times, !.handle = call.handle]
        /\ call.size \in Nat /\ call.times \in Nat /\ call.handle \in Handles \cup {NoHandle}
    BY DEF PcLinkInv, OthersInv, CallType
  <1> QED
    BY <1>2, <1>3, <1>4, RStepBy

LEMMA RRefusedKeeps ==
  ASSUME PcLinkInv, RRefused
  PROVE  PcLinkInv'
  <1>1. Takes("R") /\ Busy
    BY TakesBusy DEF RRefused
  <1>2. server' = [server EXCEPT !.err[Unit] = Err, !.old = "R"]
    BY <1>1, BusyFacts DEF RRefused, SecondR, Err, PcLinkInv, ServerInv, ServerType
  <1>3. RStep(Par, Err, server.io, call.size, call.times, call.handle, "nak", 0)
    BY <1>1, <1>2, RQuietStep, BusyFacts DEF RRefused, Nak
  <1>4. Par.fn \notin {"FSEEK", "FCLOSE", "CHDIR", "INIT"} /\ Fn # "nak"
    BY <1>1, BusyFacts DEF RRefused, BlockType, Fn, AllFunctions, ByP, OnFile
  <1> QED
    BY <1>1, <1>3, <1>4, RQuietKeeps, BusyFacts

LEMMA RTellKeeps ==
  ASSUME PcLinkInv, RTell
  PROVE  PcLinkInv'
  <1>1. /\ Takes("R") /\ Busy /\ Par.fn = "FTELL" /\ Fn = "FTELL" /\ Par.handle = Blk.handle
    BY TakesBusy, RFacts DEF RTell, RBlock, Matches, Opens
  <1>2. server' = [server EXCEPT !.err[Unit] = Err, !.old = "R"]
    BY <1>1, BusyFacts DEF RTell, Executed, Err, PcLinkInv, ServerInv, ServerType
  <1>3. server.io[Blk.handle].pos \in Nat
    BY <1>1, BusyFacts, PcLinkAssumption DEF FileType
  <1>4. RStep(Par, Err, server.io, call.size, call.times, call.handle, "FTELL",
              server.io[Blk.handle].pos)
    BY <1>1, <1>2, RQuietStep, BusyFacts DEF RTell, IO
  <1>5. "FTELL" \in AllFunctions \cup {"nak"}
    BY DEF AllFunctions, OnFile
  <1> QED
    BY <1>1, <1>3, <1>4, <1>5, RQuietKeeps, BusyFacts

LEMMA RGetcwdKeeps ==
  ASSUME PcLinkInv, RGetcwd
  PROVE  PcLinkInv'
  <1>1. Takes("R") /\ Busy /\ Par.fn = "GETCWD" /\ Fn = "GETCWD"
    BY TakesBusy, RFacts DEF RGetcwd, RBlock, Matches, Opens
  <1>2. server' = [server EXCEPT !.err[Unit] = 1, !.old = "R"]
    BY <1>1, BusyFacts DEF RGetcwd, Executed, WithErr, PcLinkInv, ServerInv, ServerType
  <1>3. server.cwd[Unit] \in Nat
    BY <1>1, BusyFacts, PcLinkAssumption DEF PcLinkInv, ServerInv, ServerType
  <1>4. RStep(Par, 1, server.io, call.size, call.times, call.handle, "GETCWD", server.cwd[Unit])
    BY <1>1, <1>2, RQuietStep DEF RGetcwd
  <1>5. "GETCWD" \in AllFunctions \cup {"nak"}
    BY DEF AllFunctions
  <1> QED
    BY <1>1, <1>3, <1>4, <1>5, RQuietKeeps

LEMMA RReadKeeps ==
  ASSUME PcLinkInv, RRead
  PROVE  PcLinkInv'
  <1>1. /\ Takes("R") /\ ~SecondR /\ Busy /\ Par.fn = "FREAD" /\ Par.handle \in Handles
        /\ server.io[Par.handle].open
    BY TakesBusy DEF RRead, RBlock, IsOpen, IO
  <1> DEFINE f == server.io[Par.handle]
  <1>2. PICK got \in 0..Par.arg, end \in {1, 3, 136, Refusal} :
          /\ server' = WithErr(Moved(Executed, Par.handle, got), end)
          /\ CountsTelling(got)
    BY DEF RRead, IO
  <1>3. /\ Par.arg \in Nat /\ call.times = 0 /\ call.handle = NoHandle /\ end \in Nat
        /\ got \in Nat /\ got <= Par.arg
        /\ Matches \/ Zeroed
        /\ Zeroed => Par.arg = 0 /\ call.cut
        /\ Fn \notin ByP
    BY <1>1, RFacts DEF Refusal
  <1>4. f \in FileType /\ f.pos \in Nat /\ f.pos <= MaxPos /\ f.pos + got \in 0..MaxPos
    <2>1. f \in FileType /\ f.pos \in Nat /\ f.pos <= MaxPos
      BY <1>1, PcLinkAssumption DEF PcLinkInv, ServerInv, ServerType, FileType
    <2>2. CASE Zeroed
      BY <1>3, <2>1, <2>2, PcLinkAssumption
    <2>3. CASE Matches
      <3>1. /\ Fn = "FREAD" /\ Par.handle = Blk.handle /\ Par.arg <= Blk.arg
            /\ Blk.arg \in Nat
        BY <1>1, <2>3, BusyFacts, BlockFacts, PcLinkAssumption DEF Matches, Opens, Fn
      <3>2. f.pos + Blk.arg <= MaxPos
        BY <1>1, <1>3, <3>1, RFacts DEF PcLinkInv, PreparedInv
      <3> QED
        BY <1>3, <2>1, <3>1, <3>2, PcLinkAssumption
    <2> QED
      BY <1>3, <2>1, <2>2, <2>3
  <1> DEFINE ios == [server.io EXCEPT ![Par.handle].pos = f.pos + got]
  <1>5. ios \in [Handles -> FileType]
    BY <1>1, <1>4 DEF PcLinkInv, ServerInv, ServerType, FileType
  <1>6. RStep(Par, end, ios, got, 1, NoHandle, "FREAD", Par.arg)
    <2>1. /\ Par \in BlockType
          /\ [server.parbuf EXCEPT ![Unit] = Par] = server.parbuf
      BY <1>1, BusyFacts DEF PcLinkInv, ServerInv, ServerType, Par
    <2>2. /\ server'.linked = server.linked /\ server'.crashed = server.crashed
          /\ server'.parbuf = server.parbuf
          /\ server'.err = [server.err EXCEPT ![Unit] = end] /\ server'.io = ios
          /\ server'.cwd = server.cwd /\ server'.old = "R"
          /\ server' = [linked |-> server'.linked, cwd |-> server'.cwd, parbuf |-> server'.parbuf,
                    err |-> server'.err, io |-> server'.io, old |-> server'.old,
                    crashed |-> server'.crashed]
      BY <1>2 DEF WithErr, Moved, Executed, PcLinkInv, ServerInv, ServerType
    <2>3. call' = [call EXCEPT !.size = got, !.times = 1, !.handle = NoHandle]
      BY <1>2, <1>3, CountsOne DEF CountsTelling, PcLinkInv, OthersInv
    <2>4. Reply("FREAD", Par.arg) /\ ServerOnly
      BY DEF RRead
    <2> HIDE DEF ios
    <2> QED
      BY <1>1, <1>3, <1>5, <2>1, <2>2, <2>3, <2>4, RStepBy
  <1>7. RStep(Par, end, ios, got, 1, NoHandle, Par.fn, Par.arg)
    BY <1>1, <1>6
  <1> QED
    BY <1>1, <1>3, <1>4, <1>7, RMoveKeeps

LEMMA RWriteKeeps ==
  ASSUME PcLinkInv, RWrite
  PROVE  PcLinkInv'
  <1>1. /\ Takes("R") /\ ~SecondR /\ Busy /\ Par.fn = "FWRITE" /\ Par.handle \in Handles
        /\ server.io[Par.handle].open
        /\ Matches /\ Fn = "FWRITE" /\ Par.handle = Blk.handle /\ Par.arg <= Blk.arg
    BY TakesBusy, RFacts DEF RWrite, RBlock, IsOpen, IO, Matches, Opens
  <1> DEFINE f == server.io[Par.handle]
  <1>2. /\ Par.arg \in Nat /\ call.times = 0 /\ call.handle = NoHandle /\ Fn \notin ByP
    BY <1>1, RFacts
  <1>3. "FWRITE" \in AllFunctions \cup {"nak"}
    BY DEF AllFunctions, OnFile
  <1>4. CASE server' = WithErr(Executed, 143) /\ UNCHANGED call
    <2>1. server' = [server EXCEPT !.err[Unit] = 143, !.old = "R"]
      BY <1>4 DEF WithErr, Executed, PcLinkInv, ServerInv, ServerType
    <2>2. RStep(Par, 143, server.io, call.size, call.times, call.handle, "FWRITE", 0)
      BY <1>1, <1>4, <2>1, RQuietStep DEF RWrite
    <2> QED
      BY <1>1, <1>2, <1>3, <2>2, RQuietKeeps
  <1>5. ASSUME NEW e \in {1, Refusal}, NEW got \in 0..Par.arg,
               server' = WithErr(Moved(Executed, Par.handle, got), e), CountsTelling(got)
        PROVE  PcLinkInv'
    <2>1. f \in FileType /\ f.pos \in Nat /\ f.pos + got \in 0..MaxPos
      <3>1. f \in FileType /\ f.pos \in Nat /\ f.pos <= MaxPos
        BY <1>1, PcLinkAssumption DEF PcLinkInv, ServerInv, ServerType, FileType
      <3>2. Blk.arg \in Nat
        BY <1>1, BusyFacts, BlockFacts, PcLinkAssumption DEF Fn
      <3>3. f.pos + Blk.arg <= MaxPos
        BY <1>1, <1>2, RFacts DEF PcLinkInv, PreparedInv
      <3> QED
        BY <1>1, <1>2, <3>1, <3>2, <3>3, PcLinkAssumption
    <2> DEFINE ios == [server.io EXCEPT ![Par.handle].pos = f.pos + got]
    <2>2. ios \in [Handles -> FileType]
      BY <1>1, <2>1 DEF PcLinkInv, ServerInv, ServerType, FileType
    <2>3. e \in Nat /\ got \in Nat
      BY <1>2 DEF Refusal
    <2>4. RStep(Par, e, ios, got, 1, NoHandle, "FWRITE", 0)
      <3>1. /\ Par \in BlockType
            /\ [server.parbuf EXCEPT ![Unit] = Par] = server.parbuf
        BY <1>1, BusyFacts DEF PcLinkInv, ServerInv, ServerType, Par
      <3>2. /\ server'.linked = server.linked /\ server'.crashed = server.crashed
            /\ server'.parbuf = server.parbuf
            /\ server'.err = [server.err EXCEPT ![Unit] = e] /\ server'.io = ios
            /\ server'.cwd = server.cwd /\ server'.old = "R"
            /\ server' = [linked |-> server'.linked, cwd |-> server'.cwd, parbuf |-> server'.parbuf,
                    err |-> server'.err, io |-> server'.io, old |-> server'.old,
                    crashed |-> server'.crashed]
        BY <1>5 DEF WithErr, Moved, Executed, PcLinkInv, ServerInv, ServerType
      <3>3. call' = [call EXCEPT !.size = got, !.times = 1, !.handle = NoHandle]
        BY <1>5, <1>2, CountsOne DEF CountsTelling, PcLinkInv, OthersInv
      <3>4. Reply("FWRITE", 0) /\ ServerOnly
        BY DEF RWrite
      <3> HIDE DEF ios
      <3> QED
        BY <1>1, <1>2, <2>2, <2>3, <3>1, <3>2, <3>3, <3>4, RStepBy
    <2>5. RStep(Par, e, ios, got, 1, NoHandle, Par.fn, 0)
      BY <1>1, <2>4
    <2>6. e # 3 /\ Par.fn # "FREAD"
      BY <1>1 DEF Refusal
    <2> QED
      BY <1>1, <2>1, <2>3, <2>5, <2>6, RMoveKeeps
  <1> QED
    BY <1>4, <1>5 DEF RWrite

LEMMA RNullFileKeeps ==
  ASSUME PcLinkInv, RNullFile
  PROVE  PcLinkInv'
  <1>1. /\ server'.linked = server.linked /\ server'.cwd = server.cwd
        /\ server'.parbuf = server.parbuf /\ server'.err = server.err
        /\ server'.io = server.io /\ server'.old = server.old /\ server' \in ServerType
    BY DEF RNullFile, PcLinkInv, ServerInv, ServerType
  <1>2. UNCHANGED <<line, call, installed, gui, known, knownCwd, lost, pulled>>
    BY DEF RNullFile, ServerOnly, programs
  <1>3. /\ Busy' = Busy /\ Blk' = Blk /\ Fn' = Fn /\ Unit' = Unit /\ Par' = Par /\ Err' = Err
        /\ Heard' = Heard /\ ToDo' = ToDo /\ Expected' = Expected /\ Got' = Got /\ Answer' = Answer
        /\ (\A h : WorksOn(h)' = WorksOn(h))
    BY <1>1, <1>2
    DEF Busy, Blk, Fn, Unit, Par, Err, Heard, ToDo, Expected, Got, Answer, WorksOn
  <1>4. Matches' = Matches /\ Zeroed' = Zeroed
    BY <1>2, <1>3 DEF Matches, Zeroed
  <1>5. ServerInv' /\ OthersInv' /\ OwnerInv' /\ StoredInv' /\ CwdInv' /\ LeakInv' /\ HonestInv'
    BY <1>1, <1>2, <1>3
    DEF PcLinkInv, ServerInv, OthersInv, OwnerInv, StoredInv, CwdInv, LeakInv, HonestInv
  <1>6. PhaseInv' /\ PreparedInv' /\ DoneByPInv' /\ DoneByRInv'
    BY <1>1, <1>2, <1>3, <1>4 DEF PcLinkInv, PhaseInv, PreparedInv, DoneByPInv, DoneByRInv
  <1>7. FilesInv' /\ OpenedInv'
    BY <1>1, <1>2, <1>3 DEF PcLinkInv, FilesInv, OpenedInv
  <1> QED
    BY <1>5, <1>6, <1>7 DEF PcLinkInv

LEMMA RNextKeeps ==
  ASSUME PcLinkInv, RNext
  PROVE  PcLinkInv'
  <1>1. /\ Takes("R") /\ ~SecondR /\ Busy /\ Par.fn = "FNEXT"
        /\ Matches /\ Fn = "FNEXT" /\ Par.handle = Blk.handle /\ Par.handle \in Handles
    BY TakesBusy, RFacts, BusyFacts DEF RNext, RBlock, Matches, Opens
  <1> DEFINE f == server.io[Par.handle]
  <1>2. call.times = 0 /\ call.handle = NoHandle /\ Fn \notin ByP /\ call.size \in Nat
    BY <1>1, RFacts, BusyFacts
  <1>3. ASSUME NEW pos \in 0..MaxPos, NEW e \in {1, 3, 136},
               server' = WithErr([Executed EXCEPT !.io[Par.handle].pos = pos], e),
               Reply("FNEXT", e), Counts, f.open
        PROVE  PcLinkInv'
    <2> DEFINE ios == [server.io EXCEPT ![Par.handle].pos = pos]
    <2>1. ios \in [Handles -> FileType]
      BY <1>1, <1>3 DEF PcLinkInv, ServerInv, ServerType, FileType
    <2>2. RStep(Par, e, ios, call.size, 1, NoHandle, "FNEXT", e)
      <3>1. /\ Par \in BlockType
            /\ [server.parbuf EXCEPT ![Unit] = Par] = server.parbuf
        BY <1>1, BusyFacts DEF PcLinkInv, ServerInv, ServerType, Par
      <3>2. /\ server'.linked = server.linked /\ server'.crashed = server.crashed
            /\ server'.parbuf = server.parbuf
            /\ server'.err = [server.err EXCEPT ![Unit] = e] /\ server'.io = ios
            /\ server'.cwd = server.cwd /\ server'.old = "R"
            /\ server' = [linked |-> server'.linked, cwd |-> server'.cwd, parbuf |-> server'.parbuf,
                    err |-> server'.err, io |-> server'.io, old |-> server'.old,
                    crashed |-> server'.crashed]
        BY <1>3 DEF WithErr, Executed, PcLinkInv, ServerInv, ServerType
      <3>3. call' = [call EXCEPT !.size = call.size, !.times = 1, !.handle = NoHandle]
        <4>1. call' = [call EXCEPT !.times = @ + 1, !.size = call.size]
          BY <1>3 DEF Counts, PcLinkInv, OthersInv, CallType
        <4> QED
          BY <1>2, <4>1, CountsOne DEF PcLinkInv, OthersInv
      <3>4. Reply("FNEXT", e) /\ ServerOnly
        BY <1>3 DEF RNext
      <3>5. e \in Nat /\ 1 \in Nat
        OBVIOUS
      <3> HIDE DEF ios
      <3> QED
        BY <1>1, <1>2, <2>1, <3>1, <3>2, <3>3, <3>4, <3>5, RStepBy
    <2>3. RStep(Par, e, ios, call.size, 1, NoHandle, Par.fn, e)
      BY <1>1, <2>2
    <2>4. e \in Nat
      OBVIOUS
    <2> QED
      BY <1>1, <1>2, <1>3, <2>3, <2>4, RMoveKeeps
  <1>4. CASE ~f.open
    <2>1. server' = WithErr(Executed, Refusal) /\ Reply("FNEXT", Refusal) /\ UNCHANGED call /\ ServerOnly
      BY <1>4 DEF RNext, IsOpen, IO
    <2>2. server' = [server EXCEPT !.err[Unit] = Refusal, !.old = "R"]
      BY <2>1 DEF WithErr, Executed, PcLinkInv, ServerInv, ServerType
    <2>3. RStep(Par, Refusal, server.io, call.size, call.times, call.handle, "FNEXT", Refusal)
      BY <1>1, <2>1, <2>2, RQuietStep DEF Refusal
    <2>4. "FNEXT" \in AllFunctions \cup {"nak"}
      BY DEF AllFunctions, OnFile
    <2> QED
      BY <1>1, <1>2, <2>3, <2>4, RQuietKeeps DEF Refusal
  <1>5. CASE f.open
    <2>1. f.pos \in Nat /\ f.size \in Nat /\ f.size <= MaxPos
      BY <1>1, PcLinkAssumption DEF PcLinkInv, ServerInv, ServerType, FileType
    <2>2. /\ \/ \E pos \in f.pos + 1..f.size :
                  LET e == IF pos = f.size THEN 3 ELSE 1
                  IN  /\ server' = WithErr([Executed EXCEPT !.io[Par.handle].pos = pos], e)
                      /\ Reply("FNEXT", e)
             \/ /\ server' = WithErr([Executed EXCEPT !.io[Par.handle].pos = f.size], 136)
                /\ Reply("FNEXT", 136)
          /\ Counts
      BY <1>1, <1>5 DEF RNext, IsOpen, IO
    <2>3. CASE /\ server' = WithErr([Executed EXCEPT !.io[Par.handle].pos = f.size], 136)
               /\ Reply("FNEXT", 136)
      <3>1. f.size \in 0..MaxPos /\ 136 \in {1, 3, 136}
        BY <2>1, PcLinkAssumption
      <3> QED
        BY <1>3, <1>5, <2>2, <2>3, <3>1
    <2>4. ASSUME NEW pos \in f.pos + 1..f.size,
                 LET e == IF pos = f.size THEN 3 ELSE 1
                 IN  /\ server' = WithErr([Executed EXCEPT !.io[Par.handle].pos = pos], e)
                     /\ Reply("FNEXT", e)
          PROVE  PcLinkInv'
      <3>1. pos \in 0..MaxPos
        BY <2>1, PcLinkAssumption
      <3>2. PICK e \in {1, 3, 136} :
              /\ server' = WithErr([Executed EXCEPT !.io[Par.handle].pos = pos], e)
              /\ Reply("FNEXT", e)
        BY <2>4
      <3> QED
        BY <1>3, <1>5, <2>2, <3>1, <3>2
    <2> QED
      BY <2>2, <2>3, <2>4
  <1> QED
    BY <1>4, <1>5

LEMMA ROpenKeeps ==
  ASSUME PcLinkInv, ROpen
  PROVE  PcLinkInv'
  <1>1. /\ Takes("R") /\ ~SecondR /\ Busy /\ Par.fn \in Opens /\ ServerOnly
        /\ Matches /\ Fn = Par.fn /\ (Fn = "FOPEN" => Par.arg = Blk.arg) /\ Fn \notin OnFile
    BY TakesBusy, RFacts DEF ROpen, RBlock, Matches, Opens, OnFile
  <1>2. /\ call.times = 0 /\ call.handle = NoHandle /\ Fn \notin ByP /\ call.size \in Nat
        /\ Err = 1 /\ Par \in BlockType /\ Par.arg \in Nat /\ Unit \in Units
        /\ Fn = "FOPEN" => Par.arg \in AllModes
        /\ Par.fn = "FFIRST" => Par.arg = DirMode
        /\ Err = server.err[Unit]
    <2>1. Par.fn = "FFIRST" => Par.arg = DirMode
      BY <1>1, BusyFacts DEF PcLinkInv, StoredInv, Par
    <2> QED
      BY <1>1, <2>1, RFacts, BusyFacts, BlockFacts DEF Fn, Opens, Err
  <1>3. CASE server' = WithErr(Executed, Refusal) /\ Reply(Par.fn, 0) /\ UNCHANGED call
    <2>1. server' = [server EXCEPT !.err[Unit] = Refusal, !.old = "R"]
      BY <1>3 DEF WithErr, Executed, PcLinkInv, ServerInv, ServerType
    <2>2. RStep(Par, Refusal, server.io, call.size, call.times, call.handle, Par.fn, 0)
      BY <1>1, <1>3, <2>1, RQuietStep DEF Refusal
    <2>3. Par.fn \in AllFunctions \cup {"nak"}
      BY <1>1 DEF AllFunctions, Opens
    <2>4. Refusal \in Nat /\ Refusal \notin {1, 3}
      BY DEF Refusal
    <2>5. /\ Par.fn \notin {"FSEEK", "FCLOSE", "CHDIR", "INIT"}
          /\ Fn \notin {"FTELL", "GETCWD", "FREAD", "FWRITE", "FNEXT"}
      BY <1>1 DEF Opens
    <2>6. 0 \in Nat
      OBVIOUS
    <2> QED
      BY <1>1, <1>2, <2>2, <2>3, <2>4, <2>5, <2>6, RQuietKeeps
  <1>4. ASSUME NEW h \in Handles, NEW n \in 0..MaxLen, FirstFree(h), Reply(Par.fn, n),
               LET dir  == Par.fn = "FFIRST"
                   mode == IF dir THEN 4 ELSE Par.arg
                   size == IF dir THEN n + 1 ELSE IF mode = 8 THEN 0 ELSE n
                   pos  == IF dir THEN 1 ELSE IF mode = 9 THEN size ELSE 0
                   f    == [open |-> TRUE, unit |-> Unit, mode |-> mode, dir |-> dir,
                            size |-> size, pos |-> pos, eof |-> FALSE]
               IN  /\ server' = [WithErr(WithFile(Executed, h, f),
                                         IF dir /\ n = 0 THEN 3 ELSE server.err[Unit])
                                   EXCEPT !.parbuf[Unit].handle = h]
                   /\ call' = [call EXCEPT !.times = @ + 1, !.handle = h]
        PROVE  PcLinkInv'
    <2>1. PICK f, e :
            /\ f \in FileType /\ f.open /\ f.unit = Unit
            /\ Par.fn = "FFIRST" => f.pos = 1
            /\ Par.fn = "FOPEN" => f.pos = IF Par.arg = 9 THEN n ELSE 0
            /\ e \in {1, 3} /\ (e = 3 => Par.fn = "FFIRST")
            /\ server' = [WithErr(WithFile(Executed, h, f), e) EXCEPT !.parbuf[Unit].handle = h]
      <3> DEFINE dir  == Par.fn = "FFIRST"
                 mode == IF dir THEN 4 ELSE Par.arg
                 size == IF dir THEN n + 1 ELSE IF mode = 8 THEN 0 ELSE n
                 pos  == IF dir THEN 1 ELSE IF mode = 9 THEN size ELSE 0
                 f    == [open |-> TRUE, unit |-> Unit, mode |-> mode, dir |-> dir,
                          size |-> size, pos |-> pos, eof |-> FALSE]
                 e    == IF dir /\ n = 0 THEN 3 ELSE server.err[Unit]
      <3>1. mode \in AllModes /\ size \in 0..MaxLen + 1 /\ pos \in 0..MaxPos
        BY <1>1, <1>2, PcLinkAssumption DEF Opens, AllModes
      <3>2. f \in FileType
        <4> HIDE DEF mode, size, pos
        <4> QED
          BY <1>2, <3>1 DEF FileType
      <3>3. e \in {1, 3} /\ (e = 3 => Par.fn = "FFIRST")
        BY <1>2
      <3>4. /\ Par.fn = "FFIRST" => pos = 1
            /\ Par.fn = "FOPEN" => pos = IF Par.arg = 9 THEN n ELSE 0
        OBVIOUS
      <3>5. server' = [WithErr(WithFile(Executed, h, f), e) EXCEPT !.parbuf[Unit].handle = h]
        BY <1>4
      <3> HIDE DEF e, mode, size, pos
      <3> QED
        BY <3>2, <3>3, <3>4, <3>5
    <2> DEFINE ios == [server.io EXCEPT ![h] = f]
               q   == [Par EXCEPT !.handle = h]
    <2>2. /\ ios \in [Handles -> FileType] /\ ios[h] = f
          /\ \A g \in Handles : g # h => ios[g] = server.io[g]
      BY <2>1 DEF PcLinkInv, ServerInv, ServerType
    <2>3. q \in BlockType /\ q.fn = Par.fn /\ q.arg = Par.arg
      BY <1>2 DEF BlockType
    <2>4. RStep(q, e, ios, call.size, 1, h, Par.fn, n)
      <3>1. /\ server'.linked = server.linked /\ server'.crashed = server.crashed
            /\ server'.parbuf = [server.parbuf EXCEPT ![Unit] = q]
            /\ server'.err = [server.err EXCEPT ![Unit] = e] /\ server'.io = ios
            /\ server'.cwd = server.cwd /\ server'.old = "R"
            /\ server' = [linked |-> server'.linked, cwd |-> server'.cwd, parbuf |-> server'.parbuf,
                    err |-> server'.err, io |-> server'.io, old |-> server'.old,
                    crashed |-> server'.crashed]
        BY <2>1 DEF WithErr, WithFile, Executed, PcLinkInv, ServerInv, ServerType, Par
      <3>2. call' = [call EXCEPT !.size = call.size, !.times = 1, !.handle = h]
        <4>1. call' = [call EXCEPT !.times = @ + 1, !.handle = h]
          BY <1>4
        <4>2. call \in CallType
          BY DEF PcLinkInv, OthersInv
        <4>3. [call EXCEPT !.times = @ + 1] = [call EXCEPT !.times = 1]
          BY <1>2, <4>2 DEF CallType
        <4>4. [call EXCEPT !.size = call.size] = call
          BY <4>2 DEF CallType
        <4> QED
          BY <4>1, <4>3, <4>4
      <3>3. e \in Nat
        BY <2>1
      <3> HIDE DEF ios, q
      <3> QED
        BY <1>1, <1>2, <1>4, <2>1, <2>2, <2>3, <3>1, <3>2, <3>3, RStepBy
    <2> HIDE DEF ios, q
    <2>5. ~server.io[h].open
      BY <1>4 DEF FirstFree, IO
    <2>6. known[h] # NoFile => h \in pulled
      BY <1>1, <2>5 DEF PcLinkInv, FilesInv, WorksOn
    <2>7. /\ Busy /\ Busy' /\ Blk' = Blk /\ Unit' = Unit /\ Fn' = Fn
          /\ call.stage = "R" /\ call'.stage = "R" /\ server'.old = "R" /\ Fn \notin ByP
          /\ Err' = e /\ Par' = q /\ server'.io = ios
          /\ call'.size = call.size /\ call'.times = 1 /\ call'.handle = h
          /\ call'.twin = call.twin /\ call'.cut = call.cut
          /\ line' = [at |-> "reply", fn |-> Par.fn, val |-> n]
          /\ UNCHANGED <<known, knownCwd, lost, pulled>> /\ ~ToDo'
      BY <2>4, RFrame
    <2>8. /\ ServerInv' /\ OthersInv' /\ PhaseInv' /\ OwnerInv' /\ DoneByPInv' /\ CwdInv'
          /\ LeakInv' /\ HonestInv'
      <3>1. /\ Par.fn \in AllFunctions \cup {"nak"} /\ n \in Nat
            /\ Fn \notin {"GETCWD"}
        BY <1>1, PcLinkAssumption DEF AllFunctions, Opens
      <3>2. \A g \in Handles : /\ ~ios[g].open => ios[g] = Closed
                               /\ ios[g].open => server.io[g].open \/ g = h
        BY <2>1, <2>2 DEF PcLinkInv, ServerInv
      <3> QED
        BY <1>2, <2>4, <3>1, <3>2, RStepKeeps
    <2>9. StoredInv'
      <3>1. \A g \in Handles : /\ ios[g].pos # server.io[g].pos
                               /\ known[g] # NoFile /\ g \notin pulled
                               => known[g].unit = Unit
        BY <2>2, <2>6
      <3>2. q.fn \notin {"FSEEK", "FCLOSE", "CHDIR", "INIT"}
        BY <1>1, <2>3 DEF Opens
      <3> QED
        BY <1>2, <2>1, <2>3, <2>4, <3>1, <3>2, RStepStored
    <2>10. PreparedInv'
      BY <1>1, <2>3, <2>7 DEF PreparedInv, Matches, Opens
    <2>11. DoneByRInv'
      BY <1>1, <2>1, <2>7 DEF DoneByRInv, Opens
    <2>12. Answer' = n
      BY <2>7 DEF Answer
    <2>13. OpenedInv'
      BY <1>1, <2>1, <2>2, <2>7, <2>12 DEF OpenedInv, Opens
    <2>14. FilesInv'
      <3>1. \A g : ~WorksOn(g) /\ ~WorksOn(g)'
        BY <1>1, <2>7 DEF WorksOn
      <3>2. \A g \in Handles \ pulled : known[g] # NoFile => ios[g] = server.io[g]
        BY <2>2, <2>6
      <3> QED
        BY <2>7, <3>1, <3>2 DEF PcLinkInv, FilesInv
    <2> QED
      BY <2>8, <2>9, <2>10, <2>11, <2>13, <2>14 DEF PcLinkInv
  <1> QED
    BY <1>3, <1>4 DEF ROpen

LEMMA HandleRKeeps ==
  ASSUME PcLinkInv, HandleR
  PROVE  PcLinkInv'
  BY RRefusedKeeps, RNullFileKeeps, RReadKeeps, RWriteKeeps, RTellKeeps, RGetcwdKeeps,
     RNextKeeps, ROpenKeeps
  DEF HandleR

-----------------------------------------------------------------------------
(* The main window changes the links.                                       *)

(* Server t is s, some numbers of T forgotten.                              *)
Forgets(s, t, T) ==
  /\ t \in ServerType /\ t.linked[0] = NoFolder
  /\ t.err = s.err /\ t.old = s.old /\ t.crashed = s.crashed
  /\ \A h \in Handles : t.io[h] = s.io[h] \/ (h \in T /\ t.io[h] = Closed)
  /\ \A n \in Units : t.parbuf[n] = s.parbuf[n] \/ (n \in T /\ t.parbuf[n] = ZeroBlock)
  /\ \A n \in Units \ T : t.cwd[n] = s.cwd[n]

LEMMA SetLinkForgets ==
  ASSUME NEW s, NEW t, NEW T, NEW n \in T, T \subseteq Links,
         NEW f \in Folders \cup {NoFolder}, Forgets(s, t, T)
  PROVE  Forgets(s, SetLink(t, n, f), T)
  <1> DEFINE u == SetLink(t, n, f)
  <1>1. n \in Handles /\ n \in Units /\ n # 0 /\ 0 \in 0..MaxDepth
    BY PcLinkAssumption DEF Links, Handles, Units
  <1>2. /\ u.io = [t.io EXCEPT ![n] = Closed] /\ u.parbuf = [t.parbuf EXCEPT ![n] = ZeroBlock]
        /\ u.cwd = [t.cwd EXCEPT ![n] = 0] /\ u.linked = [t.linked EXCEPT ![n] = f]
        /\ u.err = t.err /\ u.old = t.old /\ u.crashed = t.crashed
        /\ u = [linked |-> u.linked, cwd |-> u.cwd, parbuf |-> u.parbuf, err |-> u.err,
                io |-> u.io, old |-> u.old, crashed |-> u.crashed]
    <2>1. t \in ServerType
      BY DEF Forgets
    <2> DEFINE w == Forget(t, n)
    <2>2. /\ w.io = [t.io EXCEPT ![n] = Closed] /\ w.parbuf = [t.parbuf EXCEPT ![n] = ZeroBlock]
          /\ w.cwd = [t.cwd EXCEPT ![n] = 0] /\ w.linked = t.linked
          /\ w.err = t.err /\ w.old = t.old /\ w.crashed = t.crashed
          /\ w = [linked |-> w.linked, cwd |-> w.cwd, parbuf |-> w.parbuf, err |-> w.err,
                  io |-> w.io, old |-> w.old, crashed |-> w.crashed]
      <3>1. w = [t EXCEPT !.io[n] = Closed, !.parbuf[n] = ZeroBlock, !.cwd[n] = 0]
        BY DEF Forget, ClosedFile
      <3> HIDE DEF w
      <3> QED
        BY <2>1, <3>1 DEF ServerType
    <2> HIDE DEF w
    <2>3. u = [w EXCEPT !.linked[n] = f]
      BY DEF SetLink, w
    <2> HIDE DEF u
    <2> QED
      BY <2>2, <2>3
  <1> HIDE DEF u
  <1>3. u \in ServerType
    BY <1>1, <1>2, ClosedType, ZeroBlockType DEF Forgets, ServerType
  <1>4. u.linked[0] = NoFolder
    BY <1>1, <1>2 DEF Forgets, ServerType
  <1>5. \A h \in Handles : u.io[h] = s.io[h] \/ (h \in T /\ u.io[h] = Closed)
    BY <1>1, <1>2 DEF Forgets, ServerType
  <1>6. \A m \in Units : u.parbuf[m] = s.parbuf[m] \/ (m \in T /\ u.parbuf[m] = ZeroBlock)
    BY <1>1, <1>2 DEF Forgets, ServerType
  <1>7. \A m \in Units \ T : u.cwd[m] = s.cwd[m]
    BY <1>1, <1>2 DEF Forgets, ServerType
  <1>8. Forgets(s, u, T)
    BY <1>2, <1>3, <1>4, <1>5, <1>6, <1>7 DEF Forgets
  <1> QED
    BY <1>8 DEF u

LEMMA ChangeForgets ==
  ASSUME PcLinkInv, GuiChange
  PROVE  Forgets(server, server', {gui.from, gui.to})
  <1> DEFINE T == {gui.from, gui.to}
  <1>1. /\ gui.from \in Links /\ gui.to \in Links /\ gui.folder \in Folders \cup {NoFolder}
        /\ T \subseteq Links /\ NoFolder \in Folders \cup {NoFolder}
        /\ gui.from \in Units /\ gui.to \in Units
    BY DEF GuiChange, PcLinkInv, OthersInv, GuiType, Links, Units
  <1>2. Forgets(server, server, T)
    BY DEF Forgets, PcLinkInv, ServerInv
  <1>3. Forgets(server, SetLink(server, gui.from, gui.folder), T)
    BY <1>1, <1>2, SetLinkForgets
  <1>4. Forgets(server, ResetLink(server, gui.from), T)
    BY <1>1, <1>2, SetLinkForgets DEF ResetLink
  <1>5. Forgets(server, SwapLinks(server, gui.from, gui.to), T)
    <2> DEFINE from == server.linked[gui.from]
               to   == server.linked[gui.to]
               s1   == IF from # NoFolder THEN ResetLink(server, gui.from) ELSE server
               s2   == IF to # NoFolder THEN ResetLink(SetLink(s1, gui.from, to), gui.to) ELSE s1
               s3   == IF from # NoFolder THEN SetLink(s2, gui.to, from) ELSE s2
    <2>1. from \in Folders \cup {NoFolder} /\ to \in Folders \cup {NoFolder}
      BY <1>1 DEF PcLinkInv, ServerInv, ServerType
    <2>2. Forgets(server, s1, T)
      BY <1>2, <1>4
    <2> HIDE DEF s1, from, to
    <2>3. Forgets(server, SetLink(s1, gui.from, to), T)
      BY <1>1, <2>1, <2>2, SetLinkForgets
    <2>4. Forgets(server, ResetLink(SetLink(s1, gui.from, to), gui.to), T)
      BY <1>1, <2>3, SetLinkForgets DEF ResetLink
    <2>5. Forgets(server, s2, T)
      BY <2>2, <2>4
    <2> HIDE DEF s2
    <2>6. Forgets(server, SetLink(s2, gui.to, from), T)
      BY <1>1, <2>1, <2>5, SetLinkForgets
    <2>7. Forgets(server, s3, T)
      BY <2>5, <2>6
    <2>8. SwapLinks(server, gui.from, gui.to) = s3
      BY DEF SwapLinks, s2, s1, from, to
    <2> QED
      BY <2>7, <2>8
  <1> QED
    BY <1>3, <1>4, <1>5 DEF GuiChange

LEMMA GuiFrame ==
  ASSUME PcLinkInv, UNCHANGED <<server, line, call, programs>>, OthersInv'
  PROVE  PcLinkInv'
  <1>1. UNCHANGED <<server, line, call, known, knownCwd, lost, pulled>>
    BY DEF programs
  <1> QED
    BY <1>1
    DEF PcLinkInv, ServerInv, PhaseInv, OwnerInv, StoredInv, PreparedInv, DoneByPInv,
        DoneByRInv, FilesInv, CwdInv, OpenedInv, LeakInv, HonestInv, Busy, Blk, Fn, Unit, Par,
        Err, Heard, ToDo, Expected, Got, Answer, WorksOn, Matches, Zeroed

LEMMA GuiUninstallKeeps ==
  ASSUME PcLinkInv, GuiUninstall
  PROVE  PcLinkInv'
  <1>1. PICK op \in GuiOps, m \in Links, n \in Links, f \in Folders \cup {NoFolder} :
          GuiStart(op, m, n, f)
    BY DEF GuiUninstall, GuiStart
  <1>2. OthersInv'
    BY <1>1, PcLinkAssumption
    DEF GuiStart, programs, PcLinkInv, OthersInv, GuiType, Links, Units, AllGuiOps
  <1> QED
    BY <1>1, <1>2, GuiFrame DEF GuiStart

LEMMA GuiInstallKeeps ==
  ASSUME PcLinkInv, GuiInstall
  PROVE  PcLinkInv'
  <1>1. OthersInv'
    BY PcLinkAssumption
    DEF GuiInstall, programs, PcLinkInv, OthersInv, GuiType, GuiIdle, Units
  <1> QED
    BY <1>1, GuiFrame DEF GuiInstall

LEMMA GuiChangeKeeps ==
  ASSUME PcLinkInv, GuiChange
  PROVE  PcLinkInv'
  <1> DEFINE T == {gui.from, gui.to}
  <1>1. /\ server' \in ServerType /\ server'.linked[0] = NoFolder
        /\ server'.err = server.err /\ server'.old = server.old
        /\ \A h \in Handles : server'.io[h] = server.io[h] \/ (h \in T /\ server'.io[h] = Closed)
        /\ \A n \in Units : server'.parbuf[n] = server.parbuf[n]
                              \/ (n \in T /\ server'.parbuf[n] = ZeroBlock)
        /\ \A n \in Units \ T : server'.cwd[n] = server.cwd[n]
    BY ChangeForgets DEF Forgets
  <1>2. /\ T \subseteq Links /\ T \subseteq Handles /\ T \subseteq Units /\ 0 \notin T
        /\ NoHandle \notin T
    BY PcLinkAssumption
    DEF GuiChange, PcLinkInv, OthersInv, GuiType, Links, Units, Handles, NoHandle
  <1>3. /\ call' = [call EXCEPT !.cut = @ \/ (Busy /\ {Unit, Blk.handle, call.handle} \cap T # {})]
        /\ pulled' = pulled \cup {h \in T : known[h] # NoFile}
        /\ knownCwd' = [n \in Units |-> IF n \in T THEN Unknown ELSE knownCwd[n]]
        /\ UNCHANGED <<installed, line, known, lost>>
        /\ gui' = [GuiIdle EXCEPT !.pc = "install"] /\ gui.pc = "change"
    BY DEF GuiChange, Busy
  <1> HIDE DEF T
  <1>4. /\ call' \in CallType /\ call'.pc = call.pc /\ call'.unit = call.unit
        /\ call'.block = call.block /\ call'.stage = call.stage /\ call'.size = call.size
        /\ call'.handle = call.handle /\ call'.times = call.times /\ call'.twin = call.twin
        /\ call'.honest = call.honest
    BY <1>3 DEF CallType, PcLinkInv, OthersInv
  <1>5. /\ call.cut => call'.cut
        /\ Busy /\ ~call'.cut => Unit \notin T /\ Blk.handle \notin T /\ call.handle \notin T
    BY <1>3 DEF CallType, PcLinkInv, OthersInv
  <1>6. /\ Busy' = Busy /\ Blk' = Blk /\ Fn' = Fn /\ Unit' = Unit
        /\ Heard' = Heard /\ ToDo' = ToDo /\ Expected' = Expected /\ Got' = Got /\ Answer' = Answer
        /\ (\A h : WorksOn(h)' = WorksOn(h))
    BY <1>1, <1>3, <1>4
    DEF Busy, Blk, Fn, Unit, Heard, ToDo, Expected, Got, Answer, WorksOn
  <1>7. Busy => Err' = Err /\ (Par' = Par \/ (Unit \in T /\ Par' = ZeroBlock /\ call'.cut))
    BY <1>1, <1>5, <1>6, BusyFacts DEF Err, Par
  <1>8. ServerInv'
    BY <1>1 DEF PcLinkInv, ServerInv
  <1>9. OthersInv'
    <2>1. gui' \in GuiType /\ gui'.pc = "install" /\ ~installed'
      BY <1>3, PcLinkAssumption DEF PcLinkInv, OthersInv, GuiType, GuiIdle, Units
    <2>2. knownCwd' \in [Units -> Int] /\ pulled' \subseteq Handles
      BY <1>2, <1>3 DEF PcLinkInv, OthersInv, Unknown
    <2> QED
      BY <1>3, <1>4, <2>1, <2>2 DEF PcLinkInv, OthersInv
  <1>10. PhaseInv'
    BY <1>1, <1>3, <1>4, <1>6 DEF PcLinkInv, PhaseInv
  <1>11. OwnerInv'
    BY <1>2, <1>3, <1>6 DEF PcLinkInv, OwnerInv
  <1>12. StoredInv'
    <2> SUFFICES ASSUME NEW n \in Units
                 PROVE  LET p == server'.parbuf[n]
                        IN  /\ p.fn # "INIT"
                            /\ p.fn # "CHDIR" => p.arg \in Nat
                            /\ p.fn = "FFIRST" => p.arg = DirMode
                            /\ server.err[n] = 3 => p.fn \in {"FREAD", "FNEXT", "FFIRST"}
                            /\ p.fn = "FCLOSE" /\ known[p.handle] # NoFile /\ known[p.handle].unit = n
                                 => Busy /\ Unit = n /\ Blk = p
                            /\ p.fn = "FSEEK" /\ server.err[n] \in {1, 3} /\ known[p.handle] # NoFile
                                 /\ known[p.handle].unit = n /\ p.handle \notin pulled'
                                 => server'.io[p.handle].pos = p.arg
                            /\ p.fn \in {"FSEEK", "FCLOSE"} => p.handle \in Handles
      BY <1>1, <1>3, <1>6 DEF StoredInv
    <2>1. CASE server'.parbuf[n] = ZeroBlock
      BY <2>1 DEF ZeroBlock, Block
    <2>2. CASE server'.parbuf[n] = server.parbuf[n]
      <3> DEFINE p == server.parbuf[n]
      <3>1. /\ p.fn # "INIT"
            /\ p.fn # "CHDIR" => p.arg \in Nat
            /\ p.fn = "FFIRST" => p.arg = DirMode
            /\ server.err[n] = 3 => p.fn \in {"FREAD", "FNEXT", "FFIRST"}
            /\ p.fn = "FCLOSE" /\ known[p.handle] # NoFile /\ known[p.handle].unit = n
                 => Busy /\ Unit = n /\ Blk = p
            /\ p.fn = "FSEEK" /\ server.err[n] \in {1, 3} /\ known[p.handle] # NoFile
                 /\ known[p.handle].unit = n /\ p.handle \notin pulled
                 => server.io[p.handle].pos = p.arg
            /\ p.fn \in {"FSEEK", "FCLOSE"} => p.handle \in Handles
        BY DEF PcLinkInv, StoredInv
      <3>2. p.handle \in Handles /\ known[p.handle] # NoFile /\ p.handle \notin pulled'
              => p.handle \notin pulled /\ server'.io[p.handle] = server.io[p.handle]
        BY <1>1, <1>3
      <3> QED
        BY <2>2, <3>1, <3>2
    <2> QED
      BY <1>1, <2>1, <2>2
  <1>13. PreparedInv'
    <2> SUFFICES ASSUME Busy, Fn \notin ByP
                 PROVE  PreparedInv'
      BY <1>6 DEF PreparedInv
    <2>1. /\ Blk.handle \in Handles
          /\ Fn \in {"FREAD", "FWRITE"} => Blk.arg \in Nat /\ Blk.arg <= MaxPos
      BY BusyFacts, BlockFacts, PcLinkAssumption DEF Fn
    <2>2. /\ Matches \/ Zeroed => Matches' \/ Zeroed'
      BY <1>5, <1>6, <1>7 DEF Matches, Zeroed
    <2>3. Fn \in {"FREAD", "FWRITE"} /\ server.io[Blk.handle].pos + Blk.arg <= MaxPos
            => server'.io[Blk.handle].pos + Blk.arg <= MaxPos
      BY <1>1, <2>1 DEF Closed
    <2>4. ~call'.cut => ~call.cut /\ server'.io[Blk.handle] = server.io[Blk.handle]
      BY <1>1, <1>5, <2>1
    <2> QED
      BY <1>1, <1>4, <1>6, <1>7, <2>2, <2>3, <2>4 DEF PcLinkInv, PreparedInv
  <1>14. DoneByPInv'
    <2> SUFFICES ASSUME Busy, Fn \in ByP
                 PROVE  DoneByPInv'
      BY <1>6 DEF DoneByPInv
    <2>1. Blk.handle \in Handles /\ Blk # ZeroBlock
      BY BusyFacts, BlockFacts
    <2>2. \A h \in Handles : ~server.io[h].open => ~server'.io[h].open
      BY <1>1 DEF Closed
    <2>3. ~call'.cut => ~call.cut /\ Par' = Par
      BY <1>5, <1>7
    <2>4. Par' = Blk => Par = Blk
      BY <1>7, <2>1
    <2> QED
      BY <1>1, <1>4, <1>6, <1>7, <2>1, <2>2, <2>3, <2>4 DEF PcLinkInv, DoneByPInv
  <1>15. DoneByRInv' /\ HonestInv'
    BY <1>3, <1>4, <1>6, <1>7 DEF PcLinkInv, DoneByRInv, HonestInv
  <1>16. FilesInv'
    <2>1. \A h \in Handles \ pulled' :
            known[h] # NoFile => h \notin pulled /\ server'.io[h] = server.io[h]
      BY <1>1, <1>3
    <2> QED
      BY <1>3, <1>4, <1>5, <1>6, <2>1 DEF PcLinkInv, FilesInv
  <1>17. CwdInv'
    <2> SUFFICES ASSUME NEW n \in Links
                 PROVE  IF Busy /\ Fn = "CHDIR" /\ Unit = n
                        THEN ~call'.cut /\ ~call.twin /\ knownCwd'[n] # Unknown =>
                               server'.cwd[n] = knownCwd'[n] + IF call.times = 0 THEN 0 ELSE Blk.arg
                        ELSE /\ knownCwd'[n] \in {Unknown, server'.cwd[n]}
                             /\ Busy /\ Fn = "GETCWD" /\ Unit = n /\ Got /\ ~call'.cut
                                  => Answer = server'.cwd[n]
      BY <1>4, <1>6 DEF CwdInv
    <2>1. n \in Units
      BY DEF Links, Units
    <2>2. CASE n \in T
      BY <1>3, <1>5, <2>1, <2>2
    <2>3. CASE n \notin T
      BY <1>1, <1>3, <1>5, <2>1, <2>3 DEF PcLinkInv, CwdInv
    <2> QED
      BY <2>2, <2>3
  <1>18. OpenedInv'
    <2>1. Busy /\ call.handle # NoHandle /\ ~call'.cut =>
            ~call.cut /\ server'.io[call.handle] = server.io[call.handle]
      BY <1>1, <1>5 DEF PcLinkInv, OthersInv, CallType
    <2> QED
      BY <1>4, <1>6, <2>1 DEF PcLinkInv, OpenedInv
  <1>19. LeakInv'
    BY <1>1, <1>3, <1>4, <1>6 DEF PcLinkInv, LeakInv, Closed
  <1> QED
    BY <1>8, <1>9, <1>10, <1>11, <1>12, <1>13, <1>14, <1>15, <1>16, <1>17, <1>18, <1>19
    DEF PcLinkInv

-----------------------------------------------------------------------------
(* The Atari.                                                               *)

LEMMA CallKeeps ==
  ASSUME PcLinkInv, Call
  PROVE  PcLinkInv'
  <1>1. PICK m \in Units, c \in Blocks :
          /\ Sensible(m, c)
          /\ call' = [NoCall EXCEPT !.pc = "busy", !.unit = m, !.block = c,
                                    !.handle = NoHandle, !.twin = (c = server.parbuf[m])]
          /\ IF c.fn = "INIT" THEN /\ known' = [h \in Handles |-> NoFile]
                                   /\ lost' = Handles /\ pulled' = {}
                              ELSE UNCHANGED <<known, lost, pulled>>
    BY DEF Call
  <1>2. ~Busy
    BY DEF Call, Busy
  <1>3. /\ line' = [Quiet EXCEPT !.at = "command"]
        /\ UNCHANGED <<server, installed, gui, knownCwd>>
    BY DEF Call
  <1>4. /\ c \in BlockType /\ c.handle \in Handles
        /\ c.fn \in {"FREAD", "FWRITE"} => c.arg \in Nat
        /\ c.fn = "INIT" <=> m = 0
        /\ c.fn \in OnFile => known[c.handle] # NoFile /\ known[c.handle].unit = m
        /\ c.fn \in {"FREAD", "FWRITE"} => server.io[c.handle].pos + c.arg <= MaxPos
    BY <1>1, BlockFacts, PcLinkAssumption DEF Sensible
  <1>5. /\ call'.pc = "busy" /\ call'.unit = m /\ call'.block = c /\ call'.handle = NoHandle
        /\ call'.twin = (c = server.parbuf[m]) /\ call'.times = 0 /\ call'.size = 0
        /\ call'.stage = "P" /\ ~call'.cut /\ call'.honest /\ call' \in CallType
    <2> DEFINE b == (c = server.parbuf[m])
    <2>1. b \in BOOLEAN
      OBVIOUS
    <2>2. call' = [pc |-> "busy", unit |-> m, block |-> c, stage |-> "P", tries |-> 0, size |-> 0,
                   handle |-> NoHandle, times |-> 0, twin |-> b, cut |-> FALSE, honest |-> TRUE]
      BY <1>1 DEF NoCall
    <2>3. 0 \in 0..MaxTries - 1
      BY PcLinkAssumption
    <2>4. call'.twin = b
      BY <2>2
    <2> HIDE DEF b
    <2>5. call' \in CallType
      BY <1>4, <2>1, <2>2, <2>3 DEF CallType
    <2>6. call'.twin = (c = server.parbuf[m])
      BY <2>4 DEF b
    <2> QED
      BY <2>2, <2>5, <2>6
  <1>6. /\ Busy' /\ Blk' = c /\ Fn' = c.fn /\ Unit' = m /\ Par' = server.parbuf[m]
        /\ ~Heard' /\ ~Got' /\ ToDo'
    BY <1>3, <1>5 DEF Busy, Blk, Fn, Unit, Par, Heard, Got, ToDo, Quiet
  <1>7. /\ \A h \in Handles : known'[h] # NoFile => known'[h] = known[h] /\ c.fn # "INIT"
        /\ c.fn # "INIT" => UNCHANGED <<known, lost, pulled>>
        /\ c.fn = "INIT" => /\ \A h \in Handles : known'[h] = NoFile
                            /\ lost' = Handles /\ pulled' = {}
    BY <1>1
  <1>8. \A h \in Handles \ pulled :
          known[h] # NoFile => /\ server.io[h].open /\ server.io[h].unit = known[h].unit
                               /\ known[h].pos \in {Unknown, server.io[h].pos}
                               /\ server.io[h].pos \in Int
    BY <1>2, PcLinkAssumption DEF PcLinkInv, FilesInv, WorksOn, ServerInv, ServerType, FileType
  <1>9. ServerInv'
    BY <1>3 DEF PcLinkInv, ServerInv
  <1>10. OthersInv'
    <2>1. known' \in [Handles -> [unit : Units, pos : Nat \cup {Unknown}]]
      BY <1>1, PcLinkAssumption DEF PcLinkInv, OthersInv, NoFile, Units
    <2>2. line' \in LineType
      BY <1>3 DEF LineType, Quiet
    <2> QED
      BY <1>3, <1>5, <1>7, <2>1, <2>2 DEF PcLinkInv, OthersInv
  <1>11. PhaseInv'
    BY <1>1, <1>3, <1>4, <1>5, <1>6 DEF PhaseInv, Quiet
  <1>12. OwnerInv'
    BY <1>4, <1>6, <1>7 DEF OwnerInv, OnFile
  <1>13. StoredInv'
    <2> SUFFICES ASSUME NEW n \in Units
                 PROVE  LET p == server.parbuf[n]
                        IN  /\ p.fn # "INIT"
                            /\ p.fn # "CHDIR" => p.arg \in Nat
                            /\ p.fn = "FFIRST" => p.arg = DirMode
                            /\ server.err[n] = 3 => p.fn \in {"FREAD", "FNEXT", "FFIRST"}
                            /\ ~(p.fn = "FCLOSE" /\ known'[p.handle] # NoFile
                                   /\ known'[p.handle].unit = n)
                            /\ p.fn = "FSEEK" /\ server.err[n] \in {1, 3} /\ known'[p.handle] # NoFile
                                 /\ known'[p.handle].unit = n /\ p.handle \notin pulled'
                                 => server.io[p.handle].pos = p.arg
                            /\ p.fn \in {"FSEEK", "FCLOSE"} => p.handle \in Handles
      BY <1>3 DEF StoredInv
    <2> QED
      BY <1>2, <1>7 DEF PcLinkInv, StoredInv
  <1>14. PreparedInv'
    BY <1>3, <1>4, <1>5, <1>6 DEF PreparedInv
  <1>15. DoneByPInv'
    <2>1. server.parbuf[m].fn # "INIT"
      BY DEF PcLinkInv, StoredInv
    <2>2. c.fn = "FCLOSE" => server.parbuf[m] # c
      BY <1>2, <1>4 DEF PcLinkInv, StoredInv, OnFile
    <2> QED
      BY <1>5, <1>6, <2>1, <2>2 DEF DoneByPInv
  <1>16. DoneByRInv' /\ OpenedInv' /\ HonestInv'
    BY <1>5, <1>6 DEF DoneByRInv, OpenedInv, HonestInv
  <1>17. FilesInv'
    BY <1>3, <1>5, <1>6, <1>7, <1>8 DEF FilesInv
  <1>18. CwdInv'
    <2>1. \A n \in Links : knownCwd[n] \in {Unknown, server.cwd[n]} /\ server.cwd[n] \in Int
      BY <1>2, PcLinkAssumption DEF PcLinkInv, CwdInv, ServerInv, ServerType, Links, Units
    <2> QED
      BY <1>3, <1>5, <1>6, <2>1 DEF CwdInv
  <1>19. LeakInv'
    BY <1>2, <1>3, <1>7 DEF PcLinkInv, LeakInv
  <1> QED
    BY <1>9, <1>10, <1>11, <1>12, <1>13, <1>14, <1>15, <1>16, <1>17, <1>18, <1>19 DEF PcLinkInv

(* The driver goes on with the call or repeats its command.                 *)
LEMMA DriverKeeps ==
  ASSUME PcLinkInv, Busy, UNCHANGED <<server, installed, gui, programs>>,
         line' = [Quiet EXCEPT !.at = "command"],
         NEW s \in {"P", "S1", "R", "S2"}, NEW z \in Nat, NEW k \in 0..MaxTries - 1,
         call' = [call EXCEPT !.stage = s, !.size = z, !.tries = k],
         Fn \in {"FREAD", "FWRITE"} => z = call.size,
         \/ s = call.stage /\ s \in {"P", "R"} /\ z = call.size
         \/ s = "S1" /\ call.stage = "P" /\ line.at = "reply"
         \/ s = "R" /\ call.stage = "S1" /\ Err = 1 /\ Fn \notin ByP
         \/ /\ s = "S2" /\ call.stage = "R" /\ line.at = "reply" /\ Expected /\ Fn # "FNEXT"
            /\ Fn \notin {"FREAD", "FWRITE"} => z = line.val
  PROVE  PcLinkInv'
  <1>1. UNCHANGED <<server, installed, gui, known, knownCwd, lost, pulled>>
    BY DEF programs
  <1>2. /\ call' \in CallType /\ call'.pc = call.pc /\ call'.unit = call.unit
        /\ call'.block = call.block /\ call'.stage = s /\ call'.size = z
        /\ call'.handle = call.handle /\ call'.times = call.times /\ call'.twin = call.twin
        /\ call'.cut = call.cut /\ call'.honest = call.honest
    BY DEF CallType, PcLinkInv, OthersInv
  <1>3. /\ Busy' /\ Blk' = Blk /\ Fn' = Fn /\ Unit' = Unit /\ Par' = Par /\ Err' = Err
        /\ line'.at = "command" /\ line' \in LineType
        /\ \A h : WorksOn(h)' = WorksOn(h)
    BY <1>1, <1>2 DEF Busy, Blk, Fn, Unit, Par, Err, Quiet, LineType, WorksOn
  <1>4. Matches' = Matches /\ Zeroed' = Zeroed
    BY <1>2, <1>3 DEF Matches, Zeroed
  <1>5. Heard' => Heard
    BY <1>2, <1>3 DEF Heard
  <1>6. /\ ToDo' => ToDo
        /\ s \in {"R", "S2"} => call.stage \in {"R", "S2"} \/ (Heard /\ Err = 1)
        /\ s \in {"P", "S1"} => call.stage \in {"P", "S1"}
    BY <1>1, <1>2 DEF ToDo, Heard
  <1>7. Got' => Got /\ Fn # "FNEXT" /\ s = "S2" /\ (Fn \notin {"FREAD", "FWRITE"} => Answer' = Answer)
    BY <1>2, <1>3 DEF Got, Answer
  <1>8. ServerInv' /\ OthersInv' /\ OwnerInv' /\ StoredInv' /\ LeakInv' /\ HonestInv'
    BY <1>1, <1>2, <1>3
    DEF PcLinkInv, ServerInv, OthersInv, OwnerInv, StoredInv, LeakInv, HonestInv
  <1>9. PhaseInv'
    BY <1>1, <1>2, <1>3, <1>5 DEF PcLinkInv, PhaseInv, Heard
  <1>10. PreparedInv'
    BY <1>1, <1>2, <1>3, <1>4, <1>5, <1>6 DEF PcLinkInv, PreparedInv, Heard
  <1>11. DoneByPInv'
    BY <1>1, <1>2, <1>3, <1>5 DEF PcLinkInv, DoneByPInv
  <1>12. DoneByRInv'
    BY <1>1, <1>2, <1>3, <1>7 DEF PcLinkInv, DoneByRInv
  <1>13. FilesInv'
    BY <1>1, <1>2, <1>3, <1>7 DEF PcLinkInv, FilesInv
  <1>14. CwdInv'
    BY <1>1, <1>2, <1>3, <1>7 DEF PcLinkInv, CwdInv
  <1>15. OpenedInv'
    BY <1>1, <1>2, <1>3, <1>6, <1>7 DEF PcLinkInv, OpenedInv
  <1> QED
    BY <1>8, <1>9, <1>10, <1>11, <1>12, <1>13, <1>14, <1>15 DEF PcLinkInv

(* What is known at the end of a call.                                      *)
EndFacts(result, n) ==
  /\ Honest(result)
  /\ Fn \in Opens /\ result = "ok" =>
       /\ call.handle \in Handles /\ Par.fn \notin {"FCLOSE", "FSEEK"}
       /\ ~call.cut =>
            LET f == server.io[call.handle]
            IN  /\ f.open /\ f.unit = Unit
                /\ f.pos = IF Fn = "FFIRST" THEN 1 ELSE IF Blk.arg = 9 THEN call.size ELSE 0
  /\ Fn \in Opens /\ result = "refused" => call.handle = NoHandle
  /\ Fn = "FCLOSE" /\ result # "line" => ~server.io[Blk.handle].open
  /\ Fn = "INIT" /\ result # "line" => \A h \in Handles : ~server.io[h].open
  /\ result # "line" /\ ~call.cut /\ Blk.handle \notin pulled =>
       LET f == server.io[Blk.handle]
           k == known[Blk.handle]
       IN  /\ Fn = "FSEEK" => IF result = "ok" THEN f.pos = Blk.arg
                                               ELSE k.pos \in {Unknown, f.pos}
           /\ Fn \in {"FREAD", "FWRITE"} /\ k.pos # Unknown => f.pos = k.pos + n
           /\ Fn = "FTELL" /\ result = "ok" => f.pos = call.size
  /\ Fn = "GETCWD" /\ result = "ok" /\ ~call.cut => call.size = server.cwd[Unit]

LEMMA EndKeeps ==
  ASSUME PcLinkInv, Busy, UNCHANGED <<server, installed, gui>>,
         NEW result \in {"ok", "line", "refused"}, NEW n \in Nat, EndFacts(result, n),
         End(result, n)
  PROVE  PcLinkInv'
  <1> DEFINE h    == Blk.handle
             dark == result = "line" \/ call.cut
  <1>1. /\ call' = [NoCall EXCEPT !.honest = TRUE] /\ line' = Quiet
        /\ Effect(result, n)
    BY DEF End, EndFacts
  <1>2. /\ call' \in CallType /\ ~Busy' /\ line' \in LineType /\ line'.at = "quiet"
        /\ call'.honest /\ call'.times = 0
    <2>1. call' = [pc |-> "idle", unit |-> 0, block |-> ZeroBlock, stage |-> "P", tries |-> 0,
                   size |-> 0, handle |-> 0, times |-> 0, twin |-> FALSE, cut |-> FALSE,
                   honest |-> TRUE]
      BY <1>1 DEF NoCall
    <2>2. 0 \in 0..MaxTries - 1 /\ 0 \in Units /\ 0 \in Handles
      BY PcLinkAssumption DEF Units, Handles
    <2>3. call' \in CallType
      BY <2>1, <2>2, ZeroBlockType DEF CallType
    <2> QED
      BY <1>1, <2>1, <2>3 DEF Busy, LineType, Quiet
  <1>3. /\ h \in Handles /\ Unit \in Units /\ call.size \in Nat
        /\ Fn = "FSEEK" => Blk.arg \in Nat
        /\ Fn = "INIT" <=> Unit = 0
        /\ Fn \in OnFile => known[h] # NoFile /\ known[h].unit = Unit
        /\ call.handle \in Handles \cup {NoHandle}
        /\ Fn = "CHDIR" => Blk.arg \in Int
    BY BusyFacts, BlockFacts, PcLinkAssumption
    DEF Fn, PcLinkInv, PhaseInv, OwnerInv, OthersInv, CallType, BlockType
  <1>4. known \in [Handles -> [unit : Units, pos : Nat \cup {Unknown}]]
    BY DEF PcLinkInv, OthersInv
  (* What becomes of the programs' files.                                   *)
  <1>5. /\ known' \in [Handles -> [unit : Units, pos : Nat \cup {Unknown}]]
        /\ Fn \notin Opens => \A g \in Handles : known'[g] # NoFile =>
                                known[g] # NoFile /\ known'[g].unit = known[g].unit
        /\ Fn \in Opens /\ result = "ok" =>
             /\ known'[call.handle] =
                  [unit |-> Unit, pos |-> IF Fn = "FFIRST" THEN 1
                                          ELSE IF Blk.arg = 9 THEN call.size ELSE 0]
             /\ \A g \in Handles : g # call.handle => known'[g] = known[g]
        /\ Fn \in Opens /\ result # "ok" => known' = known
        /\ Fn = "FCLOSE" => /\ known'[h] = NoFile
                            /\ \A g \in Handles : g # h => known'[g] = known[g]
        /\ Fn \notin Opens \cup OnFile => known' = known
        /\ Fn \in OnFile \ {"FCLOSE"} =>
             /\ known'[h] = [known[h] EXCEPT !.pos =
                   IF dark \/ Fn = "FNEXT" THEN Unknown
                   ELSE IF Fn = "FSEEK" /\ result = "ok" THEN Blk.arg
                   ELSE IF Fn = "FTELL" /\ result = "ok" THEN call.size
                   ELSE IF Fn \in {"FREAD", "FWRITE"} /\ known[h].pos # Unknown THEN known[h].pos + n
                   ELSE @]
             /\ \A g \in Handles : g # h => known'[g] = known[g]
    <2>1. CASE Fn \in Opens /\ result = "ok"
      <3>1. known' = [known EXCEPT ![call.handle] =
                   [unit |-> Unit,
                    pos  |-> IF Fn = "FFIRST" THEN 1 ELSE IF Blk.arg = 9 THEN call.size ELSE 0]]
        BY <1>1, <2>1 DEF Effect, Fn
      <3>2. call.handle \in Handles
        BY <2>1 DEF EndFacts
      <3> QED
        BY <1>3, <1>4, <2>1, <3>1, <3>2 DEF Opens, OnFile
    <2>2. CASE Fn = "FCLOSE"
      <3>1. known' = [known EXCEPT ![h] = NoFile]
        BY <1>1, <2>2 DEF Effect, Fn, Opens
      <3>2. NoFile \in [unit : Units, pos : Nat \cup {Unknown}]
        BY PcLinkAssumption DEF NoFile, Units
      <3> QED
        BY <1>3, <1>4, <2>2, <3>1, <3>2 DEF Opens, OnFile
    <2>3. CASE Fn \in OnFile \ {"FCLOSE"}
      <3> DEFINE p == IF dark \/ Fn = "FNEXT" THEN Unknown
                   ELSE IF Fn = "FSEEK" /\ result = "ok" THEN Blk.arg
                   ELSE IF Fn = "FTELL" /\ result = "ok" THEN call.size
                   ELSE IF Fn \in {"FREAD", "FWRITE"} /\ known[h].pos # Unknown THEN known[h].pos + n
                   ELSE known[h].pos
      <3>1. known' = [known EXCEPT ![h].pos = p]
        BY <1>1, <1>3, <2>3 DEF Effect, Fn, Opens, OnFile
      <3>2. p \in Nat \cup {Unknown}
        BY <1>3, <1>4
      <3> HIDE DEF p
      <3>3. /\ known' \in [Handles -> [unit : Units, pos : Nat \cup {Unknown}]]
            /\ known'[h] = [known[h] EXCEPT !.pos = p]
            /\ known'[h].unit = known[h].unit
            /\ \A g \in Handles : g # h => known'[g] = known[g]
        BY <1>3, <1>4, <3>1, <3>2
      <3>4. Fn \notin Opens /\ Fn # "FCLOSE" /\ known[h] # NoFile
        BY <1>3, <2>3 DEF Opens, OnFile
      <3> QED
        BY <2>3, <3>3, <3>4 DEF p
    <2>4. CASE Fn \notin Opens \cup OnFile \/ (Fn \in Opens /\ result # "ok")
      <3>1. known' = known
        BY <1>1, <2>4 DEF Effect, Fn, Opens, OnFile
      <3> QED
        BY <1>4, <2>4, <3>1 DEF Opens, OnFile
    <2> QED
      BY <2>1, <2>2, <2>3, <2>4 DEF OnFile
  <1> HIDE DEF dark
  <1>6. /\ Fn \in Opens /\ result = "ok" =>
             /\ pulled' = IF call.cut THEN pulled \cup {call.handle} ELSE pulled \ {call.handle}
             /\ lost' = lost \ {call.handle}
        /\ ~(Fn \in Opens /\ result = "ok") => pulled' = pulled
    BY <1>1 DEF Effect, Fn, Opens
  <1>7. /\ Fn = "INIT" /\ result = "ok" => lost' = {}
        /\ Fn \in Opens /\ result = "line" => lost' = lost \cup ({call.handle} \cap Handles)
        /\ Fn = "FCLOSE" /\ result = "line" => lost' = lost \cup {h}
        /\ ~(Fn = "INIT" /\ result = "ok") /\ ~(Fn \in Opens /\ result = "ok") => lost \subseteq lost'
        /\ lost' \subseteq Handles /\ pulled' \subseteq Handles
    <2>1. lost' = IF Fn = "INIT" /\ result = "ok" THEN {}
                  ELSE IF Fn \in Opens /\ result = "ok" THEN lost \ {call.handle}
                  ELSE IF Fn \in Opens /\ dark THEN lost \cup ({call.handle} \cap Handles)
                  ELSE IF Fn = "FCLOSE" /\ dark THEN lost \cup {h}
                  ELSE lost
      BY <1>1 DEF Effect, Fn, dark
    <2>2. result = "line" => dark
      BY DEF dark
    <2>3. lost \subseteq Handles /\ pulled \subseteq Handles
      BY DEF PcLinkInv, OthersInv
    <2>4. Fn \in Opens /\ result = "ok" => call.handle \in Handles
      BY DEF EndFacts
    <2>5. pulled' \subseteq Handles
      BY <1>6, <2>3, <2>4
    <2>6. lost' \subseteq Handles
      BY <1>3, <2>1, <2>3
    <2> QED
      BY <2>1, <2>2, <2>5, <2>6 DEF Opens
  <1>8. ServerInv'
    BY DEF PcLinkInv, ServerInv
  <1>9. OthersInv'
    <2>1. knownCwd' \in [Units -> Int]
      BY <1>1, <1>3 DEF Effect, Fn, PcLinkInv, OthersInv, Unknown
    <2> QED
      BY <1>2, <1>5, <1>7, <2>1 DEF PcLinkInv, OthersInv
  <1>10. /\ PhaseInv' /\ OwnerInv' /\ PreparedInv' /\ DoneByPInv' /\ DoneByRInv' /\ OpenedInv'
         /\ HonestInv'
    BY <1>2 DEF PhaseInv, OwnerInv, PreparedInv, DoneByPInv, DoneByRInv, OpenedInv, HonestInv
  <1>11. StoredInv'
    <2> SUFFICES ASSUME NEW m \in Units
                 PROVE  LET p == server.parbuf[m]
                        IN  /\ p.fn # "INIT"
                            /\ p.fn # "CHDIR" => p.arg \in Nat
                            /\ p.fn = "FFIRST" => p.arg = DirMode
                            /\ server.err[m] = 3 => p.fn \in {"FREAD", "FNEXT", "FFIRST"}
                            /\ ~(p.fn = "FCLOSE" /\ known'[p.handle] # NoFile
                                   /\ known'[p.handle].unit = m)
                            /\ p.fn = "FSEEK" /\ server.err[m] \in {1, 3} /\ known'[p.handle] # NoFile
                                 /\ known'[p.handle].unit = m /\ p.handle \notin pulled'
                                 => server.io[p.handle].pos = p.arg
                            /\ p.fn \in {"FSEEK", "FCLOSE"} => p.handle \in Handles
      BY DEF StoredInv
    <2> DEFINE p == server.parbuf[m]
    <2>1. /\ p.fn # "INIT"
          /\ p.fn # "CHDIR" => p.arg \in Nat
          /\ p.fn = "FFIRST" => p.arg = DirMode
          /\ server.err[m] = 3 => p.fn \in {"FREAD", "FNEXT", "FFIRST"}
          /\ p.fn = "FCLOSE" /\ known[p.handle] # NoFile /\ known[p.handle].unit = m
               => Unit = m /\ Blk = p
          /\ p.fn = "FSEEK" /\ server.err[m] \in {1, 3} /\ known[p.handle] # NoFile
               /\ known[p.handle].unit = m /\ p.handle \notin pulled
               => server.io[p.handle].pos = p.arg
          /\ p.fn \in {"FSEEK", "FCLOSE"} => p.handle \in Handles
      BY DEF PcLinkInv, StoredInv
    <2>2. p.fn \in {"FSEEK", "FCLOSE"} /\ known'[p.handle] # NoFile /\ known'[p.handle].unit = m
            => known[p.handle] # NoFile /\ known[p.handle].unit = m
                 /\ (p.handle \in pulled => p.handle \in pulled')
      <3>1. CASE Fn \in Opens /\ result = "ok"
        <4>1. m = Unit => p.fn \notin {"FSEEK", "FCLOSE"}
          BY <3>1 DEF EndFacts, Par
        <4> QED
          BY <1>5, <1>6, <2>1, <3>1, <4>1
      <3>2. CASE ~(Fn \in Opens /\ result = "ok")
        BY <1>5, <1>6, <2>1, <3>2
      <3> QED
        BY <3>1, <3>2
    <2>3. p.fn = "FCLOSE" /\ Blk = p => known'[p.handle] = NoFile
      BY <1>5 DEF Fn
    <2> QED
      BY <2>1, <2>2, <2>3
  <1>12. FilesInv'
    <2>1. ASSUME NEW g \in Handles \ pulled', known'[g] # NoFile
          PROVE  /\ server.io[g].open /\ server.io[g].unit = known'[g].unit
                 /\ known'[g].pos \in {Unknown, server.io[g].pos}
      <3> DEFINE f == server.io[g]
                 k == known[g]
      <3>1. CASE Fn \in Opens /\ result = "ok" /\ g = call.handle
        BY <1>5, <1>6, <2>1, <3>1 DEF EndFacts
      <3>2. CASE ~(Fn \in Opens /\ result = "ok" /\ g = call.handle)
        <4>1. g \notin pulled /\ k # NoFile /\ known'[g].unit = k.unit /\ ~(Fn = "FCLOSE" /\ g = h)
          BY <1>5, <1>6, <2>1, <3>2
        <4>2. /\ f.open /\ f.unit = k.unit
              /\ ~WorksOn(g) => k.pos \in {Unknown, f.pos}
              /\ WorksOn(g) /\ k.pos # Unknown /\ Fn = "FTELL" => f.pos = k.pos
          BY <4>1 DEF PcLinkInv, FilesInv, WorksOn
        <4>3. CASE ~WorksOn(g)
          <5>1. known'[g] = known[g]
            BY <1>5, <3>2, <4>3 DEF WorksOn
          <5> QED
            BY <4>2, <4>3, <5>1
        <4>4. CASE WorksOn(g)
          <5>1. g = h /\ Fn \in OnFile \ {"FCLOSE"}
            BY <4>1, <4>4 DEF WorksOn
          <5>2. known'[h].pos =
                   IF dark \/ Fn = "FNEXT" THEN Unknown
                   ELSE IF Fn = "FSEEK" /\ result = "ok" THEN Blk.arg
                   ELSE IF Fn = "FTELL" /\ result = "ok" THEN call.size
                   ELSE IF Fn \in {"FREAD", "FWRITE"} /\ k.pos # Unknown THEN k.pos + n
                   ELSE k.pos
            BY <1>3, <1>4, <1>5, <5>1
          <5>3. ~dark => result # "line" /\ ~call.cut
            BY DEF dark
          <5>4. ~dark =>
                  /\ Fn = "FSEEK" => IF result = "ok" THEN f.pos = Blk.arg
                                                      ELSE k.pos \in {Unknown, f.pos}
                  /\ Fn \in {"FREAD", "FWRITE"} /\ k.pos # Unknown => f.pos = k.pos + n
                  /\ Fn = "FTELL" /\ result = "ok" => f.pos = call.size
            BY <4>1, <5>1, <5>3 DEF EndFacts
          <5>5. known'[g].pos \in {Unknown, f.pos}
            BY <4>2, <4>4, <5>1, <5>2, <5>4 DEF OnFile
          <5> QED
            BY <4>1, <4>2, <5>5
        <4> QED
          BY <4>3, <4>4
      <3> QED
        BY <3>1, <3>2
    <2> QED
      BY <1>2, <2>1 DEF FilesInv, WorksOn
  <1>13. CwdInv'
    <2> SUFFICES ASSUME NEW m \in Links
                 PROVE  knownCwd'[m] \in {Unknown, server.cwd[m]}
      BY <1>2 DEF CwdInv
    <2>0. m \in Units /\ knownCwd \in [Units -> Int]
      BY DEF Links, Units, PcLinkInv, OthersInv
    <2>1. CASE Fn = "CHDIR" /\ Unit = m
      <3>1. CASE call.cut \/ call.twin \/ result = "line"
        BY <1>1, <2>0, <2>1, <3>1 DEF Effect, Fn
      <3>2. CASE ~call.cut /\ ~call.twin /\ result # "line"
        <4>1. /\ result = "ok" => call.times = 1
              /\ result = "refused" => call.times = 0
          BY <2>1, <3>2 DEF EndFacts, Honest, Counted, AllOrNothing, Fn
        <4>2. knownCwd[m] # Unknown =>
                server.cwd[m] = knownCwd[m] + IF call.times = 0 THEN 0 ELSE Blk.arg
          BY <2>1, <3>2 DEF PcLinkInv, CwdInv
        <4>3. knownCwd' = IF result = "ok" /\ knownCwd[Unit] # Unknown
                          THEN [knownCwd EXCEPT ![Unit] = @ + Blk.arg] ELSE knownCwd
          BY <1>1, <2>1, <3>2 DEF Effect, Fn
        <4> QED
          BY <1>3, <2>0, <2>1, <3>2, <4>1, <4>2, <4>3
      <3> QED
        BY <3>1, <3>2
    <2>2. CASE ~(Fn = "CHDIR" /\ Unit = m)
      <3>1. knownCwd[m] \in {Unknown, server.cwd[m]}
        BY <2>2 DEF PcLinkInv, CwdInv
      <3>2. \/ knownCwd'[m] = knownCwd[m]
            \/ /\ Fn = "GETCWD" /\ result = "ok" /\ ~call.cut /\ Unit = m
               /\ knownCwd'[m] = call.size
        BY <1>1, <1>3, <2>0, <2>2 DEF Effect, Fn
      <3> QED
        BY <3>1, <3>2 DEF EndFacts
    <2> QED
      BY <2>1, <2>2
  <1>14. LeakInv'
    <2> SUFFICES ASSUME NEW g \in Handles, server.io[g].open
                 PROVE  known'[g] # NoFile \/ g \in lost'
      BY DEF LeakInv
    <2>1. known[g] # NoFile \/ g \in lost \/ call.handle = g
      BY DEF PcLinkInv, LeakInv
    <2>2. Fn # "INIT" \/ result # "ok"
      BY DEF EndFacts
    <2>3. CASE Fn \in Opens
      <3>1. CASE result = "ok"
        <4>1. known'[call.handle] # NoFile
          BY <1>3, <1>5, <2>3, <3>1 DEF NoFile, Opens
        <4>2. CASE g = call.handle
          BY <4>1, <4>2
        <4>3. CASE g # call.handle
          BY <1>5, <1>6, <2>1, <2>3, <3>1, <4>3
        <4> QED
          BY <4>2, <4>3
      <3>2. CASE result = "line"
        BY <1>5, <1>7, <2>1, <2>3, <3>2
      <3>3. CASE result = "refused"
        <4>1. call.handle # g
          BY <2>3, <3>3, PcLinkAssumption DEF EndFacts, NoHandle, Handles
        <4>2. lost \subseteq lost' /\ known' = known
          BY <1>5, <1>7, <2>3, <3>3 DEF Opens
        <4> QED
          BY <2>1, <4>1, <4>2
      <3> QED
        BY <3>1, <3>2, <3>3
    <2>4. CASE Fn \notin Opens
      <3>1. call.handle # g
        BY <2>4, PcLinkAssumption DEF PcLinkInv, OpenedInv, NoHandle, Handles
      <3>2. lost \subseteq lost'
        BY <1>7, <2>2, <2>4
      <3>3. CASE Fn = "FCLOSE" /\ g = h
        BY <1>7, <3>3 DEF EndFacts
      <3>4. CASE ~(Fn = "FCLOSE" /\ g = h)
        <4>1. known[g] # NoFile => known'[g] # NoFile
          <5>1. CASE Fn \in OnFile \ {"FCLOSE"} /\ g = h
            <6>1. known'[h].unit = Unit /\ Unit # 0
              BY <1>3, <1>4, <1>5, <5>1 DEF OnFile
            <6> QED
              BY <5>1, <6>1 DEF NoFile
          <5>2. CASE ~(Fn \in OnFile \ {"FCLOSE"} /\ g = h)
            BY <1>5, <2>4, <3>4, <5>2
          <5> QED
            BY <5>1, <5>2
        <4> QED
          BY <2>1, <3>1, <3>2, <4>1
      <3> QED
        BY <3>3, <3>4
    <2> QED
      BY <2>3, <2>4
  <1> QED
    BY <1>8, <1>9, <1>10, <1>11, <1>12, <1>13, <1>14 DEF PcLinkInv

LEMMA ResultFacts ==
  ASSUME NEW e
  PROVE  /\ Result(e) \in {"ok", "line", "refused"}
         /\ Result(e) = "ok" <=> e \in {1, 3}
         /\ Result(e) = "line" <=> e = 143
  BY DEF Result

LEMMA EndLine ==
  ASSUME NEW n
  PROVE  EndFacts("line", n)
  BY DEF EndFacts, Honest

(* After 'P': a function carried out by it, or one that was refused.        *)
LEMMA EndAfterP ==
  ASSUME PcLinkInv, Busy, call.stage = "S1", Err # 1 \/ Fn \in ByP
  PROVE  EndFacts(Result(Err), 0)
  <1> DEFINE res == Result(Err)
  <1>1. Heard /\ ToDo /\ ~Got /\ Err # 3
    BY DEF Heard, ToDo, Got, PcLinkInv, PreparedInv, DoneByPInv
  <1>2. /\ res = "ok" <=> Err = 1
        /\ res = "line" <=> Err = 143
        /\ res = "refused" => Err \notin {1, 3, 143}
    BY <1>1, ResultFacts
  <1> HIDE DEF res
  <1>3. CASE Fn \notin ByP
    <2>1. /\ call.times = 0 /\ call.handle = NoHandle /\ res # "ok"
          /\ Fn \notin {"FSEEK", "FCLOSE", "INIT"}
      BY <1>1, <1>2, <1>3 DEF PcLinkInv, PreparedInv, ByP
    <2>2. Honest(res)
      BY <2>1 DEF Honest, Blk, Fn
    <2>3. Fn \in {"FREAD", "FWRITE"} /\ known[Blk.handle].pos # Unknown /\ Blk.handle \notin pulled
            => server.io[Blk.handle].pos = known[Blk.handle].pos + 0
      BY <2>1, BusyFacts DEF PcLinkInv, FilesInv, WorksOn, OwnerInv, OnFile
    <2> QED
      BY <2>1, <2>2, <2>3 DEF EndFacts, res
  <1>4. CASE Fn \in ByP
    <2>1. /\ Fn \notin Opens /\ Fn \notin {"FREAD", "FWRITE", "FTELL", "GETCWD"}
      BY <1>4 DEF ByP, Opens
    <2>2. ~call.cut /\ ~call.twin /\ Fn # "INIT" /\ res # "line" =>
            /\ res = "ok" => call.times = 1
            /\ res = "refused" /\ Fn # "REMOVE" => call.times = 0
      BY <1>1, <1>2, <1>4 DEF PcLinkInv, DoneByPInv, Refusal
    <2>3. Honest(res)
      BY <2>2 DEF Honest, Counted, AllOrNothing, Fn
    <2>4. /\ Fn = "FCLOSE" /\ res # "line" => ~server.io[Blk.handle].open
          /\ Fn = "INIT" /\ res # "line" => \A h \in Handles : ~server.io[h].open
      BY <1>1, <1>2, <1>4 DEF PcLinkInv, DoneByPInv
    <2>5. ASSUME Fn = "FSEEK", res # "line", ~call.cut, Blk.handle \notin pulled
          PROVE  IF res = "ok" THEN server.io[Blk.handle].pos = Blk.arg
                 ELSE known[Blk.handle].pos \in {Unknown, server.io[Blk.handle].pos}
      <3>1. Par = Blk /\ (res = "refused" => call.times = 0)
        BY <1>1, <1>2, <1>4, <2>5 DEF PcLinkInv, DoneByPInv
      <3>2. /\ Blk.handle \in Handles /\ known[Blk.handle] # NoFile
            /\ known[Blk.handle].unit = Unit /\ Unit \in Units
        BY <2>5, BusyFacts DEF PcLinkInv, OwnerInv, OnFile
      <3>3. CASE res = "ok"
        BY <1>2, <2>5, <3>1, <3>2, <3>3 DEF PcLinkInv, StoredInv, Par, Err, Fn
      <3>4. CASE res # "ok"
        <4>1. res = "refused"
          BY <2>5, <3>4, ResultFacts DEF res
        <4> QED
          BY <2>5, <3>1, <3>2, <3>4, <4>1 DEF PcLinkInv, FilesInv, WorksOn, OnFile
      <3> QED
        BY <3>3, <3>4
    <2> QED
      BY <2>1, <2>3, <2>4, <2>5 DEF EndFacts, res
  <1> QED
    BY <1>3, <1>4

(* After 'R'.                                                               *)
LEMMA EndAfterR ==
  ASSUME PcLinkInv, Busy, call.stage = "S2"
  PROVE  EndFacts(Result(Err), call.size)
  <1> DEFINE res == Result(Err)
  <1>1. Got /\ Answer = call.size /\ Fn \notin ByP /\ Fn # "FNEXT" /\ (Matches \/ Zeroed)
    BY DEF Got, Answer, PcLinkInv, PhaseInv, PreparedInv, DoneByRInv
  <1>2. /\ res = "ok" <=> Err \in {1, 3}
        /\ res = "line" <=> Err = 143
        /\ res = "refused" => Err \notin {1, 3, 143}
        /\ res \in {"ok", "line", "refused"}
    BY ResultFacts
  <1> HIDE DEF res
  <1>3. /\ res = "ok" /\ Fn \notin {"FTELL", "GETCWD"} =>
             call.times = 1 /\ (Fn \in Opens => call.handle \in Handles)
        /\ res = "refused" /\ Fn \in Opens => call.times = 0 /\ call.handle = NoHandle
        /\ res # "line" /\ Fn \in {"FREAD", "FWRITE"} => call.times = 1
    BY <1>1, <1>2 DEF PcLinkInv, DoneByRInv
  <1>4. Honest(res)
    BY <1>1, <1>3 DEF Honest, Counted, AllOrNothing, Fn, Opens, ByP
  <1>5. ASSUME Fn \in Opens, res = "ok"
        PROVE  /\ call.handle \in Handles /\ Par.fn \notin {"FCLOSE", "FSEEK"}
               /\ ~call.cut =>
                    LET f == server.io[call.handle]
                    IN  /\ f.open /\ f.unit = Unit
                        /\ f.pos = IF Fn = "FFIRST" THEN 1
                                   ELSE IF Blk.arg = 9 THEN call.size ELSE 0
    <2>1. call.handle \in Handles /\ call.handle # NoHandle
      BY <1>3, <1>5, PcLinkAssumption DEF Opens, Handles, NoHandle
    <2>2. Par.fn \notin {"FCLOSE", "FSEEK"}
      BY <1>1, <1>5 DEF Matches, Zeroed, ZeroBlock, Block, Opens
    <2> QED
      BY <1>1, <1>5, <2>1, <2>2 DEF PcLinkInv, OpenedInv, Opens
  <1>6. ASSUME res # "line", ~call.cut, Blk.handle \notin pulled, Fn \in OnFile
        PROVE  LET f == server.io[Blk.handle]
                   k == known[Blk.handle]
               IN  /\ Fn \in {"FREAD", "FWRITE"} /\ k.pos # Unknown => f.pos = k.pos + call.size
                   /\ Fn = "FTELL" /\ res = "ok" => f.pos = call.size
    <2>1. /\ Blk.handle \in Handles /\ known[Blk.handle] # NoFile
          /\ WorksOn(Blk.handle)
      BY <1>6, BusyFacts DEF PcLinkInv, OwnerInv, WorksOn
    <2> QED
      BY <1>1, <1>3, <1>6, <2>1 DEF PcLinkInv, FilesInv
  <1>7. Fn = "GETCWD" /\ ~call.cut => call.size = server.cwd[Unit]
    <2>1. Fn = "GETCWD" => Unit \in Links
      BY BusyFacts DEF PcLinkInv, PhaseInv, Units, Links
    <2> QED
      BY <1>1, <2>1 DEF PcLinkInv, CwdInv
  <1>8. EndFacts(res, call.size)
    BY <1>1, <1>3, <1>4, <1>5, <1>6, <1>7 DEF EndFacts, ByP, OnFile
  <1> QED
    BY <1>8 DEF res

(* The answer to FNEXT brings its status with it.                           *)
LEMMA EndWithAnswer ==
  ASSUME PcLinkInv, Busy, call.stage = "R", line.at = "reply", Expected, Fn = "FNEXT"
  PROVE  EndFacts(Result(line.val), 0)
  <1>1. Result(line.val) = "ok" => call.times = 1
    BY ResultFacts DEF PcLinkInv, DoneByRInv, Got, ByP
  <1>2. Honest(Result(line.val))
    BY <1>1 DEF Honest, AllOrNothing, Fn
  <1> QED
    BY <1>2 DEF EndFacts, Opens

LEMMA ReceiveKeeps ==
  ASSUME PcLinkInv, Receive
  PROVE  PcLinkInv'
  <1>1. /\ Busy /\ line.at = "reply" /\ Expected /\ UNCHANGED <<server, installed, gui>>
        /\ call.stage \in {"P", "R"} /\ call.size \in Nat /\ line.val \in Nat
        /\ 0 \in 0..MaxTries - 1
    BY PcLinkAssumption DEF Receive, PcLinkInv, PhaseInv, OthersInv, CallType, LineType
  <1>2. CASE call.stage = "P"
    <2>1. GoesOn("S1", call.size)
      BY <1>2 DEF Receive
    <2> QED
      BY <1>1, <1>2, <2>1, DriverKeeps DEF GoesOn
  <1>3. CASE call.stage = "R" /\ Fn = "FNEXT"
    <2>1. End(Result(line.val), 0)
      BY <1>3 DEF Receive, Fn
    <2> QED
      BY <1>1, <1>3, <2>1, EndKeeps, EndWithAnswer, ResultFacts
  <1>4. CASE call.stage = "R" /\ Fn # "FNEXT"
    <2> DEFINE z == IF Fn \in {"FREAD", "FWRITE"} THEN call.size ELSE line.val
    <2>1. GoesOn("S2", z) /\ z \in Nat
      BY <1>1, <1>4 DEF Receive, Fn
    <2>2. /\ Fn \in {"FREAD", "FWRITE"} => z = call.size
          /\ Fn \notin {"FREAD", "FWRITE"} => z = line.val
      OBVIOUS
    <2> HIDE DEF z
    <2> QED
      BY <1>1, <1>4, <2>1, <2>2, DriverKeeps DEF GoesOn
  <1> QED
    BY <1>1, <1>2, <1>3, <1>4

LEMMA StatusKeeps ==
  ASSUME PcLinkInv, Status
  PROVE  PcLinkInv'
  <1>1. /\ Busy /\ line.at = "command" /\ UNCHANGED <<server, installed, gui>>
        /\ call.size \in Nat /\ 0 \in 0..MaxTries - 1
    BY PcLinkAssumption DEF Status, PcLinkInv, PhaseInv, OthersInv, CallType
  <1>2. CASE Takes("S1") /\ (Err # 1 \/ Fn \in ByP) /\ End(Result(Err), 0)
    <2>1. EndFacts(Result(Err), 0)
      BY <1>1, <1>2, EndAfterP DEF Takes
    <2> QED
      BY <1>1, <1>2, <2>1, EndKeeps, ResultFacts
  <1>3. CASE Takes("S1") /\ Err = 1 /\ Fn \notin ByP /\ GoesOn("R", call.size)
    BY <1>1, <1>3, DriverKeeps DEF GoesOn, Takes
  <1>4. CASE Takes("S2") /\ End(Result(Err), call.size)
    <2>1. EndFacts(Result(Err), call.size)
      BY <1>1, <1>4, EndAfterR DEF Takes
    <2> QED
      BY <1>1, <1>4, <2>1, EndKeeps, ResultFacts
  <1>5. CASE End("line", 0)
    BY <1>1, <1>5, EndKeeps, EndLine
  <1> QED
    BY <1>2, <1>3, <1>4, <1>5 DEF Status, Err, Fn

LEMMA FailKeeps ==
  ASSUME PcLinkInv, Fail
  PROVE  PcLinkInv'
  <1>1. /\ Busy /\ UNCHANGED <<server, installed, gui>> /\ call.stage \in {"P", "R"}
        /\ call.size \in Nat /\ call.tries \in 0..MaxTries - 1
    BY DEF Fail, PcLinkInv, PhaseInv, OthersInv, CallType
  <1>2. CASE call.tries + 1 < MaxTries
    <2>1. /\ call' = [call EXCEPT !.tries = @ + 1]
          /\ line' = [Quiet EXCEPT !.at = "command"] /\ UNCHANGED programs
      BY <1>2 DEF Fail
    <2>2. call' = [call EXCEPT !.stage = call.stage, !.size = call.size, !.tries = call.tries + 1]
      BY <2>1 DEF PcLinkInv, OthersInv, CallType
    <2>3. call.tries + 1 \in 0..MaxTries - 1
      BY <1>1, <1>2, PcLinkAssumption
    <2> QED
      BY <1>1, <2>1, <2>2, <2>3, DriverKeeps
  <1>3. CASE ~(call.tries + 1 < MaxTries)
    BY <1>1, <1>3, EndKeeps, EndLine DEF Fail
  <1> QED
    BY <1>2, <1>3

-----------------------------------------------------------------------------
LEMMA NextInv ==
  ASSUME PcLinkInv, [Next]_vars
  PROVE  PcLinkInv'
  <1>1. CASE UNCHANGED vars
    <2>1. OthersInv'
      BY <1>1 DEF vars, programs, PcLinkInv, OthersInv
    <2> QED
      BY <1>1, <2>1, GuiFrame DEF vars
  <1>2. CASE Handle
    BY <1>2, HandlePKeeps, HandleRKeeps DEF Handle
  <1>3. CASE GuiNext
    BY <1>3, GuiUninstallKeeps, GuiChangeKeeps, GuiInstallKeeps DEF GuiNext
  <1>4. CASE AtariNext
    BY <1>4, CallKeeps, ReceiveKeeps, StatusKeeps, FailKeeps DEF AtariNext
  <1> QED
    BY <1>1, <1>2, <1>3, <1>4 DEF Next

(* At every moment the whole of PcLinkInv holds: what the server keeps, what *)
(* the programs believe, and how far the call at hand has come agree.        *)
THEOREM PcLinkInvariant == Spec => []PcLinkInv
  BY InitInv, NextInv, PTL DEF Spec

-----------------------------------------------------------------------------
(* What the programs have from FFIRST is a directory, unless a change of    *)
(* links has closed it.                                                     *)
DirsInv ==
  /\ knownDirs \subseteq Handles
  /\ Busy /\ Fn = "FNEXT" => Blk.handle \in knownDirs
  /\ \A h \in Handles \ pulled :
       known[h] # NoFile /\ server.io[h].open => (server.io[h].dir <=> h \in knownDirs)
  /\ Busy /\ call.handle \in Handles /\ ~call.cut /\ server.io[call.handle].open =>
       (server.io[call.handle].dir <=> Fn = "FFIRST")

(* A file stays what it is until it is closed.                              *)
SameKind(h) == server'.io[h].open => server.io[h].open /\ server'.io[h].dir = server.io[h].dir

LEMMA HandlePKinds ==
  ASSUME PcLinkInv, HandleP, NEW h \in Handles
  PROVE  SameKind(h)
  <1>1. /\ server \in ServerType /\ server.io \in [Handles -> FileType]
    BY DEF PcLinkInv, ServerInv, ServerType
  <1>2. CASE PGarbled \/ PIgnored
    BY <1>1, <1>2 DEF PGarbled, PIgnored, WithErr, ServerType, SameKind
  <1>3. CASE PBadHandle \/ PWrite \/ PRemove \/ PMkdir
    BY <1>1, <1>3
    DEF PBadHandle, PWrite, PRemove, PMkdir, Answered, Stored, WithErr, ServerType, SameKind
  <1>4. CASE PPrepare \/ PChdir
    BY <1>1, <1>4
    DEF PPrepare, PChdir, Answered, Stored, WithErr, ServerType, SameKind
  <1>5. CASE PRead
    <2> DEFINE f     == IO(Blk.handle)
               rest  == f.size - f.pos
               short == 0 <= rest /\ rest < Blk.arg
               n     == IF short THEN rest ELSE Blk.arg
               e     == IF n = 0 THEN 136 ELSE 1
    <2>1. server' = [WithErr(Stored, e) EXCEPT !.io[Blk.handle].eof = short, !.parbuf[Unit].arg = n]
      BY <1>5 DEF PRead, Answered
    <2> HIDE DEF e, n, short
    <2>2. server'.io = [server.io EXCEPT ![Blk.handle].eof = short]
      BY <2>1 DEF Stored, WithErr
    <2> QED
      BY <1>1, <2>2 DEF FileType, SameKind
  <1>6. CASE PSeek
    <2>1. CASE server' = [WithErr(Stored, 1) EXCEPT !.io[Blk.handle].pos = Blk.arg]
      <3>1. server'.io = [server.io EXCEPT ![Blk.handle].pos = Blk.arg]
        BY <1>1, <2>1 DEF Stored, WithErr, ServerType
      <3> QED
        BY <1>1, <3>1 DEF FileType, SameKind
    <2>2. CASE server' = WithErr(Stored, Refusal)
      <3>1. server'.io = server.io
        BY <1>1, <2>2 DEF Stored, WithErr, ServerType
      <3> QED
        BY <3>1 DEF SameKind
    <2> QED
      BY <1>6, <2>1, <2>2 DEF PSeek, Answered
  <1>7. CASE PClose
    <2>1. server' = [WithErr(Stored, 1) EXCEPT !.io[Blk.handle] = ClosedFile(@)]
      BY <1>7 DEF PClose, Answered
    <2>2. server'.io = [server.io EXCEPT ![Blk.handle] = Closed]
      BY <1>1, <2>1 DEF Stored, WithErr, ServerType, ClosedFile
    <2>3. (server'.io[h] = server.io[h] \/ server'.io[h] = Closed) /\ ~Closed.open
      BY <1>1, <2>2 DEF Closed
    <2> QED
      BY <2>3 DEF SameKind
  <1>8. CASE PInit
    <2>1. server'.io = [g \in Handles |-> Closed]
      BY <1>1, <1>8 DEF PInit, Answered, Stored, WithErr, ServerType
    <2> QED
      BY <2>1 DEF Closed, SameKind
  <1> QED
    BY <1>2, <1>3, <1>4, <1>5, <1>6, <1>7, <1>8 DEF HandleP

LEMMA HandleRKinds ==
  ASSUME PcLinkInv, HandleR, ~ROpen, NEW h \in Handles
  PROVE  SameKind(h)
  <1>1. server \in ServerType /\ server.io \in [Handles -> FileType]
    BY DEF PcLinkInv, ServerInv, ServerType
  <1>2. CASE RRefused \/ RNullFile \/ RTell \/ RGetcwd
    BY <1>1, <1>2
    DEF RRefused, RNullFile, RTell, RGetcwd, Executed, WithErr, ServerType, SameKind
  <1>3. ASSUME NEW pos, NEW e, server' = WithErr([Executed EXCEPT !.io[Par.handle].pos = pos], e)
        PROVE  SameKind(h)
    <2>1. server'.io = [server.io EXCEPT ![Par.handle].pos = pos]
      BY <1>3 DEF Executed, WithErr
    <2> QED
      BY <1>1, <2>1 DEF FileType, SameKind
  <1>4. ASSUME NEW got, NEW e, server' = WithErr(Moved(Executed, Par.handle, got), e)
        PROVE  SameKind(h)
    <2>1. server'.io = [server.io EXCEPT ![Par.handle].pos = @ + got]
      BY <1>4 DEF Executed, Moved, WithErr
    <2> QED
      BY <1>1, <2>1 DEF FileType, SameKind
  <1>5. ASSUME NEW e, server' = WithErr(Executed, e)
        PROVE  SameKind(h)
    BY <1>1, <1>5 DEF Executed, WithErr, ServerType, SameKind
  <1>6. CASE RRead
    <2>1. PICK got, e : server' = WithErr(Moved(Executed, Par.handle, got), e)
      BY <1>6 DEF RRead
    <2> QED
      BY <1>4, <2>1
  <1>7. CASE RWrite
    <2>1. \/ \E got, e : server' = WithErr(Moved(Executed, Par.handle, got), e)
          \/ server' = WithErr(Executed, 143)
      BY <1>7 DEF RWrite
    <2> QED
      BY <1>4, <1>5, <2>1
  <1>8. CASE RNext
    <2>1. \/ \E pos, e : server' = WithErr([Executed EXCEPT !.io[Par.handle].pos = pos], e)
          \/ server' = WithErr(Executed, Refusal)
      BY <1>8 DEF RNext
    <2> QED
      BY <1>3, <1>5, <2>1
  <1> QED
    BY <1>2, <1>6, <1>7, <1>8 DEF HandleR

LEMMA ROpenKinds ==
  ASSUME PcLinkInv, ROpen
  PROVE  \/ (\A h \in Handles : SameKind(h)) /\ UNCHANGED call
         \/ \E g \in Handles :
              /\ ~server.io[g].open /\ call'.handle = g
              /\ server'.io[g].dir <=> Par.fn = "FFIRST"
              /\ \A h \in Handles : h # g => SameKind(h)
  <1>1. server \in ServerType /\ server.io \in [Handles -> FileType] /\ call \in CallType
    BY DEF PcLinkInv, ServerInv, ServerType, OthersInv
  <1>2. CASE server' = WithErr(Executed, Refusal) /\ UNCHANGED call
    BY <1>1, <1>2 DEF Executed, WithErr, ServerType, SameKind
  <1>3. CASE ~(server' = WithErr(Executed, Refusal) /\ UNCHANGED call)
    <2>1. PICK g \in Handles, n \in 0..MaxLen :
            /\ FirstFree(g)
            /\ LET dir  == Par.fn = "FFIRST"
                   mode == IF dir THEN 4 ELSE Par.arg
                   size == IF dir THEN n + 1 ELSE IF mode = 8 THEN 0 ELSE n
                   pos  == IF dir THEN 1 ELSE IF mode = 9 THEN size ELSE 0
                   f    == [open |-> TRUE, unit |-> Unit, mode |-> mode, dir |-> dir,
                            size |-> size, pos |-> pos, eof |-> FALSE]
               IN  /\ server' = [WithErr(WithFile(Executed, g, f),
                                         IF dir /\ n = 0 THEN 3 ELSE server.err[Unit])
                                   EXCEPT !.parbuf[Unit].handle = g]
                   /\ call' = [call EXCEPT !.times = @ + 1, !.handle = g]
      BY <1>3 DEF ROpen
    <2> DEFINE dir  == Par.fn = "FFIRST"
               mode == IF dir THEN 4 ELSE Par.arg
               size == IF dir THEN n + 1 ELSE IF mode = 8 THEN 0 ELSE n
               pos  == IF dir THEN 1 ELSE IF mode = 9 THEN size ELSE 0
               f    == [open |-> TRUE, unit |-> Unit, mode |-> mode, dir |-> dir,
                        size |-> size, pos |-> pos, eof |-> FALSE]
               e    == IF dir /\ n = 0 THEN 3 ELSE server.err[Unit]
    <2>2. /\ server' = [WithErr(WithFile(Executed, g, f), e) EXCEPT !.parbuf[Unit].handle = g]
          /\ call'.handle = g
      BY <1>1, <2>1 DEF CallType
    <2>3. f.dir <=> Par.fn = "FFIRST"
      OBVIOUS
    <2> HIDE DEF f, e
    <2>4. server'.io = [server.io EXCEPT ![g] = f]
      BY <2>2 DEF Executed, WithErr, WithFile
    <2>5. ~server.io[g].open
      BY <2>1 DEF FirstFree, IO
    <2>6. server'.io[g] = f /\ \A h \in Handles : h # g => server'.io[h] = server.io[h]
      BY <1>1, <2>4
    <2>7. \A h \in Handles : h # g => SameKind(h)
      BY <2>6 DEF SameKind
    <2> QED
      BY <2>2, <2>3, <2>5, <2>6, <2>7
  <1> QED
    BY <1>2, <1>3

(* What a command leaves alone.                                             *)
LEMMA HandleFrame ==
  ASSUME PcLinkInv, Handle
  PROVE  /\ UNCHANGED <<known, knownDirs, pulled>>
         /\ Busy' = Busy /\ Blk' = Blk /\ Fn' = Fn /\ call'.cut = call.cut
         /\ ROpen \/ call'.handle = call.handle
  <1>1. call \in CallType
    BY DEF PcLinkInv, OthersInv
  <1>2. UNCHANGED <<known, knownDirs, pulled>>
    BY DEF Handle, HandleP, HandleR, PGarbled, PIgnored, PBadHandle, PRead, PWrite, PPrepare,
      PSeek, PClose, PInit, PRemove, PMkdir, PChdir, Answered, RRefused, RNullFile, RRead,
      RWrite, RTell, RGetcwd, RNext, ROpen, ServerOnly, programs
  <1>3. \/ UNCHANGED call
        \/ Counts
        \/ \E n : Tells(n) \/ CountsTelling(n)
        \/ ROpen
    BY DEF Handle, HandleP, HandleR, PGarbled, PIgnored, PBadHandle, PRead, PWrite, PPrepare,
      PSeek, PClose, PInit, PRemove, PMkdir, PChdir, Answered, RRefused, RNullFile, RRead,
      RWrite, RTell, RGetcwd, RNext
  <1>4. ROpen => \/ UNCHANGED call
                 \/ \E h : call' = [call EXCEPT !.times = @ + 1, !.handle = h]
    BY DEF ROpen
  <1>5. /\ call'.pc = call.pc /\ call'.block = call.block /\ call'.cut = call.cut
        /\ ROpen \/ call'.handle = call.handle
    BY <1>1, <1>3, <1>4 DEF CallType, Counts, Tells, CountsTelling
  <1> QED
    BY <1>2, <1>5 DEF Busy, Blk, Fn

LEMMA HandleKeepsDirs ==
  ASSUME PcLinkInv, DirsInv, Handle
  PROVE  DirsInv'
  <1>1. /\ UNCHANGED <<known, knownDirs, pulled>>
        /\ Busy' = Busy /\ Blk' = Blk /\ Fn' = Fn /\ call'.cut = call.cut
        /\ ROpen \/ call'.handle = call.handle
    BY HandleFrame
  <1>2. CASE (\A h \in Handles : SameKind(h)) /\ call'.handle = call.handle
    BY <1>1, <1>2 DEF DirsInv, SameKind
  <1>3. ASSUME ROpen, NEW g \in Handles, ~server.io[g].open, call'.handle = g,
               server'.io[g].dir <=> Par.fn = "FFIRST",
               \A h \in Handles : h # g => SameKind(h)
        PROVE  DirsInv'
    <2>1. Takes("R") /\ ~SecondR /\ Par.fn \in Opens
      BY <1>3 DEF ROpen, RBlock, Opens
    <2>2. Busy /\ Matches /\ Fn = Par.fn
      BY <2>1, RFacts DEF Matches, Opens
    <2>3. known[g] # NoFile => g \in pulled
      BY <1>3, <2>1, <2>2 DEF PcLinkInv, FilesInv, Opens
    <2> QED
      BY <1>1, <1>3, <2>2, <2>3 DEF DirsInv, SameKind
  <1>4. CASE HandleP
    <2>1. ~ROpen
      BY <1>4, TakesBusy DEF HandleP, PGarbled, PIgnored, PBadHandle, PRead, PWrite, PPrepare,
        PSeek, PClose, PInit, PRemove, PMkdir, PChdir, PBlock, ROpen, RBlock, Takes
    <2> QED
      BY <1>1, <1>2, <1>4, <2>1, HandlePKinds
  <1>5. CASE HandleR /\ ~ROpen
    BY <1>1, <1>2, <1>5, HandleRKinds
  <1>6. CASE ROpen
    BY <1>2, <1>3, <1>6, ROpenKinds
  <1> QED
    BY <1>4, <1>5, <1>6 DEF Handle

LEMMA GuiKeepsDirs ==
  ASSUME PcLinkInv, DirsInv, GuiNext
  PROVE  DirsInv'
  <1>1. CASE GuiUninstall \/ GuiInstall
    <2>1. UNCHANGED <<server, call, known, knownDirs, pulled>>
      BY <1>1 DEF GuiUninstall, GuiStart, GuiInstall, programs
    <2> QED
      BY <2>1 DEF DirsInv, Busy, Blk, Fn
  <1>2. CASE GuiChange
    <2> DEFINE T == {gui.from, gui.to}
    <2>1. \A h \in Handles : server'.io[h] = server.io[h] \/ (h \in T /\ server'.io[h] = Closed)
      BY <1>2, ChangeForgets DEF Forgets
    <2>2. /\ call' = [call EXCEPT !.cut = @ \/ (Busy /\ {Unit, Blk.handle, call.handle} \cap T # {})]
          /\ pulled' = pulled \cup {h \in T : known[h] # NoFile}
          /\ UNCHANGED <<known, knownDirs>>
      BY <1>2 DEF GuiChange, Busy
    <2> HIDE DEF T
    <2>3. /\ Busy' = Busy /\ Blk' = Blk /\ Fn' = Fn /\ call'.handle = call.handle
          /\ ~call'.cut => ~call.cut
      BY <2>2 DEF CallType, PcLinkInv, OthersInv, Busy, Blk, Fn
    <2>4. \A h \in Handles : server'.io[h].open =>
            server.io[h].open /\ server'.io[h].dir = server.io[h].dir
      BY <2>1 DEF Closed
    <2> QED
      BY <2>2, <2>3, <2>4 DEF DirsInv
  <1> QED
    BY <1>1, <1>2 DEF GuiNext

LEMMA DriverKeepsDirs ==
  ASSUME PcLinkInv, DirsInv, Busy, UNCHANGED <<server, programs>>,
         NEW s, NEW z, NEW k, call' = [call EXCEPT !.stage = s, !.size = z, !.tries = k]
  PROVE  DirsInv'
  <1>1. UNCHANGED <<server, known, knownDirs, pulled>>
    BY DEF programs
  <1>2. Busy' /\ Blk' = Blk /\ Fn' = Fn /\ call'.handle = call.handle /\ call'.cut = call.cut
    BY DEF CallType, PcLinkInv, OthersInv, Busy, Blk, Fn
  <1> QED
    BY <1>1, <1>2 DEF DirsInv

LEMMA EndKeepsDirs ==
  ASSUME PcLinkInv, DirsInv, Busy, UNCHANGED server, NEW result, NEW n,
         EndFacts(result, n), End(result, n)
  PROVE  DirsInv'
  <1>1. ~Busy'
    BY DEF End, NoCall, Busy
  <1>2. /\ known \in [Handles -> [unit : Units, pos : Nat \cup {Unknown}]]
        /\ Blk.handle \in Handles
        /\ Fn \in OnFile => known[Blk.handle] # NoFile
    BY BusyFacts DEF PcLinkInv, OthersInv, OwnerInv
  <1>3. Effect(result, n) /\ Blk.fn = Fn
    BY DEF End, Fn
  <1>4. CASE Fn \in Opens /\ result = "ok"
    <2> DEFINE c == call.handle
    <2>1. c \in Handles
      BY <1>4 DEF EndFacts
    <2>2. /\ \A g \in Handles : g # c => known'[g] = known[g]
          /\ pulled' = IF call.cut THEN pulled \cup {c} ELSE pulled \ {c}
      BY <1>2, <1>3, <1>4, <2>1 DEF Effect
    <2>3. knownDirs' = IF Fn = "FFIRST" THEN knownDirs \cup {c} ELSE knownDirs \ {c}
      BY <1>3, <1>4 DEF Effect, Opens
    <2>4. ASSUME NEW g \in Handles \ pulled', known'[g] # NoFile, server.io[g].open
          PROVE  server.io[g].dir <=> g \in knownDirs'
      <3>1. CASE g = c
        <4>1. ~call.cut
          BY <2>2, <2>4, <3>1
        <4> QED
          BY <2>1, <2>3, <2>4, <3>1, <4>1 DEF DirsInv
      <3>2. CASE g # c
        <4>1. g \notin pulled /\ known[g] # NoFile /\ (g \in knownDirs' <=> g \in knownDirs)
          BY <2>2, <2>3, <2>4, <3>2
        <4> QED
          BY <2>4, <4>1 DEF DirsInv
      <3> QED
        BY <3>1, <3>2
    <2> QED
      BY <1>1, <2>1, <2>3, <2>4 DEF DirsInv
  <1>5. CASE ~(Fn \in Opens /\ result = "ok")
    <2>1. pulled' = pulled
      BY <1>3, <1>5 DEF Effect
    <2>2. knownDirs' = IF Fn = "FCLOSE" THEN knownDirs \ {Blk.handle} ELSE knownDirs
      BY <1>3, <1>5 DEF Effect, Opens
    <2>3. \A g \in Handles : known'[g] # NoFile =>
            known[g] # NoFile /\ ~(Fn = "FCLOSE" /\ g = Blk.handle)
      <3>1. CASE Fn = "FCLOSE"
        <4>1. known' = [known EXCEPT ![Blk.handle] = NoFile]
          BY <1>3, <1>5, <3>1 DEF Effect, Opens
        <4> QED
          BY <1>2, <4>1
      <3>2. CASE Fn # "FCLOSE"
        <4>1. \/ known' = known
              \/ Fn \in OnFile /\ \E p : known' = [known EXCEPT ![Blk.handle].pos = p]
          BY <1>3, <1>5, <3>2 DEF Effect, Opens
        <4> QED
          BY <1>2, <3>2, <4>1
      <3> QED
        BY <3>1, <3>2
    <2> QED
      BY <1>1, <2>1, <2>2, <2>3 DEF DirsInv
  <1> QED
    BY <1>4, <1>5

LEMMA AtariKeepsDirs ==
  ASSUME PcLinkInv, DirsInv, AtariNext
  PROVE  DirsInv'
  <1>1. CASE Call
    <2>1. PICK m \in Units, c \in Blocks :
            /\ Sensible(m, c)
            /\ call' = [NoCall EXCEPT !.pc = "busy", !.unit = m, !.block = c,
                                      !.handle = NoHandle, !.twin = (c = server.parbuf[m])]
            /\ IF c.fn = "INIT"
               THEN known' = [h \in Handles |-> NoFile] /\ knownDirs' = {} /\ pulled' = {}
               ELSE UNCHANGED <<known, knownDirs, pulled>>
      BY <1>1 DEF Call
    <2>2. call'.block = c /\ call'.handle = NoHandle /\ UNCHANGED server
      BY <1>1, <2>1 DEF Call, NoCall
    <2>3. NoHandle \notin Handles
      BY PcLinkAssumption DEF NoHandle, Handles
    <2>4. Fn' = "FNEXT" => Blk'.handle \in knownDirs'
      BY <2>1, <2>2 DEF Sensible, Fn, Blk
    <2> QED
      BY <2>1, <2>2, <2>3, <2>4 DEF DirsInv
  <1>2. CASE Receive
    <2>1. /\ Busy /\ line.at = "reply" /\ Expected /\ UNCHANGED server
          /\ call.stage \in {"P", "R"}
      BY <1>2 DEF Receive, PcLinkInv, PhaseInv, OthersInv, CallType
    <2>2. CASE call.stage = "R" /\ Fn = "FNEXT"
      <3>1. End(Result(line.val), 0)
        BY <1>2, <2>2 DEF Receive, Fn
      <3> QED
        BY <2>1, <2>2, <3>1, EndKeepsDirs, EndWithAnswer
    <2>3. CASE ~(call.stage = "R" /\ Fn = "FNEXT")
      <3>1. PICK s, z : GoesOn(s, z)
        BY <1>2, <2>1, <2>3 DEF Receive, Fn
      <3> QED
        BY <2>1, <3>1, DriverKeepsDirs DEF GoesOn
    <2> QED
      BY <2>2, <2>3
  <1>3. CASE Status
    <2>1. Busy /\ UNCHANGED server
      BY <1>3 DEF Status, PcLinkInv, PhaseInv
    <2>2. CASE Takes("S1") /\ (Err # 1 \/ Fn \in ByP) /\ End(Result(Err), 0)
      <3>1. EndFacts(Result(Err), 0)
        BY <2>1, <2>2, EndAfterP DEF Takes
      <3> QED
        BY <2>1, <2>2, <3>1, EndKeepsDirs
    <2>3. CASE GoesOn("R", call.size)
      BY <2>1, <2>3, DriverKeepsDirs DEF GoesOn
    <2>4. CASE Takes("S2") /\ End(Result(Err), call.size)
      <3>1. EndFacts(Result(Err), call.size)
        BY <2>1, <2>4, EndAfterR DEF Takes
      <3> QED
        BY <2>1, <2>4, <3>1, EndKeepsDirs
    <2>5. CASE End("line", 0)
      BY <2>1, <2>5, EndKeepsDirs, EndLine
    <2> QED
      BY <1>3, <2>2, <2>3, <2>4, <2>5 DEF Status, Err, Fn
  <1>4. CASE Fail
    <2>1. Busy /\ UNCHANGED server
      BY <1>4 DEF Fail, PcLinkInv, PhaseInv
    <2>2. CASE call.tries + 1 < MaxTries
      <3>1. call' = [call EXCEPT !.tries = @ + 1] /\ UNCHANGED programs
        BY <1>4, <2>2 DEF Fail
      <3>2. PICK k : call' = [call EXCEPT !.tries = k]
        BY <3>1
      <3>3. call' = [call EXCEPT !.stage = call.stage, !.size = call.size, !.tries = k]
        BY <3>2 DEF PcLinkInv, OthersInv, CallType
      <3> QED
        BY <2>1, <3>1, <3>3, DriverKeepsDirs
    <2>3. CASE ~(call.tries + 1 < MaxTries)
      <3>1. End("line", 0)
        BY <1>4, <2>3 DEF Fail
      <3> QED
        BY <2>1, <3>1, EndKeepsDirs, EndLine
    <2> QED
      BY <2>2, <2>3
  <1> QED
    BY <1>1, <1>2, <1>3, <1>4 DEF AtariNext

(* What the programs read with FNEXT is a directory.                        *)
LEMMA DirsInvariant == Spec => []DirsInv
  <1>1. Init => DirsInv
    BY DEF Init, DirsInv, Busy, NoCall
  <1>2. ASSUME PcLinkInv, DirsInv, [Next]_vars PROVE DirsInv'
    <2>1. CASE UNCHANGED vars
      BY <1>2, <2>1 DEF vars, programs, DirsInv, Busy, Blk, Fn
    <2> QED
      BY <1>2, <2>1, HandleKeepsDirs, GuiKeepsDirs, AtariKeepsDirs DEF Next
  <1> QED
    BY <1>1, <1>2, PcLinkInvariant, PTL DEF Spec

-----------------------------------------------------------------------------
(* The records and functions keep their shape, a handle that is not open is *)
(* clear, and PCLink is in the worker's table but while links change.       *)
THEOREM TypesHold == Spec => []TypeOK
  <1>1. ASSUME PcLinkInv, DirsInv PROVE TypeOK
    <2>1. ASSUME NEW h \in Handles
          PROVE  LET f == server.io[h]
                 IN  f.pos \in 0..MaxPos /\ f.size \in 0..MaxLen + 1 /\ (~f.open => f = Closed)
      BY <1>1 DEF PcLinkInv, ServerInv, ServerType, FileType
    <2>2. \A h \in Handles : known[h].pos \in Nat \cup {Unknown}
      BY <1>1 DEF PcLinkInv, OthersInv
    <2>3. line.at = "quiet" <=> call.pc = "idle"
      BY <1>1 DEF PcLinkInv, PhaseInv, OthersInv, CallType, Busy
    <2> QED
      BY <1>1, <2>1, <2>2, <2>3
      DEF TypeOK, DirsInv, PcLinkInv, ServerInv, ServerType, OthersInv, CallType
  <1> QED
    BY <1>1, PcLinkInvariant, DirsInvariant, PTL

(* do_pclink carries a call out at most once, however often 'P' and 'R' are *)
(* repeated on the line, and its status tells whether it did, unless the    *)
(* block was the unit's last one or links were changed in between.          *)
THEOREM CallsAreOnce == Spec => []CallsOnce
  <1>1. ASSUME PcLinkInv PROVE CallsOnce
    <2>1. CASE ~Busy
      BY <1>1, <2>1 DEF PcLinkInv, HonestInv, CallsOnce
    <2>2. CASE Busy /\ Fn \notin ByP
      BY <1>1, <2>2, BusyFacts DEF PcLinkInv, HonestInv, DoneByRInv, CallsOnce
    <2>3. CASE Busy /\ Fn \in ByP
      BY <1>1, <2>3 DEF PcLinkInv, HonestInv, DoneByPInv, CallsOnce
    <2> QED
      BY <2>1, <2>2, <2>3
  <1> QED
    BY <1>1, PcLinkInvariant, PTL

(* Between calls the handle table and the units' directories are what the   *)
(* programs believe of them, wherever a call has ended with an answer and   *)
(* no change of links has closed the file.                                  *)
THEOREM ProgramsAlwaysAgree == Spec => []ProgramsAgree
  <1>1. ASSUME PcLinkInv PROVE ProgramsAgree
    <2> SUFFICES ASSUME call.pc = "idle"
                 PROVE  /\ \A h \in Handles \ pulled :
                             known[h] # NoFile =>
                               /\ server.io[h].open /\ server.io[h].unit = known[h].unit
                               /\ known[h].pos \in {Unknown, server.io[h].pos}
                        /\ \A n \in Links : knownCwd[n] \in {Unknown, server.cwd[n]}
      BY DEF ProgramsAgree
    <2>1. ~Busy
      BY DEF Busy
    <2> QED
      BY <1>1, <2>1 DEF PcLinkInv, FilesInv, CwdInv, WorksOn
  <1> QED
    BY <1>1, PcLinkInvariant, PTL

(* An entry of the handle table that is in use belongs to a program, or to  *)
(* a call that ended without an answer: nothing else uses the table up.     *)
THEOREM HandlesNeverLeak == Spec => []NoLeak
  <1>1. ASSUME PcLinkInv PROVE NoLeak
    BY <1>1 DEF PcLinkInv, LeakInv, NoLeak, Busy
  <1> QED
    BY <1>1, PcLinkInvariant, PTL

-----------------------------------------------------------------------------
(* What a command does to the files: 'P' and 'R' move or close only the     *)
(* call's own file, a warm reset closes all of them.                        *)
SameFile(h) ==
  /\ server'.io[h].open = server.io[h].open /\ server'.io[h].unit = server.io[h].unit
  /\ server'.io[h].pos = server.io[h].pos

LEMMA HandlePMoves ==
  ASSUME PcLinkInv, HandleP, NEW h \in Handles
  PROVE  /\ SameFile(h) \/ Fn = "INIT" \/ (Busy /\ h = Blk.handle /\ Fn \in OnFile)
         /\ server'.crashed = server.crashed
  <1>1. Busy
    BY TakesBusy DEF HandleP, PGarbled, PIgnored, PBadHandle, PRead, PWrite, PPrepare, PSeek,
      PClose, PInit, PRemove, PMkdir, PChdir, PBlock
  <1>2. /\ server \in ServerType /\ server.io \in [Handles -> FileType]
    BY DEF PcLinkInv, ServerInv, ServerType
  <1>3. CASE PGarbled \/ PIgnored
    BY <1>2, <1>3 DEF PGarbled, PIgnored, WithErr, ServerType, SameFile
  <1>4. CASE PBadHandle \/ PWrite \/ PRemove \/ PMkdir
    BY <1>2, <1>4
    DEF PBadHandle, PWrite, PRemove, PMkdir, Answered, Stored, WithErr, ServerType, SameFile
  <1>5. CASE PPrepare \/ PChdir
    BY <1>2, <1>5
    DEF PPrepare, PChdir, Answered, Stored, WithErr, ServerType, SameFile
  <1>6. CASE PRead
    <2> DEFINE f     == IO(Blk.handle)
               rest  == f.size - f.pos
               short == 0 <= rest /\ rest < Blk.arg
               n     == IF short THEN rest ELSE Blk.arg
               e     == IF n = 0 THEN 136 ELSE 1
    <2>1. server' = [WithErr(Stored, e) EXCEPT !.io[Blk.handle].eof = short, !.parbuf[Unit].arg = n]
      BY <1>6 DEF PRead, Answered
    <2> HIDE DEF e, n, short
    <2>2. /\ server'.io = [server.io EXCEPT ![Blk.handle].eof = short]
          /\ server'.crashed = server.crashed
      BY <2>1 DEF Stored, WithErr
    <2> QED
      BY <1>2, <2>2 DEF FileType, SameFile
  <1>7. CASE PSeek
    <2>1. Fn \in OnFile
      BY <1>7 DEF PSeek, PBlock, Fn, OnFile
    <2>2. \/ server' = [WithErr(Stored, 1) EXCEPT !.io[Blk.handle].pos = Blk.arg]
          \/ server' = WithErr(Stored, Refusal)
      BY <1>7 DEF PSeek, Answered
    <2>3. /\ \/ server'.io = [server.io EXCEPT ![Blk.handle].pos = Blk.arg]
             \/ server'.io = server.io
          /\ server'.crashed = server.crashed
      <3>1. CASE server' = [WithErr(Stored, 1) EXCEPT !.io[Blk.handle].pos = Blk.arg]
        <4>1. /\ server'.io = [server.io EXCEPT ![Blk.handle].pos = Blk.arg]
              /\ server'.crashed = server.crashed
          BY <1>2, <3>1 DEF Stored, WithErr, ServerType
        <4> QED
          BY <4>1
      <3>2. CASE server' = WithErr(Stored, Refusal)
        <4>1. server'.io = server.io /\ server'.crashed = server.crashed
          BY <1>2, <3>2 DEF Stored, WithErr, ServerType
        <4> QED
          BY <4>1
      <3> QED
        BY <2>2, <3>1, <3>2
    <2>4. h # Blk.handle => SameFile(h)
      BY <1>2, <2>3 DEF SameFile
    <2> QED
      BY <1>1, <2>1, <2>3, <2>4
  <1>8. CASE PClose
    <2>1. Fn \in OnFile
      BY <1>8 DEF PClose, PBlock, Fn, OnFile
    <2>2. server' = [WithErr(Stored, 1) EXCEPT !.io[Blk.handle] = ClosedFile(@)]
      BY <1>8 DEF PClose, Answered
    <2>3. (h # Blk.handle => SameFile(h)) /\ server'.crashed = server.crashed
      BY <1>2, <2>2 DEF Stored, WithErr, ServerType, SameFile
    <2> QED
      BY <1>1, <2>1, <2>3
  <1>9. CASE PInit
    BY <1>2, <1>9 DEF PInit, PBlock, Fn, Answered, Stored, WithErr, ServerType
  <1> QED
    BY <1>3, <1>4, <1>5, <1>6, <1>7, <1>8, <1>9 DEF HandleP

LEMMA ROpened ==
  ASSUME ROpen
  PROVE  \/ server' = WithErr(Executed, Refusal)
         \/ /\ server'.crashed = server.crashed
            /\ \E g \in Handles :
                 FirstFree(g) /\ \E f : server'.io = [server.io EXCEPT ![g] = f]
  <1> SUFFICES ASSUME server' # WithErr(Executed, Refusal)
               PROVE  /\ server'.crashed = server.crashed
                      /\ \E g \in Handles :
                           FirstFree(g) /\ \E f : server'.io = [server.io EXCEPT ![g] = f]
    OBVIOUS
  <1>1. PICK g \in Handles, n \in 0..MaxLen :
          /\ FirstFree(g)
          /\ LET dir  == Par.fn = "FFIRST"
                 mode == IF dir THEN 4 ELSE Par.arg
                 size == IF dir THEN n + 1 ELSE IF mode = 8 THEN 0 ELSE n
                 pos  == IF dir THEN 1 ELSE IF mode = 9 THEN size ELSE 0
                 f    == [open |-> TRUE, unit |-> Unit, mode |-> mode, dir |-> dir,
                          size |-> size, pos |-> pos, eof |-> FALSE]
             IN  server' = [WithErr(WithFile(Executed, g, f),
                                    IF dir /\ n = 0 THEN 3 ELSE server.err[Unit])
                              EXCEPT !.parbuf[Unit].handle = g]
    BY DEF ROpen
  <1> DEFINE dir  == Par.fn = "FFIRST"
             mode == IF dir THEN 4 ELSE Par.arg
             size == IF dir THEN n + 1 ELSE IF mode = 8 THEN 0 ELSE n
             pos  == IF dir THEN 1 ELSE IF mode = 9 THEN size ELSE 0
             f    == [open |-> TRUE, unit |-> Unit, mode |-> mode, dir |-> dir,
                      size |-> size, pos |-> pos, eof |-> FALSE]
             e    == IF dir /\ n = 0 THEN 3 ELSE server.err[Unit]
  <1>2. server' = [WithErr(WithFile(Executed, g, f), e) EXCEPT !.parbuf[Unit].handle = g]
    BY <1>1
  <1> HIDE DEF f, e
  <1>3. server'.io = [server.io EXCEPT ![g] = f] /\ server'.crashed = server.crashed
    BY <1>2 DEF Executed, WithErr, WithFile
  <1> QED
    BY <1>1, <1>3

LEMMA HandleRMoves ==
  ASSUME PcLinkInv, HandleR, NEW h \in Handles, server.io[h].open
  PROVE  SameFile(h) \/ (Busy /\ h = Blk.handle /\ Fn \in OnFile)
  <1>1. Busy /\ Takes("R")
    BY TakesBusy DEF HandleR, RRefused, RNullFile, RRead, RWrite, RTell, RGetcwd, RNext, ROpen,
      RBlock
  <1>2. server \in ServerType /\ server.io \in [Handles -> FileType]
    BY DEF PcLinkInv, ServerInv, ServerType
  <1>3. CASE RRefused \/ RNullFile \/ RTell \/ RGetcwd
    BY <1>2, <1>3
    DEF RRefused, RNullFile, RTell, RGetcwd, Executed, WithErr, ServerType, SameFile
  <1>4. ASSUME NEW got \in Int, NEW e, server' = WithErr(Moved(Executed, Par.handle, got), e)
        PROVE  /\ h # Par.handle => SameFile(h)
               /\ got = 0 => SameFile(h)
    <2>1. server'.io = [server.io EXCEPT ![Par.handle].pos = @ + got]
      BY <1>4 DEF Executed, Moved, WithErr
    <2>2. h # Par.handle => SameFile(h)
      BY <1>2, <2>1 DEF SameFile
    <2>3. h = Par.handle => /\ server'.io[h] = [server.io[h] EXCEPT !.pos = @ + got]
                            /\ server.io[h] \in FileType /\ server.io[h].pos \in Int
      BY <1>2, <2>1, PcLinkAssumption DEF FileType
    <2>4. h = Par.handle /\ got = 0 => SameFile(h)
      <3>1. server.io[h].pos + 0 = server.io[h].pos /\ server.io[h] \in FileType
        BY <1>2, PcLinkAssumption DEF FileType
      <3> QED
        BY <2>3, <3>1 DEF FileType, SameFile
    <2> QED
      BY <2>2, <2>4
  <1>5. CASE RRead
    <2>1. PICK got, e : got \in 0..Par.arg /\ server' = WithErr(Moved(Executed, Par.handle, got), e)
      BY <1>5 DEF RRead
    <2>2. \/ Par.arg = 0
          \/ Par.handle = Blk.handle /\ Fn \in OnFile
      BY <1>1, <1>5, RFacts DEF RRead, RBlock, Matches, Opens, OnFile
    <2>3. got \in Int /\ (Par.arg = 0 => got = 0)
      BY <2>1
    <2> QED
      BY <1>1, <1>4, <2>1, <2>2, <2>3
  <1>6. CASE RWrite
    <2>1. Par.handle = Blk.handle /\ Fn \in OnFile /\ Par.arg \in Nat
      BY <1>1, <1>6, RFacts DEF RWrite, RBlock, Matches, Opens, OnFile
    <2>2. CASE server' = WithErr(Executed, 143)
      BY <1>2, <2>2 DEF Executed, WithErr, ServerType, SameFile
    <2>3. CASE server' # WithErr(Executed, 143)
      <3>1. PICK got, e : got \in 0..Par.arg /\ server' = WithErr(Moved(Executed, Par.handle, got), e)
        BY <1>6, <2>3 DEF RWrite
      <3> QED
        BY <1>1, <1>4, <2>1, <3>1
    <2> QED
      BY <2>2, <2>3
  <1>7. CASE RNext
    <2>1. Par.handle = Blk.handle /\ Fn \in OnFile
      BY <1>1, <1>7, RFacts DEF RNext, RBlock, Matches, Opens, OnFile
    <2>2. \/ server' = WithErr(Executed, Refusal)
          \/ \E pos, e : server' = WithErr([Executed EXCEPT !.io[Par.handle].pos = pos], e)
      BY <1>7 DEF RNext
    <2>3. CASE server' = WithErr(Executed, Refusal)
      BY <1>2, <2>3 DEF Executed, WithErr, SameFile, ServerType
    <2>4. ASSUME NEW pos, NEW e, server' = WithErr([Executed EXCEPT !.io[Par.handle].pos = pos], e)
          PROVE  h # Par.handle => SameFile(h)
      <3>1. server'.io = [server.io EXCEPT ![Par.handle].pos = pos]
        BY <2>4 DEF Executed, WithErr
      <3> QED
        BY <1>2, <3>1 DEF SameFile
    <2> QED
      BY <1>1, <2>1, <2>2, <2>3, <2>4
  <1>8. CASE ROpen
    <2>1. CASE server' = WithErr(Executed, Refusal)
      BY <1>2, <2>1 DEF Executed, WithErr, SameFile, ServerType
    <2>2. CASE server' # WithErr(Executed, Refusal)
      <3>1. PICK g \in Handles : FirstFree(g) /\ \E f : server'.io = [server.io EXCEPT ![g] = f]
        BY <1>8, <2>2, ROpened
      <3>2. g # h
        BY <3>1 DEF FirstFree, IO
      <3> QED
        BY <1>2, <3>1, <3>2 DEF SameFile
    <2> QED
      BY <2>1, <2>2
  <1> QED
    BY <1>3, <1>5, <1>6, <1>7, <1>8 DEF HandleR

LEMMA HandleRCrashes ==
  ASSUME PcLinkInv, HandleR, ~RNullFile
  PROVE  server'.crashed = server.crashed
  <1>1. server \in ServerType
    BY DEF PcLinkInv, ServerInv
  <1>2. CASE RRefused \/ RTell \/ RGetcwd
    BY <1>1, <1>2 DEF RRefused, RTell, RGetcwd, Executed, WithErr, ServerType
  <1>3. CASE RRead \/ RWrite
    BY <1>1, <1>3 DEF RRead, RWrite, Executed, Moved, WithErr, ServerType
  <1>4. CASE RNext
    BY <1>1, <1>4 DEF RNext, Executed, WithErr, ServerType
  <1>5. CASE ROpen
    BY <1>1, <1>5, ROpened DEF Executed, WithErr, ServerType
  <1> QED
    BY <1>2, <1>3, <1>4, <1>5 DEF HandleR

LEMMA OthersKeepFiles ==
  ASSUME PcLinkInv, [Next]_vars, ~Handle, gui' = gui \/ server'.crashed # server.crashed
  PROVE  UNCHANGED server \/ (gui' # gui /\ server'.crashed = server.crashed)
  <1>1. CASE UNCHANGED vars \/ AtariNext
    BY <1>1 DEF vars, AtariNext, Call, Receive, Status, Fail
  <1>2. CASE GuiUninstall \/ GuiInstall
    BY <1>2 DEF GuiUninstall, GuiStart, GuiInstall
  <1>3. CASE GuiChange
    BY <1>3, ChangeForgets DEF Forgets, GuiChange, GuiIdle
  <1> QED
    BY <1>1, <1>2, <1>3 DEF Next, GuiNext

(* do_pclink's 'R' meets a closed file, the null pointer it does not check  *)
(* for, only if links were changed since its 'P', and FNEXT a plain file    *)
(* only where a change of links has closed the program's directory.         *)
THEOREM NullFileNeedsCut == Spec => NullFileOnlyWhenCut
  <1> DEFINE Excused == call.cut \/ (Par.fn = "FNEXT" /\ Par.handle \in pulled)
  <1>1. ASSUME PcLinkInv, DirsInv, RNullFile
        PROVE  Excused
    <2>1. Takes("R") /\ ~SecondR /\ Par.fn \in {"FREAD", "FWRITE", "FNEXT"}
      BY <1>1 DEF RNullFile, RBlock
    <2>2. Busy /\ call.stage = "R" /\ Err = 1 /\ ToDo /\ Fn \notin ByP
      BY <1>1, <2>1, RFacts
    <2>3. CASE Zeroed
      BY <2>3 DEF Zeroed
    <2>4. CASE Matches /\ Par.fn # "FNEXT"
      <3>1. Fn \in {"FREAD", "FWRITE"} /\ Par.handle = Blk.handle /\ Blk.handle \in Handles
        BY <1>1, <2>1, <2>2, <2>4, BusyFacts DEF Matches, Opens
      <3>2. ~call.cut => server.io[Blk.handle].open
        BY <1>1, <2>2, <3>1 DEF PcLinkInv, PreparedInv, Heard
      <3> QED
        BY <1>1, <2>4, <3>1, <3>2 DEF RNullFile, IsOpen, IO
    <2>5. CASE Matches /\ Par.fn = "FNEXT"
      <3>1. Fn = "FNEXT" /\ Par.handle = Blk.handle /\ Blk.handle \in Handles
        BY <1>1, <2>2, <2>5, BusyFacts DEF Matches, Opens
      <3>2. /\ server.io[Blk.handle].open /\ ~server.io[Blk.handle].dir
        BY <1>1, <2>5, <3>1 DEF RNullFile, Entries, IsOpen, IO
      <3>3. known[Blk.handle] # NoFile /\ Blk.handle \in knownDirs
        BY <1>1, <2>2, <3>1 DEF PcLinkInv, OwnerInv, DirsInv, OnFile
      <3> QED
        BY <1>1, <2>5, <3>1, <3>2, <3>3 DEF DirsInv
    <2> QED
      BY <1>1, <2>1, <2>3, <2>4, <2>5, RFacts
  <1>2. ASSUME PcLinkInv, DirsInv, [Next]_vars, ~server.crashed, server'.crashed
        PROVE  Excused
    <2>1. server'.crashed # server.crashed
      BY <1>2
    <2>2. CASE HandleP
      <3>1. 0 \in Handles
        BY PcLinkAssumption DEF Handles
      <3> QED
        BY <1>2, <2>1, <2>2, <3>1, HandlePMoves
    <2>3. CASE HandleR
      BY <1>1, <1>2, <2>1, <2>3, HandleRCrashes
    <2>4. CASE ~Handle
      BY <1>2, <2>1, <2>4, OthersKeepFiles
    <2> QED
      BY <2>2, <2>3, <2>4 DEF Handle
  <1>3. PcLinkInv /\ DirsInv /\ [Next]_vars =>
          [~server.crashed /\ server'.crashed =>
             call.cut \/ (Par.fn = "FNEXT" /\ Par.handle \in pulled)]_vars
    BY <1>2
  <1> QED
    BY <1>3, PcLinkInvariant, DirsInvariant, PTL DEF Spec, NullFileOnlyWhenCut

(* A call of one unit never moves or closes a file that another unit's      *)
(* programs hold: the handle table is shared, but only a warm reset and a   *)
(* change of links reach across it.                                         *)
THEOREM UnitsStayApart == Spec => UnitsApart
  <1>1. ASSUME PcLinkInv, [Next]_vars, NEW h \in Handles, server.io[h].open, ~SameFile(h)
        PROVE  gui' # gui \/ Blk.fn = "INIT" \/ server.io[h].unit = Unit \/ h \in pulled
    <2>1. CASE Handle
      <3>1. Fn = "INIT" \/ (Busy /\ h = Blk.handle /\ Fn \in OnFile)
        BY <1>1, <2>1, HandlePMoves, HandleRMoves DEF Handle
      <3>2. Busy /\ h = Blk.handle /\ Fn \in OnFile /\ h \notin pulled
              => server.io[h].unit = Unit
        BY <1>1 DEF PcLinkInv, OwnerInv, FilesInv
      <3> QED
        BY <3>1, <3>2 DEF Fn
    <2>2. CASE ~Handle
      BY <1>1, <2>2, OthersKeepFiles DEF SameFile
    <2> QED
      BY <2>1, <2>2
  <1>2. ASSUME PcLinkInv, [Next]_vars
        PROVE  \A h \in Handles :
                 LET f == server.io[h]
                     g == server'.io[h]
                 IN  f.open /\ <<f.open, f.unit, f.pos>> # <<g.open, g.unit, g.pos>> =>
                       gui' # gui \/ Blk.fn = "INIT" \/ f.unit = Unit \/ h \in pulled
    BY <1>1, <1>2 DEF SameFile
  <1>3. PcLinkInv /\ [Next]_vars =>
          [\A h \in Handles :
             LET f == server.io[h]
                 g == server'.io[h]
             IN  f.open /\ <<f.open, f.unit, f.pos>> # <<g.open, g.unit, g.pos>> =>
                   gui' # gui \/ Blk.fn = "INIT" \/ f.unit = Unit \/ h \in pulled]_vars
    BY <1>2
  <1> QED
    BY <1>3, PcLinkInvariant, PTL DEF Spec, UnitsApart
=============================================================================
