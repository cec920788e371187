-------------------------- MODULE DriveCommandsProofs --------------------------
(***************************************************************************)
(* The command protocol of drive 1, for any disks, folders, executables    *)
(* and number of attempts: the drive implements a disk that carries out    *)
(* requests at least once, the boot loader never asks for a chunk that     *)
(* there is not, and a folder's file is read in order.                     *)
(***************************************************************************)
EXTENDS DriveCommands, TLAPS

Waiting == atari.pc \in {"ack", "dataAck", "complete", "data"}
Busy    == handler.pc \in {"check", "data", "act"}
Op      == atari.request.op

(* What the drive answers to DOS, and what it may answer at all.            *)
DosData == [file : Files, block : Nat, full : BOOLEAN, next : {0} \cup (433..LastSector)]
Data    == Values \cup Nat \cup {Done.data} \cup DosData \cup [size : Nat, more : BOOLEAN]
Frames  == {Frame(t) : t \in {"A", "C", "E", "N"}} \cup {Answer(d) : d \in Data}
Ops     == {"none", "read", "write", "format", "formatED", "formatWith", "setPercom",
            "getPercom", "chunkInfo", "chunk", "run"}
Asked   == [op : Ops, arg : Nat, value : Values]

DriveTypeOK ==
  /\ mounted \in Drives
  /\ disk \in [content : Seq(Values), size : Geometries, new : Geometries, protected : BOOLEAN]
  /\ Len(disk.content) <= MaxSectors
  /\ folder \in Folders
  /\ booter \in [chunks : Seq(Nat), sizes : ChunkSizes, loaded : BOOLEAN]
  /\ Len(booter.chunks) = Len(booter.sizes)
  /\ reader \in [Files -> [stage : {"closed", "dir", "open", "data"},
                           next : {0} \cup (First(0)..LastSector), count : Nat, right : BOOLEAN]]
  /\ slid \subseteq Files
  /\ loader \in [stage : {"boot", "info", "chunk", "run", "loaded", "disk", "halted"},
                 size : Nat, more : BOOLEAN, memory : Seq(Nat)]

AtariPcs    == {"idle", "send", "ack", "dataAck", "complete", "data", "fail"}
AtariStates == [pc : AtariPcs, request : Asked, tries : Nat,
                for : {"user", "dos", "loader"}, file : Files]

ProtocolTypeOK ==
  /\ handler \in [pc : {"idle", "check", "data", "act", "crash"}, request : Asked]
  /\ atari \in AtariStates
  /\ line \in Seq(Frames) /\ Len(line) <= 4
  /\ \A a, b \in told : a = b

Acks == {<<>>, <<Frame("A")>>}

(* Where drive and Atari stand in a request: as long as the handler is at   *)
(* work the Atari waits for it, and all that is on the line is an           *)
(* acknowledgement.                                                         *)
PhaseInv ==
  /\ atari.pc = "idle" <=> atari.request = None
  /\ atari.pc = "idle" => answers = {}
  /\ atari.pc # "idle" => told = {}
  /\ Busy => handler.request = atari.request /\ Waiting
  /\ handler.pc = "check" => atari.pc = "ack" /\ line = <<>> /\ sent = {}
  /\ handler.pc = "data" =>
       /\ Op \in WithData
       /\ \/ atari.pc = "ack" /\ line \in Acks /\ sent = {}
          \/ atari.pc = "dataAck" /\ line = <<>>
  /\ handler.pc = "act" =>
       \/ atari.pc = (IF Op \in WithData THEN "dataAck" ELSE "ack") /\ line \in Acks
       \/ atari.pc = "complete" /\ line = <<>>

(* Complete and data on the line tell of what has been answered.            *)
AnswersInv ==
  Waiting => \A i \in 1..Len(line) :
    /\ line[i].tag = "data" => line[i] \in answers
    /\ line[i].tag = "C" /\ Op \notin WantsData => Done \in answers

(* Who asks what, and that what is carried out has been checked.            *)
RequestInv ==
  /\ atari.pc # "idle" =>
       /\ mounted = "folder" => Op = "read"
       /\ atari.for = "user" /\ mounted # "folder" => atari.request \in DiskRequests
       /\ atari.for = "user" /\ mounted = "booter" => booter.loaded
       /\ atari.for = "dos" => mounted = "folder"
       /\ atari.for = "loader" => mounted = "booter"
  /\ handler.pc \in {"data", "act"} /\ mounted # "folder" /\ Op \in {"read", "write"} =>
       ByBooter(atari.request) \/ atari.request.arg \in 1..disk.size

Memory   == Len(loader.memory)
Loads    == atari.for = "loader" /\ (atari.pc # "idle" \/ told # {})
Pristine(n) == \A i \in n..Len(booter.sizes) : booter.chunks[i] = booter.sizes[i]

(* The loader's program: what it asks for, what it has, and which chunks    *)
(* have not grown yet.                                                      *)
LoaderInv ==
  /\ mounted # "booter" => loader = IdleLoader
  /\ Memory <= Len(booter.sizes) /\ \A i \in 1..Memory : loader.memory[i] = booter.sizes[i]
  /\ ~booter.loaded => Pristine(1) /\ loader.stage \in {"boot", "info", "halted"} /\ Memory = 0
  /\ loader.stage = "boot" => Memory = 0
  /\ loader.stage = "info" =>
       Pristine(Memory + 1) /\ (booter.sizes = <<>> \/ Memory < Len(booter.sizes))
  /\ loader.stage = "chunk" =>
       /\ Memory < Len(booter.sizes) /\ Pristine(Memory + 2)
       /\ loader.size = booter.sizes[Memory + 1]
       /\ loader.more = (Len(booter.sizes) # Memory + 1)
  /\ loader.stage \in {"run", "loaded"} => Memory = Len(booter.sizes)
  /\ Loads =>
       /\ mounted = "booter" /\ loader.stage \in {"boot", "info", "chunk", "run"}
       /\ loader.stage = "boot" => \A a \in answers \cup told : a = Done <=> ~booter.loaded
       /\ loader.stage = "info" =>
            \A a \in answers \cup told :
              booter.loaded /\ Memory < Len(booter.sizes) /\ a = Answer(ChunkInfo(booter, Memory))
  /\ Loads /\ atari.pc # "idle" =>
       /\ loader.stage = "boot" => atari.request = Ask("read", 1)
       /\ loader.stage = "info" => atari.request = Ask("chunkInfo", Memory)
       /\ loader.stage = "chunk" => atari.request = Ask("chunk", Memory)
       /\ loader.stage = "run" => atari.request = Ask("run", 0)
  /\ handler.pc = "crash" => booter.sizes = <<>>

(* DOS's request, if there is one, is that of the file it reads.            *)
Reads(f) == atari.for = "dos" /\ atari.file = f /\ (atari.pc # "idle" \/ told # {})

InPlace(f, s, n) ==
  \/ s = First(f) /\ n = 0 /\ folder.pass[f] = 0
  \/ s \in 433..LastSector /\ n = 1 + (s - 433) + folder.pass[f] * Window /\ n < Blocks[f]

InOrder(f, d) ==
  LET n == reader[f].count
  IN  /\ d.block = n /\ (d.full <=> n < Blocks[f])
      /\ n < Blocks[f] \/ n = 0
      /\ d.next = 0 => n + 1 >= Blocks[f]
      /\ d.next # 0 => InPlace(f, d.next, n + 1)

ReaderInv ==
  /\ atari.for = "user" /\ atari.pc # "idle" /\ mounted = "folder" =>
       atari.request.arg \in {1, Directory}
  /\ \A f \in Files :
       LET r == reader[f]
       IN  /\ r.stage # "closed" => mounted = "folder"
           /\ r.stage \in {"dir", "data"} <=> Reads(f)
           /\ r.stage \in {"open", "data"} => r.next = First(f) \/ r.next \in 433..LastSector
           /\ r.stage = "dir" /\ atari.pc # "idle" => atari.request = Ask("read", Directory)
           /\ r.stage = "data" /\ atari.pc # "idle" => atari.request = Ask("read", r.next)
           /\ r.stage = "data" => \A a \in answers \cup told : a.data \in DosData

(* A file that nobody's read has slid is where its reader thinks.           *)
WindowInv ==
  \A f \in Files \ slid :
    LET r == reader[f]
    IN  /\ r.right
        /\ r.stage = "dir" => r.count = 0 /\ (answers \cup told # {} => folder.pass[f] = 0)
        /\ r.stage = "open" => InPlace(f, r.next, r.count)
        /\ r.stage = "data" =>
             /\ (answers \cup told = {} \/ r.next # LastSector) => InPlace(f, r.next, r.count)
             /\ \A a \in answers \cup told : a.data.file = f => InOrder(f, a.data)

DriveInv ==
  DriveTypeOK /\ ProtocolTypeOK /\ PhaseInv /\ AnswersInv /\ RequestInv
    /\ LoaderInv /\ ReaderInv /\ WindowInv

-----------------------------------------------------------------------------
(* Requests and frames.                                                     *)

LEMMA RequestTypes ==
  /\ None \in Asked
  /\ DiskRequests \subseteq Asked /\ None \notin DiskRequests
  /\ \A o \in Ops, n \in Nat : Ask(o, n) \in Asked /\ (o # "none" => Ask(o, n) # None)
  <1>1. Blank \in Values /\ MaxSectors \in Nat /\ Geometries \subseteq Nat
    BY CommandsAssumption DEF Geometries
  <1>2. \A o \in Ops, n \in Nat : Ask(o, n) \in Asked
    BY <1>1 DEF Ask, Asked
  <1>3. None \in Asked /\ None.op = "none"
    BY <1>1 DEF None, Asked, Ops
  <1>4. ASSUME NEW r \in DiskRequests
        PROVE  r \in Asked /\ r.op # "none"
    <2>1. 0..MaxSectors + 1 \subseteq Nat
      BY <1>1
    <2>2. \A o \in Ops, n \in Nat : Ask(o, n).op = o
      BY DEF Ask
    <2>3. CASE r \in [op : {"read"}, arg : 0..MaxSectors + 1, value : {Blank}]
      BY <1>1, <2>1, <2>3 DEF Asked, Ops
    <2>4. CASE r \in [op : {"write"}, arg : 0..MaxSectors + 1, value : Values]
      BY <2>1, <2>4 DEF Asked, Ops
    <2>5. CASE r \in {Ask(o, 0) : o \in {"format", "formatED", "getPercom"}}
      BY <1>2, <2>2, <2>5 DEF Ops
    <2>6. CASE r \in {Ask(o, n) : o \in {"formatWith", "setPercom"}, n \in Geometries}
      BY <1>1, <1>2, <2>2, <2>6 DEF Ops
    <2> QED
      BY <2>3, <2>4, <2>5, <2>6 DEF DiskRequests
  <1>5. \A o \in Ops, n \in Nat : o # "none" => Ask(o, n) # None
    BY DEF Ask, None
  <1> QED
    BY <1>2, <1>3, <1>4, <1>5

LEMMA FrameTypes ==
  /\ \A t \in {"A", "C", "E", "N"} : Frame(t) \in Frames
  /\ \A d \in Data : Answer(d) \in Frames
  BY DEF Frames

(* What the handler sends is put behind what is on the line.                *)
LEMMA SentFrames ==
  ASSUME NEW s \in Seq(Frames), NEW f \in Frames, NEW g \in Frames
  PROVE  /\ s \o <<f>> \in Seq(Frames) /\ Len(s \o <<f>>) = Len(s) + 1
         /\ (s \o <<f>>)[Len(s) + 1] = f
         /\ s \o <<f, g>> \in Seq(Frames) /\ Len(s \o <<f, g>>) = Len(s) + 2
         /\ (s \o <<f, g>>)[Len(s) + 1] = f /\ (s \o <<f, g>>)[Len(s) + 2] = g
         /\ \A i \in 1..Len(s) : (s \o <<f>>)[i] = s[i] /\ (s \o <<f, g>>)[i] = s[i]
  OBVIOUS

LEMMA AwaitedFrames ==
  /\ atari.pc \in DOMAIN Awaited <=> Waiting
  /\ Awaited["ack"] = {"A"} /\ Awaited["dataAck"] = {"A"}
  /\ Awaited["complete"] = {"C"} /\ Awaited["data"] = {"data"}
  BY DEF Awaited, Waiting

-----------------------------------------------------------------------------
(* The Atari's side of the protocol.                                        *)

LEMMA AtariTypes ==
  ASSUME atari \in AtariStates
  PROVE  /\ \A pc \in AtariPcs :
              AtariGoes(pc) => atari' \in AtariStates
         /\ \A o : Finishes(o) => atari' \in AtariStates
         /\ Retries => atari' \in AtariStates
  <1>1. None \in Asked /\ {"idle", "send", "fail"} \subseteq AtariPcs
    BY RequestTypes DEF AtariPcs
  <1>2. ASSUME NEW pc \in AtariPcs, AtariGoes(pc)
        PROVE  atari' \in AtariStates
    BY <1>2 DEF AtariGoes, AtariStates
  <1>3. ASSUME NEW o, Finishes(o)
        PROVE  atari' \in AtariStates
    <2>1. atari' = [atari EXCEPT !.pc = "idle", !.request = None, !.tries = 0]
      BY <1>3 DEF Finishes
    <2> QED
      BY <1>1, <2>1 DEF AtariStates
  <1> QED
    BY <1>1, <1>2, <1>3 DEF Retries

(* A frame is what is awaited, and the request goes on or ends with an      *)
(* answer of the drive's; or it is not, and nobody is at work on the        *)
(* request any more.                                                        *)
LEMMA Heard ==
  ASSUME DriveInv, Hear
  PROVE  /\ Waiting /\ line' = Tail(line) /\ UNCHANGED <<device, handler, programs>>
         /\ \/ /\ atari.pc \in {"ack", "dataAck"} /\ line[1].tag = "A"
               /\ AtariGoes(IF atari.pc = "ack" /\ Op \in WithData THEN "dataAck" ELSE "complete")
               /\ sent' = IF atari.pc = "ack" /\ Op \in WithData THEN {atari.request}
                          ELSE IF atari.pc = "ack" THEN {} ELSE sent
               /\ UNCHANGED <<told, answers>>
            \/ /\ ~Busy /\ AtariGoes("data")
               /\ UNCHANGED <<sent, told, answers>>
            \/ /\ ~Busy /\ \E a \in answers : Finishes({a})
               /\ UNCHANGED sent
            \/ ~Busy /\ Retries /\ UNCHANGED <<sent, told, answers>>
  <1>1. Waiting /\ line # <<>> /\ Head(line) = line[1] /\ Len(line) >= 1
    BY AwaitedFrames DEF Hear, DriveInv, ProtocolTypeOK
  <1>2. Busy => atari.pc \in {"ack", "dataAck"} /\ line[1].tag = "A"
    BY <1>1 DEF DriveInv, PhaseInv, Busy, Acks, Frame
  <1>3. CASE Head(line).tag \in Awaited[atari.pc]
    <2>1. CASE atari.pc = "ack"
      BY <1>1, <1>3, <2>1, AwaitedFrames DEF Hear, Accepts, AtariGoes, Op
    <2>2. CASE atari.pc = "dataAck"
      BY <1>1, <1>3, <2>2, AwaitedFrames DEF Hear, Accepts, AtariGoes, Op
    <2>3. CASE atari.pc = "complete" /\ Op \in WantsData
      BY <1>1, <1>2, <1>3, <2>3, AwaitedFrames DEF Hear, Accepts, Op
    <2>4. CASE atari.pc = "complete" /\ Op \notin WantsData
      <3>1. Done \in answers
        BY <1>1, <1>3, <2>4, AwaitedFrames DEF DriveInv, AnswersInv
      <3> QED
        BY <1>1, <1>2, <1>3, <2>4, <3>1 DEF Hear, Accepts, Op
    <2>5. CASE atari.pc = "data"
      <3>1. Head(line) \in answers
        BY <1>1, <1>3, <2>5, AwaitedFrames DEF DriveInv, AnswersInv
      <3> QED
        BY <1>1, <1>2, <1>3, <2>5, <3>1 DEF Hear, Accepts
    <2> QED
      BY <1>1, <2>1, <2>2, <2>3, <2>4, <2>5 DEF Waiting
  <1>4. CASE Head(line).tag \notin Awaited[atari.pc]
    <2>1. ~Busy
      BY <1>1, <1>2, <1>4, AwaitedFrames
    <2> QED
      BY <1>1, <1>4, <2>1 DEF Hear
  <1> QED
    BY <1>3, <1>4

LEMMA HearKeeps ==
  ASSUME DriveInv, Hear
  PROVE  DriveInv'
  <1> USE Heard DEF DriveInv, AtariGoes, Finishes, Retries
  <1>1. DriveTypeOK'
    BY DEF DriveTypeOK, device, programs
  <1>2. ProtocolTypeOK'
    <2>1. line' \in Seq(Frames) /\ Len(line') <= 4 /\ handler' = handler
      BY DEF ProtocolTypeOK, Hear
    <2>2. \A a, b \in told' : a = b
      BY DEF ProtocolTypeOK
    <2>3. {"dataAck", "complete", "data", "send", "fail"} \subseteq AtariPcs
      BY DEF AtariPcs
    <2>4. atari' \in AtariStates
      BY <2>3, AtariTypes DEF ProtocolTypeOK
    <2> QED
      BY <2>1, <2>2, <2>4 DEF ProtocolTypeOK
  <1>3. PhaseInv'
    <2>1. CASE ~Busy
      BY <2>1
         DEF PhaseInv, Busy, Waiting, ProtocolTypeOK, AtariStates, device, programs,
             None
    <2>2. CASE Busy
      <3>1. line = <<Frame("A")>> /\ line' = <<>>
        BY <2>2 DEF PhaseInv, Busy, Acks, Hear
      <3> QED
        BY <2>2, <3>1
           DEF PhaseInv, Busy, Waiting, Op, ProtocolTypeOK, AtariStates, device,
               programs, Acks, None
    <2> QED
      BY <2>1, <2>2
  <1>4. AnswersInv'
    <2>1. Len(line') = Len(line) - 1 /\ \A i \in 1..Len(line') : line'[i] = line[i + 1]
      BY DEF ProtocolTypeOK, AtariStates, Hear
    <2>2. CASE Waiting'
      <3>1. answers' = answers /\ Op' = Op
        BY <2>2 DEF Waiting, ProtocolTypeOK, AtariStates, Op
      <3> QED
        BY <2>1, <3>1 DEF AnswersInv, ProtocolTypeOK, AtariStates
    <2> QED
      BY <2>2 DEF AnswersInv
  <1>5. RequestInv'
    BY DEF RequestInv, PhaseInv, ProtocolTypeOK, AtariStates, Busy, Waiting, Op,
           ByBooter, None, device, programs
  <1>6. answers' \cup told' \subseteq answers \cup told
    BY DEF PhaseInv, Waiting
  <1>7. atari'.for = atari.for /\ atari'.file = atari.file
        /\ (atari'.pc # "idle" => atari'.request = atari.request) /\ atari.pc # "idle"
    BY DEF ProtocolTypeOK, AtariStates, Waiting
  <1>8. atari'.pc = "idle" => told' # {}
    BY DEF ProtocolTypeOK, AtariStates
  <1>9. LoaderInv'
    BY <1>6, <1>7 DEF LoaderInv, Loads, Memory, Pristine, ChunkInfo, device, programs
  <1>10. ReaderInv'
    BY <1>6, <1>7, <1>8 DEF ReaderInv, Reads, device, programs
  <1>11. WindowInv'
    <2>1. answers \cup told = {} => answers' \cup told' = {}
      BY <1>6
    <2>2. answers \cup told # {} => answers' \cup told' # {}
      BY DEF PhaseInv, Waiting
    <2> QED
      BY <1>6, <2>1, <2>2 DEF WindowInv, InPlace, InOrder, device, programs
  <1> QED
    BY <1>1, <1>2, <1>3, <1>4, <1>5, <1>9, <1>10, <1>11

LEMMA CheckKeeps ==
  ASSUME DriveInv, Check
  PROVE  DriveInv'
  <1> USE DEF DriveInv
  <1>1. DriveTypeOK'
    BY DEF Check, Refused, Sends, HandlerGoes, Idle, DriveTypeOK, device, programs
  <1>2. ProtocolTypeOK'
    <2>1. line = <<>>
      BY DEF Check, PhaseInv
    <2>2. \A t \in {"A", "N"} : line \o <<Frame(t)>> \in Seq(Frames) /\ Len(line \o <<Frame(t)>>) = 1
      BY <2>1, FrameTypes
    <2>3. Idle \in [pc : {"idle", "check", "data", "act", "crash"}, request : Asked]
      BY RequestTypes DEF Idle
    <2>4. \A pc \in {"data", "act"} :
            [handler EXCEPT !.pc = pc] \in [pc : {"idle", "check", "data", "act", "crash"}, request : Asked]
      BY DEF ProtocolTypeOK
    <2>5. handler' \in [pc : {"idle", "check", "data", "act", "crash"}, request : Asked]
      BY <2>3, <2>4 DEF Check, HandlerGoes
    <2>6. line' = line \/ \E t \in {"A", "N"} : line' = line \o <<Frame(t)>>
      BY DEF Check, Sends
    <2>7. line' \in Seq(Frames) /\ Len(line') <= 4
      <3>1. CASE line' = line
        BY <3>1 DEF ProtocolTypeOK
      <3>2. CASE \E t \in {"A", "N"} : line' = line \o <<Frame(t)>>
        BY <2>2, <3>2
      <3> QED
        BY <2>6, <3>1, <3>2
    <2> QED
      BY <2>5, <2>7 DEF Check, ProtocolTypeOK
  <1>3. PhaseInv'
    BY DEF Check, Refused, Sends, HandlerGoes, Idle, PhaseInv, ProtocolTypeOK,
           AtariStates, Waiting, Busy, Op, Acks, Frame, None, device, programs
  <1>4. AnswersInv'
    BY DEF Check, Refused, Sends, HandlerGoes, Idle, AnswersInv, PhaseInv,
           ProtocolTypeOK, AtariStates, Waiting, Busy, Op, Acks, Frame, device, programs
  <1>5. RequestInv'
    BY DEF Check, Refused, Sends, HandlerGoes, Idle, RequestInv, PhaseInv,
           ProtocolTypeOK, AtariStates, Waiting, Busy, Op, ByBooter, device, programs
  <1>6. LoaderInv'
    BY DEF Check, Refused, Sends, HandlerGoes, Idle, LoaderInv, PhaseInv,
           ProtocolTypeOK, AtariStates, Waiting, Busy, Loads, Memory, Pristine,
           ChunkInfo, device, programs
  <1>7. ReaderInv'
    BY DEF Check, Refused, Sends, HandlerGoes, Idle, ReaderInv, PhaseInv,
           ProtocolTypeOK, AtariStates, Waiting, Busy, Reads, device, programs
  <1>8. WindowInv'
    BY DEF Check, Refused, Sends, HandlerGoes, Idle, WindowInv, ReaderInv, PhaseInv,
           ProtocolTypeOK, AtariStates, Waiting, Busy, Reads, InPlace, InOrder, device,
           programs
  <1> QED
    BY <1>1, <1>2, <1>3, <1>4, <1>5, <1>6, <1>7, <1>8

LEMMA ReceiveKeeps ==
  ASSUME DriveInv, Receive
  PROVE  DriveInv'
  <1> USE DEF DriveInv
  <1>1. DriveTypeOK'
    BY DEF Receive, Sends, HandlerGoes, Idle, DriveTypeOK, device, programs
  <1>2. ProtocolTypeOK'
    <2>1. Len(line) <= 1
      BY DEF Receive, PhaseInv, Acks
    <2>2. \A t \in {"A", "N"} : line \o <<Frame(t)>> \in Seq(Frames) /\ Len(line \o <<Frame(t)>>) <= 2
      BY <2>1, FrameTypes, SentFrames DEF ProtocolTypeOK
    <2>3. Idle \in [pc : {"idle", "check", "data", "act", "crash"}, request : Asked]
      BY RequestTypes DEF Idle
    <2>4. [handler EXCEPT !.pc = "act"] \in [pc : {"idle", "check", "data", "act", "crash"}, request : Asked]
      BY DEF ProtocolTypeOK
    <2> QED
      BY <2>2, <2>3, <2>4
         DEF Receive, Sends, HandlerGoes, ProtocolTypeOK, device, programs
  <1>3. PhaseInv'
    BY DEF Receive, Sends, HandlerGoes, Idle, PhaseInv, ProtocolTypeOK, AtariStates,
           Waiting, Busy, Op, Acks, Frame, None, device, programs
  <1>4. AnswersInv'
    BY DEF Receive, Sends, HandlerGoes, Idle, AnswersInv, PhaseInv, ProtocolTypeOK,
           AtariStates, Waiting, Busy, Op, Acks, Frame, device, programs
  <1>5. RequestInv'
    BY DEF Receive, Sends, HandlerGoes, Idle, RequestInv, PhaseInv, ProtocolTypeOK,
           AtariStates, Waiting, Busy, Op, ByBooter, device, programs
  <1>6. LoaderInv'
    BY DEF Receive, Sends, HandlerGoes, Idle, LoaderInv, PhaseInv, ProtocolTypeOK,
           AtariStates, Waiting, Busy, Loads, Memory, Pristine, ChunkInfo, device,
           programs
  <1>7. ReaderInv'
    BY DEF Receive, Sends, HandlerGoes, Idle, ReaderInv, PhaseInv, ProtocolTypeOK,
           AtariStates, Waiting, Busy, Reads, device, programs
  <1>8. WindowInv'
    BY DEF Receive, Sends, HandlerGoes, Idle, WindowInv, ReaderInv, PhaseInv,
           ProtocolTypeOK, AtariStates, Waiting, Busy, Reads, InPlace, InOrder, device,
           programs
  <1> QED
    BY <1>1, <1>2, <1>3, <1>4, <1>5, <1>6, <1>7, <1>8

LEMMA LoseReplyKeeps ==
  ASSUME DriveInv, LoseReply
  PROVE  DriveInv'
  <1> USE DEF DriveInv
  <1>1. DriveTypeOK'
    BY DEF LoseReply, DriveTypeOK, device, programs
  <1>2. ProtocolTypeOK'
    BY DEF LoseReply, ProtocolTypeOK, AtariStates, device, programs
  <1>3. PhaseInv'
    BY DEF LoseReply, PhaseInv, ProtocolTypeOK, AtariStates, Waiting, Busy, Op, Acks,
           Frame, None, device, programs
  <1>4. AnswersInv'
    BY DEF LoseReply, AnswersInv, PhaseInv, ProtocolTypeOK, AtariStates, Waiting, Busy,
           Op, Acks, Frame, device, programs
  <1>5. RequestInv'
    BY DEF LoseReply, RequestInv, PhaseInv, ProtocolTypeOK, AtariStates, Waiting, Busy,
           Op, ByBooter, device, programs
  <1>6. LoaderInv'
    BY DEF LoseReply, LoaderInv, PhaseInv, ProtocolTypeOK, AtariStates, Waiting, Busy,
           Loads, Memory, Pristine, ChunkInfo, device, programs
  <1>7. ReaderInv'
    BY DEF LoseReply, ReaderInv, PhaseInv, ProtocolTypeOK, AtariStates, Waiting, Busy,
           Reads, device, programs
  <1>8. WindowInv'
    BY DEF LoseReply, WindowInv, ReaderInv, PhaseInv, ProtocolTypeOK, AtariStates,
           Waiting, Busy, Reads, InPlace, InOrder, device, programs
  <1> QED
    BY <1>1, <1>2, <1>3, <1>4, <1>5, <1>6, <1>7, <1>8

LEMMA LoseDataKeeps ==
  ASSUME DriveInv, LoseData
  PROVE  DriveInv'
  <1> USE DEF DriveInv
  <1>1. DriveTypeOK'
    BY DEF LoseData, DriveTypeOK, device, programs
  <1>2. ProtocolTypeOK'
    BY DEF LoseData, ProtocolTypeOK, AtariStates, device, programs
  <1>3. PhaseInv'
    BY DEF LoseData, PhaseInv, ProtocolTypeOK, AtariStates, Waiting, Busy, Op, Acks,
           Frame, None, device, programs
  <1>4. AnswersInv'
    BY DEF LoseData, AnswersInv, PhaseInv, ProtocolTypeOK, AtariStates, Waiting, Busy,
           Op, Acks, Frame, device, programs
  <1>5. RequestInv'
    BY DEF LoseData, RequestInv, PhaseInv, ProtocolTypeOK, AtariStates, Waiting, Busy,
           Op, ByBooter, device, programs
  <1>6. LoaderInv'
    BY DEF LoseData, LoaderInv, PhaseInv, ProtocolTypeOK, AtariStates, Waiting, Busy,
           Loads, Memory, Pristine, ChunkInfo, device, programs
  <1>7. ReaderInv'
    BY DEF LoseData, ReaderInv, PhaseInv, ProtocolTypeOK, AtariStates, Waiting, Busy,
           Reads, device, programs
  <1>8. WindowInv'
    BY DEF LoseData, WindowInv, ReaderInv, PhaseInv, ProtocolTypeOK, AtariStates,
           Waiting, Busy, Reads, InPlace, InOrder, device, programs
  <1> QED
    BY <1>1, <1>2, <1>3, <1>4, <1>5, <1>6, <1>7, <1>8

LEMMA SendCommandKeeps ==
  ASSUME DriveInv, SendCommand
  PROVE  DriveInv'
  <1> USE DEF DriveInv
  <1>1. DriveTypeOK'
    BY DEF SendCommand, DriveTypeOK, device, programs
  <1>2. ProtocolTypeOK'
    <2>1. atari' \in AtariStates /\ atari.request \in Asked
      <3>1. atari' = [atari EXCEPT !.pc = "ack", !.tries = atari.tries + 1]
        BY DEF SendCommand
      <3>2. "ack" \in AtariPcs
        BY DEF AtariPcs
      <3>3. atari \in AtariStates
        BY DEF ProtocolTypeOK
      <3>4. atari.tries + 1 \in Nat /\ atari.request \in Asked
        BY <3>3 DEF AtariStates
      <3> HIDE DEF DriveInv
      <3> QED
        BY <3>1, <3>2, <3>3, <3>4 DEF AtariStates
    <2>2. handler' \in [pc : {"idle", "check", "data", "act", "crash"}, request : Asked]
      BY <2>1 DEF SendCommand, ProtocolTypeOK
    <2> QED
      BY <2>1, <2>2 DEF SendCommand, ProtocolTypeOK
  <1>3. PhaseInv'
    BY DEF SendCommand, PhaseInv, ProtocolTypeOK, AtariStates, Waiting, Busy, Op, Acks,
           Frame, None, device, programs
  <1>4. AnswersInv'
    BY DEF SendCommand, AnswersInv, PhaseInv, ProtocolTypeOK, AtariStates, Waiting,
           Busy, Op, Acks, Frame, device, programs
  <1>5. RequestInv'
    BY DEF SendCommand, RequestInv, PhaseInv, ProtocolTypeOK, AtariStates, Waiting,
           Busy, Op, ByBooter, device, programs
  <1>6. LoaderInv'
    BY DEF SendCommand, LoaderInv, PhaseInv, ProtocolTypeOK, AtariStates, Waiting,
           Busy, Loads, Memory, Pristine, ChunkInfo, device, programs
  <1>7. ReaderInv'
    BY DEF SendCommand, ReaderInv, PhaseInv, ProtocolTypeOK, AtariStates, Waiting,
           Busy, Reads, device, programs
  <1>8. WindowInv'
    BY DEF SendCommand, WindowInv, ReaderInv, PhaseInv, ProtocolTypeOK, AtariStates,
           Waiting, Busy, Reads, InPlace, InOrder, device, programs
  <1> QED
    BY <1>1, <1>2, <1>3, <1>4, <1>5, <1>6, <1>7, <1>8

LEMMA TimeoutKeeps ==
  ASSUME DriveInv, Timeout
  PROVE  DriveInv'
  <1> USE DEF DriveInv
  <1>1. DriveTypeOK'
    BY AwaitedFrames DEF Timeout, Retries, AtariGoes, DriveTypeOK, device, programs
  <1>2. ProtocolTypeOK'
    BY AtariTypes DEF Timeout, ProtocolTypeOK, device, programs
  <1>3. PhaseInv'
    BY AwaitedFrames
       DEF Timeout, Retries, AtariGoes, PhaseInv, ProtocolTypeOK, AtariStates, Waiting,
           Busy, Op, Acks, Frame, None, device, programs
  <1>4. AnswersInv'
    BY AwaitedFrames
       DEF Timeout, Retries, AtariGoes, AnswersInv, PhaseInv, ProtocolTypeOK,
           AtariStates, Waiting, Busy, Op, Acks, Frame, device, programs
  <1>5. RequestInv'
    BY AwaitedFrames
       DEF Timeout, Retries, AtariGoes, RequestInv, PhaseInv, ProtocolTypeOK,
           AtariStates, Waiting, Busy, Op, ByBooter, device, programs
  <1>6. LoaderInv'
    BY AwaitedFrames
       DEF Timeout, Retries, AtariGoes, LoaderInv, PhaseInv, ProtocolTypeOK,
           AtariStates, Waiting, Busy, Loads, Memory, Pristine, ChunkInfo, device,
           programs
  <1>7. ReaderInv'
    BY AwaitedFrames
       DEF Timeout, Retries, AtariGoes, ReaderInv, PhaseInv, ProtocolTypeOK,
           AtariStates, Waiting, Busy, Reads, device, programs
  <1>8. WindowInv'
    BY AwaitedFrames
       DEF Timeout, Retries, AtariGoes, WindowInv, ReaderInv, PhaseInv, ProtocolTypeOK,
           AtariStates, Waiting, Busy, Reads, InPlace, InOrder, device, programs
  <1> QED
    BY <1>1, <1>2, <1>3, <1>4, <1>5, <1>6, <1>7, <1>8

LEMMA GiveUpKeeps ==
  ASSUME DriveInv, GiveUp
  PROVE  DriveInv'
  <1> USE DEF DriveInv
  <1>1. DriveTypeOK'
    BY DEF GiveUp, Finishes, IdleReader, DriveTypeOK, device, programs
  <1>2. ProtocolTypeOK'
    BY AtariTypes DEF GiveUp, Finishes, ProtocolTypeOK
  <1>3. PhaseInv'
    BY DEF GiveUp, Finishes, IdleReader, PhaseInv, ProtocolTypeOK, AtariStates,
           Waiting, Busy, Op, Acks, Frame, None, device, programs
  <1>4. AnswersInv'
    BY DEF GiveUp, Finishes, IdleReader, AnswersInv, PhaseInv, ProtocolTypeOK,
           AtariStates, Waiting, Busy, Op, Acks, Frame, device, programs
  <1>5. RequestInv'
    BY DEF GiveUp, Finishes, IdleReader, RequestInv, PhaseInv, ProtocolTypeOK,
           AtariStates, Waiting, Busy, Op, ByBooter, device, programs
  <1>6. LoaderInv'
    <2>1. atari'.pc = "idle" /\ told' = {} /\ answers' = {}
      BY DEF GiveUp, Finishes, ProtocolTypeOK, AtariStates
    <2>2. \/ loader' = loader
          \/ loader' = [loader EXCEPT !.stage = "halted"]
          \/ loader.stage = "run" /\ loader' = [loader EXCEPT !.stage = "loaded"]
      <3>1. CASE atari.for # "loader"
        BY <3>1 DEF GiveUp
      <3>2. CASE atari.for = "loader" /\ loader.stage = "run"
        BY <3>2 DEF GiveUp
      <3>3. CASE atari.for = "loader" /\ loader.stage # "run"
        BY <3>3 DEF GiveUp
      <3> QED
        BY <3>1, <3>2, <3>3
    <2>3. mounted # "booter" => loader' = loader
      BY DEF GiveUp, RequestInv
    <2> QED
      BY <2>1, <2>2, <2>3
         DEF GiveUp, LoaderInv, DriveTypeOK, Loads, Memory, Pristine, ChunkInfo, device
  <1>7. ReaderInv'
    <2>1. atari'.pc = "idle" /\ told' = {} /\ atari'.for = atari.for /\ atari'.file = atari.file
      BY DEF GiveUp, Finishes, ProtocolTypeOK, AtariStates
    <2>2. \A f \in Files : \/ reader'[f] = reader[f] /\ ~Reads(f)
                           \/ reader'[f] = IdleReader /\ Reads(f)
      <3>1. atari.pc # "idle" /\ told = {}
        BY DEF GiveUp, PhaseInv
      <3>2. CASE atari.for = "dos"
        <4>1. reader' = [reader EXCEPT ![atari.file] = IdleReader]
          BY <3>2 DEF GiveUp
        <4> QED
          BY <3>1, <3>2, <4>1 DEF Reads, DriveTypeOK
      <3>3. CASE atari.for # "dos"
        BY <3>3 DEF GiveUp, Reads
      <3> QED
        BY <3>2, <3>3
    <2>3. \A f \in Files : reader'[f].stage \notin {"dir", "data"} /\ ~Reads(f)'
      BY <2>1, <2>2 DEF ReaderInv, Reads, IdleReader
    <2> QED
      BY <2>1, <2>2, <2>3 DEF GiveUp, ReaderInv, IdleReader, device
  <1>8. WindowInv'
    <2>1. \A f \in Files : \/ reader'[f] = reader[f] /\ ~Reads(f)
                           \/ reader'[f] = IdleReader /\ Reads(f)
      <3>1. atari.pc # "idle" /\ told = {}
        BY DEF GiveUp, PhaseInv
      <3>2. CASE atari.for = "dos"
        <4>1. reader' = [reader EXCEPT ![atari.file] = IdleReader]
          BY <3>2 DEF GiveUp
        <4> QED
          BY <3>1, <3>2, <4>1 DEF Reads, DriveTypeOK
      <3>3. CASE atari.for # "dos"
        BY <3>3 DEF GiveUp, Reads
      <3> QED
        BY <3>2, <3>3
    <2>2. \A f \in Files : \/ reader'[f] = IdleReader
                           \/ reader'[f] = reader[f] /\ reader[f].stage \notin {"dir", "data"}
      BY <2>1 DEF ReaderInv
    <2> QED
      BY <2>2 DEF GiveUp, WindowInv, InPlace, IdleReader, device
  <1> QED
    BY <1>1, <1>2, <1>3, <1>4, <1>5, <1>6, <1>7, <1>8

-----------------------------------------------------------------------------
(* The Atari's programs.                                                    *)

LEMMA IssueKeeps ==
  ASSUME DriveInv, NEW r \in Asked, r # None,
         NEW who \in {"user", "dos", "loader"}, NEW f \in Files, Issues(r, who, f)
  PROVE  /\ ProtocolTypeOK' /\ PhaseInv' /\ AnswersInv'
         /\ ~Busy /\ answers = {} /\ answers' = {} /\ told' = {}
         /\ atari.pc = "idle" /\ atari'.pc = "send" /\ atari'.request = r
         /\ atari'.for = who /\ atari'.file = f
         /\ UNCHANGED <<mounted, disk, folder, booter, handler>>
  <1> USE DEF DriveInv
  <1>1. atari' = [pc |-> "send", request |-> r, tries |-> 0, for |-> who, file |-> f]
        /\ atari.pc = "idle" /\ told' = {} /\ UNCHANGED <<device, handler, line, sent, answers>>
    BY DEF Issues
  <1>2. atari'.pc = "send" /\ atari'.request = r /\ atari'.for = who /\ atari'.file = f
    BY <1>1
  <1>3. ~Busy /\ answers = {}
    BY <1>1 DEF PhaseInv, Waiting
  <1>4. ProtocolTypeOK'
    <2>1. "send" \in AtariPcs /\ 0 \in Nat
      BY DEF AtariPcs
    <2>2. atari' \in AtariStates
      BY <1>1, <2>1 DEF AtariStates
    <2> QED
      BY <1>1, <2>2 DEF ProtocolTypeOK
  <1>5. PhaseInv'
    BY <1>1, <1>2, <1>3 DEF PhaseInv, Busy, Waiting
  <1>6. AnswersInv'
    BY <1>2 DEF AnswersInv, Waiting
  <1> QED
    BY <1>1, <1>2, <1>3, <1>4, <1>5, <1>6 DEF device

(* Between the requests nobody but the user may be waited for.              *)
LEMMA FreeReaders ==
  ASSUME DriveInv, Free, atari.pc = "idle"
  PROVE  /\ \A f \in Files : ~Reads(f) /\ reader[f].stage \notin {"dir", "data"}
         /\ ~Loads
  <1>1. \A f \in Files : ~Reads(f)
    BY DEF Free, HasAnswer, Reads
  <1> QED
    BY <1>1 DEF DriveInv, ReaderInv, Free, HasAnswer, Loads

LEMMA UserRequestKeeps ==
  ASSUME DriveInv, UserRequest
  PROVE  DriveInv'
  <1>1. PICK r : /\ Issues(r, "user", atari.file)
                 /\ mounted = "folder" => r \in {Ask("read", 1), Ask("read", Directory)}
                 /\ mounted # "folder" => r \in DiskRequests
                 /\ mounted \notin {"folder", "image"} => loader.stage \in {"loaded", "disk"}
    BY DEF UserRequest
  <1>2. r \in Asked /\ r # None
    BY <1>1, RequestTypes DEF Ops, Directory
  <1>3. atari.file \in Files
    BY DEF DriveInv, ProtocolTypeOK, AtariStates
  <1>4. /\ ProtocolTypeOK' /\ PhaseInv' /\ AnswersInv'
        /\ ~Busy /\ answers = {} /\ answers' = {} /\ told' = {}
        /\ atari.pc = "idle" /\ atari'.pc = "send" /\ atari'.request = r
        /\ atari'.for = "user" /\ atari'.file = atari.file
        /\ UNCHANGED <<mounted, disk, folder, booter, handler>>
    BY <1>1, <1>2, <1>3, IssueKeeps
  <1>5. UNCHANGED programs
    BY DEF UserRequest
  <1>6. /\ \A f \in Files : ~Reads(f) /\ reader[f].stage \notin {"dir", "data"}
        /\ ~Loads
    BY <1>4, FreeReaders DEF UserRequest
  <1> USE DEF DriveInv
  <1>7. DriveTypeOK'
    BY <1>4, <1>5 DEF DriveTypeOK, programs
  <1>8. RequestInv'
    <2>1. mounted = "booter" => booter.loaded
      BY <1>1 DEF LoaderInv
    <2>2. mounted = "folder" => r.op = "read"
      BY <1>1 DEF Ask
    <2> QED
      BY <1>1, <1>4, <2>1, <2>2 DEF RequestInv, Busy, Op
  <1>9. LoaderInv'
    BY <1>4, <1>5 DEF LoaderInv, Loads, Memory, Pristine, ChunkInfo, programs
  <1>10. ReaderInv'
    <2>1. mounted = "folder" => r.arg \in {1, Directory}
      BY <1>1 DEF Ask
    <2>2. \A f \in Files : ~Reads(f)'
      BY <1>4 DEF Reads
    <2> QED
      BY <1>4, <1>5, <1>6, <2>1, <2>2 DEF ReaderInv, programs
  <1>11. WindowInv'
    BY <1>4, <1>5, <1>6 DEF WindowInv, InPlace, programs
  <1> QED
    BY <1>4, <1>7, <1>8, <1>9, <1>10, <1>11

LEMMA DosOpenKeeps ==
  ASSUME DriveInv, NEW f \in Files, DosOpen(f)
  PROVE  DriveInv'
  <1> DEFINE r == Ask("read", Directory)
  <1>1. r \in Asked /\ r # None
    BY RequestTypes DEF Ops, Directory
  <1>2. /\ ProtocolTypeOK' /\ PhaseInv' /\ AnswersInv'
        /\ ~Busy /\ answers = {} /\ answers' = {} /\ told' = {}
        /\ atari.pc = "idle" /\ atari'.pc = "send" /\ atari'.request = r
        /\ atari'.for = "dos" /\ atari'.file = f
        /\ UNCHANGED <<mounted, disk, folder, booter, handler>>
    BY <1>1, IssueKeeps DEF DosOpen, DosRequest
  <1>3. r.op = "read"
    BY DEF Ask
  <1> HIDE DEF r
  <1> USE DEF DriveInv
  <1>4. /\ reader' = [reader EXCEPT ![f] = [IdleReader EXCEPT !.stage = "dir"]]
        /\ slid' = slid \ {f} /\ loader' = loader /\ mounted = "folder"
    BY DEF DosOpen, DosRequest
  <1>5. \A g \in Files : ~Reads(g) /\ reader[g].stage \notin {"dir", "data"}
    BY <1>2, FreeReaders DEF DosOpen, DosRequest
  <1>6. /\ reader'[f] = [stage |-> "dir", next |-> 0, count |-> 0, right |-> TRUE]
        /\ \A g \in Files \ {f} : reader'[g] = reader[g]
    BY <1>4 DEF DriveTypeOK, IdleReader
  <1>7. DriveTypeOK'
    <2> DEFINE S == [stage : {"closed", "dir", "open", "data"},
                     next : {0} \cup (First(0)..LastSector), count : Nat, right : BOOLEAN]
    <2>1. IdleReader \in S
      BY DEF IdleReader
    <2>2. [IdleReader EXCEPT !.stage = "dir"] \in S
      BY <2>1
    <2>3. reader \in [Files -> S]
      BY DEF DriveTypeOK
    <2> HIDE DEF S
    <2>4. reader' \in [Files -> S]
      BY <1>4, <2>2, <2>3
    <2> QED
      BY <1>2, <1>4, <2>4 DEF DriveTypeOK, S
  <1>8. RequestInv'
    BY <1>2, <1>3, <1>4 DEF RequestInv, Busy, Op
  <1>9. LoaderInv'
    BY <1>2, <1>4 DEF LoaderInv, Loads, Memory, Pristine, ChunkInfo
  <1>10. ReaderInv'
    <2>1. Reads(f)' /\ \A g \in Files \ {f} : ~Reads(g)'
      BY <1>2 DEF Reads
    <2> QED
      BY <1>2, <1>4, <1>5, <1>6, <2>1 DEF ReaderInv, r
  <1>11. WindowInv'
    BY <1>2, <1>4, <1>5, <1>6 DEF WindowInv, InPlace
  <1> QED
    BY <1>2, <1>7, <1>8, <1>9, <1>10, <1>11

LEMMA DosReadKeeps ==
  ASSUME DriveInv, NEW f \in Files, DosRead(f)
  PROVE  DriveInv'
  <1> DEFINE r == Ask("read", reader[f].next)
  <1>1. r \in Asked /\ r # None
    <2>1. First(0) \in Nat /\ LastSector \in Nat
      BY FolderAssumption DEF First
    <2>2. reader[f].next \in Nat
      BY <2>1 DEF DriveInv, DriveTypeOK
    <2> QED
      BY <2>2, RequestTypes DEF Ops
  <1>2. /\ ProtocolTypeOK' /\ PhaseInv' /\ AnswersInv'
        /\ ~Busy /\ answers = {} /\ answers' = {} /\ told' = {}
        /\ atari.pc = "idle" /\ atari'.pc = "send" /\ atari'.request = r
        /\ atari'.for = "dos" /\ atari'.file = f
        /\ UNCHANGED <<mounted, disk, folder, booter, handler>>
    BY <1>1, IssueKeeps DEF DosRead, DosRequest
  <1>3. r.op = "read"
    BY DEF Ask
  <1> HIDE DEF r
  <1> USE DEF DriveInv
  <1>4. /\ reader' = [reader EXCEPT ![f].stage = "data"]
        /\ slid' = slid /\ loader' = loader /\ reader[f].stage = "open"
    BY DEF DosRead, DosRequest
  <1>5. /\ \A g \in Files : ~Reads(g) /\ reader[g].stage \notin {"dir", "data"}
        /\ ~Loads
    BY <1>2, FreeReaders DEF DosRead, DosRequest
  <1>6. /\ reader'[f] = [reader[f] EXCEPT !.stage = "data"]
        /\ \A g \in Files \ {f} : reader'[g] = reader[g]
    BY <1>4 DEF DriveTypeOK
  <1>7. /\ reader'[f].stage = "data" /\ reader'[f].next = reader[f].next
        /\ reader'[f].count = reader[f].count /\ reader'[f].right = reader[f].right
    BY <1>6 DEF DriveTypeOK
  <1>8. mounted = "folder"
    BY <1>4 DEF ReaderInv
  <1>9. DriveTypeOK'
    <2>1. reader' \in [Files -> [stage : {"closed", "dir", "open", "data"},
                           next : {0} \cup (First(0)..LastSector), count : Nat, right : BOOLEAN]]
      BY <1>4 DEF DriveTypeOK
    <2> QED
      BY <1>2, <1>4, <2>1 DEF DriveTypeOK
  <1>10. RequestInv'
    BY <1>2, <1>3, <1>8 DEF RequestInv, Busy, Op
  <1>11. LoaderInv'
    BY <1>2, <1>4 DEF LoaderInv, Loads, Memory, Pristine, ChunkInfo
  <1>12. ReaderInv'
    <2>1. Reads(f)' /\ \A g \in Files \ {f} : ~Reads(g)'
      BY <1>2 DEF Reads
    <2> QED
      BY <1>2, <1>4, <1>5, <1>6, <1>7, <1>8, <2>1 DEF ReaderInv, r
  <1>13. WindowInv'
    BY <1>2, <1>4, <1>5, <1>6, <1>7 DEF WindowInv, InPlace
  <1> QED
    BY <1>2, <1>9, <1>10, <1>11, <1>12, <1>13

LEMMA DosAdvanceKeeps ==
  ASSUME DriveInv, DosAdvance
  PROVE  DriveInv'
  <1> USE DEF DriveInv
  <1> DEFINE f == atari.file
  <1>1. PICK a \in told : reader' = [reader EXCEPT ![f] =
           IF @.stage = "dir" THEN [@ EXCEPT !.stage = "open", !.next = First(f)]
                              ELSE Advanced(@, f, a.data)]
    BY DEF DosAdvance
  <1>2. /\ atari.pc = "idle" /\ atari.for = "dos"
        /\ told' = {} /\ UNCHANGED <<device, handler, line, sent, atari, answers, slid, loader>>
    BY DEF DosAdvance, HasAnswer, Takes
  <1>3. f \in Files
    BY DEF ProtocolTypeOK, AtariStates
  <1>4. Reads(f) /\ reader[f].stage \in {"dir", "data"} /\ mounted = "folder"
    BY <1>1, <1>2, <1>3 DEF Reads, ReaderInv
  <1>5. \A g \in Files \ {f} : ~Reads(g) /\ reader[g].stage \notin {"dir", "data"}
                               /\ reader'[g] = reader[g]
    BY <1>1, <1>3 DEF Reads, ReaderInv, DriveTypeOK
  <1>6. answers = {} /\ answers' = {}
    BY <1>2 DEF PhaseInv
  <1>7. \A g \in Files : ~Reads(g)'
    BY <1>2 DEF Reads
  <1>8. First(f) \in First(0)..LastSector /\ First(f) \in Nat /\ 433 > First(0) /\ First(0) \in Nat
    BY <1>3, FolderAssumption DEF Files, First
  <1> DEFINE S == [stage : {"closed", "dir", "open", "data"},
                   next : {0} \cup (First(0)..LastSector), count : Nat, right : BOOLEAN]
  <1>9. reader \in [Files -> S] /\ reader[f] \in S
    BY <1>3 DEF DriveTypeOK
  <1> DEFINE d == a.data
             right == reader[f].right /\ (d.full => d.block = reader[f].count)
             n == IF right THEN reader[f].count + (IF d.full THEN 1 ELSE 0) ELSE 0
  <1>10. \/ /\ reader[f].stage = "dir"
            /\ reader'[f] = [reader[f] EXCEPT !.stage = "open", !.next = First(f)]
         \/ /\ reader[f].stage = "data" /\ d.file # f
            /\ reader'[f] = IdleReader
         \/ /\ reader[f].stage = "data" /\ d.file = f /\ d.next # 0
            /\ reader'[f] = [stage |-> "open", next |-> d.next, count |-> n, right |-> right]
         \/ /\ reader[f].stage = "data" /\ d.file = f /\ d.next = 0
            /\ reader'[f] = [IdleReader EXCEPT !.right = right /\ n = Blocks[f]]
    <2>1. CASE reader[f].stage = "dir"
      BY <1>1, <1>3, <1>9, <2>1
    <2>2. CASE reader[f].stage = "data"
      <3>1. reader'[f] = Advanced(reader[f], f, d)
        BY <1>1, <1>3, <1>9, <2>2
      <3> QED
        BY <2>2, <3>1 DEF Advanced
    <2> QED
      BY <1>4, <2>1, <2>2
  <1>11. reader[f].stage = "data" => d \in DosData
    BY <1>3 DEF ReaderInv
  <1>12. n \in Nat /\ right \in BOOLEAN
    BY <1>9
  <1>13. IdleReader \in S
    BY DEF IdleReader
  <1>14. reader'[f] \in S /\ reader'[f].stage \in {"open", "closed"}
    <2> HIDE DEF n, right
    <2>1. CASE reader[f].stage = "dir"
      BY <1>8, <1>9, <1>10, <2>1
    <2>2. CASE reader[f].stage = "data"
      <3>1. d.next # 0 => d.next \in {0} \cup (First(0)..LastSector)
        BY <1>8, <1>11, <2>2, FolderAssumption DEF DosData
      <3>2. [IdleReader EXCEPT !.right = right /\ n = Blocks[f]] \in S
            /\ [IdleReader EXCEPT !.right = right /\ n = Blocks[f]].stage = "closed"
        BY <1>12, <1>13 DEF IdleReader
      <3>3. CASE d.file = f /\ d.next # 0
        <4>1. reader'[f] = [stage |-> "open", next |-> d.next, count |-> n, right |-> right]
          BY <1>10, <2>2, <3>3
        <4> QED
          BY <1>12, <3>1, <3>3, <4>1
      <3>4. CASE d.file = f /\ d.next = 0
        BY <1>10, <2>2, <3>2, <3>4
      <3>5. CASE d.file # f
        BY <1>10, <1>13, <2>2, <3>5 DEF IdleReader
      <3> QED
        BY <3>3, <3>4, <3>5
    <2> QED
      BY <1>4, <2>1, <2>2
  <1>15. DriveTypeOK'
    <2> HIDE DEF S
    <2>1. reader' \in [Files -> S]
      <3>1. \E v : reader' = [reader EXCEPT ![f] = v]
        BY <1>1
      <3> QED
        BY <1>3, <1>9, <1>14, <3>1
    <2> QED
      BY <1>2, <2>1 DEF DriveTypeOK, S, device
  <1>16. ProtocolTypeOK' /\ PhaseInv' /\ AnswersInv' /\ RequestInv' /\ LoaderInv'
    BY <1>2, <1>6 DEF ProtocolTypeOK, PhaseInv, AnswersInv, RequestInv, LoaderInv,
                      Waiting, Busy, Op, ByBooter, Loads, Memory, Pristine, device
  <1>17. ReaderInv'
    <2> HIDE DEF n, right
    <2>1. reader'[f].stage = "open" => reader'[f].next = First(f) \/ reader'[f].next \in 433..LastSector
      <3>1. CASE reader[f].stage = "dir"
        BY <1>9, <1>10, <3>1
      <3>2. CASE reader[f].stage = "data"
        <4>1. d.next # 0 => d.next \in 433..LastSector
          BY <1>11, <3>2 DEF DosData
        <4> QED
          BY <1>10, <3>2, <4>1 DEF IdleReader
      <3> QED
        BY <1>4, <3>1, <3>2
    <2>2. \A g \in Files : reader'[g].stage \notin {"dir", "data"}
      BY <1>5, <1>14
    <2> QED
      BY <1>2, <1>4, <1>5, <1>6, <1>7, <2>1, <2>2 DEF ReaderInv, device
  <1>18. WindowInv'
    <2>1. ASSUME f \notin slid
          PROVE  /\ reader'[f].right
                 /\ reader'[f].stage = "open" => InPlace(f, reader'[f].next, reader'[f].count)
      <3>1. reader[f].right
        BY <1>3, <2>1 DEF WindowInv
      <3>2. CASE reader[f].stage = "dir"
        <4>1. reader[f].count = 0 /\ folder.pass[f] = 0
          BY <1>1, <1>3, <2>1, <3>2 DEF WindowInv
        <4> QED
          BY <1>9, <1>10, <3>1, <3>2, <4>1 DEF InPlace
      <3>3. CASE reader[f].stage = "data" /\ d.file = f
        <4>1. InOrder(f, d)
          BY <1>1, <1>3, <2>1, <3>3 DEF WindowInv
        <4>2. Blocks[f] \in Nat /\ reader[f].count \in Nat /\ folder.pass[f] \in Nat
              /\ d.full \in BOOLEAN
          BY <1>3, <1>9, <1>11, <3>3, FolderAssumption
             DEF Files, DriveTypeOK, Folders, DosData
        <4>3. right
          BY <3>1, <4>1 DEF InOrder
        <4>4. CASE d.next # 0
          <5>1. InPlace(f, d.next, reader[f].count + 1)
            BY <4>1, <4>4 DEF InOrder
          <5>2. reader[f].count + 1 < Blocks[f]
            BY <4>2, <5>1 DEF InPlace
          <5>3. n = reader[f].count + 1
            BY <4>1, <4>2, <4>3, <5>2 DEF InOrder
          <5>4. reader'[f] = [stage |-> "open", next |-> d.next, count |-> n, right |-> right]
            BY <1>10, <3>3, <4>4
          <5>5. reader'[f].next = d.next /\ reader'[f].count = n /\ reader'[f].right = right
            <6> HIDE DEF n, right
            <6> QED
              BY <5>4
          <5> QED
            BY <4>3, <5>1, <5>3, <5>5
        <4>5. CASE d.next = 0
          <5>1. n = Blocks[f]
            BY <4>1, <4>2, <4>3, <4>5 DEF InOrder
          <5> QED
            BY <1>10, <3>3, <4>3, <4>5, <5>1 DEF IdleReader
        <4> QED
          BY <4>4, <4>5
      <3>4. CASE reader[f].stage = "data" /\ d.file # f
        BY <1>10, <3>4 DEF IdleReader
      <3> QED
        BY <1>4, <3>2, <3>3, <3>4
    <2> QED
      BY <1>2, <1>5, <1>14, <2>1 DEF WindowInv, InPlace, device
  <1> QED
    BY <1>15, <1>16, <1>17, <1>18

LEMMA LoaderRequestKeeps ==
  ASSUME DriveInv, LoaderRequest
  PROVE  DriveInv'
  <1> USE DEF DriveInv
  <1>1. PICK r : /\ Issues(r, "loader", atari.file)
                 /\ loader.stage = "boot" => r = Ask("read", 1)
                 /\ loader.stage = "info" => r = Ask("chunkInfo", Memory)
                 /\ loader.stage = "chunk" => r = Ask("chunk", Memory)
                 /\ loader.stage = "run" => r = Ask("run", 0)
    BY DEF LoaderRequest, Memory
  <1>2. loader.stage \in {"boot", "info", "chunk", "run"} /\ mounted = "booter"
    BY DEF LoaderRequest
  <1>3. r \in Asked /\ r # None
    <2>1. Memory \in Nat
      BY DEF DriveTypeOK, Memory
    <2>2. 0 \in Nat /\ 1 \in Nat /\ {"read", "chunkInfo", "chunk", "run"} \subseteq Ops
      BY DEF Ops
    <2> QED
      BY <1>1, <1>2, <2>1, <2>2, RequestTypes
  <1>4. atari.file \in Files
    BY DEF ProtocolTypeOK, AtariStates
  <1>5. /\ ProtocolTypeOK' /\ PhaseInv' /\ AnswersInv'
        /\ ~Busy /\ answers = {} /\ answers' = {} /\ told' = {}
        /\ atari.pc = "idle" /\ atari'.pc = "send" /\ atari'.request = r
        /\ atari'.for = "loader" /\ atari'.file = atari.file
        /\ UNCHANGED <<mounted, disk, folder, booter, handler>>
    BY <1>1, <1>3, <1>4, IssueKeeps
  <1>6. UNCHANGED programs
    BY DEF LoaderRequest
  <1>7. \A f \in Files : ~Reads(f) /\ reader[f].stage \notin {"dir", "data"}
    BY <1>5, FreeReaders DEF LoaderRequest
  <1>8. DriveTypeOK'
    BY <1>5, <1>6 DEF DriveTypeOK, programs
  <1>9. RequestInv'
    BY <1>2, <1>5 DEF RequestInv, Busy
  <1>10. LoaderInv'
    BY <1>1, <1>2, <1>5, <1>6 DEF LoaderInv, Loads, Memory, Pristine, programs
  <1>11. ReaderInv'
    <2>1. \A f \in Files : ~Reads(f)'
      BY <1>5 DEF Reads
    <2> QED
      BY <1>2, <1>5, <1>6, <1>7, <2>1 DEF ReaderInv, programs
  <1>12. WindowInv'
    BY <1>5, <1>6, <1>7 DEF WindowInv, InPlace, programs
  <1> QED
    BY <1>5, <1>8, <1>9, <1>10, <1>11, <1>12

LEMMA LoaderAdvanceKeeps ==
  ASSUME DriveInv, LoaderAdvance
  PROVE  DriveInv'
  <1> USE DEF DriveInv
  <1>1. PICK a \in told : loader' = Loaded(loader, a)
    BY DEF LoaderAdvance
  <1>2. /\ atari.pc = "idle" /\ atari.for = "loader"
        /\ told' = {} /\ UNCHANGED <<device, handler, line, sent, atari, answers, slid, reader>>
    BY DEF LoaderAdvance, HasAnswer, Takes
  <1>3. Loads /\ loader.stage \in {"boot", "info", "chunk", "run"} /\ mounted = "booter"
    <2>1. Loads
      BY <1>1, <1>2 DEF Loads
    <2> QED
      BY <2>1 DEF LoaderInv
  <1>4. ~Loads'
    BY <1>2 DEF Loads
  <1> DEFINE S == [stage : {"boot", "info", "chunk", "run", "loaded", "disk", "halted"},
                   size : Nat, more : BOOLEAN, memory : Seq(Nat)]
             sizes == booter.sizes
  <1>5. /\ loader \in S /\ sizes \in Seq(Nat) /\ Memory \in Nat /\ Len(sizes) \in Nat
        /\ booter.chunks \in Seq(Nat) /\ Len(booter.chunks) = Len(sizes)
        /\ Len(sizes) = 0 => sizes = <<>>
    BY BooterAssumption DEF DriveTypeOK, Memory
  <1>6. Memory <= Len(sizes) /\ \A i \in 1..Memory : loader.memory[i] = sizes[i]
    BY DEF LoaderInv
  <1>7. /\ loader' \in S
        /\ Memory' <= Len(sizes) /\ \A i \in 1..Memory' : loader'.memory[i] = sizes[i]
        /\ ~booter.loaded => loader'.stage \in {"boot", "info", "halted"} /\ Memory' = 0
        /\ loader'.stage = "boot" => Memory' = 0
        /\ loader'.stage = "info" =>
             Pristine(Memory' + 1) /\ (sizes = <<>> \/ Memory' < Len(sizes))
        /\ loader'.stage = "chunk" =>
             /\ Memory' < Len(sizes) /\ Pristine(Memory' + 2)
             /\ loader'.size = sizes[Memory' + 1]
             /\ loader'.more = (Len(sizes) # Memory' + 1)
        /\ loader'.stage \in {"run", "loaded"} => Memory' = Len(sizes)
    <2>1. CASE loader.stage = "boot"
      <3>1. /\ loader' = [loader EXCEPT !.stage = IF a = Done THEN "info" ELSE "disk"]
            /\ Memory = 0 /\ (a = Done <=> ~booter.loaded)
        BY <1>1, <1>3, <2>1 DEF Loaded, LoaderInv
      <3>2. /\ loader'.memory = loader.memory /\ Memory' = 0
            /\ loader'.stage = (IF a = Done THEN "info" ELSE "disk") /\ loader' \in S
        BY <1>5, <3>1 DEF Memory
      <3>3. ~booter.loaded => Pristine(1)
        BY DEF LoaderInv
      <3> QED
        BY <1>5, <3>1, <3>2, <3>3
    <2>2. CASE loader.stage = "info"
      <3>1. /\ booter.loaded /\ Memory < Len(sizes) /\ a = Answer(ChunkInfo(booter, Memory))
            /\ Pristine(Memory + 1)
        BY <1>1, <1>3, <2>2 DEF LoaderInv
      <3>2. a.data.size = booter.chunks[Memory + 1] /\ a.data.more = (Len(sizes) # Memory + 1)
        BY <1>5, <3>1 DEF Answer, ChunkInfo
      <3>3. a.data.size = sizes[Memory + 1] /\ a.data.size \in Nat /\ Pristine(Memory + 2)
        <4>1. Memory + 1 \in 1..Len(sizes)
          BY <1>5, <3>1
        <4>2. booter.chunks[Memory + 1] \in Nat
          BY <1>5, <4>1
        <4>3. booter.chunks[Memory + 1] = sizes[Memory + 1]
          <5>1. \A i \in Memory + 1..Len(sizes) : booter.chunks[i] = sizes[i]
            BY <3>1 DEF Pristine
          <5>2. Memory + 1 \in Memory + 1..Len(sizes)
            BY <1>5, <3>1
          <5> QED
            BY <5>1, <5>2
        <4>4. Pristine(Memory + 2)
          <5>1. Memory + 2..Len(sizes) \subseteq Memory + 1..Len(sizes)
            BY <1>5
          <5> QED
            BY <3>1, <5>1 DEF Pristine
        <4> QED
          BY <3>2, <4>2, <4>3, <4>4
      <3>4. loader' = [loader EXCEPT !.stage = "chunk", !.size = a.data.size, !.more = a.data.more]
        BY <1>1, <2>2 DEF Loaded
      <3>5. /\ loader' \in S /\ loader'.memory = loader.memory /\ loader'.stage = "chunk"
            /\ loader'.size = a.data.size /\ loader'.more = a.data.more /\ Memory' = Memory
        BY <1>5, <3>2, <3>3, <3>4 DEF Memory
      <3> QED
        BY <1>6, <3>1, <3>2, <3>3, <3>5
    <2>3. CASE loader.stage = "chunk"
      <3>1. /\ Memory < Len(sizes) /\ Pristine(Memory + 2) /\ booter.loaded
            /\ loader.size = sizes[Memory + 1] /\ loader.more = (Len(sizes) # Memory + 1)
        BY <2>3 DEF LoaderInv
      <3>2. CASE loader' = [loader EXCEPT !.stage = "halted"]
        <4>1. loader' \in S /\ loader'.stage = "halted" /\ loader'.memory = loader.memory /\ Memory' = Memory
          BY <1>5, <3>2 DEF Memory
        <4> QED
          BY <1>6, <3>1, <4>1
      <3>3. CASE loader' = [loader EXCEPT !.stage = IF loader.more THEN "info" ELSE "run",
                                          !.memory = Append(loader.memory, loader.size)]
        <4>1. /\ loader' \in S /\ loader'.stage = (IF loader.more THEN "info" ELSE "run")
              /\ loader'.memory = Append(loader.memory, loader.size)
          <5>1. loader.size \in Nat /\ loader.memory \in Seq(Nat)
            BY <1>5
          <5>2. Append(loader.memory, loader.size) \in Seq(Nat)
            BY <5>1
          <5>3. CASE loader.more
            BY <1>5, <3>3, <5>2, <5>3
          <5>4. CASE ~loader.more
            BY <1>5, <3>3, <5>2, <5>4
          <5> QED
            BY <5>3, <5>4
        <4>2. /\ Memory' = Memory + 1 /\ loader'.memory[Memory + 1] = loader.size
              /\ \A i \in 1..Memory : loader'.memory[i] = loader.memory[i]
          BY <1>5, <4>1 DEF Memory
        <4>3. Pristine(Memory' + 1)
          BY <1>5, <3>1, <4>2 DEF Pristine
        <4>4. Memory' <= Len(sizes) /\ \A i \in 1..Memory' : loader'.memory[i] = sizes[i]
          <5>1. Memory \in Nat /\ Len(sizes) \in Nat
            BY <1>5
          <5>2. \A i \in 1..Memory + 1 : i \in 1..Memory \/ i = Memory + 1
            BY <5>1
          <5>3. \A i \in 1..Memory : loader'.memory[i] = sizes[i]
            BY <1>6, <4>2
          <5>4. loader'.memory[Memory + 1] = sizes[Memory + 1]
            BY <3>1, <4>2
          <5>5. Memory + 1 <= Len(sizes)
            BY <3>1, <5>1
          <5> QED
            BY <4>2, <5>2, <5>3, <5>4, <5>5
        <4>5. loader'.stage = "info" => Memory' < Len(sizes)
          <5>1. Memory \in Nat /\ Len(sizes) \in Nat /\ Memory < Len(sizes)
            BY <1>5, <3>1
          <5>2. loader'.stage = "info" => Len(sizes) # Memory + 1
            BY <3>1, <4>1
          <5> QED
            BY <4>2, <5>1, <5>2
        <4>6. loader'.stage = "run" => Memory' = Len(sizes)
          BY <3>1, <4>1, <4>2
        <4> QED
          BY <3>1, <4>1, <4>3, <4>4, <4>5, <4>6
      <3> QED
        BY <1>1, <2>3, <3>2, <3>3 DEF Loaded
    <2>4. CASE loader.stage = "run"
      <3>1. loader' = [loader EXCEPT !.stage = "loaded"]
        BY <1>1, <2>4 DEF Loaded
      <3>2. loader' \in S /\ loader'.stage = "loaded" /\ loader'.memory = loader.memory /\ Memory' = Memory
        BY <1>5, <3>1 DEF Memory
      <3>3. Memory = Len(sizes) /\ booter.loaded
        BY <2>4 DEF LoaderInv
      <3> QED
        BY <1>6, <3>2, <3>3
    <2> QED
      BY <1>3, <2>1, <2>2, <2>3, <2>4
  <1>8. answers = {} /\ answers' = {}
    BY <1>2 DEF PhaseInv
  <1>9. DriveTypeOK'
    BY <1>2, <1>7 DEF DriveTypeOK, device
  <1>10. ProtocolTypeOK' /\ PhaseInv' /\ AnswersInv' /\ RequestInv'
    BY <1>2, <1>8 DEF ProtocolTypeOK, PhaseInv, AnswersInv, RequestInv,
                      Waiting, Busy, Op, ByBooter, device
  <1>11. LoaderInv'
    <2>1. /\ \A n : Pristine(n)' <=> Pristine(n)
          /\ booter' = booter /\ mounted' = mounted /\ handler' = handler
      BY <1>2 DEF Pristine, device
    <2>2. handler.pc = "crash" => sizes = <<>>
      BY DEF LoaderInv
    <2>3. ~booter.loaded => Pristine(1)
      BY DEF LoaderInv
    <2> QED
      BY <1>3, <1>4, <1>7, <2>1, <2>2, <2>3 DEF LoaderInv
  <1>12. \A f \in Files : ~Reads(f) /\ ~Reads(f)'
    BY <1>2 DEF Reads
  <1>13. \A f \in Files : reader[f].stage \notin {"dir", "data"}
    BY <1>12 DEF ReaderInv
  <1>14. ReaderInv'
    BY <1>2, <1>12, <1>13 DEF ReaderInv, device
  <1>15. WindowInv'
    BY <1>2, <1>13 DEF WindowInv, InPlace, device
  <1> QED
    BY <1>9, <1>10, <1>11, <1>14, <1>15

LEMMA PowerCycleKeeps ==
  ASSUME DriveInv, PowerCycle
  PROVE  DriveInv'
  <1> USE DEF DriveInv
  <1>1. /\ atari.pc = "idle" /\ mounted = "booter" /\ loader' = IdleLoader
        /\ told' = {} /\ UNCHANGED <<device, handler, line, sent, atari, answers, slid, reader>>
    BY DEF PowerCycle, Takes
  <1>2. answers = {} /\ answers' = {} /\ ~Busy
    BY <1>1 DEF PhaseInv, Waiting
  <1>3. DriveTypeOK'
    BY <1>1 DEF DriveTypeOK, IdleLoader, device
  <1>4. ProtocolTypeOK' /\ PhaseInv' /\ AnswersInv' /\ RequestInv'
    BY <1>1, <1>2 DEF ProtocolTypeOK, PhaseInv, AnswersInv, RequestInv,
                      Waiting, Busy, Op, ByBooter, device
  <1>5. LoaderInv'
    BY <1>1 DEF LoaderInv, DriveTypeOK, IdleLoader, Loads, Memory, Pristine, device
  <1>6. \A f \in Files : ~Reads(f)' /\ reader[f].stage \notin {"dir", "data"}
    BY <1>1 DEF Reads, ReaderInv
  <1>7. ReaderInv' /\ WindowInv'
    BY <1>1, <1>6 DEF ReaderInv, WindowInv, InPlace, device
  <1> QED
    BY <1>3, <1>4, <1>5, <1>7

-----------------------------------------------------------------------------
(* The handlers' work.                                                      *)

LEMMA DoneIsAnswer == Done = Answer(Done.data) /\ Done \in Frames /\ Done.tag = "data"
  <1>1. Done = Answer(Done.data) /\ Done.tag = "data"
    BY DEF Done, Answer
  <1>2. Done.data \in Data
    BY DEF Data
  <1> QED
    BY <1>1, <1>2, FrameTypes

(* What is common to all handlers that reply.                               *)
LEMMA ActKeeps ==
  ASSUME DriveInv, handler.pc = "act", UNCHANGED <<mounted, atari, sent, told>>,
         \/ ReportsError
         \/ \E a \in Frames : /\ Replies(a) /\ a.tag = "data"
                              /\ Op \notin WantsData => a = Done
  PROVE  /\ ProtocolTypeOK' /\ PhaseInv' /\ AnswersInv'
         /\ handler' = Idle /\ ~Busy' /\ Waiting /\ atari.pc # "idle" /\ told = {}
         /\ handler.request = atari.request
  <1> USE DEF DriveInv
  <1>1. /\ handler.request = atari.request /\ Waiting /\ atari.pc # "idle" /\ told = {}
        /\ line \in Acks
    BY DEF PhaseInv, Busy, Waiting, Acks
  <1>2. handler' = Idle /\ handler'.pc = "idle"
    <2>1. handler' = Idle
      BY DEF Replies, ReportsError
    <2> QED
      BY <2>1 DEF Idle
  <1>3. ~Busy' /\ atari'.pc # "idle" /\ told' = {}
    BY <1>1, <1>2 DEF Busy
  <1>4. PhaseInv'
    BY <1>1, <1>2, <1>3 DEF PhaseInv
  <1>5. line \in Seq(Frames) /\ Len(line) <= 1 /\ \A i \in 1..Len(line) : line[i].tag = "A"
    <2>1. CASE line = <<>>
      BY <2>1 DEF ProtocolTypeOK
    <2>2. CASE line = <<Frame("A")>>
      <3>1. Frame("A").tag = "A"
        BY DEF Frame
      <3>2. Len(line) = 1 /\ line[1] = Frame("A")
        BY <2>2
      <3> QED
        BY <3>1, <3>2 DEF ProtocolTypeOK
    <2> QED
      BY <1>1, <2>1, <2>2 DEF Acks
  <1>6. Frame("C") \in Frames /\ Frame("E") \in Frames /\ Frame("C").tag = "C" /\ Frame("E").tag = "E"
    BY FrameTypes DEF Frame
  <1>7. handler' \in [pc : {"idle", "check", "data", "act", "crash"}, request : Asked]
    BY <1>2, RequestTypes DEF Idle
  <1>8. CASE ReportsError
    <2>1. line' = line \o <<Frame("E")>> /\ answers' = answers
      BY <1>8 DEF ReportsError, Sends
    <2>2. /\ line' \in Seq(Frames) /\ Len(line') = Len(line) + 1
          /\ \A i \in 1..Len(line') : line'[i].tag \in {"A", "E"}
      BY <1>5, <1>6, <2>1, SentFrames
    <2>3. ProtocolTypeOK'
      BY <1>3, <1>5, <1>7, <2>2 DEF ProtocolTypeOK
    <2>4. AnswersInv'
      BY <2>2 DEF AnswersInv
    <2> QED
      BY <1>1, <1>2, <1>3, <1>4, <2>3, <2>4
  <1>9. ASSUME NEW a \in Frames, Replies(a), a.tag = "data", Op \notin WantsData => a = Done
        PROVE  ProtocolTypeOK' /\ AnswersInv'
    <2>1. answers' = answers \cup {a} /\ Op' = Op
      BY <1>9 DEF Replies, Op
    <2>2. CASE Op \in WantsData
      <3>1. line' = line \o <<Frame("C"), a>>
        BY <1>1, <1>9, <2>2 DEF Replies, Sends, Op
      <3>2. /\ line' \in Seq(Frames) /\ Len(line') = Len(line) + 2
            /\ line'[Len(line) + 1] = Frame("C") /\ line'[Len(line) + 2] = a
            /\ \A i \in 1..Len(line) : line'[i] = line[i]
        BY <1>5, <1>6, <1>9, <3>1, SentFrames
      <3>3. \A i \in 1..Len(line') : line'[i].tag = "data" => line'[i] = a
        BY <1>5, <1>6, <3>2
      <3>4. ProtocolTypeOK'
        BY <1>3, <1>5, <1>7, <3>2 DEF ProtocolTypeOK
      <3>5. AnswersInv'
        BY <2>1, <2>2, <3>3 DEF AnswersInv
      <3> QED
        BY <3>4, <3>5
    <2>3. CASE Op \notin WantsData
      <3>1. line' = line \o <<Frame("C")>>
        BY <1>1, <1>9, <2>3 DEF Replies, Sends, Op
      <3>2. /\ line' \in Seq(Frames) /\ Len(line') = Len(line) + 1
            /\ \A i \in 1..Len(line') : line'[i].tag \in {"A", "C"}
        BY <1>5, <1>6, <3>1, SentFrames
      <3>3. ProtocolTypeOK'
        BY <1>3, <1>5, <1>7, <3>2 DEF ProtocolTypeOK
      <3>4. AnswersInv'
        BY <1>9, <2>1, <2>3, <3>2 DEF AnswersInv
      <3> QED
        BY <3>3, <3>4
    <2> QED
      BY <2>2, <2>3
  <1> QED
    BY <1>1, <1>2, <1>3, <1>4, <1>8, <1>9

LEMMA DiskTypes ==
  /\ \A n \in Geometries : n \in Nat /\ n <= MaxSectors
                           /\ Blanks(n) \in Seq(Values) /\ Len(Blanks(n)) = n
                           /\ DOMAIN Blanks(n) = 1..n /\ \A i \in 1..n : Blanks(n)[i] = Blank
  /\ Enhanced \in Geometries
  /\ <<>> \in Seq(Values) /\ Len(<<>>) = 0
  BY CommandsAssumption DEF Geometries, Blanks, Enhanced

LEMMA OverwriteTypes ==
  ASSUME NEW s \in Seq(Values), NEW i \in Nat \ {0}, NEW v \in Values
  PROVE  /\ Overwrite(s, i, v) \in Seq(Values)
         /\ Len(Overwrite(s, i, v)) = IF i <= Len(s) THEN Len(s) ELSE i
         /\ \A j \in 1..Len(s) : j # i => Overwrite(s, i, v)[j] = s[j]
         /\ Overwrite(s, i, v)[i] = v
  <1>1. CASE i <= Len(s)
    <2>1. Overwrite(s, i, v) = [s EXCEPT ![i] = v]
      BY <1>1 DEF Overwrite
    <2> QED
      BY <1>1, <2>1
  <1>2. CASE i > Len(s)
    <2> DEFINE n == i - 1 - Len(s)
               b == Blanks(n)
    <2>1. n \in Nat /\ Len(s) \in Nat
      BY <1>2
    <2>2. b \in Seq(Values) /\ Len(b) = n
      BY <2>1, CommandsAssumption DEF Blanks
    <2>3. Overwrite(s, i, v) = s \o b \o <<v>>
      BY <1>2 DEF Overwrite
    <2> HIDE DEF b
    <2> DEFINE t == s \o b
    <2>4. /\ t \in Seq(Values) /\ Len(t) = Len(s) + n
          /\ \A j \in 1..Len(s) : t[j] = s[j]
      BY <2>1, <2>2
    <2>5. Len(t) = i - 1
      BY <2>1, <2>4
    <2> HIDE DEF t
    <2>6. /\ t \o <<v>> \in Seq(Values) /\ Len(t \o <<v>>) = Len(t) + 1
          /\ (t \o <<v>>)[Len(t) + 1] = v
          /\ \A j \in 1..Len(t) : (t \o <<v>>)[j] = t[j]
      BY <2>4
    <2>7. Overwrite(s, i, v) = t \o <<v>>
      BY <2>3 DEF t
    <2>8. 1..Len(s) \subseteq 1..Len(t)
      BY <2>1, <2>4
    <2>9. /\ Overwrite(s, i, v) \in Seq(Values) /\ Len(Overwrite(s, i, v)) = i
          /\ Overwrite(s, i, v)[i] = v
      BY <2>5, <2>6, <2>7
    <2>10. \A j \in 1..Len(s) : Overwrite(s, i, v)[j] = s[j]
      BY <2>4, <2>6, <2>7, <2>8
    <2>11. ~(i <= Len(s))
      BY <1>2, <2>1
    <2> QED
      BY <2>9, <2>10, <2>11
  <1> QED
    BY <1>1, <1>2

(* What the image does with a request, and what it answers.                 *)
LEMMA DiskActs ==
  ASSUME DriveInv, ActOnDisk
  PROVE  LET r == atari.request
         IN  /\ mounted # "folder" /\ ~ByBooter(r) /\ handler.pc = "act"
             /\ UNCHANGED <<mounted, folder, booter, sent, atari, told, programs>>
             /\ r.op \in {"read", "write"} => r.arg \in 1..disk.size
             /\ r.op \in {"formatWith", "setPercom"} => r.arg \in Geometries
             /\ r.value \in Values /\ disk.size <= MaxSectors /\ disk.size \in Nat
             /\ disk.new \in Geometries
             /\ ActRead(r) \/ ActWrite(r) \/ ActFormat(r) \/ ActFormatWith(r) \/ ActPercom(r)
  <1> DEFINE r == atari.request
  <1> USE DEF DriveInv
  <1>1. handler.request = r /\ atari.pc # "idle"
    BY DEF ActOnDisk, PhaseInv, Busy, Waiting
  <1>2. /\ mounted # "folder" /\ ~ByBooter(r) /\ handler.pc = "act"
        /\ UNCHANGED <<mounted, folder, booter, sent, atari, told, programs>>
        /\ ActRead(r) \/ ActWrite(r) \/ ActFormat(r) \/ ActFormatWith(r) \/ ActPercom(r)
    BY <1>1 DEF ActOnDisk
  <1>3. r.op \in {"read", "write"} => r.arg \in 1..disk.size
    BY <1>2 DEF RequestInv, Op
  <1>4. r \in Asked
    BY DEF ProtocolTypeOK, AtariStates
  <1>5. r.op \in {"formatWith", "setPercom"} => r.arg \in Geometries
    <2>1. CASE atari.for = "user"
      <3>1. r \in DiskRequests
        BY <1>1, <1>2, <2>1 DEF RequestInv
      <3>2. CASE r \in [op : {"read"}, arg : 0..MaxSectors + 1, value : {Blank}]
                       \cup [op : {"write"}, arg : 0..MaxSectors + 1, value : Values]
        BY <3>2
      <3>3. CASE r \in {Ask(o, 0) : o \in {"format", "formatED", "getPercom"}}
        BY <3>3 DEF Ask
      <3>4. CASE r \in {Ask(o, n) : o \in {"formatWith", "setPercom"}, n \in Geometries}
        BY <3>4 DEF Ask
      <3> QED
        BY <3>1, <3>2, <3>3, <3>4 DEF DiskRequests
    <2>2. CASE atari.for = "dos"
      BY <1>1, <1>2, <2>2 DEF RequestInv
    <2>3. CASE atari.for = "loader"
      <3>1. Loads
        BY <1>1, <2>3 DEF Loads
      <3>2. r \in {Ask("read", 1), Ask("chunkInfo", Memory), Ask("chunk", Memory), Ask("run", 0)}
        BY <1>1, <3>1 DEF LoaderInv
      <3> QED
        BY <3>2 DEF Ask
    <2> QED
      BY <2>1, <2>2, <2>3 DEF ProtocolTypeOK, AtariStates
  <1>6. r.value \in Values /\ disk.size \in Geometries /\ disk.new \in Geometries
    BY <1>4 DEF Asked, DriveTypeOK
  <1> HIDE DEF r, DriveInv
  <1>7. disk.size <= MaxSectors /\ disk.size \in Nat
    BY <1>6, DiskTypes
  <1> QED
    BY <1>2, <1>3, <1>5, <1>6, <1>7 DEF r

(* An error, or an answer to a request that is carried out.                 *)
LEMMA DiskAnswers ==
  ASSUME DriveInv, ActOnDisk
  PROVE  \/ ReportsError
         \/ \E a \in Frames : /\ Replies(a) /\ a.tag = "data"
                              /\ Op \notin WantsData => a = Done
                              /\ Op = "read" => a # Done
  <1> DEFINE r == atari.request
  <1>1. /\ ActRead(r) \/ ActWrite(r) \/ ActFormat(r) \/ ActFormatWith(r) \/ ActPercom(r)
        /\ r.op \in {"read", "write"} => r.arg \in 1..disk.size
        /\ disk.new \in Geometries
    BY DiskActs
  <1>2. CASE ActRead(r)
    <2>1. CASE r.arg <= Len(disk.content)
      <3>1. disk.content[r.arg] \in Values
        BY <1>1, <1>2, <2>1 DEF ActRead, DriveInv, DriveTypeOK
      <3>2. Replies(Answer(disk.content[r.arg])) /\ Op = "read"
        BY <1>2, <2>1 DEF ActRead, Op
      <3>3. Answer(disk.content[r.arg]).data # Done.data /\ Answer(disk.content[r.arg]).tag = "data"
        BY <3>1, CommandsAssumption DEF Answer, Done
      <3>4. Answer(disk.content[r.arg]) \in Frames
        BY <3>1, FrameTypes DEF Data
      <3> QED
        BY <3>2, <3>3, <3>4 DEF WantsData
    <2>2. CASE ~(r.arg <= Len(disk.content))
      BY <1>2, <2>2 DEF ActRead
    <2> QED
      BY <2>1, <2>2
  <1>3. CASE ActWrite(r) \/ ActFormat(r) \/ ActFormatWith(r)
    <2>1. (ReportsError \/ Replies(Done)) /\ Op # "read"
      BY <1>3 DEF ActWrite, ActFormat, ActFormatWith, Op
    <2> QED
      BY <2>1, DoneIsAnswer
  <1>4. CASE ActPercom(r)
    <2>1. CASE r.op = "setPercom" /\ Replies(Done)
      BY <2>1, DoneIsAnswer DEF Op
    <2>2. CASE r.op = "getPercom" /\ Replies(Answer(disk.new))
      <3>1. Answer(disk.new) \in Frames
        BY <1>1, DiskTypes, FrameTypes DEF Data
      <3> QED
        BY <2>2, <3>1 DEF Op, WantsData, Answer
    <2> QED
      BY <1>4, <2>1, <2>2 DEF ActPercom
  <1> QED
    BY <1>1, <1>2, <1>3, <1>4

LEMMA ActOnDiskKeeps ==
  ASSUME DriveInv, ActOnDisk
  PROVE  DriveInv'
  <1> DEFINE r == atari.request
  <1>1. /\ mounted # "folder" /\ ~ByBooter(r) /\ handler.pc = "act"
        /\ UNCHANGED <<mounted, folder, booter, sent, atari, told, programs>>
    BY DiskActs
  <1>2. /\ ProtocolTypeOK' /\ PhaseInv' /\ AnswersInv'
        /\ handler' = Idle /\ ~Busy' /\ Waiting /\ atari.pc # "idle" /\ told = {}
    BY <1>1, DiskAnswers, ActKeeps
  <1>3. /\ disk' \in [content : Seq(Values), size : Geometries, new : Geometries, protected : BOOLEAN]
        /\ Len(disk'.content) <= MaxSectors
    <2>1. /\ disk \in [content : Seq(Values), size : Geometries, new : Geometries, protected : BOOLEAN]
          /\ Len(disk.content) <= MaxSectors
      BY DEF DriveInv, DriveTypeOK
    <2>2. CASE disk' = disk
      BY <2>1, <2>2
    <2>3. CASE \E n \in Geometries : Formatted(n)
      <3>0. PICK n \in Geometries : Formatted(n)
        BY <2>3
      <3>1. PICK c \in {disk.content, <<>>, Blanks(n)} :
              disk' = [disk EXCEPT !.content = c, !.size = n, !.new = n]
        BY <3>0 DEF Formatted
      <3>2. c \in Seq(Values) /\ Len(c) <= MaxSectors
        <4>1. MaxSectors \in Nat /\ 0 <= MaxSectors
          BY CommandsAssumption
        <4>2. CASE c = disk.content
          BY <2>1, <4>2
        <4>3. CASE c = <<>>
          BY <4>1, <4>3, DiskTypes
        <4>4. CASE c = Blanks(n)
          BY <3>0, <4>4, DiskTypes
        <4> QED
          BY <3>1, <4>2, <4>3, <4>4
      <3> QED
        BY <2>1, <3>0, <3>1, <3>2
    <2>4. CASE \E n \in Geometries : disk' = [disk EXCEPT !.new = n]
      BY <2>1, <2>4
    <2>5. CASE ActWrite(r) /\ disk' # disk
      <3>1. /\ disk' = [disk EXCEPT !.content = Overwrite(disk.content, r.arg, r.value)]
            /\ r.arg \in Nat \ {0} /\ r.value \in Values /\ r.arg <= MaxSectors
        BY <2>5, DiskActs, CommandsAssumption DEF ActWrite
      <3>2. /\ Overwrite(disk.content, r.arg, r.value) \in Seq(Values)
            /\ Len(Overwrite(disk.content, r.arg, r.value)) <= MaxSectors
        <4>1. disk.content \in Seq(Values)
          BY <2>1
        <4> HIDE DEF r
        <4>2. /\ Overwrite(disk.content, r.arg, r.value) \in Seq(Values)
              /\ Len(Overwrite(disk.content, r.arg, r.value))
                   = IF r.arg <= Len(disk.content) THEN Len(disk.content) ELSE r.arg
          BY <3>1, <4>1, OverwriteTypes
        <4> QED
          BY <2>1, <3>1, <4>2
      <3> QED
        BY <2>1, <3>1, <3>2
    <2>6. /\ ActRead(r) \/ ActWrite(r) \/ ActFormat(r) \/ ActFormatWith(r) \/ ActPercom(r)
          /\ r.op \in {"formatWith", "setPercom"} => r.arg \in Geometries
          /\ disk.new \in Geometries
      BY DiskActs
    <2>7. ActRead(r) => disk' = disk
      BY DEF ActRead
    <2>8. ActFormat(r) => disk' = disk \/ \E n \in Geometries : Formatted(n)
      BY <2>6, DiskTypes DEF ActFormat
    <2>9. ActFormatWith(r) =>
            \/ \E n \in Geometries : Formatted(n)
            \/ \E n \in Geometries : disk' = [disk EXCEPT !.new = n]
      BY <2>6 DEF ActFormatWith
    <2>10. ActPercom(r) => disk' = disk \/ \E n \in Geometries : disk' = [disk EXCEPT !.new = n]
      BY <2>6 DEF ActPercom
    <2> QED
      BY <2>2, <2>3, <2>4, <2>5, <2>6, <2>7, <2>8, <2>9, <2>10
  <1> USE DEF DriveInv
  <1>4. DriveTypeOK'
    BY <1>1, <1>3 DEF DriveTypeOK, programs
  <1>5. RequestInv'
    BY <1>1, <1>2 DEF RequestInv, Busy, Op
  <1>6. handler'.pc = "idle"
    BY <1>2 DEF Idle
  <1>7. LoaderInv'
    <2>1. Loads => loader.stage = "boot" /\ r = Ask("read", 1) /\ booter.loaded
      <3>1. SUFFICES ASSUME Loads PROVE loader.stage = "boot" /\ r = Ask("read", 1) /\ booter.loaded
        OBVIOUS
      <3>2. loader.stage \in {"boot", "info", "chunk", "run"} /\ mounted = "booter"
        BY <3>1 DEF LoaderInv
      <3>3. loader.stage \in {"info", "chunk", "run"} => r.op \in {"chunkInfo", "chunk", "run"}
        BY <1>2, <3>1 DEF LoaderInv, Ask
      <3>4. loader.stage = "boot" /\ r = Ask("read", 1)
        BY <1>1, <1>2, <3>1, <3>2, <3>3 DEF LoaderInv, ByBooter
      <3>5. 1 <= SectorCount
        BY BooterAssumption DEF SectorCount
      <3>6. booter.loaded
        BY <1>1, <3>2, <3>4, <3>5 DEF ByBooter, ServesSector, Ask
      <3> QED
        BY <3>4, <3>6
    <2>2. Loads => \A a \in answers' : a # Done
      <3>1. SUFFICES ASSUME Loads PROVE \A a \in answers' : a # Done
        OBVIOUS
      <3>2. Op = "read" /\ \A a \in answers : a # Done
        BY <2>1, <3>1 DEF LoaderInv, Op, Ask
      <3>3. answers' = answers \/ \E a : answers' = answers \cup {a} /\ a # Done
        BY <3>2, DiskAnswers DEF ReportsError, Replies
      <3> QED
        BY <3>2, <3>3
    <2> QED
      BY <1>1, <1>2, <1>6, <2>1, <2>2 DEF LoaderInv, Loads, Memory, Pristine, programs
  <1>8. \A f \in Files : reader[f].stage = "closed"
    BY <1>1 DEF ReaderInv
  <1>9. ReaderInv'
    BY <1>1, <1>8 DEF ReaderInv, Reads, programs
  <1>10. WindowInv'
    BY <1>1, <1>8 DEF WindowInv, InPlace, programs
  <1> QED
    BY <1>2, <1>4, <1>5, <1>7, <1>9, <1>10

LEMMA FolderTypes ==
  /\ LastSector \in Nat /\ LastSector >= 433 /\ Window \in Nat /\ Window = LastSector - 432
  /\ \A f \in Files : f \in 0..63 /\ First(f) \in 369..432 /\ Blocks[f] \in Nat
                      /\ IsFirst(First(f)) /\ First(f) - 369 = f
  /\ Directory = 361
  /\ \A s : IsFirst(s) => s \in 369..432 /\ s - 369 \in Files
  /\ \A p \in Nat : p * Window \in Nat /\ (p + 1) * Window = p * Window + Window
  <1>1. /\ LastSector \in Nat /\ LastSector >= 433 /\ Window \in Nat /\ Window = LastSector - 432
        /\ Directory = 361
    BY FolderAssumption DEF Window, Directory
  <1>2. \A f \in Files : f \in 0..63 /\ First(f) \in 369..432 /\ Blocks[f] \in Nat
                         /\ First(f) - 369 = f
    BY FolderAssumption DEF Files, First
  <1>3. \A s : IsFirst(s) <=> \E f \in Files : s = First(f)
    BY DEF IsFirst
  <1>4. ASSUME NEW p \in Nat
        PROVE  p * Window \in Nat /\ (p + 1) * Window = p * Window + Window
    <2> HIDE DEF Window
    <2> QED
      BY <1>1
  <1> QED
    BY <1>1, <1>2, <1>3, <1>4

LEMMA DataTypes ==
  ASSUME NEW f \in Files, NEW b \in Nat, NEW s \in 433..LastSector
  PROVE  /\ DataOf(f, b, s) \in DosData
         /\ DataOf(f, b, s).file = f /\ DataOf(f, b, s).block = b
         /\ DataOf(f, b, s).full = (b < Blocks[f])
         /\ DataOf(f, b, s).next = IF b + 1 >= Blocks[f] THEN 0 ELSE s
  BY FolderTypes DEF DataOf, DosData

(* What a folder answers to a read of its window.                           *)
LEMMA WindowTypes ==
  ASSUME NEW s \in 433..LastSector, folder \in Folders
  PROVE  /\ WindowData(folder, s) \in DosData
         /\ WindowData(folder, s).file = folder.current
         /\ WindowData(folder, s).block = 1 + (s - 433) + folder.pass[folder.current] * Window
         /\ LET d == WindowData(folder, s)
            IN  /\ d.full = (d.block < Blocks[d.file])
                /\ d.next = IF d.block + 1 >= Blocks[d.file] THEN 0
                            ELSE IF s = LastSector THEN 433 ELSE s + 1
  <1>1. folder.current \in Files /\ folder.pass[folder.current] \in Nat
    BY DEF Folders
  <1>2. LastSector \in Nat /\ LastSector >= 433 /\ s \in Nat /\ s >= 433 /\ s <= LastSector
    BY FolderTypes
  <1>3. BlockAt(folder, s) \in Nat
        /\ BlockAt(folder, s) = 1 + (s - 433) + folder.pass[folder.current] * Window
    <2> DEFINE w == folder.pass[folder.current] * Window
    <2>1. w \in Nat
      BY <1>1, FolderTypes
    <2>2. BlockAt(folder, s) = 1 + (s - 433) + w
      BY DEF BlockAt
    <2> HIDE DEF w
    <2>3. 1 + (s - 433) + w \in Nat
      BY <1>2, <2>1
    <2> QED
      BY <2>2, <2>3 DEF w
  <1>4. (IF s = LastSector THEN 433 ELSE s + 1) \in 433..LastSector
    BY <1>2
  <1>5. WindowData(folder, s)
          = DataOf(folder.current, BlockAt(folder, s), IF s = LastSector THEN 433 ELSE s + 1)
    BY DEF WindowData
  <1> QED
    BY <1>1, <1>3, <1>4, <1>5, DataTypes

LEMMA AfterReadTypes ==
  ASSUME NEW s \in Nat, folder \in Folders
  PROVE  /\ AfterRead(folder, s) \in Folders
         /\ s = Directory => \A f \in Files : AfterRead(folder, s).pass[f] = 0
         /\ \A f \in Files :
              \/ AfterRead(folder, s).pass[f] = folder.pass[f]
              \/ /\ s \in {1, Directory} /\ AfterRead(folder, s).pass[f] = 0
              \/ /\ s = LastSector /\ f = folder.current
                 /\ AfterRead(folder, s).pass[f] = folder.pass[f] + 1
         /\ s = LastSector => AfterRead(folder, s).pass[folder.current]
                                = folder.pass[folder.current] + 1
         /\ s \in 433..LastSector => AfterRead(folder, s).current = folder.current
  <1> DEFINE new == AfterRead(folder, s)
  <1>1. folder.current \in Files /\ folder.pass \in [Files -> Nat]
    BY DEF Folders
  <1>2. CASE s = Directory \/ (s = 1 /\ folder.boots)
    <2>1. new = [folder EXCEPT !.pass = [f \in Files |-> 0]]
      BY <1>2 DEF AfterRead, BuildDirectory
    <2>2. s < 433 /\ s # LastSector
      BY <1>2, FolderTypes
    <2>3. [f \in Files |-> 0] \in [Files -> Nat]
      OBVIOUS
    <2> QED
      BY <1>1, <1>2, <2>1, <2>2, <2>3, FolderTypes DEF Folders
  <1>3. CASE ~(s = Directory \/ (s = 1 /\ folder.boots)) /\ IsFirst(s)
    <2>1. new = [folder EXCEPT !.current = s - 369] /\ s - 369 \in Files /\ s < 433
      BY <1>3, FolderTypes DEF AfterRead
    <2> QED
      BY <1>1, <1>3, <2>1, FolderTypes DEF Folders
  <1>4. CASE ~(s = Directory \/ (s = 1 /\ folder.boots)) /\ ~IsFirst(s) /\ s = LastSector
    <2>1. new = [folder EXCEPT !.pass[folder.current] = folder.pass[folder.current] + 1]
      BY <1>4 DEF AfterRead
    <2>2. folder.pass[folder.current] + 1 \in Nat
      BY <1>1
    <2> QED
      BY <1>1, <1>4, <2>1, <2>2 DEF Folders
  <1>5. CASE ~(s = Directory \/ (s = 1 /\ folder.boots)) /\ ~IsFirst(s) /\ s # LastSector
    BY <1>5 DEF AfterRead
  <1> QED
    BY <1>2, <1>3, <1>4, <1>5

(* What the folder's handler does, seen from the request.                   *)
LEMMA FolderActs ==
  ASSUME DriveInv, ActOnFolder
  PROVE  LET s == atari.request.arg
         IN  /\ handler.pc = "act" /\ mounted = "folder" /\ s \in Nat
             /\ UNCHANGED <<mounted, disk, booter, sent, atari, told, reader, loader>>
             /\ folder' = AfterRead(folder, s) /\ folder \in Folders
             /\ \E a \in Frames :
                  /\ Replies(a) /\ a.tag = "data"
                  /\ IsFirst(s) => a = Answer(FirstData(s - 369))
                  /\ s \in 433..LastSector => a = Answer(WindowData(folder, s))
             /\ Op = "read" /\ atari.pc # "idle"
             /\ slid' = slid \cup
                  {f \in Files :
                     /\ reader[f].stage # "closed"
                     /\ \/ folder'.pass[f] < folder.pass[f]
                        \/ /\ s = LastSector /\ folder.current = f
                           /\ answers # {} \/ atari.file # f}
  <1> DEFINE s == atari.request.arg
  <1> USE DEF DriveInv
  <1>1. handler.request = atari.request /\ handler.pc = "act" /\ atari.pc # "idle"
    BY DEF ActOnFolder, PhaseInv, Busy, Waiting
  <1>2. s \in Nat
    BY DEF ProtocolTypeOK, AtariStates, Asked
  <1>3. folder \in Folders
    BY DEF DriveTypeOK
  <1>4. /\ mounted = "folder"
        /\ UNCHANGED <<mounted, disk, booter, sent, atari, told, reader, loader>>
        /\ folder' = AfterRead(folder, s)
        /\ Replies(IF IsFirst(s) THEN Answer(FirstData(s - 369))
                   ELSE IF IsData(s) THEN Answer(WindowData(folder, s))
                   ELSE Done)
        /\ slid' = slid \cup
             {f \in Files :
                /\ reader[f].stage # "closed"
                /\ \/ folder'.pass[f] < folder.pass[f]
                   \/ /\ s = LastSector /\ folder.current = f
                      /\ answers # {} \/ atari.file # f}
    BY <1>1 DEF ActOnFolder
  <1>5. Op = "read"
    BY <1>1, <1>4 DEF RequestInv
  <1> HIDE DEF s, DriveInv
  <1>6. \E a \in Frames :
          /\ Replies(a) /\ a.tag = "data"
          /\ IsFirst(s) => a = Answer(FirstData(s - 369))
          /\ s \in 433..LastSector => a = Answer(WindowData(folder, s))
    <2>1. CASE IsFirst(s)
      <3>1. s - 369 \in Files /\ s < 433
        BY <2>1, FolderTypes
      <3>2. FirstData(s - 369) \in DosData
        BY <3>1, DataTypes, FolderTypes DEF FirstData
      <3>3. Answer(FirstData(s - 369)) \in Frames /\ Answer(FirstData(s - 369)).tag = "data"
        BY <3>2, FrameTypes DEF Data, Answer
      <3>4. s \notin 433..LastSector
        BY <3>1, FolderTypes
      <3> QED
        BY <1>4, <2>1, <3>3, <3>4
    <2>2. CASE ~IsFirst(s) /\ IsData(s)
      <3>1. s \in 433..LastSector
        BY <1>2, <2>2, FolderTypes DEF IsData
      <3>2. Answer(WindowData(folder, s)) \in Frames /\ Answer(WindowData(folder, s)).tag = "data"
        BY <1>3, <3>1, WindowTypes, FrameTypes DEF Data, Answer
      <3> QED
        BY <1>4, <2>2, <3>2
    <2>3. CASE ~IsFirst(s) /\ ~IsData(s)
      <3>1. s \notin 433..LastSector
        BY <2>3, FolderTypes DEF IsData
      <3> QED
        BY <1>4, <2>3, <3>1, DoneIsAnswer
    <2> QED
      BY <2>1, <2>2, <2>3
  <1> QED
    BY <1>1, <1>2, <1>3, <1>4, <1>5, <1>6 DEF s

(* A reader whose file has not slid finds, whatever is read, its block where *)
(* it expects it, or has been given it.                                     *)
LEMMA ReaderServed ==
  ASSUME DriveInv, ActOnFolder, NEW f \in Files, f \notin slid'
  PROVE  LET r == reader[f]
         IN  /\ r.right
             /\ r.stage = "dir" => r.count = 0 /\ folder'.pass[f] = 0
             /\ r.stage = "open" => InPlace(f, r.next, r.count)'
             /\ r.stage = "data" =>
                  /\ r.next # LastSector => InPlace(f, r.next, r.count)'
                  /\ \A a \in answers' : a.data.file = f => InOrder(f, a.data)'
  <1> DEFINE s == atari.request.arg
             r == reader[f]
             p == folder.pass[f]
  <1>1. /\ mounted = "folder" /\ s \in Nat /\ UNCHANGED <<atari, told, reader>>
        /\ folder' = AfterRead(folder, s) /\ folder \in Folders
        /\ Op = "read" /\ atari.pc # "idle"
    BY FolderActs
  <1>2. PICK b \in Frames : /\ Replies(b)
                            /\ IsFirst(s) => b = Answer(FirstData(s - 369))
                            /\ s \in 433..LastSector => b = Answer(WindowData(folder, s))
    BY FolderActs
  <1>3. answers' = answers \cup {b} /\ told = {}
    BY <1>1, <1>2 DEF Replies, DriveInv, PhaseInv
  <1>4. f \notin slid /\ (r.stage = "closed" \/ /\ ~(folder'.pass[f] < p)
                                                /\ ~(s = LastSector /\ folder.current = f
                                                     /\ (answers # {} \/ atari.file # f)))
    BY FolderActs
  <1>5. /\ p \in Nat /\ folder'.pass[f] \in Nat /\ Blocks[f] \in Nat /\ r.count \in Nat
        /\ First(f) \in 369..432 /\ LastSector \in Nat /\ LastSector >= 433
    <2>1. folder' \in Folders
      BY <1>1, AfterReadTypes
    <2>2. p \in Nat /\ folder'.pass[f] \in Nat
      BY <1>1, <2>1 DEF Folders
    <2>3. r.count \in Nat
      BY DEF DriveInv, DriveTypeOK
    <2> QED
      BY <2>2, <2>3, FolderTypes
  <1>6. \/ folder'.pass[f] = p
        \/ s \in {1, Directory} /\ folder'.pass[f] = 0
        \/ s = LastSector /\ f = folder.current /\ folder'.pass[f] = p + 1
    BY <1>1, AfterReadTypes
  <1>7. /\ r.right
        /\ r.stage = "dir" => r.count = 0
        /\ r.stage = "open" => InPlace(f, r.next, r.count)
        /\ r.stage = "data" =>
             /\ (answers = {} \/ r.next # LastSector) => InPlace(f, r.next, r.count)
             /\ \A a \in answers : a.data.file = f => InOrder(f, a.data)
    BY <1>3, <1>4 DEF DriveInv, WindowInv
  <1>8. /\ r.stage = "dir" => s = Directory
        /\ r.stage = "data" => /\ s = r.next /\ atari.file = f
                               /\ r.next = First(f) \/ r.next \in 433..LastSector
    <2>1. /\ r.stage = "dir" => atari.request = Ask("read", Directory)
          /\ r.stage = "data" => atari.request = Ask("read", r.next) /\ Reads(f)
          /\ r.stage = "data" => r.next = First(f) \/ r.next \in 433..LastSector
      BY <1>1 DEF DriveInv, ReaderInv
    <2> QED
      BY <2>1 DEF Ask, Reads
  <1>9. r.stage = "open" => atari.for = "user" \/ atari.file # f
    BY <1>1 DEF DriveInv, ReaderInv, Reads, RequestInv, ProtocolTypeOK, AtariStates
  <1>10. atari.for = "user" => s \in {1, Directory}
    BY <1>1 DEF DriveInv, ReaderInv
  <1>11. Directory = 361
    BY FolderTypes
  <1>12. CASE r.stage = "dir"
    <2>1. folder'.pass[f] = 0
      BY <1>1, <1>8, <1>12, AfterReadTypes
    <2> QED
      BY <1>7, <1>12, <2>1
  <1>13. CASE r.stage = "open"
    <2>1. ~(s = LastSector /\ folder.current = f)
      BY <1>4, <1>5, <1>9, <1>10, <1>11, <1>13
    <2>2. folder'.pass[f] = p
      BY <1>4, <1>5, <1>6, <1>13, <2>1
    <2>3. InPlace(f, r.next, r.count)'
      BY <1>1, <1>7, <1>13, <2>2 DEF InPlace
    <2> QED
      BY <1>7, <1>13, <2>3
  <1>14. CASE r.stage = "data"
    <2>1. s = r.next /\ atari.file = f /\ s \notin {1, Directory}
      BY <1>5, <1>8, <1>11, <1>14
    <2>2. folder'.pass[f] = p \/ (s = LastSector /\ f = folder.current /\ answers = {}
                                  /\ folder'.pass[f] = p + 1)
      BY <1>4, <1>6, <1>14, <2>1
    <2>3. r.next # LastSector => InPlace(f, r.next, r.count)'
      BY <1>1, <1>7, <1>14, <2>1, <2>2 DEF InPlace
    <2>4. ASSUME NEW a \in answers, a.data.file = f
          PROVE  InOrder(f, a.data)'
      <3>1. InOrder(f, a.data) /\ folder'.pass[f] = p
        BY <1>7, <1>14, <2>2, <2>4
      <3> QED
        BY <1>1, <3>1 DEF InOrder, InPlace
    <2>5. ASSUME b.data.file = f
          PROVE  InOrder(f, b.data)'
      <3>1. CASE s = First(f)
        <4>1. InPlace(f, s, r.count) /\ r.count = 0 /\ p = 0
          BY <1>5, <1>7, <1>14, <2>1, <3>1 DEF InPlace
        <4>2. b.data = DataOf(f, 0, 433)
          BY <1>2, <3>1, FolderTypes DEF FirstData, Answer
        <4>3. folder'.pass[f] = 0
          BY <1>5, <2>2, <3>1, <4>1
        <4>4. /\ b.data.block = 0 /\ b.data.full = (0 < Blocks[f])
              /\ b.data.next = IF 1 >= Blocks[f] THEN 0 ELSE 433
          BY <1>5, <4>2, DataTypes
        <4>5. 0 * Window = 0
          BY FolderTypes
        <4> QED
          <5>1. b.data.next # 0 => InPlace(f, b.data.next, r.count + 1)'
            BY <1>1, <1>5, <4>1, <4>3, <4>4, <4>5 DEF InPlace
          <5>2. b.data.next = 0 => r.count + 1 >= Blocks[f]
            BY <1>5, <4>1, <4>4
          <5> QED
            BY <1>1, <1>5, <4>1, <4>4, <5>1, <5>2 DEF InOrder
      <3>2. CASE s \in 433..LastSector
        <4>1. PICK d : d = WindowData(folder, s) /\ b.data = d
          BY <1>2, <3>2 DEF Answer
        <4>2. folder.current = f
          BY <1>1, <2>5, <3>2, <4>1, WindowTypes
        <4> DEFINE w == p * Window
                   n == r.count
        <4>3. /\ d.block = 1 + (s - 433) + w /\ d.full = (d.block < Blocks[f])
              /\ d.next = IF d.block + 1 >= Blocks[f] THEN 0
                          ELSE IF s = LastSector THEN 433 ELSE s + 1
          <5>1. /\ d.file = folder.current
                /\ d.block = 1 + (s - 433) + folder.pass[folder.current] * Window
                /\ d.full = (d.block < Blocks[d.file])
                /\ d.next = IF d.block + 1 >= Blocks[d.file] THEN 0
                            ELSE IF s = LastSector THEN 433 ELSE s + 1
            <6> HIDE DEF s
            <6> QED
              BY <1>1, <3>2, <4>1, WindowTypes
          <5> QED
            BY <4>2, <5>1
        <4>4. s = LastSector => answers = {}
          BY <1>4, <1>14, <4>2
        <4>5. n = 1 + (s - 433) + w /\ n < Blocks[f]
          BY <1>5, <1>7, <1>14, <2>1, <3>2, <4>4 DEF InPlace
        <4>6. /\ n \in Nat /\ w \in Nat /\ Blocks[f] \in Nat /\ s \in 433..LastSector
              /\ LastSector \in Nat
          BY <1>5, <3>2, FolderTypes
        <4> HIDE DEF w, n
        <4>7. /\ d.block = n /\ d.full = (n < Blocks[f])
              /\ d.next = 0 => n + 1 >= Blocks[f]
          BY <4>3, <4>5, <4>6
        <4> DEFINE u == folder'.pass[f] * Window
        <4>8. d.next # 0 => /\ d.next \in 433..LastSector /\ n + 1 < Blocks[f]
                            /\ n + 1 = 1 + (d.next - 433) + u
          <5>1. CASE s = LastSector
            <6>1. folder'.pass[f] = p + 1
              BY <1>1, <4>2, <5>1, AfterReadTypes
            <6>2. u = w + Window /\ Window = LastSector - 432
              BY <1>5, <6>1, FolderTypes DEF w
            <6> HIDE DEF u
            <6>3. d.next # 0 => d.next = 433 /\ n + 1 < Blocks[f]
              BY <4>3, <4>5, <4>6, <5>1
            <6> QED
              BY <4>5, <4>6, <5>1, <6>2, <6>3
          <5>2. CASE s # LastSector
            <6>1. u = w
              BY <2>2, <5>2 DEF w
            <6> HIDE DEF u
            <6>2. d.next # 0 => d.next = s + 1 /\ n + 1 < Blocks[f]
              BY <4>3, <4>5, <4>6, <5>2
            <6> QED
              BY <4>5, <4>6, <5>2, <6>1, <6>2
          <5> QED
            BY <5>1, <5>2
        <4>9. d.next # 0 => InPlace(f, d.next, r.count + 1)'
          BY <1>1, <4>8 DEF InPlace, n
        <4> QED
          BY <1>1, <4>1, <4>5, <4>7, <4>9 DEF InOrder, n
      <3> QED
        BY <1>8, <1>14, <2>1, <3>1, <3>2
    <2> QED
      BY <1>3, <1>7, <1>14, <2>3, <2>4, <2>5
  <1> QED
    BY <1>7, <1>12, <1>13, <1>14

LEMMA ActOnFolderKeeps ==
  ASSUME DriveInv, ActOnFolder
  PROVE  DriveInv'
  <1> DEFINE s == atari.request.arg
  <1>1. /\ handler.pc = "act" /\ mounted = "folder" /\ s \in Nat
        /\ UNCHANGED <<mounted, disk, booter, sent, atari, told, reader, loader>>
        /\ folder' = AfterRead(folder, s) /\ folder \in Folders
        /\ Op = "read" /\ atari.pc # "idle"
    BY FolderActs
  <1>2. PICK b \in Frames : /\ Replies(b) /\ b.tag = "data"
                            /\ IsFirst(s) => b = Answer(FirstData(s - 369))
                            /\ s \in 433..LastSector => b = Answer(WindowData(folder, s))
    BY FolderActs
  <1>3. /\ ProtocolTypeOK' /\ PhaseInv' /\ AnswersInv'
        /\ handler' = Idle /\ ~Busy' /\ Waiting /\ atari.pc # "idle" /\ told = {}
    BY <1>1, <1>2, ActKeeps DEF WantsData
  <1>4. handler'.pc = "idle"
    BY <1>3 DEF Idle
  <1>5. answers' = answers \cup {b}
    BY <1>2 DEF Replies
  <1> USE DEF DriveInv
  <1>6. DriveTypeOK'
    <2>1. slid' \subseteq Files
      BY FolderActs DEF DriveTypeOK
    <2> QED
      BY <1>1, <2>1, AfterReadTypes DEF DriveTypeOK
  <1>7. RequestInv'
    BY <1>1, <1>4 DEF RequestInv, Op
  <1>8. LoaderInv'
    BY <1>1, <1>4 DEF LoaderInv, Loads, Memory, Pristine
  <1>9. ReaderInv'
    <2>1. ASSUME NEW f \in Files, reader[f].stage = "data"
          PROVE  b.data \in DosData
      <3>1. /\ atari.request = Ask("read", reader[f].next)
            /\ reader[f].next = First(f) \/ reader[f].next \in 433..LastSector
        BY <1>1, <2>1 DEF ReaderInv
      <3>2. s = reader[f].next
        BY <3>1 DEF Ask
      <3>3. CASE s = First(f)
        <4>1. b = Answer(FirstData(f))
          BY <1>2, <3>3, FolderTypes
        <4> QED
          BY <4>1, DataTypes, FolderTypes DEF FirstData, Answer
      <3>4. CASE s \in 433..LastSector
        BY <1>1, <1>2, <3>4, WindowTypes DEF Answer
      <3> QED
        BY <3>1, <3>2, <3>3, <3>4
    <2> QED
      BY <1>1, <1>5, <2>1 DEF ReaderInv, Reads
  <1>10. WindowInv'
    BY <1>1, <1>3, <1>5, ReaderServed DEF WindowInv
  <1> QED
    BY <1>3, <1>6, <1>7, <1>8, <1>9, <1>10

(* Only the boot loader talks to the boot disk itself.                      *)
LEMMA BooterActs ==
  ASSUME DriveInv, ActOnBooter
  PROVE  LET r == atari.request
         IN  /\ handler.pc = "act" /\ mounted = "booter" /\ atari.pc # "idle" /\ told = {}
             /\ atari.for = "loader" /\ Loads
             /\ UNCHANGED <<mounted, disk, folder, sent, atari, told, programs>>
             /\ \/ /\ r.op = "read" /\ ~booter.loaded /\ loader.stage = "boot"
                   /\ Replies(Done) /\ UNCHANGED booter
                \/ r.op = "run" /\ loader.stage = "run" /\ Replies(Done) /\ UNCHANGED booter
                \/ /\ r.op = "chunkInfo" /\ loader.stage = "info" /\ HasChunk(booter, Memory)
                   /\ Replies(Answer(ChunkInfo(booter, Memory))) /\ booter' = Loading(booter)
                \/ /\ r.op = "chunk" /\ loader.stage = "chunk" /\ HasChunk(booter, Memory)
                   /\ Replies(Answer(booter.chunks[Memory + 1]))
                   /\ booter' = ChunkSent(booter, Memory)
                \/ /\ loader.stage \in {"info", "chunk"} /\ ~HasChunk(booter, Memory)
                   /\ HandlerGoes("crash") /\ UNCHANGED <<line, answers, booter>>
  <1> DEFINE r == atari.request
  <1> USE DEF DriveInv
  <1>1. handler.request = r /\ atari.pc # "idle" /\ told = {} /\ handler.pc = "act"
    BY DEF ActOnBooter, PhaseInv, Busy, Waiting
  <1>2. mounted = "booter" /\ ByBooter(r)
    BY <1>1 DEF ActOnBooter, ByBooter
  <1>3. atari.for = "loader"
    <2>1. atari.for # "dos"
      BY <1>1, <1>2 DEF RequestInv
    <2>2. ASSUME atari.for = "user" PROVE FALSE
      <3>1. r \in DiskRequests /\ booter.loaded
        BY <1>1, <1>2, <2>2 DEF RequestInv
      <3>2. r.op \notin {"chunkInfo", "chunk", "run"}
        <4>1. CASE r \in [op : {"read"}, arg : 0..MaxSectors + 1, value : {Blank}]
                       \cup [op : {"write"}, arg : 0..MaxSectors + 1, value : Values]
          BY <4>1
        <4>2. CASE r \in {Ask(o, 0) : o \in {"format", "formatED", "getPercom"}}
          BY <4>2 DEF Ask
        <4>3. CASE r \in {Ask(o, n) : o \in {"formatWith", "setPercom"}, n \in Geometries}
          BY <4>3 DEF Ask
        <4> QED
          BY <3>1, <4>1, <4>2, <4>3 DEF DiskRequests
      <3> QED
        BY <1>2, <3>1, <3>2 DEF ByBooter, ServesSector
    <2> QED
      BY <2>1, <2>2 DEF ProtocolTypeOK, AtariStates
  <1>4. Loads /\ loader.stage \in {"boot", "info", "chunk", "run"}
    BY <1>1, <1>3 DEF Loads, LoaderInv
  <1>5. /\ loader.stage = "boot" => r.op = "read"
        /\ loader.stage = "info" => r.op = "chunkInfo" /\ r.arg = Memory
        /\ loader.stage = "chunk" => r.op = "chunk" /\ r.arg = Memory
        /\ loader.stage = "run" => r.op = "run"
    BY <1>1, <1>4 DEF LoaderInv, Ask
  <1>6. r.op = "read" => ~booter.loaded
    BY <1>2 DEF ByBooter, ServesSector
  <1>7. /\ UNCHANGED <<mounted, disk, folder, sent, atari, told, programs>>
        /\ \/ r.op = "read" /\ Replies(Done) /\ UNCHANGED booter
           \/ r.op = "run" /\ Replies(Done) /\ UNCHANGED booter
           \/ /\ r.op = "chunkInfo" /\ HasChunk(booter, r.arg)
              /\ Replies(Answer(ChunkInfo(booter, r.arg)))
              /\ booter' = Loading(booter)
           \/ /\ r.op = "chunk" /\ HasChunk(booter, r.arg)
              /\ Replies(Answer(booter.chunks[r.arg + 1]))
              /\ booter' = ChunkSent(booter, r.arg)
           \/ /\ r.op \in {"chunkInfo", "chunk"} /\ ~HasChunk(booter, r.arg)
              /\ HandlerGoes("crash")
              /\ UNCHANGED <<line, answers, booter>>
    BY <1>1 DEF ActOnBooter
  <1> HIDE DEF r, DriveInv
  <1>8. CASE loader.stage = "boot"
    BY <1>1, <1>2, <1>3, <1>4, <1>5, <1>6, <1>7, <1>8 DEF r
  <1>9. CASE loader.stage = "info"
    BY <1>1, <1>2, <1>3, <1>4, <1>5, <1>7, <1>9 DEF r
  <1>10. CASE loader.stage = "chunk"
    BY <1>1, <1>2, <1>3, <1>4, <1>5, <1>7, <1>10 DEF r
  <1>11. CASE loader.stage = "run"
    BY <1>1, <1>2, <1>3, <1>4, <1>5, <1>7, <1>11 DEF r
  <1> QED
    BY <1>4, <1>8, <1>9, <1>10, <1>11

LEMMA BooterTypes ==
  ASSUME DriveInv, NEW i \in Nat, HasChunk(booter, i)
  PROVE  /\ ChunkInfo(booter, i) \in [size : Nat, more : BOOLEAN]
         /\ booter.chunks[i + 1] \in Nat
         /\ Loading(booter) \in [chunks : Seq(Nat), sizes : ChunkSizes, loaded : BOOLEAN]
         /\ Loading(booter).chunks = booter.chunks /\ Loading(booter).sizes = booter.sizes
         /\ Loading(booter).loaded
         /\ ChunkSent(booter, i) \in [chunks : Seq(Nat), sizes : ChunkSizes, loaded : BOOLEAN]
         /\ ChunkSent(booter, i).sizes = booter.sizes
         /\ ChunkSent(booter, i).loaded = booter.loaded
         /\ Len(ChunkSent(booter, i).chunks) = Len(booter.chunks)
         /\ \A j \in 1..Len(booter.chunks) :
              j # i + 1 => ChunkSent(booter, i).chunks[j] = booter.chunks[j]
  <1>1. booter \in [chunks : Seq(Nat), sizes : ChunkSizes, loaded : BOOLEAN]
    BY DEF DriveInv, DriveTypeOK
  <1>2. booter.chunks \in Seq(Nat) /\ i + 1 \in 1..Len(booter.chunks)
    BY <1>1 DEF HasChunk
  <1>3. booter.chunks[i + 1] \in Nat
    BY <1>2
  <1>4. ChunkInfo(booter, i) \in [size : Nat, more : BOOLEAN]
    BY <1>3 DEF ChunkInfo
  <1>5. /\ Loading(booter) \in [chunks : Seq(Nat), sizes : ChunkSizes, loaded : BOOLEAN]
        /\ Loading(booter).chunks = booter.chunks /\ Loading(booter).sizes = booter.sizes
        /\ Loading(booter).loaded
    BY <1>1 DEF Loading
  <1> DEFINE c == [booter.chunks EXCEPT ![i + 1] = booter.chunks[i + 1] + 1]
  <1>6. /\ c \in Seq(Nat) /\ Len(c) = Len(booter.chunks)
        /\ \A j \in 1..Len(booter.chunks) : j # i + 1 => c[j] = booter.chunks[j]
    BY <1>2, <1>3
  <1>7. ChunkSent(booter, i) = [booter EXCEPT !.chunks = c]
    BY <1>1, <1>2 DEF ChunkSent
  <1> HIDE DEF c
  <1>8. /\ ChunkSent(booter, i) \in [chunks : Seq(Nat), sizes : ChunkSizes, loaded : BOOLEAN]
        /\ ChunkSent(booter, i).sizes = booter.sizes
        /\ ChunkSent(booter, i).loaded = booter.loaded
        /\ ChunkSent(booter, i).chunks = c
    BY <1>1, <1>6, <1>7
  <1> QED
    BY <1>3, <1>4, <1>5, <1>6, <1>8

LEMMA ActOnBooterKeeps ==
  ASSUME DriveInv, ActOnBooter
  PROVE  DriveInv'
  <1> DEFINE r == atari.request
             Answered(a) == /\ Replies(a) /\ a \in Frames /\ a.tag = "data"
                            /\ Op \notin WantsData => a = Done
             Crashes == /\ loader.stage \in {"info", "chunk"} /\ ~HasChunk(booter, Memory)
                        /\ HandlerGoes("crash") /\ UNCHANGED <<line, answers, booter>>
  <1>1. /\ handler.pc = "act" /\ mounted = "booter" /\ atari.pc # "idle" /\ told = {}
        /\ atari.for = "loader" /\ Loads
        /\ UNCHANGED <<mounted, disk, folder, sent, atari, told, programs>>
    BY BooterActs
  <1>2. /\ Memory \in Nat /\ booter.chunks \in Seq(Nat) /\ Len(booter.chunks) = Len(booter.sizes)
        /\ booter.sizes \in Seq(Nat) /\ handler.request = r
        /\ booter \in [chunks : Seq(Nat), sizes : ChunkSizes, loaded : BOOLEAN]
    BY <1>1, BooterAssumption DEF DriveInv, DriveTypeOK, Memory, PhaseInv, Busy
  <1>3. \/ loader.stage = "boot" /\ ~booter.loaded /\ Answered(Done) /\ booter' = booter
        \/ loader.stage = "run" /\ Answered(Done) /\ booter' = booter
        \/ /\ loader.stage = "info" /\ HasChunk(booter, Memory)
           /\ Answered(Answer(ChunkInfo(booter, Memory))) /\ booter' = Loading(booter)
        \/ /\ loader.stage = "chunk" /\ HasChunk(booter, Memory)
           /\ \E a : Answered(a)
           /\ booter' = ChunkSent(booter, Memory)
        \/ Crashes
    <2>1. HasChunk(booter, Memory) =>
            /\ Answer(ChunkInfo(booter, Memory)) \in Frames
            /\ Answer(booter.chunks[Memory + 1]) \in Frames
      BY <1>2, BooterTypes, FrameTypes DEF Data
    <2>2. \A v : Answer(v).tag = "data"
      BY DEF Answer
    <2>3. Op = "chunkInfo" \/ Op = "chunk" => Op \in WantsData
      BY DEF WantsData
    <2> QED
      BY <2>1, <2>2, <2>3, BooterActs, DoneIsAnswer DEF Op
  <1>4. /\ ProtocolTypeOK' /\ PhaseInv' /\ AnswersInv' /\ ~Busy'
        /\ handler'.pc = "idle" \/ (Crashes /\ handler'.pc = "crash")
    <2>1. CASE \E a : Answered(a)
      <3>1. /\ ProtocolTypeOK' /\ PhaseInv' /\ AnswersInv' /\ ~Busy' /\ handler' = Idle
        BY <1>1, <2>1, ActKeeps
      <3>2. handler'.pc = "idle"
        BY <3>1 DEF Idle
      <3> QED
        BY <3>1, <3>2
    <2>2. CASE Crashes
      <3>1. handler' = [handler EXCEPT !.pc = "crash"] /\ UNCHANGED <<line, answers>>
        BY <2>2 DEF HandlerGoes
      <3>2. handler \in [pc : {"idle", "check", "data", "act", "crash"}, request : Asked]
        BY DEF DriveInv, ProtocolTypeOK
      <3>3. /\ handler' \in [pc : {"idle", "check", "data", "act", "crash"}, request : Asked]
            /\ handler'.pc = "crash"
        BY <3>1, <3>2
      <3>4. ProtocolTypeOK'
        BY <1>1, <3>1, <3>3 DEF DriveInv, ProtocolTypeOK
      <3>5. PhaseInv' /\ ~Busy'
        BY <1>1, <3>1, <3>3 DEF DriveInv, PhaseInv, Busy
      <3>6. AnswersInv'
        BY <1>1, <3>1 DEF DriveInv, AnswersInv, Waiting, Op
      <3> QED
        BY <2>2, <3>3, <3>4, <3>5, <3>6
    <2> QED
      BY <1>3, <2>1, <2>2
  <1>5. /\ booter' \in [chunks : Seq(Nat), sizes : ChunkSizes, loaded : BOOLEAN]
        /\ Len(booter'.chunks) = Len(booter'.sizes) /\ booter'.sizes = booter.sizes
        /\ booter.loaded => booter'.loaded
    <2>1. HasChunk(booter, Memory) =>
            /\ Loading(booter) \in [chunks : Seq(Nat), sizes : ChunkSizes, loaded : BOOLEAN]
            /\ Loading(booter).chunks = booter.chunks /\ Loading(booter).sizes = booter.sizes
            /\ Loading(booter).loaded
            /\ ChunkSent(booter, Memory) \in [chunks : Seq(Nat), sizes : ChunkSizes, loaded : BOOLEAN]
            /\ ChunkSent(booter, Memory).sizes = booter.sizes
            /\ ChunkSent(booter, Memory).loaded = booter.loaded
            /\ Len(ChunkSent(booter, Memory).chunks) = Len(booter.chunks)
      BY <1>2, BooterTypes
    <2> QED
      BY <1>2, <1>3, <2>1
  <1> HIDE DEF r
  <1>6. DriveTypeOK'
    BY <1>1, <1>5 DEF DriveInv, DriveTypeOK, programs
  <1>7. RequestInv'
    <2>1. handler'.pc \notin {"data", "act"}
      BY <1>4
    <2> QED
      BY <1>1, <1>5, <2>1 DEF DriveInv, RequestInv, Op
  <1>8. LoaderInv'
    <2> USE DEF DriveInv
    <2>1. loader' = loader /\ Memory' = Memory /\ Loads' = Loads /\ told' = {}
      BY <1>1 DEF programs, Memory, Loads
    <2>2. handler'.pc = "crash" => booter.sizes = <<>>
      <3>1. CASE Crashes
        BY <1>2, <3>1 DEF LoaderInv, HasChunk
      <3> QED
        BY <1>4, <3>1
    <2>3. CASE booter' = booter /\ (loader.stage = "boot" => \/ ~booter.loaded /\ Answered(Done)
                                                           \/ answers' = answers)
                               /\ (loader.stage = "info" => answers' = answers)
      <3>1. loader.stage = "boot" => \A a \in answers' : a = Done <=> ~booter.loaded
        BY <1>1, <2>3 DEF LoaderInv, Replies
      <3> QED
        BY <1>1, <2>1, <2>2, <2>3, <3>1 DEF LoaderInv, Pristine
    <2>4. CASE /\ loader.stage = "info" /\ HasChunk(booter, Memory)
               /\ Answered(Answer(ChunkInfo(booter, Memory))) /\ booter' = Loading(booter)
      <3>1. booter'.chunks = booter.chunks /\ booter'.sizes = booter.sizes /\ booter'.loaded
        BY <1>2, <2>4, BooterTypes
      <3>2. ChunkInfo(booter, Memory)' = ChunkInfo(booter, Memory)
        BY <2>1, <3>1 DEF ChunkInfo
      <3>3. Memory < Len(booter.sizes)
        BY <1>2, <2>4 DEF HasChunk
      <3>4. \A a \in answers' : a = Answer(ChunkInfo(booter, Memory))
        BY <1>1, <2>4 DEF LoaderInv, Replies
      <3> QED
        BY <1>1, <2>1, <2>2, <2>4, <3>1, <3>2, <3>3, <3>4 DEF LoaderInv, Pristine, Answer
    <2>5. CASE /\ loader.stage = "chunk" /\ HasChunk(booter, Memory)
               /\ booter' = ChunkSent(booter, Memory)
      <3>1. booter.loaded /\ booter'.loaded /\ booter'.sizes = booter.sizes
        BY <1>5, <2>5 DEF LoaderInv
      <3>2. Pristine(Memory + 2)'
        <4>1. \A j \in Memory + 2..Len(booter.sizes) : j \in 1..Len(booter.chunks) /\ j # Memory + 1
          BY <1>2
        <4>2. \A j \in Memory + 2..Len(booter.sizes) : booter'.chunks[j] = booter.chunks[j]
          BY <1>2, <2>5, <4>1, BooterTypes
        <4> QED
          BY <2>1, <2>5, <3>1, <4>2 DEF LoaderInv, Pristine
      <3> QED
        BY <1>1, <2>1, <2>2, <2>5, <3>1, <3>2 DEF LoaderInv
    <2> QED
      BY <1>3, <2>3, <2>4, <2>5
  <1>9. \A f \in Files : reader[f].stage = "closed"
    BY <1>1 DEF DriveInv, ReaderInv
  <1>10. ReaderInv'
    BY <1>1, <1>9 DEF DriveInv, ReaderInv, Reads, programs
  <1>11. WindowInv'
    BY <1>1, <1>9 DEF DriveInv, WindowInv, InPlace, programs
  <1> QED
    BY <1>4, <1>6, <1>7, <1>8, <1>10, <1>11 DEF DriveInv

-----------------------------------------------------------------------------
(* The invariant.                                                           *)

LEMMA DriveInit ==
  ASSUME Init
  PROVE  DriveInv
  <1>1. DriveTypeOK
    <2>1. mounted \in Drives /\ slid \subseteq Files
      BY DEF Init
    <2>2. /\ disk \in [content : Seq(Values), size : Geometries, new : Geometries, protected : BOOLEAN]
          /\ Len(disk.content) <= MaxSectors
      <3>1. PICK n \in Geometries, protected \in BOOLEAN : \E c \in [1..n -> Values] :
              disk = [content |-> c, size |-> n, new |-> n, protected |-> protected]
        BY DEF Init
      <3>2. PICK c \in [1..n -> Values] :
              disk = [content |-> c, size |-> n, new |-> n, protected |-> protected]
        BY <3>1
      <3>3. n \in Nat /\ n <= MaxSectors
        BY DiskTypes
      <3>4. c \in Seq(Values) /\ Len(c) = n
        BY <3>3
      <3> QED
        BY <3>2, <3>3, <3>4
    <2>3. folder \in Folders
      <3>1. \E c \in Files, boots \in BOOLEAN : folder = OpenFolder(c, boots)
        BY DEF Init
      <3> QED
        BY <3>1 DEF OpenFolder, Folders
    <2>4. /\ booter \in [chunks : Seq(Nat), sizes : ChunkSizes, loaded : BOOLEAN]
          /\ Len(booter.chunks) = Len(booter.sizes)
      <3>1. PICK s \in ChunkSizes : booter = OpenBooter(s)
        BY DEF Init
      <3>2. s \in Seq(Nat)
        BY BooterAssumption
      <3> QED
        BY <3>1, <3>2 DEF OpenBooter
    <2>5. IdleReader \in [stage : {"closed", "dir", "open", "data"},
                          next : {0} \cup (First(0)..LastSector), count : Nat, right : BOOLEAN]
      BY DEF IdleReader
    <2>6. IdleLoader \in [stage : {"boot", "info", "chunk", "run", "loaded", "disk", "halted"},
                          size : Nat, more : BOOLEAN, memory : Seq(Nat)]
      BY DEF IdleLoader
    <2> QED
      BY <2>1, <2>2, <2>3, <2>4, <2>5, <2>6 DEF Init, DriveTypeOK
  <1>2. /\ atari.pc = "idle" /\ atari.request = None /\ atari.for = "user"
        /\ handler = Idle /\ handler.pc = "idle" /\ line = <<>>
        /\ answers = {} /\ told = {} /\ loader = IdleLoader /\ loader.stage = "boot"
        /\ loader.memory = <<>> /\ Memory = 0
    BY DEF Init, Idle, IdleLoader, Memory
  <1>3. ProtocolTypeOK
    <2>1. (CHOOSE f \in Files : TRUE) \in Files
      BY FolderAssumption DEF Files
    <2>2. None \in Asked /\ "idle" \in AtariPcs
      BY RequestTypes DEF AtariPcs
    <2>3. atari \in AtariStates
      BY <2>1, <2>2 DEF Init, AtariStates
    <2>4. handler \in [pc : {"idle", "check", "data", "act", "crash"}, request : Asked]
      BY <1>2, <2>2 DEF Idle
    <2> QED
      BY <1>2, <2>3, <2>4 DEF ProtocolTypeOK
  <1>4. PhaseInv /\ AnswersInv /\ RequestInv
    BY <1>2 DEF PhaseInv, AnswersInv, RequestInv, Busy, Waiting
  <1>5. LoaderInv
    <2>1. Pristine(1) /\ ~booter.loaded
      BY DEF Init, Pristine, OpenBooter
    <2>2. Len(booter.sizes) \in Nat
      BY <1>1, BooterAssumption DEF DriveTypeOK
    <2> QED
      BY <1>2, <2>1, <2>2 DEF LoaderInv, Loads
  <1>6. \A f \in Files : reader[f] = IdleReader
    BY DEF Init
  <1>7. ReaderInv /\ WindowInv
    BY <1>2, <1>6 DEF ReaderInv, WindowInv, Reads, IdleReader
  <1> QED
    BY <1>1, <1>3, <1>4, <1>5, <1>7 DEF DriveInv

LEMMA DriveStep ==
  ASSUME DriveInv, [Next]_vars
  PROVE  DriveInv'
  <1>1. CASE Handle
    BY <1>1, CheckKeeps, ReceiveKeeps, ActOnDiskKeeps, ActOnFolderKeeps, ActOnBooterKeeps
       DEF Handle
  <1>2. CASE LoseReply \/ LoseData
    BY <1>2, LoseReplyKeeps, LoseDataKeeps
  <1>3. CASE AtariProceeds
    BY <1>3, SendCommandKeeps, HearKeeps, TimeoutKeeps, GiveUpKeeps DEF AtariProceeds
  <1>4. CASE Programs
    BY <1>4, UserRequestKeeps, DosOpenKeeps, DosReadKeeps, DosAdvanceKeeps,
       LoaderRequestKeeps, LoaderAdvanceKeeps, PowerCycleKeeps DEF Programs
  <1>5. CASE UNCHANGED vars
    <2>1. UNCHANGED <<mounted, disk, folder, booter, handler, line, sent, atari, answers, told,
                      reader, slid, loader>>
      BY <1>5 DEF vars, device, programs
    <2>2. DriveTypeOK' /\ ProtocolTypeOK' /\ PhaseInv' /\ AnswersInv' /\ RequestInv'
      BY <2>1 DEF DriveInv, DriveTypeOK, ProtocolTypeOK, PhaseInv, AnswersInv, RequestInv,
                  Waiting, Busy, Op, ByBooter
    <2>3. LoaderInv' /\ ReaderInv' /\ WindowInv'
      BY <2>1
         DEF DriveInv, LoaderInv, ReaderInv, WindowInv, Loads, Memory, Pristine,
             ChunkInfo,
                  Reads, InPlace, InOrder
    <2> QED
      BY <2>2, <2>3 DEF DriveInv
  <1> QED
    BY <1>1, <1>2, <1>3, <1>4, <1>5 DEF Next

(* Commands, replies, losses, retries and programs keep the invariant.      *)
THEOREM DriveInvariant == Spec => []DriveInv
  BY DriveInit, DriveStep, PTL DEF Spec

(* The boot loader never asks for a chunk that is not in the list, unless   *)
(* the executable has none at all: QList::at's assertion holds.             *)
THEOREM ChunkExistsAlways == Spec => []ChunkExists
  <1>1. DriveInv => ChunkExists
    BY DEF DriveInv, LoaderInv, ChunkExists
  <1> QED
    BY <1>1, DriveInvariant, PTL

(* An executable arrives chunk by chunk and with the lengths of the file,   *)
(* although every chunk that the boot disk has sent has grown.              *)
THEOREM LoadedIsFileAlways == Spec => []LoadedIsFile
  <1>1. DriveInv => LoadedIsFile
    <2>1. ASSUME DriveInv, loader.stage \in {"run", "loaded"}
          PROVE  loader.memory = booter.sizes
      <3>1. loader.memory \in Seq(Nat) /\ booter.sizes \in Seq(Nat)
        BY <2>1, BooterAssumption DEF DriveInv, DriveTypeOK
      <3>2. Len(loader.memory) = Len(booter.sizes)
            /\ \A i \in 1..Len(loader.memory) : loader.memory[i] = booter.sizes[i]
        BY <2>1 DEF DriveInv, LoaderInv, Memory
      <3> QED
        BY <3>1, <3>2
    <2> QED
      BY <2>1 DEF LoadedIsFile
  <1> QED
    BY <1>1, DriveInvariant, PTL

(* A file of a folder is read as it is, block by block, unless the window   *)
(* has slid in a way that its reader could not know of.                     *)
THEOREM FolderServesFileAlways == Spec => []FolderServesFile
  <1>1. DriveInv => FolderServesFile
    BY DEF DriveInv, WindowInv, FolderServesFile
  <1> QED
    BY <1>1, DriveInvariant, PTL

(* The types of the drive, the line, the Atari and its programs.            *)
THEOREM CommandsTypeOK == Spec => []TypeOK
  <1>1. ASSUME DriveInv PROVE TypeOK
    <2> USE <1>1 DEF DriveInv
    <2>1. /\ mounted \in Drives
          /\ disk.size \in Geometries /\ disk.new \in Geometries
          /\ disk.content \in Seq(Values) /\ Len(disk.content) <= MaxSectors
          /\ slid \subseteq Files
      BY DEF DriveTypeOK
    <2>2. folder.current \in Files /\ folder.pass \in [Files -> Nat]
      BY DEF DriveTypeOK, Folders
    <2>3. /\ booter.loaded \in BOOLEAN /\ booter.sizes \in ChunkSizes
          /\ Len(booter.chunks) = Len(booter.sizes)
          /\ loader.stage \in {"boot", "info", "chunk", "run", "loaded", "disk", "halted"}
      BY DEF DriveTypeOK
    <2>4. /\ handler.pc \in {"idle", "check", "data", "act", "crash"}
          /\ atari.pc \in {"idle", "send", "ack", "dataAck", "complete", "data", "fail"}
          /\ Len(line) <= 4 /\ \A a, b \in told : a = b
      BY DEF ProtocolTypeOK, AtariStates, AtariPcs
    <2>5. /\ atari.pc = "idle" <=> atari.request = None
          /\ handler.pc \in {"check", "data", "act"} => handler.request = atari.request
      BY DEF PhaseInv, Busy
    <2>6. reader \in [Files -> [stage : {"closed", "dir", "open", "data"},
                                next : 0..LastSector, count : Nat, right : BOOLEAN]]
      <3>1. {0} \cup (First(0)..LastSector) \subseteq 0..LastSector
        BY FolderAssumption DEF First
      <3> QED
        BY <3>1 DEF DriveTypeOK
    <2> QED
      BY <2>1, <2>2, <2>3, <2>4, <2>5, <2>6 DEF TypeOK
  <1> QED
    BY <1>1, DriveInvariant, PTL

-----------------------------------------------------------------------------
(* The drive as a disk that carries out requests at least once.             *)

RetriedRequest == IF OnDisk THEN atari.request ELSE None
RetriedAnswers == IF OnDisk THEN {a.data : a \in answers} ELSE {}
RetriedTold    == IF OnDisk THEN {a.data : a \in told} ELSE {}

LEMMA RetriedVars ==
  UNCHANGED <<disk, RetriedRequest, RetriedAnswers, RetriedTold>> => UNCHANGED Retried!vars
  BY DEF Retried!vars, RetriedRequest, RetriedAnswers, RetriedTold

(* What the image does to the disk, one request after the other.            *)
LEMMA DiskCarriesOut ==
  ASSUME DriveInv, ActOnDisk, OnDisk
  PROVE  Retried!CarryOut \/ Retried!DenyFormat \/ UNCHANGED Retried!vars
  <1> DEFINE r == atari.request
  <1>1. /\ handler.pc = "act" /\ mounted # "folder"
        /\ UNCHANGED <<mounted, folder, booter, sent, atari, told, programs>>
        /\ r.op \in {"read", "write"} => r.arg \in 1..disk.size
        /\ r.op \in {"formatWith", "setPercom"} => r.arg \in Geometries
        /\ r.value \in Values /\ disk.size \in Nat
        /\ ActRead(r) \/ ActWrite(r) \/ ActFormat(r) \/ ActFormatWith(r) \/ ActPercom(r)
    BY DiskActs
  <1>2. r # None /\ OnDisk'
    BY <1>1 DEF DriveInv, PhaseInv, Busy, Waiting, OnDisk
  <1>3. RetriedRequest = r /\ RetriedRequest' = r /\ RetriedTold' = RetriedTold
    BY <1>1, <1>2 DEF RetriedRequest, RetriedTold
  <1>4. ASSUME NEW a, Replies(a)
        PROVE  RetriedAnswers' = RetriedAnswers \cup {a.data}
    BY <1>2, <1>4 DEF RetriedAnswers, Replies
  <1>5. ReportsError => RetriedAnswers' = RetriedAnswers
    BY <1>2 DEF RetriedAnswers, ReportsError
  <1>6. disk \in [content : Seq(Values), size : Geometries, new : Geometries, protected : BOOLEAN]
    BY DEF DriveInv, DriveTypeOK
  <1>7. CASE ActRead(r)
    <2>1. CASE r.arg <= Len(disk.content)
      <3>1. r.arg \in DOMAIN disk.content
        BY <1>1, <1>6, <1>7, <2>1 DEF ActRead
      <3>2. RetriedAnswers' = RetriedAnswers \cup {disk.content[r.arg]}
        BY <1>4, <1>7, <2>1 DEF ActRead, Answer
      <3>3. disk' = disk /\ r.op = "read"
        BY <1>7 DEF ActRead
      <3>4. Retried!Read
        BY <1>3, <3>1, <3>2, <3>3
           DEF Retried!Read, Retried!Answers, RetriedRequest, RetriedAnswers
      <3> QED
        BY <1>2, <1>3, <3>4 DEF Retried!CarryOut, RetriedRequest, RetriedTold
    <2>2. CASE ~(r.arg <= Len(disk.content))
      BY <1>3, <1>5, <1>7, <2>2, RetriedVars DEF ActRead
    <2> QED
      BY <2>1, <2>2
  <1>8. CASE ActWrite(r)
    <2>1. CASE UNCHANGED disk /\ ReportsError
      BY <1>3, <1>5, <2>1, RetriedVars
    <2>2. CASE disk' = [disk EXCEPT !.content = Overwrite(disk.content, r.arg, r.value)] /\ Replies(Done)
      <3>1. r.op = "write" /\ r.arg \in 1..disk.size /\ r.arg \in Nat \ {0}
        BY <1>1, <1>8 DEF ActWrite
      <3> DEFINE c == disk.content
      <3>2. /\ disk'.content \in Seq(Values)
            /\ Len(disk'.content) = IF r.arg <= Len(c) THEN Len(c) ELSE r.arg
            /\ \A j \in 1..Len(c) : j # r.arg => disk'.content[j] = c[j]
            /\ disk'.content[r.arg] = r.value
            /\ disk'.size = disk.size /\ disk'.new = disk.new
        <4>1. c \in Seq(Values) /\ r.value \in Values
          BY <1>1, <1>6
        <4> DEFINE w == Overwrite(c, r.arg, r.value)
        <4>2. disk'.content = w /\ disk'.size = disk.size /\ disk'.new = disk.new
          BY <1>6, <2>2
        <4> HIDE DEF r, c
        <4>3. /\ w \in Seq(Values) /\ Len(w) = IF r.arg <= Len(c) THEN Len(c) ELSE r.arg
              /\ \A j \in 1..Len(c) : j # r.arg => w[j] = c[j]
              /\ w[r.arg] = r.value
          <5>1. ASSUME NEW s \in Seq(Values), NEW i \in Nat \ {0}, NEW v \in Values
                PROVE  /\ Overwrite(s, i, v) \in Seq(Values)
                       /\ Len(Overwrite(s, i, v)) = IF i <= Len(s) THEN Len(s) ELSE i
                       /\ \A j \in 1..Len(s) : j # i => Overwrite(s, i, v)[j] = s[j]
                       /\ Overwrite(s, i, v)[i] = v
            BY OverwriteTypes
          <5>2. r.arg \in Nat \ {0}
            BY <3>1
          <5>3. w \in Seq(Values)
            BY <4>1, <5>1, <5>2
          <5>4. Len(w) = IF r.arg <= Len(c) THEN Len(c) ELSE r.arg
            BY <4>1, <5>1, <5>2
          <5>5. \A j \in 1..Len(c) : j # r.arg => w[j] = c[j]
            BY <4>1, <5>1, <5>2
          <5>6. w[r.arg] = r.value
            BY <4>1, <5>1, <5>2
          <5> QED
            BY <5>3, <5>4, <5>5, <5>6
        <4> HIDE DEF w
        <4> QED
          BY <4>2, <4>3
      <3>3. DOMAIN c = 1..Len(c) /\ Len(c) \in Nat
        BY <1>6
      <3>4. DOMAIN c \cup {r.arg} \subseteq DOMAIN disk'.content
        BY <3>1, <3>2, <3>3
      <3>5. RetriedAnswers' = RetriedAnswers \cup {Done.data}
        BY <1>4, <2>2
      <3>6. Retried!Write
        BY <1>3, <3>1, <3>2, <3>3, <3>4, <3>5
           DEF Retried!Write, Retried!Answers, RetriedRequest, RetriedAnswers
      <3> QED
        BY <1>2, <1>3, <3>6 DEF Retried!CarryOut, RetriedRequest, RetriedTold
    <2> QED
      BY <1>8, <2>1, <2>2 DEF ActWrite
  <1>9. ASSUME NEW n, Formatted(n), Replies(Done)
        PROVE  Retried!Format(n)
    <2>1. PICK c \in {disk.content, <<>>, Blanks(n)} :
            disk' = [disk EXCEPT !.content = c, !.size = n, !.new = n]
      BY <1>9 DEF Formatted
    <2>2. disk'.content = c /\ disk'.size = n /\ disk'.new = n
      BY <1>6, <2>1
    <2>3. RetriedAnswers' = RetriedAnswers \cup {Done.data}
      BY <1>4, <1>9
    <2> QED
      BY <2>1, <2>2, <2>3 DEF Retried!Format, Retried!Answers, RetriedAnswers, Blanks
  <1>10. CASE ActFormat(r)
    <2>1. CASE UNCHANGED disk /\ ReportsError
      BY <1>3, <1>5, <2>1, RetriedVars
    <2>2. CASE r.op = "format" /\ Retried!Format(disk.new)
      BY <1>2, <1>3, <2>2 DEF Retried!CarryOut, RetriedRequest, RetriedTold
    <2>3. CASE r.op = "formatED" /\ Retried!Format(Enhanced)
      BY <1>2, <1>3, <2>3 DEF Retried!CarryOut, RetriedRequest, RetriedTold
    <2> QED
      BY <1>9, <1>10, <2>1, <2>2, <2>3 DEF ActFormat
  <1>11. CASE ActFormatWith(r)
    <2>1. CASE disk' = [disk EXCEPT !.new = r.arg] /\ ReportsError
      <3>1. disk'.content = disk.content /\ disk'.size = disk.size /\ disk'.new = r.arg
        BY <1>6, <2>1
      <3>2. r.op = "formatWith"
        BY <1>11 DEF ActFormatWith
      <3> QED
        BY <1>2, <1>3, <1>5, <2>1, <3>1, <3>2
           DEF Retried!DenyFormat, Retried!SetGeometry, RetriedRequest, RetriedAnswers, RetriedTold
    <2>2. CASE r.op = "formatWith" /\ Retried!Format(r.arg)
      BY <1>2, <1>3, <2>2 DEF Retried!CarryOut, RetriedRequest, RetriedTold
    <2> QED
      BY <1>9, <1>11, <2>1, <2>2 DEF ActFormatWith
  <1>12. CASE ActPercom(r)
    <2>1. CASE r.op = "setPercom" /\ disk' = [disk EXCEPT !.new = r.arg] /\ Replies(Done)
      <3>1. disk'.content = disk.content /\ disk'.size = disk.size /\ disk'.new = r.arg
        BY <1>6, <2>1
      <3>2. RetriedAnswers' = RetriedAnswers \cup {Done.data}
        BY <1>4, <2>1
      <3> QED
        BY <1>2, <1>3, <2>1, <3>1, <3>2
           DEF Retried!CarryOut, Retried!SetGeometry, Retried!Answers,
               RetriedRequest, RetriedAnswers, RetriedTold
    <2>2. CASE r.op = "getPercom" /\ UNCHANGED disk /\ Replies(Answer(disk.new))
      <3>1. RetriedAnswers' = RetriedAnswers \cup {disk.new}
        BY <1>4, <2>2 DEF Answer
      <3> QED
        BY <1>2, <1>3, <2>2, <3>1
           DEF Retried!CarryOut, Retried!Answers, RetriedRequest, RetriedAnswers, RetriedTold
    <2> QED
      BY <1>12, <2>1, <2>2 DEF ActPercom
  <1> QED
    BY <1>1, <1>7, <1>8, <1>10, <1>11, <1>12

LEMMA RetriedInit ==
  ASSUME Init
  PROVE  Retried!Init
  <1>1. PICK n \in Geometries, protected \in BOOLEAN : \E c \in [1..n -> Values] :
          disk = [content |-> c, size |-> n, new |-> n, protected |-> protected]
    BY DEF Init
  <1>2. PICK c \in [1..n -> Values] :
          disk = [content |-> c, size |-> n, new |-> n, protected |-> protected]
    BY <1>1
  <1>3. c \in Seq(Values) /\ Len(c) = n
    BY DiskTypes
  <1>4. atari.request = None /\ answers = {} /\ told = {}
    BY DEF Init
  <1> QED
    BY <1>2, <1>3, <1>4 DEF Retried!Init

LEMMA RetriedStep ==
  ASSUME DriveInv, [Next]_vars
  PROVE  [Retried!Next]_(Retried!vars)
  <1>1. ASSUME UNCHANGED <<mounted, disk, answers, told>>,
               atari'.for = atari.for, atari'.request = atari.request
        PROVE  UNCHANGED Retried!vars
    BY <1>1, RetriedVars DEF RetriedRequest, RetriedAnswers, RetriedTold, OnDisk
  <1>2. ASSUME UNCHANGED disk, ~OnDisk, ~OnDisk'
        PROVE  UNCHANGED Retried!vars
    BY <1>2, RetriedVars DEF RetriedRequest, RetriedAnswers, RetriedTold
  <1> USE DEF DriveInv
  <1>3. ASSUME UNCHANGED <<mounted, disk>>, NEW o, Finishes(o), atari.pc # "idle",
               o = {} \/ \E a \in answers : o = {a}
        PROVE  [Retried!Next]_(Retried!vars)
    <2>1. atari' = [atari EXCEPT !.pc = "idle", !.request = None, !.tries = 0]
          /\ told' = o /\ answers' = {}
      BY <1>3 DEF Finishes
    <2>2. atari'.for = atari.for /\ atari'.request = None /\ OnDisk' = OnDisk
      BY <1>3, <2>1 DEF ProtocolTypeOK, AtariStates, OnDisk
    <2>3. CASE ~OnDisk
      BY <1>2, <1>3, <2>2, <2>3
    <2>4. CASE OnDisk
      <3>1. /\ RetriedRequest # None /\ RetriedRequest' = None /\ RetriedAnswers' = {}
            /\ RetriedTold' = {a.data : a \in o}
        BY <1>3, <2>1, <2>2, <2>4
           DEF RetriedRequest, RetriedAnswers, RetriedTold, PhaseInv
      <3>2. RetriedTold' = {} \/ \E d \in RetriedAnswers : RetriedTold' = {d}
        BY <1>3, <2>4, <3>1 DEF RetriedAnswers
      <3>3. ASSUME NEW out, RetriedTold' = out
            PROVE  Retried!Finish(out)
        BY <1>3, <3>1, <3>3
           DEF Retried!Finish, RetriedRequest, RetriedAnswers, RetriedTold
      <3> QED
        BY <3>2, <3>3 DEF Retried!Next, RetriedAnswers
    <2> QED
      BY <2>3, <2>4
  <1>4. CASE Check \/ Receive \/ LoseReply \/ LoseData \/ UNCHANGED vars
    BY <1>1, <1>4 DEF Check, Receive, LoseReply, LoseData, device, vars, Sends
  <1>5. CASE SendCommand \/ Timeout
    <2>1. UNCHANGED <<mounted, disk, answers, told>>
      BY <1>5 DEF SendCommand, Timeout, device
    <2>2. atari'.for = atari.for /\ atari'.request = atari.request
      BY <1>5 DEF SendCommand, Timeout, Retries, AtariGoes, ProtocolTypeOK, AtariStates
    <2> QED
      BY <1>1, <2>1, <2>2
  <1>6. CASE Hear
    <2>1. UNCHANGED <<mounted, disk>> /\ atari.pc # "idle"
      BY <1>6, Heard DEF device, Waiting
    <2>2. CASE \E a \in answers : Finishes({a})
      BY <1>3, <2>1, <2>2
    <2>3. CASE UNCHANGED <<told, answers>> /\ \E pc : AtariGoes(pc)
      <3>1. atari'.for = atari.for /\ atari'.request = atari.request
        BY <2>3 DEF AtariGoes, ProtocolTypeOK, AtariStates
      <3> QED
        BY <1>1, <2>1, <2>3, <3>1
    <2>4. Retries => \E pc : AtariGoes(pc)
      BY DEF Retries
    <2> QED
      BY <1>6, <2>2, <2>3, <2>4, Heard
  <1>7. CASE GiveUp
    BY <1>3, <1>7 DEF GiveUp, device
  <1>8. CASE ActOnDisk
    <2>1. CASE OnDisk
      BY <1>8, <2>1, DiskCarriesOut DEF Retried!Next
    <2>2. CASE ~OnDisk
      <3>1. /\ handler.pc = "act" /\ mounted # "folder" /\ UNCHANGED <<mounted, atari, told>>
            /\ ActRead(atari.request) \/ ActWrite(atari.request) \/ ActFormat(atari.request)
               \/ ActFormatWith(atari.request) \/ ActPercom(atari.request)
            /\ ~ByBooter(atari.request)
        BY <1>8, DiskActs
      <3>2. atari.for = "loader" /\ Loads /\ atari.pc # "idle"
        BY <2>2, <3>1
           DEF OnDisk, RequestInv, PhaseInv, Busy, Waiting, ProtocolTypeOK,
               AtariStates, Loads
      <3>3. atari.request.op \in {"read", "chunkInfo", "chunk", "run"}
        BY <3>2 DEF LoaderInv, Ask
      <3>4. disk' = disk
        BY <3>1, <3>3 DEF ActRead, ActWrite, ActFormat, ActFormatWith, ActPercom
      <3> QED
        BY <1>2, <2>2, <3>1, <3>4 DEF OnDisk
    <2> QED
      BY <2>1, <2>2
  <1>9. CASE ActOnFolder
    BY <1>2, <1>9 DEF ActOnFolder, OnDisk
  <1>10. CASE ActOnBooter
    BY <1>2, <1>10, BooterActs DEF OnDisk
  <1>11. CASE UserRequest
    <2>1. PICK r : /\ Issues(r, "user", atari.file)
                   /\ mounted # "folder" => r \in DiskRequests
      BY <1>11 DEF UserRequest
    <2>2. /\ atari.pc = "idle" /\ told' = {} /\ UNCHANGED <<mounted, disk, answers>>
          /\ atari'.for = "user" /\ atari'.request = r
      BY <2>1 DEF Issues, device
    <2>3. CASE mounted = "folder"
      BY <1>2, <2>2, <2>3 DEF OnDisk
    <2>4. CASE mounted # "folder"
      <3>1. /\ RetriedRequest = None /\ RetriedRequest' = r /\ RetriedTold' = {}
            /\ RetriedAnswers' = RetriedAnswers /\ r \in DiskRequests
        BY <2>1, <2>2, <2>4
           DEF RetriedRequest, RetriedTold, RetriedAnswers, OnDisk, PhaseInv
      <3>2. Retried!Ask
        BY <2>2, <3>1 DEF Retried!Ask, RetriedRequest, RetriedTold, RetriedAnswers
      <3> QED
        BY <3>2 DEF Retried!Next
    <2> QED
      BY <2>3, <2>4
  <1>12. CASE \E f \in Files : DosOpen(f) \/ DosRead(f)
    <2>1. PICK f \in Files : DosOpen(f) \/ DosRead(f)
      BY <1>12
    <2>2. mounted = "folder" /\ UNCHANGED <<mounted, disk>>
      BY <2>1 DEF DosOpen, DosRead, DosRequest, Issues, device, ReaderInv
    <2> QED
      BY <1>2, <2>2 DEF OnDisk
  <1>13. CASE DosAdvance \/ LoaderAdvance
    <2>1. atari' = atari /\ UNCHANGED <<mounted, disk>> /\ ~OnDisk
      BY <1>13 DEF DosAdvance, LoaderAdvance, HasAnswer, Takes, device, OnDisk
    <2> QED
      BY <1>2, <2>1 DEF OnDisk
  <1>14. ASSUME UNCHANGED <<mounted, disk>>, RetriedRequest' = RetriedRequest,
                RetriedAnswers' = RetriedAnswers, RetriedTold' = {}
         PROVE  [Retried!Next]_(Retried!vars)
    BY <1>14 DEF Retried!Next, Retried!Forget, RetriedRequest, RetriedAnswers, RetriedTold
  <1>15. CASE LoaderRequest
    <2>1. /\ atari.pc = "idle" /\ told' = {} /\ UNCHANGED <<mounted, disk, answers>>
          /\ atari'.for = "loader" /\ answers = {}
      BY <1>15 DEF LoaderRequest, Issues, device, PhaseInv
    <2>2. /\ RetriedRequest' = RetriedRequest /\ RetriedAnswers' = RetriedAnswers
          /\ RetriedTold' = {}
      BY <2>1 DEF RetriedRequest, RetriedAnswers, RetriedTold, OnDisk, PhaseInv
    <2> QED
      BY <1>14, <2>1, <2>2
  <1>16. CASE PowerCycle
    <2>1. told' = {} /\ UNCHANGED <<mounted, disk, atari, answers>>
      BY <1>16 DEF PowerCycle, Takes, device
    <2>2. /\ RetriedRequest' = RetriedRequest /\ RetriedAnswers' = RetriedAnswers
          /\ RetriedTold' = {}
      BY <2>1 DEF RetriedRequest, RetriedAnswers, RetriedTold, OnDisk
    <2> QED
      BY <1>14, <2>1, <2>2
  <1> QED
    BY <1>4, <1>5, <1>6, <1>7, <1>8, <1>9, <1>10, <1>11, <1>12, <1>13, <1>15, <1>16
       DEF Next, Handle, AtariProceeds, Programs

(* Over a line that loses frames, and with an Atari that repeats what fails, *)
(* drive 1 is a disk that carries out each request some number of times,    *)
(* each time as a whole, and the Atari is told only what has been done.     *)
THEOREM ImplementsRetriedDisk == Spec => RetriedSpec
  <1>1. Spec => Retried!Init
    BY RetriedInit DEF Spec
  <1>2. DriveInv /\ [Next]_vars => [Retried!Next]_(Retried!vars)
    BY RetriedStep
  <1> QED
    BY <1>1, <1>2, DriveInvariant, PTL DEF Spec, RetriedSpec, Retried!Spec

=============================================================================
