---------------------------- MODULE DriveCommands ----------------------------
(***************************************************************************)
(* The command protocol between an Atari and drive 1 over a line that      *)
(* loses and garbles frames: the handlers of an image, a folder and the    *)
(* boot disk with every reply they send, the Atari's SIO routine, which    *)
(* repeats a command that fails, and the Atari's programs, of which DOS    *)
(* follows the links of a folder's files and the boot loader fetches the   *)
(* chunks of an executable.                                                *)
(*                                                                         *)
(* The Atari waits longer than a handler takes: it gives an attempt up     *)
(* only when nothing can come any more.                                    *)
(***************************************************************************)
EXTENDS FolderImage, AutoBoot

CONSTANTS
  Values, Blank,  \* what a sector may hold, and what a format leaves in it
  MaxSectors,     \* bound: the largest geometry
  MaxTries,       \* how often the Atari tries a command
  Drives          \* what is in drive 1: subset of AllDrives

AllDrives == {"image", "folder", "booter"}
Enhanced  == MaxSectors

ASSUME CommandsAssumption ==
  /\ Blank \in Values /\ "done" \notin Values
  /\ MaxSectors \in Nat \ {0}
  /\ MaxTries \in Nat \ {0}
  /\ Drives \subseteq AllDrives

VARIABLES
  mounted,  \* what is in drive 1
  disk,     \* the image: the mounted one, or the one under the boot disk
  folder,
  booter,
  handler,  \* the worker's handleCommand and the command it works on
  line,     \* the frames on their way to the Atari
  sent,     \* the data frame on its way to the drive
  atari,    \* the Atari's SIO routine and its request
  answers,  \* the answers the drive has computed for the request so far
  told,     \* the outcome of the last request: at most one answer
  reader,   \* DOS, as far as it reads the files of a folder
  slid,     \* files whose window has moved under their reader
  loader    \* the boot loader's program on the Atari

device    == <<mounted, disk, folder, booter>>
programs  == <<reader, slid, loader>>
vars      == <<device, handler, line, sent, atari, answers, told, programs>>

Geometries == 1..MaxSectors
Blanks(n)  == [i \in 1..n |-> Blank]
Done       == [tag |-> "data", data |-> "done"]
Answer(v)  == [tag |-> "data", data |-> v]
Frame(tag) == [tag |-> tag]

FolderSectors == 1040   \* 40 tracks of 26 sectors

None      == [op |-> "none", arg |-> 0, value |-> Blank]
Ask(o, a) == [op |-> o, arg |-> a, value |-> Blank]

DiskRequests ==
  [op : {"read"}, arg : 0..MaxSectors + 1, value : {Blank}]
    \cup [op : {"write"}, arg : 0..MaxSectors + 1, value : Values]
    \cup {Ask(o, 0) : o \in {"format", "formatED", "getPercom"}}
    \cup {Ask(o, n) : o \in {"formatWith", "setPercom"}, n \in Geometries}

WithData   == {"write", "formatWith", "setPercom"}       \* commands with a data frame
WantsData  == {"read", "getPercom", "format", "formatED", "chunkInfo", "chunk"}
IdleReader == [stage |-> "closed", next |-> 0, count |-> 0, right |-> TRUE]
IdleLoader == [stage |-> "boot", size |-> 0, more |-> TRUE, memory |-> <<>>]

TypeOK ==
  /\ mounted \in Drives
  /\ disk.size \in Geometries /\ disk.new \in Geometries
  /\ disk.content \in Seq(Values) /\ Len(disk.content) <= MaxSectors
  /\ folder.current \in Files /\ folder.pass \in [Files -> Nat]
  /\ booter.loaded \in BOOLEAN /\ booter.sizes \in ChunkSizes
  /\ Len(booter.chunks) = Len(booter.sizes)
  /\ handler.pc \in {"idle", "check", "data", "act", "crash"}
  /\ atari.pc \in {"idle", "send", "ack", "dataAck", "complete", "data", "fail"}
  /\ atari.pc = "idle" <=> atari.request = None
  /\ handler.pc \in {"check", "data", "act"} => handler.request = atari.request
  /\ Len(line) <= 4
  /\ \A a, b \in told : a = b
  /\ reader \in [Files -> [stage : {"closed", "dir", "open", "data"},
                           next : 0..LastSector, count : Nat, right : BOOLEAN]]
  /\ slid \subseteq Files
  /\ loader.stage \in {"boot", "info", "chunk", "run", "loaded", "disk", "halted"}

Idle == [pc |-> "idle", request |-> None]

Init ==
  /\ mounted \in Drives
  /\ \E n \in Geometries, protected \in BOOLEAN :
       \E c \in [1..n -> Values] :
         /\ mounted # "image" => n = 1
         /\ disk = [content |-> c, size |-> n, new |-> n, protected |-> protected]
  /\ \E c \in Files, boots \in BOOLEAN : 
       /\ mounted # "folder" => c = CHOOSE f \in Files : TRUE
       /\ folder = OpenFolder(c, boots /\ mounted = "folder")
  /\ \E s \in ChunkSizes :
       /\ mounted # "booter" => s = CHOOSE t \in ChunkSizes : TRUE
       /\ booter = OpenBooter(s)
  /\ handler = Idle
  /\ line = <<>>
  /\ sent = {}
  /\ atari = [pc |-> "idle", request |-> None, tries |-> 0, for |-> "user",
              file |-> CHOOSE f \in Files : TRUE]
  /\ answers = {} /\ told = {}
  /\ reader = [f \in Files |-> IdleReader]
  /\ slid = {}
  /\ loader = IdleLoader

-----------------------------------------------------------------------------
(* The worker: handleCommand.                                               *)

HandlerGoes(pc) == handler' = [handler EXCEPT !.pc = pc]

(* A frame that the back end fails to write is not sent; only the first     *)
(* acknowledgement's failure is noticed, and ends the handler.              *)
Sends(frames) == line' = line \o frames

(* The boot disk hands most commands on to the drive it has replaced.       *)
ByBooter(r) ==
  mounted = "booter" /\ (r.op \in {"chunkInfo", "chunk", "run"}
                           \/ (r.op = "read" /\ ServesSector(booter, r.arg)))

(* Mutant: one sector too many.                                             *)
RefusedOffByOne(r) == ~ByBooter(r) /\ r.op \in {"read", "write"} /\
  r.arg \notin 1..(IF mounted = "folder" THEN FolderSectors ELSE disk.size + 1)

(* The commands answered with a NAK: sectors outside the geometry.          *)
Refused(r) == ~ByBooter(r) /\ r.op \in {"read", "write"} /\
  r.arg \notin 1..(IF mounted = "folder" THEN FolderSectors ELSE disk.size)

IsProtected == mounted = "folder" \/ disk.protected

Check ==
  /\ handler.pc = "check"
  /\ LET r == handler.request
     IN  IF Refused(r)
           THEN Sends(<<Frame("N")>>) /\ handler' = Idle
           ELSE \/ UNCHANGED line /\ handler' = Idle
                \/ /\ Sends(<<Frame("A")>>)
                   /\ HandlerGoes(IF r.op \in WithData THEN "data" ELSE "act")
  /\ UNCHANGED <<device, sent, atari, answers, told, programs>>

(* Mutant: a data frame that does not arrive is waited for.                 *)
ReceiveForEver ==
  /\ handler.pc = "data"
  /\ \/ /\ sent # {}
        /\ Sends(<<Frame("A")>>)
        /\ HandlerGoes("act")
     \/ sent = {} /\ line = <<>> /\ UNCHANGED <<handler, line>>
  /\ sent' = {}
  /\ UNCHANGED <<device, atari, answers, told, programs>>

(* readDataFrame returns the frame, or nothing after its timeout.           *)
Receive ==
  /\ handler.pc = "data"
  /\ \/ /\ sent # {}
        /\ Sends(<<Frame("A")>>)
        /\ HandlerGoes("act")
     \/ /\ sent = {} /\ line = <<>>
        /\ Sends(<<Frame("N")>>)
        /\ handler' = Idle
  /\ sent' = {}
  /\ UNCHANGED <<device, atari, answers, told, programs>>

Replies(a) ==
  /\ Sends(IF handler.request.op \in WantsData THEN <<Frame("C"), a>> ELSE <<Frame("C")>>)
  /\ answers' = answers \cup {a}
  /\ handler' = Idle

ReportsError == Sends(<<Frame("E")>>) /\ handler' = Idle /\ UNCHANGED answers

Overwrite(s, i, v) ==
  IF i <= Len(s) THEN [s EXCEPT ![i] = v] ELSE s \o Blanks(i - 1 - Len(s)) \o <<v>>

ActRead(r) ==
  /\ r.op = "read"
  /\ IF r.arg <= Len(disk.content) THEN Replies(Answer(disk.content[r.arg]))
                                   ELSE ReportsError
  /\ UNCHANGED disk

ActWrite(r) ==
  /\ r.op = "write"
  /\ \/ /\ ~IsProtected
        /\ disk' = [disk EXCEPT !.content = Overwrite(@, r.arg, r.value)]
        /\ Replies(Done)
     \/ UNCHANGED disk /\ ReportsError

(* Mutant: the geometry of the next format is not brought up to date.       *)
FormattedForgets(n) ==
  \E c \in {disk.content, <<>>, Blanks(n)} :
     disk' = [disk EXCEPT !.content = c, !.size = n]

(* format ignores that it could not resize the file.                        *)
Formatted(n) ==
  \E c \in {disk.content, <<>>, Blanks(n)} :
     disk' = [disk EXCEPT !.content = c, !.size = n, !.new = n]

ActFormat(r) ==
  /\ r.op \in {"format", "formatED"}
  /\ IF IsProtected
       THEN UNCHANGED disk /\ ReportsError
       ELSE /\ Formatted(IF r.op = "format" THEN disk.new ELSE Enhanced)
            /\ Replies(Done)

(* Format with custom sector skewing sets the geometry before it looks at   *)
(* the write protection.                                                    *)
ActFormatWith(r) ==
  /\ r.op = "formatWith"
  /\ IF IsProtected
       THEN disk' = [disk EXCEPT !.new = r.arg] /\ ReportsError
       ELSE Formatted(r.arg) /\ Replies(Done)

ActPercom(r) ==
  \/ r.op = "setPercom" /\ disk' = [disk EXCEPT !.new = r.arg] /\ Replies(Done)
  \/ r.op = "getPercom" /\ UNCHANGED disk /\ Replies(Answer(disk.new))

ActOnDisk ==
  /\ handler.pc = "act"
  /\ mounted # "folder" /\ ~ByBooter(handler.request)
  /\ LET r == handler.request
     IN  ActRead(r) \/ ActWrite(r) \/ ActFormat(r) \/ ActFormatWith(r) \/ ActPercom(r)
  /\ UNCHANGED <<mounted, folder, booter, sent, atari, told, programs>>

(* DOS reads folders only; that they are write-protected is ActWrite's.     *)
ActOnFolder ==
  /\ handler.pc = "act"
  /\ mounted = "folder"
  /\ LET s == handler.request.arg
     IN  /\ folder' = AfterRead(folder, s)
         /\ Replies(IF IsFirst(s) THEN Answer(FirstData(s - 369))
                    ELSE IF IsData(s) THEN Answer(WindowData(folder, s))
                    ELSE Done)
         /\ slid' = slid \cup
              {f \in Files :
                 /\ reader[f].stage # "closed"
                 /\ \/ folder'.pass[f] < folder.pass[f]
                    \/ /\ s = LastSector /\ folder.current = f
                       /\ answers # {} \/ atari.file # f}
  /\ UNCHANGED <<mounted, disk, booter, sent, atari, told, reader, loader>>

ActOnBooter ==
  /\ handler.pc = "act"
  /\ ByBooter(handler.request)
  /\ LET r == handler.request
     IN  \/ r.op = "read" /\ Replies(Done) /\ UNCHANGED booter
         \/ r.op = "run" /\ Replies(Done) /\ UNCHANGED booter
         \/ /\ r.op = "chunkInfo" /\ HasChunk(booter, r.arg)
            /\ Replies(Answer(ChunkInfo(booter, r.arg)))
            /\ booter' = Loading(booter)
         \/ /\ r.op = "chunk" /\ HasChunk(booter, r.arg)
            /\ Replies(Answer(booter.chunks[r.arg + 1]))
            /\ booter' = ChunkSent(booter, r.arg)
         \/ /\ r.op \in {"chunkInfo", "chunk"} /\ ~HasChunk(booter, r.arg)
            /\ HandlerGoes("crash")
            /\ UNCHANGED <<line, answers, booter>>
  /\ UNCHANGED <<mounted, disk, folder, sent, atari, told, programs>>

Handle == Check \/ Receive \/ ActOnDisk \/ ActOnFolder \/ ActOnBooter

-----------------------------------------------------------------------------
(* The line.                                                                *)

LoseReply ==
  /\ line # <<>>
  /\ line' = Tail(line)
  /\ UNCHANGED <<device, handler, sent, atari, answers, told, programs>>

LoseData ==
  /\ sent # {}
  /\ sent' = {}
  /\ UNCHANGED <<device, handler, line, atari, answers, told, programs>>

-----------------------------------------------------------------------------
(* The Atari's SIO routine (external).                                      *)

Issues(r, for, f) ==
  /\ atari.pc = "idle"
  /\ atari' = [pc |-> "send", request |-> r, tries |-> 0, for |-> for, file |-> f]
  /\ told' = {}
  /\ UNCHANGED <<device, handler, line, sent, answers>>

AtariGoes(pc) == atari' = [atari EXCEPT !.pc = pc]

(* The command frame, which may be lost; what is left on the line is        *)
(* flushed.                                                                 *)
SendCommand ==
  /\ atari.pc = "send"
  /\ handler.pc \in {"idle", "crash"}
  /\ \/ handler.pc = "idle" /\ handler' = [pc |-> "check", request |-> atari.request]
     \/ UNCHANGED handler
  /\ line' = <<>>
  /\ sent' = {}
  /\ atari' = [atari EXCEPT !.pc = "ack", !.tries = @ + 1]
  /\ UNCHANGED <<device, answers, told, programs>>

Retries == AtariGoes(IF atari.tries < MaxTries THEN "send" ELSE "fail")

Finishes(outcome) ==
  /\ atari' = [atari EXCEPT !.pc = "idle", !.request = None, !.tries = 0]
  /\ told' = outcome
  /\ answers' = {}

(* The frame that is awaited in each state.                                 *)
Awaited == [ack |-> {"A"}, dataAck |-> {"A"}, complete |-> {"C"}, data |-> {"data"}]

Accepts ==
  LET op == atari.request.op
  IN  \/ /\ atari.pc = "ack"
         /\ AtariGoes(IF op \in WithData THEN "dataAck" ELSE "complete")
         /\ sent' = IF op \in WithData THEN {atari.request} ELSE {}
         /\ UNCHANGED <<told, answers>>
      \/ /\ \/ atari.pc = "dataAck" /\ AtariGoes("complete")
            \/ atari.pc = "complete" /\ op \in WantsData /\ AtariGoes("data")
         /\ UNCHANGED <<sent, told, answers>>
      \/ /\ \/ atari.pc = "complete" /\ op \notin WantsData /\ Finishes({Done})
            \/ atari.pc = "data" /\ Finishes({Head(line)})
         /\ UNCHANGED sent

Hear ==
  /\ atari.pc \in DOMAIN Awaited
  /\ line # <<>>
  /\ line' = Tail(line)
  /\ IF Head(line).tag \in Awaited[atari.pc]
       THEN Accepts
       ELSE Retries /\ UNCHANGED <<sent, told, answers>>
  /\ UNCHANGED <<device, handler, programs>>

(* Nothing can come any more.                                               *)
Timeout ==
  /\ atari.pc \in DOMAIN Awaited
  /\ line = <<>> /\ sent = {} /\ handler.pc \in {"idle", "crash"}
  /\ Retries
  /\ UNCHANGED <<device, handler, line, sent, answers, told, programs>>

(* DOS reports the error and closes the file; the loader halts, unless it   *)
(* was only telling that it starts the program.                             *)
GiveUp ==
  /\ atari.pc = "fail"
  /\ Finishes({})
  /\ reader' = IF atari.for = "dos" THEN [reader EXCEPT ![atari.file] = IdleReader] ELSE reader
  /\ loader' = IF atari.for # "loader" THEN loader
               ELSE [loader EXCEPT !.stage = IF @ = "run" THEN "loaded" ELSE "halted"]
  /\ UNCHANGED <<device, handler, line, sent, slid>>

AtariProceeds == SendCommand \/ Hear \/ Timeout \/ GiveUp

-----------------------------------------------------------------------------
(* The Atari's programs (external).                                         *)

(* An answer that a program waits for is taken before the next request.     *)
HasAnswer(who) == atari.pc = "idle" /\ atari.for = who /\ told # {}
Free == ~HasAnswer("dos") /\ ~HasAnswer("loader")

Takes == told' = {} /\ UNCHANGED <<device, handler, line, sent, atari, answers>>

(* Anything that uses the drive, once no boot loader is running.            *)
UserRequest ==
  /\ Free
  /\ \E r \in CASE mounted = "folder" -> {Ask("read", 1), Ask("read", Directory)}
               [] mounted = "image"  -> DiskRequests
               [] OTHER -> IF loader.stage \in {"loaded", "disk"} THEN DiskRequests ELSE {} :
       Issues(r, "user", atari.file)
  /\ UNCHANGED programs

DosRequest(f, s) == Free /\ Issues(Ask("read", s), "dos", f) /\ UNCHANGED loader

(* DOS opens a file: it looks it up in the directory, then reads from its   *)
(* first sector on along the links.                                         *)
DosOpen(f) ==
  /\ mounted = "folder"
  /\ reader[f].stage = "closed"
  /\ DosRequest(f, Directory)
  /\ reader' = [reader EXCEPT ![f] = [IdleReader EXCEPT !.stage = "dir"]]
  /\ slid' = slid \ {f}

DosRead(f) ==
  /\ reader[f].stage = "open"
  /\ DosRequest(f, reader[f].next)
  /\ reader' = [reader EXCEPT ![f].stage = "data"]
  /\ UNCHANGED slid

(* A sector with another file's number is an error.  At the end of the file *)
(* every block must have been there; they are counted as long as they are   *)
(* right.                                                                   *)
Advanced(r, f, d) ==
  LET right == r.right /\ (d.full => d.block = r.count)
      n     == IF right THEN r.count + (IF d.full THEN 1 ELSE 0) ELSE 0
  IN  IF d.file # f THEN IdleReader
      ELSE IF d.next # 0 THEN [stage |-> "open", next |-> d.next, count |-> n, right |-> right]
      ELSE [IdleReader EXCEPT !.right = right /\ n = Blocks[f]]

DosAdvance ==
  /\ HasAnswer("dos")
  /\ LET f == atari.file
     IN  \E a \in told : reader' = [reader EXCEPT ![f] =
           IF @.stage = "dir" THEN [@ EXCEPT !.stage = "open", !.next = First(f)]
                              ELSE Advanced(@, f, a.data)]
  /\ Takes
  /\ UNCHANGED <<slid, loader>>

(* autoboot.src: chunk info, chunk, and so on while there is more.          *)
LoaderRequest ==
  /\ mounted = "booter" /\ Free
  /\ loader.stage \in {"boot", "info", "chunk", "run"}
  /\ Issues(CASE loader.stage = "boot"  -> Ask("read", 1)
              [] loader.stage = "info"  -> Ask("chunkInfo", Len(loader.memory))
              [] loader.stage = "chunk" -> Ask("chunk", Len(loader.memory))
              [] loader.stage = "run"   -> Ask("run", 0),
            "loader", atari.file)
  /\ UNCHANGED programs

(* The frame of a chunk may be longer than what is asked for, since its     *)
(* checksum covers the bytes before it; it may not be shorter.              *)
Loaded(l, a) ==
  CASE l.stage = "boot"  -> [l EXCEPT !.stage = IF a = Done THEN "info" ELSE "disk"]
    [] l.stage = "info"  -> [l EXCEPT !.stage = "chunk", !.size = a.data.size, !.more = a.data.more]
    [] l.stage = "chunk" -> IF a.data < l.size
                              THEN [l EXCEPT !.stage = "halted"]
                              ELSE [l EXCEPT !.stage = IF l.more THEN "info" ELSE "run",
                                             !.memory = Append(@, l.size)]
    [] OTHER -> [l EXCEPT !.stage = "loaded"]

LoaderAdvance ==
  /\ HasAnswer("loader")
  /\ \E a \in told : loader' = Loaded(loader, a)
  /\ Takes
  /\ UNCHANGED <<reader, slid>>

(* The user switches the Atari off and on.                                  *)
PowerCycle ==
  /\ mounted = "booter"
  /\ atari.pc = "idle"
  /\ loader.stage # "boot"
  /\ loader' = IdleLoader
  /\ Takes
  /\ UNCHANGED <<reader, slid>>

Programs ==
  \/ UserRequest \/ DosAdvance \/ LoaderRequest \/ LoaderAdvance \/ PowerCycle
  \/ \E f \in Files : DosOpen(f) \/ DosRead(f)

Next == Handle \/ LoseReply \/ LoseData \/ AtariProceeds \/ Programs

Spec == Init /\ [][Next]_vars

(* Handlers return, and the Atari's routine has timeouts of its own.  The   *)
(* line may lose every frame.                                               *)
FairSpec == Spec /\ WF_vars(Handle) /\ WF_vars(AtariProceeds)

-----------------------------------------------------------------------------
(* Whatever the line loses, drive and Atari never wait for each other for   *)
(* good: each request ends in success or in an error.                       *)
RequestEnds == atari.pc # "idle" ~> atari.pc = "idle"

(* A file of a folder is read as it is, block by block, although the window *)
(* is shared by all files and slides under its reader ("this cycle will     *)
(* repeat until the entire file is read"), except after one of three events *)
(* that the code cannot tell from a reader's progress: the last sector of   *)
(* the window was read again because its answer was lost, or by the reader  *)
(* of another file, or the directory was read while the window was beyond   *)
(* its first position.                                                      *)
FolderServesFile == \A f \in Files : ~reader[f].right => f \in slid

(* An executable arrives in the Atari's memory chunk by chunk and with the  *)
(* lengths it has in the file, however often a frame is repeated and the    *)
(* Atari is switched off, although every chunk that is sent grows.          *)
LoadedIsFile == loader.stage \in {"run", "loaded"} => loader.memory = booter.sizes

(* The boot loader never asks for a chunk that is not in the list, unless   *)
(* the executable has none at all, which readExecutable lets pass.          *)
ChunkExists == handler.pc = "crash" => booter.sizes = <<>>

(* Commands, replies, losses and repetitions together do to the disk what   *)
(* was asked, as often as was tried, and tell the Atari what was done.      *)
OnDisk == atari.for = "user" /\ mounted # "folder"

Retried == INSTANCE RetriedDisk WITH
  Requests  <- DiskRequests,
  NoRequest <- None,
  content   <- disk.content,
  size      <- disk.size,
  next      <- disk.new,
  request   <- IF OnDisk THEN atari.request ELSE None,
  answers   <- IF OnDisk THEN {a.data : a \in answers} ELSE {},
  told      <- IF OnDisk THEN {a.data : a \in told} ELSE {},
  Done      <- Done.data

RetriedSpec == Retried!Spec

=============================================================================
