------------------------------- MODULE PcLink -------------------------------
(***************************************************************************)
(* PCLink, the file server for SpartaDOS X: linked folders (units) whose   *)
(* files the Atari opens, reads and writes through a table of handles.     *)
(*                                                                         *)
(* A call takes two SIO commands, 'P' with the parameter block and 'R',    *)
(* which executes it, with 'S' to ask for the status after each; functions *)
(* without a result are carried out by 'P' at once.  The line loses        *)
(* commands, data frames and answers, the Atari's SIO routine repeats a    *)
(* command that fails, and the server tells a repetition from a new call   *)
(* by comparing parameter blocks ('P') and by remembering the last command *)
(* ('R').  The main window changes links meanwhile, with the device taken  *)
(* out of the worker's table.                                              *)
(*                                                                         *)
(* What the folders hold is not modelled: whether a file or a path exists, *)
(* and how long a file is, is any outcome the code can meet.               *)
(***************************************************************************)
EXTENDS Integers, FiniteSets

CONSTANTS
  LastLink,     \* units 1..LastLink can be linked to a folder
  LastHandle,   \* the handle table is 0..LastHandle (15 in the code)
  Folders, NoFolder,
  Modes,        \* how programs open files: subset of AllModes
  MaxLen,       \* bound: the longest file, in blocks
  MaxPos,       \* bound: how far programs go in a file
  MaxDepth,     \* bound: how deep a folder's directories go
  MaxTries,     \* how often the Atari tries a command
  MaxCalls,     \* bound: how many calls the programs make
  MaxChanges,   \* bound: how often links are changed
  Uses,         \* bound: the functions the programs of each unit call
  GuiOps        \* what the user does with links: subset of AllGuiOps

Links     == 1..LastLink
Units     == 0..LastLink      \* unit 0: only for INIT
Handles   == 0..LastHandle
AllModes  == {4, 8, 9, 12}    \* read, write, append, update
AllGuiOps == {"link", "unlink", "swap"}

ByP    == {"FSEEK", "FCLOSE", "INIT", "REMOVE", "MKDIR", "CHDIR"}  \* by 'P'
OnFile == {"FREAD", "FWRITE", "FSEEK", "FTELL", "FNEXT", "FCLOSE"}

AllFunctions ==
  ByP \cup OnFile \cup {"FOPEN", "FFIRST", "GETCWD"}

(* A handle is a byte other than the mark 255 of none; the bound on         *)
(* positions leaves room for a file that has grown past MaxLen.             *)
ASSUME PcLinkAssumption ==
  /\ LastLink \in Nat /\ LastHandle \in Nat
  /\ LastLink <= LastHandle /\ LastHandle < 255
  /\ NoFolder \notin Folders
  /\ Modes \subseteq AllModes /\ GuiOps \subseteq AllGuiOps
  /\ MaxLen \in Nat /\ MaxPos \in Nat /\ MaxLen < MaxPos /\ MaxDepth \in Nat /\ MaxTries \in Nat \ {0}
  /\ Uses \in [Links -> SUBSET AllFunctions]
  /\ MaxCalls \in Nat /\ MaxChanges \in Nat

VARIABLES
  server,     \* device[], iodesc[] and old_ccom
  installed,  \* whether the worker's table has PCLink
  gui,        \* the main window's change of links
  line,       \* what is on its way between the Atari and the worker
  call,       \* the Atari's driver and the call it carries out
  known,      \* the files the Atari's programs have open, as they know them
  knownDirs,  \* the handles the programs have got from FFIRST
  knownCwd,   \* the depth of each unit's directory, as the programs know it
  left,       \* bounds: how many calls and changes of links are left
  lost,       \* handles opened or closed by calls that ended without an answer
  pulled      \* files a change of links has closed under their programs

programs == <<known, knownDirs, knownCwd, lost, pulled>>
vars     == <<server, installed, gui, line, call, left, programs>>

Unknown  == -1
Closed   == [open |-> FALSE, unit |-> 0, mode |-> 0, dir |-> FALSE,
             size |-> 0, pos |-> 0, eof |-> FALSE]
NoFile   == [unit |-> 0, pos |-> Unknown]
Block(f, h, a) == [fn |-> f, handle |-> h, arg |-> a]
ZeroBlock == Block("FREAD", 0, 0)    \* memset(&parbuf, 0, ...)
NoHandle  == 255
Refusal   == 255  \* stands for every error code but the ones below
DirMode   == 16

(* A retried block is ignored for all functions but these.                  *)
Repeatable == {"FREAD", "FWRITE", "FTELL", "FNEXT", "GETCWD"}

GuiIdle == [pc |-> "idle", op |-> "none", from |-> 0, to |-> 0, folder |-> NoFolder]
Quiet  == [at |-> "quiet", fn |-> "none", val |-> 0]
NoCall == [pc |-> "idle", unit |-> 0, block |-> ZeroBlock, stage |-> "P", tries |-> 0,
           size |-> 0, handle |-> 0, times |-> 0, twin |-> FALSE, cut |-> FALSE,
           honest |-> TRUE]

(* Folders are linked as the last session left them.                        *)
Init ==
  /\ \E l \in [Links -> Folders] :
       server = [linked |-> [n \in Units |-> IF n = 0 THEN NoFolder ELSE l[n]],
                 cwd    |-> [n \in Units |-> 0],
                 parbuf |-> [n \in Units |-> ZeroBlock],
                 err    |-> [n \in Units |-> 0],
                 io     |-> [h \in Handles |-> Closed],
                 old    |-> "none", crashed |-> FALSE]
  /\ installed = TRUE
  /\ gui = GuiIdle
  /\ line = Quiet
  /\ call = NoCall
  /\ left = [calls |-> MaxCalls, changes |-> MaxChanges]
  /\ known = [h \in Handles |-> NoFile] /\ knownDirs = {}
  /\ knownCwd = [u \in Units |-> 0]
  /\ lost = {} /\ pulled = {}

-----------------------------------------------------------------------------
(* The server: handleCommand and do_pclink, under deviceMutex.              *)

IO(h)       == server.io[h]
Unit        == call.unit
Blk         == call.block
Par         == server.parbuf[Unit]
IsOpen(h)   == h \in Handles /\ IO(h).open

(* PCLink does not even refuse a command for a unit without a folder.       *)
Takes(stage) ==
  /\ line.at = "command" /\ call.stage = stage
  /\ installed /\ ~server.crashed
  /\ Unit = 0 \/ server.linked[Unit] # NoFolder

Reply(f, v) == line' = [Quiet EXCEPT !.at = "reply", !.fn = f, !.val = v]
Complete    == Reply("complete", 0)
Nak         == Reply("nak", 0)

ServerOnly  == UNCHANGED <<installed, gui, left, programs>>
Counts      == call' = [call EXCEPT !.times = @ + 1]  \* the call takes effect
CountsTelling(n) == call' = [call EXCEPT !.times = @ + 1, !.size = n]

WithFile(s, h, f) == [s EXCEPT !.io[h] = f]
WithErr(s, e)     == [s EXCEPT !.err[Unit] = e]
Tells(n)          == call' = [call EXCEPT !.size = n]   \* set_status_size

(* Mutant: a repeated block is carried out again.                           *)
IgnoresNever == FALSE

(* "this is a retry of P-block. Most commands don't like that"              *)
Ignores == Blk = Par /\ Blk.fn \notin Repeatable

(* 'P' whose data frame did not arrive: acknowledged and completed; only    *)
(* the status tells.                                                        *)
PGarbled ==
  /\ Takes("P")
  /\ server' = [WithErr(server, 143) EXCEPT !.old = "P"]
  /\ Complete
  /\ ServerOnly /\ UNCHANGED call

PIgnored ==
  /\ Takes("P") /\ Ignores
  /\ server' = [server EXCEPT !.old = "P"]
  /\ Complete
  /\ ServerOnly /\ UNCHANGED call

(* The new block is stored and looked at.                                   *)
PBlock(fns) == Takes("P") /\ ~Ignores /\ Blk.fn \in fns

Stored == [server EXCEPT !.parbuf[Unit] = Blk, !.old = "P"]

Answered(s) == server' = s /\ Complete /\ ServerOnly

(* A block that names no open file: "bad file handle".                      *)
PBadHandle ==
  /\ PBlock(OnFile \ {"FNEXT"}) /\ ~IsOpen(Blk.handle)
  /\ Answered(WithErr(Stored, Refusal))
  /\ UNCHANGED call

(* Mutant: the handle is not checked.                                       *)
HasFileUnchecked(h) == TRUE

HasFile(h) == IsOpen(h)

(* FREAD: how much is left decides what 'R' will send.  What is left is     *)
(* computed without a sign: a position past the size leaves very much.      *)
PRead ==
  /\ PBlock({"FREAD"}) /\ HasFile(Blk.handle)
  /\ LET f     == IO(Blk.handle)
         rest  == f.size - f.pos
         short == 0 <= rest /\ rest < Blk.arg
         n     == IF short THEN rest ELSE Blk.arg
     IN  /\ Answered([WithErr(Stored, IF n = 0 THEN 136 ELSE 1)
                        EXCEPT !.io[Blk.handle].eof = short, !.parbuf[Unit].arg = n])
         /\ Tells(n)

PWrite ==
  /\ PBlock({"FWRITE"}) /\ HasFile(Blk.handle)
  /\ Answered(WithErr(Stored, 1))
  /\ Tells(Blk.arg)

(* FFIRST marks the stored block as a directory's, so that it never equals  *)
(* the next one.                                                            *)
PPrepare ==
  /\ PBlock({"FTELL", "FNEXT", "GETCWD", "FOPEN", "FFIRST"})
  /\ Blk.fn = "FTELL" => HasFile(Blk.handle)
  /\ Answered([WithErr(Stored, 1) EXCEPT
                 !.parbuf[Unit].arg = IF Blk.fn = "FFIRST" THEN DirMode ELSE @])
  /\ UNCHANGED call

(* A file that can be written can be positioned anywhere.                   *)
PSeek ==
  /\ PBlock({"FSEEK"}) /\ HasFile(Blk.handle)
  /\ LET f == IO(Blk.handle)
     IN  IF f.mode \in {8, 9, 12} \/ Blk.arg <= f.size
         THEN /\ Answered([WithErr(Stored, 1) EXCEPT !.io[Blk.handle].pos = Blk.arg])
              /\ Counts
         ELSE Answered(WithErr(Stored, Refusal)) /\ UNCHANGED call

(* Mutant: the file is closed, its entry of the table is not cleared.       *)
ClosedFileKept(f) == f

(* fps_close clears the entry.                                              *)
ClosedFile(f) == Closed

PClose ==
  /\ PBlock({"FCLOSE"}) /\ HasFile(Blk.handle)
  /\ Answered([WithErr(Stored, 1) EXCEPT !.io[Blk.handle] = ClosedFile(@)])
  /\ Counts

(* INIT closes the files of all units and forgets all blocks.               *)
PInit ==
  /\ PBlock({"INIT"})
  /\ Answered([WithErr(Stored, 1) EXCEPT
                 !.io = [h \in Handles |-> Closed],
                 !.parbuf = [v \in Units |-> IF v = Unit THEN Block("FREAD", NoHandle, 0)
                                                      ELSE ZeroBlock]])
  /\ UNCHANGED call

(* REMOVE stands for the functions that go through all files of a name with *)
(* wild cards, RENAME and CHMOD too.  One file that cannot be removed makes *)
(* the call fail; the others are removed all the same.                      *)
PRemove ==
  /\ PBlock({"REMOVE"})
  /\ \E e \in {1, Refusal} :
       /\ Answered(WithErr(Stored, e))
       /\ Counts \/ (e = Refusal /\ UNCHANGED call)

(* MKDIR stands for the functions that change one entry of the folder, or   *)
(* none: RMDIR too.                                                         *)
PMkdir ==
  /\ PBlock({"MKDIR"})
  /\ \/ Answered(WithErr(Stored, 1)) /\ Counts
     \/ Answered(WithErr(Stored, Refusal)) /\ UNCHANGED call

(* Mutant: a path may lead out of the folder.                               *)
InFolderUnchecked(depth) == depth <= MaxDepth

(* validate_user_path.  It compares the beginning of the path: a directory  *)
(* beside the folder whose name begins with the folder's passes as well.    *)
(* Programs move by one directory here, and never there.                    *)
InFolder(depth) == depth \in 0..MaxDepth

(* CHDIR, relative: one directory down, if there is one, or up, but not out *)
(* of the folder.                                                           *)
PChdir ==
  /\ PBlock({"CHDIR"})
  /\ LET depth == server.cwd[Unit] + Blk.arg
     IN  \/ /\ InFolder(depth)
            /\ Answered([WithErr(Stored, 1) EXCEPT !.cwd[Unit] = depth])
            /\ Counts
         \/ /\ Blk.arg = -1 => ~InFolder(depth)
            /\ Answered(WithErr(Stored, Refusal)) /\ UNCHANGED call

HandleP ==
  \/ PGarbled \/ PIgnored \/ PBadHandle \/ PRead \/ PWrite \/ PPrepare
  \/ PSeek \/ PClose \/ PInit \/ PRemove \/ PMkdir \/ PChdir

(* Mutant: a second 'R' is carried out like the first.                      *)
SecondRNever == FALSE

(* "serial communication error, abort": 'R' after 'R', of any unit.         *)
SecondR == server.old = "R"

RRefused ==
  /\ Takes("R") /\ SecondR
  /\ Par.fn \in {"FREAD", "FWRITE", "FNEXT", "FOPEN", "FFIRST"}
  /\ Nak
  /\ ServerOnly /\ UNCHANGED <<server, call>>

(* The driver sends 'R' after a status of 1 only, and never for the         *)
(* functions of ByP: what the code does then ("bad exec") is left out.      *)
RBlock(fns) == Takes("R") /\ Par.fn \in fns
Executed    == [server EXCEPT !.old = "R"]
Moved(s, h, n) == [s EXCEPT !.io[h].pos = @ + n]

(* FNEXT takes what is open for a directory; a plain file has no dir_cache. *)
Entries(h) == IsOpen(h) /\ (IO(h).dir \/ IO(h).pos = IO(h).size)

(* 'R' does not look again whether the file is still open, and FNEXT never  *)
(* whether it is a directory.                                               *)
RNullFile ==
  /\ RBlock({"FREAD", "FWRITE", "FNEXT"}) /\ ~SecondR
  /\ Par.fn = "FREAD" => server.err[Unit] = 1
  /\ IF Par.fn = "FNEXT" THEN IsOpen(Par.handle) /\ ~Entries(Par.handle)
                         ELSE ~IsOpen(Par.handle)
  /\ server' = [server EXCEPT !.crashed = TRUE]
  /\ ServerOnly /\ UNCHANGED <<line, call>>

(* FREAD: a read that comes short is the end of the file, or an error.      *)
RRead ==
  /\ RBlock({"FREAD"}) /\ ~SecondR
  /\ server.err[Unit] = 1 /\ IsOpen(Par.handle)
  /\ LET f == IO(Par.handle)
         n == Par.arg
     IN  \E e \in {1, 136, Refusal}, got \in 0..n :
           /\ e = 1 <=> got = n
           /\ e = Refusal => got = 0
           /\ f.dir => e = 1
           /\ LET pos == f.pos + got
                  end == IF e # 1 THEN e ELSE IF f.eof THEN 136
                         ELSE IF pos = f.size THEN 3 ELSE 1
              IN  server' = WithErr(Moved(Executed, Par.handle, got), end)
           /\ CountsTelling(got)
           /\ Reply("FREAD", n)
  /\ ServerOnly

(* FWRITE: the block follows 'R'; a damaged one changes nothing.            *)
RWrite ==
  /\ RBlock({"FWRITE"}) /\ ~SecondR
  /\ IsOpen(Par.handle)
  /\ \/ \E e \in {1, Refusal}, got \in 0..Par.arg :
          /\ e = 1 <=> got = Par.arg
          /\ IO(Par.handle).dir => e = 1
          /\ server' = WithErr(Moved(Executed, Par.handle, got), e)
          /\ CountsTelling(got)
     \/ server' = WithErr(Executed, 143) /\ UNCHANGED call
  /\ Reply("FWRITE", 0)
  /\ ServerOnly

(* FTELL may be repeated; it looks at the table's entry only.               *)
RTell ==
  /\ RBlock({"FTELL"})
  /\ server' = Executed
  /\ Reply("FTELL", IO(Par.handle).pos)
  /\ ServerOnly /\ UNCHANGED call

RGetcwd ==
  /\ RBlock({"GETCWD"})
  /\ server' = WithErr(Executed, 1)
  /\ Reply("GETCWD", server.cwd[Unit])
  /\ ServerOnly /\ UNCHANGED call

(* FNEXT skips to the next entry that matches; the status comes with it.    *)
RNext ==
  /\ RBlock({"FNEXT"}) /\ ~SecondR
  /\ IF ~IsOpen(Par.handle)
     THEN /\ server' = WithErr(Executed, Refusal) /\ Reply("FNEXT", Refusal)
          /\ UNCHANGED call
     ELSE LET f == IO(Par.handle)
          IN  /\ Entries(Par.handle)
              /\ \/ \E pos \in f.pos + 1..f.size :
                       LET e == IF pos = f.size THEN 3 ELSE 1
                       IN  /\ server' = WithErr([Executed EXCEPT !.io[Par.handle].pos = pos], e)
                           /\ Reply("FNEXT", e)
                 \/ /\ server' = WithErr([Executed EXCEPT !.io[Par.handle].pos = f.size], 136)
                    /\ Reply("FNEXT", 136)
              /\ Counts
  /\ ServerOnly

(* Mutant: the first handle, whether it is free or not.                     *)
FirstFreeUnchecked(h) == h = 0

FirstFree(h) == ~IO(h).open /\ \A g \in Handles : g < h => IO(g).open

(* FOPEN and FFIRST take the first free handle, or fail.  A directory's first entry, *)
(* which stands for itself, comes with FFIRST.                              *)
ROpen ==
  /\ RBlock({"FOPEN", "FFIRST"}) /\ ~SecondR
  /\ \/ \E h \in Handles, n \in 0..MaxLen :
          /\ FirstFree(h)
          /\ LET dir  == Par.fn = "FFIRST"
                 mode == IF dir THEN 4 ELSE Par.arg
                 size == IF dir THEN n + 1 ELSE IF mode = 8 THEN 0 ELSE n
                 pos  == IF dir THEN 1 ELSE IF mode = 9 THEN size ELSE 0
                 f    == [open |-> TRUE, unit |-> Unit, mode |-> mode, dir |-> dir,
                          size |-> size, pos |-> pos, eof |-> FALSE]
             IN  /\ server' = [WithErr(WithFile(Executed, h, f),
                                       IF dir /\ n = 0 THEN 3 ELSE server.err[Unit])
                                 EXCEPT !.parbuf[Unit].handle = h]
                 /\ call' = [call EXCEPT !.times = @ + 1, !.handle = h]
          /\ Reply(Par.fn, n)
     \/ /\ server' = WithErr(Executed, Refusal)
        /\ Reply(Par.fn, 0)     \* with what pcl_dbf held before
        /\ UNCHANGED call
  /\ ServerOnly

HandleR ==
  \/ RRefused \/ RNullFile \/ RRead \/ RWrite \/ RTell \/ RGetcwd \/ RNext \/ ROpen

Handle == HandleP \/ HandleR

-----------------------------------------------------------------------------
(* The main window: mountFile and dropEvent change links while the device   *)
(* is out of the table; setLink, resetLink and swapLinks close the entry of *)
(* the handle table that has the link's number, whosever file it is.        *)

Forget(s, n) ==
  [s EXCEPT !.io[n] = ClosedFile(@), !.parbuf[n] = ZeroBlock, !.cwd[n] = 0]

SetLink(s, n, f) == [Forget(s, n) EXCEPT !.linked[n] = f]
ResetLink(s, n)  == SetLink(s, n, NoFolder)

(* A link keeps only its folder when it is swapped.                         *)
SwapLinks(s, m, n) ==
  LET from == s.linked[m]
      to   == s.linked[n]
      s1   == IF from # NoFolder THEN ResetLink(s, m) ELSE s
      s2   == IF to # NoFolder THEN ResetLink(SetLink(s1, m, to), n) ELSE s1
  IN  IF from # NoFolder THEN SetLink(s2, n, from) ELSE s2

GuiStart(op, m, n, f) ==
  /\ gui.pc = "idle" /\ op \in GuiOps /\ ~server.crashed
  /\ left.changes > 0 /\ left' = [left EXCEPT !.changes = @ - 1]
  /\ gui' = [pc |-> "change", op |-> op, from |-> m, to |-> n, folder |-> f]
  /\ installed' = FALSE
  /\ UNCHANGED <<server, line, call, programs>>

(* A folder is mounted, another image takes the place of a folder, or two   *)
(* drives are swapped by drag and drop.                                     *)
GuiUninstall ==
  \/ \E n \in Links, f \in Folders : GuiStart("link", n, n, f)
  \/ \E n \in Links : server.linked[n] # NoFolder /\ GuiStart("unlink", n, n, NoFolder)
  \/ \E m, n \in Links :
       /\ m # n /\ {server.linked[m], server.linked[n]} # {NoFolder}
       /\ GuiStart("swap", m, n, NoFolder)

GuiChange ==
  /\ gui.pc = "change"
  /\ LET touched == {gui.from, gui.to}
     IN  /\ server' = IF gui.op = "link" THEN SetLink(server, gui.from, gui.folder)
                      ELSE IF gui.op = "unlink" THEN ResetLink(server, gui.from)
                      ELSE SwapLinks(server, gui.from, gui.to)
         /\ call' = [call EXCEPT !.cut = @ \/ ( /\ call.pc = "busy"
                                               /\ {Unit, Blk.handle, call.handle} \cap touched # {} )]
         /\ pulled' = pulled \cup {h \in touched : known[h] # NoFile}
         /\ knownCwd' = [n \in Units |-> IF n \in touched THEN Unknown ELSE knownCwd[n]]
  /\ gui' = [GuiIdle EXCEPT !.pc = "install"]
  /\ UNCHANGED <<installed, line, left, known, knownDirs, lost>>

GuiInstall ==
  /\ gui.pc = "install"
  /\ installed' = TRUE
  /\ gui' = GuiIdle
  /\ UNCHANGED <<server, line, call, left, programs>>

GuiNext == GuiUninstall \/ GuiChange \/ GuiInstall

-----------------------------------------------------------------------------
(* The Atari: programs call, the driver sends 'P', 'S', 'R', 'S'.           *)

Opens == {"FOPEN", "FFIRST"}

Counted == {"FREAD", "FWRITE", "FSEEK", "FNEXT", "FCLOSE", "FOPEN", "FFIRST", "REMOVE",
            "MKDIR", "CHDIR"}

(* The functions that change all they have to or nothing.                   *)
AllOrNothing == {"FSEEK", "FCLOSE", "FOPEN", "FFIRST", "MKDIR", "CHDIR"}

Blocks ==
  {Block(f, h, n) : f \in {"FREAD", "FWRITE"}, h \in Handles, n \in 1..MaxLen}
    \cup {Block("FSEEK", h, n) : h \in Handles, n \in 0..MaxLen}
    \cup {Block(f, h, 0) : f \in {"FTELL", "FNEXT", "FCLOSE"}, h \in Handles}
    \cup {Block("FOPEN", 0, m) : m \in Modes}
    \cup {Block("CHDIR", 0, d) : d \in {-1, 1}}
    \cup {Block(f, 0, 0) : f \in {"FFIRST", "REMOVE", "MKDIR", "GETCWD", "INIT"}}

(* A program uses its own files, and FNEXT on what it has from FFIRST.      *)
(* INIT is the warm reset, which no program survives.                       *)
Sensible(n, c) ==
  /\ c.fn = "INIT" <=> n = 0
  /\ n # 0 => c.fn \in Uses[n]
  /\ c.fn \in OnFile => known[c.handle] # NoFile /\ known[c.handle].unit = n
  /\ c.fn = "FNEXT" => c.handle \in knownDirs
  /\ c.fn \in {"FREAD", "FWRITE"} => server.io[c.handle].pos + c.arg <= MaxPos

Call ==
  /\ call.pc = "idle"
  /\ left.calls > 0 /\ left' = [left EXCEPT !.calls = @ - 1]
  /\ \E n \in Units, c \in Blocks :
       /\ Sensible(n, c)
       /\ call' = [NoCall EXCEPT !.pc = "busy", !.unit = n, !.block = c,
                                 !.handle = NoHandle, !.twin = (c = server.parbuf[n])]
       /\ IF c.fn = "INIT" THEN /\ known' = [h \in Handles |-> NoFile] /\ knownDirs' = {}
                                /\ lost' = Handles /\ pulled' = {}
                           ELSE UNCHANGED <<known, knownDirs, lost, pulled>>
  /\ line' = [Quiet EXCEPT !.at = "command"]
  /\ UNCHANGED <<server, installed, gui, knownCwd>>

(* The call ends.  A result that the driver cannot tell leaves the program  *)
(* in the dark about the position, the directory or the handle.             *)
Effect(result, n) ==
  LET h    == Blk.handle
      fn   == Blk.fn
      dark == result = "line" \/ call.cut
      old  == known[h]
  IN  /\ known' =
           IF fn \in Opens /\ result = "ok"
           THEN [known EXCEPT ![call.handle] =
                   [unit |-> Unit,
                    pos  |-> IF fn = "FFIRST" THEN 1 ELSE IF Blk.arg = 9 THEN call.size ELSE 0]]
           ELSE IF fn = "FCLOSE" THEN [known EXCEPT ![h] = NoFile]
           ELSE IF fn \notin OnFile \/ old = NoFile THEN known
           ELSE [known EXCEPT ![h].pos =
                   IF dark \/ fn = "FNEXT" THEN Unknown
                   ELSE IF fn = "FSEEK" /\ result = "ok" THEN Blk.arg
                   ELSE IF fn = "FTELL" /\ result = "ok" THEN call.size
                   ELSE IF fn \in {"FREAD", "FWRITE"} /\ old.pos # Unknown THEN old.pos + n
                   ELSE @]
      /\ knownDirs' = IF fn = "FFIRST" /\ result = "ok" THEN knownDirs \cup {call.handle}
                      ELSE IF fn = "FOPEN" /\ result = "ok" THEN knownDirs \ {call.handle}
                      ELSE IF fn = "FCLOSE" THEN knownDirs \ {h}
                      ELSE knownDirs
      /\ knownCwd' =
           IF fn = "CHDIR" /\ (dark \/ call.twin) THEN [knownCwd EXCEPT ![Unit] = Unknown]
           ELSE IF fn = "CHDIR" /\ result = "ok" /\ knownCwd[Unit] # Unknown
                THEN [knownCwd EXCEPT ![Unit] = @ + Blk.arg]
           ELSE IF fn = "GETCWD" /\ result = "ok" /\ ~dark THEN [knownCwd EXCEPT ![Unit] = call.size]
           ELSE knownCwd
      /\ lost' = IF fn = "INIT" /\ result = "ok" THEN {}
                 ELSE IF fn \in Opens /\ result = "ok" THEN lost \ {call.handle}
                 ELSE IF fn \in Opens /\ dark THEN lost \cup ({call.handle} \cap Handles)
                 ELSE IF fn = "FCLOSE" /\ dark THEN lost \cup {h}
                 ELSE lost
      /\ pulled' = IF fn \in Opens /\ result = "ok"
                   THEN IF call.cut THEN pulled \cup {call.handle}
                                    ELSE pulled \ {call.handle}
                   ELSE pulled

(* Whether the driver's result tells what has happened.                     *)
Honest(result) ==
  call.cut \/ call.twin \/
    /\ result = "ok" /\ Blk.fn \in Counted => call.times = 1
    /\ result = "refused" /\ Blk.fn \in AllOrNothing => call.times = 0

End(result, n) ==
  /\ call' = [NoCall EXCEPT !.honest = Honest(result)]
  /\ line' = Quiet
  /\ Effect(result, n)

Result(e) ==
  IF e \in {1, 3} THEN "ok" ELSE IF e = 143 THEN "line" ELSE "refused"

GoesOn(stage, size) ==
  /\ call' = [call EXCEPT !.stage = stage, !.size = size, !.tries = 0]
  /\ line' = [Quiet EXCEPT !.at = "command"]
  /\ UNCHANGED programs

(* The answer the driver waits for; a block read is never empty.            *)
Expected ==
  IF call.stage = "P" THEN line.fn = "complete"
  ELSE line.fn = Blk.fn /\ (Blk.fn = "FREAD" => line.val > 0)

Receive ==
  /\ line.at = "reply" /\ Expected
  /\ IF call.stage = "P" THEN GoesOn("S1", call.size)
     ELSE IF Blk.fn = "FNEXT" THEN End(Result(line.val), 0)
     ELSE GoesOn("S2", IF Blk.fn \in {"FREAD", "FWRITE"} THEN call.size ELSE line.val)
  /\ UNCHANGED <<server, installed, gui, left>>

(* 'S' changes nothing and may be repeated: the driver learns the unit's    *)
(* status, or it gives up.                                                  *)
Status ==
  /\ line.at = "command"
  /\ \/ /\ Takes("S1")
        /\ IF server.err[Unit] # 1 \/ Blk.fn \in ByP
           THEN End(Result(server.err[Unit]), 0)
           ELSE GoesOn("R", call.size)
     \/ Takes("S2") /\ End(Result(server.err[Unit]), call.size)
     \/ call.stage \in {"S1", "S2"} /\ End("line", 0)
  /\ UNCHANGED <<server, installed, gui, left>>

(* A frame is lost on the line, nobody answers, the answer is a NAK or has  *)
(* another length: the driver tries again, and gives up in the end.         *)
Fail ==
  /\ line.at \in {"command", "reply"} /\ call.stage \in {"P", "R"}
  /\ IF call.tries + 1 < MaxTries
     THEN /\ call' = [call EXCEPT !.tries = @ + 1]
          /\ line' = [Quiet EXCEPT !.at = "command"]
          /\ UNCHANGED programs
     ELSE End("line", 0)
  /\ UNCHANGED <<server, installed, gui, left>>

AtariNext == Call \/ Receive \/ Status \/ Fail

Next == Handle \/ GuiNext \/ AtariNext

Spec == Init /\ [][Next]_vars

-----------------------------------------------------------------------------
TypeOK ==
  /\ server.linked \in [Units -> Folders \cup {NoFolder}]
  /\ server.linked[0] = NoFolder
  /\ server.cwd \in [Units -> 0..MaxDepth]
  /\ \A h \in Handles :
       LET f == server.io[h]
       IN  f.pos \in 0..MaxPos /\ f.size \in 0..MaxLen + 1 /\ (~f.open => f = Closed)
  /\ server.old \in {"none", "P", "R"}
  /\ installed <=> gui.pc = "idle"
  /\ line.at = "quiet" <=> call.pc = "idle"
  /\ call.stage \in {"P", "S1", "R", "S2"} /\ call.tries \in 0..MaxTries - 1
  /\ lost \subseteq Handles /\ pulled \subseteq Handles /\ knownDirs \subseteq Handles
  /\ \A h \in Handles : known[h].pos \in Nat \cup {Unknown}

(* However often the line makes the Atari repeat a command, a call is       *)
(* carried out at most once; one reported as done has been, and one that    *)
(* was refused has not.  Named cases are left out: a REMOVE, RENAME or      *)
(* CHMOD that was refused may have changed some of its files, though never  *)
(* twice; a new call whose block equals the last one of its unit (the       *)
(* server takes it for a repetition); and a change of links in the middle   *)
(* of a call.                                                               *)
CallsOnce == call.honest /\ (call.times > 1 => call.cut \/ call.twin)

(* Between calls, each program's files are open, for its unit and at the    *)
(* position it has reached, and each unit's directory is the one the        *)
(* programs are in, unless a call ended without an answer or a change of    *)
(* links closed the file.                                                   *)
ProgramsAgree ==
  call.pc = "idle" =>
    /\ \A h \in Handles \ pulled :
         known[h] # NoFile =>
           /\ server.io[h].open /\ server.io[h].unit = known[h].unit
           /\ known[h].pos \in {Unknown, server.io[h].pos}
    /\ \A n \in Links : knownCwd[n] \in {Unknown, server.cwd[n]}

(* The table's entries are used up only by the programs' open files and by  *)
(* calls that ended without an answer.                                      *)
NoLeak ==
  call.pc = "idle" =>
    \A h \in Handles : server.io[h].open => known[h] # NoFile \/ h \in lost

(* 'R' uses the handle that 'P' has checked, without looking again: it      *)
(* meets a closed file only when links were changed between the two.  FNEXT *)
(* takes a plain file for a directory only when a change of links has       *)
(* closed the program's directory and its handle has gone to the file.      *)
NullFileOnlyWhenCut ==
  [][~server.crashed /\ server'.crashed =>
       call.cut \/ (Par.fn = "FNEXT" /\ Par.handle \in pulled)]_vars

(* A call moves and closes only its own unit's files; only a warm reset and *)
(* a change of links reach further.                                         *)
UnitsApart ==
  [][\A h \in Handles :
       LET f == server.io[h]
           g == server'.io[h]
       IN  f.open /\ <<f.open, f.unit, f.pos>> # <<g.open, g.unit, g.pos>> =>
             gui' # gui \/ Blk.fn = "INIT" \/ f.unit = Unit \/ h \in pulled]_vars
=============================================================================
