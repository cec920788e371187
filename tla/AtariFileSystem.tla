--------------------------- MODULE AtariFileSystem ---------------------------
(***************************************************************************)
(* The image explorer on a DOS disk (atarifilesystem.cpp and the model of  *)
(* diskeditdialog.cpp): a directory of numbered entries, files as chains   *)
(* of sectors that carry their file's number, and a map of the free        *)
(* sectors that exists twice, in sector 360 of the image and in the        *)
(* explorer's file system object.  The explorer holds the image's lock, so *)
(* that no one else touches the image; a task of several files is carried  *)
(* out file by file while the user waits.                                  *)
(*                                                                         *)
(* Sectors of the image can always be read and written; a file of the host *)
(* may turn out to be unreadable, at once or at any block.                 *)
(*                                                                         *)
(* Rows that were removed in the wrong order leave the window with rows of *)
(* entries that are gone.  Once the user has deleted or entered one of     *)
(* these (misled), the running task ends and no other one is begun.        *)
(***************************************************************************)
EXTENDS Integers, Sequences, FiniteSets, FiniteSetsExt, SequencesExt

CONSTANTS
  LastSector,        \* the bitmap's last sector: 719, 1023 or the image's last
  System,            \* boot sectors, VTOC and root directory
  Root,              \* first sector of the root directory: 361
  DirSectors,        \* sectors of a directory: 8
  EntriesPerSector,  \* 8
  DirsFrom,          \* where a new directory is looked for first: 369
  LinkRange,         \* the sectors that a link of 10 bits can name: 1024
  Blocks,            \* the files of the host and their lengths in sectors
  HostDirs,          \* the folders of the host: the files in each
  Drops,             \* the lists of files and folders that are dropped at once
  CountRange,        \* the values of a 16 bit counter of free sectors: 65536
  MaxTasks           \* bound: how often files are inserted or deleted

Sector    == 0..LastSector
FirstFree == 4
Number    == 0..DirSectors * EntriesPerSector - 1
Files     == DOMAIN Blocks
Folders   == DOMAIN HostDirs

ASSUME FileSystemAssumption ==
  /\ LastSector \in Nat /\ LinkRange \in Nat \ {0}
  /\ DirSectors \in Nat \ {0} /\ EntriesPerSector \in Nat \ {0}
  /\ Root \in Nat /\ DirsFrom \in Nat
  /\ 0..3 \subseteq System /\ System \subseteq Sector
  /\ Root..Root + DirSectors - 1 \subseteq System
  /\ \A f \in Files : Blocks[f] \in Nat
  /\ \A d \in Folders : HostDirs[d] \in Seq(Files)
  /\ Files \cap Folders = {}
  /\ Drops \subseteq Seq(Files \cup Folders) \ {<<>>}
  /\ CountRange \in Nat /\ LastSector < CountRange
  /\ MaxTasks \in Nat

VARIABLES
  data,  \* the data sectors: the link they hold, and which block of which file
  dirs,  \* the directories of the image, by their first sector
  vtoc,  \* the map of free sectors and their number, as in sector 360, and
         \* whether sector 0 has ever been counted off it (history)
  fs,    \* the same in the file system object
  path,  \* the directories from the root to the one shown (dirs)
  view,  \* the rows shown (entries)
  todo,  \* what is left of the task at hand
  tasks, \* how many tasks there have been
  stale, \* rows have been removed bottom up since the window was filled (history)
  misled \* the user took a row for an entry that is not there (history)

history == <<stale, misled>>
vars    == <<data, dirs, vtoc, fs, path, view, todo, tasks, history>>

Never   == [flag |-> "never", first |-> 0, count |-> 0, from |-> "none"]
Deleted == [Never EXCEPT !.flag = "deleted"]
Entry   == [flag : {"never", "deleted", "file", "dir"}, first : Sector,
            count : Nat, from : Files \cup Folders \cup {"none"}]
Row     == [no : Number, dir : Sector, entry : Entry]
Empty   == [no \in Number |-> Never]

-----------------------------------------------------------------------------
(* Links.  The two high bits of a sector's number share a byte with the     *)
(* file's number, and nothing keeps larger sectors out of the number.       *)

Bit(i, n) == (n \div 2^i) % 2
Or(a, b)  == MapThenSumSet(LAMBDA i : 2^i * (IF Bit(i, a) + Bit(i, b) > 0 THEN 1 ELSE 0), 0..7)

(* Mutant: the link without the file's number.                              *)
LinkUnnumbered(no, next) == [file |-> next \div LinkRange, next |-> next % LinkRange]

Link(no, next) ==
  [file |-> IF next < LinkRange THEN no ELSE Or(no, next \div LinkRange),
   next |-> next % LinkRange]

(* The sectors a file's chain leads through, at most as many as its entry   *)
(* says; 0 is the end.                                                      *)
Chain(e) ==
  LET at[i \in 0..e.count] ==
        IF i = 0 THEN e.first ELSE IF at[i - 1] = 0 THEN 0 ELSE data[at[i - 1]].next
  IN  at

(* Which steps of a chain are taken, and which sectors carry another file's *)
(* number.                                                                  *)
Foreign(e, no) == {i \in 0..e.count - 1 : Chain(e)[i] # 0 /\ data[Chain(e)[i]].file # no}
Steps(e, no) ==
  {i \in 0..e.count - 1 : Chain(e)[i] # 0 /\ \A j \in Foreign(e, no) : i <= j}

(* Directory entries up to the first that was never used.                   *)
Listed(d) ==
  {no \in Number : /\ dirs[d][no].flag \in {"file", "dir"}
                   /\ \A k \in 0..no : dirs[d][k].flag # "never"}

(* The rows of a directory, in the order of their numbers.                  *)
Nth(d, i) == CHOOSE no \in Listed(d) : Cardinality({k \in Listed(d) : k <= no}) = i

GetEntries(d) ==
  [i \in 1..Cardinality(Listed(d)) |->
     [no |-> Nth(d, i), dir |-> d, entry |-> dirs[d][Nth(d, i)]]]

FreeNumbers(d) == {no \in Number : dirs[d][no].flag \in {"never", "deleted"}}

-----------------------------------------------------------------------------
(* The map of free sectors.                                                 *)

Usable(map) == {s \in map : s >= FirstFree}

(* findFreeSector: the next free sector, from the beginning if there is     *)
(* none, and 0 if there is none at all.                                     *)
FindFree(map, from) ==
  LET later == {s \in Usable(map) : s >= from}
  IN  IF later # {} THEN Min(later) ELSE IF Usable(map) # {} THEN Min(Usable(map)) ELSE 0

(* The sectors a file of n sectors gets, one after the other.               *)
Allocation(map, n) ==
  LET at[i \in 1..n] ==
        LET left == map \ {at[j] : j \in 1..i - 1}
        IN  FindFree(left, IF i = 1 THEN 0 ELSE at[i - 1] + 1)
  IN  at

(* Mutant: of several sectors only the first is marked.                     *)
TakenFirst(map, s, zeros) ==
  [map |-> map.map \ {Min(s)}, count |-> (map.count - 1) % CountRange, zero |-> map.zero]

(* allocateSector for each of s, and zeros times for sector 0, which is what *)
(* findFreeSector answers when none is left: its bit is clear, it is counted *)
(* all the same.                                                            *)
Taken(map, s, zeros) ==
  [map |-> map.map \ s, count |-> (map.count - (Cardinality(s) + zeros)) % CountRange,
   zero |-> map.zero \/ zeros > 0]

(* Mutants: what is freed is not counted; the 0 that ends a chain is freed. *)
FreedUncounted(map, s, times) == [map EXCEPT !.map = @ \cup s]
FreedWithEnd(map, s, times) ==
  [map |-> map.map \cup s \cup {0}, count |-> (map.count + times) % CountRange,
   zero |-> map.zero]

Freed(map, s, times) ==
  [map |-> map.map \cup s, count |-> (map.count + times) % CountRange, zero |-> map.zero]

DirAt(s) == s..s + DirSectors - 1

(* makeDir tries the free sectors in turn, those from sector 369 on first.  *)
Room(map) == {s \in map : s >= FirstFree /\ DirAt(s) \subseteq map}

-----------------------------------------------------------------------------
(* Tasks.  level is the depth of the recursion.                             *)

Insertion(d, host, level) == [op |-> "insert", dir |-> d, host |-> host, level |-> level]
Deletion(op, row)         == [op |-> op, row |-> row, level |-> 1]

Init ==
  /\ data = [s \in Sector |-> [file |-> 0, next |-> 0, from |-> "none", block |-> 0]]
  /\ dirs = [s \in Sector |-> Empty]
  /\ vtoc = [map |-> Sector \ System, count |-> Cardinality(Sector \ System), zero |-> FALSE]
  /\ fs = vtoc
  /\ path = <<Root>>
  /\ view = <<>>
  /\ todo = <<>>
  /\ tasks = 0
  /\ stale = FALSE /\ misled = FALSE

Idle == todo = <<>>

Starts(list) ==
  /\ ~misled
  /\ todo' = list
  /\ tasks < MaxTasks /\ tasks' = tasks + 1

(* The window is filled anew.                                               *)
Fills(d) == view' = GetEntries(d) /\ stale' = FALSE

(* go and fileSystemChanged: a new file system object, at the root.         *)
Open ==
  /\ Idle
  /\ fs' = vtoc
  /\ path' = <<Root>>
  /\ Fills(Root)
  /\ UNCHANGED <<data, dirs, vtoc, todo, tasks, misled>>

(* Whether these rows are entries that the directory has, no one twice.     *)
Meant(rows) ==
  /\ \A i \in DOMAIN rows : view[rows[i]] \in ToSet(GetEntries(Last(path)))
  /\ \A i, j \in DOMAIN rows : i # j => view[rows[i]] # view[rows[j]]

SetDirectory(r) ==
  /\ Idle /\ ~misled
  /\ view[r].entry.flag = "dir"
  /\ path' = Append(path, view[r].entry.first)
  /\ Fills(view[r].entry.first)
  /\ misled' = ~Meant(<<r>>)
  /\ UNCHANGED <<data, dirs, vtoc, fs, todo, tasks>>

ToParent ==
  /\ Idle
  /\ Len(path) > 1
  /\ path' = Front(path)
  /\ Fills(Last(Front(path)))
  /\ UNCHANGED <<data, dirs, vtoc, fs, todo, tasks, misled>>

(* insertFiles: files and folders of the host are dropped on the window.    *)
InsertFiles(hosts) ==
  /\ Idle
  /\ Starts([i \in DOMAIN hosts |-> Insertion(Last(path), hosts[i], 1)])
  /\ UNCHANGED <<data, dirs, vtoc, fs, path, view, history>>

(* insertRecursive gives up the list a failing file is in, and goes on with *)
(* the list above it.                                                       *)
ListAbove ==
  LET above == {i \in DOMAIN todo : todo[i].level < Head(todo).level}
  IN  IF above = {} THEN <<>> ELSE SubSeq(todo, Min(above), Len(todo))

InsertFails == todo' = ListAbove /\ UNCHANGED <<data, dirs, vtoc, path, view>>

AddEntry(d, no, e) ==
  /\ dirs' = [dirs EXCEPT ![d][no] = e]
  /\ view' = IF Head(todo).level = 1 THEN Append(view, [no |-> no, dir |-> d, entry |-> e])
                                     ELSE view

(* The sectors of an inserted file: its blocks and their links.             *)
Written(no, f, at, n) ==
  [s \in Sector |->
     IF \E i \in 1..n : at[i] = s
     THEN LET i == CHOOSE j \in 1..n : at[j] = s
              l == Link(no, IF i = Len(at) THEN 0 ELSE at[i + 1])
          IN  [file |-> l.file, next |-> l.next, from |-> f, block |-> i]
     ELSE data[s]]

(* Most blocks that a file has: in text mode it may turn out shorter, since  *)
(* carriage returns are dropped while it is read.                           *)
Most(f) == IF Blocks[f] = 0 THEN 1 ELSE Blocks[f]

Inserted(no, d, f, n) ==
  LET at == Allocation(fs.map, n)
  IN  /\ fs' = Taken(fs, {at[j] : j \in 1..n}, 0)
      /\ data' = Written(no, f, at, n)
      /\ AddEntry(d, no, [flag |-> "file", first |-> at[1], count |-> n, from |-> f])
      /\ vtoc' = fs'
      /\ todo' = Tail(todo)
      /\ UNCHANGED path

(* The sectors taken so far stay taken in the object's map, those written   *)
(* keep what is in them; what that is matters to no one.                    *)
GivenUp(no, f, n, written, zeros) ==
  LET at == Allocation(fs.map, n)
  IN  /\ fs' = Taken(fs, {at[j] : j \in 1..n}, zeros)
      /\ data' = Written(no, f, at, written)
      /\ todo' = ListAbove
      /\ UNCHANGED <<dirs, vtoc, path, view>>

(* Dos10FileSystem::insert.  A block is read when its sector has been taken, *)
(* and written when the next one has.  A file may fail to open, and to be   *)
(* read on at any block.  In text mode the latter goes unnoticed: the file  *)
(* never comes to its end and takes all that is left and sector 0 after it. *)
(* So does one that is too long after all; writing sector 0 fails, after it *)
(* has been taken once (as the file's last) or twice.                       *)
Insert ==
  /\ ~Idle /\ Head(todo).op = "insert" /\ Head(todo).host \in Files
  /\ LET d    == Head(todo).dir
         f    == Head(todo).host
         no   == Min(FreeNumbers(d))
         room == Cardinality(Usable(fs.map))
     IN  \/ InsertFails /\ UNCHANGED fs
         \/ /\ FreeNumbers(d) # {} /\ Blocks[f] <= fs.count /\ room > 0
            /\ \/ \E n \in 1..Most(f) : n <= room /\ Inserted(no, d, f, n)
               \/ \E i \in 1..Blocks[f] : i <= room /\ GivenUp(no, f, i, i - 1, 0)
               \/ Most(f) > room /\ GivenUp(no, f, room, room, 1)
               \/ Blocks[f] > 0 /\ GivenUp(no, f, room, room, 2)

(* Dos10FileSystem::makeDir, and the folder's files become the next task.   *)
MakeDir ==
  /\ ~Idle /\ Head(todo).op = "insert" /\ Head(todo).host \in Folders
  /\ LET d     == Head(todo).dir
         h     == Head(todo).host
         room  == Room(fs.map)
         later == {s \in room : s >= DirsFrom}
     IN  IF FreeNumbers(d) = {} \/ room = {}
           THEN InsertFails /\ UNCHANGED fs
           ELSE LET s     == Min(IF later # {} THEN later ELSE room)
                    no    == Min(FreeNumbers(d))
                    e     == [flag |-> "dir", first |-> s, count |-> DirSectors, from |-> h]
                    below == [i \in DOMAIN HostDirs[h] |->
                                Insertion(s, HostDirs[h][i], Head(todo).level + 1)]
                IN  /\ fs' = Taken(fs, DirAt(s), 0)
                    /\ dirs' = [dirs EXCEPT ![s] = Empty, ![d][no] = e]
                    /\ view' = IF Head(todo).level > 1 THEN view
                               ELSE Append(view, [no |-> no, dir |-> d, entry |-> e])
                    /\ vtoc' = fs'
                    /\ todo' = below \o Tail(todo)
                    /\ UNCHANGED <<data, path>>

-----------------------------------------------------------------------------
(* Selected rows, in the order in which they were selected.                 *)
Selections ==
  {rows \in UNION {[1..n -> DOMAIN view] : n \in 1..Len(view)} :
     \A i, j \in DOMAIN rows : i # j => rows[i] # rows[j]}

TopDown(rows) == \A i, j \in DOMAIN rows : i < j => rows[i] < rows[j]

DeletionOf(row) == Deletion(IF row.entry.flag = "dir" THEN "list" ELSE "erase", row)

Selected(rows) ==
  /\ Starts([i \in DOMAIN rows |-> DeletionOf(view[rows[i]])])
  /\ misled' = ~Meant(rows)
  /\ stale' = (stale \/ ~TopDown(rows))

(* Mutant: the first selected row is removed first.                         *)
DeleteFilesForward(rows) ==
  /\ Idle
  /\ Selected(rows)
  /\ view' = FoldLeft(LAMBDA v, r : IF r <= Len(v) THEN RemoveAt(v, r) ELSE v, view, rows)
  /\ UNCHANGED <<data, dirs, vtoc, fs, path>>

(* deleteFiles: the rows are removed one by one, the last selected first,   *)
(* each at its own index, whatever becomes of the files.  Where no row is   *)
(* left at an index, Qt 5 removes none.                                     *)
RowsLeft(rows) ==
  LET left[i \in 0..Len(rows)] ==
        IF i = 0 THEN view
        ELSE LET r == rows[Len(rows) - i + 1]
             IN  IF r <= Len(left[i - 1]) THEN RemoveAt(left[i - 1], r) ELSE left[i - 1]
  IN  left[Len(rows)]

DeleteFiles(rows) ==
  /\ Idle
  /\ Selected(rows)
  /\ view' = RowsLeft(rows)
  /\ UNCHANGED <<data, dirs, vtoc, fs, path>>

(* Mutant: a directory is listed again instead of removed.                  *)
ListDirAgain ==
  /\ ~Idle /\ Head(todo).op = "list"
  /\ LET row   == Head(todo).row
         inner == GetEntries(row.entry.first)
     IN  todo' = [i \in DOMAIN inner |-> DeletionOf(inner[i])]
                   \o <<Deletion("list", row)>> \o Tail(todo)
  /\ UNCHANGED <<data, dirs, vtoc, fs, path, view>>

MarkDeleted(row) == dirs' = [dirs EXCEPT ![row.dir][row.no] = Deleted]

(* Dos10FileSystem::erase.  A sector is freed before its number is looked   *)
(* at; after another file's number the task ends and the map is not saved.  *)
Erase ==
  /\ ~Idle /\ Head(todo).op = "erase"
  /\ LET row   == Head(todo).row
         steps == Steps(row.entry, row.no)
     IN  /\ MarkDeleted(row)
         /\ fs' = Freed(fs, {Chain(row.entry)[i] : i \in steps}, Cardinality(steps))
         /\ IF Foreign(row.entry, row.no) # {}
              THEN todo' = <<>> /\ UNCHANGED vtoc
              ELSE todo' = Tail(todo) /\ vtoc' = fs'
  /\ UNCHANGED <<data, path, view>>

(* deleteRecursive deletes what is in a directory, then the directory.      *)
ListDir ==
  /\ ~Idle /\ Head(todo).op = "list"
  /\ LET row   == Head(todo).row
         inner == GetEntries(row.entry.first)
     IN  todo' = [i \in DOMAIN inner |-> DeletionOf(inner[i])]
                   \o <<Deletion("remove", row)>> \o Tail(todo)
  /\ UNCHANGED <<data, dirs, vtoc, fs, path, view>>

RemoveDir ==
  /\ ~Idle /\ Head(todo).op = "remove"
  /\ LET row == Head(todo).row
     IN  /\ MarkDeleted(row)
         /\ fs' = Freed(fs, DirAt(row.entry.first), DirSectors)
  /\ vtoc' = fs'
  /\ todo' = Tail(todo)
  /\ UNCHANGED <<data, path, view>>

Task ==
  /\ Insert \/ MakeDir \/ Erase \/ ListDir \/ RemoveDir
  /\ UNCHANGED <<tasks, history>>

(* What a user does in the window.                                          *)
User ==
  \/ Open \/ ToParent
  \/ \E r \in DOMAIN view : SetDirectory(r)
  \/ \E hosts \in Drops : InsertFiles(hosts)
  \/ \E rows \in Selections : DeleteFiles(rows)

Next == Task \/ User

Spec == Init /\ [][Next]_vars

FairSpec == Spec /\ WF_vars(Task)

-----------------------------------------------------------------------------
(* The directories that can be reached from the root.                       *)
Directories ==
  LET d[i \in 0..LastSector] ==
        IF i = 0 THEN {Root}
        ELSE d[i - 1] \cup {dirs[x[1]][x[2]].first : x \in
               {y \in d[i - 1] \X Number : y[2] \in Listed(y[1]) /\ dirs[y[1]][y[2]].flag = "dir"}}
  IN  d[Cardinality(Sector \ System) \div DirSectors]

Entries == {x \in Directories \X Number : x[2] \in Listed(x[1])}

SectorsOf(x) ==
  LET e == dirs[x[1]][x[2]]
  IN  IF e.flag = "dir" THEN DirAt(e.first)
                        ELSE {Chain(e)[i] : i \in Steps(e, x[2])}

TypeOK ==
  /\ data \in [Sector -> [file : Nat, next : Sector, from : Files \cup {"none"}, block : Nat]]
  /\ dirs \in [Sector -> [Number -> Entry]]
  /\ \A m \in {vtoc, fs} : m.map \subseteq Sector \ System /\ m.count \in 0..CountRange - 1
  /\ path \in Seq(Sector) /\ path # <<>>
  /\ view \in Seq(Row)

(* Whatever is inserted, deleted, given up half-way and opened again, and   *)
(* whichever rows are selected in what order, no sector belongs to two      *)
(* entries, and none of an entry's is free, on the disk or in the explorer, *)
(* until the user deletes or enters a row that is no entry (misled).        *)
SectorsOwned ==
  ~misled =>
    \A x \in Entries :
      /\ \A y \in Entries \ {x} : SectorsOf(x) \cap SectorsOf(y) = {}
      /\ SectorsOf(x) \cap (vtoc.map \cup fs.map \cup System) = {}

(* Every file can be read back as it was inserted, by its number and along  *)
(* its links, until then.                                                   *)
FilesIntact ==
  ~misled =>
    \A x \in Entries :
      LET e == dirs[x[1]][x[2]]
          c == Chain(e)
      IN  e.flag = "file" =>
            /\ Foreign(e, x[2]) = {}
            /\ \A i \in 0..e.count - 1 :
                 c[i] # 0 /\ data[c[i]].from = e.from /\ data[c[i]].block = i + 1
            /\ data[c[e.count - 1]].next = 0

(* The number of free sectors, from which insert takes that a file fits, is *)
(* that of the map, in which it looks for them.  The one way to part the    *)
(* two is sector 0, taken when insert has run out of sectors.               *)
CountsAgree ==
  ~misled => \A m \in {vtoc, fs} : m.zero \/ m.count = Cardinality(m.map)

(* The window shows the directory as it is, unless a task is at work or     *)
(* rows have been removed bottom up since it was filled: files that could   *)
(* not be inserted, trees and other directories leave no row behind.        *)
ViewIsDirectory ==
  Idle /\ ~stale /\ ~misled => ToSet(view) = ToSet(GetEntries(Last(path)))

(* A task of any number of files and folders ends.                          *)
TaskEnds == ~Idle ~> Idle

(* What is deleted is what was selected ("Are you sure you want to delete   *)
(* selected files?", diskeditdialog.cpp:667): where a row to be deleted     *)
(* names a living entry, it is that row's.                                  *)
OnlySelectedFiles ==
  \A i \in DOMAIN todo :
    LET r == todo[i].row
    IN  todo[i].op # "insert" /\ dirs[r.dir][r.no].flag \in {"file", "dir"} =>
          dirs[r.dir][r.no] = r.entry

=============================================================================
