------------------------- MODULE SioStartStopProofs -------------------------
(***************************************************************************)
(* Check box and worker stay in step through every sequence of starts,     *)
(* stops, restarts and failures, as long as a click waits for the signals  *)
(* already posted; and then the back end is there for the thread that uses *)
(* it and the thread has ended when the program quits.                     *)
(*                                                                         *)
(* What the GUI thread still has to do is a sequence made of handlers put  *)
(* before handlers.  All that the proofs need of it is which instruction   *)
(* can come after which.                                                   *)
(***************************************************************************)
EXTENDS SioLifecycle, TLAPS

-----------------------------------------------------------------------------
(* A command is heard in time, whatever the user does and however many      *)
(* frames are lost to noise.                                                *)

LinkTypeOK ==
  /\ highSpeed \in BOOLEAN
  /\ portSpeed \in Speeds
  /\ search \in [retries : {0, 1}, missed : Nat, noise : Nat, failed : Nat]
  /\ line \in [on : BOOLEAN, speed : Speeds]

Searching == thread \in {"waitOff", "waitOn", "reading"}

(* What may have been missed within readCommandFrame, by the state of the   *)
(* port: attempts at the wrong speed come in pairs, and all but the first   *)
(* pair are paid for by noise or by a change of speed that failed.          *)
SearchInv ==
  LET n == search.noise
      r == search.retries
      m == search.missed
      f == search.failed
  IN  /\ FlagWrong => f >= 1
      /\ SameSpeed =>
           /\ r = n % 2
           /\ n <= m
           /\ m <= 2 + r + 4 * (n \div 2) + 4 * f
      /\ ~SameSpeed =>
           /\ n % 2 = 0
           /\ n + r <= m
           /\ m + (IF FlagWrong THEN 2 ELSE 0) <= r + 4 * (n \div 2) + 4 * f

LinkInv == LinkTypeOK /\ HeardInTime /\ (Searching => SearchInv)

LEMMA Halves ==
  ASSUME NEW x \in Nat
  PROVE  \E h \in Nat, b \in {0, 1} : x = 2 * h + b /\ x \div 2 = h /\ x % 2 = b
<1>1. x \div 2 \in Nat
  OBVIOUS
<1>2. x % 2 \in {0, 1}
  OBVIOUS
<1>3. x = 2 * (x \div 2) + (x % 2)
  OBVIOUS
<1> QED BY <1>1, <1>2, <1>3

(* The bound follows from the relation.                                     *)
LEMMA SearchIsBounded == LinkTypeOK /\ SearchInv => HeardInTime
<1> SUFFICES ASSUME LinkTypeOK, SearchInv PROVE HeardInTime
  OBVIOUS
<1>1. search.noise \in Nat /\ search.retries \in {0, 1} /\ search.missed \in Nat
      /\ search.failed \in Nat
  BY DEF LinkTypeOK
<1>2. PICK h \in Nat, b \in {0, 1} :
        search.noise = 2 * h + b /\ search.noise \div 2 = h /\ search.noise % 2 = b
  BY <1>1, Halves
<1>3. CASE SameSpeed
  <2>1. search.retries = b /\ search.missed <= 2 + b + 4 * h + 4 * search.failed
    BY <1>2, <1>3 DEF SearchInv
  <2> QED BY <1>1, <1>2, <2>1 DEF HeardInTime
<1>4. CASE ~SameSpeed
  <2>1. search.missed <= search.retries + 4 * h + 4 * search.failed
    BY <1>1, <1>2, <1>4 DEF SearchInv
  <2> QED BY <1>1, <1>2, <2>1 DEF HeardInTime
<1> QED BY <1>3, <1>4

(* A first miss changes no speed.                                           *)
LEMMA FirstMissKeepsSearch ==
  ASSUME LinkTypeOK, SearchInv, UNCHANGED line,
         search.retries = 0, search' = Missed(1, 0), UNCHANGED <<highSpeed, portSpeed>>
  PROVE  LinkTypeOK' /\ SearchInv'
<1> DEFINE n == search.noise
           m == search.missed
           f == search.failed
<1>1. n \in Nat /\ m \in Nat /\ f \in Nat
  BY DEF LinkTypeOK
<1>2. PICK h \in Nat, b \in {0, 1} : n = 2 * h + b /\ n \div 2 = h /\ n % 2 = b
  BY <1>1, Halves
<1>3. /\ search' = [retries |-> 1, missed |-> m + 1, noise |-> search'.noise, failed |-> f]
      /\ search'.noise = IF SameSpeed THEN n + 1 ELSE n
  BY <1>1 DEF Missed
<1>4. LinkTypeOK'
  BY <1>1, <1>3 DEF LinkTypeOK
<1>5. (SameSpeed' <=> SameSpeed) /\ (FlagWrong' <=> FlagWrong)
  BY DEF SameSpeed, FlagWrong, SpeedOf
<1>6. CASE SameSpeed
  <2>1. b = 0 /\ m <= 2 + 4 * h + 4 * f /\ n <= m /\ (FlagWrong => f >= 1)
    BY <1>1, <1>2, <1>6 DEF SearchInv
  <2>2. (n + 1) \div 2 = h /\ (n + 1) % 2 = 1
    BY <1>1, <1>2, <2>1
  <2> QED BY <1>1, <1>2, <1>3, <1>4, <1>5, <1>6, <2>1, <2>2 DEF SearchInv
<1>7. CASE ~SameSpeed
  BY <1>1, <1>2, <1>3, <1>4, <1>5, <1>7 DEF SearchInv
<1> QED BY <1>6, <1>7

(* A second miss changes the speed asked for, and the port's unless that    *)
(* fails.                                                                   *)
LEMMA SecondMissKeepsSearch ==
  ASSUME LinkTypeOK, SearchInv, UNCHANGED line, search.retries = 1,
         NEW failures \in {0, 1}, search' = Missed(0, failures), SetSpeed(~highSpeed, failures)
  PROVE  LinkTypeOK' /\ SearchInv'
<1> DEFINE n == search.noise
           m == search.missed
           f == search.failed
<1>1. n \in Nat /\ m \in Nat /\ f \in Nat /\ search.retries \in {0, 1}
  BY DEF LinkTypeOK
<1>2. PICK h \in Nat, b \in {0, 1} : n = 2 * h + b /\ n \div 2 = h /\ n % 2 = b
  BY <1>1, Halves
<1>3. /\ search' = [retries |-> 0, missed |-> m + 1, noise |-> search'.noise,
                    failed |-> f + failures]
      /\ search'.noise = IF SameSpeed THEN n + 1 ELSE n
  BY <1>1 DEF Missed
<1>4. /\ highSpeed \in BOOLEAN /\ line.speed \in {"normal", "high"}
      /\ portSpeed \in {"normal", "high"}
  BY DEF LinkTypeOK, Speeds
<1>5. LinkTypeOK'
  BY <1>1, <1>3, <1>4 DEF LinkTypeOK, SetSpeed, SpeedOf, Speeds
<1>6. CASE failures = 1
  <2>1. (SameSpeed' <=> SameSpeed) /\ (FlagWrong' <=> ~FlagWrong)
    <3>1. highSpeed' = ~highSpeed /\ portSpeed' = portSpeed /\ line' = line
      BY <1>6 DEF SetSpeed
    <3>2. CASE highSpeed
      BY <1>4, <3>1, <3>2 DEF SameSpeed, FlagWrong, SpeedOf
    <3>3. CASE ~highSpeed
      BY <1>4, <3>1, <3>3 DEF SameSpeed, FlagWrong, SpeedOf
    <3> QED BY <3>2, <3>3
  <2>2. CASE SameSpeed
    <3>1. b = 1 /\ m <= 3 + 4 * h + 4 * f /\ n <= m
      BY <1>1, <1>2, <2>2 DEF SearchInv
    <3>2. (n + 1) \div 2 = h + 1 /\ (n + 1) % 2 = 0
      BY <1>1, <1>2, <3>1
    <3> QED BY <1>1, <1>2, <1>3, <1>5, <1>6, <2>1, <2>2, <3>1, <3>2 DEF SearchInv
  <2>3. CASE ~SameSpeed
    <3>1. b = 0 /\ m <= 1 + 4 * h + 4 * f /\ n + 1 <= m
      BY <1>1, <1>2, <2>3 DEF SearchInv
    <3> QED BY <1>1, <1>2, <1>3, <1>5, <1>6, <2>1, <2>3, <3>1 DEF SearchInv
  <2> QED BY <2>2, <2>3
<1>7. CASE failures = 0
  <2>1. ~FlagWrong' /\ (SameSpeed' <=> (SameSpeed <=> FlagWrong))
    BY <1>4, <1>7 DEF SameSpeed, FlagWrong, SetSpeed, SpeedOf
  <2>2. CASE SameSpeed
    <3>1. b = 1 /\ m <= 3 + 4 * h + 4 * f /\ n <= m
      BY <1>1, <1>2, <2>2 DEF SearchInv
    <3>2. (n + 1) \div 2 = h + 1 /\ (n + 1) % 2 = 0
      BY <1>1, <1>2, <3>1
    <3> QED BY <1>1, <1>2, <1>3, <1>5, <1>7, <2>1, <2>2, <3>1, <3>2 DEF SearchInv
  <2>3. CASE ~SameSpeed
    <3>1. b = 0 /\ m + (IF FlagWrong THEN 2 ELSE 0) <= 1 + 4 * h + 4 * f /\ n + 1 <= m
      BY <1>1, <1>2, <2>3 DEF SearchInv
    <3> QED BY <1>1, <1>2, <1>3, <1>5, <1>7, <2>1, <2>3, <3>1 DEF SearchInv
  <2> QED BY <2>2, <2>3
<1> QED BY <1>6, <1>7

(* Counting one more miss keeps the relation: the arithmetic of the search. *)
LEMMA MissKeepsSearch ==
  ASSUME LinkTypeOK, SearchInv, CountMiss, UNCHANGED line
  PROVE  LinkTypeOK' /\ SearchInv' /\ HeardInTime'
<1>1. LinkTypeOK' /\ SearchInv'
  <2>1. CASE search.retries = 0 /\ search' = Missed(1, 0) /\ UNCHANGED <<highSpeed, portSpeed>>
    BY <2>1, FirstMissKeepsSearch
  <2>2. CASE /\ search.retries = 1
             /\ \E failures \in Failures :
                  search' = Missed(0, failures) /\ SetSpeed(~highSpeed, failures)
    <3>1. PICK failures \in {0, 1} :
            search' = Missed(0, failures) /\ SetSpeed(~highSpeed, failures)
      BY <2>2 DEF Failures
    <3> QED BY <2>2, <3>1, SecondMissKeepsSearch
  <2> QED BY <2>1, <2>2 DEF CountMiss
<1>2. LinkTypeOK' /\ SearchInv' => HeardInTime'
  BY SearchIsBounded, PTL
<1> QED BY <1>1, <1>2

(* A search in which nothing has been missed satisfies the relation at      *)
(* every speed.                                                             *)
LEMMA NewSearchInv ==
  ASSUME LinkTypeOK, search.retries = 0, search.missed = 0, search.noise = 0,
         FlagWrong => search.failed >= 1
  PROVE  SearchInv
<1>1. search.failed \in Nat
  BY DEF LinkTypeOK
<1>2. 0 \div 2 = 0 /\ 0 % 2 = 0
  OBVIOUS
<1> QED BY <1>1, <1>2 DEF SearchInv

(* While nothing has been missed the speed of the frames does not matter.   *)
LEMMA FirstAttemptInv ==
  ASSUME LinkTypeOK, SearchInv, search.missed = 0
  PROVE  search.noise = 0 /\ search.retries = 0 /\ (FlagWrong => search.failed >= 1)
<1>1. search.noise \in Nat /\ search.retries \in {0, 1}
  BY DEF LinkTypeOK
<1>2. search.noise = 0 /\ (~SameSpeed => search.retries = 0)
  BY <1>1 DEF SearchInv
<1>3. 0 % 2 = 0
  OBVIOUS
<1> QED BY <1>1, <1>2, <1>3 DEF SearchInv

-----------------------------------------------------------------------------
(* The invariant, action by action: only the actions of the back end and of *)
(* the Atari touch the search.                                              *)

LEMMA InitLink == Init => LinkInv
<1> SUFFICES ASSUME Init PROVE LinkInv
  OBVIOUS
<1>1. LinkTypeOK
  BY DEF Init, LinkTypeOK, NewSearch, Speeds
<1>2. search.missed = 0 /\ search.noise = 0 /\ search.failed \in Nat /\ ~Searching
  BY <1>1 DEF Init, Searching, NewSearch, LinkTypeOK
<1>3. 0 \div 2 = 0
  OBVIOUS
<1> QED BY <1>1, <1>2, <1>3 DEF LinkInv, HeardInTime

LEMMA GuiLink == LinkInv /\ GuiNext => LinkInv'
<1> SUFFICES ASSUME LinkInv, GuiNext PROVE LinkInv'
  OBVIOUS
<1>1. UNCHANGED linkVars
  BY DEF GuiNext, GuiProceeds, UserActs, Begin, NestedClick, Trigger, OpenOptions, StartIfStopped,
         NewPort, Launch, Terminate, Cancel, Join, DeletePort, Deliver, EventsDone,
         DialogDone, Destroy
<1>2. thread' = thread \/ thread' = "opening"
  BY DEF GuiNext, GuiProceeds, UserActs, Begin, NestedClick, Trigger, OpenOptions, StartIfStopped,
         NewPort, Launch, Terminate, Cancel, Join, DeletePort, Deliver, EventsDone,
         DialogDone, Destroy
<1> QED BY <1>1, <1>2 DEF LinkInv, LinkTypeOK, HeardInTime, Searching, SearchInv,
                          SameSpeed, FlagWrong, SpeedOf, linkVars

LEMMA WorkerLink == LinkInv /\ WorkerNext => LinkInv'
<1> SUFFICES ASSUME LinkInv, WorkerNext PROVE LinkInv'
  OBVIOUS
<1> USE DEF Goes, Finishes, linkVars
<1>1. CASE UNCHANGED linkVars /\ (Searching' => Searching)
  BY <1>1 DEF LinkInv, LinkTypeOK, HeardInTime, SearchInv, SameSpeed, FlagWrong, SpeedOf
<1>2. CASE SetNormalSpeed
  BY <1>2 DEF SetNormalSpeed, LinkInv, LinkTypeOK, HeardInTime, Searching, Speeds
<1>3. CASE Loop
  <2>1. search' = NewSearch /\ UNCHANGED <<highSpeed, portSpeed, line>>
    BY <1>3 DEF Loop
  <2>2. /\ search'.retries = 0 /\ search'.missed = 0 /\ search'.noise = 0
        /\ search'.failed \in {0, 1} /\ (FlagWrong' => search'.failed >= 1)
    BY <2>1 DEF NewSearch, FlagWrong, SpeedOf
  <2>3. LinkTypeOK'
    BY <2>1 DEF LinkInv, LinkTypeOK, NewSearch
  <2>4. 0 \div 2 = 0 /\ 0 % 2 = 0
    OBVIOUS
  <2>5. SearchInv'
    BY <2>2, <2>4 DEF SearchInv
  <2>6. HeardInTime'
    BY <2>2, <2>4 DEF HeardInTime
  <2> QED BY <2>3, <2>5, <2>6 DEF LinkInv
<1>4. CASE MissFrame
  <2>1. Searching /\ CountMiss /\ UNCHANGED line
    BY <1>4 DEF MissFrame, Searching
  <2> QED BY <2>1, MissKeepsSearch DEF LinkInv
<1>5. CASE WorkerProceeds /\ ~SetNormalSpeed /\ ~Loop /\ ~MissFrame
  <2>1. UNCHANGED linkVars /\ (Searching' => Searching)
    BY <1>5 DEF WorkerProceeds, OpenHandle, ClearCanceled, WaitCommandOff, WaitCommandOn,
                ReadFrame, AwaitRelease, GotFrame, GotNothing, Handled, ClosePort, Finish,
                Searching
  <2> QED BY <2>1, <1>1
<1>6. CASE OpenFails \/ LineFails
  <2>1. UNCHANGED linkVars /\ (Searching' => Searching)
    BY <1>6 DEF OpenFails, LineFails, Searching
  <2> QED BY <2>1, <1>1
<1> QED BY <1>2, <1>3, <1>4, <1>5, <1>6 DEF WorkerNext

LEMMA AtariLink == LinkInv /\ (CommandOn \/ CommandOff) => LinkInv'
<1> SUFFICES ASSUME LinkInv, CommandOn \/ CommandOff PROVE LinkInv'
  OBVIOUS
<1>1. UNCHANGED <<thread, highSpeed, portSpeed, search>> /\ line' \in [on : BOOLEAN, speed : Speeds]
  <2>1. CASE CommandOn
    BY <2>1 DEF CommandOn, LinkInv, LinkTypeOK
  <2>2. CASE CommandOff
    BY <2>2 DEF CommandOff, LinkInv, LinkTypeOK
  <2> QED BY <2>1, <2>2
<1>2. LinkTypeOK' /\ HeardInTime' /\ (Searching' <=> Searching)
  BY <1>1 DEF LinkInv, LinkTypeOK, HeardInTime, Searching
<1>3. CASE line'.speed = line.speed
  BY <1>1, <1>2, <1>3 DEF LinkInv, SearchInv, SameSpeed, FlagWrong, SpeedOf
<1>4. CASE search.missed = 0 /\ Searching
  <2>1. search.noise = 0 /\ search.retries = 0 /\ (FlagWrong => search.failed >= 1)
    BY <1>4, FirstAttemptInv DEF LinkInv
  <2>2. search'.noise = 0 /\ search'.retries = 0 /\ search'.missed = 0
        /\ search'.failed \in Nat /\ (FlagWrong' => search'.failed >= 1)
    BY <1>1, <1>4, <2>1 DEF FlagWrong, SpeedOf, LinkInv, LinkTypeOK
  <2>3. 0 \div 2 = 0 /\ 0 % 2 = 0
    OBVIOUS
  <2>4. SearchInv'
    BY <2>2, <2>3 DEF SearchInv
  <2> QED BY <1>2, <2>4 DEF LinkInv
<1>5. CASE ~Searching
  BY <1>2, <1>5 DEF LinkInv
<1>6. search.missed = 0 \/ line'.speed = line.speed
  BY DEF CommandOn, CommandOff, LinkInv, LinkTypeOK
<1> QED BY <1>3, <1>4, <1>5, <1>6

(* A command that the Atari repeats is heard at its third attempt at the    *)
(* latest, plus what noise and failing changes of speed cost                *)
(* (readCommandFrame): for every history of starts, stops and failures, any *)
(* amount of noise and any number of such failures.                         *)
THEOREM CommandHeardInTime == Spec => []HeardInTime
<1>1. LinkInv /\ [Next]_vars => LinkInv'
  <2> SUFFICES ASSUME LinkInv, [Next]_vars PROVE LinkInv'
    OBVIOUS
  <2>1. CASE UNCHANGED vars
    BY <2>1 DEF LinkInv, LinkTypeOK, HeardInTime, Searching, SearchInv, SameSpeed,
                  FlagWrong, SpeedOf, vars
  <2> QED BY <2>1, GuiLink, WorkerLink, AtariLink DEF Next
<1>2. LinkInv => HeardInTime
  BY DEF LinkInv
<1> QED BY <1>1, <1>2, InitLink, PTL DEF Spec

-----------------------------------------------------------------------------
(* Check box, signals and worker.                                           *)


(* What must follow an instruction, and what only follows another.          *)
Follower == [terminate |-> "cancel", cancel |-> "join", join |-> "delete",
             delete |-> "events", newPort |-> "launch"]
Followed == {"terminate", "cancel", "join", "delete", "newPort"}
Inner    == {"delete", "newPort", "launch"}

Linked(s) ==
  /\ \A i \in 1..Len(s) : s[i] \in Followed => i < Len(s) /\ s[i + 1] = Follower[s[i]]
  /\ \A i \in 2..Len(s) :
       /\ s[i] = "delete" => s[i - 1] = "join"
       /\ s[i] = "launch" => s[i - 1] = "newPort"
       /\ s[i] # "newPort"

Within(s, S) == \A i \in 1..Len(s) : s[i] \in S

(* A sequence that may be put before another one.                           *)
Plain(s) ==
  /\ s \in Seq(Instructions)
  /\ Linked(s)
  /\ s # <<>> => s[1] \notin Inner
  /\ Within(s, Instructions \ {"gone"})

-----------------------------------------------------------------------------
(* Sequences of instructions.                                               *)

LEMMA TailOf ==
  ASSUME NEW s \in Seq(Instructions), s # <<>>
  PROVE  /\ Tail(s) \in Seq(Instructions) /\ Len(Tail(s)) = Len(s) - 1
         /\ \A i \in 1..Len(s) - 1 : Tail(s)[i] = s[i + 1]
         /\ Len(s) \in Nat \ {0} /\ Head(s) = s[1]
         /\ <<>> \o Tail(s) = Tail(s)
  OBVIOUS

LEMMA TailLinked ==
  ASSUME NEW s \in Seq(Instructions), s # <<>>, Linked(s)
  PROVE  /\ Linked(Tail(s))
         /\ Head(s) \in Followed => Tail(s) # <<>> /\ Head(Tail(s)) = Follower[Head(s)]
         /\ Head(s) \notin Followed => Tail(s) = <<>> \/ Tail(s)[1] \notin Inner
  <1> DEFINE t == Tail(s)
             n == Len(s)
  <1>1. /\ t \in Seq(Instructions) /\ Len(t) = n - 1 /\ n \in Nat \ {0}
        /\ \A i \in 1..n - 1 : t[i] = s[i + 1]
        /\ Head(s) = s[1]
    BY TailOf
  <1>2. t # <<>> => Head(t) = t[1] /\ n - 1 >= 1
    BY <1>1
  <1> HIDE DEF t
  <1>3. ASSUME NEW i \in 1..Len(t), t[i] \in Followed
        PROVE  i < Len(t) /\ t[i + 1] = Follower[t[i]]
    <2>1. t[i] = s[i + 1] /\ i + 1 \in 1..n
      BY <1>1
    <2>2. i + 1 < n /\ s[i + 2] = Follower[s[i + 1]]
      BY <1>3, <2>1 DEF Linked
    <2>3. t[i + 1] = s[i + 2]
      BY <1>1, <2>2
    <2> QED
      BY <1>1, <2>1, <2>2, <2>3
  <1>4. ASSUME NEW i \in 2..Len(t)
        PROVE  /\ t[i] = "delete" => t[i - 1] = "join"
               /\ t[i] = "launch" => t[i - 1] = "newPort"
               /\ t[i] # "newPort"
    <2>1. t[i] = s[i + 1] /\ t[i - 1] = s[i] /\ i + 1 \in 2..n /\ (i + 1) - 1 = i
      BY <1>1
    <2> QED
      BY <2>1 DEF Linked
  <1>5. Linked(t)
    BY <1>3, <1>4 DEF Linked
  <1>6. Head(s) \in Followed => t # <<>> /\ Head(t) = Follower[Head(s)]
    <2> SUFFICES ASSUME Head(s) \in Followed
                 PROVE  t # <<>> /\ Head(t) = Follower[Head(s)]
      OBVIOUS
    <2>1. 1 < n /\ s[2] = Follower[s[1]]
      BY <1>1 DEF Linked
    <2>2. t # <<>> /\ t[1] = s[2]
      BY <1>1, <2>1
    <2> QED
      BY <1>1, <1>2, <2>1, <2>2
  <1>7. Head(s) \notin Followed => t = <<>> \/ t[1] \notin Inner
    <2> SUFFICES ASSUME s[1] \notin Followed, t # <<>>
                 PROVE  t[1] \notin Inner
      BY <1>1
    <2>1. 2 \in 2..n /\ t[1] = s[2]
      BY <1>1, <1>2
    <2>2. /\ s[2] = "delete" => s[1] = "join"
          /\ s[2] = "launch" => s[1] = "newPort"
          /\ s[2] # "newPort"
      BY <2>1 DEF Linked
    <2> QED
      BY <2>1, <2>2 DEF Inner, Followed
  <1> QED
    BY <1>5, <1>6, <1>7 DEF t

LEMMA ConcatOf ==
  ASSUME NEW a \in Seq(Instructions), NEW b \in Seq(Instructions)
  PROVE  /\ a \o b \in Seq(Instructions) /\ Len(a \o b) = Len(a) + Len(b)
         /\ \A i \in 1..Len(a) : (a \o b)[i] = a[i]
         /\ \A i \in Len(a) + 1..Len(a) + Len(b) : (a \o b)[i] = b[i - Len(a)]
         /\ Len(a) \in Nat /\ Len(b) \in Nat
         /\ a # <<>> => Len(a) >= 1
         /\ b # <<>> => Len(b) >= 1
  OBVIOUS

LEMMA ConcatLinked ==
  ASSUME NEW a \in Seq(Instructions), NEW b \in Seq(Instructions), Linked(a), Linked(b),
         b # <<>> => b[1] \notin Inner
  PROVE  Linked(a \o b)
  <1> DEFINE c == a \o b
             m == Len(a)
             n == Len(b)
  <1>1. /\ Len(c) = m + n /\ m \in Nat /\ n \in Nat
        /\ \A i \in 1..m : c[i] = a[i]
        /\ \A i \in m + 1..m + n : c[i] = b[i - m]
        /\ n >= 1 => b # <<>>
    <2>1. n >= 1 => b # <<>>
      OBVIOUS
    <2> QED
      BY <2>1, ConcatOf
  <1> HIDE DEF c
  <1>2. ASSUME NEW i \in 1..Len(c), c[i] \in Followed
        PROVE  i < Len(c) /\ c[i + 1] = Follower[c[i]]
    <2>1. CASE i <= m
      <3>1. i \in 1..m /\ c[i] = a[i]
        BY <1>1, <2>1
      <3>2. i < m /\ a[i + 1] = Follower[a[i]]
        BY <1>2, <3>1 DEF Linked
      <3>3. c[i + 1] = a[i + 1]
        BY <1>1, <3>2
      <3> QED
        BY <1>1, <3>1, <3>2, <3>3
    <2>2. CASE ~(i <= m)
      <3>1. i - m \in 1..n /\ c[i] = b[i - m]
        BY <1>1, <2>2
      <3>2. i - m < n /\ b[(i - m) + 1] = Follower[b[i - m]]
        BY <1>2, <3>1 DEF Linked
      <3>3. c[i + 1] = b[(i - m) + 1]
        <4>1. i + 1 \in m + 1..m + n /\ (i + 1) - m = (i - m) + 1
          BY <1>1, <2>2, <3>2
        <4> QED
          BY <1>1, <4>1
      <3> QED
        BY <1>1, <3>1, <3>2, <3>3
    <2> QED
      BY <2>1, <2>2
  <1>3. ASSUME NEW i \in 2..Len(c)
        PROVE  /\ c[i] = "delete" => c[i - 1] = "join"
               /\ c[i] = "launch" => c[i - 1] = "newPort"
               /\ c[i] # "newPort"
    <2>1. CASE i <= m
      <3>1. i \in 2..m /\ c[i] = a[i] /\ c[i - 1] = a[i - 1]
        BY <1>1, <2>1
      <3> QED
        BY <3>1 DEF Linked
    <2>2. CASE i = m + 1
      <3>1. c[i] = b[1] /\ n >= 1
        BY <1>1, <2>2
      <3> QED
        BY <1>1, <3>1 DEF Inner
    <2>3. CASE i > m + 1
      <3>1. /\ i - m \in 2..n /\ c[i] = b[i - m]
        BY <1>1, <2>3
      <3>2. c[i - 1] = b[(i - m) - 1]
        <4>1. i - 1 \in m + 1..m + n /\ (i - 1) - m = (i - m) - 1
          BY <1>1, <2>3
        <4> QED
          BY <1>1, <4>1
      <3> QED
        BY <3>1, <3>2 DEF Linked
    <2> QED
      BY <1>1, <2>1, <2>2, <2>3
  <1> QED
    BY <1>2, <1>3 DEF Linked, c

LEMMA ConcatWithin ==
  ASSUME NEW a \in Seq(Instructions), NEW b \in Seq(Instructions), NEW S
  PROVE  Within(a \o b, S) <=> Within(a, S) /\ Within(b, S)
  <1> DEFINE c == a \o b
             m == Len(a)
             n == Len(b)
  <1>1. /\ Len(c) = m + n /\ m \in Nat /\ n \in Nat
        /\ \A i \in 1..m : c[i] = a[i]
        /\ \A i \in m + 1..m + n : c[i] = b[i - m]
    BY ConcatOf
  <1> HIDE DEF c
  <1>2. ASSUME Within(a, S), Within(b, S), NEW i \in 1..Len(c)
        PROVE  c[i] \in S
    <2>1. CASE i <= m
      <3>1. i \in 1..m
        BY <1>1, <2>1
      <3> QED
        BY <1>1, <1>2, <3>1 DEF Within
    <2>2. CASE ~(i <= m)
      <3>1. i \in m + 1..m + n /\ i - m \in 1..n
        BY <1>1, <2>2
      <3> QED
        BY <1>1, <1>2, <3>1 DEF Within
    <2> QED
      BY <2>1, <2>2
  <1>3. ASSUME Within(c, S), NEW i \in 1..m
        PROVE  a[i] \in S
    <2>1. i \in 1..Len(c) /\ c[i] = a[i]
      BY <1>1
    <2> QED
      BY <1>3, <2>1 DEF Within
  <1>4. ASSUME Within(c, S), NEW i \in 1..n
        PROVE  b[i] \in S
    <2>1. m + i \in 1..Len(c) /\ m + i \in m + 1..m + n /\ (m + i) - m = i
      BY <1>1
    <2>2. c[m + i] = b[i]
      BY <1>1, <2>1
    <2> QED
      BY <1>4, <2>1, <2>2 DEF Within
  <1> QED
    BY <1>2, <1>3, <1>4 DEF Within, c

LEMMA PlainConcat ==
  ASSUME NEW a, NEW b, Plain(a), Plain(b)
  PROVE  Plain(a \o b)
  <1>1. /\ a \in Seq(Instructions) /\ b \in Seq(Instructions)
        /\ Linked(a) /\ Linked(b) /\ (b # <<>> => b[1] \notin Inner)
        /\ Within(a, Instructions \ {"gone"}) /\ Within(b, Instructions \ {"gone"})
    BY DEF Plain
  <1>2. /\ a \o b \in Seq(Instructions) /\ Linked(a \o b)
        /\ Within(a \o b, Instructions \ {"gone"})
    BY <1>1, ConcatOf, ConcatLinked, ConcatWithin
  <1>3. a \o b # <<>> => (a \o b)[1] \notin Inner
    <2>1. CASE a = <<>>
      <3>1. a \o b = b
        BY <1>1, <2>1
      <3> QED
        BY <1>1, <3>1
    <2>2. CASE a # <<>>
      <3>1. (a \o b)[1] = a[1] /\ a[1] \notin Inner
        BY <1>1, <2>2, ConcatOf DEF Plain
      <3> QED
        BY <3>1
    <2> QED
      BY <2>1, <2>2
  <1> QED
    BY <1>2, <1>3 DEF Plain

LEMMA PlainBodies ==
  /\ Plain(<<>>) /\ Plain(Wait \o <<"events">>)
  /\ \A x \in {"trigger", "events", "startIfStopped", "dialog", "options"} :
       Plain(<<x>>)
  <1>1. Plain(<<>>)
    BY DEF Plain, Linked, Within
  <1>2. ASSUME NEW x \in {"trigger", "events", "startIfStopped", "dialog", "options"}
        PROVE  Plain(<<x>>)
    <2> DEFINE s == <<x>>
    <2>1. s \in Seq(Instructions) /\ Len(s) = 1 /\ s[1] = x
      BY DEF Instructions
    <2> HIDE DEF s
    <2>2. Linked(s)
      BY <2>1 DEF Linked, Followed
    <2>3. Within(s, Instructions \ {"gone"})
      BY <2>1 DEF Within, Instructions
    <2> QED
      BY <2>1, <2>2, <2>3 DEF Plain, Inner, s
  <1>3. Plain(Wait \o <<"events">>)
    <2> DEFINE e == <<"events">>
               s == Wait \o e
    <2>1. /\ Wait \in Seq(Instructions) /\ Len(Wait) = 4 /\ Wait[1] = "terminate"
          /\ Wait[2] = "cancel" /\ Wait[3] = "join" /\ Wait[4] = "delete"
      BY DEF Wait, Instructions
    <2>e. e \in Seq(Instructions) /\ Len(e) = 1 /\ e[1] = "events"
      BY DEF Instructions
    <2> HIDE DEF e
    <2>2. /\ s \in Seq(Instructions) /\ Len(s) = 5
          /\ s[1] = "terminate" /\ s[2] = "cancel" /\ s[3] = "join" /\ s[4] = "delete"
          /\ s[5] = "events"
      <3>1. /\ s \in Seq(Instructions) /\ Len(s) = 4 + 1
            /\ \A i \in 1..4 : s[i] = Wait[i]
            /\ \A i \in 4 + 1..4 + 1 : s[i] = e[i - 4]
        <4>1. /\ s \in Seq(Instructions) /\ Len(s) = Len(Wait) + Len(e)
              /\ \A i \in 1..Len(Wait) : s[i] = Wait[i]
              /\ \A i \in Len(Wait) + 1..Len(Wait) + Len(e) : s[i] = e[i - Len(Wait)]
          BY <2>1, <2>e, ConcatOf
        <4> QED
          BY <2>1, <2>e, <4>1
      <3> HIDE DEF s
      <3>2. s[1] = Wait[1] /\ s[2] = Wait[2] /\ s[3] = Wait[3] /\ s[4] = Wait[4]
        BY <3>1
      <3>3. 5 \in 4 + 1..4 + 1 /\ 5 - 4 = 1
        OBVIOUS
      <3>4. s[5] = e[1]
        BY <3>1, <3>3
      <3> QED
        BY <2>1, <2>e, <3>1, <3>2, <3>4
    <2> HIDE DEF s
    <2>3. \A i \in 1..5 : i = 1 \/ i = 2 \/ i = 3 \/ i = 4 \/ i = 5
      OBVIOUS
    <2>4. Linked(s)
      BY <2>2, <2>3 DEF Linked, Followed, Follower
    <2>5. Within(s, Instructions \ {"gone"})
      BY <2>2, <2>3 DEF Within, Instructions
    <2> QED
      BY <2>2, <2>4, <2>5 DEF Plain, Inner, s, e
  <1> QED
    BY <1>1, <1>2, <1>3

(* Two instructions that stand alone.                                       *)
LEMMA PlainPair ==
  ASSUME NEW x, NEW y, x \in Instructions \ (Followed \cup Inner \cup {"gone"}),
         y \in Instructions \ (Followed \cup Inner \cup {"gone"})
  PROVE  Plain(<<x, y>>)
  <1> DEFINE s == <<x, y>>
  <1>1. s \in Seq(Instructions) /\ Len(s) = 2 /\ s[1] = x /\ s[2] = y
    OBVIOUS
  <1> HIDE DEF s
  <1>2. \A i \in 1..2 : i = 1 \/ i = 2
    OBVIOUS
  <1>3. Linked(s)
    BY <1>1, <1>2 DEF Linked, Inner
  <1>4. Within(s, Instructions \ {"gone"})
    BY <1>1, <1>2 DEF Within
  <1> QED
    BY <1>1, <1>3, <1>4 DEF Plain, s

LEMMA PlainTriple ==
  Plain(<<"trigger", "dialog", "trigger">>)
  <1> DEFINE s == <<"trigger", "dialog", "trigger">>
  <1>1. s \in Seq(Instructions) /\ Len(s) = 3 /\ s[1] = "trigger" /\ s[2] = "dialog" /\ s[3] = "trigger"
    BY DEF Instructions
  <1> HIDE DEF s
  <1>2. \A i \in 1..3 : i = 1 \/ i = 2 \/ i = 3
    OBVIOUS
  <1>3. Linked(s)
    BY <1>1, <1>2 DEF Linked, Followed
  <1>4. Within(s, Instructions \ {"gone"})
    BY <1>1, <1>2 DEF Within, Instructions
  <1> QED
    BY <1>1, <1>3, <1>4 DEF Plain, Inner, s

LEMMA HandlersPlain ==
  /\ Plain(Triggered(FALSE)) /\ Plain(StopFirst) /\ Plain(Restart) /\ Plain(Options)
  /\ Plain(Cassette) /\ Plain(Interrupt)
  /\ \A o \in BOOLEAN : Plain(Show(o))
  <1> USE PlainBodies
  <1>1. Plain(Triggered(FALSE))
    BY DEF Triggered
  <1>2. Plain(StopFirst)
    <2>1. StopFirst = <<>> \/ StopFirst = <<"trigger">> \o (Wait \o <<"events">>)
      BY DEF StopFirst, Wait
    <2> QED
      BY <2>1, PlainConcat
  <1>3. Plain(Restart)
    <2>1. Plain(<<"startIfStopped", "events">>)
      BY PlainPair DEF Instructions, Followed, Inner
    <2> QED
      BY <1>2, <2>1, PlainConcat DEF Restart
  <1>4. Plain(Options)
    <2>1. Plain(<<"dialog", "trigger">>)
      BY PlainPair DEF Instructions, Followed, Inner
    <2> QED
      BY <1>2, <2>1, PlainConcat DEF Options
  <1>5. Plain(Cassette)
    <2>1. Plain(StopFirst \o <<"dialog">>)
      BY <1>2, PlainConcat
    <2> QED
      BY <2>1, PlainConcat DEF Cassette
  <1>6. Plain(Interrupt)
    <2>1. Plain(<<"dialog">>)
      OBVIOUS
    <2> QED
      BY <2>1, PlainTriple DEF Interrupt
  <1>7. ASSUME NEW o \in BOOLEAN
        PROVE  Plain(Show(o))
    <2> DEFINE a == IF FirstRun THEN <<"dialog">> ELSE <<>>
               b == IF o THEN <<"options">> ELSE <<>>
    <2>1. Plain(a) /\ Plain(b)
      OBVIOUS
    <2>2. Plain(a \o b)
      BY <2>1, PlainConcat
    <2>3. Plain((a \o b) \o <<"trigger">>)
      BY <2>2, PlainConcat
    <2> QED
      BY <2>3 DEF Show
  <1> QED
    BY <1>1, <1>2, <1>3, <1>4, <1>5, <1>6, <1>7

-----------------------------------------------------------------------------
(* The invariant: what the queue, the check box, the thread and the head of *)
(* the GUI thread's work say about each other.                              *)

Running  == thread \notin {"off", "finishing"}
Starting == At({"newPort", "launch"})
Stopping == At({"terminate", "cancel", "join", "delete", "events"})

SwitchTypeOK ==
  /\ checked \in BOOLEAN /\ mustTerminate \in BOOLEAN
  /\ label \in {"start", "stop"}
  /\ thread \in ThreadPcs
  /\ port \in [exists : BOOLEAN, open : BOOLEAN, canceled : BOOLEAN]
  /\ port.open => port.exists

WorkOK == gui \in Seq(Instructions) /\ Linked(gui)

(* finished() is posted at the end of a run and nothing comes after it.     *)
QueueInv ==
  /\ posted \in {<<>>, <<"started">>, <<"finished">>, <<"started", "finished">>}
  /\ posted = <<>> => (label = "stop" <=> Running)
  /\ posted = <<"started">> => Running
  /\ posted \in {<<"finished">>, <<"started", "finished">>} => ~Running

(* An action that is not checked belongs to a stopped worker, except within *)
(* a stop; one that is checked, to a running worker, except within a start  *)
(* or while a finished() is on its way.                                     *)
SyncInv ==
  /\ ~checked /\ ~Stopping => posted = <<>> /\ ~Running
  /\ ~checked /\ At({"events"}) => ~Running
  /\ At({"delete"}) => thread = "off"
  /\ Starting => checked /\ ~Running /\ posted = <<>>
  /\ At({"launch"}) => port.exists
  /\ checked /\ ~Running /\ ~Starting => posted \in {<<"finished">>, <<"started", "finished">>}

Leaving == {"terminate", "cancel", "join", "delete", "events", "gone"}
Staying == Instructions \ {"gone"}

(* Once the window is being destroyed all that can come is one stop.        *)
QuitInv ==
  ~Within(gui, Staying) =>
    \/ checked /\ Len(gui) = 2 /\ gui[1] = "trigger" /\ gui[2] = "gone"
    \/ ~checked /\ Within(gui, Leaving)

SwitchInv == SwitchTypeOK /\ WorkOK /\ QueueInv /\ SyncInv /\ PortUsable /\ QuitInv

LEMMA TailWithin ==
  ASSUME NEW s \in Seq(Instructions), s # <<>>, NEW S
  PROVE  Within(s, S) <=> Head(s) \in S /\ Within(Tail(s), S)
  <1>1. /\ Len(Tail(s)) = Len(s) - 1 /\ Len(s) \in Nat \ {0} /\ Head(s) = s[1]
        /\ \A i \in 1..Len(s) - 1 : Tail(s)[i] = s[i + 1]
    BY TailOf
  <1>2. ASSUME Within(s, S)
        PROVE  Head(s) \in S /\ Within(Tail(s), S)
    BY <1>1, <1>2 DEF Within
  <1>3. ASSUME Head(s) \in S, Within(Tail(s), S), NEW i \in 1..Len(s)
        PROVE  s[i] \in S
    <2>1. CASE i = 1
      BY <1>1, <1>3, <2>1
    <2>2. CASE i # 1
      <3>1. i - 1 \in 1..Len(s) - 1 /\ (i - 1) + 1 = i
        BY <1>1, <2>2
      <3>2. Tail(s)[i - 1] = s[i] /\ i - 1 \in 1..Len(Tail(s))
        BY <1>1, <3>1
      <3> QED
        BY <1>3, <3>2 DEF Within
    <2> QED
      BY <2>1, <2>2
  <1> QED
    BY <1>2, <1>3 DEF Within

(* An instruction that is done makes way for the next one.                  *)
LEMMA Advance ==
  ASSUME WorkOK, gui # <<>>, Perform(<<>>)
  PROVE  /\ WorkOK' /\ gui' = Tail(gui)
         /\ Head(gui) \in Followed => gui' # <<>> /\ Head(gui') = Follower[Head(gui)]
         /\ Head(gui) \notin Followed => gui' = <<>> \/ Head(gui') \notin Inner
  <1>1. gui' = Tail(gui) /\ Tail(gui) \in Seq(Instructions)
    BY TailOf DEF WorkOK, Perform
  <1>2. Tail(gui) # <<>> => Head(Tail(gui)) = Tail(gui)[1]
    BY <1>1
  <1> QED
    BY <1>1, <1>2, TailLinked DEF WorkOK

(* A handler's name makes way for its body.                                 *)
LEMMA Unfold ==
  ASSUME WorkOK, gui # <<>>, Head(gui) \notin Followed, NEW body, Plain(body), Perform(body)
  PROVE  /\ WorkOK'
         /\ gui' = <<>> \/ Head(gui') \notin Inner
         /\ body # <<>> => gui' # <<>> /\ Head(gui') = body[1]
  <1> DEFINE t == Tail(gui)
  <1>1. /\ t \in Seq(Instructions) /\ Linked(t)
        /\ t # <<>> => t[1] \notin Inner
    BY TailOf, TailLinked DEF WorkOK
  <1>2. body \in Seq(Instructions) /\ Linked(body)
    BY DEF Plain
  <1>3. gui' = body \o t
    BY DEF Perform
  <1> HIDE DEF t
  <1>4. gui' \in Seq(Instructions) /\ Linked(gui')
    BY <1>1, <1>2, <1>3, ConcatOf, ConcatLinked
  <1>5. CASE body = <<>>
    <2>1. gui' = t
      BY <1>1, <1>3, <1>5
    <2>2. t # <<>> => Head(t) = t[1]
      BY <1>1
    <2> QED
      BY <1>1, <1>4, <1>5, <2>1, <2>2 DEF WorkOK
  <1>6. CASE body # <<>>
    <2>1. gui' # <<>> /\ gui'[1] = body[1] /\ body[1] \notin Inner
      <3>1. Len(body) >= 1 /\ Len(gui') = Len(body) + Len(t) /\ Len(t) \in Nat
            /\ Len(body) \in Nat /\ \A i \in 1..Len(body) : gui'[i] = body[i]
        BY <1>1, <1>2, <1>3, <1>6, ConcatOf
      <3>2. gui'[1] = body[1] /\ Len(gui') # 0
        BY <3>1
      <3>3. gui' # <<>>
        BY <3>2
      <3> QED
        BY <1>6, <3>2, <3>3 DEF Plain
    <2>2. Head(gui') = gui'[1]
      BY <1>4, <2>1
    <2> QED
      BY <1>4, <2>1, <2>2 DEF WorkOK
  <1> QED
    BY <1>5, <1>6

(* While the window is being destroyed only these instructions come.        *)
LEMMA LeavingHead ==
  ASSUME WorkOK, QuitInv, gui # <<>>, ~Within(gui, Staying)
  PROVE  Head(gui) \in Leaving \cup {"trigger"}
  <1>1. Head(gui) = gui[1] /\ 1 \in 1..Len(gui)
    BY TailOf DEF WorkOK
  <1> QED
    BY <1>1 DEF QuitInv, Within

LEMMA AdvanceQuit ==
  ASSUME WorkOK, QuitInv, gui # <<>>, Head(gui) # "trigger", gui' = Tail(gui), checked' = checked
  PROVE  QuitInv'
  <1>1. gui \in Seq(Instructions) /\ Head(gui) = gui[1]
    BY TailOf DEF WorkOK
  <1>2. CASE Within(gui, Staying)
    <2>1. Within(gui', Staying)
      BY <1>1, <1>2, TailWithin
    <2> QED
      BY <2>1 DEF QuitInv
  <1>3. CASE ~checked /\ Within(gui, Leaving)
    <2>1. Within(gui', Leaving)
      BY <1>1, <1>3, TailWithin
    <2> QED
      BY <1>3, <2>1 DEF QuitInv
  <1> QED
    BY <1>1, <1>2, <1>3 DEF QuitInv

LEMMA UnfoldQuit ==
  ASSUME WorkOK, QuitInv, gui # <<>>, Head(gui) \notin Leaving \cup {"trigger"},
         NEW body, Plain(body), Perform(body)
  PROVE  QuitInv'
  <1>1. gui \in Seq(Instructions) /\ Within(gui, Staying)
    BY LeavingHead DEF WorkOK
  <1>2. Tail(gui) \in Seq(Instructions) /\ Within(Tail(gui), Staying)
    BY <1>1, TailOf, TailWithin
  <1>3. body \in Seq(Instructions) /\ Within(body, Staying)
    BY DEF Plain, Staying
  <1>4. Within(gui', Staying)
    BY <1>2, <1>3, ConcatWithin DEF Perform
  <1> QED
    BY <1>4 DEF QuitInv

-----------------------------------------------------------------------------
(* The steps of the GUI thread.                                             *)

LEMMA StartBody ==
  LET b == <<"newPort", "launch">>
  IN  /\ b \in Seq(Instructions) /\ Linked(b) /\ Within(b, Staying)
      /\ b # <<>> /\ b[1] = "newPort" /\ Len(b) = 2
  <1> DEFINE b == <<"newPort", "launch">>
  <1>1. b \in Seq(Instructions) /\ Len(b) = 2 /\ b[1] = "newPort" /\ b[2] = "launch"
    BY DEF Instructions
  <1> HIDE DEF b
  <1>2. \A i \in 1..2 : i = 1 \/ i = 2
    OBVIOUS
  <1>3. \A i \in 2..2 : i = 2 /\ i - 1 = 1
    OBVIOUS
  <1>4. Linked(b)
    <2>1. \A i \in 1..Len(b) : b[i] \in Followed => i < Len(b) /\ b[i + 1] = Follower[b[i]]
      BY <1>1, <1>2 DEF Followed, Follower
    <2>2. \A i \in 2..Len(b) : b[i] = "launch" /\ b[i - 1] = "newPort"
      BY <1>1, <1>3
    <2> QED
      BY <2>1, <2>2 DEF Linked
  <1>5. Within(b, Staying)
    BY <1>1, <1>2 DEF Within, Staying, Instructions
  <1> QED
    BY <1>1, <1>4, <1>5 DEF b

LEMMA StopBody ==
  /\ Plain(Triggered(FALSE)) /\ Triggered(FALSE) # <<>>
  /\ Triggered(FALSE)[1] = "terminate" /\ Within(Triggered(FALSE), Leaving)
  <1> DEFINE e == <<"events">>
             s == Wait \o e
  <1>1. /\ Wait \in Seq(Instructions) /\ Len(Wait) = 4 /\ Wait[1] = "terminate"
        /\ Wait[2] = "cancel" /\ Wait[3] = "join" /\ Wait[4] = "delete"
    BY DEF Wait, Instructions
  <1>2. e \in Seq(Instructions) /\ Len(e) = 1 /\ e[1] = "events"
    BY DEF Instructions
  <1> HIDE DEF e
  <1>3. \A i \in 1..4 : i = 1 \/ i = 2 \/ i = 3 \/ i = 4
    OBVIOUS
  <1>4. Within(Wait, Leaving) /\ Within(e, Leaving)
    BY <1>1, <1>2, <1>3 DEF Within, Leaving
  <1>5. Within(s, Leaving)
    BY <1>1, <1>2, <1>4, ConcatWithin
  <1>6. Len(s) = Len(Wait) + Len(e) /\ \A i \in 1..Len(Wait) : s[i] = Wait[i]
    BY <1>1, <1>2, ConcatOf
  <1>7. s \in Seq(Instructions) /\ Len(s) = 5 /\ s[1] = "terminate"
    BY <1>1, <1>2, <1>6, ConcatOf
  <1> HIDE DEF s
  <1>8. s # <<>>
    BY <1>7
  <1>9. Triggered(FALSE) = s
    BY DEF Triggered, s, e
  <1> QED
    BY <1>5, <1>7, <1>8, <1>9, HandlersPlain

LEMMA TriggerStep ==
  ASSUME SwitchInv, Trigger
  PROVE  SwitchInv'
  <1>0. /\ SwitchTypeOK /\ WorkOK /\ QueueInv /\ SyncInv /\ PortUsable /\ QuitInv
        /\ gui # <<>> /\ Head(gui) = "trigger"
        /\ UNCHANGED <<label, posted, thread, mustTerminate, port>>
    BY DEF SwitchInv, Trigger, At
  <1>1. QueueInv' /\ PortUsable'
    BY <1>0 DEF QueueInv, PortUsable, Running
  <1>2. SwitchTypeOK'
    BY <1>0 DEF Trigger, SwitchTypeOK
  <1>3. ~Starting /\ ~Stopping /\ Head(gui) \notin Followed
    BY <1>0 DEF Starting, Stopping, At, Followed
  <1>4. Tail(gui) \in Seq(Instructions) /\ Linked(Tail(gui)) /\ gui \in Seq(Instructions)
        /\ (Tail(gui) # <<>> => Tail(gui)[1] \notin Inner)
    BY <1>0, <1>3, TailOf, TailLinked DEF WorkOK
  <1>5. CASE checked
    <2>1. ~checked' /\ Perform(Triggered(FALSE))
      BY <1>0, <1>5 DEF Trigger, SwitchTypeOK
    <2>2. WorkOK' /\ gui' # <<>> /\ Head(gui') = "terminate"
      BY <1>0, <1>3, <2>1, Unfold, StopBody
    <2>3. SyncInv'
      BY <2>1, <2>2 DEF SyncInv, At, Starting, Stopping
    <2>4. gui' = Triggered(FALSE) \o Tail(gui) /\ Triggered(FALSE) \in Seq(Instructions)
      BY <2>1, StopBody DEF Perform, Plain
    <2>5. QuitInv'
      <3>1. CASE Within(gui, Staying)
        <4>1. Within(Tail(gui), Staying) /\ Within(Triggered(FALSE), Staying)
          BY <1>0, <1>4, <3>1, TailWithin, StopBody DEF Plain, Staying
        <4>2. Within(gui', Staying)
          BY <1>4, <2>4, <4>1, ConcatWithin
        <4> QED
          BY <4>2 DEF QuitInv
      <3>2. CASE Len(gui) = 2 /\ gui[1] = "trigger" /\ gui[2] = "gone"
        <4>1. Len(Tail(gui)) = 1 /\ Tail(gui)[1] = "gone"
          BY <1>0, <1>4, <3>2, TailOf
        <4>2. Within(Tail(gui), Leaving)
          BY <4>1 DEF Within, Leaving
        <4>3. Within(gui', Leaving)
          BY <1>4, <2>4, <4>2, StopBody, ConcatWithin
        <4> QED
          BY <2>1, <4>3 DEF QuitInv
      <3> QED
        BY <1>0, <1>5, <3>1, <3>2 DEF QuitInv
    <2> QED
      BY <1>1, <1>2, <2>2, <2>3, <2>5 DEF SwitchInv
  <1>6. CASE ~checked
    <2> DEFINE b == <<"newPort", "launch">>
    <2>1. checked' /\ gui' = b \o Tail(gui)
      BY <1>0, <1>6 DEF Trigger, SwitchTypeOK, Perform, Triggered
    <2>2. /\ b \in Seq(Instructions) /\ Linked(b) /\ Within(b, Staying)
          /\ b # <<>> /\ b[1] = "newPort" /\ Len(b) = 2
      BY StartBody
    <2> HIDE DEF b
    <2>3. gui' \in Seq(Instructions) /\ Linked(gui')
      BY <1>4, <2>1, <2>2, ConcatOf, ConcatLinked
    <2>4. gui' # <<>> /\ Head(gui') = "newPort"
      <3>1. /\ Len(gui') = Len(b) + Len(Tail(gui)) /\ Len(Tail(gui)) \in Nat
            /\ \A i \in 1..Len(b) : gui'[i] = b[i]
        BY <1>4, <2>1, <2>2, ConcatOf
      <3>2. Len(gui') # 0 /\ gui'[1] = "newPort"
        BY <2>2, <3>1
      <3>3. gui' # <<>>
        BY <3>2
      <3> QED
        BY <2>3, <3>2, <3>3
    <2>5. posted = <<>> /\ ~Running
      BY <1>0, <1>3, <1>6 DEF SyncInv
    <2>6. SyncInv'
      BY <1>0, <2>1, <2>4, <2>5 DEF SyncInv, At, Starting, Stopping, Running
    <2>7. QuitInv'
      <3>1. Within(gui, Staying)
        BY <1>0, <1>4, <1>6, TailWithin DEF QuitInv, Leaving
      <3>2. Within(Tail(gui), Staying)
        BY <1>0, <1>4, <3>1, TailWithin
      <3>3. Within(gui', Staying)
        BY <1>4, <2>1, <2>2, <3>2, ConcatWithin
      <3> QED
        BY <3>3 DEF QuitInv
    <2> QED
      BY <1>1, <1>2, <2>3, <2>6, <2>7 DEF SwitchInv, WorkOK
  <1> QED
    BY <1>5, <1>6

(* OpenOptions and StartIfStopped replace a name by its handler.            *)
LEMMA UnfoldStep ==
  ASSUME SwitchInv, gui # <<>>, Head(gui) \in {"options", "startIfStopped"},
         NEW body, Plain(body), Perform(body),
         UNCHANGED <<checked, label, posted, thread, mustTerminate, port>>
  PROVE  SwitchInv'
  <1>0. SwitchTypeOK /\ WorkOK /\ QueueInv /\ SyncInv /\ PortUsable /\ QuitInv
    BY DEF SwitchInv
  <1>1. SwitchTypeOK' /\ QueueInv' /\ PortUsable'
    BY <1>0 DEF SwitchTypeOK, QueueInv, PortUsable, Running
  <1>2. WorkOK' /\ (gui' = <<>> \/ Head(gui') \notin Inner)
    BY <1>0, Unfold DEF Followed
  <1>3. SyncInv'
    <2>1. ~Starting /\ ~Stopping /\ ~Starting' /\ ~At({"delete"})' /\ ~At({"launch"})'
      BY <1>2 DEF Starting, Stopping, At, Inner
    <2> QED
      BY <1>0, <2>1 DEF SyncInv, Running
  <1>4. QuitInv'
    BY <1>0, UnfoldQuit DEF Leaving
  <1> QED
    BY <1>1, <1>2, <1>3, <1>4 DEF SwitchInv

(* Instructions that are simply done.                                       *)
LEMMA AdvanceStep ==
  ASSUME SwitchInv, gui # <<>>, Head(gui) \notin {"trigger", "launch", "newPort"}, Perform(<<>>),
         SwitchTypeOK', PortUsable', UNCHANGED <<checked, label, posted, thread>>,
         Head(gui) = "join" => thread = "off",
         Head(gui) = "events" => posted = <<>>
  PROVE  SwitchInv'
  <1>0. SwitchTypeOK /\ WorkOK /\ QueueInv /\ SyncInv /\ PortUsable /\ QuitInv
    BY DEF SwitchInv
  <1>1. QueueInv'
    BY <1>0 DEF QueueInv, Running
  <1>2. /\ WorkOK' /\ gui' = Tail(gui)
        /\ Head(gui) \in Followed => gui' # <<>> /\ Head(gui') = Follower[Head(gui)]
        /\ Head(gui) \notin Followed => gui' = <<>> \/ Head(gui') \notin Inner
    BY <1>0, Advance
  <1>3. QuitInv'
    BY <1>0, <1>2, AdvanceQuit
  <1>4. SyncInv'
    <2>1. CASE Head(gui) \in {"terminate", "cancel"}
      <3>1. gui' # <<>> /\ Head(gui') \in {"cancel", "join"}
        BY <1>2, <2>1 DEF Followed, Follower
      <3> QED
        BY <1>0, <2>1, <3>1 DEF SyncInv, At, Starting, Stopping, Running
    <2>2. CASE Head(gui) = "join"
      <3>1. gui' # <<>> /\ Head(gui') = "delete"
        BY <1>2, <2>2 DEF Followed, Follower
      <3> QED
        BY <1>0, <2>2, <3>1 DEF SyncInv, At, Starting, Stopping, Running
    <2>3. CASE Head(gui) = "delete"
      <3>1. gui' # <<>> /\ Head(gui') = "events"
        BY <1>2, <2>3 DEF Followed, Follower
      <3> QED
        BY <1>0, <2>3, <3>1 DEF SyncInv, At, Starting, Stopping, Running
    <2>4. CASE Head(gui) \notin Followed
      <3>1. ~Starting /\ ~Starting' /\ ~At({"delete"})' /\ ~At({"launch"})'
        BY <1>2, <2>4 DEF Starting, At, Inner
      <3>2. ~checked => posted = <<>> /\ ~Running
        <4>1. CASE Head(gui) = "events"
          BY <1>0, <4>1 DEF SyncInv, At
        <4>2. CASE Head(gui) # "events"
          BY <1>0, <2>4, <4>2 DEF SyncInv, At, Stopping, Followed
        <4> QED
          BY <4>1, <4>2
      <3> QED
        BY <1>0, <3>1, <3>2 DEF SyncInv, Running
    <2> QED
      BY <2>1, <2>2, <2>3, <2>4 DEF Followed
  <1> QED
    BY <1>1, <1>2, <1>3, <1>4 DEF SwitchInv

LEMMA NewPortStep ==
  ASSUME SwitchInv, NewPort
  PROVE  SwitchInv'
  <1>0. /\ SwitchTypeOK /\ WorkOK /\ QueueInv /\ SyncInv /\ PortUsable /\ QuitInv
        /\ gui # <<>> /\ Head(gui) = "newPort" /\ Perform(<<>>)
        /\ UNCHANGED <<checked, label, posted, thread>>
    BY DEF SwitchInv, NewPort, At
  <1>p. PICK c \in BOOLEAN : port' = [exists |-> TRUE, open |-> FALSE, canceled |-> c]
    BY DEF NewPort
  <1>t. port' \in [exists : BOOLEAN, open : BOOLEAN, canceled : BOOLEAN]
        /\ port'.exists /\ ~port'.open
    BY <1>p
  <1>m. mustTerminate' = FALSE
    BY DEF NewPort
  <1>1. port'.exists /\ ~port'.open /\ SwitchTypeOK'
    BY <1>0, <1>t, <1>m DEF SwitchTypeOK
  <1>2. /\ WorkOK' /\ gui' = Tail(gui) /\ gui' # <<>> /\ Head(gui') = "launch"
    BY <1>0, Advance DEF Followed, Follower
  <1>3. checked /\ ~Running /\ posted = <<>>
    BY <1>0 DEF SyncInv, Starting, At
  <1>4. SyncInv'
    BY <1>0, <1>1, <1>2, <1>3 DEF SyncInv, Starting, Stopping, At, Running
  <1>5. QueueInv' /\ PortUsable'
    BY <1>0, <1>3 DEF QueueInv, PortUsable, Running
  <1>6. QuitInv'
    BY <1>0, <1>2, AdvanceQuit
  <1> QED
    BY <1>1, <1>2, <1>4, <1>5, <1>6 DEF SwitchInv

LEMMA LaunchStep ==
  ASSUME SwitchInv, Launch
  PROVE  SwitchInv'
  <1>0. /\ SwitchTypeOK /\ WorkOK /\ QueueInv /\ SyncInv /\ PortUsable /\ QuitInv
        /\ gui # <<>> /\ Head(gui) = "launch" /\ Perform(<<>>)
        /\ UNCHANGED <<checked, label, mustTerminate, port>>
    BY DEF SwitchInv, Launch, At
  <1>1. checked /\ ~Running /\ posted = <<>> /\ port.exists
    BY <1>0 DEF SyncInv, Starting, At
  <1>2. thread' = "opening" /\ posted' = <<"started">>
    <2>1. thread = "off"
      BY <1>1 DEF Launch, Running
    <2>2. posted' = Append(posted, "started")
      BY <2>1 DEF Launch
    <2>3. Append(<<>>, "started") = <<"started">>
      OBVIOUS
    <2> QED
      BY <1>1, <2>1, <2>2, <2>3 DEF Launch
  <1>3. /\ WorkOK' /\ gui' = Tail(gui) /\ (gui' = <<>> \/ Head(gui') \notin Inner)
    BY <1>0, Advance DEF Followed
  <1>4. SwitchTypeOK'
    BY <1>0, <1>2 DEF SwitchTypeOK, ThreadPcs
  <1>5. SyncInv'
    BY <1>0, <1>1, <1>2, <1>3 DEF SyncInv, Starting, Stopping, At, Running, Inner
  <1>6. QueueInv'
    BY <1>2 DEF QueueInv, Running
  <1>7. PortUsable'
    BY <1>0, <1>1, <1>2 DEF PortUsable
  <1>8. QuitInv'
    BY <1>0, <1>3, AdvanceQuit
  <1> QED
    BY <1>3, <1>4, <1>5, <1>6, <1>7, <1>8 DEF SwitchInv

(* Terminate, Cancel, Join, DeletePort, EventsDone, DialogDone.             *)
LEMMA DoneStep ==
  ASSUME SwitchInv, Terminate \/ Cancel \/ Join \/ DeletePort \/ EventsDone \/ DialogDone
  PROVE  SwitchInv'
  <1>0. SwitchTypeOK /\ PortUsable /\ SyncInv
    BY DEF SwitchInv
  <1>1. CASE Terminate
    <2>1. SwitchTypeOK' /\ PortUsable'
      BY <1>0, <1>1 DEF Terminate, SwitchTypeOK, PortUsable
    <2> QED
      BY <1>1, <2>1, AdvanceStep DEF Terminate, At
  <1>2. CASE Cancel
    <2>1. port' \in [exists : BOOLEAN, open : BOOLEAN, canceled : BOOLEAN]
          /\ port'.exists = port.exists /\ port'.open = port.open
      BY <1>0, <1>2 DEF Cancel, SwitchTypeOK
    <2>2. SwitchTypeOK' /\ PortUsable'
      BY <1>0, <1>2, <2>1 DEF Cancel, SwitchTypeOK, PortUsable
    <2> QED
      BY <1>2, <2>2, AdvanceStep DEF Cancel, At
  <1>3. CASE Join
    <2>1. SwitchTypeOK' /\ PortUsable'
      BY <1>0, <1>3 DEF Join, SwitchTypeOK, PortUsable
    <2> QED
      BY <1>3, <2>1, AdvanceStep DEF Join, At
  <1>4. CASE DeletePort
    <2>1. thread = "off"
      BY <1>0, <1>4 DEF DeletePort, SyncInv
    <2>2. SwitchTypeOK' /\ PortUsable'
      BY <1>0, <1>4, <2>1 DEF DeletePort, NoPort, SwitchTypeOK, PortUsable
    <2> QED
      BY <1>4, <2>2, AdvanceStep DEF DeletePort, At
  <1>5. CASE EventsDone
    <2>1. SwitchTypeOK' /\ PortUsable'
      BY <1>0, <1>5 DEF EventsDone, SwitchTypeOK, PortUsable
    <2> QED
      BY <1>5, <2>1, AdvanceStep DEF EventsDone, At
  <1>6. CASE DialogDone
    <2>1. SwitchTypeOK' /\ PortUsable'
      BY <1>0, <1>6 DEF DialogDone, SwitchTypeOK, PortUsable
    <2> QED
      BY <1>6, <2>1, AdvanceStep DEF DialogDone, At
  <1> QED
    BY <1>1, <1>2, <1>3, <1>4, <1>5, <1>6

LEMMA DeliverStep ==
  ASSUME SwitchInv, Deliver
  PROVE  SwitchInv'
  <1>0. /\ SwitchTypeOK /\ WorkOK /\ QueueInv /\ SyncInv /\ PortUsable /\ QuitInv
        /\ gui = <<>> \/ At({"events", "dialog"})
        /\ posted # <<>> /\ UNCHANGED <<gui, thread, mustTerminate, port>>
    BY DEF SwitchInv, Deliver
  <1>1. WorkOK' /\ PortUsable'
    BY <1>0 DEF WorkOK, PortUsable
  <1>2. ~Starting /\ ~Starting' /\ ~At({"delete"})' /\ ~At({"launch"})'
    BY <1>0 DEF Starting, At
  <1>3. CASE posted \in {<<"started">>, <<"started", "finished">>}
    <2>1. Head(posted) = "started"
      BY <1>3
    <2>2. label' = "stop" /\ checked' = checked
      BY <2>1 DEF Deliver
    <2>3. posted = <<"started">> => posted' = <<>>
      BY DEF Deliver
    <2>4. posted = <<"started", "finished">> => posted' = <<"finished">>
      BY DEF Deliver
    <2>5. QueueInv'
      BY <1>0, <1>3, <2>2, <2>3, <2>4 DEF QueueInv, Running
    <2>6. SwitchTypeOK'
      BY <1>0, <2>2 DEF SwitchTypeOK
    <2>7. SyncInv'
      <3>1. posted = <<"started">> => Running
        BY <1>0 DEF QueueInv
      <3>2. ~checked => At({"events"}) /\ ~Running
        BY <1>0 DEF SyncInv, At, Stopping
      <3>3. posted = <<"started", "finished">>  => posted' \in {<<"finished">>, <<"started", "finished">>}
        BY <2>4
      <3> QED
        BY <1>0, <1>2, <1>3, <2>2, <3>1, <3>2, <3>3 DEF SyncInv, At, Running, Stopping
    <2>8. QuitInv'
      BY <1>0, <2>2 DEF QuitInv
    <2> QED
      BY <1>1, <2>5, <2>6, <2>7, <2>8 DEF SwitchInv
  <1>4. CASE posted = <<"finished">>
    <2>1. Head(posted) = "finished" /\ Tail(posted) = <<>>
      BY <1>4
    <2>2. label' = "start" /\ ~checked' /\ checked' \in BOOLEAN /\ posted' = <<>>
      BY <2>1 DEF Deliver
    <2>3. ~Running
      BY <1>0, <1>4 DEF QueueInv
    <2>4. QueueInv'
      BY <1>0, <2>2, <2>3 DEF QueueInv, Running
    <2>5. SwitchTypeOK'
      BY <1>0, <2>2 DEF SwitchTypeOK
    <2>6. SyncInv'
      BY <1>0, <1>2, <2>2, <2>3 DEF SyncInv, Running
    <2>7. QuitInv'
      <3>1. Within(gui, Staying) \/ Within(gui, Leaving)
        <4>1. gui = <<>> => Within(gui, Staying)
          BY DEF Within
        <4>2. gui # <<>> => Head(gui) = gui[1]
          BY <1>0, TailOf DEF WorkOK
        <4> QED
          BY <1>0, <4>1, <4>2 DEF QuitInv, At
      <3> QED
        BY <1>0, <2>2, <3>1 DEF QuitInv
    <2> QED
      BY <1>1, <2>4, <2>5, <2>6, <2>7 DEF SwitchInv
  <1> QED
    BY <1>0, <1>3, <1>4 DEF QueueInv

(* A handler that starts from the main event loop, or a click within one,   *)
(* once the posted signals have been delivered.                             *)
LEMMA UserStep ==
  ASSUME SwitchInv, gui = <<>>, Plain(gui'),
         UNCHANGED <<checked, label, posted, thread, mustTerminate, port>>
  PROVE  SwitchInv'
  <1>0. SwitchTypeOK /\ QueueInv /\ SyncInv /\ PortUsable
    BY DEF SwitchInv
  <1>1. SwitchTypeOK' /\ QueueInv' /\ PortUsable'
    BY <1>0 DEF SwitchTypeOK, QueueInv, PortUsable, Running
  <1>2. WorkOK' /\ (gui' # <<>> => Head(gui') = gui'[1] /\ gui'[1] \notin Inner)
    <2>1. gui' \in Seq(Instructions)
      BY DEF Plain
    <2> QED
      BY <2>1, TailOf DEF Plain, WorkOK
  <1>3. SyncInv'
    <2>1. ~Starting /\ ~Stopping /\ ~Starting' /\ ~At({"delete"})' /\ ~At({"launch"})'
      BY <1>2 DEF Starting, Stopping, At, Inner
    <2> QED
      BY <1>0, <2>1 DEF SyncInv, Running
  <1>4. QuitInv'
    BY DEF Plain, Staying, QuitInv
  <1> QED
    BY <1>1, <1>2, <1>3, <1>4 DEF SwitchInv

LEMMA UserActsStep ==
  ASSUME SwitchInv, UserActs
  PROVE  SwitchInv'
  <1>1. /\ gui = <<>> /\ UNCHANGED <<checked, label, posted, thread, mustTerminate, port>>
    BY DEF UserActs, Begin
  <1>2. Plain(gui')
    <2>1. CASE UserActs /\ gui' \in {<<"trigger">>, Restart, Options, Cassette, Interrupt}
      BY <2>1, PlainBodies, HandlersPlain
    <2>2. CASE gui' = Close
      <3> DEFINE c == IF checked THEN <<"trigger">> ELSE <<>>
      <3>1. Plain(c)
        BY PlainBodies
      <3>2. Plain(<<"dialog", "destroy">>)
        BY PlainPair DEF Instructions, Followed, Inner
      <3>3. Plain(c \o <<"dialog", "destroy">>)
        BY <3>1, <3>2, PlainConcat
      <3> QED
        BY <2>2, <3>3 DEF Close
    <2>3. CASE \E o \in {FALSE, FirstRun} : gui' = Show(o)
      BY <2>3, HandlersPlain, LifecycleAssumption
    <2> QED
      BY <2>1, <2>2, <2>3 DEF UserActs, Begin
  <1> QED
    BY <1>1, <1>2, UserStep

LEMMA NestedClickStep ==
  ASSUME ~ClicksFirst, SwitchInv, NestedClick
  PROVE  SwitchInv'
  <1>0. /\ SwitchTypeOK /\ WorkOK /\ QueueInv /\ SyncInv /\ PortUsable /\ QuitInv
        /\ gui # <<>> /\ Head(gui) = "events" /\ posted = <<>>
        /\ gui' = <<"trigger">> \o gui
        /\ \A i \in 1..Len(gui) : gui[i] # "gone"
        /\ UNCHANGED <<checked, label, posted, thread, mustTerminate, port>>
    BY DEF SwitchInv, NestedClick, At
  <1>1. SwitchTypeOK' /\ QueueInv' /\ PortUsable'
    BY <1>0 DEF SwitchTypeOK, QueueInv, PortUsable, Running
  <1>2. gui \in Seq(Instructions) /\ Linked(gui) /\ gui[1] = "events"
    BY <1>0, TailOf DEF WorkOK
  <1>3. Within(gui, Staying)
    <2>1. \A i \in 1..Len(gui) : gui[i] \in Instructions
      BY <1>2
    <2> QED
      BY <1>0, <2>1 DEF Within, Staying
  <1>4. Plain(gui)
    BY <1>2, <1>3 DEF Plain, Inner, Staying
  <1>5. Plain(gui')
    BY <1>0, <1>4, PlainBodies, PlainConcat
  <1>6. WorkOK' /\ QuitInv'
    BY <1>5 DEF Plain, WorkOK, QuitInv, Staying
  <1>7. gui' # <<>> /\ Head(gui') = "trigger"
    BY <1>0, <1>2
  <1>8. SyncInv'
    <2>1. ~Starting /\ ~Starting' /\ ~Stopping' /\ ~At({"delete"})' /\ ~At({"launch"})'
          /\ ~At({"events"})'
      BY <1>0, <1>7 DEF Starting, Stopping, At
    <2>2. ~checked => ~Running
      BY <1>0 DEF SyncInv, At
    <2> QED
      BY <1>0, <2>1, <2>2 DEF SyncInv, Running
  <1> QED
    BY <1>1, <1>6, <1>8 DEF SwitchInv

LEMMA DestroyStep ==
  ASSUME SwitchInv, Destroy
  PROVE  SwitchInv'
  <1>0. /\ SwitchTypeOK /\ WorkOK /\ QueueInv /\ SyncInv /\ PortUsable
        /\ gui # <<>> /\ Head(gui) = "destroy"
        /\ gui' = (IF checked THEN <<"trigger">> ELSE <<>>) \o <<"gone">>
        /\ UNCHANGED <<checked, label, posted, thread, mustTerminate, port>>
    BY DEF SwitchInv, Destroy, At
  <1>1. SwitchTypeOK' /\ QueueInv' /\ PortUsable'
    BY <1>0 DEF SwitchTypeOK, QueueInv, PortUsable, Running
  <1>2. CASE checked
    <2>1. /\ gui' \in Seq(Instructions) /\ Len(gui') = 2 /\ gui'[1] = "trigger" /\ gui'[2] = "gone"
          /\ gui' # <<>> /\ Head(gui') = "trigger"
      BY <1>0, <1>2 DEF Instructions
    <2>2. \A i \in 1..2 : i = 1 \/ i = 2
      OBVIOUS
    <2>3. WorkOK'
      BY <2>1, <2>2 DEF WorkOK, Linked, Followed
    <2>4. QuitInv'
      BY <1>0, <1>2, <2>1 DEF QuitInv
    <2>5. SyncInv'
      BY <1>0, <1>2, <2>1 DEF SyncInv, Starting, Stopping, At, Running
    <2> QED
      BY <1>1, <2>3, <2>4, <2>5 DEF SwitchInv
  <1>3. CASE ~checked
    <2>1. /\ gui' \in Seq(Instructions) /\ Len(gui') = 1 /\ gui'[1] = "gone"
          /\ gui' # <<>> /\ Head(gui') = "gone"
      BY <1>0, <1>3 DEF Instructions
    <2>2. WorkOK'
      BY <2>1 DEF WorkOK, Linked, Followed
    <2>3. Within(gui', Leaving)
      BY <2>1 DEF Within, Leaving
    <2>4. QuitInv'
      BY <1>0, <1>3, <2>3 DEF QuitInv
    <2>5. SyncInv'
      BY <1>0, <1>3, <2>1 DEF SyncInv, Starting, Stopping, At, Running
    <2> QED
      BY <1>1, <2>2, <2>4, <2>5 DEF SwitchInv
  <1> QED
    BY <1>2, <1>3

LEMMA GuiStep ==
  ASSUME ~ClicksFirst, SwitchInv, GuiNext
  PROVE  SwitchInv'
  <1>1. CASE OpenOptions
    BY <1>1, UnfoldStep, HandlersPlain DEF OpenOptions, At
  <1>2. CASE StartIfStopped
    <2>1. Plain(IF checked THEN <<>> ELSE <<"trigger">>)
      BY PlainBodies
    <2> QED
      BY <1>2, <2>1, UnfoldStep DEF StartIfStopped, At
  <1> QED
    BY <1>1, <1>2, TriggerStep, NewPortStep, LaunchStep, DoneStep, DeliverStep, UserActsStep,
       NestedClickStep, DestroyStep DEF GuiNext, GuiProceeds

(* The queue of signals when a run ends before sioStarted() was delivered.  *)
Signals == {"started", "finished"}

LEMMA AppendOf ==
  ASSUME NEW S, NEW s \in Seq(S), NEW x \in S
  PROVE  /\ Append(s, x) \in Seq(S) /\ Len(Append(s, x)) = Len(s) + 1
         /\ \A i \in 1..Len(s) : Append(s, x)[i] = s[i]
         /\ Append(s, x)[Len(s) + 1] = x
  OBVIOUS

LEMMA QueueTwo == Append(<<"started">>, "finished") = <<"started", "finished">>
  <1> DEFINE a == <<"started">>
             s == Append(a, "finished")
             t == <<"started", "finished">>
  <1>0. a \in Seq(Signals) /\ Len(a) = 1 /\ a[1] = "started"
    BY DEF Signals
  <1> HIDE DEF a
  <1>1. s \in Seq(Signals) /\ Len(s) = 2 /\ s[1] = "started" /\ s[2] = "finished"
    <2>1. "finished" \in Signals
      BY DEF Signals
    <2>2. /\ s \in Seq(Signals) /\ Len(s) = Len(a) + 1
          /\ \A i \in 1..Len(a) : s[i] = a[i]
          /\ s[Len(a) + 1] = "finished"
      BY <1>0, <2>1, AppendOf
    <2> QED BY <1>0, <2>2
  <1>2. t \in Seq(Signals) /\ Len(t) = 2 /\ t[1] = "started" /\ t[2] = "finished"
    BY DEF Signals
  <1>3. s = [i \in 1..2 |-> s[i]] /\ t = [i \in 1..2 |-> t[i]]
    <2> HIDE DEF s, t
    <2> QED BY <1>1, <1>2
  <1>5. s = t
    <2> HIDE DEF s, t
    <2>1. \A i \in 1..2 : i = 1 \/ i = 2
      OBVIOUS
    <2>2. \A i \in 1..2 : s[i] = t[i]
      BY <1>1, <1>2, <2>1
    <2> QED BY <1>3, <2>2
  <1> QED BY <1>5 DEF a

(* The thread goes on: within one run, or from the finish to its end.       *)
LEMMA WorkerGoesOn ==
  ASSUME SwitchInv, UNCHANGED <<checked, label, posted, gui, mustTerminate>>,
         thread' \in ThreadPcs, Running' <=> Running, thread # "off",
         port' \in [exists : BOOLEAN, open : BOOLEAN, canceled : BOOLEAN],
         port'.exists = port.exists, port'.open => port'.exists, PortUsable'
  PROVE  SwitchInv'
  <1>0. SwitchTypeOK /\ WorkOK /\ QueueInv /\ SyncInv /\ QuitInv
    BY DEF SwitchInv
  <1>1. SwitchTypeOK'
    BY <1>0 DEF SwitchTypeOK
  <1>2. WorkOK' /\ QuitInv'
    BY <1>0 DEF WorkOK, QuitInv
  <1>3. QueueInv'
    BY <1>0 DEF QueueInv
  <1>4. SyncInv'
    BY <1>0 DEF SyncInv, At, Starting, Stopping
  <1> QED
    BY <1>1, <1>2, <1>3, <1>4 DEF SwitchInv

(* The run ends and says so.                                                *)
LEMMA WorkerEnds ==
  ASSUME SwitchInv, Running, Finishes, UNCHANGED <<checked, label, gui, mustTerminate>>,
         port' \in [exists : BOOLEAN, open : BOOLEAN, canceled : BOOLEAN],
         port'.exists = port.exists, port'.open => port'.exists
  PROVE  SwitchInv'
  <1>0. SwitchTypeOK /\ WorkOK /\ QueueInv /\ SyncInv /\ QuitInv
    BY DEF SwitchInv
  <1>1. thread' = "finishing" /\ ~Running' /\ PortUsable'
    BY DEF Finishes, Running, PortUsable
  <1>2. posted \in {<<>>, <<"started">>}
    BY <1>0 DEF QueueInv
  <1>3. posted' \in {<<"finished">>, <<"started", "finished">>}
    <2>1. posted' = Append(posted, "finished")
      BY DEF Finishes
    <2>2. Append(<<>>, "finished") = <<"finished">>
      OBVIOUS
    <2> QED
      BY <1>2, <2>1, <2>2, QueueTwo
  <1>4. SwitchTypeOK'
    BY <1>0, <1>1 DEF SwitchTypeOK, ThreadPcs
  <1>5. WorkOK' /\ QuitInv'
    BY <1>0 DEF WorkOK, QuitInv
  <1>6. QueueInv'
    <2>1. posted' # <<>> /\ posted' # <<"started">>
      BY <1>3
    <2> QED
      BY <1>1, <1>3, <2>1 DEF QueueInv
  <1>7. SyncInv'
    <2>1. thread # "off" /\ Running
      BY DEF Running
    <2>2. (Starting' <=> Starting) /\ (Stopping' <=> Stopping)
          /\ (At({"delete"})' <=> At({"delete"})) /\ (At({"launch"})' <=> At({"launch"}))
      BY DEF Starting, Stopping, At
    <2> QED
      BY <1>0, <1>1, <1>3, <2>1, <2>2 DEF SyncInv
  <1> QED
    BY <1>1, <1>4, <1>5, <1>6, <1>7 DEF SwitchInv

LEMMA WorkerStep ==
  ASSUME SwitchInv, WorkerNext
  PROVE  SwitchInv'
  <1>0. SwitchTypeOK /\ PortUsable
    BY DEF SwitchInv
  <1>1. CASE OpenFails
    <2>1. Running /\ Finishes /\ UNCHANGED <<checked, label, gui, mustTerminate>>
      BY <1>1 DEF OpenFails, Running
    <2>2. CASE thread = "opening"
      <3>1. port' = port
        BY <1>1, <2>2 DEF OpenFails
      <3> QED
        BY <1>0, <2>1, <3>1, WorkerEnds DEF SwitchTypeOK
    <2>3. CASE thread # "opening"
      <3>1. port' = [port EXCEPT !.open = FALSE, !.canceled = TRUE]
        BY <1>1, <2>3 DEF OpenFails
      <3>2. port' \in [exists : BOOLEAN, open : BOOLEAN, canceled : BOOLEAN]
            /\ port'.exists = port.exists /\ ~port'.open
        BY <1>0, <3>1 DEF SwitchTypeOK
      <3> QED
        BY <2>1, <3>2, WorkerEnds
    <2> QED
      BY <2>2, <2>3
  <1>2. CASE ClosePort
    <2>1. Running /\ Finishes /\ UNCHANGED <<checked, label, gui, mustTerminate>>
      BY <1>2 DEF ClosePort, Running
    <2>2. port' = [port EXCEPT !.open = FALSE, !.canceled = port.exists]
      BY <1>2 DEF ClosePort
    <2>3. port' \in [exists : BOOLEAN, open : BOOLEAN, canceled : BOOLEAN]
          /\ port'.exists = port.exists /\ ~port'.open
      BY <1>0, <2>2 DEF SwitchTypeOK
    <2> QED
      BY <2>1, <2>3, WorkerEnds
  <1>3. CASE OpenHandle
    <2>1. thread = "opening" /\ thread' = "opened" /\ port' = [port EXCEPT !.open = TRUE]
          /\ UNCHANGED <<checked, label, posted, gui, mustTerminate>>
      BY <1>3 DEF OpenHandle, Goes, guiVars
    <2>2. port.exists
      BY <1>0, <2>1 DEF PortUsable
    <2>3. port' \in [exists : BOOLEAN, open : BOOLEAN, canceled : BOOLEAN]
          /\ port'.exists = port.exists /\ port'.open
      BY <1>0, <2>1 DEF SwitchTypeOK
    <2>4. Running /\ Running' /\ thread' \in ThreadPcs /\ PortUsable'
      BY <2>1, <2>2, <2>3 DEF Running, ThreadPcs, PortUsable
    <2> QED
      BY <2>1, <2>2, <2>3, <2>4, WorkerGoesOn
  <1>4. CASE ClearCanceled
    <2>1. thread = "opened" /\ thread' = "setSpeed" /\ port' = [port EXCEPT !.canceled = FALSE]
          /\ UNCHANGED <<checked, label, posted, gui, mustTerminate>>
      BY <1>4 DEF ClearCanceled, Goes, guiVars
    <2>2. port.exists /\ port.open
      BY <1>0, <2>1 DEF PortUsable, ThreadPcs
    <2>3. port' \in [exists : BOOLEAN, open : BOOLEAN, canceled : BOOLEAN]
          /\ port'.exists = port.exists /\ port'.open = port.open
      BY <1>0, <2>1 DEF SwitchTypeOK
    <2>4. Running /\ Running' /\ thread' \in ThreadPcs /\ PortUsable'
      BY <2>1, <2>2, <2>3 DEF Running, ThreadPcs, PortUsable
    <2> QED
      BY <2>1, <2>2, <2>3, <2>4, WorkerGoesOn
  <1>5. CASE Finish
    <2>1. thread = "finishing" /\ thread' = "off"
          /\ UNCHANGED <<checked, label, posted, gui, mustTerminate, port>>
      BY <1>5 DEF Finish, Goes, guiVars
    <2>2. ~Running /\ ~Running' /\ thread' \in ThreadPcs /\ PortUsable'
      BY <2>1 DEF Running, ThreadPcs, PortUsable
    <2> QED
      BY <1>0, <2>1, <2>2, WorkerGoesOn DEF SwitchTypeOK
  <1>6. ASSUME UNCHANGED <<checked, label, posted, gui, mustTerminate, port>>,
               thread \in ThreadPcs \ {"off", "opening", "opened", "finishing"},
               thread' \in ThreadPcs \ {"off", "opening", "opened", "setSpeed", "finishing"}
        PROVE  SwitchInv'
    <2>1. port.open /\ port.exists
      BY <1>0, <1>6 DEF PortUsable, SwitchTypeOK
    <2>2. Running /\ Running' /\ thread # "off" /\ thread' \in ThreadPcs
      BY <1>6 DEF Running
    <2>3. PortUsable'
      BY <1>6, <2>1 DEF PortUsable
    <2> QED
      BY <1>0, <1>6, <2>2, <2>3, WorkerGoesOn DEF SwitchTypeOK
  <1>7. CASE SetNormalSpeed \/ Loop \/ WaitCommandOff \/ WaitCommandOn
    BY <1>6, <1>7 DEF SetNormalSpeed, Loop, WaitCommandOff, WaitCommandOn, Goes, guiVars, ThreadPcs
  <1>8. CASE ReadFrame \/ MissFrame \/ AwaitRelease \/ LineFails
    BY <1>6, <1>8 DEF ReadFrame, MissFrame, AwaitRelease, LineFails, Goes, guiVars, ThreadPcs
  <1>9. CASE GotFrame \/ GotNothing \/ Handled
    BY <1>6, <1>9 DEF GotFrame, GotNothing, Handled, Goes, guiVars, ThreadPcs
  <1> QED
    BY <1>1, <1>2, <1>3, <1>4, <1>5, <1>7, <1>8, <1>9 DEF WorkerNext, WorkerProceeds

LEMMA AtariStep ==
  ASSUME SwitchInv, CommandOn \/ CommandOff \/ UNCHANGED vars
  PROVE  SwitchInv'
  <1>1. UNCHANGED <<checked, label, posted, gui, thread, mustTerminate, port>>
    BY DEF CommandOn, CommandOff, guiVars, vars
  <1> QED
    BY <1>1 DEF SwitchInv, SwitchTypeOK, WorkOK, QueueInv, SyncInv, PortUsable, QuitInv,
       Running, Starting, Stopping, At

LEMMA InitSwitch == Init => SwitchInv
  <1> SUFFICES ASSUME Init PROVE SwitchInv
    OBVIOUS
  <1>1. PICK o \in {FALSE, FirstRun} : gui = Show(o)
    BY DEF Init
  <1>2. Plain(gui)
    BY <1>1, HandlersPlain, LifecycleAssumption
  <1>3. WorkOK /\ QuitInv /\ (gui # <<>> => Head(gui) = gui[1] /\ gui[1] \notin Inner)
    <2>1. gui \in Seq(Instructions)
      BY <1>2 DEF Plain
    <2> QED
      BY <1>2, <2>1, TailOf DEF Plain, WorkOK, QuitInv, Staying
  <1>4. SwitchTypeOK /\ PortUsable
    BY DEF Init, SwitchTypeOK, ThreadPcs, PortUsable, NoPort
  <1>5. QueueInv
    BY DEF Init, QueueInv, Running
  <1>6. SyncInv
    <2>1. ~Starting /\ ~At({"delete"}) /\ ~At({"launch"})
      BY <1>3 DEF Starting, At, Inner
    <2> QED
      BY <2>1 DEF Init, SyncInv, Running
  <1> QED
    BY <1>3, <1>4, <1>5, <1>6 DEF SwitchInv

-----------------------------------------------------------------------------
(* The inductive invariant, when a click within processEvents() comes after *)
(* the signals that were posted before it.                                  *)
THEOREM SwitchInvariant == ~ClicksFirst => (Spec => []SwitchInv)
  <1> SUFFICES ASSUME ~ClicksFirst PROVE Spec => []SwitchInv
    OBVIOUS
  <1>1. Init => SwitchInv
    BY InitSwitch
  <1>2. SwitchInv /\ [Next]_vars => SwitchInv'
    BY GuiStep, WorkerStep, AtariStep DEF Next
  <1> QED
    BY <1>1, <1>2, PTL DEF Spec

(* At rest the check box tells whether the worker runs, and its text what   *)
(* the next click does: on_actionStartEmulation_triggered toggles the box   *)
(* before anything has happened, and sioFinished() clears it when a run     *)
(* ends by itself.                                                          *)
THEOREM ActionInSyncAlways == ~ClicksFirst => (Spec => []ActionInSync)
  <1> SUFFICES ASSUME ~ClicksFirst PROVE Spec => []ActionInSync
    OBVIOUS
  <1>1. SwitchInv => ActionInSync
    <2> SUFFICES ASSUME SwitchInv, gui = <<>>, posted = <<>>
                 PROVE  /\ checked <=> Running
                        /\ label = IF checked THEN "stop" ELSE "start"
      BY DEF ActionInSync, Running
    <2>1. QueueInv /\ SyncInv /\ SwitchTypeOK /\ ~Starting /\ ~Stopping
      BY DEF SwitchInv, Starting, Stopping, At
    <2>2. checked <=> Running
      BY <2>1 DEF SyncInv
    <2>3. label = "stop" <=> Running
      BY <2>1 DEF QueueInv
    <2> QED
      BY <2>1, <2>2, <2>3 DEF SwitchTypeOK
  <1> QED
    BY <1>1, SwitchInvariant, PTL

(* SioWorker::wait joins before it deletes the back end and start() never   *)
(* replaces that of a running thread, so readCommandFrame finds it open.    *)
THEOREM PortUsableAlways == ~ClicksFirst => (Spec => []PortUsable)
  <1> SUFFICES ASSUME ~ClicksFirst PROVE Spec => []PortUsable
    OBVIOUS
  <1>1. SwitchInv => PortUsable
    BY DEF SwitchInv
  <1> QED
    BY <1>1, SwitchInvariant, PTL

(* ~MainWindow deletes the worker only when its run has ended, although     *)
(* closeEvent shows dialogs and the user can start the emulation again.     *)
THEOREM QuitStopsWorkerAlways == ~ClicksFirst => (Spec => []QuitStopsWorker)
  <1> SUFFICES ASSUME ~ClicksFirst PROVE Spec => []QuitStopsWorker
    OBVIOUS
  <1>1. SwitchInv => QuitStopsWorker
    <2> SUFFICES ASSUME SwitchInv, gui = <<"gone">> PROVE ~Running
      BY DEF QuitStopsWorker, Running, SwitchInv, SwitchTypeOK
    <2>1. Len(gui) = 1 /\ gui[1] = "gone" /\ Head(gui) = "gone"
      OBVIOUS
    <2>2. ~Within(gui, Staying)
      BY <2>1 DEF Within, Staying
    <2>3. ~checked
      BY <2>1, <2>2 DEF SwitchInv, QuitInv
    <2> QED
      BY <2>1, <2>3 DEF SwitchInv, SyncInv, Stopping, At
  <1> QED
    BY <1>1, SwitchInvariant, PTL

-----------------------------------------------------------------------------
(* The types, from both invariants and the bounds on noise and failures: a  *)
(* failure that the next search starts with has been counted in the last.   *)
QuietInv ==
  /\ LinkInv
  /\ search.noise <= MaxNoise
  /\ search.failed <= MaxFails
  /\ FlagWrong => MaxFails >= 1

LEMMA QuietStep == QuietInv /\ [Next]_vars => QuietInv'
  <1> SUFFICES ASSUME QuietInv, [Next]_vars PROVE QuietInv'
    OBVIOUS
  <1> DEFINE Bounded ==
        /\ search.noise <= MaxNoise
        /\ search.failed <= MaxFails
        /\ FlagWrong => MaxFails >= 1
  <1>0. LinkInv /\ search.noise \in Nat /\ search.failed \in Nat /\ MaxNoise \in Nat
        /\ MaxFails \in Nat /\ Bounded
    BY LifecycleAssumption DEF QuietInv, LinkInv, LinkTypeOK
  <1>1. LinkInv'
    <2>1. CASE UNCHANGED vars
      BY <1>0, <2>1 DEF LinkInv, LinkTypeOK, HeardInTime, Searching, SearchInv, SameSpeed,
                  FlagWrong, SpeedOf, vars
    <2> QED
      BY <1>0, <2>1, GuiLink, WorkerLink, AtariLink DEF Next
  <1>2. Bounded'
    <2>0. CASE UNCHANGED <<search, highSpeed, portSpeed>>
      BY <1>0, <2>0 DEF FlagWrong, SpeedOf
    <2>1. CASE MissFrame
      <3>1. SameSpeed => search.noise < MaxNoise
        BY <2>1 DEF MissFrame
      <3>2. CASE \E retries \in {0, 1} :
                   search' = Missed(retries, 0) /\ UNCHANGED <<highSpeed, portSpeed>>
        <4>1. search'.noise = search.noise + (IF SameSpeed THEN 1 ELSE 0)
              /\ search'.failed = search.failed + 0
          BY <3>2 DEF Missed
        <4>2. FlagWrong' <=> FlagWrong
          BY <3>2 DEF FlagWrong, SpeedOf
        <4> QED
          BY <1>0, <3>1, <4>1, <4>2
      <3>3. CASE \E failures \in Failures :
                   search' = Missed(0, failures) /\ SetSpeed(~highSpeed, failures)
        <4>1. PICK failures \in Failures :
                search' = Missed(0, failures) /\ SetSpeed(~highSpeed, failures)
          BY <3>3
        <4>2. search'.noise = search.noise + (IF SameSpeed THEN 1 ELSE 0)
              /\ search'.failed = search.failed + failures
          BY <4>1 DEF Missed
        <4>3. failures = 0 \/ (failures = 1 /\ search.failed < MaxFails)
          BY DEF Failures
        <4>4. failures = 0 => ~FlagWrong'
          BY <4>1 DEF SetSpeed, FlagWrong, SpeedOf
        <4> QED
          BY <1>0, <3>1, <4>2, <4>3, <4>4
      <3> QED
        BY <2>1, <3>2, <3>3 DEF MissFrame, CountMiss
    <2>2. CASE Loop
      <3>1. search'.noise = 0 /\ search'.failed = IF FlagWrong THEN 1 ELSE 0
        BY <2>2 DEF Loop, NewSearch
      <3>2. FlagWrong' <=> FlagWrong
        BY <2>2 DEF Loop, FlagWrong, SpeedOf
      <3> QED
        BY <1>0, <3>1, <3>2
    <2>3. CASE SetNormalSpeed
      <3>1. UNCHANGED search /\ ~FlagWrong'
        BY <2>3 DEF SetNormalSpeed, FlagWrong, SpeedOf
      <3> QED
        BY <1>0, <3>1
    <2>4. CASE GuiNext
      <3>1. UNCHANGED linkVars
        BY <2>4 DEF GuiNext, GuiProceeds, UserActs, Begin, NestedClick, Trigger, OpenOptions,
           StartIfStopped, NewPort, Launch, Terminate, Cancel, Join, DeletePort, Deliver,
           EventsDone, DialogDone, Destroy
      <3> QED
        BY <2>0, <3>1 DEF linkVars
    <2>5. CASE CommandOn \/ CommandOff \/ UNCHANGED vars
      BY <2>0, <2>5 DEF CommandOn, CommandOff, vars
    <2>6. CASE WorkerNext /\ ~MissFrame /\ ~Loop /\ ~SetNormalSpeed
      <3>1. UNCHANGED linkVars
        BY <2>6 DEF WorkerNext, WorkerProceeds, OpenHandle, ClearCanceled,
           WaitCommandOff, WaitCommandOn, ReadFrame, AwaitRelease, GotFrame, GotNothing, Handled,
           ClosePort, Finish, OpenFails, LineFails
      <3> QED
        BY <2>0, <3>1 DEF linkVars
    <2> QED
      BY <2>1, <2>2, <2>3, <2>4, <2>5, <2>6 DEF Next
  <1> QED
    BY <1>1, <1>2 DEF QuietInv

(* Every instruction the GUI thread is left with and every place of the     *)
(* worker thread is one of the code's, for every number of lost frames.     *)
THEOREM LifecycleTypes == ~ClicksFirst => (Spec => []TypeOK)
  <1> SUFFICES ASSUME ~ClicksFirst PROVE Spec => []TypeOK
    OBVIOUS
  <1>1. Init => QuietInv
    <2> SUFFICES ASSUME Init
                 PROVE  search.noise <= MaxNoise /\ search.failed <= MaxFails /\ ~FlagWrong
      BY InitLink DEF QuietInv
    <2>1. search.noise = 0 /\ search.failed = 0 /\ ~FlagWrong
      BY DEF Init, NewSearch, FlagWrong, SpeedOf
    <2> QED
      BY <2>1, LifecycleAssumption
  <1>2. SwitchInv /\ QuietInv => TypeOK
    <2> SUFFICES ASSUME SwitchInv, QuietInv PROVE TypeOK
      OBVIOUS
    <2>1. SwitchTypeOK /\ gui \in Seq(Instructions)
      BY DEF SwitchInv, WorkOK
    <2>2. posted \in Seq({"started", "finished"})
      <3>1. <<>> \in Seq({"started", "finished"})
        OBVIOUS
      <3>2. <<"started">> \in Seq({"started", "finished"})
        OBVIOUS
      <3>3. <<"finished">> \in Seq({"started", "finished"})
        OBVIOUS
      <3>4. <<"started", "finished">> \in Seq({"started", "finished"})
        OBVIOUS
      <3> QED
        BY <3>1, <3>2, <3>3, <3>4 DEF SwitchInv, QueueInv
    <2>3. search \in [retries : {0, 1}, missed : Nat, noise : 0..MaxNoise,
                      failed : 0..MaxFails]
      <3>1. search \in [retries : {0, 1}, missed : Nat, noise : Nat, failed : Nat]
            /\ search.noise <= MaxNoise /\ search.failed <= MaxFails
        BY DEF QuietInv, LinkInv, LinkTypeOK
      <3>2. search.noise \in 0..MaxNoise /\ search.failed \in 0..MaxFails
        BY <3>1, LifecycleAssumption
      <3> QED
        BY <3>1, <3>2
    <2> QED
      BY <2>1, <2>2, <2>3 DEF TypeOK, SwitchTypeOK, QuietInv, LinkInv, LinkTypeOK
  <1> QED
    BY <1>1, <1>2, QuietStep, SwitchInvariant, PTL DEF Spec

=============================================================================
