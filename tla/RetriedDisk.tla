----------------------------- MODULE RetriedDisk -----------------------------
(***************************************************************************)
(* What a drive promises to the Atari over a line that loses frames: while *)
(* the Atari tries, a request is carried out any number of times, each     *)
(* time as a whole; the Atari is told of success only if it has been       *)
(* carried out, and given an answer only if one of these times gave it.    *)
(***************************************************************************)
EXTENDS Naturals, Sequences

CONSTANTS
  Values,     \* what a sector may hold
  Blank,      \* what a format leaves in it
  Enhanced,   \* the geometry of "format enhanced density"
  Requests,   \* records [op, arg, value]
  NoRequest,
  Done        \* the answer to a request that asks for no data

VARIABLES
  content,  \* the sectors of the disk
  size,     \* its geometry
  next,     \* the geometry of the next format
  request,
  answers,  \* what the drive has answered to the request so far
  told      \* what the Atari has been told: at most one answer

vars == <<content, size, next, request, answers, told>>

Init ==
  /\ content \in Seq(Values)
  /\ size = Len(content) /\ next = size
  /\ request = NoRequest
  /\ answers = {} /\ told = {}

Ask ==
  /\ request = NoRequest
  /\ request' \in Requests
  /\ told' = {}
  /\ UNCHANGED <<content, size, next, answers>>

Answers(a) == answers' = answers \cup {a}

Read ==
  /\ request.op = "read"
  /\ request.arg \in DOMAIN content
  /\ Answers(content[request.arg])
  /\ UNCHANGED <<content, size, next>>

(* A disk that a failed format has left short grows to the sector written.  *)
Write ==
  /\ request.op = "write"
  /\ request.arg \in 1..size
  /\ content' \in Seq(Values)
  /\ DOMAIN content \cup {request.arg} \subseteq DOMAIN content'
  /\ \A s \in DOMAIN content \ {request.arg} : content'[s] = content[s]
  /\ content'[request.arg] = request.value
  /\ Answers(Done)
  /\ UNCHANGED <<size, next>>

(* A format that fails may leave the sectors as they are, or none.          *)
Format(n) ==
  /\ content' \in {content, <<>>, [s \in 1..n |-> Blank]}
  /\ size' = n
  /\ next' = n
  /\ Answers(Done)

SetGeometry ==
  /\ next' = request.arg
  /\ UNCHANGED <<content, size>>

CarryOut ==
  /\ request # NoRequest
  /\ \/ Read \/ Write
     \/ request.op = "format" /\ Format(next)
     \/ request.op = "formatED" /\ Format(Enhanced)
     \/ request.op = "formatWith" /\ Format(request.arg)
     \/ request.op = "setPercom" /\ SetGeometry /\ Answers(Done)
     \/ request.op = "getPercom" /\ Answers(next) /\ UNCHANGED <<content, size, next>>
  /\ UNCHANGED <<request, told>>

(* A write-protected disk takes over the geometry of the format it denies.  *)
DenyFormat ==
  /\ request # NoRequest
  /\ request.op = "formatWith"
  /\ SetGeometry
  /\ UNCHANGED <<request, answers, told>>

Finish(outcome) ==
  /\ request # NoRequest
  /\ request' = NoRequest
  /\ answers' = {}
  /\ told' = outcome
  /\ UNCHANGED <<content, size, next>>

(* A later use of the drive that this disk has no part in.                  *)
Forget == told' = {} /\ UNCHANGED <<content, size, next, request, answers>>

Next == Ask \/ Forget \/ CarryOut \/ DenyFormat \/ Finish({}) \/ \E a \in answers : Finish({a})

Spec == Init /\ [][Next]_vars

=============================================================================
