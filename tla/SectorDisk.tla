----------------------------- MODULE SectorDisk -----------------------------
(***************************************************************************)
(* What a drive promises to the Atari: one request at a time, carried out  *)
(* at one instant or refused.  A write changes the sector it names and no  *)
(* other, a read returns what that sector holds.                           *)
(***************************************************************************)
EXTENDS Naturals, Sequences

CONSTANTS
  Values,     \* what a sector may hold
  Blank,      \* what an unwritten sector holds
  Requests,   \* records [op, sector, value]
  NoRequest,
  NoAnswer

VARIABLES
  content,  \* the sectors of the disk
  request,  \* the request being served
  answer    \* the data of a read that has succeeded

vars == <<content, request, answer>>

Init ==
  /\ content \in Seq(Values)
  /\ request = NoRequest
  /\ answer = NoAnswer

Ask ==
  /\ request = NoRequest
  /\ request' \in Requests
  /\ answer' = NoAnswer
  /\ UNCHANGED content

(* A disk that a failed format has left short grows to the sector written.  *)
Grown(s) ==
  [i \in 1..(IF s > Len(content) THEN s ELSE Len(content)) |->
     IF i \in DOMAIN content THEN content[i] ELSE Blank]

Write ==
  /\ request # NoRequest
  /\ request.op = "write"
  /\ content' = [Grown(request.sector) EXCEPT ![request.sector] = request.value]
  /\ request' = NoRequest
  /\ UNCHANGED answer

Read ==
  /\ request # NoRequest
  /\ request.op = "read"
  /\ request.sector \in DOMAIN content
  /\ answer' = content[request.sector]
  /\ request' = NoRequest
  /\ UNCHANGED content

(* Formatting replaces the disk; a format that fails may leave it empty.    *)
Format ==
  /\ request # NoRequest
  /\ request.op = "format"
  /\ content' \in {<<>>, [i \in 1..request.sector |-> request.value]}
  /\ request' = NoRequest
  /\ UNCHANGED answer

Refuse ==
  /\ request # NoRequest
  /\ request' = NoRequest
  /\ UNCHANGED <<content, answer>>

Forget == answer' = NoAnswer /\ UNCHANGED <<content, request>>

(* The user edits the disk in the explorer, or reverts it to its file, but  *)
(* never during a request.                                                  *)
UserWrite ==
  /\ request = NoRequest
  /\ \E s \in DOMAIN content, v \in Values : content' = [content EXCEPT ![s] = v]
  /\ UNCHANGED <<request, answer>>

Reload ==
  /\ request = NoRequest
  /\ content' \in Seq(Values)
  /\ UNCHANGED <<request, answer>>

Next ==
  Ask \/ Write \/ Read \/ Format \/ Refuse \/ Forget \/ UserWrite \/ Reload

Spec == Init /\ [][Next]_vars

=============================================================================
