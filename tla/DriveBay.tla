------------------------------ MODULE DriveBay ------------------------------
(***************************************************************************)
(* What the device table promises to the bus: a bay of drives, each empty  *)
(* or holding one image, and no image in two drives.  Drives are filled,   *)
(* emptied and exchanged only between two commands, so that the image that *)
(* serves a command sits in its drive from the first byte of the command   *)
(* to the last.                                                            *)
(***************************************************************************)
CONSTANTS Slots, Devices, None

VARIABLES
  bay,      \* the image in each drive
  serving   \* the image whose handler runs

vars == <<bay, serving>>

In(b) == {b[s] : s \in Slots} \ {None}

Init == bay = [s \in Slots |-> None] /\ serving = None

Insert(s, d) ==
  /\ serving = None
  /\ d \notin In(bay)
  /\ bay' = [bay EXCEPT ![s] = d]
  /\ UNCHANGED serving

Remove(s) ==
  /\ serving = None
  /\ bay' = [bay EXCEPT ![s] = None]
  /\ UNCHANGED serving

Exchange(a, b) ==
  /\ serving = None
  /\ bay' = [bay EXCEPT ![a] = bay[b], ![b] = bay[a]]
  /\ UNCHANGED serving

BeginCommand(d) ==
  /\ serving = None
  /\ d \in In(bay)
  /\ serving' = d
  /\ UNCHANGED bay

EndCommand ==
  /\ serving # None
  /\ serving' = None
  /\ UNCHANGED bay

Next ==
  \/ \E s \in Slots, d \in Devices : Insert(s, d)
  \/ \E s \in Slots : Remove(s)
  \/ \E a, b \in Slots : Exchange(a, b)
  \/ \E d \in Devices : BeginCommand(d)
  \/ EndCommand

Spec == Init /\ [][Next]_vars

=============================================================================
