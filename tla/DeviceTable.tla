---------------------------- MODULE DeviceTable ----------------------------
(***************************************************************************)
(* The device table of SioWorker (sioworker.cpp): SioWorker::devices, the  *)
(* m_deviceNo every SioDevice keeps about itself, and which SioDevice      *)
(* objects exist.  A table is a record, and every member function that     *)
(* changes it under deviceMutex is an operator from tables to tables, so   *)
(* that the calls they make to each other compose as they do in the code.  *)
(***************************************************************************)

CONSTANTS
  Slots,    \* the device numbers in use (0x31.. for the disk drives)
  Devices,  \* the SioDevice objects that may ever exist
  None      \* a null pointer in the table, and m_deviceNo = -1

ASSUME TableAssumption ==
  /\ None \notin Slots
  /\ None \notin Devices
  /\ Slots # {}

Tables ==
  [dev   : [Slots -> Devices \cup {None}],   \* SioWorker::devices
   num   : [Devices -> Slots \cup {None}],   \* SioDevice::m_deviceNo
   alive : SUBSET Devices]                   \* constructed, not yet deleted

(* SioWorker::SioWorker and SioDevice::SioDevice: no slot is taken.         *)
EmptyTable ==
  [dev   |-> [s \in Slots |-> None],
   num   |-> [d \in Devices |-> None],
   alive |-> {}]

WithAlive(t, ds) == [dev |-> t.dev, num |-> t.num, alive |-> ds]

Construct(t, d) == WithAlive(t, t.alive \cup {d})

(* Mutant: the device that leaves keeps its number.                         *)
UninstallKeepsNumber(t, s) ==
  [dev   |-> [t.dev EXCEPT ![s] = None],
   num   |-> t.num,
   alive |-> t.alive]

Uninstall(t, s) ==
  IF t.dev[s] = None
    THEN t
    ELSE [dev   |-> [t.dev EXCEPT ![s] = None],
          num   |-> [t.num EXCEPT ![t.dev[s]] = None],
          alive |-> t.alive]

(* ~SioDevice: an object that still has a number takes itself out.          *)
Unregister(t, d) ==
  IF t.num[d] = None THEN t ELSE Uninstall(t, t.num[d])

Delete(t, d) == Unregister(WithAlive(t, t.alive \ {d}), d)

(* An occupant of the slot is deleted, whatever it is.                      *)
Install(t, s, d) ==
  LET u == IF t.dev[s] = None THEN t ELSE Delete(t, t.dev[s])
  IN  [dev   |-> [u.dev EXCEPT ![s] = d],
       num   |-> [u.num EXCEPT ![d] = s],
       alive |-> u.alive]

Swap(t, a, b) ==
  LET u == Uninstall(Uninstall(t, a), b)
      v == IF t.dev[b] = None THEN u ELSE Install(u, a, t.dev[b])
  IN  IF t.dev[a] = None THEN v ELSE Install(v, b, t.dev[a])

(* The two directions of the association name the same pairs: a device is   *)
(* in the slot it believes to be in, and only there.                        *)
Agrees(t) ==
  /\ \A s \in Slots : t.dev[s] # None => t.num[t.dev[s]] = s
  /\ \A d \in Devices : t.num[d] # None => t.dev[t.num[d]] = d

Installed(t) == {d \in Devices : t.num[d] # None}

=============================================================================
