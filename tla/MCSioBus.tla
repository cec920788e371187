------------------------------ MODULE MCSioBus ------------------------------
(* Small instances of SioBus for TLC: devices and slots are model values.   *)
EXTENDS SioBus
=============================================================================
