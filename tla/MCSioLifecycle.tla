--------------------------- MODULE MCSioLifecycle ---------------------------
(* Small instances of SioLifecycle for TLC.                                 *)
EXTENDS SioLifecycle

AllOps == AllUserOps
=============================================================================
