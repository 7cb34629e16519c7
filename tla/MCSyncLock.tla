----------------------------- MODULE MCSyncLock -----------------------------
(* Instances of SyncLock for TLC.                                          *)
EXTENDS SyncLock
=============================================================================
