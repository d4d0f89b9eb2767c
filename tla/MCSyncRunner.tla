---------------------------- MODULE MCSyncRunner ----------------------------
(* Small instances of SyncRunner.                                          *)
EXTENDS SyncRunner

CONSTANTS x1, x2, r1, r2
=============================================================================
