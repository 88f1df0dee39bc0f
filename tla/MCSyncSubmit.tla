--------------------------- MODULE MCSyncSubmit ----------------------------
(* Small instances of SyncSubmit for TLC. *)
EXTENDS SyncSubmit

CONSTANTS r1, r2

MCReqsOne == {r1}
MCReqsTwo == {r1, r2}
=============================================================================
