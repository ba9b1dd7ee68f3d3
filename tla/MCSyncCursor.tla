----------------------------- MODULE MCSyncCursor -----------------------------
(* Values for SyncCursor: two accounts. *)
EXTENDS SyncCursor

CONSTANTS a1, a2

MCOrder == <<a1, a2>>

=============================================================================
