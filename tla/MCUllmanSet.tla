---------------------------- MODULE MCUllmanSet -----------------------------
(* Model of UllmanSet with a capacity small enough for every history of    *)
(* stale entries, and large enough for a hole between two members.         *)
EXTENDS UllmanSet
=============================================================================
