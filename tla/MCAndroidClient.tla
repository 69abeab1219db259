--------------------------- MODULE MCAndroidClient ---------------------------
(* Instances of AndroidClient for TLC; every constant is given in the .cfg. *)
EXTENDS AndroidClient

(* Bounds of android_sessions: one token expires at most; where two        *)
(* verifications have overlapped, the backend has given out one token or   *)
(* ticket and nothing was restarted, until the process is.                 *)
Bounds ==
    /\ Cardinality(backend.expired) <= 1
    /\ overlapped => backend.minted + backend.tickets <= 1 /\ restarts = 0
=============================================================================
