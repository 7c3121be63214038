------------------------------ MODULE MCMutex ------------------------------
(* Small instances of RtMutex for TLC.                                      *)
EXTENDS RtMutex
CONSTANTS lo, mid, hi, idle, m1, m2

MCThread == {lo, mid, hi, idle}
MCInitPrio == (lo :> 2) @@ (mid :> 1) @@ (hi :> 0) @@ (idle :> 3)
MCNewPrio == {}
=============================================================================
