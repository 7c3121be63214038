------------------------------ MODULE MCSched ------------------------------
(* Small instances of RtSched for TLC.                                      *)
EXTENDS RtSched
CONSTANTS m, a, b, idle

MCThread == {m, a, b, idle}
MCStatic == {m, b, idle}
MCCleanup == {m}
MCInitPrio == (m :> 1) @@ (a :> 0) @@ (b :> 2) @@ (idle :> 3)
MCNewPrio == {1}
=============================================================================
