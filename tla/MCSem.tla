------------------------------- MODULE MCSem -------------------------------
(* Small instances of RtSem for TLC.                                        *)
EXTENDS RtSem
CONSTANTS lo, mid, hi, idle

MCThread == {lo, mid, hi, idle}
MCInitPrio == (lo :> 1) @@ (mid :> 1) @@ (hi :> 0) @@ (idle :> 3)
MCNewPrio == {}
=============================================================================
