----------------------------- MODULE MCMempool -----------------------------
(* Small instances of RtMempool for TLC.                                    *)
EXTENDS RtMempool
CONSTANTS lo, mid, hi, idle, b1, b2

MCThread == {lo, mid, hi, idle}
MCInitPrio == (lo :> 1) @@ (mid :> 1) @@ (hi :> 0) @@ (idle :> 3)
MCNewPrio == {}
=============================================================================
