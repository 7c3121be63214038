----------------------------- MODULE MCMailbox -----------------------------
(* Small instances of RtMailbox for TLC.                                    *)
EXTENDS RtMailbox
CONSTANTS lo, mid, hi, idle

MCThread == {lo, mid, hi, idle}
MCInitPrio == (lo :> 1) @@ (mid :> 1) @@ (hi :> 0) @@ (idle :> 3)
MCNewPrio == {}
=============================================================================
