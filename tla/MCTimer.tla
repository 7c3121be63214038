------------------------------ MODULE MCTimer ------------------------------
(* Small instances of RtTimer for TLC.                                      *)
EXTENDS RtTimer
CONSTANTS h1, h2, s1, s2, lo, hi, tt

MCInitTicks == [t \in Timer |-> IF t = s1 THEN {1, 2} ELSE {1}]
=============================================================================
