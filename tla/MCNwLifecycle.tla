--------------------------- MODULE MCNwLifecycle ----------------------------
(* Instances of NwLifecycle for TLC: two threads with posts and a child,   *)
(* and one thread with the clock and the delayed doorbell.                 *)
EXTENDS NwLifecycle
CONSTANTS t1, t2
TwoThreads == [threads |-> {t1, t2}, delays |-> {}, refs |-> 3, posts |-> 2,
               rings |-> 0, kids |-> 1, time |-> 0]
Doorbell == [threads |-> {t1}, delays |-> {0, 1, 9}, refs |-> 2, posts |-> 0,
             rings |-> 2, kids |-> 0, time |-> 2]
MCLimits == {TwoThreads, Doorbell}
(* The end of a connection whose transport fails: one thread, no clock.    *)
Failing == [threads |-> {t1}, delays |-> {}, refs |-> 2, posts |-> 0,
            rings |-> 0, kids |-> 1, time |-> 0]
LateLimits == {Failing}
=============================================================================
