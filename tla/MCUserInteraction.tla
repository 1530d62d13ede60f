------------------------- MODULE MCUserInteraction -------------------------
(* Small instances of UserInteraction for TLC.                              *)
EXTENDS UserInteraction

CONSTANTS Casts,   \* sets of goroutines that are there together
          w1, w2, p1, s1, c1, c2

VARIABLE cast

\* Two workers, a worker and a long-poller, or a worker with two callers; a
\* subscription and a long-poller.
SmallCasts == {{w1, w2, c1}, {w1, p1, c1}, {w1, c1, c2}, {s1, p1, c1}}

\* Goroutines that are not in the cast never begin.
CastInit == cast \in Casts /\ Init
CastNext == /\ Next /\ UNCHANGED cast
            /\ \A g \in Procs \ cast : pc'[g] = "idle"
CastSpec == CastInit /\ [][CastNext]_<<vars, cast>> /\ Fairness
============================================================================
