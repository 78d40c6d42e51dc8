----------------------------- MODULE MCDispatch -----------------------------
(* Values of the constants for TLC.                                        *)
EXTENDS Dispatch, TLC

\* The day is the tighter limit in the long run, the minute in the short.
Tight == {[perMinute |-> 1, perDay |-> 2]}
Loose == {[perMinute |-> 9, perDay |-> 9]}

\* Threads and credentials are interchangeable.
Symmetry == Permutations(Worker) \cup Permutations(Actor)

=============================================================================
