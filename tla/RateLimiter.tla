---------------------------- MODULE RateLimiter ----------------------------
(***************************************************************************)
(* The sliding-window limiter of auth.py: for each actor a deque with the  *)
(* clock readings of its admitted calls for the minute window, another for *)
(* the day window.                                                         *)
(***************************************************************************)
EXTENDS Integers, Sequences

CONSTANTS
  Actor,  \* ids of the credentials
  Minute, \* 60 seconds
  Day     \* 86400 seconds

ASSUME WindowAssumption ==
  /\ Minute \in Nat
  /\ Day \in Nat

Limits  == [perMinute : Nat \ {0}, perDay : Nat \ {0}]
Window  == [Actor -> Seq(Nat)]
Limiter == [limits : Limits, minute : Window, day : Window]

NewLimiter(l) == [limits |-> l,
                  minute |-> [a \in Actor |-> <<>>],
                  day    |-> [a \in Actor |-> <<>>]]

\* Mutant: a reading as old as the window is long has left it.
InsideStrictly(q, span, now) == {k \in 1..Len(q) : now - q[k] < span}

\* popleft stops at the first reading inside the window, whatever follows it.
Inside(q, span, now) == {k \in 1..Len(q) : now - q[k] <= span}
Evict(q, span, now) ==
  IF Inside(q, span, now) = {} THEN <<>>
  ELSE SubSeq(q, CHOOSE k \in Inside(q, span, now) :
                   \A j \in Inside(q, span, now) : k <= j,
              Len(q))

\* The limiter once check has evicted for the actor.
Evicted(r, a, now) ==
  [r EXCEPT !.minute[a] = Evict(@, Minute, now),
            !.day[a]    = Evict(@, Day, now)]

Full(r, a) ==
  \/ Len(r.minute[a]) >= r.limits.perMinute
  \/ Len(r.day[a]) >= r.limits.perDay

Counted(r, a, now) ==
  [r EXCEPT !.minute[a] = Append(@, now), !.day[a] = Append(@, now)]

=============================================================================
