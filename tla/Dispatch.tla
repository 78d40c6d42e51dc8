------------------------------ MODULE Dispatch ------------------------------
(***************************************************************************)
(* call_tool of tools.py, the way every call of a tool takes: the freeze   *)
(* flag, the rate limiter, the handler, the audit log, the answer.         *)
(* Workers are threads.  Around them: the kill switch of the admin UI, a   *)
(* save of the policy, which puts a new limiter in place, and a restart of *)
(* the process at any point.                                               *)
(*                                                                         *)
(* What a handler does is ToolCalls; here it ends in one of three ways.    *)
(***************************************************************************)
EXTENDS RateLimiter, AuditLog, FiniteSets

CONSTANTS
  Worker,     \* threads that serve calls
  None,
  LimitsUsed, \* the limits of the policies the operator saves
  MaxTime,    \* BOUND: readings of the clock
  MaxCalls,   \* BOUND: calls
  MaxChanges, \* BOUND: freezes, policy saves and restarts together
  MaxFaults   \* BOUND: writes to the log that fail

ASSUME DispatchAssumption ==
  /\ None \notin Worker \cup Actor
  /\ LimitsUsed \in (SUBSET Limits) \ {{}}
  /\ {MaxTime, MaxCalls, MaxChanges, MaxFaults} \subseteq Nat

VARIABLES
  now,      \* time.time(), in a unit of its own
  frozen,   \* the file FROZEN exists
  limiters, \* the RateLimiters made so far; the last is ctx.ratelimiter
  file,     \* audit.log
  lastHash, \* AuditLog._last_hash
  lock,     \* the worker that holds AuditLog._lock
  call,     \* the calls in progress
  calls,    \* calls so far
  changes,  \* freezes, unfreezes, saves and restarts so far
  faults,   \* writes that failed so far
  stopped,  \* history: a freeze was acknowledged, and no unfreeze asked for since
  admitted, \* history: what the limiters let pass
  told,     \* history: the calls answered as their record says
  torn,     \* history: the log has ended in a line without end
  parted    \* history: a failed write has left memory and file apart

gate    == <<frozen, limiters>>
log     == <<file, lastHash, lock>>
bounds  == <<calls, changes, faults>>
history == <<stopped, admitted, told, torn, parted>>
vars    == <<now, gate, log, call, bounds, history>>

\* serial: the number of the call, and the hash of its audit record.  limiter,
\* reading: ctx.ratelimiter and the clock as check finds them.  written: the
\* record is in the file.  barred: history, the call came while stopped.
Quiet == [pc |-> "idle", serial |-> 0, actor |-> None, limiter |-> 0,
          reading |-> 0, written |-> FALSE, barred |-> FALSE]

Init ==
  /\ now = 0
  /\ frozen = FALSE
  /\ \E l \in LimitsUsed : limiters = <<NewLimiter(l)>>
  /\ file = Empty
  /\ lastHash = Genesis
  /\ lock = None
  /\ call = [w \in Worker |-> Quiet]
  /\ calls = 0 /\ changes = 0 /\ faults = 0
  /\ stopped = FALSE
  /\ admitted = <<>>
  /\ told = {}
  /\ torn = FALSE
  /\ parted = FALSE

----------------------------------------------------------------------------
\* The gates of a call.

\* Worker w goes on from pc as c.
Goes(w, pc, c) == call[w].pc = pc /\ call' = [call EXCEPT ![w] = c]

\* What is left of a call is its record: a denial, and why, or an allowance.
Decided(w) == [Quiet EXCEPT !.pc = "decided", !.serial = call[w].serial]

\* The playground of the admin UI calls with enforce_runtime=False; such a
\* call has no actor here, for the limiter never hears of it.
Arrive(w) ==
  /\ calls < MaxCalls
  /\ calls' = calls + 1
  /\ \E a \in Actor \cup {None} :
       Goes(w, "idle", [Quiet EXCEPT !.pc = "arrived", !.serial = calls + 1,
                                     !.actor = a, !.barred = stopped])
  /\ UNCHANGED <<now, gate, log, changes, faults, history>>

UnknownTool(w) ==
  /\ Goes(w, "arrived", Decided(w))
  /\ UNCHANGED <<now, gate, log, bounds, history>>

CheckFrozen(w) ==
  /\ \/ /\ call[w].actor = None
        /\ Goes(w, "arrived", [call[w] EXCEPT !.pc = "running"])
     \/ /\ call[w].actor # None
        /\ frozen
        /\ Goes(w, "arrived", Decided(w))
     \/ /\ call[w].actor # None
        /\ ~frozen
        /\ Goes(w, "arrived", [call[w] EXCEPT !.pc = "unfrozen"])
  /\ UNCHANGED <<now, gate, log, bounds, history>>

\* check reads the clock...
ReadClock(w) ==
  /\ Goes(w, "unfrozen", [call[w] EXCEPT !.pc = "timed", !.limiter = Len(limiters),
                                         !.reading = now])
  /\ UNCHANGED <<now, gate, log, bounds, history>>

Admission(c) == [limiter |-> c.limiter, actor |-> c.actor, read |-> c.reading, at |-> now]

\* Mutant: a call that is turned away is counted too.
CheckCountsAll(w) ==
  LET c == call[w]
      r == Evicted(limiters[c.limiter], c.actor, c.reading)
  IN
  /\ c.pc = "timed"
  /\ limiters' = [limiters EXCEPT ![c.limiter] = Counted(r, c.actor, c.reading)]
  /\ \/ /\ Full(r, c.actor)
        /\ Goes(w, "timed", [c EXCEPT !.pc = "turned_away"])
        /\ UNCHANGED admitted
     \/ /\ ~Full(r, c.actor)
        /\ Goes(w, "timed", [c EXCEPT !.pc = "running", !.limiter = 0, !.reading = 0])
        /\ admitted' = Append(admitted, Admission(c))
  /\ UNCHANGED <<now, frozen, log, bounds, stopped, told, torn, parted>>

\* ...and then takes the lock.
Check(w) ==
  LET c == call[w]
      r == Evicted(limiters[c.limiter], c.actor, c.reading)
  IN
  /\ c.pc = "timed"
  /\ \/ /\ Full(r, c.actor)
        /\ Goes(w, "timed", [c EXCEPT !.pc = "turned_away"])
        /\ limiters' = [limiters EXCEPT ![c.limiter] = r]
        /\ UNCHANGED admitted
     \/ /\ ~Full(r, c.actor)
        /\ Goes(w, "timed", [c EXCEPT !.pc = "running", !.limiter = 0, !.reading = 0])
        /\ limiters' = [limiters EXCEPT ![c.limiter] = Counted(r, c.actor, c.reading)]
        /\ admitted' = Append(admitted, Admission(c))
  /\ UNCHANGED <<now, frozen, log, bounds, stopped, told, torn, parted>>

\* The handler returns, raises a ProxyError, or raises something else.
Run(w) ==
  /\ Goes(w, "running", Decided(w))
  /\ UNCHANGED <<now, gate, log, bounds, history>>

----------------------------------------------------------------------------
\* The audit record, and the answer.

RecordOf(w) == [hash |-> call[w].serial, prev |-> lastHash]

\* Mutant: no lock.
SealUnlocked(w) ==
  /\ lock' = w
  /\ \E pc \in {"turned_away", "decided"} :
       Goes(w, pc, [Decided(w) EXCEPT !.pc = "sealed"])
  /\ UNCHANGED <<now, gate, file, lastHash, bounds, history>>

\* AuditLog.record takes the lock, makes the record from the last hash...
Seal(w) ==
  /\ lock = None
  /\ lock' = w
  /\ \E pc \in {"turned_away", "decided"} :
       Goes(w, pc, [Decided(w) EXCEPT !.pc = "sealed"])
  /\ UNCHANGED <<now, gate, file, lastHash, bounds, history>>

\* ...sets the last hash, and appends the line.
WriteRecord(w) ==
  /\ Goes(w, "sealed", [call[w] EXCEPT !.pc = "recorded", !.written = TRUE])
  /\ lock' = None
  /\ lastHash' = call[w].serial
  /\ file' = Write(file, RecordOf(w), TRUE)
  /\ UNCHANGED <<now, gate, bounds, history>>

\* Mutant: a record that cannot be written is passed over.
WriteFailsSilently(w) ==
  /\ faults < MaxFaults
  /\ faults' = faults + 1
  /\ Goes(w, "sealed", [call[w] EXCEPT !.pc = "recorded", !.written = TRUE])
  /\ lock' = None
  /\ lastHash' = call[w].serial
  /\ file' \in WriteInPart(file, RecordOf(w))
  /\ torn' = (torn \/ file'.torn)
  /\ parted' = TRUE
  /\ UNCHANGED <<now, gate, calls, changes, stopped, admitted, told>>

\* The disk is full: open or write raises.
WriteFails(w) ==
  /\ faults < MaxFaults
  /\ faults' = faults + 1
  /\ Goes(w, "sealed", [call[w] EXCEPT !.pc = "recorded"])
  /\ lock' = None
  /\ lastHash' = call[w].serial
  /\ file' \in WriteInPart(file, RecordOf(w))
  /\ torn' = (torn \/ file'.torn)
  /\ parted' = TRUE
  /\ UNCHANGED <<now, gate, calls, changes, stopped, admitted, told>>

\* An internal error, whatever was decided, when the record was not written.
Answer(w) ==
  /\ Goes(w, "recorded", Quiet)
  /\ told' = IF call[w].written THEN told \cup {call[w].serial} ELSE told
  /\ UNCHANGED <<now, gate, log, bounds, stopped, admitted, torn, parted>>

----------------------------------------------------------------------------
\* The operator, the clock, the end of the process.

Changes == changes < MaxChanges /\ changes' = changes + 1

Freeze ==
  /\ Changes
  /\ frozen' = TRUE
  /\ stopped' = TRUE
  /\ UNCHANGED <<now, limiters, log, call, calls, faults, admitted, told, torn, parted>>

\* The reason cannot be written; the file may be there all the same.
FreezeFails ==
  /\ Changes
  /\ frozen' \in {frozen, TRUE}
  /\ UNCHANGED <<now, limiters, log, call, calls, faults, history>>

Unfreeze ==
  /\ Changes
  /\ frozen' = FALSE
  /\ stopped' = FALSE
  /\ call' = [w \in Worker |-> [call[w] EXCEPT !.barred = FALSE]]
  /\ UNCHANGED <<now, limiters, log, calls, faults, admitted, told, torn, parted>>

\* reload_policy puts a new limiter in place of the old.
SavePolicy ==
  /\ Changes
  /\ \E l \in LimitsUsed : limiters' = Append(limiters, NewLimiter(l))
  /\ UNCHANGED <<now, frozen, log, call, calls, faults, history>>

Tick ==
  /\ now < MaxTime
  /\ now' = now + 1
  /\ UNCHANGED <<gate, log, call, bounds, history>>

\* What the end of the process makes of the log.
LeftBehind ==
  IF lock = None THEN {file}
  ELSE WriteInPart(file, RecordOf(lock)) \cup {Write(file, RecordOf(lock), TRUE)}

\* Mutant: the flag is kept in memory.
RestartUnfrozen ==
  /\ Changes
  /\ file' \in LeftBehind
  /\ lastHash' = Recover(file')
  /\ lock' = None
  /\ call' = [w \in Worker |-> Quiet]
  /\ frozen' = FALSE
  /\ limiters' = Append(limiters, NewLimiter(limiters[Len(limiters)].limits))
  /\ torn' = (torn \/ file'.torn)
  /\ UNCHANGED <<now, calls, faults, stopped, admitted, told, parted>>

\* Mutant: the chain starts anew.
RestartFromGenesis ==
  /\ Changes
  /\ file' \in LeftBehind
  /\ lastHash' = Genesis
  /\ lock' = None
  /\ call' = [w \in Worker |-> Quiet]
  /\ limiters' = Append(limiters, NewLimiter(limiters[Len(limiters)].limits))
  /\ torn' = (torn \/ file'.torn)
  /\ UNCHANGED <<now, frozen, calls, faults, stopped, admitted, told, parted>>

\* The process dies and build_context runs again.
Restart ==
  /\ Changes
  /\ file' \in LeftBehind
  /\ lastHash' = Recover(file')
  /\ lock' = None
  /\ call' = [w \in Worker |-> Quiet]
  /\ limiters' = Append(limiters, NewLimiter(limiters[Len(limiters)].limits))
  /\ torn' = (torn \/ file'.torn)
  /\ UNCHANGED <<now, frozen, calls, faults, stopped, admitted, told, parted>>

Step(w) ==
  \/ Arrive(w) \/ UnknownTool(w) \/ CheckFrozen(w) \/ ReadClock(w) \/ Check(w)
  \/ Run(w) \/ Seal(w) \/ WriteRecord(w) \/ WriteFails(w) \/ Answer(w)

Next ==
  \/ \E w \in Worker : Step(w)
  \/ Freeze \/ FreezeFails \/ Unfreeze \/ SavePolicy \/ Restart \/ Tick

Spec == Init /\ [][Next]_vars

----------------------------------------------------------------------------
\* Properties.

Call == [pc       : {"idle", "arrived", "unfrozen", "timed", "turned_away", "running",
                     "decided", "sealed", "recorded"},
         serial   : 0..MaxCalls,
         actor    : Actor \cup {None},
         limiter  : 0..Len(limiters),
         reading  : 0..now,
         written  : BOOLEAN,
         barred   : BOOLEAN]

\* The state has its type, one call at most is inside AuditLog.record, and no
\* two calls in progress share a number.
TypeOK ==
  /\ now \in 0..MaxTime
  /\ frozen \in BOOLEAN
  /\ limiters \in Seq(Limiter)
  /\ file \in File
  /\ lastHash \in 0..MaxCalls
  /\ lock \in Worker \cup {None}
  /\ call \in [Worker -> Call]
  /\ calls \in 0..MaxCalls
  /\ changes \in 0..MaxChanges
  /\ faults \in 0..MaxFaults
  /\ admitted \in Seq([limiter : 1..Len(limiters), actor : Actor,
                       read : 0..now, at : 0..now])
  /\ told \in SUBSET (1..calls)
  /\ {stopped, torn, parted} \subseteq BOOLEAN
  /\ \A w \in Worker : lock = w <=> call[w].pc = "sealed"
  /\ \A v, w \in Worker :
       v # w /\ call[v].serial = call[w].serial => call[v].serial = 0

\* Once the operator has seen the freeze succeed, no call of an agent that
\* comes later reaches its handler before the operator unfreezes, restarts
\* included.
FrozenStops ==
  \A w \in Worker :
    call[w].pc = "running" /\ call[w].actor # None => ~call[w].barred

\* The admissions of an actor by a limiter.
Of(l, a) == {n \in DOMAIN admitted : admitted[n].limiter = l /\ admitted[n].actor = a}

\* A check is prompt when the clock does not move between its reading and its lock.
Prompt(n) == admitted[n].read = admitted[n].at

\* No minute holds more prompt admissions of an actor by one limiter than
\* per_minute, and no day more than per_day, whatever the checks of other
\* threads that come late do to the deques in between.
RateBound ==
  \A l \in DOMAIN limiters, a \in Actor :
    LET N == {n \in Of(l, a) : Prompt(n)}
        Within(n, span) == {m \in N : admitted[m].at \in
                                        admitted[n].at..(admitted[n].at + span)}
    IN  \A n \in N :
          /\ Cardinality(Within(n, Minute)) <= limiters[l].limits.perMinute
          /\ Cardinality(Within(n, Day)) <= limiters[l].limits.perDay

\* A call is turned away only when its actor has used up a limit inside the
\* window, as long as no earlier check of that actor came late: what is
\* turned away does not count.
TurnedAwayOnlyWhenFull ==
  \A w \in Worker :
    LET c == call[w]
        Recent(span) == {n \in Of(c.limiter, c.actor) : c.reading - admitted[n].read <= span}
    IN
    /\ c.pc = "turned_away"
    /\ \A n \in Of(c.limiter, c.actor) : Prompt(n)
    => \/ Cardinality(Recent(Minute)) >= limiters[c.limiter].limits.perMinute
       \/ Cardinality(Recent(Day)) >= limiters[c.limiter].limits.perDay

\* Whoever was given a result or a reason finds the record of that call in the
\* log, through failed writes and restarts, unless the log once ended in a
\* torn line.
AnswersAreOnRecord == ~torn => told \subseteq OnRecord(file)

\* The chain verifies however the threads interleave and wherever the process
\* was restarted, as long as no write failed or was torn.
ChainIntact == ~torn /\ ~parted => VerifyChain(file)

\* audit.py: verify_chain confirms that no record was altered or removed.  Nobody
\* alters or removes one here, so it should confirm as long as each line is whole.
ChainVerifies == ~torn => VerifyChain(file)

=============================================================================
