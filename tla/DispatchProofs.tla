--------------------------- MODULE DispatchProofs ---------------------------
(***************************************************************************)
(* Proofs about Dispatch.tla, for any number of workers, actors, calls,    *)
(* faults, saves and restarts.                                             *)
(*                                                                         *)
(* Inv holds what a call carries to what it does next, the flag to the     *)
(* calls that came while it stood, and the log to what was written to it;  *)
(* RatesInv holds the deques of each limiter to the admissions they stand  *)
(* for.                                                                    *)
(***************************************************************************)
EXTENDS Dispatch, TLAPS, SequenceTheorems, FiniteSetTheorems, WellFoundedInduction

\* What a call carries fits what it does next.
CallOK(c) ==
  /\ c.pc # "idle" => c.serial \in 1..calls
  /\ c.pc = "idle" => c.serial = 0
  /\ c.pc \in {"unfrozen", "timed", "turned_away"} => c.actor \in Actor
  /\ c.pc \in {"timed", "turned_away"} => c.limiter \in 1..Len(limiters)
  /\ c.written => c.pc = "recorded"

CallsInv == \A w \in Worker : CallOK(call[w])

\* The hashes on record are those of calls there have been.
LinesInv ==
  /\ lastHash \in 0..calls
  /\ \A n \in 1..Len(file.lines) : file.lines[n].hash \in 0..calls

\* There is a limiter to check with.
LimitersInv == Len(limiters) > 0

\* A freeze that was acknowledged stands, and calls that came later pass no gate.
Behind == {"unfrozen", "timed", "turned_away", "running"}

BarredOK(c) == c.barred => stopped /\ (c.actor # None => c.pc \notin Behind)

FreezeInv ==
  /\ stopped => frozen
  /\ \A w \in Worker : BarredOK(call[w])

\* While the log was never torn, what is written is there to be read.
WrittenOK(c) == ~torn /\ c.pc = "recorded" /\ c.written => c.serial \in OnRecord(file)

RecordInv ==
  /\ ~torn => ~file.torn /\ told \subseteq OnRecord(file)
  /\ \A w \in Worker : WrittenOK(call[w])

\* The memory knows the end of the chain.
LastHash(f) == IF f.lines = <<>> THEN Genesis ELSE f.lines[Len(f.lines)].hash

ChainInv ==
  ~torn /\ ~parted => VerifyChain(file) /\ lastHash = LastHash(file)

\* Each prompt admission that is in the window has a place of its own in the
\* deque: what eviction takes too early is never one of these.
Live(l, a, span) == {n \in Of(l, a) : Prompt(n) /\ now <= admitted[n].at + span}

Kept(l, a, q, span) ==
  \E f \in [Live(l, a, span) -> 1..Len(q)] :
    /\ \A m, n \in Live(l, a, span) : f[m] = f[n] => m = n
    /\ \A n \in Live(l, a, span) : q[f[n]] = admitted[n].read

\* Each reading in the deque is that of an admission, in the order they came.
Stands(l, a, q) ==
  \E g \in [1..Len(q) -> Of(l, a)] :
    /\ \A j, k \in 1..Len(q) : j < k => g[j] < g[k]
    /\ \A k \in 1..Len(q) : q[k] = admitted[g[k]].read

DequeOK(l, a, q, span) == Kept(l, a, q, span) /\ Stands(l, a, q)

DequesInv ==
  \A l \in 1..Len(limiters), a \in Actor :
    /\ DequeOK(l, a, limiters[l].minute[a], Minute)
    /\ DequeOK(l, a, limiters[l].day[a], Day)

TimesInv == \A m, n \in 1..Len(admitted) : m < n => admitted[m].at <= admitted[n].at

Inv == TypeOK /\ CallsInv /\ LimitersInv /\ LinesInv /\ FreezeInv /\ RecordInv /\ ChainInv

LEMMA Numbers ==
  /\ MaxTime \in Nat /\ MaxCalls \in Nat /\ MaxChanges \in Nat /\ MaxFaults \in Nat
  /\ Minute \in Nat /\ Day \in Nat
BY DispatchAssumption, WindowAssumption

LEMMA NoneIsNobody == None \notin Worker /\ None \notin Actor
BY DispatchAssumption

----------------------------------------------------------------------------
\* The log.

LEMMA WriteType ==
  ASSUME NEW f \in File, NEW l \in Line, NEW end \in BOOLEAN, NEW N \in Nat,
         \A n \in 1..Len(f.lines) : f.lines[n].hash \in 0..N,
         l.hash \in 0..N
  PROVE  /\ Write(f, l, end) \in File
         /\ Write(f, l, end).torn = ~end
         /\ \A n \in 1..Len(Write(f, l, end).lines) : Write(f, l, end).lines[n].hash \in 0..N
<1>. DEFINE cut == [f.lines EXCEPT ![Len(f.lines)] = Garbage]
            app == Append(f.lines, l)
<1>1. f.lines \in Seq(Line) /\ Garbage \in Line /\ Garbage.hash = 0
  BY DEF File, Line, Garbage
<1>2. cut \in Seq(Line) /\ Len(cut) = Len(f.lines)
      /\ \A n \in 1..Len(cut) : cut[n].hash \in 0..N
  <2>1. CASE Len(f.lines) = 0
    <3>1. f.lines = <<>>
      BY <1>1, <2>1, EmptySeq
    <3>2. cut = <<>>
      BY <3>1
    <3>. QED  BY <1>1, <3>1, <3>2
  <2>2. CASE Len(f.lines) # 0
    <3>1. Len(f.lines) \in 1..Len(f.lines)
      BY <1>1, <2>2
    <3>2. /\ cut \in Seq(Line) /\ Len(cut) = Len(f.lines)
          /\ \A j \in 1..Len(f.lines) :
               cut[j] = IF j = Len(f.lines) THEN Garbage ELSE f.lines[j]
      BY <1>1, <3>1, ExceptSeq
    <3>. HIDE DEF cut
    <3>. QED  BY <1>1, <3>2
  <2>. QED  BY <2>1, <2>2
<1>3. app \in Seq(Line) /\ \A n \in 1..Len(app) : app[n].hash \in 0..N
  BY <1>1
<1>. HIDE DEF cut, app
<1>4. Write(f, l, end) = [lines |-> IF f.torn THEN cut ELSE app, torn |-> ~end]
  BY DEF Write, cut, app
<1>. QED  BY <1>2, <1>3, <1>4 DEF File

\* The line goes to the end of a log that is whole.
LEMMA WriteWhole ==
  ASSUME NEW f \in File, ~f.torn, NEW l \in Record
  PROVE  LET g == Write(f, l, TRUE) IN
         /\ g.lines = Append(f.lines, l) /\ ~g.torn
         /\ OnRecord(g) = OnRecord(f) \cup {l.hash}
         /\ LastHash(g) = l.hash
         /\ VerifyChain(f) /\ l.prev = LastHash(f) => VerifyChain(g)
<1>. DEFINE g == Write(f, l, TRUE)
<1>1. g = [lines |-> Append(f.lines, l), torn |-> FALSE]
  BY DEF Write
<1>2. f.lines \in Seq(Line) /\ l \in Line
  BY DEF File, Line
<1>. HIDE DEF g
<1>3. g.lines = Append(f.lines, l) /\ ~g.torn
  BY <1>1, Zenon
<1>4. /\ Append(f.lines, l) \in Seq(Line)
      /\ Len(Append(f.lines, l)) = Len(f.lines) + 1
      /\ \A n \in 1..Len(f.lines) : Append(f.lines, l)[n] = f.lines[n]
      /\ Append(f.lines, l)[Len(f.lines) + 1] = l
  BY <1>2, AppendProperties
<1>5. /\ g.lines \in Seq(Line) /\ Len(g.lines) = Len(f.lines) + 1
      /\ g.lines[Len(f.lines) + 1] = l
      /\ \A n \in 1..Len(f.lines) : g.lines[n] = f.lines[n]
      /\ DOMAIN g.lines = 1..(Len(f.lines) + 1) /\ DOMAIN f.lines = 1..Len(f.lines)
      /\ Len(f.lines) \in Nat
  BY <1>2, <1>3, <1>4
<1>6. OnRecord(g) = OnRecord(f) \cup {l.hash}
  BY <1>5 DEF OnRecord
<1>7. LastHash(g) = l.hash
  BY <1>5 DEF LastHash
<1>8. ASSUME VerifyChain(f), l.prev = LastHash(f)
      PROVE  VerifyChain(g)
  <2>. SUFFICES ASSUME NEW n \in 1..(Len(f.lines) + 1)
                PROVE  /\ Readable(g.lines[n])
                       /\ g.lines[n].prev = IF n = 1 THEN Genesis ELSE g.lines[n - 1].hash
    BY <1>5 DEF VerifyChain
  <2>1. CASE n = Len(f.lines) + 1
    <3>1. Readable(l)
      BY DEF Readable, Record
    <3>2. f.lines = <<>> <=> Len(f.lines) = 0
      BY <1>2
    <3>. QED  BY <1>5, <1>8, <2>1, <3>1, <3>2 DEF LastHash
  <2>2. CASE n # Len(f.lines) + 1
    <3>1. n \in 1..Len(f.lines)
      BY <1>5, <2>2
    <3>2. /\ Readable(f.lines[n])
          /\ f.lines[n].prev = IF n = 1 THEN Genesis ELSE f.lines[n - 1].hash
      BY <1>5, <1>8, <3>1 DEF VerifyChain
    <3>3. n # 1 => n - 1 \in 1..Len(f.lines)
      BY <1>5, <3>1
    <3>. QED  BY <1>5, <3>1, <3>2, <3>3
  <2>. QED  BY <2>1, <2>2
<1>. QED  BY <1>3, <1>6, <1>7, <1>8 DEF g

\* A set of natural numbers has a least one: the intervals 1..n are well-founded.
LEMMA Least ==
  ASSUME NEW S \in SUBSET Nat, S # {}
  PROVE  \E n \in S : \A m \in S : n <= m
<1>. DEFINE T == {1..n : n \in S}
<1>1. T \subseteq FiniteSubsetsOf(Nat) /\ T # {}
  <2>1. \A n \in S : 1..n \subseteq Nat /\ IsFiniteSet(1..n)
    BY FS_Interval
  <2>. QED  BY <2>1 DEF FiniteSubsetsOf
<1>2. PICK X \in T : \A Y \in T : <<Y, X>> \notin StrictSubsetOrdering(Nat)
  <2>. HIDE DEF T
  <2>. QED  BY <1>1, WFMin, FS_StrictSubsetOrderingWellFounded
<1>3. PICK n \in S : X = 1..n
  OBVIOUS
<1>4. ASSUME NEW m \in S, m < n PROVE FALSE
  <2>1. 1..m \in T /\ 1..m \subseteq Nat /\ 1..n \subseteq Nat
    OBVIOUS
  <2>2. n \in 1..n /\ n \notin 1..m
    BY <1>4
  <2>3. 1..m \subseteq 1..n
    BY <1>4
  <2>4. <<1..m, X>> \in StrictSubsetOrdering(Nat)
    BY <1>3, <2>1, <2>2, <2>3 DEF StrictSubsetOrdering
  <2>. QED  BY <1>2, <2>1, <2>4
<1>. QED  BY <1>4

\* A set of line numbers has a last one.
LEMMA LastOf ==
  ASSUME NEW N \in Nat, NEW S \in SUBSET (1..N), S # {}
  PROVE  \E n \in S : \A m \in S : m <= n
<1>. DEFINE T == {N - n : n \in S}
<1>1. T \in SUBSET Nat /\ T # {}
  <2>1. \A n \in S : n \in Int /\ 1 <= n /\ n <= N
    OBVIOUS
  <2>2. \A n \in S : N - n \in Nat
    BY <2>1
  <2>. QED  BY <2>2
<1>2. PICK t \in T : \A u \in T : t <= u
  <2>. HIDE DEF T
  <2>. QED  BY <1>1, Least
<1>3. PICK n \in S : t = N - n
  OBVIOUS
<1>4. ASSUME NEW m \in S PROVE m <= n
  <2>1. N - m \in T /\ N - n \in T
    OBVIOUS
  <2>2. N - n <= N - m
    BY <1>2, <1>3, <2>1
  <2>3. n \in 1..N /\ m \in 1..N
    OBVIOUS
  <2>. HIDE DEF T
  <2>. QED  BY <2>2, <2>3
<1>. QED  BY <1>4

LEMMA RecoverType ==
  ASSUME NEW f \in File, NEW N \in Nat,
         \A n \in 1..Len(f.lines) : f.lines[n].hash \in 0..N
  PROVE  /\ Recover(f) \in 0..N
         /\ VerifyChain(f) => Recover(f) = LastHash(f)
<1>. DEFINE seen == {n \in DOMAIN f.lines : Readable(f.lines[n])}
            last == CHOOSE n \in seen : \A m \in seen : m <= n
<1>1. DOMAIN f.lines = 1..Len(f.lines) /\ Len(f.lines) \in Nat
      /\ (f.lines = <<>> <=> Len(f.lines) = 0)
  BY DEF File
<1>2. seen # {} => last \in seen /\ \A m \in seen : m <= last
  <2>. HIDE DEF seen
  <2>1. seen \in SUBSET (1..Len(f.lines))
    BY <1>1 DEF seen
  <2>2. seen # {} => \E n \in seen : \A m \in seen : m <= n
    BY <1>1, <2>1, LastOf
  <2>. QED  BY <2>2
<1>3. Recover(f) = IF seen = {} THEN Genesis ELSE f.lines[last].hash
  BY DEF Recover
<1>4. VerifyChain(f) => seen = 1..Len(f.lines)
  BY <1>1 DEF VerifyChain
<1>5. seen \subseteq 1..Len(f.lines)
  BY <1>1
<1>. HIDE DEF seen, last
<1>6. Recover(f) \in 0..N
  BY <1>2, <1>3, <1>5 DEF Genesis
<1>7. ASSUME VerifyChain(f) PROVE Recover(f) = LastHash(f)
  <2>1. CASE Len(f.lines) = 0
    BY <1>1, <1>3, <1>4, <1>7, <2>1 DEF LastHash
  <2>2. CASE Len(f.lines) # 0
    <3>1. Len(f.lines) \in seen
      BY <1>1, <1>4, <1>7, <2>2
    <3>2. last \in 1..Len(f.lines) /\ Len(f.lines) <= last
      BY <1>2, <1>5, <3>1
    <3>3. last = Len(f.lines)
      BY <1>1, <3>2
    <3>. QED  BY <1>1, <1>3, <2>2, <3>1, <3>3 DEF LastHash
  <2>. QED  BY <2>1, <2>2
<1>. QED  BY <1>6, <1>7

----------------------------------------------------------------------------
\* The calls.

\* A step of one worker, which makes c of its call.
LEMMA OneCall ==
  ASSUME TypeOK, CallsInv, FreezeInv, RecordInv,
         NEW w \in Worker, NEW c \in Call,
         call' = [call EXCEPT ![w] = c],
         CallOK(c)', BarredOK(c)', WrittenOK(c)',
         c.serial \in {0, call[w].serial, calls + 1},
         Call' = Call, Len(limiters') = Len(limiters), calls' \in {calls, calls + 1},
         stopped' = stopped, ~torn' => ~torn /\ OnRecord(file) \subseteq OnRecord(file)',
         c.pc = "sealed" => lock = None,
         lock' = IF c.pc = "sealed" THEN w
                 ELSE IF call[w].pc = "sealed" THEN None ELSE lock
  PROVE  /\ (call \in [Worker -> Call])'
         /\ (lock \in Worker \cup {None})'
         /\ (\A v \in Worker : lock = v <=> call[v].pc = "sealed")'
         /\ (\A u, v \in Worker :
               u # v /\ call[u].serial = call[v].serial => call[u].serial = 0)'
         /\ CallsInv'
         /\ (\A v \in Worker : BarredOK(call[v]))'
         /\ (\A v \in Worker : WrittenOK(call[v]))'
<1>1. /\ call \in [Worker -> Call] /\ lock \in Worker \cup {None} /\ calls \in Nat
      /\ \A v \in Worker : lock = v <=> call[v].pc = "sealed"
      /\ \A u, v \in Worker :
           u # v /\ call[u].serial = call[v].serial => call[u].serial = 0
  BY Numbers DEF TypeOK
<1>2. call'[w] = c /\ \A v \in Worker : v # w => call'[v] = call[v]
  BY <1>1
<1>3. (call \in [Worker -> Call])'
  BY <1>1
<1>4. (lock \in Worker \cup {None})' /\ (\A v \in Worker : lock = v <=> call[v].pc = "sealed")'
  BY <1>1, <1>2, NoneIsNobody
<1>5. \A v \in Worker : call[v].serial \in 0..calls
  BY <1>1 DEF CallsInv, CallOK
<1>6. (\A u, v \in Worker :
         u # v /\ call[u].serial = call[v].serial => call[u].serial = 0)'
  <2>. SUFFICES ASSUME NEW u \in Worker, NEW v \in Worker,
                       u # v, call'[u].serial = call'[v].serial
                PROVE  call'[u].serial = 0
    OBVIOUS
  <2>. QED  BY <1>1, <1>2, <1>5
<1>7. CallsInv'
  <2>. SUFFICES ASSUME NEW v \in Worker PROVE CallOK(call[v])'
    BY DEF CallsInv
  <2>1. CASE v = w
    BY <1>2, <2>1 DEF CallOK
  <2>2. CASE v # w
    BY <1>1, <1>2, <2>2 DEF CallsInv, CallOK
  <2>. QED  BY <2>1, <2>2
<1>8. (\A v \in Worker : BarredOK(call[v]))'
  <2>. SUFFICES ASSUME NEW v \in Worker PROVE BarredOK(call[v])'
    OBVIOUS
  <2>1. CASE v = w
    BY <1>2, <2>1 DEF BarredOK
  <2>2. CASE v # w
    BY <1>2, <2>2 DEF FreezeInv, BarredOK
  <2>. QED  BY <2>1, <2>2
<1>9. (\A v \in Worker : WrittenOK(call[v]))'
  <2>. SUFFICES ASSUME NEW v \in Worker PROVE WrittenOK(call[v])'
    OBVIOUS
  <2>1. CASE v = w
    BY <1>2, <2>1 DEF WrittenOK
  <2>2. CASE v # w
    BY <1>2, <2>2 DEF RecordInv, WrittenOK
  <2>. QED  BY <2>1, <2>2
<1>. QED  BY <1>3, <1>4, <1>6, <1>7, <1>8, <1>9

\* A step of one worker that changes its call, and perhaps lock and told.
LEMMA Onward ==
  ASSUME Inv, NEW w \in Worker, NEW c \in Call,
         call' = [call EXCEPT ![w] = c],
         CallOK(c), BarredOK(c), WrittenOK(c), c.serial \in {0, call[w].serial},
         UNCHANGED <<now, gate, file, lastHash, bounds, stopped, admitted, torn, parted>>,
         c.pc = "sealed" => lock = None,
         lock' = IF c.pc = "sealed" THEN w
                 ELSE IF call[w].pc = "sealed" THEN None ELSE lock,
         told' \in SUBSET (1..calls), ~torn => told' \subseteq OnRecord(file)
  PROVE  Inv'
<1>. USE DEF gate, bounds
<1>1. TypeOK /\ CallsInv /\ LimitersInv /\ LinesInv /\ FreezeInv /\ RecordInv /\ ChainInv
  BY DEF Inv
<1>2. Call' = Call /\ CallOK(c)' /\ BarredOK(c)' /\ WrittenOK(c)'
  BY DEF Call, CallOK, BarredOK, WrittenOK
<1>3. OnRecord(file) \subseteq OnRecord(file)' /\ OnRecord(file)' = OnRecord(file)
  OBVIOUS
<1>4. /\ (call \in [Worker -> Call])'
      /\ (lock \in Worker \cup {None})'
      /\ (\A v \in Worker : lock = v <=> call[v].pc = "sealed")'
      /\ (\A u, v \in Worker :
            u # v /\ call[u].serial = call[v].serial => call[u].serial = 0)'
      /\ CallsInv'
      /\ (\A v \in Worker : BarredOK(call[v]))'
      /\ (\A v \in Worker : WrittenOK(call[v]))'
  <2>1. /\ c.serial \in {0, call[w].serial, calls + 1} /\ Len(limiters') = Len(limiters)
        /\ calls' \in {calls, calls + 1} /\ stopped' = stopped
        /\ (~torn' => ~torn /\ OnRecord(file) \subseteq OnRecord(file)')
    BY <1>3
  <2>. QED  BY <1>1, <1>2, <2>1, OneCall
<1>5. TypeOK'
  BY <1>1, <1>4 DEF TypeOK
<1>6. LinesInv' /\ LimitersInv'
  BY <1>1 DEF LinesInv, LimitersInv
<1>7. FreezeInv'
  BY <1>1, <1>4 DEF FreezeInv
<1>8. RecordInv'
  BY <1>1, <1>3, <1>4 DEF RecordInv
<1>9. ChainInv'
  BY <1>1 DEF ChainInv, VerifyChain, LastHash
<1>. QED  BY <1>4, <1>5, <1>6, <1>7, <1>8, <1>9 DEF Inv

\* What the fields of a call may hold.
LEMMA CallType ==
  ASSUME TypeOK, CallsInv, NEW w \in Worker
  PROVE  /\ call[w] \in Call /\ CallOK(call[w])
         /\ Quiet \in Call /\ CallOK(Quiet)
         /\ Decided(w) \in Call
         /\ Decided(w) = [pc |-> "decided", serial |-> call[w].serial, actor |-> None,
                          limiter |-> 0, reading |-> 0, written |-> FALSE, barred |-> FALSE]
<1>1. /\ call \in [Worker -> Call] /\ CallOK(call[w])
      /\ 0 \in 0..Len(limiters) /\ 0 \in 0..now /\ 0 \in 0..MaxCalls
  BY Numbers DEF TypeOK, CallsInv
<1>2. call[w] \in Call /\ call[w].serial \in 0..MaxCalls
  BY <1>1 DEF Call
<1>3. Quiet \in Call /\ CallOK(Quiet)
  BY <1>1 DEF Call, Quiet, CallOK
<1>4. PICK d : d = [Quiet EXCEPT !.pc = "decided"]
  OBVIOUS
<1>5. d = [pc |-> "decided", serial |-> 0, actor |-> None,
           limiter |-> 0, reading |-> 0, written |-> FALSE, barred |-> FALSE]
  BY <1>4 DEF Quiet
<1>6. Decided(w) = [d EXCEPT !.serial = call[w].serial]
  BY <1>4 DEF Decided
<1>7. Decided(w) = [pc |-> "decided", serial |-> call[w].serial, actor |-> None,
                    limiter |-> 0, reading |-> 0, written |-> FALSE, barred |-> FALSE]
  BY <1>5, <1>6
<1>8. Decided(w) \in Call
  BY <1>1, <1>2, <1>7 DEF Call
<1>. QED  BY <1>1, <1>2, <1>3, <1>7, <1>8

----------------------------------------------------------------------------
\* The steps of a worker.

\* A step that changes nothing but the call, outside AuditLog.record.
LEMMA Passed ==
  ASSUME Inv, NEW w \in Worker, NEW c \in Call,
         call' = [call EXCEPT ![w] = c],
         CallOK(c), BarredOK(c), WrittenOK(c), c.serial = call[w].serial,
         c.pc # "sealed", call[w].pc # "sealed",
         UNCHANGED <<now, gate, log, bounds, history>>
  PROVE  Inv'
<1>1. told' \in SUBSET (1..calls) /\ (~torn => told' \subseteq OnRecord(file))
  BY DEF Inv, TypeOK, RecordInv, history
<1>. QED  BY <1>1, Onward DEF log, history

\* The same, when the call is decided.
LEMMA Settled ==
  ASSUME Inv, NEW w \in Worker, NEW c \in Call,
         call' = [call EXCEPT ![w] = c],
         c.pc = "decided", ~c.barred, ~c.written,
         c.serial = call[w].serial, c.serial \in 1..calls,
         call[w].pc # "sealed",
         UNCHANGED <<now, gate, log, bounds, history>>
  PROVE  Inv'
<1>1. CallOK(c) /\ BarredOK(c) /\ WrittenOK(c)
  BY DEF CallOK, BarredOK, WrittenOK
<1>. QED  BY <1>1, Passed

LEMMA UnknownToolInv == ASSUME Inv, NEW w \in Worker, UnknownTool(w) PROVE Inv'
<1>1. PICK c : c = Decided(w)
  OBVIOUS
<1>2. call[w].pc = "arrived" /\ call' = [call EXCEPT ![w] = c]
      /\ UNCHANGED <<now, gate, log, bounds, history>>
  BY <1>1 DEF UnknownTool, Goes
<1>3. /\ c \in Call /\ c.serial = call[w].serial /\ c.serial \in 1..calls
      /\ c.pc = "decided" /\ ~c.barred /\ ~c.written
  BY <1>1, <1>2, CallType DEF Inv, CallOK
<1>. QED  BY <1>2, <1>3, Settled

LEMMA CheckFrozenInv == ASSUME Inv, NEW w \in Worker, CheckFrozen(w) PROVE Inv'
<1>. DEFINE ran == [call[w] EXCEPT !.pc = "running"]
            on  == [call[w] EXCEPT !.pc = "unfrozen"]
<1>1. /\ call[w].pc = "arrived" /\ UNCHANGED <<now, gate, log, bounds, history>>
      /\ \/ call[w].actor = None /\ call' = [call EXCEPT ![w] = ran]
         \/ call' = [call EXCEPT ![w] = Decided(w)]
         \/ call[w].actor # None /\ ~frozen /\ call' = [call EXCEPT ![w] = on]
  BY DEF CheckFrozen, Goes
<1>2. /\ call[w] \in Call /\ call[w].serial \in 1..calls /\ BarredOK(call[w])
      /\ ~call[w].written /\ (stopped => frozen) /\ call[w].actor \in Actor \cup {None}
  BY <1>1, CallType DEF Inv, CallOK, FreezeInv, Call
<1>3. CASE call' = [call EXCEPT ![w] = Decided(w)]
  <2>1. PICK c : c = Decided(w)
    OBVIOUS
  <2>2. /\ c \in Call /\ c.serial = call[w].serial /\ c.serial \in 1..calls
        /\ c.pc = "decided" /\ ~c.barred /\ ~c.written
    BY <1>2, <2>1, CallType DEF Inv
  <2>. QED  BY <1>1, <1>3, <2>1, <2>2, Settled
<1>4. CASE call[w].actor = None /\ call' = [call EXCEPT ![w] = ran]
  <2>1. PICK c : c = ran
    OBVIOUS
  <2>2. /\ c \in Call /\ c.serial = call[w].serial /\ c.pc = "running"
        /\ c.actor = None /\ c.barred = call[w].barred /\ ~c.written
    BY <1>2, <1>4, <2>1 DEF Call
  <2>3. CallOK(c) /\ BarredOK(c) /\ WrittenOK(c)
    BY <1>2, <2>2 DEF CallOK, BarredOK, WrittenOK
  <2>. QED  BY <1>1, <1>4, <2>1, <2>2, <2>3, Passed
<1>5. CASE call[w].actor # None /\ ~frozen /\ call' = [call EXCEPT ![w] = on]
  <2>1. PICK c : c = on
    OBVIOUS
  <2>2. /\ c \in Call /\ c.serial = call[w].serial /\ c.pc = "unfrozen"
        /\ c.actor \in Actor /\ c.barred = call[w].barred /\ ~c.written
    BY <1>2, <1>5, <2>1 DEF Call
  <2>3. CallOK(c) /\ BarredOK(c) /\ WrittenOK(c)
    BY <1>2, <1>5, <2>2 DEF CallOK, BarredOK, WrittenOK
  <2>. QED  BY <1>1, <1>5, <2>1, <2>2, <2>3, Passed
<1>. QED  BY <1>1, <1>3, <1>4, <1>5

LEMMA ReadClockInv == ASSUME Inv, NEW w \in Worker, ReadClock(w) PROVE Inv'
<1>1. PICK c : c = [call[w] EXCEPT !.pc = "timed", !.limiter = Len(limiters), !.reading = now]
  OBVIOUS
<1>2. call[w].pc = "unfrozen" /\ call' = [call EXCEPT ![w] = c]
      /\ UNCHANGED <<now, gate, log, bounds, history>>
  BY <1>1 DEF ReadClock, Goes
<1>3. /\ call[w] \in Call /\ call[w].serial \in 1..calls /\ BarredOK(call[w])
      /\ ~call[w].written /\ call[w].actor \in Actor /\ now \in Nat /\ Len(limiters) \in Nat \ {0}
  BY <1>2, CallType, Numbers DEF Inv, CallOK, FreezeInv, TypeOK, LimitersInv
<1>4. /\ c \in Call /\ c.serial = call[w].serial /\ c.pc = "timed" /\ c.barred = call[w].barred
      /\ c.actor = call[w].actor /\ c.limiter = Len(limiters) /\ ~c.written
  <2>1. PICK d : d = [call[w] EXCEPT !.pc = "timed"]
    OBVIOUS
  <2>2. PICK e : e = [d EXCEPT !.limiter = Len(limiters)]
    OBVIOUS
  <2>3. c = [e EXCEPT !.reading = now]
    BY <1>1, <2>1, <2>2
  <2>4. d \in Call /\ d.pc = "timed" /\ d.serial = call[w].serial
        /\ d.barred = call[w].barred /\ d.actor = call[w].actor /\ ~d.written
    BY <1>3, <2>1 DEF Call
  <2>5. e \in Call /\ e.pc = d.pc /\ e.serial = d.serial
        /\ e.barred = d.barred /\ e.actor = d.actor /\ e.limiter = Len(limiters) /\ ~e.written
    BY <1>3, <2>2, <2>4 DEF Call
  <2>. QED  BY <1>3, <2>3, <2>4, <2>5 DEF Call
<1>5. CallOK(c) /\ BarredOK(c) /\ WrittenOK(c)
  BY <1>2, <1>3, <1>4 DEF CallOK, BarredOK, WrittenOK, Behind
<1>. QED  BY <1>2, <1>4, <1>5, Passed

LEMMA RunInv == ASSUME Inv, NEW w \in Worker, Run(w) PROVE Inv'
<1>1. PICK c : c = Decided(w)
  OBVIOUS
<1>2. call[w].pc = "running" /\ call' = [call EXCEPT ![w] = c]
      /\ UNCHANGED <<now, gate, log, bounds, history>>
  BY <1>1 DEF Run, Goes
<1>3. /\ c \in Call /\ c.serial = call[w].serial /\ c.serial \in 1..calls
      /\ c.pc = "decided" /\ ~c.barred /\ ~c.written
  BY <1>1, <1>2, CallType DEF Inv, CallOK
<1>. QED  BY <1>2, <1>3, Settled

LEMMA SealInv == ASSUME Inv, NEW w \in Worker, Seal(w) PROVE Inv'
<1>1. PICK c : c = [Decided(w) EXCEPT !.pc = "sealed"]
  OBVIOUS
<1>2. /\ call[w].pc \in {"turned_away", "decided"} /\ call' = [call EXCEPT ![w] = c]
      /\ lock = None /\ lock' = w
      /\ UNCHANGED <<now, gate, file, lastHash, bounds, history>>
  BY <1>1 DEF Seal, Goes
<1>3. Decided(w) \in Call /\ Decided(w).serial = call[w].serial
      /\ call[w].serial \in 1..calls /\ ~Decided(w).barred /\ ~Decided(w).written
  BY <1>2, CallType DEF Inv, CallOK
<1>4. c \in Call /\ c.serial = call[w].serial /\ c.pc = "sealed" /\ ~c.barred /\ ~c.written
  BY <1>1, <1>3 DEF Call
<1>5. CallOK(c) /\ BarredOK(c) /\ WrittenOK(c)
  BY <1>3, <1>4 DEF CallOK, BarredOK, WrittenOK
<1>6. told' \in SUBSET (1..calls) /\ (~torn => told' \subseteq OnRecord(file))
  BY <1>2 DEF Inv, TypeOK, RecordInv, history
<1>. QED  BY <1>2, <1>4, <1>5, <1>6, Onward DEF history

LEMMA AnswerInv == ASSUME Inv, NEW w \in Worker, Answer(w) PROVE Inv'
<1>1. PICK c : c = Quiet
  OBVIOUS
<1>2. /\ call[w].pc = "recorded" /\ call' = [call EXCEPT ![w] = c]
      /\ told' = IF call[w].written THEN told \cup {call[w].serial} ELSE told
      /\ UNCHANGED <<now, gate, log, bounds, stopped, admitted, torn, parted>>
  BY <1>1 DEF Answer, Goes
<1>3. c \in Call /\ c.serial = 0 /\ c.pc = "idle" /\ ~c.barred /\ CallOK(c)
  BY <1>1, CallType DEF Inv, Quiet
<1>4. BarredOK(c) /\ WrittenOK(c)
  BY <1>3 DEF BarredOK, WrittenOK
<1>5. told' \in SUBSET (1..calls) /\ (~torn => told' \subseteq OnRecord(file))
  <2>1. call[w].serial \in 1..calls /\ told \in SUBSET (1..calls) /\ WrittenOK(call[w])
        /\ (~torn => told \subseteq OnRecord(file))
    BY <1>2, CallType DEF Inv, TypeOK, RecordInv, CallOK
  <2>. QED  BY <1>2, <2>1 DEF WrittenOK
<1>6. lock' = lock /\ (call[w].pc # "sealed")
  BY <1>2 DEF log
<1>. QED  BY <1>2, <1>3, <1>4, <1>5, <1>6, Onward DEF log

LEMMA ArriveInv == ASSUME Inv, NEW w \in Worker, Arrive(w) PROVE Inv'
<1>1. /\ call[w].pc = "idle" /\ calls < MaxCalls /\ calls' = calls + 1
      /\ UNCHANGED <<now, gate, log, changes, faults, history>>
  BY DEF Arrive, Goes
<1>2. PICK a \in Actor \cup {None} :
        call' = [call EXCEPT ![w] = [Quiet EXCEPT !.pc = "arrived", !.serial = calls + 1,
                                                  !.actor = a, !.barred = stopped]]
  BY DEF Arrive, Goes
<1>3. PICK c : c = [Quiet EXCEPT !.pc = "arrived", !.serial = calls + 1,
                                 !.actor = a, !.barred = stopped]
  OBVIOUS
<1>4. TypeOK /\ CallsInv /\ LimitersInv /\ LinesInv /\ FreezeInv /\ RecordInv /\ ChainInv
      /\ calls \in Nat /\ calls + 1 \in 0..MaxCalls /\ stopped \in BOOLEAN
  BY <1>1, Numbers DEF Inv, TypeOK
<1>5. c = [pc |-> "arrived", serial |-> calls + 1, actor |-> a, limiter |-> 0,
           reading |-> 0, written |-> FALSE, barred |-> stopped]
  <2>1. PICK d : d = [Quiet EXCEPT !.pc = "arrived"]
    OBVIOUS
  <2>2. PICK e : e = [d EXCEPT !.serial = calls + 1]
    OBVIOUS
  <2>3. PICK f : f = [e EXCEPT !.actor = a]
    OBVIOUS
  <2>4. c = [f EXCEPT !.barred = stopped]
    BY <1>3, <2>1, <2>2, <2>3
  <2>5. d = [pc |-> "arrived", serial |-> 0, actor |-> None, limiter |-> 0,
             reading |-> 0, written |-> FALSE, barred |-> FALSE]
    BY <2>1 DEF Quiet
  <2>6. e = [pc |-> "arrived", serial |-> calls + 1, actor |-> None, limiter |-> 0,
             reading |-> 0, written |-> FALSE, barred |-> FALSE]
    BY <2>2, <2>5
  <2>7. f = [pc |-> "arrived", serial |-> calls + 1, actor |-> a, limiter |-> 0,
             reading |-> 0, written |-> FALSE, barred |-> FALSE]
    BY <2>3, <2>6
  <2>. QED  BY <2>4, <2>7
<1>6. 0 \in 0..Len(limiters) /\ 0 \in 0..now
  BY <1>4, Numbers DEF TypeOK
<1>7. c \in Call
  BY <1>4, <1>5, <1>6 DEF Call
<1>8. /\ Call' = Call /\ stopped' = stopped /\ lock' = lock /\ limiters' = limiters
      /\ file' = file /\ torn' = torn /\ now' = now /\ told' = told /\ frozen' = frozen
  BY <1>1 DEF gate, log, history, Call
<1>9. CallOK(c)' /\ BarredOK(c)' /\ WrittenOK(c)'
  BY <1>1, <1>4, <1>5, <1>8 DEF CallOK, BarredOK, WrittenOK, Behind
<1>10. /\ (call \in [Worker -> Call])'
       /\ (lock \in Worker \cup {None})'
       /\ (\A v \in Worker : lock = v <=> call[v].pc = "sealed")'
       /\ (\A u, v \in Worker :
             u # v /\ call[u].serial = call[v].serial => call[u].serial = 0)'
       /\ CallsInv'
       /\ (\A v \in Worker : BarredOK(call[v]))'
       /\ (\A v \in Worker : WrittenOK(call[v]))'
  <2>1. /\ call' = [call EXCEPT ![w] = c] /\ c.serial \in {0, call[w].serial, calls + 1}
        /\ Len(limiters') = Len(limiters) /\ calls' \in {calls, calls + 1}
        /\ (~torn' => ~torn /\ OnRecord(file) \subseteq OnRecord(file)')
        /\ c.pc # "sealed" /\ call[w].pc # "sealed"
    BY <1>1, <1>2, <1>3, <1>5, <1>8
  <2>. QED  BY <1>4, <1>7, <1>8, <1>9, <2>1, OneCall
<1>11. TypeOK'
  BY <1>1, <1>4, <1>8, <1>10 DEF TypeOK, log, history
<1>12. LinesInv' /\ LimitersInv' /\ FreezeInv' /\ RecordInv' /\ ChainInv'
  <2>1. LinesInv' /\ LimitersInv'
    BY <1>1, <1>4, <1>8 DEF LinesInv, LimitersInv, log
  <2>2. FreezeInv' /\ RecordInv'
    BY <1>4, <1>8, <1>10 DEF FreezeInv, RecordInv
  <2>3. ChainInv'
    BY <1>1, <1>4 DEF ChainInv, VerifyChain, LastHash, log, history
  <2>. QED  BY <2>1, <2>2, <2>3
<1>. QED  BY <1>10, <1>11, <1>12 DEF Inv

\* A write leaves the worker with its record, the log with the lines it had
\* and perhaps one more, and the last hash with the number of the call.
LEMMA Wrote ==
  ASSUME Inv, NEW w \in Worker, NEW c \in Call, call[w].pc = "sealed",
         call' = [call EXCEPT ![w] = c],
         c.pc = "recorded", c.serial = call[w].serial, c.actor = call[w].actor,
         c.barred = call[w].barred,
         lock' = None, lastHash' = call[w].serial,
         file' \in File, LinesInv', faults' \in 0..MaxFaults, {torn', parted'} \subseteq BOOLEAN,
         UNCHANGED <<now, gate, calls, changes, stopped, admitted, told>>,
         ~torn' => ~torn /\ ~file'.torn /\ OnRecord(file) \subseteq OnRecord(file)',
         ~torn' /\ c.written => call[w].serial \in OnRecord(file)',
         ChainInv'
  PROVE  Inv'
<1>1. TypeOK /\ CallsInv /\ LimitersInv /\ FreezeInv /\ RecordInv
      /\ call[w] \in Call /\ CallOK(call[w])
  BY CallType DEF Inv
<1>2. Call' = Call /\ limiters' = limiters /\ frozen' = frozen
  BY DEF gate, Call
<1>3. CallOK(c)' /\ BarredOK(c)' /\ WrittenOK(c)'
  BY <1>1, <1>2 DEF CallOK, BarredOK, WrittenOK, FreezeInv, Behind
<1>4. /\ (call \in [Worker -> Call])'
      /\ (lock \in Worker \cup {None})'
      /\ (\A v \in Worker : lock = v <=> call[v].pc = "sealed")'
      /\ (\A u, v \in Worker :
            u # v /\ call[u].serial = call[v].serial => call[u].serial = 0)'
      /\ CallsInv'
      /\ (\A v \in Worker : BarredOK(call[v]))'
      /\ (\A v \in Worker : WrittenOK(call[v]))'
  <2>1. /\ call' = [call EXCEPT ![w] = c] /\ c.serial \in {0, call[w].serial, calls + 1}
        /\ Len(limiters') = Len(limiters) /\ calls' \in {calls, calls + 1}
        /\ stopped' = stopped /\ c.pc # "sealed"
        /\ (~torn' => ~torn /\ OnRecord(file) \subseteq OnRecord(file)')
    BY <1>1, <1>2
  <2>. QED  BY <1>1, <1>2, <1>3, <2>1, OneCall
<1>5. TypeOK'
  <2>1. lastHash' \in 0..MaxCalls
    BY <1>1 DEF Call
  <2>. QED  BY <1>1, <1>2, <1>4, <2>1 DEF TypeOK
<1>6. LimitersInv' /\ FreezeInv'
  BY <1>1, <1>2, <1>4 DEF LimitersInv, FreezeInv
<1>7. RecordInv'
  BY <1>1, <1>4 DEF RecordInv
<1>. QED  BY <1>4, <1>5, <1>6, <1>7 DEF Inv

LEMMA WriteRecordInv == ASSUME Inv, NEW w \in Worker, WriteRecord(w) PROVE Inv'
<1>1. /\ call[w].pc = "sealed"
      /\ call' = [call EXCEPT ![w] = [call[w] EXCEPT !.pc = "recorded", !.written = TRUE]]
      /\ lock' = None /\ lastHash' = call[w].serial
      /\ file' = Write(file, RecordOf(w), TRUE)
      /\ UNCHANGED <<now, gate, calls, changes, faults, stopped, admitted, told, torn, parted>>
  BY DEF WriteRecord, Goes, bounds, history
<1>2. /\ TypeOK /\ LinesInv /\ RecordInv /\ ChainInv /\ call[w].serial \in 1..calls
      /\ calls \in Nat /\ file \in File /\ lastHash \in 0..calls
      /\ faults \in 0..MaxFaults /\ {torn, parted} \subseteq BOOLEAN /\ call[w] \in Call
  BY <1>1, CallType, Numbers DEF Inv, TypeOK, LinesInv, CallOK
<1>3. PICK l : l = RecordOf(w)
  OBVIOUS
<1>4. l \in Record /\ l \in Line /\ l.hash = call[w].serial /\ l.prev = lastHash
  BY <1>2, <1>3 DEF RecordOf, Record, Line
<1>5. /\ file' \in File /\ ~file'.torn
      /\ \A n \in 1..Len(file'.lines) : file'.lines[n].hash \in 0..calls
  <2>1. \A n \in 1..Len(file.lines) : file.lines[n].hash \in 0..calls
    BY <1>2 DEF LinesInv
  <2>2. file' = Write(file, l, TRUE)
    BY <1>1, <1>3
  <2>3. file \in File /\ l \in Line /\ calls \in Nat /\ l.hash \in 0..calls
    BY <1>2, <1>4
  <2>4. /\ Write(file, l, TRUE) \in File /\ ~Write(file, l, TRUE).torn
        /\ \A n \in 1..Len(Write(file, l, TRUE).lines) :
             Write(file, l, TRUE).lines[n].hash \in 0..calls
    BY <2>1, <2>3, WriteType
  <2>. QED  BY <2>2, <2>4
<1>6. LinesInv'
  <2>1. lastHash' \in 0..calls /\ calls' = calls
    BY <1>1, <1>2
  <2>. QED  BY <1>5, <2>1 DEF LinesInv
<1>7. ~torn => /\ OnRecord(file)' = OnRecord(file) \cup {call[w].serial}
               /\ LastHash(file)' = call[w].serial
               /\ VerifyChain(file) /\ lastHash = LastHash(file) => VerifyChain(file)'
  <2>1. ASSUME ~torn PROVE ~file.torn
    BY <1>2, <2>1 DEF RecordInv
  <2>. QED  BY <1>1, <1>2, <1>3, <1>4, <2>1, WriteWhole
<1>8. ChainInv'
  BY <1>1, <1>2, <1>7 DEF ChainInv
<1>9. PICK c : c = [call[w] EXCEPT !.pc = "recorded", !.written = TRUE]
  OBVIOUS
<1>10. /\ c \in Call /\ c.pc = "recorded" /\ c.serial = call[w].serial
       /\ c.actor = call[w].actor /\ c.barred = call[w].barred
  <2>1. PICK d : d = [call[w] EXCEPT !.pc = "recorded"]
    OBVIOUS
  <2>2. c = [d EXCEPT !.written = TRUE]
    BY <1>9, <2>1
  <2>3. /\ d \in Call /\ d.pc = "recorded" /\ d.serial = call[w].serial
        /\ d.actor = call[w].actor /\ d.barred = call[w].barred
    BY <1>2, <2>1 DEF Call
  <2>. QED  BY <2>2, <2>3 DEF Call
<1>11. ~torn' => ~torn /\ ~file'.torn /\ OnRecord(file) \subseteq OnRecord(file)'
                /\ call[w].serial \in OnRecord(file)'
  BY <1>1, <1>5, <1>7
<1>12. call' = [call EXCEPT ![w] = c] /\ faults' \in 0..MaxFaults /\ {torn', parted'} \subseteq BOOLEAN
  BY <1>1, <1>2, <1>9
<1>. QED  BY <1>1, <1>5, <1>6, <1>8, <1>10, <1>11, <1>12, Wrote

\* What a write in part can make of a log.
LEMMA WriteInPartType ==
  ASSUME NEW f \in File, NEW l \in Record, NEW g \in WriteInPart(f, l), NEW N \in Nat,
         \A n \in 1..Len(f.lines) : f.lines[n].hash \in 0..N, l.hash \in 0..N
  PROVE  /\ g \in File
         /\ ~g.torn => g = f
         /\ \A n \in 1..Len(g.lines) : g.lines[n].hash \in 0..N
<1>1. Garbage \in Line /\ Garbage.hash \in 0..N /\ l \in Line
  BY DEF Garbage, Line
<1>2. CASE g = f
  BY <1>2
<1>3. CASE g = Write(f, Garbage, FALSE)
  BY <1>1, <1>3, WriteType
<1>4. CASE g = Write(f, l, FALSE)
  BY <1>1, <1>4, WriteType
<1>. QED  BY <1>2, <1>3, <1>4 DEF WriteInPart

LEMMA WriteFailsInv == ASSUME Inv, NEW w \in Worker, WriteFails(w) PROVE Inv'
<1>1. /\ call[w].pc = "sealed"
      /\ call' = [call EXCEPT ![w] = [call[w] EXCEPT !.pc = "recorded"]]
      /\ lock' = None /\ lastHash' = call[w].serial /\ faults < MaxFaults /\ faults' = faults + 1
      /\ file' \in WriteInPart(file, RecordOf(w))
      /\ torn' = (torn \/ file'.torn) /\ parted' = TRUE
      /\ UNCHANGED <<now, gate, calls, changes, stopped, admitted, told>>
  BY DEF WriteFails, Goes
<1>2. /\ TypeOK /\ CallsInv /\ LinesInv /\ RecordInv /\ call[w].serial \in 1..calls
      /\ calls \in Nat /\ file \in File /\ lastHash \in 0..calls
      /\ faults' \in 0..MaxFaults /\ torn \in BOOLEAN
      /\ call[w] \in Call /\ ~call[w].written
  <2>1. TypeOK /\ CallsInv /\ LinesInv /\ RecordInv
    BY DEF Inv
  <2>2. call[w] \in Call /\ call[w].serial \in 1..calls /\ ~call[w].written
    BY <1>1, <2>1, CallType DEF CallOK
  <2>. QED  BY <1>1, <2>1, <2>2, Numbers DEF TypeOK, LinesInv
<1>3. PICK l : l = RecordOf(w)
  OBVIOUS
<1>4. l \in Record /\ l.hash \in 0..calls
  BY <1>2, <1>3 DEF RecordOf, Record
<1>5. /\ file' \in File /\ (~file'.torn => file' = file)
      /\ \A n \in 1..Len(file'.lines) : file'.lines[n].hash \in 0..calls
  <2>1. \A n \in 1..Len(file.lines) : file.lines[n].hash \in 0..calls
    BY <1>2 DEF LinesInv
  <2>. QED  BY <1>1, <1>2, <1>3, <1>4, <2>1, WriteInPartType
<1>6. LinesInv' /\ ChainInv'
  <2>1. lastHash' \in 0..calls /\ calls' = calls
    BY <1>1, <1>2
  <2>. QED  BY <1>1, <1>5, <2>1 DEF LinesInv, ChainInv
<1>7. file'.torn \in BOOLEAN
  BY <1>5 DEF File
<1>8. PICK c : c = [call[w] EXCEPT !.pc = "recorded"]
  OBVIOUS
<1>9. /\ c \in Call /\ c.pc = "recorded" /\ c.serial = call[w].serial
      /\ c.actor = call[w].actor /\ c.barred = call[w].barred /\ ~c.written
  BY <1>2, <1>8 DEF Call
<1>10. ~torn' => ~torn /\ ~file'.torn /\ OnRecord(file) \subseteq OnRecord(file)'
  BY <1>1, <1>5
<1>11. call' = [call EXCEPT ![w] = c] /\ {torn', parted'} \subseteq BOOLEAN
  BY <1>1, <1>2, <1>7, <1>8
<1>. QED  BY <1>1, <1>2, <1>5, <1>6, <1>9, <1>10, <1>11, Wrote

----------------------------------------------------------------------------
\* The limiters.

\* popleft drops the readings ahead of the first one inside the window.
LEMMA EvictCuts ==
  ASSUME NEW q \in Seq(Nat), NEW span \in Nat, NEW t \in Nat
  PROVE  \E k \in 1..(Len(q) + 1) :
           /\ Evict(q, span, t) = SubSeq(q, k, Len(q))
           /\ \A j \in 1..Len(q) : j < k => t - q[j] > span
           /\ k <= Len(q) => t - q[k] <= span
<1>. DEFINE I == Inside(q, span, t)
            first == CHOOSE k \in I : \A j \in I : k <= j
<1>1. I \in SUBSET Nat /\ I = {k \in 1..Len(q) : t - q[k] <= span}
  BY DEF Inside
<1>2. Evict(q, span, t) = IF I = {} THEN <<>> ELSE SubSeq(q, first, Len(q))
  BY DEF Evict
<1>3. Len(q) \in Nat /\ \A j \in 1..Len(q) : q[j] \in Nat
  OBVIOUS
<1>4. CASE I = {}
  <2>1. SubSeq(q, Len(q) + 1, Len(q)) = <<>>
    BY <1>3
  <2>2. ASSUME NEW j \in 1..Len(q) PROVE t - q[j] > span
    <3>. HIDE DEF I
    <3>1. ~(t - q[j] <= span) /\ q[j] \in Nat
      BY <1>1, <1>3, <1>4
    <3>. QED  BY <3>1
  <2>3. Len(q) + 1 \in 1..(Len(q) + 1) /\ ~(Len(q) + 1 <= Len(q))
    BY <1>3
  <2>. QED  BY <1>2, <1>4, <2>1, <2>2, <2>3
<1>5. CASE I # {}
  <2>. HIDE DEF I
  <2>1. first \in I /\ \A j \in I : first <= j
    BY <1>1, <1>5, Least
  <2>. HIDE DEF first
  <2>2. first \in 1..Len(q) /\ t - q[first] <= span
    BY <1>1, <2>1
  <2>3. \A j \in 1..Len(q) : j < first => t - q[j] > span
    BY <1>1, <1>3, <2>1, <2>2
  <2>4. first \in 1..(Len(q) + 1)
    BY <1>3, <2>2
  <2>. QED  BY <1>2, <1>5, <2>2, <2>3, <2>4
<1>. QED  BY <1>4, <1>5

LEMMA CutType ==
  ASSUME NEW q \in Seq(Nat), NEW k \in 1..(Len(q) + 1)
  PROVE  /\ SubSeq(q, k, Len(q)) \in Seq(Nat)
         /\ Len(SubSeq(q, k, Len(q))) = Len(q) - k + 1
         /\ \A j \in 1..(Len(q) - k + 1) : SubSeq(q, k, Len(q))[j] = q[j + k - 1]
BY SubSeqProperties

\* What check makes of a limiter is a limiter with the limits it had.
LEMMA EvictedType ==
  ASSUME NEW r \in Limiter, NEW a \in Actor, NEW t \in Nat
  PROVE  LET e == Evicted(r, a, t)
             d == Counted(e, a, t) IN
         /\ e \in Limiter /\ e.limits = r.limits
         /\ \A b \in Actor : e.minute[b] = IF b = a THEN Evict(r.minute[a], Minute, t)
                                           ELSE r.minute[b]
         /\ \A b \in Actor : e.day[b] = IF b = a THEN Evict(r.day[a], Day, t) ELSE r.day[b]
         /\ d \in Limiter /\ d.limits = r.limits
         /\ \A b \in Actor : d.minute[b] = IF b = a THEN Append(e.minute[a], t) ELSE e.minute[b]
         /\ \A b \in Actor : d.day[b] = IF b = a THEN Append(e.day[a], t) ELSE e.day[b]
<1>. DEFINE e == Evicted(r, a, t)
            d == Counted(e, a, t)
<1>1. r.minute \in [Actor -> Seq(Nat)] /\ r.day \in [Actor -> Seq(Nat)] /\ r.limits \in Limits
  BY DEF Limiter, Window
<1>2. Evict(r.minute[a], Minute, t) \in Seq(Nat) /\ Evict(r.day[a], Day, t) \in Seq(Nat)
  <2>1. ASSUME NEW q \in Seq(Nat), NEW span \in Nat PROVE Evict(q, span, t) \in Seq(Nat)
    BY EvictCuts, CutType
  <2>. QED  BY <1>1, <2>1, Numbers
<1>3. PICK m : m = [r.minute EXCEPT ![a] = Evict(@, Minute, t)]
  OBVIOUS
<1>4. PICK n : n = [r.day EXCEPT ![a] = Evict(@, Day, t)]
  OBVIOUS
<1>5. r = [limits |-> r.limits, minute |-> r.minute, day |-> r.day]
  BY DEF Limiter
<1>6. PICK x : x = [r EXCEPT !.minute[a] = Evict(@, Minute, t)]
  OBVIOUS
<1>7. x = [limits |-> r.limits, minute |-> m, day |-> r.day]
  BY <1>3, <1>5, <1>6
<1>8. e = [x EXCEPT !.day[a] = Evict(@, Day, t)]
  BY <1>6 DEF Evicted
<1>9. e = [limits |-> r.limits, minute |-> m, day |-> n]
  BY <1>4, <1>7, <1>8
<1>10. /\ m \in Window /\ n \in Window
       /\ \A b \in Actor : m[b] = IF b = a THEN Evict(r.minute[a], Minute, t) ELSE r.minute[b]
       /\ \A b \in Actor : n[b] = IF b = a THEN Evict(r.day[a], Day, t) ELSE r.day[b]
  BY <1>1, <1>2, <1>3, <1>4 DEF Window
<1>11. PICK f : f = e
  OBVIOUS
<1>12. PICK m2 : m2 = [m EXCEPT ![a] = Append(@, t)]
  OBVIOUS
<1>13. PICK n2 : n2 = [n EXCEPT ![a] = Append(@, t)]
  OBVIOUS
<1>14. PICK y : y = [f EXCEPT !.minute[a] = Append(@, t)]
  OBVIOUS
<1>. HIDE DEF e
<1>15. f = [limits |-> r.limits, minute |-> m, day |-> n]
  BY <1>9, <1>11
<1>16. y = [limits |-> r.limits, minute |-> m2, day |-> n]
  BY <1>12, <1>14, <1>15
<1>17. d = [y EXCEPT !.day[a] = Append(@, t)]
  BY <1>11, <1>14 DEF Counted
<1>18. d = [limits |-> r.limits, minute |-> m2, day |-> n2]
  BY <1>13, <1>16, <1>17
<1>19. /\ m2 \in Window /\ n2 \in Window
       /\ \A b \in Actor : m2[b] = IF b = a THEN Append(m[a], t) ELSE m[b]
       /\ \A b \in Actor : n2[b] = IF b = a THEN Append(n[a], t) ELSE n[b]
  <2>1. m \in [Actor -> Seq(Nat)] /\ n \in [Actor -> Seq(Nat)]
    BY <1>10 DEF Window
  <2>2. Append(m[a], t) \in Seq(Nat) /\ Append(n[a], t) \in Seq(Nat)
    BY <2>1
  <2>. QED  BY <1>12, <1>13, <2>1, <2>2 DEF Window
<1>. HIDE DEF d
<1>20. e \in Limiter /\ d \in Limiter
  BY <1>1, <1>9, <1>10, <1>18, <1>19 DEF Limiter
<1>21. e.limits = r.limits /\ e.minute = m /\ e.day = n
       /\ d.limits = r.limits /\ d.minute = m2 /\ d.day = n2
  BY <1>9, <1>18
<1>. QED  BY <1>10, <1>19, <1>20, <1>21 DEF d, e

\* What a check finds.
LEMMA CheckFinds ==
  ASSUME Inv, NEW w \in Worker, call[w].pc = "timed"
  PROVE  /\ call[w] \in Call /\ call[w].serial \in 1..calls /\ ~call[w].written
         /\ call[w].actor \in Actor /\ call[w].limiter \in 1..Len(limiters)
         /\ call[w].reading \in Nat /\ call[w].reading <= now /\ call[w].reading \in 0..now
         /\ now \in Nat
         /\ limiters \in Seq(Limiter) /\ limiters[call[w].limiter] \in Limiter
         /\ BarredOK(call[w]) /\ ~call[w].barred
<1>1. TypeOK /\ CallsInv /\ FreezeInv /\ call[w] \in Call /\ CallOK(call[w])
  BY CallType DEF Inv
<1>2. /\ now \in Nat /\ call[w].reading \in 0..now /\ limiters \in Seq(Limiter)
      /\ call[w].actor \in Actor /\ call[w].limiter \in 1..Len(limiters)
      /\ call[w].serial \in 1..calls /\ ~call[w].written /\ BarredOK(call[w])
  BY <1>1, Numbers DEF TypeOK, CallOK, FreezeInv, Call
<1>3. ~call[w].barred
  BY <1>2, NoneIsNobody DEF BarredOK, Behind
<1>. QED  BY <1>1, <1>2, <1>3

\* The two ways a check may go.
LEMMA CheckEnds ==
  ASSUME Inv, NEW w \in Worker, Check(w)
  PROVE  \E c \in Call, r \in Limiter :
           /\ call' = [call EXCEPT ![w] = c]
           /\ limiters' = [limiters EXCEPT ![call[w].limiter] = r]
           /\ r.limits = limiters[call[w].limiter].limits
           /\ c.serial = call[w].serial /\ c.actor = call[w].actor
           /\ ~c.barred /\ ~c.written
           /\ LET e == Evicted(limiters[call[w].limiter], call[w].actor, call[w].reading) IN
              \/ /\ c.pc = "turned_away" /\ Full(e, call[w].actor) /\ r = e
                 /\ c.limiter = call[w].limiter /\ c.reading = call[w].reading
                 /\ UNCHANGED admitted
              \/ /\ c.pc = "running" /\ ~Full(e, call[w].actor)
                 /\ r = Counted(e, call[w].actor, call[w].reading)
                 /\ admitted' = Append(admitted, Admission(call[w]))
<1>. DEFINE e == Evicted(limiters[call[w].limiter], call[w].actor, call[w].reading)
<1>1. call[w].pc = "timed"
  BY DEF Check
<1>2. /\ call[w] \in Call /\ ~call[w].written /\ ~call[w].barred
      /\ 0 \in 0..Len(limiters) /\ 0 \in 0..now
  BY <1>1, CheckFinds
<1>3. /\ e \in Limiter /\ e.limits = limiters[call[w].limiter].limits
      /\ Counted(e, call[w].actor, call[w].reading) \in Limiter
      /\ Counted(e, call[w].actor, call[w].reading).limits = limiters[call[w].limiter].limits
  <2>1. PICK r0, a, t : r0 = limiters[call[w].limiter] /\ a = call[w].actor /\ t = call[w].reading
    OBVIOUS
  <2>2. r0 \in Limiter /\ a \in Actor /\ t \in Nat
    BY <1>1, <2>1, CheckFinds
  <2>3. /\ Evicted(r0, a, t) \in Limiter /\ Evicted(r0, a, t).limits = r0.limits
        /\ Counted(Evicted(r0, a, t), a, t) \in Limiter
        /\ Counted(Evicted(r0, a, t), a, t).limits = r0.limits
    BY <2>2, EvictedType
  <2>. QED  BY <2>1, <2>3
<1>. HIDE DEF e
<1>4. CASE /\ Full(e, call[w].actor)
           /\ call' = [call EXCEPT ![w] = [call[w] EXCEPT !.pc = "turned_away"]]
           /\ limiters' = [limiters EXCEPT ![call[w].limiter] = e]
           /\ UNCHANGED admitted
  <2>1. PICK c : c = [call[w] EXCEPT !.pc = "turned_away"]
    OBVIOUS
  <2>2. /\ c \in Call /\ c.pc = "turned_away" /\ c.serial = call[w].serial
        /\ c.actor = call[w].actor /\ ~c.barred /\ ~c.written
        /\ c.limiter = call[w].limiter /\ c.reading = call[w].reading
    BY <1>2, <2>1 DEF Call
  <2>. QED  BY <1>3, <1>4, <2>1, <2>2 DEF e
<1>5. CASE /\ ~Full(e, call[w].actor)
           /\ call' = [call EXCEPT ![w] = [call[w] EXCEPT !.pc = "running", !.limiter = 0,
                                                          !.reading = 0]]
           /\ limiters' = [limiters EXCEPT ![call[w].limiter] =
                                      Counted(e, call[w].actor, call[w].reading)]
           /\ admitted' = Append(admitted, Admission(call[w]))
  <2>1. PICK c : c = [call[w] EXCEPT !.pc = "running", !.limiter = 0, !.reading = 0]
    OBVIOUS
  <2>2. /\ c \in Call /\ c.pc = "running" /\ c.serial = call[w].serial
        /\ c.actor = call[w].actor /\ ~c.barred /\ ~c.written
    <3>1. PICK d : d = [call[w] EXCEPT !.pc = "running"]
      OBVIOUS
    <3>2. PICK f : f = [d EXCEPT !.limiter = 0]
      OBVIOUS
    <3>3. c = [f EXCEPT !.reading = 0]
      BY <2>1, <3>1, <3>2
    <3>4. /\ d \in Call /\ d.pc = "running" /\ d.serial = call[w].serial
          /\ d.actor = call[w].actor /\ ~d.barred /\ ~d.written
      BY <1>2, <3>1 DEF Call
    <3>5. /\ f \in Call /\ f.pc = "running" /\ f.serial = call[w].serial
          /\ f.actor = call[w].actor /\ ~f.barred /\ ~f.written
      BY <1>2, <3>2, <3>4 DEF Call
    <3>. QED  BY <1>2, <3>3, <3>5 DEF Call
  <2>. QED  BY <1>3, <1>5, <2>1, <2>2 DEF e
<1>. QED  BY <1>4, <1>5 DEF Check, Goes, e

Admitted(n, m) == [limiter : 1..n, actor : Actor, read : 0..m, at : 0..m]

LEMMA CheckInv == ASSUME Inv, NEW w \in Worker, Check(w) PROVE Inv'
<1>1. call[w].pc = "timed" /\ UNCHANGED <<now, frozen, log, bounds, stopped, told, torn, parted>>
  BY DEF Check
<1>2. PICK c \in Call, r \in Limiter :
        /\ call' = [call EXCEPT ![w] = c]
        /\ limiters' = [limiters EXCEPT ![call[w].limiter] = r]
        /\ c.serial = call[w].serial /\ c.actor = call[w].actor
        /\ ~c.barred /\ ~c.written /\ c.pc \in {"turned_away", "running"}
        /\ c.pc = "turned_away" => c.limiter = call[w].limiter
        /\ \/ UNCHANGED admitted
           \/ admitted' = Append(admitted, Admission(call[w]))
  BY CheckEnds, Zenon
<1>3. TypeOK /\ CallsInv /\ LimitersInv /\ LinesInv /\ FreezeInv /\ RecordInv /\ ChainInv
  BY DEF Inv
<1>4. /\ call[w].serial \in 1..calls /\ call[w].actor \in Actor
      /\ call[w].limiter \in 1..Len(limiters) /\ call[w].reading \in 0..now
      /\ now \in Nat /\ limiters \in Seq(Limiter)
  BY <1>1, CheckFinds
<1>5. limiters' \in Seq(Limiter) /\ Len(limiters') = Len(limiters)
  BY <1>2, <1>4, ExceptSeq
<1>6. /\ now' = now /\ frozen' = frozen /\ stopped' = stopped /\ told' = told /\ torn' = torn
      /\ file' = file /\ lock' = lock /\ calls' = calls /\ lastHash' = lastHash
      /\ parted' = parted /\ faults' = faults /\ changes' = changes
  BY <1>1 DEF log, bounds
<1>7. Call' = Call
  BY <1>5, <1>6 DEF Call
<1>8. CallOK(c)' /\ BarredOK(c)' /\ WrittenOK(c)'
  BY <1>2, <1>4, <1>5, <1>6 DEF CallOK, BarredOK, WrittenOK
<1>9. /\ (call \in [Worker -> Call])'
      /\ (lock \in Worker \cup {None})'
      /\ (\A v \in Worker : lock = v <=> call[v].pc = "sealed")'
      /\ (\A u, v \in Worker :
            u # v /\ call[u].serial = call[v].serial => call[u].serial = 0)'
      /\ CallsInv'
      /\ (\A v \in Worker : BarredOK(call[v]))'
      /\ (\A v \in Worker : WrittenOK(call[v]))'
  <2>1. /\ call' = [call EXCEPT ![w] = c] /\ c.serial \in {0, call[w].serial, calls + 1}
        /\ calls' \in {calls, calls + 1} /\ c.pc # "sealed" /\ call[w].pc # "sealed"
        /\ (~torn' => ~torn /\ OnRecord(file) \subseteq OnRecord(file)')
    BY <1>1, <1>2, <1>6
  <2>. QED  BY <1>3, <1>5, <1>6, <1>7, <1>8, <2>1, OneCall
<1>10. admitted' \in Seq(Admitted(Len(limiters'), now'))
  <2>1. admitted \in Seq(Admitted(Len(limiters), now))
    BY <1>3 DEF TypeOK, Admitted
  <2>2. Admission(call[w]) \in Admitted(Len(limiters), now)
    BY <1>4 DEF Admission, Admitted
  <2>3. Append(admitted, Admission(call[w])) \in Seq(Admitted(Len(limiters), now))
    BY <2>1, <2>2, AppendProperties
  <2>4. Len(limiters') = Len(limiters) /\ now' = now
    BY <1>5, <1>6
  <2>. QED  BY <1>2, <2>1, <2>3, <2>4
<1>11. TypeOK'
  BY <1>3, <1>5, <1>6, <1>9, <1>10 DEF TypeOK, Admitted
<1>12. LimitersInv' /\ LinesInv' /\ FreezeInv' /\ RecordInv' /\ ChainInv'
  <2>1. LimitersInv' /\ LinesInv'
    BY <1>3, <1>5, <1>6 DEF LimitersInv, LinesInv
  <2>2. FreezeInv' /\ RecordInv'
    BY <1>3, <1>6, <1>9 DEF FreezeInv, RecordInv
  <2>3. ChainInv'
    BY <1>3, <1>6 DEF ChainInv
  <2>. QED  BY <2>1, <2>2, <2>3
<1>. QED  BY <1>9, <1>11, <1>12 DEF Inv


----------------------------------------------------------------------------
\* The operator, the clock, the end of the process.

LEMMA NewLimiterType ==
  ASSUME NEW l \in Limits
  PROVE  NewLimiter(l) \in Limiter
<1>1. [a \in Actor |-> <<>>] \in Window
  BY DEF Window
<1>. QED  BY <1>1 DEF NewLimiter, Limiter

\* Steps that leave the calls as they are, but for the history in them.
LEMMA Beside ==
  ASSUME Inv, call' \in [Worker -> Call],
         \A w \in Worker : /\ call'[w].pc = call[w].pc /\ call'[w].serial = call[w].serial
                           /\ call'[w].actor = call[w].actor
                           /\ call'[w].limiter = call[w].limiter
                           /\ call'[w].written = call[w].written,
         UNCHANGED <<log, calls, faults, admitted, told, torn, parted>>,
         limiters' \in Seq(Limiter), Len(limiters') >= Len(limiters),
         now' \in 0..MaxTime, now' >= now, changes' \in 0..MaxChanges,
         frozen' \in BOOLEAN, stopped' \in BOOLEAN, stopped' => frozen',
         \A w \in Worker : call'[w].barred => call[w].barred /\ stopped'
  PROVE  Inv'
<1>1. /\ TypeOK /\ CallsInv /\ LimitersInv /\ LinesInv /\ FreezeInv /\ RecordInv /\ ChainInv
      /\ now \in Nat /\ Len(limiters) \in Nat /\ Len(limiters') \in Nat /\ now' \in Nat
  BY Numbers DEF Inv, TypeOK
<1>2. /\ file' = file /\ lastHash' = lastHash /\ lock' = lock /\ calls' = calls /\ told' = told
      /\ torn' = torn /\ parted' = parted /\ admitted' = admitted /\ faults' = faults
  BY DEF log
<1>3. call' \in [Worker -> Call']
  <2>1. 0..Len(limiters) \subseteq 0..Len(limiters') /\ 0..now \subseteq 0..now'
    BY <1>1
  <2>2. Call \subseteq Call'
    BY <2>1 DEF Call
  <2>. QED  BY <2>2
<1>4. admitted' \in Seq(Admitted(Len(limiters'), now'))
  <2>1. admitted \in Seq(Admitted(Len(limiters), now))
    BY <1>1 DEF TypeOK, Admitted
  <2>2. 1..Len(limiters) \subseteq 1..Len(limiters') /\ 0..now \subseteq 0..now'
    BY <1>1
  <2>3. Admitted(Len(limiters), now) \subseteq Admitted(Len(limiters'), now')
    BY <2>2 DEF Admitted
  <2>. QED  BY <1>2, <2>1, <2>3
<1>5. TypeOK'
  <2>1. (\A w \in Worker : lock = w <=> call[w].pc = "sealed")'
    BY <1>1, <1>2 DEF TypeOK
  <2>2. (\A v, w \in Worker :
           v # w /\ call[v].serial = call[w].serial => call[v].serial = 0)'
    <3>1. \A v, w \in Worker :
            v # w /\ call[v].serial = call[w].serial => call[v].serial = 0
      BY <1>1 DEF TypeOK
    <3>2. \A v \in Worker : call'[v].serial = call[v].serial
      OBVIOUS
    <3>. QED  BY <3>1, <3>2
  <2>3. {stopped, torn, parted}' \subseteq BOOLEAN
    BY <1>1, <1>2 DEF TypeOK
  <2>. QED  BY <1>1, <1>2, <1>3, <1>4, <2>1, <2>2, <2>3 DEF TypeOK, Admitted
<1>6. CallsInv'
  BY <1>1, <1>2 DEF CallsInv, CallOK
<1>7. LimitersInv' /\ LinesInv' /\ ChainInv'
  BY <1>1, <1>2 DEF LimitersInv, LinesInv, ChainInv
<1>8. FreezeInv'
  BY <1>1, <1>2 DEF FreezeInv, BarredOK
<1>9. RecordInv'
  BY <1>1, <1>2 DEF RecordInv, WrittenOK
<1>. QED  BY <1>5, <1>6, <1>7, <1>8, <1>9 DEF Inv

\* The same, when the calls do not change at all.
LEMMA Apart ==
  ASSUME Inv, UNCHANGED <<log, call, calls, faults, admitted, told, torn, parted>>,
         limiters' \in Seq(Limiter), Len(limiters') >= Len(limiters),
         now' \in 0..MaxTime, now' >= now, changes' \in 0..MaxChanges,
         frozen' \in BOOLEAN, stopped' \in BOOLEAN, stopped' => frozen', stopped => stopped'
  PROVE  Inv'
<1>1. call' \in [Worker -> Call] /\ \A w \in Worker : call'[w].barred => call[w].barred /\ stopped'
  BY DEF Inv, TypeOK, FreezeInv, BarredOK
<1>. QED  BY <1>1, Beside

LEMMA Changed == ASSUME Inv, Changes PROVE changes' \in 0..MaxChanges
BY Numbers DEF Inv, TypeOK, Changes

LEMMA Standing ==
  ASSUME Inv
  PROVE  /\ now \in 0..MaxTime /\ now >= now /\ changes \in 0..MaxChanges
         /\ limiters \in Seq(Limiter) /\ Len(limiters) >= Len(limiters) /\ Len(limiters) > 0
         /\ frozen \in BOOLEAN /\ stopped \in BOOLEAN /\ (stopped => frozen)
BY Numbers DEF Inv, TypeOK, FreezeInv, LimitersInv

LEMMA FreezeHolds == ASSUME Inv, Freeze PROVE Inv'
<1>1. /\ UNCHANGED <<now, limiters, log, call, calls, faults, admitted, told, torn, parted>>
      /\ frozen' = TRUE /\ stopped' = TRUE /\ changes' \in 0..MaxChanges
  BY Changed DEF Freeze
<1>. QED  BY <1>1, Standing, Apart

LEMMA FreezeFailsHolds == ASSUME Inv, FreezeFails PROVE Inv'
<1>1. /\ UNCHANGED <<now, limiters, log, call, calls, faults, admitted, told, torn, parted>>
      /\ frozen' \in {frozen, TRUE} /\ stopped' = stopped /\ changes' \in 0..MaxChanges
  BY Changed DEF FreezeFails, history
<1>2. /\ now' \in 0..MaxTime /\ now' >= now /\ stopped' \in BOOLEAN
      /\ limiters' \in Seq(Limiter) /\ Len(limiters') >= Len(limiters)
  BY <1>1, Standing
<1>3. frozen' \in BOOLEAN /\ (stopped' => frozen') /\ (stopped => stopped')
  <2>1. frozen \in BOOLEAN /\ (stopped => frozen)
    BY Standing
  <2>2. frozen' = frozen \/ frozen' = TRUE
    BY <1>1
  <2>3. stopped' = stopped
    BY <1>1
  <2>4. CASE frozen' = frozen
    BY <2>1, <2>3, <2>4, Zenon
  <2>5. CASE frozen' = TRUE
    BY <2>3, <2>5, Zenon
  <2>. QED  BY <2>2, <2>4, <2>5
<1>. QED  BY <1>1, <1>2, <1>3, Apart

LEMMA UnfreezeHolds == ASSUME Inv, Unfreeze PROVE Inv'
<1>1. /\ UNCHANGED <<now, limiters, log, calls, faults, admitted, told, torn, parted>>
      /\ frozen' = FALSE /\ stopped' = FALSE /\ changes' \in 0..MaxChanges
      /\ call' = [w \in Worker |-> [call[w] EXCEPT !.barred = FALSE]]
  BY Changed DEF Unfreeze
<1>2. ASSUME NEW w \in Worker
      PROVE  /\ call'[w] \in Call /\ ~call'[w].barred
             /\ call'[w].pc = call[w].pc /\ call'[w].serial = call[w].serial
             /\ call'[w].actor = call[w].actor /\ call'[w].limiter = call[w].limiter
             /\ call'[w].written = call[w].written
  <2>1. call[w] \in Call
    BY DEF Inv, TypeOK
  <2>. QED  BY <1>1, <2>1 DEF Call
<1>3. call' \in [Worker -> Call]
  BY <1>1, <1>2
<1>. QED  BY <1>1, <1>2, <1>3, Standing, Beside

LEMMA SavePolicyHolds == ASSUME Inv, SavePolicy PROVE Inv'
<1>1. UNCHANGED <<now, frozen, log, call, calls, faults, history>> /\ changes' \in 0..MaxChanges
  BY Changed DEF SavePolicy
<1>2. PICK l \in LimitsUsed : limiters' = Append(limiters, NewLimiter(l))
  BY DEF SavePolicy
<1>3. limiters' \in Seq(Limiter) /\ Len(limiters') = Len(limiters) + 1
  <2>1. NewLimiter(l) \in Limiter
    BY NewLimiterType, DispatchAssumption
  <2>. QED  BY <1>2, <2>1, Standing, AppendProperties
<1>4. UNCHANGED <<log, call, calls, faults, admitted, told, torn, parted>>
      /\ stopped' = stopped /\ frozen' = frozen /\ now' = now
  BY <1>1 DEF history
<1>5. Len(limiters') >= Len(limiters)
  BY <1>3, Standing
<1>. QED  BY <1>1, <1>3, <1>4, <1>5, Standing, Apart

LEMMA TickHolds == ASSUME Inv, Tick PROVE Inv'
<1>1. /\ UNCHANGED <<log, call, calls, faults, admitted, told, torn, parted>>
      /\ stopped' = stopped /\ frozen' = frozen /\ limiters' = limiters /\ changes' = changes
      /\ now < MaxTime /\ now' = now + 1
  BY DEF Tick, gate, bounds, history
<1>2. now' \in 0..MaxTime /\ now' >= now
  BY <1>1, Standing, Numbers
<1>. QED  BY <1>1, <1>2, Standing, Apart

LEMMA RestartHolds == ASSUME Inv, Restart PROVE Inv'
<1>1. /\ file' \in LeftBehind /\ lastHash' = Recover(file') /\ lock' = None
      /\ call' = [w \in Worker |-> Quiet] /\ torn' = (torn \/ file'.torn)
      /\ limiters' = Append(limiters, NewLimiter(limiters[Len(limiters)].limits))
      /\ UNCHANGED <<now, frozen, calls, faults, stopped, admitted, told, parted>>
      /\ changes' \in 0..MaxChanges
  BY Changed DEF Restart
<1>2. /\ TypeOK /\ CallsInv /\ LimitersInv /\ LinesInv /\ FreezeInv /\ RecordInv /\ ChainInv
      /\ calls \in Nat /\ file \in File /\ now \in Nat /\ calls <= MaxCalls
  BY Numbers DEF Inv, TypeOK
<1>3. \A n \in 1..Len(file.lines) : file.lines[n].hash \in 0..calls
  BY <1>2 DEF LinesInv
<1>4. /\ file' \in File
      /\ \A n \in 1..Len(file'.lines) : file'.lines[n].hash \in 0..calls
      /\ ~torn' => ~torn /\ ~file'.torn /\ OnRecord(file) \subseteq OnRecord(file)'
      /\ ~torn' /\ ~parted => VerifyChain(file)'
  <2>1. CASE file' = file
    BY <1>1, <1>2, <1>3, <2>1 DEF ChainInv
  <2>2. CASE lock # None /\ file' \in WriteInPart(file, RecordOf(lock))
                              \cup {Write(file, RecordOf(lock), TRUE)}
    <3>1. /\ lock \in Worker /\ call[lock].pc = "sealed" /\ lastHash \in 0..calls
          /\ call[lock].serial \in 1..calls
      BY <1>2, <2>2 DEF TypeOK, CallsInv, CallOK, LinesInv
    <3>2. PICK l : l = RecordOf(lock)
      OBVIOUS
    <3>3. l \in Record /\ l \in Line /\ l.hash \in 0..calls /\ l.prev = lastHash
      BY <1>2, <3>1, <3>2 DEF RecordOf, Record, Line
    <3>4. CASE file' \in WriteInPart(file, l)
      <4>1. PICK g \in WriteInPart(file, l) : g = file'
        BY <3>4
      <4>2. /\ g \in File /\ (~g.torn => g = file)
            /\ \A n \in 1..Len(g.lines) : g.lines[n].hash \in 0..calls
        BY <1>2, <1>3, <3>3, WriteInPartType
      <4>. QED  BY <1>1, <1>2, <4>1, <4>2 DEF ChainInv
    <3>5. CASE file' = Write(file, l, TRUE)
      <4>1. /\ Write(file, l, TRUE) \in File /\ ~Write(file, l, TRUE).torn
            /\ \A n \in 1..Len(Write(file, l, TRUE).lines) :
                 Write(file, l, TRUE).lines[n].hash \in 0..calls
        BY <1>2, <1>3, <3>3, WriteType
      <4>2. ASSUME ~torn
            PROVE  /\ OnRecord(Write(file, l, TRUE)) = OnRecord(file) \cup {l.hash}
                   /\ ~parted => VerifyChain(Write(file, l, TRUE))
        <5>1. ~file.torn /\ (~parted => VerifyChain(file) /\ l.prev = LastHash(file))
          BY <1>2, <3>3, <4>2 DEF RecordInv, ChainInv
        <5>. QED  BY <1>2, <3>3, <5>1, WriteWhole
      <4>3. OnRecord(file)' = OnRecord(Write(file, l, TRUE))
            /\ VerifyChain(file)' = VerifyChain(Write(file, l, TRUE))
        BY <3>5
      <4>4. ~torn' => ~torn /\ ~file'.torn
        BY <1>1, <1>2 DEF TypeOK
      <4>5. file' \in File /\ \A n \in 1..Len(file'.lines) : file'.lines[n].hash \in 0..calls
        BY <3>5, <4>1
      <4>. QED  BY <4>2, <4>3, <4>4, <4>5
    <3>. QED  BY <2>2, <3>2, <3>4, <3>5
  <2>. QED  BY <1>1, <2>1, <2>2 DEF LeftBehind
<1>5. lastHash' \in 0..calls /\ (VerifyChain(file)' => lastHash' = LastHash(file)')
  BY <1>1, <1>2, <1>4, RecoverType
<1>6. limiters' \in Seq(Limiter) /\ Len(limiters') = Len(limiters) + 1 /\ Len(limiters) \in Nat
  <2>1. limiters \in Seq(Limiter) /\ limiters[Len(limiters)] \in Limiter
    BY <1>2 DEF TypeOK, LimitersInv
  <2>2. NewLimiter(limiters[Len(limiters)].limits) \in Limiter
    BY <2>1, NewLimiterType DEF Limiter
  <2>. QED  BY <1>1, <2>1, <2>2, AppendProperties
<1>7. Quiet \in Call' /\ Quiet.pc = "idle" /\ Quiet.serial = 0 /\ ~Quiet.barred
      /\ ~Quiet.written
  <2>1. 0 \in 0..Len(limiters') /\ 0 \in 0..now' /\ 0 \in 0..MaxCalls
    BY <1>1, <1>2, <1>6, Numbers
  <2>. QED  BY <2>1 DEF Call, Quiet
<1>8. call' \in [Worker -> Call'] /\ \A w \in Worker : call'[w] = Quiet
  BY <1>1, <1>7
<1>9. admitted' \in Seq(Admitted(Len(limiters'), now'))
  <2>1. admitted \in Seq(Admitted(Len(limiters), now))
    BY <1>2 DEF TypeOK, Admitted
  <2>2. 1..Len(limiters) \subseteq 1..Len(limiters') /\ now' = now
    BY <1>1, <1>6
  <2>3. Admitted(Len(limiters), now) \subseteq Admitted(Len(limiters'), now')
    BY <2>2 DEF Admitted
  <2>. QED  BY <1>1, <2>1, <2>3
<1>10. TypeOK'
  <2>1. lastHash' \in 0..MaxCalls
    BY <1>2, <1>5, Numbers
  <2>2. torn \in BOOLEAN /\ file'.torn \in BOOLEAN
    BY <1>2, <1>4 DEF TypeOK, File
  <2>3. torn' \in BOOLEAN /\ None \notin Worker
    BY <1>1, <2>2, NoneIsNobody
  <2>. QED  BY <1>1, <1>2, <1>4, <1>6, <1>7, <1>8, <1>9, <2>1, <2>3 DEF TypeOK, Admitted
<1>11. CallsInv' /\ LimitersInv' /\ LinesInv' /\ FreezeInv'
  <2>1. CallsInv'
    BY <1>7, <1>8 DEF CallsInv, CallOK
  <2>2. LimitersInv' /\ LinesInv'
    BY <1>1, <1>2, <1>4, <1>5, <1>6 DEF LimitersInv, LinesInv
  <2>3. FreezeInv'
    BY <1>1, <1>2, <1>7, <1>8 DEF FreezeInv, BarredOK
  <2>. QED  BY <2>1, <2>2, <2>3
<1>12. RecordInv'
  BY <1>1, <1>2, <1>4, <1>7, <1>8 DEF RecordInv, WrittenOK
<1>13. ChainInv'
  BY <1>1, <1>4, <1>5 DEF ChainInv
<1>. QED  BY <1>10, <1>11, <1>12, <1>13 DEF Inv

----------------------------------------------------------------------------
LEMMA InitInv == ASSUME Init PROVE Inv
<1>1. PICK l \in LimitsUsed : limiters = <<NewLimiter(l)>>
  BY DEF Init
<1>2. NewLimiter(l) \in Limiter
  BY NewLimiterType, DispatchAssumption
<1>3. limiters \in Seq(Limiter) /\ Len(limiters) = 1
  BY <1>1, <1>2
<1>4. /\ now = 0 /\ frozen = FALSE /\ file = Empty /\ lastHash = Genesis /\ lock = None
      /\ call = [w \in Worker |-> Quiet] /\ calls = 0 /\ changes = 0 /\ faults = 0
      /\ stopped = FALSE /\ admitted = <<>> /\ told = {} /\ torn = FALSE /\ parted = FALSE
  BY DEF Init
<1>5. Quiet \in Call /\ Quiet.pc = "idle" /\ Quiet.serial = 0 /\ ~Quiet.barred /\ ~Quiet.written
  BY <1>3, <1>4, Numbers DEF Call, Quiet
<1>6. file \in File /\ file.lines = <<>> /\ ~file.torn /\ Len(file.lines) = 0
  BY <1>4 DEF File, Empty
<1>7. TypeOK
  <2>1. \A w \in Worker : call[w] = Quiet
    BY <1>4
  <2>2. call \in [Worker -> Call] /\ None \notin Worker
    BY <1>4, <1>5, NoneIsNobody
  <2>3. admitted \in Seq([limiter : 1..Len(limiters), actor : Actor, read : 0..now, at : 0..now])
    BY <1>4
  <2>4. 0 \in 0..MaxTime /\ 0 \in 0..MaxCalls /\ 0 \in 0..MaxChanges /\ 0 \in 0..MaxFaults
    BY Numbers
  <2>5. /\ \A w \in Worker : lock = w <=> call[w].pc = "sealed"
        /\ \A v, w \in Worker :
             v # w /\ call[v].serial = call[w].serial => call[v].serial = 0
    BY <1>4, <1>5, <2>1, <2>2
  <2>. QED  BY <1>3, <1>4, <1>6, <2>2, <2>3, <2>4, <2>5 DEF TypeOK, Genesis
<1>8. CallsInv /\ LimitersInv /\ LinesInv /\ FreezeInv
  BY <1>3, <1>4, <1>5, <1>6 DEF CallsInv, CallOK, LimitersInv, LinesInv, FreezeInv, BarredOK, Genesis
<1>9. RecordInv
  BY <1>4, <1>5, <1>6 DEF RecordInv, WrittenOK
<1>10. ChainInv
  BY <1>4, <1>6 DEF ChainInv, VerifyChain, LastHash
<1>. QED  BY <1>7, <1>8, <1>9, <1>10 DEF Inv

LEMMA StepInv == ASSUME Inv, [Next]_vars PROVE Inv'
<1>1. CASE UNCHANGED vars
  <2>1. /\ UNCHANGED <<log, call, calls, faults, admitted, told, torn, parted>>
        /\ limiters' = limiters /\ now' = now /\ changes' = changes /\ frozen' = frozen
        /\ stopped' = stopped
    BY <1>1 DEF vars, gate, bounds, history
  <2>. QED  BY <2>1, Standing, Apart
<1>2. ASSUME NEW w \in Worker, Step(w) PROVE Inv'
  BY <1>2, ArriveInv, UnknownToolInv, CheckFrozenInv, ReadClockInv, CheckInv, RunInv, SealInv,
     WriteRecordInv, WriteFailsInv, AnswerInv DEF Step
<1>3. CASE Freeze \/ FreezeFails \/ Unfreeze \/ SavePolicy \/ Restart \/ Tick
  BY <1>3, FreezeHolds, FreezeFailsHolds, UnfreezeHolds, SavePolicyHolds, RestartHolds, TickHolds
<1>. QED  BY <1>1, <1>2, <1>3 DEF Next

THEOREM Invariance == Spec => []Inv
BY InitInv, StepInv, PTL DEF Spec

\* For any number of workers, calls, faults, saves and restarts the state has
\* its type, and one call at most is inside AuditLog.record.
THEOREM TypeCorrectness == Spec => []TypeOK
<1>1. Inv => TypeOK
  BY DEF Inv
<1>. QED  BY <1>1, Invariance, PTL

\* is_frozen comes ahead of everything: after a freeze that was acknowledged
\* no later call of an agent reaches its handler before the unfreeze.
THEOREM Frozen == Spec => []FrozenStops
<1>1. Inv => FrozenStops
  BY DEF Inv, FreezeInv, BarredOK, FrozenStops, Behind
<1>. QED  BY <1>1, Invariance, PTL

\* AuditLog.record comes ahead of the answer: whoever got a result or a reason
\* has a record, as long as the log never ended in a torn line.
THEOREM OnTheRecord == Spec => []AnswersAreOnRecord
<1>1. Inv => AnswersAreOnRecord
  BY DEF Inv, RecordInv, AnswersAreOnRecord
<1>. QED  BY <1>1, Invariance, PTL

\* The lock of AuditLog and _recover_last_hash keep the chain whole, whatever
\* the threads and restarts do, as long as every write was.
THEOREM WholeChain == Spec => []ChainIntact
<1>1. Inv => ChainIntact
  BY DEF Inv, ChainInv, ChainIntact
<1>. QED  BY <1>1, Invariance, PTL

----------------------------------------------------------------------------
\* What the chain is for.

\* The hashes bind: lines of the same hash are the same line.
Binding(f, g) ==
  \A m \in 1..Len(f.lines), n \in 1..Len(g.lines) :
    f.lines[m].hash = g.lines[n].hash => f.lines[m] = g.lines[n]

\* The lines of two logs that end alike, counted from the end.
LEMMA SameFromTheEnd ==
  ASSUME NEW f \in File, NEW g \in File, VerifyChain(f), VerifyChain(g),
         LastHash(f) = LastHash(g), Binding(f, g),
         NEW k \in Nat, k < Len(f.lines), k < Len(g.lines)
  PROVE  f.lines[Len(f.lines) - k] = g.lines[Len(g.lines) - k]
<1>. DEFINE N == Len(f.lines)
            M == Len(g.lines)
            T == {j \in Nat : j < N /\ j < M /\ f.lines[N - j] # g.lines[M - j]}
<1>1. /\ N \in Nat /\ M \in Nat
      /\ DOMAIN f.lines = 1..N /\ DOMAIN g.lines = 1..M
      /\ f.lines = <<>> => N = 0
      /\ g.lines = <<>> => M = 0
  BY DEF File
<1>2. /\ \A n \in 1..N : f.lines[n].prev = IF n = 1 THEN Genesis ELSE f.lines[n - 1].hash
      /\ \A n \in 1..M : g.lines[n].prev = IF n = 1 THEN Genesis ELSE g.lines[n - 1].hash
  BY <1>1 DEF VerifyChain
<1>3. /\ N > 0 => LastHash(f) = f.lines[N].hash
      /\ M > 0 => LastHash(g) = g.lines[M].hash
  BY <1>1 DEF LastHash
<1>4. \A m \in 1..N, n \in 1..M : f.lines[m].hash = g.lines[n].hash => f.lines[m] = g.lines[n]
  BY DEF Binding
<1>. HIDE DEF N, M
<1>5. SUFFICES ASSUME T # {} PROVE FALSE
  <2>1. k \in Nat /\ k < N /\ k < M
    BY DEF N, M
  <2>2. f.lines[N - k] = g.lines[M - k]
    BY <2>1, <1>5
  <2>. QED  BY <2>2 DEF N, M
<1>6. PICK j \in T : \A i \in T : j <= i
  <2>1. T \in SUBSET Nat
    OBVIOUS
  <2>. HIDE DEF T
  <2>. QED  BY <1>5, <2>1, Least
<1>7. j \in Nat /\ j < N /\ j < M /\ f.lines[N - j] # g.lines[M - j]
  OBVIOUS
<1>8. CASE j = 0
  <2>1. f.lines[N].hash = g.lines[M].hash
    BY <1>1, <1>3, <1>7, <1>8
  <2>2. N \in 1..N /\ M \in 1..M /\ N - j = N /\ M - j = M
    BY <1>1, <1>7, <1>8
  <2>. QED  BY <1>4, <1>7, <2>1, <2>2
<1>9. CASE j # 0
  <2>1. /\ j - 1 \in Nat /\ j - 1 < N /\ j - 1 < M /\ ~ j <= j - 1
        /\ N - (j - 1) = (N - j) + 1 /\ M - (j - 1) = (M - j) + 1
    BY <1>1, <1>7, <1>9
  <2>2. f.lines[(N - j) + 1] = g.lines[(M - j) + 1]
    <3>1. j - 1 \notin T
      <4>. HIDE DEF T
      <4>. QED  BY <1>6, <2>1
    <3>. QED  BY <2>1, <3>1
  <2>3. PICK a : a = N - j
    OBVIOUS
  <2>4. PICK b : b = M - j
    OBVIOUS
  <2>5. /\ a \in 1..N /\ a + 1 \in 1..N /\ a + 1 # 1 /\ (a + 1) - 1 = a
        /\ b \in 1..M /\ b + 1 \in 1..M /\ b + 1 # 1 /\ (b + 1) - 1 = b
    BY <1>1, <1>7, <1>9, <2>3, <2>4
  <2>6. f.lines[a].hash = f.lines[a + 1].prev /\ g.lines[b].hash = g.lines[b + 1].prev
    BY <1>2, <2>5
  <2>7. f.lines[a + 1] = g.lines[b + 1]
    BY <2>2, <2>3, <2>4
  <2>8. f.lines[a] = g.lines[b]
    BY <1>4, <2>5, <2>6, <2>7
  <2>. QED  BY <1>7, <2>3, <2>4, <2>8
<1>. QED  BY <1>8, <1>9

\* A log does not end where the other goes on: only a first record follows none.
LEMMA NotShorter ==
  ASSUME NEW f \in File, NEW g \in File, VerifyChain(f), VerifyChain(g),
         LastHash(f) = LastHash(g), Binding(f, g)
  PROVE  ~ Len(f.lines) < Len(g.lines)
<1>. DEFINE N == Len(f.lines)
            M == Len(g.lines)
<1>1. /\ N \in Nat /\ M \in Nat
      /\ DOMAIN f.lines = 1..N /\ DOMAIN g.lines = 1..M
      /\ g.lines # <<>> <=> M # 0
      /\ f.lines = <<>> <=> N = 0
      /\ \A n \in 1..N : f.lines[n].hash \in Nat
      /\ \A n \in 1..M : g.lines[n].hash \in Nat
  BY DEF File, Line, Record, Garbage
<1>2. \A n \in 1..M : /\ g.lines[n].hash # 0
                      /\ g.lines[n].prev = IF n = 1 THEN Genesis ELSE g.lines[n - 1].hash
  BY <1>1 DEF VerifyChain, Readable
<1>3. 1 \in 1..N => f.lines[1].prev = Genesis
  BY <1>1 DEF VerifyChain
<1>4. N > 0 /\ N < M => f.lines[1] = g.lines[(M - N) + 1]
  <2>1. ASSUME N > 0, N < M PROVE f.lines[N - (N - 1)] = g.lines[M - (N - 1)]
    <3>1. N - 1 \in Nat /\ N - 1 < N /\ N - 1 < M
      BY <1>1, <2>1
    <3>. QED  BY <3>1, SameFromTheEnd
  <2>2. N > 0 /\ N < M => N - (N - 1) = 1 /\ M - (N - 1) = (M - N) + 1
    BY <1>1
  <2>. QED  BY <2>1, <2>2
<1>5. N = 0 /\ M # 0 => FALSE
  <2>1. SUFFICES ASSUME N = 0, M # 0 PROVE FALSE
    OBVIOUS
  <2>2. LastHash(f) = 0 /\ LastHash(g) = g.lines[M].hash
    BY <1>1, <2>1 DEF LastHash, Genesis
  <2>3. M \in 1..M
    BY <1>1, <2>1
  <2>. QED  BY <1>2, <2>2, <2>3
<1>. HIDE DEF N, M
<1>6. SUFFICES ASSUME N < M PROVE FALSE
  BY DEF N, M
<1>7. N > 0
  BY <1>1, <1>5, <1>6
<1>8. PICK a : a = M - N
  OBVIOUS
<1>9. a \in 1..M /\ a + 1 \in 1..M /\ a + 1 # 1 /\ (a + 1) - 1 = a /\ 1 \in 1..N
  BY <1>1, <1>6, <1>7, <1>8
<1>10. g.lines[a + 1].prev = g.lines[a].hash /\ g.lines[a].hash # 0
  BY <1>2, <1>9
<1>11. f.lines[1].prev = 0
  BY <1>3, <1>9 DEF Genesis
<1>. QED  BY <1>4, <1>6, <1>7, <1>8, <1>10, <1>11

\* An operator who knows the hash a log ended with detects whatever happened
\* to it: two logs that verify_chain accepts and that end in the same hash
\* have the same lines, as far as the hash binds a record.
THEOREM ChainFixesLog ==
  ASSUME NEW f \in File, NEW g \in File, VerifyChain(f), VerifyChain(g),
         LastHash(f) = LastHash(g), Binding(f, g)
  PROVE  f.lines = g.lines
<1>1. f.lines \in Seq(Line) /\ g.lines \in Seq(Line)
      /\ Len(f.lines) \in Nat /\ Len(g.lines) \in Nat
  BY DEF File
<1>2. Binding(g, f)
  BY DEF Binding
<1>3. ~ Len(f.lines) < Len(g.lines) /\ ~ Len(g.lines) < Len(f.lines)
  BY <1>2, NotShorter
<1>4. Len(f.lines) = Len(g.lines)
  BY <1>1, <1>3
<1>5. ASSUME NEW n \in 1..Len(f.lines) PROVE f.lines[n] = g.lines[n]
  <2>1. PICK k : k = Len(f.lines) - n
    OBVIOUS
  <2>2. k \in Nat /\ k < Len(f.lines) /\ k < Len(g.lines)
        /\ Len(f.lines) - k = n /\ Len(g.lines) - k = n
    BY <1>1, <1>4, <2>1
  <2>. QED  BY <2>2, SameFromTheEnd
<1>. QED  BY <1>1, <1>4, <1>5, SeqEqual

\* Without that hash verify_chain says nothing of records missing at the end:
\* whatever a log that it accepts begins with, it accepts as well.
THEOREM BeginningsVerify ==
  ASSUME NEW f \in File, VerifyChain(f), NEW k \in 0..Len(f.lines), NEW t \in BOOLEAN
  PROVE  VerifyChain([lines |-> SubSeq(f.lines, 1, k), torn |-> t])
<1>. DEFINE s == SubSeq(f.lines, 1, k)
<1>1. f.lines \in Seq(Line) /\ Len(f.lines) \in Nat /\ DOMAIN f.lines = 1..Len(f.lines)
  BY DEF File
<1>2. /\ DOMAIN s = 1..k
      /\ \A n \in 1..k : s[n] = f.lines[n]
  BY <1>1
<1>. HIDE DEF s
<1>3. ASSUME NEW n \in 1..k
      PROVE  Readable(s[n]) /\ s[n].prev = IF n = 1 THEN Genesis ELSE s[n - 1].hash
  <2>1. n \in 1..Len(f.lines) /\ (n # 1 => n - 1 \in 1..k)
    BY <1>1
  <2>. QED  BY <1>1, <1>2, <2>1 DEF VerifyChain
<1>. QED  BY <1>2, <1>3 DEF VerifyChain, s

----------------------------------------------------------------------------
\* The windows.

LEMMA AdmittedType ==
  ASSUME TypeOK
  PROVE  /\ DOMAIN admitted = 1..Len(admitted) /\ Len(admitted) \in Nat /\ now \in Nat
         /\ \A n \in 1..Len(admitted) : /\ admitted[n].read \in 0..now /\ admitted[n].at \in 0..now
                                        /\ admitted[n].limiter \in 1..Len(limiters)
         /\ \A l, a : Of(l, a) \subseteq 1..Len(admitted) /\ IsFiniteSet(Of(l, a))
<1>1. /\ DOMAIN admitted = 1..Len(admitted) /\ Len(admitted) \in Nat /\ now \in Nat
      /\ \A n \in 1..Len(admitted) : /\ admitted[n].read \in 0..now /\ admitted[n].at \in 0..now
                                     /\ admitted[n].limiter \in 1..Len(limiters)
  <2>1. admitted \in Seq(Admitted(Len(limiters), now)) /\ now \in Nat
    BY Numbers DEF TypeOK, Admitted
  <2>2. /\ DOMAIN admitted = 1..Len(admitted) /\ Len(admitted) \in Nat
        /\ \A n \in 1..Len(admitted) : admitted[n] \in Admitted(Len(limiters), now)
    BY <2>1
  <2>. QED  BY <2>1, <2>2 DEF Admitted
<1>2. ASSUME NEW l, NEW a PROVE Of(l, a) \subseteq 1..Len(admitted) /\ IsFiniteSet(Of(l, a))
  <2>1. Of(l, a) \subseteq 1..Len(admitted)
    BY <1>1 DEF Of
  <2>2. IsFiniteSet(1..Len(admitted))
    BY <1>1, FS_Interval
  <2>. QED  BY <2>1, <2>2, FS_Subset
<1>. QED  BY <1>1, <1>2

\* Eviction takes no admission that is in the window.
LEMMA Shortened ==
  ASSUME TypeOK, NEW l, NEW a, NEW q \in Seq(Nat), NEW span \in Nat, NEW t \in Nat, t <= now,
         Kept(l, a, q, span), Stands(l, a, q)
  PROVE  /\ Evict(q, span, t) \in Seq(Nat)
         /\ Kept(l, a, Evict(q, span, t), span)
         /\ Stands(l, a, Evict(q, span, t))
<1>1. PICK k \in 1..(Len(q) + 1) :
        /\ Evict(q, span, t) = SubSeq(q, k, Len(q))
        /\ \A j \in 1..Len(q) : j < k => t - q[j] > span
  BY EvictCuts
<1>2. PICK e : e = Evict(q, span, t)
  OBVIOUS
<1>3. /\ e \in Seq(Nat) /\ Len(e) = Len(q) - k + 1
      /\ \A j \in 1..(Len(q) - k + 1) : e[j] = q[j + k - 1]
  BY <1>1, <1>2, CutType
<1>4. Len(q) \in Nat /\ \A j \in 1..Len(q) : q[j] \in Nat
  OBVIOUS
<1>5. Kept(l, a, e, span)
  <2>. DEFINE L == Live(l, a, span)
  <2>1. PICK f \in [L -> 1..Len(q)] :
          /\ \A m, n \in L : f[m] = f[n] => m = n
          /\ \A n \in L : q[f[n]] = admitted[n].read
    BY DEF Kept
  <2>2. ASSUME NEW n \in L PROVE f[n] \in k..Len(q)
    <3>1. /\ admitted[n].read = admitted[n].at /\ now <= admitted[n].at + span
          /\ admitted[n].at \in Nat /\ now \in Nat
      BY AdmittedType DEF Live, Prompt
    <3>2. q[f[n]] = admitted[n].read /\ f[n] \in 1..Len(q)
      BY <2>1
    <3>3. ~(t - q[f[n]] > span)
      BY <3>1, <3>2
    <3>. QED  BY <1>1, <3>2, <3>3
  <2>. HIDE DEF L
  <2>3. PICK h : h = [n \in L |-> f[n] - k + 1]
    OBVIOUS
  <2>4. h \in [L -> 1..Len(e)]
    BY <1>3, <1>4, <2>2, <2>3
  <2>5. ASSUME NEW m \in L, NEW n \in L, h[m] = h[n] PROVE m = n
    <3>1. f[m] - k + 1 = f[n] - k + 1 /\ f[m] \in k..Len(q) /\ f[n] \in k..Len(q)
      BY <2>2, <2>3, <2>5
    <3>2. f[m] = f[n]
      BY <1>4, <3>1
    <3>. QED  BY <2>1, <3>2
  <2>6. ASSUME NEW n \in L PROVE e[h[n]] = admitted[n].read
    <3>1. h[n] = f[n] - k + 1 /\ f[n] \in k..Len(q)
      BY <2>2, <2>3
    <3>2. h[n] \in 1..(Len(q) - k + 1) /\ h[n] + k - 1 = f[n]
      BY <1>4, <3>1
    <3>. QED  BY <1>3, <2>1, <3>2
  <2>. QED  BY <2>4, <2>5, <2>6 DEF Kept, L
<1>6. Stands(l, a, e)
  <2>1. PICK g \in [1..Len(q) -> Of(l, a)] :
          /\ \A i, j \in 1..Len(q) : i < j => g[i] < g[j]
          /\ \A j \in 1..Len(q) : q[j] = admitted[g[j]].read
    BY DEF Stands
  <2>2. PICK h : h = [j \in 1..Len(e) |-> g[j + k - 1]]
    OBVIOUS
  <2>3. \A j \in 1..Len(e) : j + k - 1 \in 1..Len(q) /\ h[j] = g[j + k - 1]
    BY <1>3, <1>4, <2>2
  <2>4. h \in [1..Len(e) -> Of(l, a)]
    BY <2>2, <2>3
  <2>5. ASSUME NEW i \in 1..Len(e), NEW j \in 1..Len(e), i < j PROVE h[i] < h[j]
    <3>1. i + k - 1 < j + k - 1
      BY <1>3, <2>5
    <3>. QED  BY <2>1, <2>3, <3>1
  <2>6. \A j \in 1..Len(e) : e[j] = admitted[h[j]].read
    BY <1>3, <2>1, <2>3
  <2>. QED  BY <2>4, <2>5, <2>6 DEF Stands
<1>. QED  BY <1>2, <1>3, <1>5, <1>6

\* One more admission.
LEMMA Grown ==
  ASSUME TypeOK, NEW x, admitted' = Append(admitted, x),
         x \in Admitted(Len(limiters), now)
  PROVE  /\ DOMAIN admitted' = 1..(Len(admitted) + 1) /\ Len(admitted') = Len(admitted) + 1
         /\ Len(admitted) \in Nat /\ Len(admitted) + 1 \notin 1..Len(admitted)
         /\ \A n \in 1..Len(admitted) : admitted'[n] = admitted[n]
         /\ admitted'[Len(admitted) + 1] = x
         /\ \A l, a : Of(l, a)' = IF x.limiter = l /\ x.actor = a
                                  THEN Of(l, a) \cup {Len(admitted) + 1} ELSE Of(l, a)
<1>1. admitted \in Seq(Admitted(Len(limiters), now))
  BY DEF TypeOK, Admitted
<1>2. /\ DOMAIN admitted' = 1..(Len(admitted) + 1) /\ Len(admitted') = Len(admitted) + 1
      /\ Len(admitted) \in Nat /\ Len(admitted) + 1 \notin 1..Len(admitted)
      /\ DOMAIN admitted = 1..Len(admitted)
      /\ \A n \in 1..Len(admitted) : admitted'[n] = admitted[n]
      /\ admitted'[Len(admitted) + 1] = x
  <2>1. /\ Append(admitted, x) \in Seq(Admitted(Len(limiters), now))
        /\ Len(Append(admitted, x)) = Len(admitted) + 1
        /\ \A n \in 1..Len(admitted) : Append(admitted, x)[n] = admitted[n]
        /\ Append(admitted, x)[Len(admitted) + 1] = x
    BY <1>1, AppendProperties
  <2>2. DOMAIN Append(admitted, x) = 1..(Len(admitted) + 1)
    BY <2>1
  <2>3. DOMAIN admitted = 1..Len(admitted) /\ Len(admitted) \in Nat
    BY <1>1
  <2>. QED  BY <2>1, <2>2, <2>3
<1>3. ASSUME NEW l, NEW a
      PROVE  Of(l, a)' = IF x.limiter = l /\ x.actor = a
                         THEN Of(l, a) \cup {Len(admitted) + 1} ELSE Of(l, a)
  <2>1. 1..(Len(admitted) + 1) = 1..Len(admitted) \cup {Len(admitted) + 1}
    BY <1>2
  <2>. QED  BY <1>2, <2>1 DEF Of
<1>. QED  BY <1>2, <1>3

\* It takes the last place of its deque...
LEMMA Extended ==
  ASSUME TypeOK, NEW l, NEW a, NEW q \in Seq(Nat), NEW span \in Nat, NEW t \in Nat,
         NEW x \in Admitted(Len(limiters), now), x.limiter = l, x.actor = a, x.read = t, x.at = now,
         admitted' = Append(admitted, x), now' = now,
         Kept(l, a, q, span), Stands(l, a, q)
  PROVE  Kept(l, a, Append(q, t), span)' /\ Stands(l, a, Append(q, t))'
<1>. DEFINE N == Len(admitted) + 1
<1>1. /\ N \notin Of(l, a) /\ Of(l, a)' = Of(l, a) \cup {N} /\ admitted'[N] = x
      /\ \A n \in Of(l, a) : admitted'[n] = admitted[n] /\ n \in 1..Len(admitted)
      /\ Len(admitted) \in Nat
  BY AdmittedType, Grown
<1>2. PICK e : e = Append(q, t)
  OBVIOUS
<1>3. /\ e \in Seq(Nat) /\ Len(e) = Len(q) + 1 /\ Len(q) \in Nat
      /\ \A j \in 1..Len(q) : e[j] = q[j]
      /\ e[Len(q) + 1] = t
  BY <1>2, AppendProperties
<1>4. Kept(l, a, e, span)'
  <2>. DEFINE L == Live(l, a, span)
              M == Live(l, a, span)'
  <2>1. PICK f \in [L -> 1..Len(q)] :
          /\ \A m, n \in L : f[m] = f[n] => m = n
          /\ \A n \in L : q[f[n]] = admitted[n].read
    BY DEF Kept
  <2>2. \A n \in M : n = N \/ n \in L
    BY <1>1 DEF Live, Prompt
  <2>3. N \notin L /\ L \subseteq Of(l, a)
    BY <1>1 DEF Live
  <2>4. \A n \in M : n \in L => admitted'[n] = admitted[n]
    BY <1>1, <2>3
  <2>. HIDE DEF L, M, N
  <2>5. PICK h : h = [n \in M |-> IF n = N THEN Len(q) + 1 ELSE f[n]]
    OBVIOUS
  <2>6. \A n \in M : /\ n = N => h[n] = Len(q) + 1
                     /\ n # N => n \in L /\ h[n] = f[n] /\ h[n] \in 1..Len(q)
    BY <2>1, <2>2, <2>5
  <2>7. h \in [M -> 1..Len(e)]
    BY <1>3, <2>5, <2>6
  <2>8. ASSUME NEW m \in M, NEW n \in M, h[m] = h[n] PROVE m = n
    <3>1. m = N <=> n = N
      BY <1>3, <2>6, <2>8
    <3>. QED  BY <2>1, <2>6, <2>8, <3>1
  <2>9. ASSUME NEW n \in M PROVE e[h[n]] = admitted'[n].read
    <3>1. CASE n = N
      <4>1. e[h[n]] = t
        BY <1>3, <2>6, <3>1
      <4>2. admitted'[n] = x
        BY <1>1, <3>1
      <4>. QED  BY <4>1, <4>2
    <3>2. CASE n # N
      <4>1. n \in L /\ h[n] = f[n] /\ h[n] \in 1..Len(q)
        BY <2>6, <3>2
      <4>2. e[h[n]] = q[h[n]] /\ admitted'[n] = admitted[n]
        BY <1>3, <2>4, <4>1
      <4>. QED  BY <2>1, <4>1, <4>2
    <3>. QED  BY <3>1, <3>2
  <2>. QED  BY <2>7, <2>8, <2>9 DEF Kept, M
<1>5. Stands(l, a, e)'
  <2>1. PICK g \in [1..Len(q) -> Of(l, a)] :
          /\ \A i, j \in 1..Len(q) : i < j => g[i] < g[j]
          /\ \A j \in 1..Len(q) : q[j] = admitted[g[j]].read
    BY DEF Stands
  <2>. HIDE DEF N
  <2>2. PICK h : h = [j \in 1..Len(e) |-> IF j = Len(q) + 1 THEN N ELSE g[j]]
    OBVIOUS
  <2>3. \A j \in 1..Len(e) : /\ j = Len(q) + 1 => h[j] = N
                             /\ j # Len(q) + 1 => j \in 1..Len(q) /\ h[j] = g[j] /\ h[j] \in Of(l, a)
    <3>. SUFFICES ASSUME NEW j \in 1..Len(e)
                  PROVE  /\ j = Len(q) + 1 => h[j] = N
                         /\ j # Len(q) + 1 => j \in 1..Len(q) /\ h[j] = g[j] /\ h[j] \in Of(l, a)
      OBVIOUS
    <3>1. j # Len(q) + 1 => j \in 1..Len(q)
      BY <1>3
    <3>. QED  BY <2>1, <2>2, <3>1
  <2>4. h \in [1..Len(e) -> Of(l, a)']
    BY <1>1, <2>2, <2>3
  <2>5. ASSUME NEW i \in 1..Len(e), NEW j \in 1..Len(e), i < j PROVE h[i] < h[j]
    <3>1. i # Len(q) + 1
      BY <1>3, <2>5
    <3>2. CASE j = Len(q) + 1
      <4>1. h[j] = N /\ h[i] \in 1..Len(admitted)
        BY <1>1, <2>3, <3>1, <3>2
      <4>. QED  BY <1>1, <4>1 DEF N
    <3>3. CASE j # Len(q) + 1
      BY <2>1, <2>3, <2>5, <3>1, <3>3
    <3>. QED  BY <3>2, <3>3
  <2>6. ASSUME NEW j \in 1..Len(e) PROVE e[j] = admitted'[h[j]].read
    <3>1. CASE j = Len(q) + 1
      <4>1. e[j] = t /\ admitted'[h[j]] = x
        BY <1>1, <1>3, <2>3, <3>1
      <4>. QED  BY <4>1
    <3>2. CASE j # Len(q) + 1
      <4>1. j \in 1..Len(q) /\ h[j] = g[j] /\ h[j] \in Of(l, a)
        BY <2>3, <3>2
      <4>2. e[j] = q[j] /\ admitted'[h[j]] = admitted[h[j]]
        BY <1>1, <1>3, <4>1
      <4>. QED  BY <2>1, <4>1, <4>2
    <3>. QED  BY <3>1, <3>2
  <2>. QED  BY <2>4, <2>5, <2>6 DEF Stands
<1>. QED  BY <1>2, <1>4, <1>5

\* ...and none of another.
LEMMA Elsewhere ==
  ASSUME TypeOK, NEW l, NEW a, NEW q, NEW span,
         NEW x \in Admitted(Len(limiters), now), x.limiter # l \/ x.actor # a,
         admitted' = Append(admitted, x), now' = now,
         Kept(l, a, q, span), Stands(l, a, q)
  PROVE  Kept(l, a, q, span)' /\ Stands(l, a, q)'
<1>1. Of(l, a)' = Of(l, a) /\ \A n \in Of(l, a) : admitted'[n] = admitted[n]
  BY AdmittedType, Grown
<1>2. Live(l, a, span)' = Live(l, a, span) /\ Live(l, a, span) \subseteq Of(l, a)
  <2>1. \A n \in Of(l, a) : Prompt(n)' = Prompt(n)
    BY <1>1 DEF Prompt
  <2>. QED  BY <1>1, <2>1 DEF Live
<1>3. Kept(l, a, q, span)'
  <2>1. PICK f \in [Live(l, a, span) -> 1..Len(q)] :
          /\ \A m, n \in Live(l, a, span) : f[m] = f[n] => m = n
          /\ \A n \in Live(l, a, span) : q[f[n]] = admitted[n].read
    BY DEF Kept
  <2>2. PICK M : M = Live(l, a, span)'
    OBVIOUS
  <2>3. /\ f \in [M -> 1..Len(q)]
        /\ \A m, n \in M : f[m] = f[n] => m = n
        /\ \A n \in M : q[f[n]] = admitted'[n].read
    <3>1. M = Live(l, a, span) /\ \A n \in M : admitted'[n] = admitted[n]
      BY <1>1, <1>2, <2>2
    <3>. QED  BY <2>1, <3>1
  <2>. QED  BY <2>2, <2>3 DEF Kept
<1>4. Stands(l, a, q)'
  <2>1. PICK g \in [1..Len(q) -> Of(l, a)] :
          /\ \A i, j \in 1..Len(q) : i < j => g[i] < g[j]
          /\ \A j \in 1..Len(q) : q[j] = admitted[g[j]].read
    BY DEF Stands
  <2>2. g \in [1..Len(q) -> Of(l, a)'] /\ \A j \in 1..Len(q) : q[j] = admitted'[g[j]].read
    BY <1>1, <2>1
  <2>. QED  BY <2>1, <2>2 DEF Stands
<1>. QED  BY <1>3, <1>4

\* Time takes admissions out of the window and puts none in.
LEMMA Later ==
  ASSUME TypeOK, NEW l, NEW a, NEW q, NEW span \in Nat,
         admitted' = admitted, now' \in Nat, now' >= now,
         Kept(l, a, q, span), Stands(l, a, q)
  PROVE  Kept(l, a, q, span)' /\ Stands(l, a, q)'
<1>. DEFINE L == Live(l, a, span)
            M == Live(l, a, span)'
<1>1. M \subseteq L
  <2>1. \A n \in Of(l, a) : admitted[n].at \in Nat /\ now \in Nat
    BY AdmittedType
  <2>2. Of(l, a)' = Of(l, a)
    BY DEF Of
  <2>. QED  BY <2>1, <2>2 DEF Live, Prompt
<1>2. PICK f \in [L -> 1..Len(q)] :
        /\ \A m, n \in L : f[m] = f[n] => m = n
        /\ \A n \in L : q[f[n]] = admitted[n].read
  BY DEF Kept
<1>3. PICK h : h = [n \in M |-> f[n]]
  OBVIOUS
<1>. HIDE DEF L, M
<1>4. /\ h \in [M -> 1..Len(q)]
      /\ \A m, n \in M : h[m] = h[n] => m = n
      /\ \A n \in M : q[h[n]] = admitted'[n].read
  BY <1>1, <1>2, <1>3
<1>5. Kept(l, a, q, span)'
  BY <1>4 DEF Kept, M
<1>6. Stands(l, a, q)'
  BY DEF Stands, Of
<1>. QED  BY <1>5, <1>6

----------------------------------------------------------------------------
\* The bound, and its use.

Prompts(l, a) == {n \in Of(l, a) : Prompt(n)}

Within(l, a, n, span) ==
  {m \in Prompts(l, a) : admitted[m].at \in admitted[n].at..(admitted[n].at + span)}

Bound(l, a, span, most) == \A n \in Prompts(l, a) : Cardinality(Within(l, a, n, span)) <= most

BoundInv ==
  \A l \in 1..Len(limiters), a \in Actor :
    /\ Bound(l, a, Minute, limiters[l].limits.perMinute)
    /\ Bound(l, a, Day, limiters[l].limits.perDay)

Recent(c, span) == {n \in Of(c.limiter, c.actor) : c.reading - admitted[n].read <= span}

VerdictOK(c) ==
  /\ c.pc = "turned_away"
  /\ \A n \in Of(c.limiter, c.actor) : Prompt(n)
  => \/ Cardinality(Recent(c, Minute)) >= limiters[c.limiter].limits.perMinute
     \/ Cardinality(Recent(c, Day)) >= limiters[c.limiter].limits.perDay

VerdictsInv == \A w \in Worker : VerdictOK(call[w])

RatesInv == DequesInv /\ TimesInv /\ BoundInv /\ VerdictsInv

LEMMA LimiterParts ==
  ASSUME TypeOK, NEW l \in 1..Len(limiters), NEW a \in Actor
  PROVE  /\ limiters[l] \in Limiter
         /\ limiters[l].minute[a] \in Seq(Nat) /\ limiters[l].day[a] \in Seq(Nat)
         /\ limiters[l].limits.perMinute \in Nat /\ limiters[l].limits.perDay \in Nat
<1>1. limiters[l] \in Limiter
  BY DEF TypeOK
<1>2. limiters[l].minute \in [Actor -> Seq(Nat)] /\ limiters[l].day \in [Actor -> Seq(Nat)]
      /\ limiters[l].limits \in Limits
  BY <1>1 DEF Limiter, Window
<1>. QED  BY <1>1, <1>2 DEF Limits

LEMMA Interval ==
  ASSUME NEW y \in Nat, NEW z \in Nat, NEW span \in Nat
  PROVE  y \in z..(z + span) <=> z <= y /\ y <= z + span
OBVIOUS

\* Room in the deque is room in every window the new admission falls into.
LEMMA Bounded ==
  ASSUME TypeOK, TimesInv, NEW l, NEW a, NEW e \in Seq(Nat), NEW span \in Nat, NEW most \in Nat,
         NEW x \in Admitted(Len(limiters), now), x.limiter = l, x.actor = a, x.at = now,
         admitted' = Append(admitted, x), Kept(l, a, e, span), Len(e) < most,
         Bound(l, a, span, most)
  PROVE  Bound(l, a, span, most)'
<1>. DEFINE N == Len(admitted) + 1
<1>1. /\ N \notin Of(l, a) /\ Of(l, a)' = Of(l, a) \cup {N} /\ admitted'[N] = x
      /\ \A n \in Of(l, a) : /\ admitted'[n] = admitted[n] /\ n \in 1..Len(admitted)
                             /\ admitted[n].at \in Nat /\ admitted[n].at <= now
      /\ now \in Nat /\ IsFiniteSet(Of(l, a))
  BY AdmittedType, Grown
<1>. HIDE DEF N
<1>2. SUFFICES ASSUME NEW n \in Prompts(l, a)'
               PROVE  Cardinality(Within(l, a, n, span)') <= most
  BY DEF Bound
<1>3. PICK W : W = Within(l, a, n, span)'
  OBVIOUS
<1>4. \A m \in Of(l, a) : Prompt(m)' = Prompt(m)
  BY <1>1 DEF Prompt
<1>5. Prompts(l, a)' \subseteq Prompts(l, a) \cup {N} /\ Prompts(l, a) \subseteq Of(l, a)
  BY <1>1, <1>4 DEF Prompts
<1>6. n \in Of(l, a) \cup {N} /\ W \subseteq Of(l, a) \cup {N}
  BY <1>3, <1>5 DEF Within
<1>7. PICK z \in Nat : z = admitted'[n].at
  BY <1>1, <1>6
<1>0. \A m : m \in W <=> m \in Prompts(l, a)' /\ admitted'[m].at \in z..(z + span)
  BY <1>3, <1>7 DEF Within
<1>8. CASE N \notin W
  <2>1. n # N
    <3>1. ASSUME n = N PROVE N \in W
      <4>1. z \in z..(z + span)
        BY Interval
      <4>. QED  BY <1>7, <1>0, <3>1, <4>1
    <3>. QED  BY <1>8, <3>1
  <2>2. n \in Prompts(l, a) /\ W \subseteq Prompts(l, a)
    BY <1>3, <1>5, <1>8, <2>1 DEF Within
  <2>3. W \subseteq Within(l, a, n, span)
    <3>1. ASSUME NEW m \in W PROVE m \in Within(l, a, n, span)
      <4>1. admitted'[m].at \in admitted'[n].at..(admitted'[n].at + span)
        BY <1>3 DEF Within
      <4>2. admitted'[m] = admitted[m] /\ admitted'[n] = admitted[n]
        BY <1>1, <1>5, <2>2
      <4>. QED  BY <2>2, <4>1, <4>2 DEF Within
    <3>. QED  BY <3>1
  <2>4. IsFiniteSet(Within(l, a, n, span))
    <3>1. Within(l, a, n, span) \subseteq Of(l, a)
      BY <1>5 DEF Within
    <3>. QED  BY <1>1, <3>1, FS_Subset
  <2>5. Cardinality(W) <= Cardinality(Within(l, a, n, span)) /\ Cardinality(W) \in Nat
        /\ Cardinality(Within(l, a, n, span)) \in Nat
    BY <2>3, <2>4, FS_Subset, FS_CardinalityType
  <2>6. Cardinality(Within(l, a, n, span)) <= most
    BY <2>2 DEF Bound
  <2>. QED  BY <1>3, <2>5, <2>6
<1>9. CASE N \in W
  <2>. DEFINE L == Live(l, a, span)
  <2>1. now <= z + span
    <3>1. admitted'[N].at \in z..(z + span)
      BY <1>9, <1>0
    <3>2. admitted'[N].at = now /\ now \in Nat
      BY <1>1
    <3>3. now \in z..(z + span)
      BY <3>1, <3>2
    <3>. QED  BY <3>2, <3>3, Interval
  <2>2. W \subseteq L \cup {N}
    <3>1. ASSUME NEW m \in W, m # N PROVE m \in L
      <4>1. m \in Prompts(l, a)' /\ admitted'[m].at \in z..(z + span)
        BY <1>0
      <4>2. m \in Prompts(l, a) /\ m \in Of(l, a) /\ Prompt(m)
        BY <1>5, <3>1, <4>1 DEF Prompts
      <4>3. admitted'[m] = admitted[m] /\ admitted[m].at \in Nat
        BY <1>1, <4>2
      <4>4. now <= admitted[m].at + span
        <5>1. PICK y \in Nat : y = admitted[m].at
          BY <4>3
        <5>2. y \in z..(z + span)
          BY <4>1, <4>3, <5>1
        <5>3. z <= y
          BY <5>2, Interval
        <5>4. now \in Nat
          BY <1>1
        <5>5. now <= y + span
          BY <2>1, <5>3, <5>4
        <5>. QED  BY <5>1, <5>5
      <4>. QED  BY <4>2, <4>4 DEF Live
    <3>. QED  BY <3>1
  <2>3. IsFiniteSet(L) /\ Cardinality(L) <= Len(e) /\ Cardinality(L) \in Nat /\ Len(e) \in Nat
    <3>1. PICK f \in [L -> 1..Len(e)] : \A i, j \in L : f[i] = f[j] => i = j
      BY DEF Kept
    <3>. HIDE DEF L
    <3>2. f \in Injection(L, 1..Len(e))
      BY <3>1 DEF Injection, IsInjective
    <3>3. Len(e) \in Nat
      OBVIOUS
    <3>4. IsFiniteSet(1..Len(e)) /\ Cardinality(1..Len(e)) = Len(e)
      <4>1. 1 \in Int /\ Len(e) \in Int /\ (1 > Len(e) => Len(e) = 0)
        BY <3>3
      <4>2. /\ IsFiniteSet(1..Len(e))
            /\ Cardinality(1..Len(e)) = IF 1 > Len(e) THEN 0 ELSE Len(e) - 1 + 1
        BY <4>1, FS_Interval
      <4>. QED  BY <3>3, <4>1, <4>2
    <3>5. IsFiniteSet(L) /\ Cardinality(L) <= Cardinality(1..Len(e))
      BY <3>2, <3>4, FS_Injection
    <3>6. Cardinality(L) \in Nat
      BY <3>5, FS_CardinalityType
    <3>. QED  BY <3>3, <3>4, <3>5, <3>6
  <2>. HIDE DEF L
  <2>4. IsFiniteSet(L \cup {N}) /\ Cardinality(L \cup {N}) <= Cardinality(L) + 1
        /\ Cardinality(L \cup {N}) \in Nat
    <3>1. IsFiniteSet(L \cup {N})
          /\ Cardinality(L \cup {N}) = IF N \in L THEN Cardinality(L) ELSE Cardinality(L) + 1
      BY <2>3, FS_AddElement
    <3>. QED  BY <2>3, <3>1
  <2>5. Cardinality(W) <= Cardinality(L \cup {N}) /\ Cardinality(W) \in Nat
    BY <2>2, <2>4, FS_Subset, FS_CardinalityType
  <2>6. Cardinality(W) <= most
    BY <2>3, <2>4, <2>5
  <2>. QED  BY <1>3, <2>6
<1>. QED  BY <1>8, <1>9

\* What an admission of another limiter or actor leaves alone.
LEMMA BoundElsewhere ==
  ASSUME TypeOK, NEW l, NEW a, NEW span, NEW most,
         NEW x \in Admitted(Len(limiters), now), x.limiter # l \/ x.actor # a,
         admitted' = Append(admitted, x), Bound(l, a, span, most)
  PROVE  Bound(l, a, span, most)'
<1>1. Of(l, a)' = Of(l, a) /\ \A n \in Of(l, a) : admitted'[n] = admitted[n]
  BY AdmittedType, Grown
<1>2. Prompts(l, a)' = Prompts(l, a) /\ Prompts(l, a) \subseteq Of(l, a)
  <2>1. \A n \in Of(l, a) : Prompt(n)' = Prompt(n)
    BY <1>1 DEF Prompt
  <2>. QED  BY <1>1, <2>1 DEF Prompts
<1>3. \A n \in Prompts(l, a) : Within(l, a, n, span)' = Within(l, a, n, span)
  <2>1. \A m \in Prompts(l, a) : admitted'[m] = admitted[m]
    BY <1>1, <1>2
  <2>. QED  BY <1>2, <2>1 DEF Within
<1>. QED  BY <1>2, <1>3 DEF Bound

\* What is left of a deque of prompt admissions is all in the window.
LEMMA FullMeans ==
  ASSUME TypeOK, TimesInv, NEW l, NEW a, NEW q \in Seq(Nat), NEW span \in Nat, NEW t \in Nat,
         Stands(l, a, q), \A n \in Of(l, a) : Prompt(n)
  PROVE  Cardinality({n \in Of(l, a) : t - admitted[n].read <= span}) >= Len(Evict(q, span, t))
<1>. DEFINE R == {n \in Of(l, a) : t - admitted[n].read <= span}
<1>1. PICK k \in 1..(Len(q) + 1) :
        /\ Evict(q, span, t) = SubSeq(q, k, Len(q))
        /\ k <= Len(q) => t - q[k] <= span
  BY EvictCuts
<1>2. PICK g \in [1..Len(q) -> Of(l, a)] :
        /\ \A i, j \in 1..Len(q) : i < j => g[i] < g[j]
        /\ \A j \in 1..Len(q) : q[j] = admitted[g[j]].read
  BY DEF Stands
<1>3. /\ Len(q) \in Nat /\ \A j \in 1..Len(q) : q[j] \in Nat
      /\ Len(Evict(q, span, t)) = Len(q) - k + 1
  <2>1. Len(SubSeq(q, k, Len(q))) = Len(q) - k + 1
    BY CutType
  <2>2. Len(q) \in Nat /\ \A j \in 1..Len(q) : q[j] \in Nat
    OBVIOUS
  <2>. QED  BY <1>1, <2>1, <2>2
<1>4. ASSUME NEW i \in 1..Len(q), NEW j \in 1..Len(q), i < j PROVE q[i] <= q[j]
  <2>1. g[i] \in Of(l, a) /\ g[j] \in Of(l, a) /\ g[i] < g[j]
    BY <1>2, <1>4
  <2>2. g[i] \in 1..Len(admitted) /\ g[j] \in 1..Len(admitted)
    BY <2>1, AdmittedType
  <2>3. admitted[g[i]].at <= admitted[g[j]].at
    BY <2>1, <2>2 DEF TimesInv
  <2>4. admitted[g[i]].read = admitted[g[i]].at /\ admitted[g[j]].read = admitted[g[j]].at
    BY <2>1 DEF Prompt
  <2>5. q[i] = admitted[g[i]].read /\ q[j] = admitted[g[j]].read
    BY <1>2
  <2>. QED  BY <2>3, <2>4, <2>5
<1>5. ASSUME NEW j \in k..Len(q) PROVE g[j] \in R
  <2>1. j \in 1..Len(q) /\ k \in 1..Len(q)
    BY <1>3
  <2>2. q[k] <= q[j]
    <3>1. CASE j = k
      BY <1>3, <2>1, <3>1
    <3>2. CASE j # k
      <4>1. k < j
        BY <1>3, <2>1, <3>2
      <4>. QED  BY <1>4, <2>1, <4>1
    <3>. QED  BY <3>1, <3>2
  <2>3. q[k] \in Nat /\ q[j] \in Nat /\ t - q[k] <= span
    BY <1>1, <1>3, <2>1
  <2>4. t - q[j] <= span
    BY <2>2, <2>3
  <2>. QED  BY <1>2, <2>1, <2>4
<1>6. IsFiniteSet(R) /\ Cardinality(R) \in Nat
  BY AdmittedType, FS_Subset, FS_CardinalityType
<1>. HIDE DEF R
<1>7. PICK h : h = [j \in k..Len(q) |-> g[j]]
  OBVIOUS
<1>8. \A i, j \in k..Len(q) : h[i] = h[j] => i = j
  <2>. SUFFICES ASSUME NEW i \in k..Len(q), NEW j \in k..Len(q), h[i] = h[j], i # j PROVE FALSE
    OBVIOUS
  <2>1. i \in 1..Len(q) /\ j \in 1..Len(q) /\ h[i] = g[i] /\ h[j] = g[j]
    BY <1>3, <1>7
  <2>2. g[i] \in Of(l, a) /\ g[j] \in Of(l, a)
    BY <1>2, <2>1
  <2>3. g[i] \in 1..Len(admitted) /\ g[j] \in 1..Len(admitted)
    BY <2>2, AdmittedType
  <2>4. i \in Int /\ j \in Int /\ (i < j \/ j < i)
    BY <1>3, <2>1
  <2>5. g[i] < g[j] \/ g[j] < g[i]
    BY <1>2, <2>1, <2>4
  <2>6. PICK x \in Int, y \in Int : x = g[i] /\ y = g[j]
    BY <2>3
  <2>7. x = y /\ (x < y \/ y < x)
    BY <2>1, <2>5, <2>6
  <2>. QED  BY <2>7
<1>9. h \in Injection(k..Len(q), R)
  BY <1>5, <1>7, <1>8 DEF Injection, IsInjective
<1>10. Cardinality(k..Len(q)) <= Cardinality(R)
  BY <1>6, <1>9, FS_Injection
<1>11. Cardinality(k..Len(q)) = Len(q) - k + 1
  <2>1. k \in Int /\ Len(q) \in Int /\ k <= Len(q) + 1
    BY <1>3
  <2>2. Cardinality(k..Len(q)) = IF k > Len(q) THEN 0 ELSE Len(q) - k + 1
    BY <2>1, FS_Interval
  <2>. QED  BY <2>1, <2>2
<1>. QED  BY <1>3, <1>6, <1>10, <1>11 DEF R

----------------------------------------------------------------------------
\* The steps.

\* Those that admit nobody and turn nobody away.
LEMMA NoVerdict ==
  ASSUME Inv, RatesInv, admitted' = admitted, now' \in Nat, now' >= now,
         \/ limiters' = limiters
         \/ \E l \in Limits : limiters' = Append(limiters, NewLimiter(l)),
         \A w \in Worker : call'[w].pc = "turned_away" =>
           /\ call[w].pc = "turned_away" /\ call'[w].limiter = call[w].limiter
           /\ call'[w].actor = call[w].actor /\ call'[w].reading = call[w].reading
  PROVE  RatesInv'
<1>1. TypeOK /\ CallsInv /\ DequesInv /\ TimesInv /\ BoundInv /\ VerdictsInv
      /\ Len(limiters) \in Nat /\ limiters \in Seq(Limiter)
  BY DEF Inv, RatesInv, TypeOK
<1>2. /\ \A l, a : Of(l, a)' = Of(l, a)
      /\ \A n : Prompt(n)' = Prompt(n)
  BY DEF Of, Prompt
<1>3. \A l \in 1..Len(limiters) : limiters'[l] = limiters[l] /\ l \in 1..Len(limiters')
  <2>1. CASE limiters' = limiters
    BY <2>1
  <2>2. ASSUME NEW m \in Limits, limiters' = Append(limiters, NewLimiter(m))
        PROVE  \A l \in 1..Len(limiters) : limiters'[l] = limiters[l] /\ l \in 1..Len(limiters')
    <3>1. NewLimiter(m) \in Limiter
      BY NewLimiterType
    <3>. HIDE DEF NewLimiter
    <3>2. /\ Len(limiters') = Len(limiters) + 1
          /\ \A l \in 1..Len(limiters) : limiters'[l] = limiters[l]
      BY <1>1, <2>2, <3>1, AppendProperties
    <3>. QED  BY <1>1, <3>2
  <2>. QED  BY <2>1, <2>2
<1>4. ASSUME NEW l \in 1..Len(limiters'), l \notin 1..Len(limiters), NEW a \in Actor
      PROVE  /\ Of(l, a) = {}
             /\ limiters'[l].minute[a] = <<>> /\ limiters'[l].day[a] = <<>>
  <2>1. PICK m \in Limits : limiters' = Append(limiters, NewLimiter(m))
    BY <1>4
  <2>2. limiters'[l] = NewLimiter(m)
    <3>1. NewLimiter(m) \in Limiter
      BY NewLimiterType
    <3>. HIDE DEF NewLimiter
    <3>2. Len(limiters') = Len(limiters) + 1 /\ limiters'[Len(limiters) + 1] = NewLimiter(m)
      BY <1>1, <2>1, <3>1, AppendProperties
    <3>3. l = Len(limiters) + 1
      BY <1>1, <1>4, <3>2
    <3>. QED  BY <3>2, <3>3
  <2>3. ASSUME NEW n \in Of(l, a) PROVE FALSE
    <3>1. n \in 1..Len(admitted) /\ admitted[n].limiter = l
      BY <1>1, AdmittedType DEF Of
    <3>. QED  BY <1>1, <1>4, <3>1, AdmittedType
  <2>. QED  BY <2>2, <2>3 DEF NewLimiter
<1>5. DequesInv'
  <2>. SUFFICES ASSUME NEW l \in 1..Len(limiters'), NEW a \in Actor
                PROVE  /\ DequeOK(l, a, limiters[l].minute[a], Minute)'
                       /\ DequeOK(l, a, limiters[l].day[a], Day)'
    BY DEF DequesInv
  <2>1. CASE l \in 1..Len(limiters)
    <3>1. PICK q, d : q = limiters[l].minute[a] /\ d = limiters[l].day[a]
      OBVIOUS
    <3>2. limiters'[l].minute[a] = q /\ limiters'[l].day[a] = d
      BY <1>3, <2>1, <3>1
    <3>3. DequeOK(l, a, q, Minute) /\ DequeOK(l, a, d, Day)
      BY <1>1, <2>1, <3>1 DEF DequesInv
    <3>4. ASSUME NEW e, NEW span \in Nat, DequeOK(l, a, e, span) PROVE DequeOK(l, a, e, span)'
      BY <1>1, <3>4, Later DEF DequeOK
    <3>5. DequeOK(l, a, q, Minute)' /\ DequeOK(l, a, d, Day)'
      BY <3>3, <3>4, Numbers
    <3>. QED  BY <3>2, <3>5
  <2>2. CASE l \notin 1..Len(limiters)
    <3>1. /\ Of(l, a)' = {} /\ limiters'[l].minute[a] = <<>> /\ limiters'[l].day[a] = <<>>
      BY <1>2, <1>4, <2>2
    <3>2. ASSUME NEW span PROVE Kept(l, a, <<>>, span)'
      <4>1. Live(l, a, span)' = {}
        BY <3>1 DEF Live
      <4>2. PICK f : f = [n \in {} |-> 1]
        OBVIOUS
      <4>3. f \in [{} -> 1..Len(<<>>)]
        BY <4>2
      <4>. QED  BY <4>1, <4>3 DEF Kept
    <3>3. Stands(l, a, <<>>)'
      <4>1. PICK D : D = 1..Len(<<>>) /\ D = {}
        OBVIOUS
      <4>2. PICK g : g = [n \in D |-> 1]
        OBVIOUS
      <4>3. g \in [D -> Of(l, a)']
        BY <4>1, <4>2
      <4>. QED  BY <4>1, <4>3 DEF Stands
    <3>. QED  BY <3>1, <3>2, <3>3 DEF DequeOK
  <2>. QED  BY <2>1, <2>2
<1>6. TimesInv'
  BY <1>1 DEF TimesInv
<1>7. BoundInv'
  <2>. SUFFICES ASSUME NEW l \in 1..Len(limiters'), NEW a \in Actor
                PROVE  /\ Bound(l, a, Minute, limiters[l].limits.perMinute)'
                       /\ Bound(l, a, Day, limiters[l].limits.perDay)'
    BY DEF BoundInv
  <2>1. Prompts(l, a)' = Prompts(l, a)
    BY <1>2 DEF Prompts
  <2>2. CASE l \in 1..Len(limiters)
    <3>1. ASSUME NEW n, NEW span PROVE Within(l, a, n, span)' = Within(l, a, n, span)
      BY <2>1 DEF Within
    <3>2. limiters'[l] = limiters[l]
      BY <1>3, <2>2
    <3>3. ASSUME NEW span, NEW most, Bound(l, a, span, most) PROVE Bound(l, a, span, most)'
      BY <2>1, <3>1, <3>3 DEF Bound
    <3>4. PICK pm, pd : pm = limiters[l].limits.perMinute /\ pd = limiters[l].limits.perDay
      OBVIOUS
    <3>5. Bound(l, a, Minute, pm) /\ Bound(l, a, Day, pd)
      BY <1>1, <2>2, <3>4 DEF BoundInv
    <3>. QED  BY <3>2, <3>3, <3>4, <3>5
  <2>3. CASE l \notin 1..Len(limiters)
    <3>1. Prompts(l, a)' = {}
      BY <1>4, <2>1, <2>3 DEF Prompts
    <3>. QED  BY <3>1 DEF Bound
  <2>. QED  BY <2>2, <2>3
<1>8. VerdictsInv'
  <2>. SUFFICES ASSUME NEW w \in Worker, call'[w].pc = "turned_away"
                PROVE  VerdictOK(call[w])'
    BY DEF VerdictsInv, VerdictOK
  <2>1. /\ call[w].pc = "turned_away" /\ call'[w].limiter = call[w].limiter
        /\ call'[w].actor = call[w].actor /\ call'[w].reading = call[w].reading
    OBVIOUS
  <2>2. call[w].limiter \in 1..Len(limiters)
    BY <1>1, <2>1 DEF CallsInv, CallOK
  <2>3. limiters'[call'[w].limiter] = limiters[call[w].limiter]
    BY <1>3, <2>1, <2>2
  <2>4. /\ Of(call[w].limiter, call[w].actor)' = Of(call[w].limiter, call[w].actor)
        /\ \A span : Recent(call[w], span)' = Recent(call[w], span)
    BY <2>1 DEF Of, Recent
  <2>5. VerdictOK(call[w])
    BY <1>1 DEF VerdictsInv
  <2>. QED  BY <1>2, <2>1, <2>3, <2>4, <2>5 DEF VerdictOK
<1>. QED  BY <1>5, <1>6, <1>7, <1>8 DEF RatesInv

LEMMA StepsNoVerdict ==
  ASSUME Inv, RatesInv, NEW w \in Worker, Step(w), ~Check(w)
  PROVE  RatesInv'
<1>1. \E c : /\ call' = [call EXCEPT ![w] = c] /\ c.pc # "turned_away"
             /\ UNCHANGED <<now, limiters, admitted>>
  <2>. USE DEF Goes, gate, history
  <2>1. CASE Arrive(w)
    <3>1. PICK a : call' = [call EXCEPT ![w] = [Quiet EXCEPT !.pc = "arrived",
                              !.serial = calls + 1, !.actor = a, !.barred = stopped]]
      BY <2>1 DEF Arrive
    <3>2. PICK c : c = [Quiet EXCEPT !.pc = "arrived",
                              !.serial = calls + 1, !.actor = a, !.barred = stopped]
      OBVIOUS
    <3>3. c.pc = "arrived"
      BY <3>2 DEF Quiet
    <3>. QED  BY <2>1, <3>1, <3>2, <3>3 DEF Arrive
  <2>2. CASE UnknownTool(w) \/ Run(w)
    <3>1. Decided(w).pc = "decided" /\ call' = [call EXCEPT ![w] = Decided(w)]
      BY <2>2, CallType DEF UnknownTool, Run, Inv
    <3>. QED  BY <2>2, <3>1 DEF UnknownTool, Run
  <2>3. CASE CheckFrozen(w)
    <3>1. Decided(w).pc = "decided" /\ call[w] \in Call
      BY CallType DEF Inv
    <3>2. \E c \in {[call[w] EXCEPT !.pc = "running"], Decided(w),
                    [call[w] EXCEPT !.pc = "unfrozen"]} : call' = [call EXCEPT ![w] = c]
      BY <2>3 DEF CheckFrozen
    <3>3. /\ [call[w] EXCEPT !.pc = "running"].pc = "running"
          /\ [call[w] EXCEPT !.pc = "unfrozen"].pc = "unfrozen"
      BY <3>1 DEF Call
    <3>. QED  BY <2>3, <3>1, <3>2, <3>3 DEF CheckFrozen
  <2>4. CASE ReadClock(w)
    <3>1. PICK c : c = [call[w] EXCEPT !.pc = "timed", !.limiter = Len(limiters), !.reading = now]
      OBVIOUS
    <3>2. c.pc = "timed"
      BY <3>1, CallType DEF Inv, Call
    <3>. QED  BY <2>4, <3>1, <3>2 DEF ReadClock
  <2>5. CASE Seal(w)
    <3>1. PICK c : c = [Decided(w) EXCEPT !.pc = "sealed"]
      OBVIOUS
    <3>2. c.pc = "sealed"
      BY <3>1, CallType DEF Inv, Call
    <3>. QED  BY <2>5, <3>1, <3>2 DEF Seal
  <2>6. CASE WriteRecord(w)
    <3>1. PICK c : c = [call[w] EXCEPT !.pc = "recorded", !.written = TRUE]
      OBVIOUS
    <3>2. c.pc = "recorded"
      BY <3>1, CallType DEF Inv, Call
    <3>. QED  BY <2>6, <3>1, <3>2 DEF WriteRecord
  <2>7. CASE WriteFails(w)
    <3>1. PICK c : c = [call[w] EXCEPT !.pc = "recorded"]
      OBVIOUS
    <3>2. c.pc = "recorded"
      BY <3>1, CallType DEF Inv, Call
    <3>. QED  BY <2>7, <3>1, <3>2 DEF WriteFails
  <2>8. CASE Answer(w)
    <3>1. PICK c : c = Quiet
      OBVIOUS
    <3>2. c.pc = "idle"
      BY <3>1 DEF Quiet
    <3>. QED  BY <2>8, <3>1, <3>2 DEF Answer
  <2>. QED  BY <2>1, <2>2, <2>3, <2>4, <2>5, <2>6, <2>7, <2>8 DEF Step
<1>2. PICK c : /\ call' = [call EXCEPT ![w] = c] /\ c.pc # "turned_away"
               /\ UNCHANGED <<now, limiters, admitted>>
  BY <1>1
<1>3. call \in [Worker -> Call] /\ now \in Nat
  BY Numbers DEF Inv, TypeOK
<1>4. ASSUME NEW v \in Worker, call'[v].pc = "turned_away" PROVE call'[v] = call[v]
  BY <1>2, <1>3, <1>4
<1>5. now' \in Nat /\ now' >= now
  BY <1>2, <1>3
<1>. QED  BY <1>2, <1>4, <1>5, NoVerdict

\* The admission of a call, or its refusal.
LEMMA CheckRates == ASSUME Inv, RatesInv, NEW w \in Worker, Check(w) PROVE RatesInv'
<1>0. PICK l0, a0, t : l0 = call[w].limiter /\ a0 = call[w].actor /\ t = call[w].reading
  OBVIOUS
<1>1. call[w].pc = "timed" /\ now' = now
  BY DEF Check
<1>2. /\ TypeOK /\ CallsInv /\ DequesInv /\ TimesInv /\ BoundInv /\ VerdictsInv
      /\ a0 \in Actor /\ l0 \in 1..Len(limiters) /\ t \in Nat /\ t <= now /\ t \in 0..now
      /\ now \in Nat /\ limiters \in Seq(Limiter) /\ limiters[l0] \in Limiter
      /\ call \in [Worker -> Call]
  BY <1>0, <1>1, CheckFinds DEF Inv, RatesInv, TypeOK
<1>3. PICK r : r = limiters[l0]
  OBVIOUS
<1>4. PICK e : e = Evicted(r, a0, t)
  OBVIOUS
<1>5. PICK d : d = Counted(e, a0, t)
  OBVIOUS
<1>6. PICK c \in Call, z \in Limiter :
        /\ call' = [call EXCEPT ![w] = c]
        /\ limiters' = [limiters EXCEPT ![l0] = z]
        /\ z.limits = r.limits /\ c.actor = a0
        /\ \/ /\ c.pc = "turned_away" /\ Full(e, a0) /\ z = e
              /\ c.limiter = l0 /\ c.reading = t /\ admitted' = admitted
           \/ /\ c.pc = "running" /\ ~Full(e, a0) /\ z = d
              /\ admitted' = Append(admitted, Admission(call[w]))
  BY <1>0, <1>3, <1>4, <1>5, CheckEnds
<1>7. PICK x : x = Admission(call[w])
  OBVIOUS
<1>8. /\ x \in Admitted(Len(limiters), now)
      /\ x.limiter = l0 /\ x.actor = a0 /\ x.read = t /\ x.at = now
  BY <1>0, <1>2, <1>7 DEF Admission, Admitted
<1>9. /\ e.limits = r.limits
      /\ \A b \in Actor : e.minute[b] = IF b = a0 THEN Evict(r.minute[a0], Minute, t)
                                        ELSE r.minute[b]
      /\ \A b \in Actor : e.day[b] = IF b = a0 THEN Evict(r.day[a0], Day, t) ELSE r.day[b]
      /\ \A b \in Actor : d.minute[b] = IF b = a0 THEN Append(e.minute[a0], t) ELSE e.minute[b]
      /\ \A b \in Actor : d.day[b] = IF b = a0 THEN Append(e.day[a0], t) ELSE e.day[b]
  <2>1. r \in Limiter /\ a0 \in Actor /\ t \in Nat
    BY <1>2, <1>3
  <2>2. LET f == Evicted(r, a0, t)
            g == Counted(f, a0, t) IN
        /\ f.limits = r.limits
        /\ \A b \in Actor : f.minute[b] = IF b = a0 THEN Evict(r.minute[a0], Minute, t)
                                          ELSE r.minute[b]
        /\ \A b \in Actor : f.day[b] = IF b = a0 THEN Evict(r.day[a0], Day, t) ELSE r.day[b]
        /\ \A b \in Actor : g.minute[b] = IF b = a0 THEN Append(f.minute[a0], t) ELSE f.minute[b]
        /\ \A b \in Actor : g.day[b] = IF b = a0 THEN Append(f.day[a0], t) ELSE f.day[b]
    BY <2>1, EvictedType
  <2>. QED  BY <1>4, <1>5, <2>2
<1>10. /\ Len(limiters') = Len(limiters) /\ limiters'[l0] = z
       /\ \A l \in 1..Len(limiters) : l # l0 => limiters'[l] = limiters[l]
  BY <1>2, <1>6, ExceptSeq
\* The deques of the actor once the old readings are gone.
<1>11. /\ e.minute[a0] \in Seq(Nat) /\ DequeOK(l0, a0, e.minute[a0], Minute)
       /\ e.day[a0] \in Seq(Nat) /\ DequeOK(l0, a0, e.day[a0], Day)
  <2>1. PICK q, v : q = r.minute[a0] /\ v = r.day[a0]
    OBVIOUS
  <2>2. q \in Seq(Nat) /\ v \in Seq(Nat) /\ DequeOK(l0, a0, q, Minute) /\ DequeOK(l0, a0, v, Day)
    BY <1>2, <1>3, <2>1, LimiterParts DEF DequesInv
  <2>3. /\ Evict(q, Minute, t) \in Seq(Nat) /\ DequeOK(l0, a0, Evict(q, Minute, t), Minute)
        /\ Evict(v, Day, t) \in Seq(Nat) /\ DequeOK(l0, a0, Evict(v, Day, t), Day)
    BY <1>2, <2>2, Shortened, Numbers DEF DequeOK
  <2>. QED  BY <1>2, <1>9, <2>1, <2>3
<1>12. CASE /\ c.pc = "turned_away" /\ Full(e, a0) /\ z = e
            /\ c.limiter = l0 /\ c.reading = t /\ admitted' = admitted
  <2>0. ASSUME NEW l, NEW a, NEW q, NEW span \in Nat, DequeOK(l, a, q, span)
        PROVE  DequeOK(l, a, q, span)'
    <3>1. now' \in Nat /\ now' >= now
      BY <1>1, <1>2
    <3>. QED  BY <1>2, <1>12, <2>0, <3>1, Later DEF DequeOK
  <2>1. DequesInv'
    <3>. SUFFICES ASSUME NEW l \in 1..Len(limiters), NEW a \in Actor
                  PROVE  /\ DequeOK(l, a, limiters[l].minute[a], Minute)'
                         /\ DequeOK(l, a, limiters[l].day[a], Day)'
      BY <1>10 DEF DequesInv
    <3>1. PICK q, v : q = limiters'[l].minute[a] /\ v = limiters'[l].day[a]
      OBVIOUS
    <3>2. DequeOK(l, a, q, Minute) /\ DequeOK(l, a, v, Day)
      <4>1. CASE l = l0 /\ a = a0
        BY <1>10, <1>11, <1>12, <3>1, <4>1
      <4>2. CASE l # l0 \/ a # a0
        <5>1. q = limiters[l].minute[a] /\ v = limiters[l].day[a]
          BY <1>3, <1>9, <1>10, <1>12, <3>1, <4>2
        <5>. QED  BY <1>2, <5>1 DEF DequesInv
      <4>. QED  BY <4>1, <4>2
    <3>3. DequeOK(l, a, q, Minute)' /\ DequeOK(l, a, v, Day)'
      BY <2>0, <3>2, Numbers
    <3>. QED  BY <3>1, <3>3
  <2>2. TimesInv'
    BY <1>2, <1>12 DEF TimesInv
  <2>3. \A l \in 1..Len(limiters) : limiters'[l].limits = limiters[l].limits
    BY <1>3, <1>6, <1>10
  <2>4. /\ \A l, a : Of(l, a)' = Of(l, a)
        /\ \A n : Prompt(n)' = Prompt(n)
    BY <1>12 DEF Of, Prompt
  <2>5. BoundInv'
    <3>1. ASSUME NEW l, NEW a PROVE Prompts(l, a)' = Prompts(l, a)
      BY <2>4 DEF Prompts
    <3>2. ASSUME NEW l, NEW a, NEW n, NEW span PROVE Within(l, a, n, span)' = Within(l, a, n, span)
      BY <1>12, <3>1 DEF Within
    <3>3. ASSUME NEW l, NEW a, NEW span, NEW most, Bound(l, a, span, most)
          PROVE  Bound(l, a, span, most)'
      BY <3>1, <3>2, <3>3 DEF Bound
    <3>. SUFFICES ASSUME NEW l \in 1..Len(limiters), NEW a \in Actor
                  PROVE  /\ Bound(l, a, Minute, limiters[l].limits.perMinute)'
                         /\ Bound(l, a, Day, limiters[l].limits.perDay)'
      BY <1>10 DEF BoundInv
    <3>4. PICK pm, pd : pm = limiters[l].limits.perMinute /\ pd = limiters[l].limits.perDay
      OBVIOUS
    <3>5. Bound(l, a, Minute, pm) /\ Bound(l, a, Day, pd)
      BY <1>2, <3>4 DEF BoundInv
    <3>6. limiters'[l].limits.perMinute = pm /\ limiters'[l].limits.perDay = pd
      BY <2>3, <3>4
    <3>. QED  BY <3>3, <3>5, <3>6
  <2>6. VerdictsInv'
    <3>. SUFFICES ASSUME NEW v \in Worker PROVE VerdictOK(call[v])'
      BY DEF VerdictsInv
    <3>1. CASE v # w
      <4>1. call'[v] = call[v]
        BY <1>2, <1>6, <3>1
      <4>2. PICK b : b = call[v]
        OBVIOUS
      <4>3. b.pc = "turned_away" => b.limiter \in 1..Len(limiters)
        BY <1>2, <4>2 DEF CallsInv, CallOK
      <4>4. \A span : Recent(b, span)' = Recent(b, span)
        BY <1>12, <2>4 DEF Recent
      <4>5. VerdictOK(b)
        BY <1>2, <4>2 DEF VerdictsInv
      <4>6. VerdictOK(b)'
        BY <2>3, <2>4, <4>3, <4>4, <4>5 DEF VerdictOK
      <4>. QED  BY <4>1, <4>2, <4>6
    <3>2. CASE v = w
      <4>1. call'[v] = c
        BY <1>2, <1>6, <3>2
      <4>2. SUFFICES ASSUME \A n \in Of(l0, a0) : Prompt(n)
                     PROVE  \/ Cardinality(Recent(c, Minute)') >= limiters'[l0].limits.perMinute
                            \/ Cardinality(Recent(c, Day)') >= limiters'[l0].limits.perDay
        <5>1. SUFFICES VerdictOK(c)'
          BY <4>1
        <5>. QED  BY <1>6, <1>12, <2>4 DEF VerdictOK
      <4>3. \A span : Recent(c, span)' = {n \in Of(l0, a0) : t - admitted[n].read <= span}
        BY <1>6, <1>12, <2>4 DEF Recent
      <4>4. PICK q, u : q = r.minute[a0] /\ u = r.day[a0]
        OBVIOUS
      <4>5. q \in Seq(Nat) /\ u \in Seq(Nat) /\ DequeOK(l0, a0, q, Minute) /\ DequeOK(l0, a0, u, Day)
        BY <1>2, <1>3, <4>4, LimiterParts DEF DequesInv
      <4>6. /\ Cardinality({n \in Of(l0, a0) : t - admitted[n].read <= Minute})
                 >= Len(Evict(q, Minute, t))
            /\ Cardinality({n \in Of(l0, a0) : t - admitted[n].read <= Day})
                 >= Len(Evict(u, Day, t))
        <5>1. ASSUME NEW s \in Seq(Nat), NEW span \in Nat, DequeOK(l0, a0, s, span)
              PROVE  Cardinality({n \in Of(l0, a0) : t - admitted[n].read <= span})
                       >= Len(Evict(s, span, t))
          BY <1>2, <4>2, <5>1, FullMeans DEF DequeOK
        <5>. QED  BY <4>5, <5>1, Numbers
      <4>7. \/ Len(Evict(q, Minute, t)) >= r.limits.perMinute
            \/ Len(Evict(u, Day, t)) >= r.limits.perDay
        <5>1. e.minute[a0] = Evict(q, Minute, t) /\ e.day[a0] = Evict(u, Day, t)
          BY <1>2, <1>9, <4>4
        <5>. QED  BY <1>9, <1>12, <5>1 DEF Full
      <4>8. limiters'[l0].limits = r.limits /\ r.limits.perMinute \in Nat /\ r.limits.perDay \in Nat
        BY <1>2, <1>3, <1>6, <1>10, LimiterParts
      <4>9. PICK M, D : /\ M = {n \in Of(l0, a0) : t - admitted[n].read <= Minute}
                        /\ D = {n \in Of(l0, a0) : t - admitted[n].read <= Day}
        OBVIOUS
      <4>10. Cardinality(M) \in Nat /\ Cardinality(D) \in Nat
        <5>1. IsFiniteSet(Of(l0, a0))
          BY <1>2, AdmittedType
        <5>2. M \in SUBSET Of(l0, a0) /\ D \in SUBSET Of(l0, a0)
          BY <4>9
        <5>. QED  BY <5>1, <5>2, FS_Subset, FS_CardinalityType
      <4>11. PICK i, j : i = Len(Evict(q, Minute, t)) /\ j = Len(Evict(u, Day, t))
        OBVIOUS
      <4>12. i \in Nat /\ j \in Nat
        <5>1. ASSUME NEW s \in Seq(Nat), NEW span \in Nat, DequeOK(l0, a0, s, span)
              PROVE  Len(Evict(s, span, t)) \in Nat
          <6>1. Evict(s, span, t) \in Seq(Nat)
            BY <1>2, <5>1, Shortened DEF DequeOK
          <6>. QED  BY <6>1
        <5>2. Len(Evict(q, Minute, t)) \in Nat /\ Len(Evict(u, Day, t)) \in Nat
          BY <4>5, <5>1, Numbers
        <5>. QED  BY <4>11, <5>2
      <4>13. Cardinality(M) >= i /\ Cardinality(D) >= j
        BY <4>6, <4>9, <4>11
      <4>14. i >= r.limits.perMinute \/ j >= r.limits.perDay
        BY <4>7, <4>11
      <4>15. Cardinality(M) >= r.limits.perMinute \/ Cardinality(D) >= r.limits.perDay
        BY <4>8, <4>10, <4>12, <4>13, <4>14
      <4>. QED  BY <4>3, <4>8, <4>9, <4>15
    <3>. QED  BY <3>1, <3>2
  <2>. QED  BY <2>1, <2>2, <2>5, <2>6 DEF RatesInv
<1>13. CASE /\ c.pc = "running" /\ ~Full(e, a0) /\ z = d
            /\ admitted' = Append(admitted, x)
  <2>1. DequesInv'
    <3>. SUFFICES ASSUME NEW l \in 1..Len(limiters), NEW a \in Actor
                  PROVE  /\ DequeOK(l, a, limiters[l].minute[a], Minute)'
                         /\ DequeOK(l, a, limiters[l].day[a], Day)'
      BY <1>10 DEF DequesInv
    <3>1. PICK q, v : q = limiters'[l].minute[a] /\ v = limiters'[l].day[a]
      OBVIOUS
    <3>2. CASE l = l0 /\ a = a0
      <4>1. PICK m, n : m = e.minute[a0] /\ n = e.day[a0]
        OBVIOUS
      <4>2. q = Append(m, t) /\ v = Append(n, t)
        BY <1>2, <1>9, <1>10, <1>13, <3>1, <3>2, <4>1
      <4>3. /\ m \in Seq(Nat) /\ DequeOK(l0, a0, m, Minute)
            /\ n \in Seq(Nat) /\ DequeOK(l0, a0, n, Day)
        BY <1>11, <4>1
      <4>4. DequeOK(l0, a0, Append(m, t), Minute)' /\ DequeOK(l0, a0, Append(n, t), Day)'
        <5>1. /\ TypeOK /\ t \in Nat /\ x \in Admitted(Len(limiters), now)
              /\ x.limiter = l0 /\ x.actor = a0 /\ x.read = t /\ x.at = now
              /\ admitted' = Append(admitted, x) /\ now' = now
          BY <1>1, <1>2, <1>8, <1>13
        <5>2. Minute \in Nat /\ Day \in Nat
          BY Numbers
        <5>3. DequeOK(l0, a0, Append(m, t), Minute)'
          BY <4>3, <5>1, <5>2, Extended DEF DequeOK
        <5>4. DequeOK(l0, a0, Append(n, t), Day)'
          BY <4>3, <5>1, <5>2, Extended DEF DequeOK
        <5>. QED  BY <5>3, <5>4
      <4>. QED  BY <3>1, <3>2, <4>2, <4>4
    <3>3. CASE l # l0 \/ a # a0
      <4>1. q = limiters[l].minute[a] /\ v = limiters[l].day[a]
        BY <1>3, <1>9, <1>10, <1>13, <3>1, <3>3
      <4>2. DequeOK(l, a, q, Minute) /\ DequeOK(l, a, v, Day)
        BY <1>2, <4>1 DEF DequesInv
      <4>3. DequeOK(l, a, q, Minute)' /\ DequeOK(l, a, v, Day)'
        BY <1>1, <1>2, <1>8, <1>13, <3>3, <4>2, Elsewhere DEF DequeOK
      <4>. QED  BY <3>1, <4>3
    <3>. QED  BY <3>2, <3>3
  <2>2. TimesInv'
    <3>1. /\ Len(admitted') = Len(admitted) + 1 /\ Len(admitted) \in Nat
          /\ \A n \in 1..Len(admitted) : admitted'[n] = admitted[n]
          /\ admitted'[Len(admitted) + 1].at = now
      BY <1>2, <1>8, <1>13, Grown
    <3>2. \A n \in 1..Len(admitted) : admitted[n].at <= now
      BY <1>2, AdmittedType
    <3>. SUFFICES ASSUME NEW m \in 1..(Len(admitted) + 1), NEW n \in 1..(Len(admitted) + 1), m < n
                  PROVE  admitted'[m].at <= admitted'[n].at
      BY <3>1 DEF TimesInv
    <3>3. m \in 1..Len(admitted)
      BY <3>1
    <3>4. CASE n = Len(admitted) + 1
      BY <3>1, <3>2, <3>3, <3>4
    <3>5. CASE n # Len(admitted) + 1
      <4>1. n \in 1..Len(admitted)
        BY <3>1, <3>5
      <4>. QED  BY <1>2, <3>1, <3>3, <4>1 DEF TimesInv
    <3>. QED  BY <3>4, <3>5
  <2>3. BoundInv'
    <3>. SUFFICES ASSUME NEW l \in 1..Len(limiters), NEW a \in Actor
                  PROVE  /\ Bound(l, a, Minute, limiters[l].limits.perMinute)'
                         /\ Bound(l, a, Day, limiters[l].limits.perDay)'
      BY <1>10 DEF BoundInv
    <3>1. PICK pm, pd : pm = limiters[l].limits.perMinute /\ pd = limiters[l].limits.perDay
      OBVIOUS
    <3>2. Bound(l, a, Minute, pm) /\ Bound(l, a, Day, pd) /\ pm \in Nat /\ pd \in Nat
      BY <1>2, <3>1, LimiterParts DEF BoundInv
    <3>3. limiters'[l].limits.perMinute = pm /\ limiters'[l].limits.perDay = pd
      BY <1>3, <1>6, <1>10, <3>1
    <3>4. CASE l = l0 /\ a = a0
      <4>1. PICK m, n : m = e.minute[a0] /\ n = e.day[a0]
        OBVIOUS
      <4>2. /\ m \in Seq(Nat) /\ Kept(l0, a0, m, Minute)
            /\ n \in Seq(Nat) /\ Kept(l0, a0, n, Day)
        BY <1>11, <4>1 DEF DequeOK
      <4>3. Len(m) < pm /\ Len(n) < pd
        <5>1. Len(m) \in Nat /\ Len(n) \in Nat
          BY <4>2
        <5>2. ~(Len(m) >= e.limits.perMinute) /\ ~(Len(n) >= e.limits.perDay)
          BY <1>13, <4>1 DEF Full
        <5>3. e.limits.perMinute = pm /\ e.limits.perDay = pd
          BY <1>3, <1>9, <3>1, <3>4
        <5>. QED  BY <3>2, <5>1, <5>2, <5>3
      <4>4. Bound(l0, a0, Minute, pm)' /\ Bound(l0, a0, Day, pd)'
        <5>1. /\ TypeOK /\ TimesInv /\ x \in Admitted(Len(limiters), now)
              /\ x.limiter = l0 /\ x.actor = a0 /\ x.at = now
              /\ admitted' = Append(admitted, x)
          BY <1>2, <1>8, <1>13
        <5>2. /\ Minute \in Nat /\ Day \in Nat /\ pm \in Nat /\ pd \in Nat
              /\ Bound(l0, a0, Minute, pm) /\ Bound(l0, a0, Day, pd)
          BY <3>2, <3>4, Numbers
        <5>3. Bound(l0, a0, Minute, pm)'
          BY <4>2, <4>3, <5>1, <5>2, Bounded
        <5>4. Bound(l0, a0, Day, pd)'
          BY <4>2, <4>3, <5>1, <5>2, Bounded
        <5>. QED  BY <5>3, <5>4
      <4>. QED  BY <3>3, <3>4, <4>4
    <3>5. CASE l # l0 \/ a # a0
      <4>1. Bound(l, a, Minute, pm)' /\ Bound(l, a, Day, pd)'
        BY <1>2, <1>8, <1>13, <3>2, <3>5, BoundElsewhere
      <4>. QED  BY <3>3, <4>1
    <3>. QED  BY <3>4, <3>5
  <2>4. VerdictsInv'
    <3>. SUFFICES ASSUME NEW v \in Worker, call'[v].pc = "turned_away"
                  PROVE  VerdictOK(call[v])'
      BY DEF VerdictsInv, VerdictOK
    <3>1. v # w /\ call'[v] = call[v]
      BY <1>2, <1>6, <1>13
    <3>2. PICK b : b = call[v]
      OBVIOUS
    <3>3. b.pc = "turned_away" /\ b.limiter \in 1..Len(limiters) /\ VerdictOK(b)
      BY <1>2, <3>1, <3>2 DEF CallsInv, CallOK, VerdictsInv
    <3>4. limiters'[b.limiter].limits = limiters[b.limiter].limits
      BY <1>3, <1>6, <1>10, <3>3
    <3>5. /\ Of(b.limiter, b.actor) \subseteq Of(b.limiter, b.actor)'
          /\ \A n \in Of(b.limiter, b.actor) : admitted'[n] = admitted[n]
      <4>1. \A n \in Of(b.limiter, b.actor) : n \in 1..Len(admitted)
        BY <1>2, AdmittedType
      <4>2. /\ \A n \in 1..Len(admitted) : admitted'[n] = admitted[n]
            /\ \A l, a : Of(l, a) \subseteq Of(l, a)'
        BY <1>2, <1>8, <1>13, Grown
      <4>3. Of(b.limiter, b.actor) \subseteq Of(b.limiter, b.actor)'
        BY <4>2
      <4>. QED  BY <4>1, <4>2, <4>3
    <3>7. ASSUME NEW span
          PROVE  /\ Cardinality(Recent(b, span)) <= Cardinality(Recent(b, span)')
                 /\ Cardinality(Recent(b, span)) \in Nat /\ Cardinality(Recent(b, span)') \in Nat
      <4>1. Recent(b, span) \subseteq Recent(b, span)'
        BY <3>5 DEF Recent
      <4>2. IsFiniteSet(Of(b.limiter, b.actor)')
        <5>1. IsFiniteSet(Of(b.limiter, b.actor) \cup {Len(admitted) + 1})
          BY <1>2, AdmittedType, FS_AddElement
        <5>2. Of(b.limiter, b.actor)' \subseteq Of(b.limiter, b.actor) \cup {Len(admitted) + 1}
          BY <1>2, <1>8, <1>13, Grown
        <5>. QED  BY <5>1, <5>2, FS_Subset
      <4>3. IsFiniteSet(Recent(b, span)')
        BY <4>2, FS_Subset DEF Recent
      <4>. QED  BY <4>1, <4>3, FS_Subset, FS_CardinalityType
    <3>9. limiters[b.limiter].limits.perMinute \in Nat /\ limiters[b.limiter].limits.perDay \in Nat
      <4>1. call[w].actor \in Actor
        BY <1>1, CheckFinds
      <4>. QED  BY <1>2, <3>3, <4>1, LimiterParts
    <3>10. ASSUME \A n \in Of(b.limiter, b.actor)' : Prompt(n)'
           PROVE  \/ Cardinality(Recent(b, Minute)') >= limiters'[b.limiter].limits.perMinute
                  \/ Cardinality(Recent(b, Day)') >= limiters'[b.limiter].limits.perDay
      <4>1. \A n \in Of(b.limiter, b.actor) : Prompt(n)
        BY <3>5, <3>10 DEF Prompt
      <4>2. \/ Cardinality(Recent(b, Minute)) >= limiters[b.limiter].limits.perMinute
            \/ Cardinality(Recent(b, Day)) >= limiters[b.limiter].limits.perDay
        BY <3>3, <4>1 DEF VerdictOK
      <4>. QED  BY <3>4, <3>7, <3>9, <4>2
    <3>11. VerdictOK(b)'
      BY <3>10 DEF VerdictOK
    <3>. QED  BY <3>1, <3>2, <3>11
  <2>. QED  BY <2>1, <2>2, <2>3, <2>4 DEF RatesInv
<1>. QED  BY <1>6, <1>7, <1>12, <1>13

LEMMA InitRates == ASSUME Init PROVE RatesInv
<1>1. PICK m \in Limits : limiters = <<NewLimiter(m)>>
  BY DispatchAssumption DEF Init
<1>2. admitted = <<>> /\ now = 0 /\ call = [w \in Worker |-> Quiet] /\ Len(limiters) = 1
      /\ limiters[1] = NewLimiter(m)
  BY <1>1 DEF Init
<1>3. \A l, a : Of(l, a) = {}
  BY <1>2 DEF Of
<1>4. DequesInv
  <2>1. ASSUME NEW l, NEW a, NEW span PROVE DequeOK(l, a, <<>>, span)
    <3>1. Live(l, a, span) = {}
      BY <1>3 DEF Live
    <3>2. 1..Len(<<>>) = {}
      OBVIOUS
    <3>3. PICK f : f = [n \in {} |-> 1]
      OBVIOUS
    <3>4. f \in [{} -> 1..Len(<<>>)] /\ f \in [1..Len(<<>>) -> {}]
      BY <3>2, <3>3
    <3>. QED  BY <1>3, <3>1, <3>2, <3>4 DEF DequeOK, Kept, Stands
  <2>2. ASSUME NEW a \in Actor
        PROVE  limiters[1].minute[a] = <<>> /\ limiters[1].day[a] = <<>>
    BY <1>2 DEF NewLimiter
  <2>. SUFFICES ASSUME NEW l \in 1..Len(limiters), NEW a \in Actor
                PROVE  /\ DequeOK(l, a, limiters[l].minute[a], Minute)
                       /\ DequeOK(l, a, limiters[l].day[a], Day)
    BY DEF DequesInv
  <2>3. l = 1
    BY <1>2
  <2>4. limiters[l].minute[a] = <<>> /\ limiters[l].day[a] = <<>>
    BY <2>2, <2>3
  <2>. QED  BY <2>1, <2>4
<1>5. TimesInv
  BY <1>2 DEF TimesInv
<1>6. BoundInv
  <2>1. \A l, a : Prompts(l, a) = {}
    BY <1>3 DEF Prompts
  <2>. QED  BY <2>1 DEF BoundInv, Bound
<1>7. VerdictsInv
  BY <1>2 DEF VerdictsInv, VerdictOK, Quiet
<1>. QED  BY <1>4, <1>5, <1>6, <1>7 DEF RatesInv

LEMMA StepRates == ASSUME Inv, RatesInv, [Next]_vars PROVE RatesInv'
<1>1. now \in Nat /\ now >= now /\ limiters \in Seq(Limiter) /\ Len(limiters) > 0
      /\ call \in [Worker -> Call]
  BY Standing, Numbers DEF Inv, TypeOK
<1>2. CASE UNCHANGED vars
  <2>1. now' = now /\ limiters' = limiters /\ call' = call /\ admitted' = admitted
    BY <1>2 DEF vars, gate, history
  <2>. QED  BY <1>1, <2>1, NoVerdict
<1>3. ASSUME NEW w \in Worker, Step(w) PROVE RatesInv'
  BY <1>3, StepsNoVerdict, CheckRates
<1>4. CASE Freeze \/ FreezeFails
  <2>1. now' = now /\ limiters' = limiters /\ call' = call /\ admitted' = admitted
    BY <1>4 DEF Freeze, FreezeFails, history
  <2>. QED  BY <1>1, <2>1, NoVerdict
<1>5. CASE Unfreeze
  <2>1. now' = now /\ limiters' = limiters /\ admitted' = admitted
        /\ call' = [w \in Worker |-> [call[w] EXCEPT !.barred = FALSE]]
    BY <1>5 DEF Unfreeze
  <2>2. ASSUME NEW w \in Worker
        PROVE  /\ call'[w].pc = call[w].pc /\ call'[w].limiter = call[w].limiter
               /\ call'[w].actor = call[w].actor /\ call'[w].reading = call[w].reading
    BY <1>1, <2>1 DEF Call
  <2>. QED  BY <1>1, <2>1, <2>2, NoVerdict
<1>6. CASE SavePolicy
  <2>1. now' = now /\ call' = call /\ admitted' = admitted
    BY <1>6 DEF SavePolicy, history
  <2>2. \E l \in Limits : limiters' = Append(limiters, NewLimiter(l))
    BY <1>6, DispatchAssumption DEF SavePolicy
  <2>. QED  BY <1>1, <2>1, <2>2, NoVerdict
<1>7. CASE Tick
  <2>1. now' = now + 1 /\ limiters' = limiters /\ call' = call /\ admitted' = admitted
    BY <1>7 DEF Tick, gate, history
  <2>2. now' \in Nat /\ now' >= now
    BY <1>1, <2>1
  <2>. QED  BY <2>1, <2>2, NoVerdict
<1>8. CASE Restart
  <2>1. now' = now /\ admitted' = admitted /\ call' = [w \in Worker |-> Quiet]
        /\ limiters' = Append(limiters, NewLimiter(limiters[Len(limiters)].limits))
    BY <1>8 DEF Restart
  <2>2. limiters[Len(limiters)].limits \in Limits
    <3>1. Len(limiters) \in 1..Len(limiters)
      BY <1>1
    <3>2. limiters[Len(limiters)] \in Limiter
      BY <1>1, <3>1
    <3>. QED  BY <3>2 DEF Limiter
  <2>3. \A w \in Worker : call'[w].pc # "turned_away"
    BY <2>1 DEF Quiet
  <2>. QED  BY <1>1, <2>1, <2>2, <2>3, NoVerdict
<1>. QED  BY <1>2, <1>3, <1>4, <1>5, <1>6, <1>7, <1>8 DEF Next

THEOREM Rates == Spec => [](Inv /\ RatesInv)
<1>1. Init => Inv /\ RatesInv
  BY InitInv, InitRates
<1>2. Inv /\ RatesInv /\ [Next]_vars => (Inv /\ RatesInv)'
  BY StepInv, StepRates
<1>. QED  BY <1>1, <1>2, PTL DEF Spec

\* RateLimiter.check: no window of an actor holds more prompt admissions by one
\* limiter than it allows, whatever readings come late from other threads.
THEOREM RatesBounded == Spec => []RateBound
<1>1. ASSUME Inv, RatesInv PROVE RateBound
  <2>1. DOMAIN limiters = 1..Len(limiters)
    BY <1>1 DEF Inv, TypeOK
  <2>2. BoundInv
    BY <1>1 DEF RatesInv
  <2>. SUFFICES ASSUME NEW l \in 1..Len(limiters), NEW a \in Actor, NEW n \in Prompts(l, a)
                PROVE  /\ Cardinality(Within(l, a, n, Minute)) <= limiters[l].limits.perMinute
                       /\ Cardinality(Within(l, a, n, Day)) <= limiters[l].limits.perDay
    BY <2>1 DEF RateBound, Within, Prompts
  <2>. QED  BY <2>2 DEF BoundInv, Bound
<1>. QED  BY <1>1, Rates, PTL

\* What check turns away it turns away for a limit that is used up, when the
\* actor's admissions were all prompt: refusals do not count.
THEOREM FullWhenTurnedAway == Spec => []TurnedAwayOnlyWhenFull
<1>1. ASSUME RatesInv PROVE TurnedAwayOnlyWhenFull
  <2>1. VerdictsInv
    BY <1>1 DEF RatesInv
  <2>. QED  BY <2>1 DEF VerdictsInv, VerdictOK, Recent, TurnedAwayOnlyWhenFull
<1>. QED  BY <1>1, Rates, PTL


=============================================================================
