-------------------------- MODULE ToolCallsProofs --------------------------
(***************************************************************************)
(* Proofs about ToolCalls.tla, for any mailbox, labels, policies, number   *)
(* of workers and cache configuration.                                     *)
(*                                                                         *)
(* The inductive invariant Inv says, for each point of a handler, where    *)
(* the values it has in hand come from: each was live during the call or,  *)
(* once the call is tainted, live at some earlier time.  Provenance only   *)
(* grows while a call is in progress (LEMMA KnownStaysKnown), so a step of *)
(* the owner, the operator or another worker cannot disturb it, and what   *)
(* a verdict was computed from is what ServedInScope and ActsInScope ask.  *)
(***************************************************************************)
EXTENDS ToolCalls, ScopeProofs, MailboxProofs, FiniteSetTheorems

SeenType == [box : [Message -> SUBSET SUBSET Label], names : SUBSET Listing,
             policies : SUBSET Policies]

----------------------------------------------------------------------------
\* The provenance of what a call has in hand.

Busy(w) == call[w].pc # "idle"

\* What is live now has been seen, and what has been seen is remembered.
HistoryInv ==
  /\ names \in pastNames
  /\ \A m \in Message : box[m] \in pastBox[m]
  /\ \A w \in Worker :
       /\ seen[w].names \subseteq pastNames
       /\ \A m \in Message : seen[w].box[m] \subseteq pastBox[m]
       /\ Busy(w) =>
            /\ names \in seen[w].names
            /\ policy \in seen[w].policies
            /\ \A m \in Message : box[m] \in seen[w].box[m]

LabelsKnown(w) == call[w].labels \in LabelsUsable(w, call[w].msg)

CategoriesKnown(w) ==
  \E p \in seen[w].policies : call[w].categories = p.categories

Allowing(w, ids) ==
  \E n \in NamesUsable(w), p \in seen[w].policies :
    ids = ResolveLabelIds(n, p.allowedLabels)

Blocking(w, ids) ==
  \E n \in NamesUsable(w), p \in seen[w].policies :
    ids = ResolveLabelIds(n, p.blockedLabels)

\* The labels of the grant path are what some listing gave, or none.
AllowedKnown(w) == Allowing(w, call[w].allowed) \/ call[w].allowed = {}
BlockedKnown(w) == Blocking(w, call[w].blocked)

HandKnown(w) == \A m \in Message : call[w].hand[m] \in seen[w].box[m]

\* The ids of a validated mutation are ones the policy let through.
Touched(w) == call[w].addIds \cup call[w].removeIds

MutableKnown(w) ==
  \E p \in seen[w].policies :
    ~p.readOnly /\ \A l \in Touched(w) : Mutable(l, p, {})

SparesBlocked(w) == \E ids \in SUBSET Label :
                      Blocking(w, ids) /\ Touched(w) \cap ids = {}

SparesAllowed(w) == \E ids \in SUBSET Label :
                      Allowing(w, ids) /\ Touched(w) \cap ids = {}

MutationKnown(w) ==
  /\ MutableKnown(w)
  /\ SparesBlocked(w)
  /\ ~call[w].blind => SparesAllowed(w)

\* A policy of during the call has let it write; one has allowed trash.
WriteKnown(w) == \E p \in seen[w].policies : ~p.readOnly
TrashKnown(w) == \E p \in seen[w].policies : p.allowTrash

\* pc and next together: where in its handler a call is.
Judging(c) ==
  \/ c.pc \in {"allowed", "blocked"} /\ c.next # "validate"
  \/ c.pc \in {"gate", "recheck", "verify"}

Validating(c) ==
  \/ c.pc \in {"allowed", "blocked"} /\ c.next = "validate"
  \/ c.pc = "validate"

Mutating(c) ==
  c.tool \in ModifyTool /\ ~Validating(c) /\ c.pc \notin {"idle", "listing"}

\* Which tools get where; queries counts the searches still to make, so
\* there is one left at "search".
Placed(w) ==
  LET c == call[w] IN
  /\ c.pc = "idle" => c = Idle
  /\ c.pc = "search" => c.queries > 0
  /\ c.pc = "listing" => c.tool \in ModifyTool \cup {"labels"}
  /\ c.pc \in {"search", "thread", "pick"} => c.tool \notin ModifyTool
  /\ c.pc \in {"content", "recheck"} => c.tool = "get"
  /\ c.pc \in {"modify", "verify", "revert", "validate"} => c.tool \in ModifyTool
  /\ c.pc \in {"permit", "trash"} => c.tool = "trash"
  /\ c.pc \in {"allowed", "blocked"} =>
       /\ c.next = "recheck" => c.tool = "get"
       /\ c.next \in {"validate", "verify"} => c.tool \in ModifyTool
  /\ c.tool = "thread" =>
       /\ c.pc \in {"thread", "pick", "allowed", "blocked", "gate", "reply"}
       /\ c.queries = 0

Known(w) ==
  LET c == call[w] IN
  /\ Judging(c) \/ c.pc = "content" => LabelsKnown(w)
  /\ Judging(c) => CategoriesKnown(w)
  /\ c.pc \in {"blocked", "gate", "recheck", "verify", "validate"} => AllowedKnown(w)
  /\ c.pc \in {"gate", "recheck", "verify", "validate"} => BlockedKnown(w)
  /\ Validating(c) => c.rules \in seen[w].policies
  /\ Validating(c) /\ c.pc # "allowed" /\ ~c.blind => Allowing(w, c.allowed)
  /\ Mutating(c) => MutationKnown(w)
  /\ c.tool = "thread" /\ c.pc # "thread" => HandKnown(w)
  /\ c.tool = "trash" => WriteKnown(w)
  /\ c.tool = "trash" /\ c.pc # "permit" => TrashKnown(w)
  /\ c.pc \in {"modify", "trash"} => InScopeDuring(w, c.msg)
  /\ \A m \in c.served : InScopeDuring(w, m)
  /\ c.pc = "reply" /\ c.tool \in ModifyTool => InScopeBy(w, c.labels)

CallInv(w) == Placed(w) /\ Known(w)

Inv == TypeOK /\ HistoryInv /\ \A w \in Worker : CallInv(w)

----------------------------------------------------------------------------
\* Type correctness.

USE DEF SeenType

LEMMA IdleType == Idle \in Call /\ Unseen \in SeenType
<1>1. Idle.msg \in Message
  BY CallsAssumption DEF Idle
<1>2. Idle \in Call
  BY <1>1, CallsAssumption DEF Idle, Call, PolicyFields, Listing, Tool, ReadTool
<1>3. Unseen \in SeenType
  BY DEF Unseen
<1>4. QED
  BY <1>2, <1>3

\* What Become does to call.
LEMMA BecomeIs ==
  ASSUME TypeOK, NEW w \in Worker, NEW c, Become(w, c)
  PROVE  /\ call'[w] = c
         /\ \A v \in Worker \ {w} : call'[v] = call[v]
         /\ c \in Call => call' \in [Worker -> Call]
BY DEF TypeOK, Become

LEMMA ObserveType ==
  ASSUME TypeOK, Observe, box' \in [Message -> SUBSET Label],
         names' \in Listing, policy' \in Policies
  PROVE  seen' \in [Worker -> SeenType]
<1>1. ASSUME NEW v \in Worker
      PROVE  [box      |-> [m \in Message |-> seen[v].box[m] \cup {box'[m]}],
              names    |-> seen[v].names \cup {names'},
              policies |-> seen[v].policies \cup {policy'}] \in SeenType
  BY DEF TypeOK
<1>2. QED
  BY <1>1, IdleType DEF Observe

LEMMA InitInv == Init => Inv
<1> SUFFICES ASSUME Init PROVE Inv
  OBVIOUS
<1>1. MailboxTypeOK
  BY MailboxAssumption DEF Init, MailboxInit, MailboxTypeOK
<1>2. TypeOK
  BY <1>1, IdleType, CallsAssumption DEF Init, TypeOK
<1>3. HistoryInv
  BY <1>2 DEF Init, MailboxInit, HistoryInv, Busy, Idle, Unseen
<1>4. ASSUME NEW w \in Worker PROVE CallInv(w)
  BY DEF Init, Idle, CallInv, Placed, Known, Judging, Validating, Mutating, ModifyTool
<1>5. QED
  BY <1>2, <1>3, <1>4 DEF Inv

\* Whatever a read returns, live or remembered, is of its type.
LEMMA ReadTypes ==
  ASSUME TypeOK, NEW fresh \in BOOLEAN
  PROVE  /\ ListingReads(fresh) \subseteq [value : Listing, cached : BOOLEAN]
         /\ \A m \in Message :
              /\ MetadataReads(m, fresh) \subseteq [value : SUBSET Label, cached : BOOLEAN]
              /\ ContentReads(m, fresh) \subseteq [value : SUBSET Label, cached : BOOLEAN]
         /\ SearchReads(fresh) \subseteq [value : SUBSET Message, cached : BOOLEAN]
         /\ AllowedReads(fresh) \subseteq
              [ids : SUBSET Label, cached : BOOLEAN, failed : BOOLEAN]
         /\ BlockedReads(fresh) \subseteq [ids : SUBSET Label, cached : BOOLEAN]
<1>1. ASSUME NEW S, NEW v \in S, NEW old \in SUBSET S
      PROVE  Live(v) \cup Remembered(old) \subseteq [value : S, cached : BOOLEAN]
  <2>1. \A u \in S : [value |-> u, cached |-> TRUE] \in [value : S, cached : BOOLEAN]
    OBVIOUS
  <2>2. [value |-> v, cached |-> FALSE] \in [value : S, cached : BOOLEAN]
    OBVIOUS
  <2>3. Remembered(old) \subseteq [value : S, cached : BOOLEAN]
    BY <2>1 DEF Remembered
  <2>4. QED
    BY <2>2, <2>3 DEF Live
<1>2. ListingReads(fresh) \subseteq [value : Listing, cached : BOOLEAN]
  <2>1. names \in Listing /\ pastNames \in SUBSET Listing
    BY DEF TypeOK, MailboxTypeOK
  <2>2. QED
    BY <2>1, <1>1 DEF ListingReads
<1>3. ASSUME NEW m \in Message
      PROVE  /\ MetadataReads(m, fresh) \subseteq [value : SUBSET Label, cached : BOOLEAN]
             /\ ContentReads(m, fresh) \subseteq [value : SUBSET Label, cached : BOOLEAN]
  <2>1. box[m] \in SUBSET Label /\ pastBox[m] \in SUBSET SUBSET Label
    BY DEF TypeOK, MailboxTypeOK
  <2>2. QED
    BY <2>1, <1>1 DEF MetadataReads, ContentReads
<1>4. SearchReads(fresh) \subseteq [value : SUBSET Message, cached : BOOLEAN]
  BY DEF SearchReads
<1>5. \A listing, ids : ResolveLabelIds(listing, ids) \subseteq Label
  BY DEF ResolveLabelIds
<1>6. AllowedReads(fresh) \subseteq
        [ids : SUBSET Label, cached : BOOLEAN, failed : BOOLEAN]
  <2>1. ASSUME NEW r \in ListingReads(fresh)
        PROVE  [ids    |-> ResolveLabelIds(r.value, policy.allowedLabels),
                cached |-> r.cached, failed |-> FALSE]
                 \in [ids : SUBSET Label, cached : BOOLEAN, failed : BOOLEAN]
    <3>1. r.cached \in BOOLEAN
      BY <1>2
    <3>2. QED
      BY <1>5, <3>1
  <2>2. \A failed \in BOOLEAN :
          [ids |-> {}, cached |-> FALSE, failed |-> failed]
            \in [ids : SUBSET Label, cached : BOOLEAN, failed : BOOLEAN]
    OBVIOUS
  <2>3. QED
    BY <2>1, <2>2, Zenon DEF AllowedReads
<1>7. BlockedReads(fresh) \subseteq [ids : SUBSET Label, cached : BOOLEAN]
  <2>1. ASSUME NEW r \in ListingReads(fresh)
        PROVE  [ids    |-> ResolveLabelIds(r.value, policy.blockedLabels),
                cached |-> r.cached] \in [ids : SUBSET Label, cached : BOOLEAN]
    <3>1. r.cached \in BOOLEAN
      BY <1>2
    <3>2. QED
      BY <1>5, <3>1
  <2>2. [ids |-> {}, cached |-> FALSE] \in [ids : SUBSET Label, cached : BOOLEAN]
    OBVIOUS
  <2>3. QED
    BY <2>1, <2>2, Zenon DEF BlockedReads
<1>8. QED
  BY <1>2, <1>3, <1>4, <1>6, <1>7

----------------------------------------------------------------------------
\* Provenance only grows.

\* Every step either leaves the mailbox or remembers what it becomes.
Watched ==
  /\ Observe
  /\ Remember \/ UNCHANGED <<box, names, pastBox, pastNames>>

LEMMA HistoryStep ==
  ASSUME TypeOK, TypeOK', HistoryInv, Watched
  PROVE  HistoryInv'
<1>1. /\ names' \in pastNames' /\ pastNames \subseteq pastNames'
      /\ \A m \in Message : box'[m] \in pastBox'[m] /\ pastBox[m] \subseteq pastBox'[m]
  BY DEF Watched, Remember, HistoryInv, TypeOK, MailboxTypeOK
<1>2. ASSUME NEW w \in Worker
      PROVE  /\ seen'[w].names \subseteq pastNames'
             /\ \A m \in Message : seen'[w].box[m] \subseteq pastBox'[m]
             /\ Busy(w)' => /\ names' \in seen'[w].names
                            /\ policy' \in seen'[w].policies
                            /\ \A m \in Message : box'[m] \in seen'[w].box[m]
  BY <1>1 DEF Watched, Observe, HistoryInv, Busy, Unseen
<1>3. QED
  BY <1>1, <1>2 DEF HistoryInv

\* The values a call in progress may have used stay usable, as long as its
\* fresh and its taint stay or the taint is set.
LEMMA KnownStaysKnown ==
  ASSUME TypeOK, HistoryInv, Watched, NEW w \in Worker, Busy(w), Busy(w)',
         call'[w].fresh = call[w].fresh, call[w].cached => call'[w].cached
  PROVE  /\ \A m \in Message : LabelsUsable(w, m) \subseteq LabelsUsable(w, m)'
         /\ NamesUsable(w) \subseteq NamesUsable(w)'
         /\ seen[w].policies \subseteq seen'[w].policies
         /\ \A m \in Message : seen[w].box[m] \subseteq seen'[w].box[m]
         /\ \A labels : InScopeBy(w, labels) => InScopeBy(w, labels)'
         /\ \A m \in Message : InScopeDuring(w, m) => InScopeDuring(w, m)'
         /\ \A ids : Allowing(w, ids) => Allowing(w, ids)'
         /\ \A ids : Blocking(w, ids) => Blocking(w, ids)'
         /\ WriteKnown(w) => WriteKnown(w)'
         /\ TrashKnown(w) => TrashKnown(w)'
         /\ Touched(w)' = Touched(w) /\ call'[w].blind = call[w].blind
              => (MutationKnown(w) => MutationKnown(w)')
<1>1. /\ pastNames \subseteq pastNames'
      /\ \A m \in Message : pastBox[m] \subseteq pastBox'[m]
  BY DEF Watched, Remember, TypeOK, MailboxTypeOK
<1>2. /\ seen[w].names \subseteq seen'[w].names
      /\ seen[w].policies \subseteq seen'[w].policies
      /\ \A m \in Message : seen[w].box[m] \subseteq seen'[w].box[m]
  BY DEF Watched, Observe, Busy
<1>3. \A m \in Message : LabelsUsable(w, m) \subseteq LabelsUsable(w, m)'
  BY <1>1, <1>2 DEF LabelsUsable, MayBeStale, HistoryInv
<1>4. NamesUsable(w) \subseteq NamesUsable(w)'
  BY <1>1, <1>2 DEF NamesUsable, MayBeStale, HistoryInv
<1>5. /\ \A labels : InScopeBy(w, labels) => InScopeBy(w, labels)'
      /\ \A m \in Message : InScopeDuring(w, m) => InScopeDuring(w, m)'
  <2>1. \A labels : InScopeBy(w, labels) => InScopeBy(w, labels)'
    BY <1>2, <1>4 DEF InScopeBy, InScopeUnder
  <2>2. QED
    BY <1>3, <2>1 DEF InScopeDuring
<1>6. \A ids : Allowing(w, ids) => Allowing(w, ids)'
  BY <1>2, <1>4 DEF Allowing
<1>7. \A ids : Blocking(w, ids) => Blocking(w, ids)'
  BY <1>2, <1>4 DEF Blocking
<1>8. /\ WriteKnown(w) => WriteKnown(w)'
      /\ TrashKnown(w) => TrashKnown(w)'
  BY <1>2 DEF WriteKnown, TrashKnown
<1>9. ASSUME Touched(w)' = Touched(w), call'[w].blind = call[w].blind,
             MutationKnown(w)
      PROVE  MutationKnown(w)'
  <2>1. MutableKnown(w)'
    BY <1>2, <1>9 DEF MutationKnown, MutableKnown
  <2>2. SparesBlocked(w)'
    BY <1>7, <1>9 DEF MutationKnown, SparesBlocked
  <2>3. ~call'[w].blind => SparesAllowed(w)'
    BY <1>6, <1>9 DEF MutationKnown, SparesAllowed
  <2>4. QED
    BY <2>1, <2>2, <2>3 DEF MutationKnown
<1>10. QED
  BY <1>2, <1>3, <1>4, <1>5, <1>6, <1>7, <1>8, <1>9

\* Nothing is in the hand of an idle worker.
LEMMA IdleKnown ==
  ASSUME NEW w \in Worker
  PROVE  /\ call[w] = Idle => CallInv(w)
         /\ call'[w] = Idle => CallInv(w)'
<1>1. call[w] = Idle => CallInv(w)
  BY DEF Idle, CallInv, Placed, Known, Judging, Validating, Mutating, ModifyTool
<1>2. call'[w] = Idle => CallInv(w)'
  BY DEF Idle, CallInv, Placed, Known, Judging, Validating, Mutating, ModifyTool
<1>3. QED
  BY <1>1, <1>2

\* A step that leaves a call alone leaves what is known of it.
LEMMA UntouchedCall ==
  ASSUME TypeOK, HistoryInv, Watched, NEW w \in Worker, call'[w] = call[w],
         CallInv(w)
  PROVE  CallInv(w)'
<1>1. CASE ~Busy(w)
  <2>1. call'[w] = Idle
    BY <1>1 DEF CallInv, Placed, Busy
  <2>2. QED
    BY <2>1, IdleKnown
<1>2. CASE Busy(w)
  <2>1. Busy(w)'
    BY <1>2 DEF Busy
  <2>2. Touched(w)' = Touched(w)
    BY DEF Touched
  <2>3. call[w] \in Call
    BY DEF TypeOK
  <2>4. call[w].msg \in Message /\ call[w].served \subseteq Message
    BY <2>3 DEF Call
  <2>5. Placed(w)'
    BY DEF CallInv, Placed
  <2>6. /\ LabelsKnown(w) => LabelsKnown(w)'
        /\ CategoriesKnown(w) => CategoriesKnown(w)'
        /\ AllowedKnown(w) => AllowedKnown(w)'
        /\ BlockedKnown(w) => BlockedKnown(w)'
        /\ HandKnown(w) => HandKnown(w)'
    BY <1>2, <2>1, <2>4, KnownStaysKnown
       DEF LabelsKnown, CategoriesKnown, AllowedKnown, BlockedKnown, HandKnown
  <2>7. /\ MutationKnown(w) => MutationKnown(w)'
        /\ WriteKnown(w) => WriteKnown(w)'
        /\ TrashKnown(w) => TrashKnown(w)'
        /\ \A labels : InScopeBy(w, labels) => InScopeBy(w, labels)'
        /\ \A m \in Message : InScopeDuring(w, m) => InScopeDuring(w, m)'
        /\ \A ids : Allowing(w, ids) => Allowing(w, ids)'
        /\ seen[w].policies \subseteq seen'[w].policies
    BY <1>2, <2>1, <2>2, KnownStaysKnown
  <2>8. Known(w)
    BY DEF CallInv
  <2>9. Known(w)'
    BY <2>4, <2>6, <2>7, <2>8 DEF Known
  <2>10. QED
    BY <2>5, <2>9 DEF CallInv
<1>3. QED
  BY <1>1, <1>2

----------------------------------------------------------------------------
\* Reads and verdicts.

\* What a read has just returned may be used from now on, if the call carries
\* the read's taint.
LEMMA ReadsUsable ==
  ASSUME TypeOK, HistoryInv, HistoryInv', Watched, NEW w \in Worker,
         Busy(w), Busy(w)', call'[w].fresh = call[w].fresh
  PROVE  /\ \A r \in ListingReads(call[w].fresh) :
              (r.cached => call'[w].cached) => r.value \in NamesUsable(w)'
         /\ \A m \in Message : \A r \in MetadataReads(m, call[w].fresh) :
              (r.cached => call'[w].cached) => r.value \in LabelsUsable(w, m)'
<1>1. /\ pastNames \subseteq pastNames'
      /\ \A m \in Message : pastBox[m] \subseteq pastBox'[m]
  BY DEF Watched, Remember, TypeOK, MailboxTypeOK
<1>2. /\ seen[w].names \subseteq seen'[w].names
      /\ \A m \in Message : seen[w].box[m] \subseteq seen'[w].box[m]
  BY DEF Watched, Observe, Busy
<1>3. names \in NamesUsable(w)' /\ \A m \in Message : box[m] \in LabelsUsable(w, m)'
  BY <1>1, <1>2 DEF HistoryInv, NamesUsable, LabelsUsable
<1>4. ASSUME NEW r \in ListingReads(call[w].fresh), r.cached => call'[w].cached
      PROVE  r.value \in NamesUsable(w)'
  BY <1>1, <1>3, <1>4 DEF ListingReads, Live, Remembered, NamesUsable, MayBeStale
<1>5. ASSUME NEW m \in Message, NEW r \in MetadataReads(m, call[w].fresh),
             r.cached => call'[w].cached
      PROVE  r.value \in LabelsUsable(w, m)'
  BY <1>1, <1>3, <1>5 DEF MetadataReads, Live, Remembered, LabelsUsable, MayBeStale
<1>6. QED
  BY <1>4, <1>5

\* _allowed_label_ids gives what some listing gave, or nothing at all;
\* _blocked_label_ids gives what some listing gave.
LEMMA ScopeReadsUsable ==
  ASSUME TypeOK, HistoryInv, HistoryInv', Watched, NEW w \in Worker,
         Busy(w), Busy(w)', call'[w].fresh = call[w].fresh
  PROVE  /\ \A r \in AllowedReads(call[w].fresh) :
              (r.cached => call'[w].cached) =>
                \/ Allowing(w, r.ids)'
                \/ r.ids = {} /\ r.failed
         /\ \A r \in BlockedReads(call[w].fresh) :
              (r.cached => call'[w].cached) => Blocking(w, r.ids)'
<1>1. policy \in seen'[w].policies /\ names \in NamesUsable(w)'
  BY DEF Watched, Observe, Busy, HistoryInv, NamesUsable
<1>2. \A n : ResolveLabelIds(n, {}) = {}
  BY DEF ResolveLabelIds
<1>3. ASSUME NEW r \in AllowedReads(call[w].fresh), r.cached => call'[w].cached
      PROVE  Allowing(w, r.ids)' \/ (r.ids = {} /\ r.failed)
  <2>1. CASE policy.allowedLabels = {}
    <3>1. r.ids = {}
      BY <1>3, <2>1 DEF AllowedReads
    <3>2. r.ids = ResolveLabelIds(names, policy.allowedLabels)
      BY <1>2, <2>1, <3>1
    <3>3. QED
      BY <1>1, <3>2 DEF Allowing
  <2>2. CASE policy.allowedLabels # {} /\ ~(r.ids = {} /\ r.failed)
    <3>1. PICK v \in ListingReads(call[w].fresh) :
            /\ r.ids = ResolveLabelIds(v.value, policy.allowedLabels)
            /\ r.cached = v.cached
      BY <1>3, <2>2 DEF AllowedReads
    <3>2. v.value \in NamesUsable(w)'
      BY <1>3, <3>1, ReadsUsable
    <3>3. QED
      BY <1>1, <3>1, <3>2 DEF Allowing
  <2>3. QED
    BY <2>1, <2>2
<1>4. ASSUME NEW r \in BlockedReads(call[w].fresh), r.cached => call'[w].cached
      PROVE  Blocking(w, r.ids)'
  <2>1. CASE policy.blockedLabels = {}
    <3>1. r.ids = {}
      BY <1>4, <2>1 DEF BlockedReads
    <3>2. r.ids = ResolveLabelIds(names, policy.blockedLabels)
      BY <1>2, <2>1, <3>1
    <3>3. QED
      BY <1>1, <3>2 DEF Blocking
  <2>2. CASE policy.blockedLabels # {}
    <3>1. PICK v \in ListingReads(call[w].fresh) :
            /\ r.ids = ResolveLabelIds(v.value, policy.blockedLabels)
            /\ r.cached = v.cached
      BY <1>4, <2>2 DEF BlockedReads
    <3>2. v.value \in NamesUsable(w)'
      BY <1>4, <3>1, ReadsUsable
    <3>3. QED
      BY <1>1, <3>1, <3>2 DEF Blocking
  <2>3. QED
    BY <2>1, <2>2
<1>5. QED
  BY <1>3, <1>4

\* A favourable verdict puts the message in scope.  A listing that could not
\* be read for the grants only makes the verdict stricter.
LEMMA VerdictInScope ==
  ASSUME TypeOK, HistoryInv, NEW w \in Worker, Busy(w), Verdict(call[w]),
         LabelsKnown(w), CategoriesKnown(w), AllowedKnown(w), BlockedKnown(w)
  PROVE  InScopeBy(w, call[w].labels) /\ InScopeDuring(w, call[w].msg)
<1> DEFINE c == call[w]
<1>1. PICK p \in seen[w].policies : c.categories = p.categories
  BY DEF CategoriesKnown
<1>2. PICK blocking \in NamesUsable(w), r \in seen[w].policies :
        c.blocked = ResolveLabelIds(blocking, r.blockedLabels)
  BY DEF BlockedKnown, Blocking
<1>3. PICK allowing \in NamesUsable(w), q \in seen[w].policies :
        c.allowed \subseteq ResolveLabelIds(allowing, q.allowedLabels)
  <2>1. CASE Allowing(w, c.allowed)
    BY <2>1 DEF Allowing
  <2>2. CASE c.allowed = {}
    BY <1>2, <2>2
  <2>3. QED
    BY <2>1, <2>2 DEF AllowedKnown
<1>4. IsEligible(c.labels, p.categories,
                 ResolveLabelIds(allowing, q.allowedLabels),
                 ResolveLabelIds(blocking, r.blockedLabels))
  BY <1>1, <1>2, <1>3, MoreGrantsMoreScope DEF Verdict
<1>5. QED
  BY <1>4 DEF InScopeBy, InScopeUnder, InScopeDuring, LabelsKnown

----------------------------------------------------------------------------
\* One step of one worker: what every action of a handler has in common.

\* w has become c; the types, the history and the other calls are in order.
StepMade(w, c) ==
  /\ TypeOK' /\ HistoryInv' /\ Watched
  /\ call'[w] = c
  /\ \A v \in Worker \ {w} : CallInv(v)'

LEMMA WorkerStep ==
  ASSUME Inv, NEW w \in Worker, NEW c \in Call, Become(w, c), MailboxTypeOK',
         Remember \/ UNCHANGED <<box, names, pastBox, pastNames>>,
         policy' \in Policies, writes' \in 0..MaxWrites
  PROVE  StepMade(w, c)
<1>1. /\ call'[w] = c
      /\ \A v \in Worker \ {w} : call'[v] = call[v]
      /\ call' \in [Worker -> Call]
  BY BecomeIs DEF Inv
<1>2. Watched
  BY DEF Watched, Become
<1>3. seen' \in [Worker -> SeenType]
  BY ObserveType DEF Inv, Become, MailboxTypeOK
<1>4. TypeOK'
  BY <1>1, <1>3 DEF TypeOK
<1>5. HistoryInv'
  BY <1>2, <1>4, HistoryStep DEF Inv
<1>6. \A v \in Worker \ {w} : CallInv(v)'
  BY <1>1, <1>2, UntouchedCall DEF Inv
<1>7. QED
  BY <1>1, <1>2, <1>4, <1>5, <1>6 DEF StepMade

LEMMA QuietStep ==
  ASSUME Inv, NEW w \in Worker, NEW c \in Call, Become(w, c), Quiet
  PROVE  StepMade(w, c)
<1>1. MailboxTypeOK' /\ UNCHANGED <<box, names, pastBox, pastNames>>
  BY DEF Inv, TypeOK, Quiet, mailboxVars, MailboxTypeOK
<1>2. policy' \in Policies /\ writes' \in 0..MaxWrites
  BY DEF Inv, TypeOK, Quiet
<1>3. QED
  BY <1>1, <1>2, WorkerStep

LEMMA StepEnds ==
  ASSUME NEW w \in Worker, NEW c, StepMade(w, c), Placed(w)', Known(w)'
  PROVE  Inv'
BY DEF StepMade, CallInv, Inv

LEMMA IdleEnds ==
  ASSUME NEW w \in Worker, StepMade(w, Idle)
  PROVE  Inv'
<1>1. CallInv(w)'
  BY IdleKnown DEF StepMade
<1>2. QED
  BY <1>1 DEF StepMade, Inv

\* An error reply ends the call and leaves the invariant.
LEMMA DenyInv ==
  ASSUME Inv, NEW w \in Worker, Quiet, Deny(w)
  PROVE  Inv'
BY IdleType, QuietStep, IdleEnds DEF Deny

\* What a call keeps through a step of its own stays known.
LEMMA Carried ==
  ASSUME Inv, NEW w \in Worker, NEW c, StepMade(w, c), Busy(w), c.pc # "idle",
         c.fresh = call[w].fresh, call[w].cached => c.cached
  PROVE  /\ LabelsKnown(w) /\ c.labels = call[w].labels /\ c.msg = call[w].msg
              => LabelsKnown(w)'
         /\ CategoriesKnown(w) /\ c.categories = call[w].categories
              => CategoriesKnown(w)'
         /\ AllowedKnown(w) /\ c.allowed = call[w].allowed => AllowedKnown(w)'
         /\ BlockedKnown(w) /\ c.blocked = call[w].blocked => BlockedKnown(w)'
         /\ HandKnown(w) /\ c.hand = call[w].hand => HandKnown(w)'
         /\ \A p \in seen[w].policies : p \in seen'[w].policies
         /\ \A ids : Allowing(w, ids) => Allowing(w, ids)'
         /\ MutationKnown(w) /\ c.addIds = call[w].addIds
              /\ c.removeIds = call[w].removeIds /\ c.blind = call[w].blind
              => MutationKnown(w)'
         /\ WriteKnown(w) => WriteKnown(w)'
         /\ TrashKnown(w) => TrashKnown(w)'
         /\ \A labels : InScopeBy(w, labels) => InScopeBy(w, labels)'
         /\ \A m \in Message : InScopeDuring(w, m) => InScopeDuring(w, m)'
<1>1. TypeOK /\ HistoryInv /\ Watched /\ call'[w] = c
  BY DEF Inv, StepMade
<1>2. Busy(w)'
  BY <1>1 DEF Busy
<1>3. call[w].msg \in Message
  BY <1>1 DEF TypeOK, Call
<1>4. /\ \A m \in Message : LabelsUsable(w, m) \subseteq LabelsUsable(w, m)'
      /\ seen[w].policies \subseteq seen'[w].policies
      /\ \A m \in Message : seen[w].box[m] \subseteq seen'[w].box[m]
      /\ \A labels : InScopeBy(w, labels) => InScopeBy(w, labels)'
      /\ \A m \in Message : InScopeDuring(w, m) => InScopeDuring(w, m)'
      /\ \A ids : Allowing(w, ids) => Allowing(w, ids)'
      /\ \A ids : Blocking(w, ids) => Blocking(w, ids)'
      /\ WriteKnown(w) => WriteKnown(w)'
      /\ TrashKnown(w) => TrashKnown(w)'
      /\ Touched(w)' = Touched(w) /\ call'[w].blind = call[w].blind
           => (MutationKnown(w) => MutationKnown(w)')
  BY <1>1, <1>2, KnownStaysKnown
<1>5. ASSUME LabelsKnown(w), c.labels = call[w].labels, c.msg = call[w].msg
      PROVE  LabelsKnown(w)'
  BY <1>1, <1>3, <1>4, <1>5 DEF LabelsKnown
<1>6. CategoriesKnown(w) /\ c.categories = call[w].categories => CategoriesKnown(w)'
  BY <1>1, <1>4 DEF CategoriesKnown
<1>7. AllowedKnown(w) /\ c.allowed = call[w].allowed => AllowedKnown(w)'
  BY <1>1, <1>4 DEF AllowedKnown
<1>8. BlockedKnown(w) /\ c.blocked = call[w].blocked => BlockedKnown(w)'
  BY <1>1, <1>4 DEF BlockedKnown
<1>9. HandKnown(w) /\ c.hand = call[w].hand => HandKnown(w)'
  BY <1>1, <1>4 DEF HandKnown
<1>10. c.addIds = call[w].addIds /\ c.removeIds = call[w].removeIds
         => Touched(w)' = Touched(w)
  BY <1>1 DEF Touched
<1>11. QED
  BY <1>1, <1>4, <1>5, <1>6, <1>7, <1>8, <1>9, <1>10

----------------------------------------------------------------------------
\* Every action of a handler preserves the invariant.

LEMMA ReadAllowedInv ==
  ASSUME Inv, NEW w \in Worker, ReadAllowed(w)
  PROVE  Inv'
<1> DEFINE c == call[w]
<1>0. c \in Call /\ c.fresh \in BOOLEAN /\ c.cached \in BOOLEAN /\ c.blind \in BOOLEAN
      /\ c.served \subseteq Message
  BY DEF Inv, TypeOK, Call
<1>1. PICK r \in AllowedReads(c.fresh) :
        Become(w, [c EXCEPT !.pc = "blocked",
                            !.allowed = r.ids,
                            !.cached = @ \/ r.cached,
                            !.blind = IF c.next = "validate" THEN r.failed ELSE @])
  BY DEF ReadAllowed
<1> DEFINE d == [c EXCEPT !.pc = "blocked",
                          !.allowed = r.ids,
                          !.cached = @ \/ r.cached,
                          !.blind = IF c.next = "validate" THEN r.failed ELSE @]
<1>2. r \in [ids : SUBSET Label, cached : BOOLEAN, failed : BOOLEAN]
  BY <1>0, ReadTypes DEF Inv
<1>3. r.ids \subseteq Label /\ r.cached \in BOOLEAN /\ r.failed \in BOOLEAN
  BY <1>2
<1>4. d \in Call
  <2>1. (c.cached \/ r.cached) \in BOOLEAN
        /\ (IF c.next = "validate" THEN r.failed ELSE c.blind) \in BOOLEAN
    BY <1>0, <1>3
  <2>2. ASSUME NEW x \in BOOLEAN, NEW y \in BOOLEAN
        PROVE  [c EXCEPT !.pc = "blocked", !.allowed = r.ids, !.cached = x, !.blind = y]
                 \in Call
    BY <1>0, <1>3 DEF Call
  <2>3. QED
    BY <2>1, <2>2
<1>5. StepMade(w, d)
  BY <1>1, <1>4, QuietStep DEF ReadAllowed
<1>6. c.pc = "allowed" /\ Placed(w) /\ Known(w)
  BY DEF ReadAllowed, Inv, CallInv
<1>7. Placed(w)'
  BY <1>0, <1>5, <1>6 DEF Placed, StepMade, Call
<1>8. /\ d.pc = "blocked" /\ d.next = c.next /\ d.tool = c.tool /\ d.fresh = c.fresh
      /\ d.queries = c.queries
      /\ d.msg = c.msg /\ d.rules = c.rules /\ d.labels = c.labels
      /\ d.categories = c.categories /\ d.allowed = r.ids /\ d.addIds = c.addIds
      /\ d.removeIds = c.removeIds /\ d.hand = c.hand /\ d.served = c.served
      /\ d.cached = (c.cached \/ r.cached)
      /\ d.blind = IF c.next = "validate" THEN r.failed ELSE c.blind
  BY <1>0 DEF Call
<1> HIDE DEF d
<1>9. AllowedKnown(w)' /\ (r.ids # {} \/ ~r.failed => Allowing(w, r.ids)')
  BY <1>5, <1>6, <1>8, ScopeReadsUsable
     DEF Inv, StepMade, Busy, AllowedKnown
<1>10. Known(w)'
  BY <1>0, <1>5, <1>6, <1>8, <1>9, Carried
     DEF Known, StepMade, Judging, Validating, Mutating, Busy
<1>11. QED
  BY <1>5, <1>7, <1>10, StepEnds

LEMMA ReadBlockedInv ==
  ASSUME Inv, NEW w \in Worker, ReadBlocked(w)
  PROVE  Inv'
<1> DEFINE c == call[w]
<1>0. c \in Call /\ c.fresh \in BOOLEAN /\ c.cached \in BOOLEAN
      /\ c.served \subseteq Message
  BY DEF Inv, TypeOK, Call
<1>1. PICK r \in BlockedReads(c.fresh) :
        Become(w, [c EXCEPT !.pc = c.next, !.blocked = r.ids,
                            !.cached = @ \/ r.cached])
  BY DEF ReadBlocked
<1> DEFINE d == [c EXCEPT !.pc = c.next, !.blocked = r.ids,
                          !.cached = @ \/ r.cached]
<1>2. r \in [ids : SUBSET Label, cached : BOOLEAN]
  BY <1>0, ReadTypes DEF Inv
<1>3. r.ids \subseteq Label /\ r.cached \in BOOLEAN
  BY <1>2
<1>4. d \in Call
  <2>1. (c.cached \/ r.cached) \in BOOLEAN
    BY <1>0, <1>3
  <2>2. \A c1 \in Call : [c1 EXCEPT !.pc = c1.next] \in Call
    BY DEF Call
  <2>3. [c EXCEPT !.pc = c.next] \in Call
    BY <1>0, <2>2
  <2>4. [[c EXCEPT !.pc = c.next] EXCEPT !.blocked = r.ids,
                                         !.cached = c.cached \/ r.cached] \in Call
    BY <1>3, <2>1, <2>3 DEF Call
  <2>5. QED
    BY <1>0, <2>4 DEF Call
<1>5. StepMade(w, d)
  BY <1>1, <1>4, QuietStep DEF ReadBlocked
<1>6. c.pc = "blocked" /\ Placed(w) /\ Known(w)
  BY DEF ReadBlocked, Inv, CallInv
<1>7. /\ d.pc = c.next /\ d.next = c.next /\ d.tool = c.tool /\ d.fresh = c.fresh
      /\ d.queries = c.queries
      /\ d.msg = c.msg /\ d.rules = c.rules /\ d.labels = c.labels
      /\ d.categories = c.categories /\ d.allowed = c.allowed
      /\ d.blocked = r.ids /\ d.addIds = c.addIds /\ d.blind = c.blind
      /\ d.removeIds = c.removeIds /\ d.hand = c.hand /\ d.served = c.served
      /\ d.cached = (c.cached \/ r.cached)
      /\ d.next \in {"validate", "gate", "recheck", "verify"}
  BY <1>0 DEF Call
<1> HIDE DEF d
<1>8. Placed(w)'
  BY <1>5, <1>6, <1>7 DEF Placed, StepMade, ModifyTool
<1>9. BlockedKnown(w)'
  BY <1>5, <1>6, <1>7, ScopeReadsUsable DEF Inv, StepMade, Busy, BlockedKnown
<1>10. Known(w)'
  BY <1>0, <1>5, <1>6, <1>7, <1>9, Carried
     DEF Known, StepMade, Judging, Validating, Mutating, Busy
<1>11. QED
  BY <1>5, <1>8, <1>10, StepEnds

LEMMA DenyingInv ==
  ASSUME Inv, NEW w \in Worker,
         \/ BlockedUnknown(w) \/ ReadFails(w) \/ GateRefuses(w)
         \/ RevertFails(w) \/ Reply(w)
  PROVE  Inv'
BY DenyInv
   DEF BlockedUnknown, ReadFails, GateRefuses, RevertFails, Reply, Deny

LEMMA ReadMetadataInv ==
  ASSUME Inv, NEW w \in Worker, ReadMetadata(w)
  PROVE  Inv'
<1> DEFINE c == call[w]
<1>0. c \in Call /\ c.fresh \in BOOLEAN /\ c.cached \in BOOLEAN
      /\ c.msg \in Message /\ c.served \subseteq Message
      /\ policy \in PolicyFields
  BY CallsAssumption DEF Inv, TypeOK, Call, Policy
<1>1. PICK r \in MetadataReads(c.msg, c.fresh) :
        Become(w, [c EXCEPT !.pc = "allowed", !.next = "gate",
                            !.labels = r.value,
                            !.categories = policy.categories,
                            !.cached = @ \/ r.cached])
  BY DEF ReadMetadata
<1> DEFINE d == [c EXCEPT !.pc = "allowed", !.next = "gate",
                          !.labels = r.value,
                          !.categories = policy.categories,
                          !.cached = @ \/ r.cached]
<1>2. r \in [value : SUBSET Label, cached : BOOLEAN]
  BY <1>0, ReadTypes DEF Inv
<1>3. r.value \subseteq Label /\ r.cached \in BOOLEAN
      /\ policy.categories \subseteq Category
  BY <1>0, <1>2 DEF PolicyFields
<1>4. d \in Call
  <2>1. (c.cached \/ r.cached) \in BOOLEAN
    BY <1>0, <1>3
  <2>2. QED
    BY <1>0, <1>3, <2>1 DEF Call
<1>5. StepMade(w, d)
  BY <1>1, <1>4, QuietStep DEF ReadMetadata
<1>6. c.pc = "metadata" /\ Placed(w) /\ Known(w)
  BY DEF ReadMetadata, Inv, CallInv
<1>7. /\ d.pc = "allowed" /\ d.next = "gate" /\ d.tool = c.tool /\ d.fresh = c.fresh
      /\ d.queries = c.queries
      /\ d.msg = c.msg /\ d.rules = c.rules /\ d.labels = r.value
      /\ d.categories = policy.categories /\ d.addIds = c.addIds /\ d.blind = c.blind
      /\ d.removeIds = c.removeIds /\ d.hand = c.hand /\ d.served = c.served
      /\ d.cached = (c.cached \/ r.cached)
  BY <1>0 DEF Call
<1> HIDE DEF d
<1>8. Placed(w)'
  BY <1>5, <1>6, <1>7 DEF Placed, StepMade
<1>9. LabelsKnown(w)'
  BY <1>0, <1>5, <1>6, <1>7, ReadsUsable DEF Inv, StepMade, Busy, LabelsKnown
<1>10. CategoriesKnown(w)'
  <2>1. policy \in seen'[w].policies
    BY <1>5, <1>6, <1>7 DEF ReadMetadata, Quiet, StepMade, HistoryInv, Busy
  <2>2. QED
    BY <1>5, <1>7, <2>1 DEF StepMade, CategoriesKnown
<1>11. Known(w)'
  BY <1>0, <1>5, <1>6, <1>7, <1>9, <1>10, Carried
     DEF Known, StepMade, Judging, Validating, Mutating, Busy
<1>12. QED
  BY <1>5, <1>8, <1>11, StepEnds

LEMMA GateOpensInv ==
  ASSUME Inv, NEW w \in Worker, GateOpens(w)
  PROVE  Inv'
<1> DEFINE c == call[w]
<1>0. c \in Call /\ c.msg \in Message /\ c.served \subseteq Message
  BY DEF Inv, TypeOK, Call
<1>1. c.pc = "gate" /\ Placed(w) /\ Known(w) /\ Verdict(c)
  BY DEF GateOpens, Inv, CallInv
<1>2. PICK pc \in {"modify", "trash", "content", "pick"},
            served \in {c.served, c.served \cup {c.msg}} :
        /\ Become(w, [Judged(c) EXCEPT !.pc = pc, !.served = served])
        /\ pc = "modify" => c.tool \in ModifyTool
        /\ pc = "trash" => c.tool = "trash"
        /\ pc = "content" => c.tool = "get"
        /\ pc # "pick" => c.tool # "thread"
        /\ pc = "pick" => c.tool \notin ModifyTool
  <2>1. Judged(c).served = c.served
    BY <1>0 DEF Judged, Call
  <2>2. \A pc : [Judged(c) EXCEPT !.pc = pc, !.served = c.served]
                  = [Judged(c) EXCEPT !.pc = pc]
    BY <1>0 DEF Judged, Call
  <2>3. [Judged(c) EXCEPT !.pc = "pick", !.served = c.served \cup {c.msg}]
          = [Judged(c) EXCEPT !.pc = "pick", !.served = @ \cup {c.msg}]
    BY <2>1
  <2>4. CASE c.tool \in ModifyTool
    BY <2>2, <2>4 DEF GateOpens, ModifyTool
  <2>5. CASE c.tool = "trash"
    BY <2>2, <2>5 DEF GateOpens, ModifyTool
  <2>6. CASE c.tool = "get"
    BY <2>2, <2>6 DEF GateOpens, ModifyTool
  <2>7. CASE c.tool \notin ModifyTool \cup {"trash", "get"}
    BY <2>3, <2>7 DEF GateOpens
  <2>8. QED
    BY <2>4, <2>5, <2>6, <2>7
<1> DEFINE d == [Judged(c) EXCEPT !.pc = pc, !.served = served]
<1>3. d \in Call
  BY <1>0 DEF Call, Judged
<1>4. StepMade(w, d)
  BY <1>2, <1>3, QuietStep DEF GateOpens
<1>5. /\ d.pc = pc /\ d.next = c.next /\ d.tool = c.tool /\ d.fresh = c.fresh
      /\ d.queries = c.queries
      /\ d.msg = c.msg /\ d.rules = c.rules /\ d.labels = c.labels
      /\ d.addIds = c.addIds /\ d.blind = c.blind
      /\ d.removeIds = c.removeIds /\ d.hand = c.hand /\ d.served = served
      /\ d.cached = c.cached
  BY <1>0 DEF Call, Judged
<1> HIDE DEF d
<1>6. Placed(w)'
  BY <1>1, <1>2, <1>4, <1>5 DEF Placed, StepMade
<1>7. InScopeDuring(w, c.msg)
  BY <1>1, VerdictInScope DEF Known, Judging, Inv, Busy
<1>8. Known(w)'
  BY <1>0, <1>1, <1>2, <1>4, <1>5, <1>7, Carried
     DEF Known, StepMade, Judging, Validating, Mutating, Busy
<1>9. QED
  BY <1>4, <1>6, <1>8, StepEnds

LEMMA GateSkipsInv ==
  ASSUME Inv, NEW w \in Worker, GateSkips(w)
  PROVE  Inv'
<1> DEFINE c == call[w]
           d == [Judged(c) EXCEPT !.pc = "pick"]
<1>0. c \in Call /\ c.msg \in Message /\ c.served \subseteq Message
  BY DEF Inv, TypeOK, Call
<1>1. c.pc = "gate" /\ Placed(w) /\ Known(w)
      /\ c.tool \in {"list", "counts", "thread"}
  BY DEF GateSkips, Inv, CallInv
<1>2. d \in Call
  BY <1>0 DEF Call, Judged
<1>3. StepMade(w, d)
  BY <1>2, QuietStep DEF GateSkips
<1>4. /\ d.pc = "pick" /\ d.tool = c.tool /\ d.fresh = c.fresh
      /\ d.queries = c.queries
      /\ d.addIds = c.addIds /\ d.blind = c.blind
      /\ d.removeIds = c.removeIds /\ d.hand = c.hand /\ d.served = c.served
      /\ d.cached = c.cached
  BY <1>0 DEF Call, Judged
<1> HIDE DEF d
<1>5. Placed(w)'
  BY <1>1, <1>3, <1>4 DEF Placed, StepMade, ModifyTool
<1>6. Known(w)'
  BY <1>0, <1>1, <1>3, <1>4, Carried
     DEF Known, StepMade, Judging, Validating, Mutating, Busy, ModifyTool
<1>7. QED
  BY <1>3, <1>5, <1>6, StepEnds

LEMMA SearchInv ==
  ASSUME Inv, NEW w \in Worker, Search(w)
  PROVE  Inv'
<1> DEFINE c == call[w]
<1>0. c \in Call /\ c.fresh \in BOOLEAN /\ c.cached \in BOOLEAN
      /\ c.served \subseteq Message /\ c.queries \in 0..MaxQueries
  BY DEF Inv, TypeOK, Call
<1>1. PICK r \in SearchReads(c.fresh) :
        Become(w, [c EXCEPT !.pc = "pick", !.todo = r.value,
                            !.queries = @ - 1, !.cached = @ \/ r.cached])
  BY DEF Search
<1> DEFINE d == [c EXCEPT !.pc = "pick", !.todo = r.value,
                          !.queries = @ - 1, !.cached = @ \/ r.cached]
<1>2. r \in [value : SUBSET Message, cached : BOOLEAN]
  BY <1>0, ReadTypes DEF Inv
<1>3. r.value \subseteq Message /\ r.cached \in BOOLEAN
  BY <1>2
<1>4. c.pc = "search" /\ Placed(w) /\ Known(w)
  BY DEF Search, Inv, CallInv
<1>5. d \in Call
  <2>1. (c.cached \/ r.cached) \in BOOLEAN
    BY <1>0, <1>3
  <2>2. c.queries - 1 \in 0..MaxQueries
    BY <1>0, <1>4, CallsAssumption DEF Placed
  <2>3. QED
    BY <1>0, <1>3, <2>1, <2>2 DEF Call
<1>6. StepMade(w, d)
  BY <1>1, <1>5, QuietStep DEF Search
<1>7. /\ d.pc = "pick" /\ d.tool = c.tool /\ d.fresh = c.fresh
      /\ d.addIds = c.addIds /\ d.blind = c.blind
      /\ d.removeIds = c.removeIds /\ d.hand = c.hand /\ d.served = c.served
      /\ d.cached = (c.cached \/ r.cached)
  BY <1>0 DEF Call
<1> HIDE DEF d
<1>8. Placed(w)'
  BY <1>4, <1>6, <1>7 DEF Placed, StepMade
<1>9. Known(w)'
  BY <1>0, <1>4, <1>6, <1>7, Carried
     DEF Known, Placed, StepMade, Judging, Validating, Mutating, Busy
<1>10. QED
  BY <1>6, <1>8, <1>9, StepEnds

LEMMA GetThreadInv ==
  ASSUME Inv, NEW w \in Worker, GetThread(w)
  PROVE  Inv'
<1> DEFINE c == call[w]
<1>0. c \in Call /\ c.served \subseteq Message /\ box \in [Message -> SUBSET Label]
  BY DEF Inv, TypeOK, MailboxTypeOK, Call
<1>1. PICK members \in SUBSET Message :
        Become(w, [c EXCEPT !.pc = "pick", !.todo = members, !.hand = box])
  BY DEF GetThread
<1> DEFINE d == [c EXCEPT !.pc = "pick", !.todo = members, !.hand = box]
<1>2. d \in Call
  BY <1>0 DEF Call
<1>3. StepMade(w, d)
  BY <1>1, <1>2, QuietStep DEF GetThread
<1>4. c.pc = "thread" /\ Placed(w) /\ Known(w)
  BY DEF GetThread, Inv, CallInv
<1>5. /\ d.pc = "pick" /\ d.tool = c.tool /\ d.fresh = c.fresh
      /\ d.queries = c.queries
      /\ d.addIds = c.addIds /\ d.blind = c.blind
      /\ d.removeIds = c.removeIds /\ d.hand = box /\ d.served = c.served
      /\ d.cached = c.cached
  BY <1>0 DEF Call
<1> HIDE DEF d
<1>6. Placed(w)'
  BY <1>4, <1>3, <1>5 DEF Placed, StepMade
<1>7. HandKnown(w)'
  BY <1>3, <1>5 DEF StepMade, HistoryInv, Busy, HandKnown, GetThread, Quiet, mailboxVars
<1>8. Known(w)'
  BY <1>0, <1>3, <1>4, <1>5, <1>7, Carried
     DEF Known, StepMade, Judging, Validating, Mutating, Busy
<1>9. QED
  BY <1>3, <1>6, <1>8, StepEnds

LEMMA PickInv ==
  ASSUME Inv, NEW w \in Worker, Pick(w)
  PROVE  Inv'
<1> DEFINE c == call[w]
<1>0. c \in Call /\ c.served \subseteq Message /\ c.todo \subseteq Message
      /\ c.hand \in [Message -> SUBSET Label] /\ policy.categories \subseteq Category
  BY CallsAssumption DEF Inv, TypeOK, Call, Policy, PolicyFields
<1>1. c.pc = "pick" /\ Placed(w) /\ Known(w)
  BY DEF Pick, Inv, CallInv
<1>2. PICK m \in c.todo :
        LET picked == [c EXCEPT !.msg = m, !.todo = @ \ {m}] IN
        IF c.tool = "thread"
        THEN Become(w, [picked EXCEPT !.pc = "allowed", !.next = "gate",
                                      !.labels = c.hand[m],
                                      !.categories = policy.categories])
        ELSE Become(w, [picked EXCEPT !.pc = "metadata"])
  BY DEF Pick
<1> DEFINE picked == [c EXCEPT !.msg = m, !.todo = @ \ {m}]
<1>3. picked \in Call
  BY <1>0 DEF Call
<1>4. CASE c.tool = "thread"
  <2> DEFINE d == [picked EXCEPT !.pc = "allowed", !.next = "gate",
                                 !.labels = c.hand[m],
                                 !.categories = policy.categories]
  <2>1. d \in Call
    <3>1. c.hand[m] \subseteq Label
      BY <1>0
    <3>2. QED
      BY <1>0, <1>3, <3>1 DEF Call
  <2>2. StepMade(w, d)
    BY <1>2, <1>4, <2>1, QuietStep DEF Pick
  <2>3. /\ d.pc = "allowed" /\ d.next = "gate" /\ d.tool = c.tool /\ d.fresh = c.fresh
        /\ d.queries = c.queries
        /\ d.msg = m /\ d.labels = c.hand[m] /\ d.categories = policy.categories
        /\ d.hand = c.hand /\ d.served = c.served /\ d.cached = c.cached
    BY <1>0 DEF Call
  <2> HIDE DEF d
  <2>4. Placed(w)'
    BY <1>1, <1>4, <2>2, <2>3 DEF Placed, StepMade
  <2>5. HandKnown(w)'
    BY <1>1, <1>4, <2>2, <2>3, Carried DEF Known, Busy
  <2>6. LabelsKnown(w)'
    <3>1. c.hand[m] \in seen'[w].box[m] /\ m \in Message
      BY <1>0, <2>2, <2>3, <2>5 DEF HandKnown, StepMade
    <3>2. seen'[w].box[m] \subseteq pastBox'[m]
      BY <2>2, <3>1 DEF StepMade, HistoryInv
    <3>3. QED
      BY <2>2, <2>3, <3>1, <3>2 DEF StepMade, LabelsKnown, LabelsUsable
  <2>7. CategoriesKnown(w)'
    <3>1. policy \in seen'[w].policies
      BY <2>2, <2>3 DEF Pick, Quiet, StepMade, HistoryInv, Busy
    <3>2. QED
      BY <2>2, <2>3, <3>1 DEF StepMade, CategoriesKnown
  <2>8. Known(w)'
    BY <1>0, <1>1, <1>4, <2>2, <2>3, <2>5, <2>6, <2>7, Carried
       DEF Known, StepMade, Judging, Validating, Mutating, Busy, ModifyTool
  <2>9. QED
    BY <2>2, <2>4, <2>8, StepEnds
<1>5. CASE c.tool # "thread"
  <2> DEFINE d == [picked EXCEPT !.pc = "metadata"]
  <2>1. d \in Call
    BY <1>3 DEF Call
  <2>2. StepMade(w, d)
    BY <1>2, <1>5, <2>1, QuietStep DEF Pick
  <2>3. /\ d.pc = "metadata" /\ d.tool = c.tool /\ d.fresh = c.fresh
        /\ d.queries = c.queries
        /\ d.addIds = c.addIds /\ d.blind = c.blind /\ d.removeIds = c.removeIds
        /\ d.hand = c.hand /\ d.served = c.served /\ d.cached = c.cached
    BY <1>0 DEF Call
  <2> HIDE DEF d
  <2>4. Placed(w)'
    BY <1>1, <1>5, <2>2, <2>3 DEF Placed, StepMade
  <2>5. Known(w)'
    BY <1>0, <1>1, <1>5, <2>2, <2>3, Carried
       DEF Known, StepMade, Judging, Validating, Mutating, Busy
  <2>6. QED
    BY <2>2, <2>4, <2>5, StepEnds
<1>6. QED
  BY <1>4, <1>5

LEMMA ExhaustedInv ==
  ASSUME Inv, NEW w \in Worker, Exhausted(w)
  PROVE  Inv'
<1> DEFINE c == call[w]
<1>0. c \in Call /\ c.served \subseteq Message
  BY DEF Inv, TypeOK, Call
<1>1. c.pc = "pick" /\ Placed(w) /\ Known(w)
  BY DEF Exhausted, Inv, CallInv
<1>2. CASE Deny(w)
  BY <1>2, DenyInv DEF Exhausted
<1>3. CASE ~Deny(w)
  <2>1. PICK pc \in {"search", "reply"} :
          /\ Become(w, [c EXCEPT !.pc = pc])
          /\ pc = "search" => c.queries > 0
    BY <1>3 DEF Exhausted
  <2> DEFINE d == [c EXCEPT !.pc = pc]
  <2>2. d \in Call
    BY <1>0 DEF Call
  <2>3. StepMade(w, d)
    BY <2>1, <2>2, QuietStep DEF Exhausted
  <2>4. /\ d.pc = pc /\ d.tool = c.tool /\ d.fresh = c.fresh
        /\ d.addIds = c.addIds /\ d.blind = c.blind /\ d.removeIds = c.removeIds
        /\ d.hand = c.hand /\ d.served = c.served /\ d.cached = c.cached
        /\ d.queries = c.queries
    BY <1>0 DEF Call
  <2> HIDE DEF d
  <2>5. Placed(w)'
    BY <1>1, <2>1, <2>3, <2>4 DEF Placed, StepMade
  <2>6. Known(w)'
    BY <1>0, <1>1, <2>1, <2>3, <2>4, Carried
       DEF Known, StepMade, Judging, Validating, Mutating, Busy, Placed
  <2>7. QED
    BY <2>3, <2>5, <2>6, StepEnds
<1>4. QED
  BY <1>2, <1>3

LEMMA FetchContentInv ==
  ASSUME Inv, NEW w \in Worker, FetchContent(w)
  PROVE  Inv'
<1> DEFINE c == call[w]
<1>0. c \in Call /\ c.fresh \in BOOLEAN /\ c.cached \in BOOLEAN
      /\ c.msg \in Message /\ c.served \subseteq Message
      /\ policy.categories \subseteq Category
  BY CallsAssumption DEF Inv, TypeOK, Call, Policy, PolicyFields
<1>1. PICK r \in ContentReads(c.msg, c.fresh) :
        Become(w, [c EXCEPT !.pc = "allowed", !.next = "recheck",
                            !.full = IF r.cached THEN {} ELSE r.value,
                            !.categories = policy.categories,
                            !.cached = @ \/ r.cached])
  BY DEF FetchContent
<1> DEFINE d == [c EXCEPT !.pc = "allowed", !.next = "recheck",
                          !.full = IF r.cached THEN {} ELSE r.value,
                          !.categories = policy.categories,
                          !.cached = @ \/ r.cached]
<1>2. r \in [value : SUBSET Label, cached : BOOLEAN]
  BY <1>0, ReadTypes DEF Inv
<1>3. r.value \subseteq Label /\ r.cached \in BOOLEAN
  BY <1>2
<1>4. d \in Call
  <2>1. (c.cached \/ r.cached) \in BOOLEAN
        /\ (IF r.cached THEN {} ELSE r.value) \in SUBSET Label
    BY <1>0, <1>3
  <2>2. \A full \in SUBSET Label, cached \in BOOLEAN :
          [c EXCEPT !.pc = "allowed", !.next = "recheck", !.full = full,
                    !.categories = policy.categories, !.cached = cached] \in Call
    BY <1>0 DEF Call
  <2>3. QED
    BY <2>1, <2>2, Zenon
<1>5. StepMade(w, d)
  BY <1>1, <1>4, QuietStep DEF FetchContent
<1>6. c.pc = "content" /\ Placed(w) /\ Known(w)
  BY DEF FetchContent, Inv, CallInv
<1>7. /\ d.pc = "allowed" /\ d.next = "recheck" /\ d.tool = c.tool
      /\ d.fresh = c.fresh /\ d.msg = c.msg /\ d.labels = c.labels
      /\ d.categories = policy.categories /\ d.addIds = c.addIds
      /\ d.blind = c.blind /\ d.removeIds = c.removeIds /\ d.hand = c.hand
      /\ d.served = c.served /\ d.cached = (c.cached \/ r.cached)
  BY <1>0 DEF Call
<1> HIDE DEF d
<1>8. Placed(w)'
  BY <1>5, <1>6, <1>7 DEF Placed, StepMade
<1>9. CategoriesKnown(w)'
  <2>1. policy \in seen'[w].policies
    BY <1>5, <1>7 DEF FetchContent, Quiet, StepMade, HistoryInv, Busy
  <2>2. QED
    BY <1>5, <1>7, <2>1 DEF StepMade, CategoriesKnown
<1>10. Known(w)'
  BY <1>0, <1>5, <1>6, <1>7, <1>9, Carried
     DEF Known, Placed, StepMade, Judging, Validating, Mutating, Busy, ModifyTool
<1>11. QED
  BY <1>5, <1>8, <1>10, StepEnds

LEMMA ReCheckInv ==
  ASSUME Inv, NEW w \in Worker, ReCheck(w)
  PROVE  Inv'
<1> DEFINE c == call[w]
           d == [c EXCEPT !.pc = "reply", !.served = {c.msg}]
<1>0. c \in Call /\ c.msg \in Message
  BY DEF Inv, TypeOK, Call
<1>1. c.pc = "recheck" /\ Placed(w) /\ Known(w)
  BY DEF ReCheck, Inv, CallInv
<1>2. CASE ~Verdict(c)
  BY <1>2, DenyInv DEF ReCheck
<1>3. CASE Verdict(c)
  <2>1. d \in Call
    BY <1>0 DEF Call
  <2>2. StepMade(w, d)
    BY <1>3, <2>1, QuietStep DEF ReCheck
  <2>3. /\ d.pc = "reply" /\ d.tool = c.tool /\ d.fresh = c.fresh
        /\ d.msg = c.msg /\ d.served = {c.msg} /\ d.cached = c.cached
    BY <1>0 DEF Call
  <2> HIDE DEF d
  <2>4. Placed(w)'
    BY <1>1, <2>2, <2>3 DEF Placed, StepMade
  <2>5. PICK m \in Message : m = c.msg
    BY <1>0
  <2>6. InScopeDuring(w, m)
    BY <1>1, <1>3, <2>5, VerdictInScope DEF Known, Judging, Inv, Busy
  <2>7. InScopeDuring(w, m)'
    BY <1>1, <2>2, <2>3, <2>6, Carried DEF Busy
  <2>8. Known(w)'
    BY <1>1, <2>2, <2>3, <2>5, <2>7
       DEF Known, Placed, StepMade, Judging, Validating, Mutating, ModifyTool
  <2>9. QED
    BY <2>2, <2>4, <2>8, StepEnds
<1>4. QED
  BY <1>2, <1>3

LEMMA ReadListingInv ==
  ASSUME Inv, NEW w \in Worker, ReadListing(w)
  PROVE  Inv'
<1> DEFINE c == call[w]
<1>0. c \in Call /\ c.fresh \in BOOLEAN /\ c.cached \in BOOLEAN
      /\ c.served \subseteq Message /\ policy \in PolicyFields
  BY CallsAssumption DEF Inv, TypeOK, Call, Policy
<1>1. PICK r \in ListingReads(c.fresh) :
        LET read == [c EXCEPT !.cached = @ \/ r.cached] IN
        IF c.tool = "labels"
        THEN Become(w, [read EXCEPT !.pc = "reply"])
        ELSE Become(w, [read EXCEPT !.pc = "allowed", !.next = "validate",
                                    !.listing = r.value, !.rules = policy])
  BY DEF ReadListing
<1> DEFINE read == [c EXCEPT !.cached = @ \/ r.cached]
<1>2. r \in [value : Listing, cached : BOOLEAN]
  BY <1>0, ReadTypes DEF Inv
<1>3. r.value \in Listing /\ r.cached \in BOOLEAN
  BY <1>2
<1>4. read \in Call
  <2>1. (c.cached \/ r.cached) \in BOOLEAN
    BY <1>0, <1>3
  <2>2. QED
    BY <1>0, <2>1 DEF Call
<1>5. c.pc = "listing" /\ Placed(w) /\ Known(w)
  BY DEF ReadListing, Inv, CallInv
<1>6. CASE c.tool = "labels"
  <2> DEFINE d == [read EXCEPT !.pc = "reply"]
  <2>1. d \in Call
    <3>1. \A k \in Call : [k EXCEPT !.pc = "reply"] \in Call
      BY DEF Call
    <3>2. QED
      BY <1>4, <3>1
  <2>2. StepMade(w, d)
    BY <1>1, <1>6, <2>1, QuietStep DEF ReadListing
  <2>3. /\ d.pc = "reply" /\ d.tool = c.tool /\ d.fresh = c.fresh
        /\ d.served = c.served /\ d.cached = (c.cached \/ r.cached)
    BY <1>0 DEF Call
  <2> HIDE DEF d
  <2>4. Placed(w)'
    BY <1>5, <1>6, <2>2, <2>3 DEF Placed, StepMade
  <2>5. Known(w)'
    BY <1>0, <1>5, <1>6, <2>2, <2>3, Carried
       DEF Known, StepMade, Judging, Validating, Mutating, Busy, ModifyTool
  <2>6. QED
    BY <2>2, <2>4, <2>5, StepEnds
<1>7. CASE c.tool # "labels"
  <2> DEFINE d == [read EXCEPT !.pc = "allowed", !.next = "validate",
                               !.listing = r.value, !.rules = policy]
  <2>1. d \in Call
    <3>1. \A k \in Call, listing \in Listing :
            [k EXCEPT !.pc = "allowed", !.next = "validate",
                      !.listing = listing] \in Call
      BY DEF Call
    <3>2. \A k \in Call, rules \in PolicyFields : [k EXCEPT !.rules = rules] \in Call
      BY DEF Call
    <3> HIDE DEF read
    <3>3. QED
      BY <1>0, <1>3, <1>4, <3>1, <3>2
  <2>2. StepMade(w, d)
    BY <1>1, <1>7, <2>1, QuietStep DEF ReadListing
  <2>3. /\ d.pc = "allowed" /\ d.next = "validate" /\ d.tool = c.tool
        /\ d.fresh = c.fresh /\ d.rules = policy
        /\ d.hand = c.hand /\ d.served = c.served
        /\ d.cached = (c.cached \/ r.cached)
    BY <1>0 DEF Call
  <2> HIDE DEF d
  <2>4. c.tool \in ModifyTool
    BY <1>5, <1>7 DEF Placed
  <2>5. Placed(w)'
    BY <1>5, <2>2, <2>3, <2>4 DEF Placed, StepMade, ModifyTool
  <2>6. policy \in seen'[w].policies
    BY <2>2, <2>3 DEF ReadListing, Quiet, StepMade, HistoryInv, Busy
  <2>7. Known(w)'
    BY <1>0, <1>5, <2>2, <2>3, <2>4, <2>6, Carried
       DEF Known, StepMade, Judging, Validating, Mutating, Busy, ModifyTool
  <2>8. QED
    BY <2>2, <2>5, <2>7, StepEnds
<1>8. QED
  BY <1>6, <1>7

LEMMA ValidateInv ==
  ASSUME Inv, NEW w \in Worker, Validate(w)
  PROVE  Inv'
<1> DEFINE c == call[w]
           ok == Validates(c.add, c.remove, c.rules, c.listing,
                           c.allowed \cup c.blocked)
           d == [Judged(c) EXCEPT
                   !.pc = "metadata",
                   !.addIds = ResolveAll(c.add, c.listing),
                   !.removeIds = ResolveAll(c.remove, c.listing),
                   !.add = {}, !.remove = {},
                   !.listing = Idle.listing, !.rules = Idle.rules]
<1>0. c \in Call /\ c.served \subseteq Message
      /\ Idle.listing \in Listing /\ Idle.rules \in PolicyFields
  BY IdleType DEF Inv, TypeOK, Call
<1>1. c.pc = "validate" /\ Placed(w) /\ Known(w)
  BY DEF Validate, Inv, CallInv
<1>2. CASE ~ok
  BY <1>2, DenyInv DEF Validate
<1>3. CASE ok
  <2>1. \A asked : ResolveAll(asked, c.listing) \subseteq Label
    BY ResolveIsLabel DEF ResolveAll
  <2>2. d \in Call
    <3>1. Judged(c) \in Call
      BY <1>0 DEF Call, Judged
    <3>2. QED
      BY <1>0, <2>1, <3>1 DEF Call
  <2>3. StepMade(w, d)
    BY <1>3, <2>2, QuietStep DEF Validate
  <2>4. /\ d.pc = "metadata" /\ d.tool = c.tool /\ d.fresh = c.fresh
        /\ d.addIds = ResolveAll(c.add, c.listing)
        /\ d.removeIds = ResolveAll(c.remove, c.listing)
        /\ d.served = c.served /\ d.cached = c.cached /\ d.blind = c.blind
    BY <1>0 DEF Call, Judged
  <2> HIDE DEF d
  <2>5. Placed(w)'
    BY <1>1, <2>3, <2>4 DEF Placed, StepMade, ModifyTool
  <2>6. /\ ~c.rules.readOnly
        /\ \A l \in Touched(w)' : Mutable(l, c.rules, c.allowed \cup c.blocked)
    BY <1>3, <2>3, <2>4, ValidatedIsMutable DEF Touched, StepMade
  <2>7. MutableKnown(w)'
    <3>1. c.rules \in seen'[w].policies
      BY <1>1, <2>3, <2>4, Carried DEF Known, Validating, Busy
    <3>2. \A l \in Touched(w)' : Mutable(l, c.rules, {})
      BY <2>6 DEF Mutable
    <3>3. QED
      BY <2>6, <3>1, <3>2 DEF MutableKnown
  <2>8. Touched(w)' \cap c.allowed = {} /\ Touched(w)' \cap c.blocked = {}
    BY <2>6 DEF Mutable
  <2>9. SparesBlocked(w)'
    <3>1. PICK ids \in SUBSET Label : ids = c.blocked
      BY <1>0 DEF Call
    <3>2. Blocking(w, ids)
      BY <1>1, <3>1 DEF Known, BlockedKnown
    <3>3. Blocking(w, ids)'
      BY <1>1, <2>3, <2>4, <3>2, KnownStaysKnown DEF Inv, StepMade, Busy
    <3>4. QED
      BY <2>8, <3>1, <3>3 DEF SparesBlocked
  <2>10. ~c.blind => SparesAllowed(w)'
    <3>1. PICK ids \in SUBSET Label : ids = c.allowed
      BY <1>0 DEF Call
    <3>2. ~c.blind => Allowing(w, ids)
      BY <1>1, <3>1 DEF Known, Validating
    <3>3. ~c.blind => Allowing(w, ids)'
      BY <1>1, <2>3, <2>4, <3>2, Carried DEF Busy
    <3>4. QED
      BY <2>8, <3>1, <3>3 DEF SparesAllowed
  <2>11. MutationKnown(w)'
    BY <2>3, <2>4, <2>7, <2>9, <2>10 DEF MutationKnown, StepMade
  <2>12. Known(w)'
    BY <1>0, <1>1, <2>3, <2>4, <2>11, Carried
       DEF Known, Placed, StepMade, Judging, Validating, Busy, ModifyTool
  <2>13. QED
    BY <2>3, <2>5, <2>12, StepEnds
<1>4. QED
  BY <1>2, <1>3

\* The writes.  The labels Gmail answers with are live, and seen.
LEMMA ModifyInv ==
  ASSUME Inv, NEW w \in Worker, Modify(w)
  PROVE  Inv'
<1> DEFINE c == call[w]
           d == [c EXCEPT !.pc = "allowed", !.next = "verify",
                          !.labels = box'[c.msg],
                          !.before = box[c.msg],
                          !.categories = policy.categories]
<1>0. c \in Call /\ c.msg \in Message /\ c.served \subseteq Message
      /\ c.addIds \in SUBSET Label /\ c.removeIds \in SUBSET Label
      /\ policy.categories \subseteq Category
      /\ box \in [Message -> SUBSET Label]
  BY CallsAssumption DEF Inv, TypeOK, MailboxTypeOK, Call, Policy, PolicyFields
<1>1. c.pc = "modify" /\ Placed(w) /\ Known(w)
  BY DEF Modify, Inv, CallInv
<1>2. MailboxTypeOK' /\ Remember
  BY <1>0, WriteTypes DEF Modify, ModifyLabels, Inv, TypeOK
<1>3. d \in Call
  <2>1. box'[c.msg] \in SUBSET Label /\ box[c.msg] \in SUBSET Label
    BY <1>0, <1>2 DEF MailboxTypeOK
  <2>2. QED
    BY <1>0, <2>1 DEF Call
<1>4. StepMade(w, d)
  BY <1>2, <1>3, WorkerStep DEF Modify, Inv, TypeOK
<1>5. /\ d.pc = "allowed" /\ d.next = "verify" /\ d.tool = c.tool
      /\ d.fresh = c.fresh /\ d.msg = c.msg /\ d.labels = box'[c.msg]
      /\ d.categories = policy.categories /\ d.addIds = c.addIds
      /\ d.removeIds = c.removeIds /\ d.blind = c.blind /\ d.hand = c.hand
      /\ d.served = c.served /\ d.cached = c.cached
  BY <1>0 DEF Call
<1> HIDE DEF d
<1>6. Placed(w)'
  BY <1>1, <1>4, <1>5 DEF Placed, StepMade, ModifyTool
<1>7. LabelsKnown(w)'
  <2>1. box'[c.msg] \in seen'[w].box[c.msg] /\ box'[c.msg] \in pastBox'[c.msg]
    BY <1>0, <1>4, <1>5 DEF StepMade, HistoryInv, Busy
  <2>2. QED
    BY <1>4, <1>5, <2>1 DEF StepMade, LabelsKnown, LabelsUsable
<1>8. CategoriesKnown(w)'
  <2>1. policy \in seen'[w].policies
    BY <1>4, <1>5 DEF Modify, StepMade, HistoryInv, Busy
  <2>2. QED
    BY <1>4, <1>5, <2>1 DEF StepMade, CategoriesKnown
<1>9. Known(w)'
  BY <1>0, <1>1, <1>4, <1>5, <1>7, <1>8, Carried
     DEF Known, Placed, StepMade, Judging, Validating, Mutating, Busy, ModifyTool
<1>10. QED
  BY <1>4, <1>6, <1>9, StepEnds

LEMMA VerifyInv ==
  ASSUME Inv, NEW w \in Worker, Verify(w)
  PROVE  Inv'
<1> DEFINE c == call[w]
<1>0. c \in Call
  BY DEF Inv, TypeOK, Call
<1>1. c.pc = "verify" /\ Placed(w) /\ Known(w)
  BY DEF Verify, Inv, CallInv
<1>2. PICK m \in Message, labels \in SUBSET Label : m = c.msg /\ labels = c.labels
  BY <1>0 DEF Call
<1>3. CASE Verdict(c)
  <2> DEFINE d == [Judged(c) EXCEPT !.pc = "reply", !.served = {c.msg}]
  <2>1. d \in Call
    BY <1>0 DEF Call, Judged
  <2>2. StepMade(w, d)
    BY <1>3, <2>1, QuietStep DEF Verify
  <2>3. /\ d.pc = "reply" /\ d.tool = c.tool /\ d.fresh = c.fresh
        /\ d.addIds = c.addIds /\ d.removeIds = c.removeIds /\ d.blind = c.blind
        /\ d.msg = c.msg /\ d.labels = c.labels /\ d.served = {c.msg}
        /\ d.cached = c.cached
    BY <1>0 DEF Call, Judged
  <2> HIDE DEF d
  <2>4. Placed(w)'
    BY <1>1, <2>2, <2>3 DEF Placed, StepMade, ModifyTool
  <2>5. InScopeDuring(w, m) /\ InScopeBy(w, labels)
    BY <1>1, <1>2, <1>3, VerdictInScope DEF Known, Judging, Inv, Busy
  <2>6. InScopeDuring(w, m)' /\ InScopeBy(w, labels)'
    BY <1>1, <2>2, <2>3, <2>5, Carried DEF Busy
  <2>7. Known(w)'
    BY <1>1, <1>2, <2>2, <2>3, <2>6, Carried
       DEF Known, Placed, StepMade, Judging, Validating, Mutating, Busy, ModifyTool
  <2>8. QED
    BY <2>2, <2>4, <2>7, StepEnds
<1>4. CASE ~Verdict(c)
  <2> DEFINE d == [Judged(c) EXCEPT !.pc = "revert"]
  <2>1. d \in Call
    BY <1>0 DEF Call, Judged
  <2>2. StepMade(w, d)
    BY <1>4, <2>1, QuietStep DEF Verify
  <2>3. /\ d.pc = "revert" /\ d.tool = c.tool /\ d.fresh = c.fresh
        /\ d.addIds = c.addIds /\ d.removeIds = c.removeIds /\ d.blind = c.blind
        /\ d.served = c.served /\ d.cached = c.cached
    BY <1>0 DEF Call, Judged
  <2> HIDE DEF d
  <2>4. Placed(w)'
    BY <1>1, <2>2, <2>3 DEF Placed, StepMade, ModifyTool
  <2>5. c.served \subseteq Message
    BY <1>0 DEF Call
  <2>6. Known(w)'
    BY <1>1, <2>2, <2>3, <2>5, Carried
       DEF Known, Placed, StepMade, Judging, Validating, Mutating, Busy, ModifyTool
  <2>7. QED
    BY <2>2, <2>4, <2>6, StepEnds
<1>5. QED
  BY <1>3, <1>4

\* A revert, or a write whose reply is lost, ends the call.
LEMMA LastWriteInv ==
  ASSUME Inv, NEW w \in Worker,
         ModifyUnanswered(w) \/ Revert(w) \/ TrashUnanswered(w)
  PROVE  Inv'
<1>1. call[w].msg \in Message
      /\ call[w].addIds \in SUBSET Label /\ call[w].removeIds \in SUBSET Label
  BY DEF Inv, TypeOK, Call
<1>2. MailboxTypeOK' /\ Remember
  BY <1>1, WriteTypes
     DEF ModifyUnanswered, Revert, TrashUnanswered, ModifyLabels, TrashMessage, Inv, TypeOK
<1>3. Become(w, Idle) /\ policy' \in Policies /\ writes' \in 0..MaxWrites
  BY DEF ModifyUnanswered, Revert, TrashUnanswered, Deny, Inv, TypeOK
<1>4. QED
  BY <1>2, <1>3, IdleType, WorkerStep, IdleEnds

LEMMA TrashInv ==
  ASSUME Inv, NEW w \in Worker, Trash(w)
  PROVE  Inv'
<1> DEFINE c == call[w]
           d == [c EXCEPT !.pc = "reply"]
<1>0. c \in Call /\ c.msg \in Message /\ c.served \subseteq Message
  BY DEF Inv, TypeOK, Call
<1>1. c.pc = "trash" /\ Placed(w) /\ Known(w)
  BY DEF Trash, Inv, CallInv
<1>2. MailboxTypeOK' /\ Remember
  BY <1>0, WriteTypes DEF Trash, TrashMessage, Inv, TypeOK
<1>3. d \in Call
  BY <1>0 DEF Call
<1>4. StepMade(w, d)
  BY <1>2, <1>3, WorkerStep DEF Trash, Inv, TypeOK
<1>5. /\ d.pc = "reply" /\ d.tool = c.tool /\ d.fresh = c.fresh
      /\ d.served = c.served /\ d.cached = c.cached
  BY <1>0 DEF Call
<1> HIDE DEF d
<1>6. Placed(w)'
  BY <1>1, <1>4, <1>5 DEF Placed, StepMade
<1>7. Known(w)'
  BY <1>0, <1>1, <1>4, <1>5, Carried
     DEF Known, Placed, StepMade, Judging, Validating, Mutating, Busy, ModifyTool
<1>8. QED
  BY <1>4, <1>6, <1>7, StepEnds

\* The allow_trash a trash goes on with is that of a policy of its time.
LEMMA PermitTrashInv ==
  ASSUME Inv, NEW w \in Worker, PermitTrash(w)
  PROVE  Inv'
<1> DEFINE c == call[w]
           d == [c EXCEPT !.pc = "metadata"]
<1>0. c \in Call /\ c.served \subseteq Message
  BY DEF Inv, TypeOK, Call
<1>1. c.pc = "permit" /\ Placed(w) /\ Known(w) /\ Quiet
  BY DEF PermitTrash, Inv, CallInv
<1>2. CASE ~policy.allowTrash
  BY <1>1, <1>2, DenyInv DEF PermitTrash
<1>3. CASE policy.allowTrash
  <2>1. Become(w, d)
    BY <1>3 DEF PermitTrash
  <2>2. d \in Call
    BY <1>0 DEF Call
  <2>3. StepMade(w, d)
    BY <1>1, <2>1, <2>2, QuietStep
  <2>4. /\ d.pc = "metadata" /\ d.tool = c.tool /\ d.fresh = c.fresh
        /\ d.served = c.served /\ d.cached = c.cached
    BY <1>0 DEF Call
  <2> HIDE DEF d
  <2>5. c.tool = "trash"
    BY <1>1 DEF Placed
  <2>6. Placed(w)'
    BY <2>3, <2>4, <2>5 DEF Placed, StepMade, ModifyTool
  <2>7. TrashKnown(w)'
    <3>1. policy \in seen[w].policies
      BY <1>1 DEF Inv, HistoryInv, Busy
    <3>2. \A p \in seen[w].policies : p \in seen'[w].policies
      BY <1>1, <2>3, <2>4, Carried DEF Busy
    <3>3. QED
      BY <1>3, <3>1, <3>2 DEF TrashKnown
  <2>8. Known(w)'
    BY <1>0, <1>1, <2>3, <2>4, <2>5, <2>7, Carried
       DEF Known, StepMade, Judging, Validating, Mutating, Busy, ModifyTool
  <2>9. QED
    BY <2>3, <2>6, <2>8, StepEnds
<1>4. QED
  BY <1>2, <1>3

\* Beginning a call: the worker was idle, and what is live now is the first
\* thing the call has seen.
LEMMA BeginInv ==
  ASSUME Inv, NEW w \in Worker, NEW d \in Call, Begin(w, d),
         writes' \in 0..MaxWrites,
         d.pc \in {"listing", "search", "metadata", "thread", "permit"},
         d.pc = "search" => d.queries > 0 /\ d.tool \in {"list", "counts"},
         d.pc = "listing" => d.tool \in ModifyTool \cup {"labels"},
         d.pc = "thread" <=> d.tool = "thread",
         d.pc = "thread" => d.queries = 0,
         d.pc = "metadata" => d.tool = "get",
         d.pc = "permit" <=> d.tool = "trash",
         d.tool = "trash" => ~policy.readOnly,
         d.served = {}
  PROVE  Inv'
<1>1. UNCHANGED <<mailboxVars, policy>>
  BY DEF Begin
<1>2. MailboxTypeOK' /\ UNCHANGED <<box, names, pastBox, pastNames>>
  BY <1>1 DEF Inv, TypeOK, mailboxVars, MailboxTypeOK
<1>3. StepMade(w, d)
  BY <1>1, <1>2, WorkerStep DEF Begin, Inv, TypeOK
<1>4. Placed(w)'
  BY <1>3 DEF Placed, StepMade, ModifyTool
<1>5. policy \in seen'[w].policies
  BY <1>1, <1>3 DEF StepMade, HistoryInv, Busy
<1>6. Known(w)'
  BY <1>3, <1>5
     DEF Known, StepMade, Judging, Validating, Mutating, ModifyTool, WriteKnown
<1>7. QED
  BY <1>3, <1>4, <1>6, StepEnds

LEMMA StartInv ==
  ASSUME Inv, NEW w \in Worker, Start(w)
  PROVE  Inv'
<1>1. Idle \in Call /\ 0 \in 0..MaxQueries
  BY IdleType, CallsAssumption
<1>2. /\ Idle.served = {} /\ Idle.queries = 0
  BY DEF Idle
<1>3. writes \in 0..MaxWrites
  BY DEF Inv, TypeOK
<1>4. ASSUME Write PROVE writes' \in 0..MaxWrites
  BY <1>3, <1>4, CallsAssumption DEF Write
<1>5. CASE StartList(w)
  <2>1. PICK fresh \in BOOLEAN, tool \in {"list", "counts"}, n \in 1..MaxQueries :
          Begin(w, [Idle EXCEPT !.pc = "search", !.tool = tool, !.fresh = fresh,
                                !.queries = n])
    <3>1. \A tool : (IF tool = "list" THEN {1} ELSE 1..MaxQueries) \subseteq 1..MaxQueries
      BY CallsAssumption
    <3>2. PICK fresh \in BOOLEAN, tool \in {"list", "counts"} :
            \E n \in IF tool = "list" THEN {1} ELSE 1..MaxQueries :
              Begin(w, [Idle EXCEPT !.pc = "search", !.tool = tool,
                                    !.fresh = fresh, !.queries = n])
      BY <1>5 DEF StartList
    <3>3. QED
      BY <3>1, <3>2
  <2> DEFINE d == [Idle EXCEPT !.pc = "search", !.tool = tool, !.fresh = fresh,
                               !.queries = n]
  <2>2. d \in Call
    <3>1. n \in 0..MaxQueries /\ tool \in Tool
      BY CallsAssumption DEF Tool, ReadTool
    <3>2. QED
      BY <1>1, <3>1 DEF Call
  <2>3. d.pc = "search" /\ d.tool = tool /\ d.served = {} /\ d.queries = n
    BY <1>1, <1>2 DEF Call
  <2> HIDE DEF d
  <2>4. QED
    <3>1. Begin(w, d) /\ n > 0
      BY <2>1 DEF d
    <3>2. writes' \in 0..MaxWrites
      BY <1>3, <1>5 DEF StartList
    <3>3. tool \notin ModifyTool \cup {"labels", "thread", "get", "trash"}
      BY DEF ModifyTool
    <3>4. QED
      BY <2>2, <2>3, <3>1, <3>2, <3>3, BeginInv
<1>6. CASE StartGet(w)
  <2>1. PICK fresh \in BOOLEAN, m \in Message :
          Begin(w, [Idle EXCEPT !.pc = "metadata", !.tool = "get",
                                !.fresh = fresh, !.msg = m])
    BY <1>6 DEF StartGet
  <2> DEFINE d == [Idle EXCEPT !.pc = "metadata", !.tool = "get",
                               !.fresh = fresh, !.msg = m]
  <2>2. d \in Call
    BY <1>1 DEF Call, Tool, ReadTool
  <2>3. d.pc = "metadata" /\ d.tool = "get" /\ d.served = {}
    BY <1>1, <1>2 DEF Call
  <2> HIDE DEF d
  <2>4. QED
    BY <1>3, <1>6, <2>1, <2>2, <2>3, BeginInv DEF StartGet, d
<1>7. CASE StartThread(w)
  <2>1. PICK fresh \in BOOLEAN :
          Begin(w, [Idle EXCEPT !.pc = "thread", !.tool = "thread",
                                !.fresh = fresh])
    BY <1>7 DEF StartThread
  <2> DEFINE d == [Idle EXCEPT !.pc = "thread", !.tool = "thread",
                               !.fresh = fresh]
  <2>2. d \in Call
    BY <1>1 DEF Call, Tool, ReadTool
  <2>3. d.pc = "thread" /\ d.tool = "thread" /\ d.served = {} /\ d.queries = 0
    BY <1>1, <1>2 DEF Call
  <2> HIDE DEF d
  <2>4. QED
    BY <1>3, <1>7, <2>1, <2>2, <2>3, BeginInv DEF StartThread, d
<1>8. CASE StartLabels(w)
  <2>1. PICK fresh \in BOOLEAN :
          Begin(w, [Idle EXCEPT !.pc = "listing", !.tool = "labels",
                                !.fresh = fresh])
    BY <1>8 DEF StartLabels
  <2> DEFINE d == [Idle EXCEPT !.pc = "listing", !.tool = "labels",
                               !.fresh = fresh]
  <2>2. d \in Call
    BY <1>1 DEF Call, Tool, ReadTool
  <2>3. d.pc = "listing" /\ d.tool = "labels" /\ d.served = {}
    BY <1>1, <1>2 DEF Call
  <2> HIDE DEF d
  <2>4. QED
    BY <1>3, <1>8, <2>1, <2>2, <2>3, BeginInv DEF StartLabels, d
<1>9. CASE StartModify(w)
  <2>1. PICK m \in Message, add \in Request, remove \in Request :
          Begin(w, [Idle EXCEPT !.pc = "listing", !.tool = "modify", !.msg = m,
                                !.add = add, !.remove = remove])
    BY <1>9 DEF StartModify
  <2> DEFINE d == [Idle EXCEPT !.pc = "listing", !.tool = "modify", !.msg = m,
                               !.add = add, !.remove = remove]
  <2>2. d \in Call
    BY <1>1, CallsAssumption DEF Call, Tool, ModifyTool
  <2>3. d.pc = "listing" /\ d.tool = "modify" /\ d.served = {}
    BY <1>1, <1>2 DEF Call
  <2> HIDE DEF d
  <2>4. QED
    BY <1>4, <1>9, <2>1, <2>2, <2>3, BeginInv DEF StartModify, ModifyTool, d
<1>10. CASE StartArchive(w)
  <2>1. PICK m \in Message :
          Begin(w, [Idle EXCEPT !.pc = "listing", !.tool = "archive", !.msg = m,
                                !.remove = {INBOX}])
    BY <1>10 DEF StartArchive
  <2> DEFINE d == [Idle EXCEPT !.pc = "listing", !.tool = "archive", !.msg = m,
                               !.remove = {INBOX}]
  <2>2. d \in Call
    <3>1. INBOX \in Name
      BY MailboxAssumption, LabelsAssumption DEF System
    <3>2. QED
      BY <1>1, <3>1 DEF Call, Tool, ModifyTool
  <2>3. d.pc = "listing" /\ d.tool = "archive" /\ d.served = {}
    BY <1>1, <1>2 DEF Call
  <2> HIDE DEF d
  <2>4. QED
    BY <1>4, <1>10, <2>1, <2>2, <2>3, BeginInv DEF StartArchive, ModifyTool, d
<1>11. CASE StartTrash(w)
  <2>1. PICK m \in Message :
          Begin(w, [Idle EXCEPT !.pc = "permit", !.tool = "trash", !.msg = m])
    BY <1>11 DEF StartTrash
  <2> DEFINE d == [Idle EXCEPT !.pc = "permit", !.tool = "trash", !.msg = m]
  <2>2. d \in Call
    BY <1>1 DEF Call, Tool
  <2>3. d.pc = "permit" /\ d.tool = "trash" /\ d.served = {}
    BY <1>1, <1>2 DEF Call
  <2> HIDE DEF d
  <2>4. QED
    BY <1>4, <1>11, <2>1, <2>2, <2>3, BeginInv DEF StartTrash, Write, d
<1>12. QED
  BY <1>5, <1>6, <1>7, <1>8, <1>9, <1>10, <1>11 DEF Start

LEMMA ServeInv ==
  ASSUME Inv, NEW w \in Worker, Serve(w)
  PROVE  Inv'
BY ReadAllowedInv, ReadBlockedInv, DenyingInv, ReadMetadataInv, GateOpensInv,
   GateSkipsInv, SearchInv, GetThreadInv, PickInv, ExhaustedInv,
   FetchContentInv, ReCheckInv, ReadListingInv, ValidateInv, ModifyInv,
   VerifyInv, LastWriteInv, TrashInv, PermitTrashInv
   DEF Serve

\* The owner and the operator touch no call.
LEMMA OutsideInv ==
  ASSUME Inv, SavePolicy \/ OwnerStep
  PROVE  Inv'
<1>1. MailboxTypeOK' /\ policy' \in Policies
  <2>1. CASE OwnerStep
    BY <2>1, OwnerTypes DEF Inv, TypeOK, OwnerStep
  <2>2. CASE SavePolicy
    <3>1. moves' \in 0..MaxMoves
      BY <2>2, MailboxAssumption DEF SavePolicy, Moved, Inv, TypeOK, MailboxTypeOK
    <3>2. QED
      BY <2>2, <3>1 DEF SavePolicy, Inv, TypeOK, MailboxTypeOK
  <2>3. QED
    BY <2>1, <2>2
<1>2. Watched
  BY DEF Watched, SavePolicy, OwnerStep, Owner, OwnerRelabels, OwnerNames,
         OwnerDeletes
<1>3. call' = call /\ writes' = writes
  BY DEF SavePolicy, OwnerStep
<1>4. TypeOK'
  <2>1. seen' \in [Worker -> SeenType]
    BY <1>1, <1>2, ObserveType DEF Inv, Watched, MailboxTypeOK
  <2>2. QED
    BY <1>1, <1>3, <2>1 DEF Inv, TypeOK
<1>5. HistoryInv'
  BY <1>2, <1>4, HistoryStep DEF Inv
<1>6. ASSUME NEW w \in Worker PROVE CallInv(w)'
  BY <1>2, <1>3, UntouchedCall DEF Inv
<1>7. QED
  BY <1>4, <1>5, <1>6 DEF Inv

LEMMA StutterInv == Inv /\ UNCHANGED vars => Inv'
<1> SUFFICES ASSUME Inv, UNCHANGED vars PROVE Inv'
  OBVIOUS
<1>1. UNCHANGED <<box, names, pastBox, pastNames, moves, policy, call, seen, writes>>
  BY DEF vars, mailboxVars
<1>2. TypeOK'
  BY <1>1 DEF Inv, TypeOK, MailboxTypeOK
<1>3. HistoryInv'
  BY <1>1 DEF Inv, HistoryInv, Busy
<1>4. ASSUME NEW w \in Worker PROVE CallInv(w)'
  <2>1. Placed(w)'
    BY <1>1 DEF Inv, CallInv, Placed
  <2>2. /\ \A labels : InScopeBy(w, labels)' <=> InScopeBy(w, labels)
        /\ \A m : InScopeDuring(w, m)' <=> InScopeDuring(w, m)
    BY <1>1 DEF InScopeDuring, InScopeBy, LabelsUsable, NamesUsable, MayBeStale
  <2>3. /\ \A ids : Allowing(w, ids)' <=> Allowing(w, ids)
        /\ \A ids : Blocking(w, ids)' <=> Blocking(w, ids)
    BY <1>1 DEF Allowing, Blocking, NamesUsable, MayBeStale
  <2>4. LabelsKnown(w)' <=> LabelsKnown(w)
    BY <1>1 DEF LabelsKnown, LabelsUsable, MayBeStale
  <2>5. /\ CategoriesKnown(w)' <=> CategoriesKnown(w)
        /\ HandKnown(w)' <=> HandKnown(w)
        /\ WriteKnown(w)' <=> WriteKnown(w)
        /\ TrashKnown(w)' <=> TrashKnown(w)
        /\ MutableKnown(w)' <=> MutableKnown(w)
    BY <1>1 DEF CategoriesKnown, HandKnown, WriteKnown, TrashKnown, MutableKnown,
                Touched
  <2>6. /\ AllowedKnown(w)' <=> AllowedKnown(w)
        /\ BlockedKnown(w)' <=> BlockedKnown(w)
        /\ SparesBlocked(w)' <=> SparesBlocked(w)
        /\ SparesAllowed(w)' <=> SparesAllowed(w)
    BY <1>1, <2>3
       DEF AllowedKnown, BlockedKnown, SparesBlocked, SparesAllowed, Touched
  <2>7. MutationKnown(w)' <=> MutationKnown(w)
    BY <1>1, <2>5, <2>6 DEF MutationKnown
  <2>8. Known(w)'
    <3>1. Known(w) /\ call' = call /\ seen' = seen
      BY <1>1 DEF Inv, CallInv
    <3>2. QED
      BY <2>2, <2>3, <2>4, <2>5, <2>6, <2>7, <3>1 DEF Known
  <2>9. QED
    BY <2>1, <2>8 DEF CallInv
<1>5. QED
  BY <1>2, <1>3, <1>4 DEF Inv

LEMMA NextInv == Inv /\ [Next]_vars => Inv'
BY StartInv, ServeInv, OutsideInv, StutterInv DEF Next

\* Inv holds in every reachable state: of everything a call has in hand it is
\* known where it came from.
THEOREM Invariance == Spec => []Inv
<1>1. Init => Inv
  BY InitInv
<1>2. Inv /\ [Next]_vars => Inv'
  BY NextInv
<1>3. QED
  BY <1>1, <1>2, PTL DEF Spec

----------------------------------------------------------------------------
\* What follows.

\* The tool handlers keep their state well typed.
THEOREM TypeCorrectness == Spec => []TypeOK
<1>1. Inv => TypeOK
  BY DEF Inv
<1>2. QED
  BY <1>1, Invariance, PTL

\* Every message a reply of tools.py speaks of was in scope during the call.
THEOREM ServedWasInScope == Spec => []ServedInScope
<1>1. Inv => ServedInScope
  BY DEF Inv, CallInv, Known, ServedInScope
<1>2. QED
  BY <1>1, Invariance, PTL

\* A modify or archive is reported as done only for a message that is in
\* scope by the labels messages.modify answered with.
THEOREM MutationEnds == Spec => []MutationEndsInScope
<1>1. Inv => MutationEndsInScope
  BY DEF Inv, CallInv, Known, MutationEndsInScope
<1>2. QED
  BY <1>1, Invariance, PTL

\* No tool call modifies or trashes a message without the verdict of
\* _require_eligible on labels that were live during the call, or cached.
THEOREM ActedInScope == Spec => []ActsInScope
<1>1. Inv => ActsInScope
  BY DEF Inv, CallInv, Known, ActsInScope
<1>2. QED
  BY <1>1, Invariance, PTL

\* Only its own steps change a call in progress.
LEMMA OwnStep ==
  ASSUME Inv, [Next]_vars, NEW w \in Worker, Busy(w), call'[w] # call[w]
  PROVE  Serve(w)
<1>1. PICK v \in Worker : Start(v) \/ Serve(v)
  BY DEF Next, vars, SavePolicy, OwnerStep
<1>2. PICK c : Become(v, c)
  BY <1>1
     DEF Start, StartList, StartGet, StartThread, StartLabels, StartModify,
         StartArchive, StartTrash, Begin, Serve, ReadAllowed, ReadBlocked,
         BlockedUnknown, ReadFails, ReadMetadata, GateOpens, GateSkips,
         GateRefuses, Search, GetThread, Pick, Exhausted, FetchContent,
         ReCheck, PermitTrash, ReadListing, Validate, Modify,
         ModifyUnanswered, Verify, Revert, RevertFails, Trash,
         TrashUnanswered, Reply, Deny
<1>3. v = w
  BY <1>2, BecomeIs DEF Inv
<1>4. ~Start(w)
  BY DEF Busy, Start, StartList, StartGet, StartThread, StartLabels,
         StartModify, StartArchive, StartTrash, Begin
<1>5. QED
  BY <1>1, <1>3, <1>4

\* A worker about to modify, or to revert, holds a validated mutation; and the
\* step it takes does to the labels what messages.modify does with those ids.
LEMMA WhatModifies ==
  ASSUME Inv, [Next]_vars, NEW w \in Worker, Modifies(w)
  PROVE  /\ MutationKnown(w)
         /\ \E add, remove :
              /\ add \cup remove = Touched(w)
              /\ \A m \in Message :
                   box'[m] = box[m] \/ box'[m] = Relabel(box[m], add, remove)
<1>1. MutationKnown(w)
  BY DEF Modifies, Inv, CallInv, Placed, Known, Mutating, Validating
<1>2. box \in [Message -> SUBSET Label]
  BY DEF Inv, TypeOK, MailboxTypeOK
<1>3. ASSUME NEW add, NEW remove, ModifyLabels(call[w].msg, add, remove)
      PROVE  \A m \in Message :
               box'[m] = box[m] \/ box'[m] = Relabel(box[m], add, remove)
  BY <1>2, <1>3 DEF ModifyLabels
<1>4. ASSUME UNCHANGED box
      PROVE  \E add, remove :
               /\ add \cup remove = Touched(w)
               /\ \A m \in Message :
                    box'[m] = box[m] \/ box'[m] = Relabel(box[m], add, remove)
  BY <1>4 DEF Touched
<1>5. CASE Modify(w) \/ ModifyUnanswered(w)
  <2>1. ModifyLabels(call[w].msg, call[w].addIds, call[w].removeIds)
    BY <1>5 DEF Modify, ModifyUnanswered
  <2>2. call[w].addIds \cup call[w].removeIds = Touched(w)
    BY DEF Touched
  <2>3. QED
    BY <1>1, <1>3, <2>1, <2>2
<1>6. CASE Revert(w)
  <2>1. ModifyLabels(call[w].msg, call[w].removeIds, call[w].addIds)
    BY <1>6 DEF Revert
  <2>2. call[w].removeIds \cup call[w].addIds = Touched(w)
    BY DEF Touched
  <2>3. QED
    BY <1>1, <1>3, <2>1, <2>2
<1>7. CASE RevertFails(w) \/ ReadFails(w)
  <2>1. UNCHANGED box
    BY <1>7 DEF RevertFails, ReadFails, Quiet, mailboxVars
  <2>2. QED
    BY <1>1, <1>4, <2>1
<1>8. Modify(w) \/ ModifyUnanswered(w) \/ Revert(w) \/ RevertFails(w) \/ ReadFails(w)
  <2>1. call'[w] # call[w] /\ call[w].pc \in {"modify", "revert"}
    BY DEF Modifies
  <2>2. Serve(w)
    BY <2>1, OwnStep DEF Busy
  <2>3. QED
    BY <2>1, <2>2
       DEF Serve, ReadAllowed, ReadBlocked, BlockedUnknown, ReadMetadata,
           GateOpens, GateSkips, GateRefuses, Search, GetThread, Pick,
           Exhausted, FetchContent, ReCheck, PermitTrash, ReadListing,
           Validate, Verify, Trash, TrashUnanswered, Reply
<1>9. QED
  BY <1>1, <1>5, <1>6, <1>7, <1>8

\* So the labels that change in that step are ids of the mutation.
LEMMA ChangedWasTouched ==
  ASSUME Inv, [Next]_vars, NEW w \in Worker, Modifies(w)
  PROVE  \A m \in Message : Changed(m) \subseteq Touched(w)
BY WhatModifies DEF Changed, Relabel

\* modify and revert of tools.py change only labels validate_mutation lets
\* the agent change; and a trash has had a policy that is not read-only, for
\* its mode, and one with allow_trash.
THEOREM MutationsAreAllowed == Spec => OnlyMutableLabelsChange
<1> DEFINE Step(w) ==
      /\ Modifies(w) =>
           \E p \in seen[w].policies :
             /\ ~p.readOnly
             /\ \A m \in Message, l \in Label :
                  l \in Changed(m) => Mutable(l, p, {})
      /\ Trashes(w) =>
           \E p, q \in seen[w].policies : ~p.readOnly /\ q.allowTrash
<1>1. ASSUME Inv, [Next]_vars, NEW w \in Worker PROVE Step(w)
  <2>1. ASSUME Modifies(w)
        PROVE  \E p \in seen[w].policies :
                 /\ ~p.readOnly
                 /\ \A m \in Message, l \in Label :
                      l \in Changed(m) => Mutable(l, p, {})
    BY <1>1, <2>1, WhatModifies, ChangedWasTouched DEF MutationKnown, MutableKnown
  <2>2. ASSUME Trashes(w)
        PROVE  \E p, q \in seen[w].policies : ~p.readOnly /\ q.allowTrash
    BY <1>1, <2>2 DEF Trashes, Inv, CallInv, Placed, Known, WriteKnown, TrashKnown
  <2>3. QED
    BY <2>1, <2>2
<1>2. Inv /\ [Next]_vars => [\A w \in Worker : Step(w)]_vars
  BY <1>1
<1>3. QED
  BY <1>2, Invariance, PTL DEF Spec, OnlyMutableLabelsChange

\* A mutation touches no label that some listing of the call resolved from
\* the blocklist: _blocked_label_ids fails closed.
THEOREM BlockersStay == Spec => BlockedLabelsUntouched
<1> DEFINE Step(w) ==
      Modifies(w) =>
        \E names1 \in NamesUsable(w), p \in seen[w].policies :
          \A m \in Message :
            Changed(m) \cap ResolveLabelIds(names1, p.blockedLabels) = {}
<1>1. ASSUME Inv, [Next]_vars, NEW w \in Worker PROVE Step(w)
  <2>1. ASSUME Modifies(w) PROVE Step(w)
    <3>1. SparesBlocked(w)
      BY <1>1, <2>1, WhatModifies DEF MutationKnown
    <3>2. PICK names1 \in NamesUsable(w), p \in seen[w].policies :
            Touched(w) \cap ResolveLabelIds(names1, p.blockedLabels) = {}
      BY <3>1 DEF SparesBlocked, Blocking
    <3>3. QED
      BY <1>1, <2>1, <3>2, ChangedWasTouched
  <2>2. QED
    BY <2>1
<1>2. Inv /\ [Next]_vars => [\A w \in Worker : Step(w)]_vars
  BY <1>1
<1>3. QED
  BY <1>2, Invariance, PTL DEF Spec, BlockedLabelsUntouched

\* With names and policy settled and the grants known, no mutation moves a
\* message across the border of the scope, whatever its labels are by now:
\* the immutability rules of validate_mutation alone see to it.
THEOREM NothingIsSmuggled == Spec => NoSmuggling
<1> DEFINE Step(w) ==
      Modifies(w) /\ Settled(w) /\ ~call[w].blind =>
        \A m \in Message : LiveVerdict(box[m]) <=> LiveVerdict(box'[m])
<1>1. ASSUME Inv, [Next]_vars, NEW w \in Worker PROVE Step(w)
  <2>1. SUFFICES ASSUME Modifies(w), Settled(w), ~call[w].blind, NEW m \in Message
                 PROVE  LiveVerdict(box[m]) <=> LiveVerdict(box'[m])
    OBVIOUS
  <2> DEFINE allowed == ResolveLabelIds(names, policy.allowedLabels)
             blocked == ResolveLabelIds(names, policy.blockedLabels)
  <2>2. MutationKnown(w)
    BY <1>1, <2>1, WhatModifies
  <2>3. Touched(w) \cap (allowed \cup blocked) = {}
    <3>1. Touched(w) \cap allowed = {}
      BY <2>1, <2>2 DEF MutationKnown, SparesAllowed, Allowing, Settled
    <3>2. Touched(w) \cap blocked = {}
      BY <2>1, <2>2 DEF MutationKnown, SparesBlocked, Blocking, Settled
    <3>3. QED
      BY <3>1, <3>2
  <2>4. Touched(w) \cap (Category \cup HardDeny) = {}
    BY <2>2 DEF MutationKnown, MutableKnown, Mutable
  <2>5. PICK add, remove :
          /\ add \cup remove = Touched(w)
          /\ box'[m] = box[m] \/ box'[m] = Relabel(box[m], add, remove)
    BY <1>1, <2>1, WhatModifies
  <2> HIDE DEF allowed, blocked
  <2>6. IsEligible(Relabel(box[m], add, remove), policy.categories, allowed, blocked)
        <=> IsEligible(box[m], policy.categories, allowed, blocked)
    BY <2>3, <2>4, <2>5, OrdinaryLabelsKeepVerdict
  <2>7. QED
    BY <2>5, <2>6 DEF LiveVerdict, allowed, blocked
<1>2. Inv /\ [Next]_vars => [\A w \in Worker : Step(w)]_vars
  BY <1>1
<1>3. QED
  BY <1>2, Invariance, PTL DEF Spec, NoSmuggling

\* validate_mutation keeps the agent's hands off the labels that grant: they
\* stay on every message they are on, and off every other.
THEOREM GrantsStay == Spec => GrantsUntouched
<1> DEFINE Step(w) ==
      Modifies(w) /\ Settled(w) /\ ~call[w].blind =>
        \A m \in Message :
          Changed(m) \cap ResolveLabelIds(names, policy.allowedLabels) = {}
<1>1. ASSUME Inv, [Next]_vars, NEW w \in Worker PROVE Step(w)
  <2>1. SUFFICES ASSUME Modifies(w), Settled(w), ~call[w].blind
                 PROVE  \A m \in Message :
                          Changed(m) \cap ResolveLabelIds(names, policy.allowedLabels) = {}
    OBVIOUS
  <2>2. MutationKnown(w)
    BY <1>1, <2>1, WhatModifies
  <2>3. Touched(w) \cap ResolveLabelIds(names, policy.allowedLabels) = {}
    BY <2>1, <2>2 DEF MutationKnown, SparesAllowed, Allowing, Settled
  <2>4. \A m \in Message : Changed(m) \subseteq Touched(w)
    BY <1>1, <2>1, ChangedWasTouched
  <2>5. QED
    BY <2>3, <2>4
<1>2. Inv /\ [Next]_vars => [\A w \in Worker : Step(w)]_vars
  BY <1>1
<1>3. QED
  BY <1>2, Invariance, PTL DEF Spec, GrantsUntouched

----------------------------------------------------------------------------
\* Every call gets on.

LEMMA StepsToValues ==
  /\ StepsTo["listing"] = 39 /\ StepsTo["validate"] = 36 /\ StepsTo["metadata"] = 33
  /\ StepsTo["gate"] = 30 /\ StepsTo["content"] = 27 /\ StepsTo["modify"] = 27
  /\ StepsTo["trash"] = 27 /\ StepsTo["recheck"] = 24 /\ StepsTo["verify"] = 24
  /\ StepsTo["revert"] = 21 /\ StepsTo["thread"] = 21 /\ StepsTo["pick"] = 18
  /\ StepsTo["search"] = 15 /\ StepsTo["reply"] = 12 /\ StepsTo["idle"] = 0
  /\ StepsTo["permit"] = 36
BY DEF StepsTo

\* How late each place of a handler is.
LEMMA StepsLeftValues ==
  ASSUME NEW c
  PROVE  /\ c.pc = "allowed" => StepsLeft(c) = StepsTo[c.next] + 2
         /\ c.pc = "blocked" => StepsLeft(c) = StepsTo[c.next] + 1
         /\ c.pc \notin {"allowed", "blocked"} => StepsLeft(c) = StepsTo[c.pc]
BY DEF StepsLeft

LEMMA StepsLeftIsNat ==
  ASSUME NEW c \in Call
  PROVE  /\ StepsLeft(c) \in Nat
         /\ c.pc # "idle" => StepsLeft(c) > 0
         /\ FetchesLeft(c) \in Nat
<1>1. c.next \in {"validate", "gate", "recheck", "verify"} /\ c.queries \in Nat
  BY CallsAssumption DEF Call
<1>2. c.pc \in {"idle", "permit", "listing", "search", "thread", "pick",
                "metadata", "allowed", "blocked", "validate", "gate", "content",
                "recheck", "modify", "verify", "revert", "trash", "reply"}
  BY DEF Call
<1>3. FetchesLeft(c) \in Nat
  BY <1>1 DEF FetchesLeft
<1>4. CASE c.pc \in {"allowed", "blocked"}
  BY <1>1, <1>3, <1>4, StepsToValues, StepsLeftValues
<1>5. CASE c.pc \notin {"allowed", "blocked"}
  BY <1>2, <1>3, <1>5, StepsToValues, StepsLeftValues
<1>6. QED
  BY <1>4, <1>5

\* The end is nearer than anything.
LEMMA IdleIsNearer ==
  ASSUME NEW c \in Call, c.pc # "idle"
  PROVE  Nearer(Idle, c)
<1>1. FetchesLeft(Idle) = 0 /\ Idle.todo = {} /\ StepsLeft(Idle) = 0
  BY StepsToValues, StepsLeftValues DEF FetchesLeft, Idle
<1>2. FetchesLeft(c) \in Nat /\ StepsLeft(c) \in Nat /\ StepsLeft(c) > 0
  BY StepsLeftIsNat
<1>3. QED
  BY <1>1, <1>2 DEF Nearer

\* A step on within a handler.
LEMMA LaterIsNearer ==
  ASSUME NEW c \in Call, NEW d, d.queries = c.queries, d.todo = c.todo,
         c.pc # "thread", d.pc # "thread", StepsLeft(d) < StepsLeft(c)
  PROVE  Nearer(d, c)
BY DEF Nearer, FetchesLeft

\* What a step of its own makes of a call.
LEMMA ServeAdvances ==
  ASSUME Inv, NEW w \in Worker, Serve(w)
  PROVE  Nearer(call'[w], call[w])
<1> DEFINE c == call[w]
<1>0. c \in Call /\ TypeOK /\ Placed(w)
  BY DEF Inv, TypeOK, CallInv
<1>1. ASSUME NEW d, Become(w, d) PROVE call'[w] = d
  BY <1>0, <1>1, BecomeIs
<1>2. ASSUME Deny(w), c.pc # "idle" PROVE Nearer(call'[w], c)
  BY <1>0, <1>1, <1>2, IdleIsNearer DEF Deny
<1>3. ASSUME NEW d, Become(w, d), d.queries = c.queries, d.todo = c.todo,
             c.pc # "thread", d.pc # "thread", StepsLeft(d) < StepsLeft(c)
      PROVE  Nearer(call'[w], c)
  BY <1>0, <1>1, <1>3, LaterIsNearer
<1>4. CASE ReadAllowed(w)
  <2>1. PICK r \in AllowedReads(c.fresh) :
          Become(w, [c EXCEPT !.pc = "blocked", !.allowed = r.ids,
                              !.cached = @ \/ r.cached,
                              !.blind = IF c.next = "validate" THEN r.failed ELSE @])
    BY <1>4 DEF ReadAllowed
  <2> DEFINE d == [c EXCEPT !.pc = "blocked", !.allowed = r.ids,
                            !.cached = @ \/ r.cached,
                            !.blind = IF c.next = "validate" THEN r.failed ELSE @]
  <2>2. /\ d.pc = "blocked" /\ d.next = c.next /\ d.queries = c.queries
        /\ d.todo = c.todo /\ c.pc = "allowed"
        /\ c.next \in {"validate", "gate", "recheck", "verify"}
    BY <1>0, <1>4 DEF Call, ReadAllowed
  <2> HIDE DEF d
  <2>3. StepsLeft(d) < StepsLeft(c)
    BY <2>2, StepsToValues, StepsLeftValues
  <2>4. QED
    BY <1>3, <2>1, <2>2, <2>3 DEF d
<1>5. CASE ReadBlocked(w)
  <2>1. PICK r \in BlockedReads(c.fresh) :
          Become(w, [c EXCEPT !.pc = c.next, !.blocked = r.ids,
                              !.cached = @ \/ r.cached])
    BY <1>5 DEF ReadBlocked
  <2> DEFINE d == [c EXCEPT !.pc = c.next, !.blocked = r.ids,
                            !.cached = @ \/ r.cached]
  <2>2. /\ d.pc = c.next /\ d.queries = c.queries
        /\ d.todo = c.todo /\ c.pc = "blocked"
        /\ c.next \in {"validate", "gate", "recheck", "verify"}
    BY <1>0, <1>5 DEF Call, ReadBlocked
  <2> HIDE DEF d
  <2>3. StepsLeft(d) < StepsLeft(c)
    BY <2>2, StepsToValues, StepsLeftValues
  <2>4. QED
    BY <1>3, <2>1, <2>2, <2>3 DEF d
<1>6. CASE BlockedUnknown(w) \/ ReadFails(w) \/ GateRefuses(w) \/ ModifyUnanswered(w)
           \/ Revert(w) \/ RevertFails(w) \/ TrashUnanswered(w)
  BY <1>2, <1>6 DEF BlockedUnknown, ReadFails, GateRefuses, ModifyUnanswered,
                    Revert, RevertFails, TrashUnanswered
<1>7. CASE ReadMetadata(w)
  <2>1. PICK r \in MetadataReads(c.msg, c.fresh) :
          Become(w, [c EXCEPT !.pc = "allowed", !.next = "gate",
                              !.labels = r.value,
                              !.categories = policy.categories,
                              !.cached = @ \/ r.cached])
    BY <1>7 DEF ReadMetadata
  <2> DEFINE d == [c EXCEPT !.pc = "allowed", !.next = "gate",
                            !.labels = r.value,
                            !.categories = policy.categories,
                            !.cached = @ \/ r.cached]
  <2>2. /\ d.pc = "allowed" /\ d.next = "gate" /\ d.queries = c.queries
        /\ d.todo = c.todo /\ c.pc = "metadata"
    BY <1>0, <1>7 DEF Call, ReadMetadata
  <2> HIDE DEF d
  <2>3. StepsLeft(d) < StepsLeft(c)
    BY <2>2, StepsToValues, StepsLeftValues
  <2>4. QED
    BY <1>3, <2>1, <2>2, <2>3 DEF d
<1>8. CASE GateOpens(w) \/ GateSkips(w)
  <2>1. PICK d : /\ Become(w, d)
                 /\ d.pc \in {"modify", "trash", "content", "pick"}
                 /\ d.queries = c.queries /\ d.todo = c.todo
    <3>1. PICK pc \in {"modify", "trash", "content", "pick"},
               served \in {c.served, c.served \cup {c.msg}} :
            Become(w, [Judged(c) EXCEPT !.pc = pc, !.served = served])
      <4>1. Judged(c).served = c.served
        BY <1>0 DEF Judged, Call
      <4>2. \A pc : [Judged(c) EXCEPT !.pc = pc, !.served = c.served]
                      = [Judged(c) EXCEPT !.pc = pc]
        BY <1>0 DEF Judged, Call
      <4>3. [Judged(c) EXCEPT !.pc = "pick", !.served = c.served \cup {c.msg}]
              = [Judged(c) EXCEPT !.pc = "pick", !.served = @ \cup {c.msg}]
        BY <4>1
      <4>4. CASE GateSkips(w)
        BY <4>2, <4>4 DEF GateSkips
      <4>5. CASE GateOpens(w) /\ c.tool \in ModifyTool \cup {"trash", "get"}
        BY <4>2, <4>5 DEF GateOpens, ModifyTool
      <4>6. CASE GateOpens(w) /\ c.tool \notin ModifyTool \cup {"trash", "get"}
        BY <4>3, <4>6 DEF GateOpens
      <4>7. QED
        BY <1>8, <4>4, <4>5, <4>6
    <3> DEFINE e == [Judged(c) EXCEPT !.pc = pc, !.served = served]
    <3>2. e.pc = pc /\ e.queries = c.queries /\ e.todo = c.todo
      BY <1>0 DEF Judged, Call
    <3> HIDE DEF e
    <3>3. QED
      BY <3>1, <3>2 DEF e
  <2>2. c.pc = "gate"
    BY <1>8 DEF GateOpens, GateSkips
  <2>3. StepsLeft(d) < StepsLeft(c)
    BY <2>1, <2>2, StepsToValues, StepsLeftValues
  <2>4. QED
    BY <1>3, <2>1, <2>2, <2>3
<1>9. CASE Search(w)
  <2>1. PICK r \in SearchReads(c.fresh) :
          Become(w, [c EXCEPT !.pc = "pick", !.todo = r.value,
                              !.queries = @ - 1, !.cached = @ \/ r.cached])
    BY <1>9 DEF Search
  <2> DEFINE d == [c EXCEPT !.pc = "pick", !.todo = r.value,
                            !.queries = @ - 1, !.cached = @ \/ r.cached]
  <2>2. d.pc = "pick" /\ d.queries = c.queries - 1 /\ c.pc = "search"
    BY <1>0, <1>9 DEF Call, Search
  <2>3. c.queries \in Nat
    BY <1>0, CallsAssumption DEF Call
  <2> HIDE DEF d
  <2>4. Nearer(d, c)
    BY <2>2, <2>3 DEF Nearer, FetchesLeft
  <2>5. QED
    BY <1>1, <2>1, <2>4 DEF d
<1>10. CASE GetThread(w)
  <2>1. PICK members \in SUBSET Message :
          Become(w, [c EXCEPT !.pc = "pick", !.todo = members, !.hand = box])
    BY <1>10 DEF GetThread
  <2> DEFINE d == [c EXCEPT !.pc = "pick", !.todo = members, !.hand = box]
  <2>2. d.pc = "pick" /\ d.queries = c.queries /\ c.pc = "thread"
    BY <1>0, <1>10 DEF Call, GetThread
  <2>3. c.queries \in Nat
    BY <1>0, CallsAssumption DEF Call
  <2> HIDE DEF d
  <2>4. Nearer(d, c)
    BY <2>2, <2>3 DEF Nearer, FetchesLeft
  <2>5. QED
    BY <1>1, <2>1, <2>4 DEF d
<1>11. CASE Pick(w)
  <2>1. PICK m, d :
          /\ m \in c.todo
          /\ Become(w, d)
          /\ d.pc # "thread" /\ d.queries = c.queries /\ d.todo = c.todo \ {m}
    <3>1. PICK m \in c.todo :
            LET picked == [c EXCEPT !.msg = m, !.todo = @ \ {m}] IN
            IF c.tool = "thread"
            THEN Become(w, [picked EXCEPT !.pc = "allowed", !.next = "gate",
                                          !.labels = c.hand[m],
                                          !.categories = policy.categories])
            ELSE Become(w, [picked EXCEPT !.pc = "metadata"])
      BY <1>11 DEF Pick
    <3> DEFINE p == [c EXCEPT !.msg = m, !.todo = @ \ {m}]
               x == [p EXCEPT !.pc = "allowed", !.next = "gate",
                              !.labels = c.hand[m],
                              !.categories = policy.categories]
               y == [p EXCEPT !.pc = "metadata"]
    <3>2. /\ x.pc = "allowed" /\ x.queries = c.queries /\ x.todo = c.todo \ {m}
          /\ y.pc = "metadata" /\ y.queries = c.queries /\ y.todo = c.todo \ {m}
      BY <1>0 DEF Call
    <3> HIDE DEF x, y
    <3>3. Become(w, x) \/ Become(w, y)
      BY <3>1 DEF x, y
    <3>4. QED
      BY <3>2, <3>3
  <2>2. c.pc = "pick"
    BY <1>11 DEF Pick
  <2>3. Nearer(d, c)
    BY <2>1, <2>2 DEF Nearer, FetchesLeft
  <2>4. QED
    BY <1>1, <2>1, <2>3
<1>12. CASE Exhausted(w)
  <2> DEFINE x == [c EXCEPT !.pc = "search"]
             y == [c EXCEPT !.pc = "reply"]
  <2>1. /\ x.pc = "search" /\ x.queries = c.queries /\ x.todo = c.todo
        /\ y.pc = "reply" /\ y.queries = c.queries /\ y.todo = c.todo
        /\ c.pc = "pick"
    BY <1>0, <1>12 DEF Call, Exhausted
  <2>2. Become(w, x) \/ Become(w, y) \/ Deny(w)
    BY <1>12 DEF Exhausted
  <2> HIDE DEF x, y
  <2>3. StepsLeft(x) < StepsLeft(c) /\ StepsLeft(y) < StepsLeft(c)
    BY <2>1, StepsToValues, StepsLeftValues
  <2>4. QED
    BY <1>2, <1>3, <2>1, <2>2, <2>3
<1>13. CASE FetchContent(w)
  <2>1. PICK r \in ContentReads(c.msg, c.fresh) :
          Become(w, [c EXCEPT !.pc = "allowed", !.next = "recheck",
                              !.full = IF r.cached THEN {} ELSE r.value,
                              !.categories = policy.categories,
                              !.cached = @ \/ r.cached])
    BY <1>13 DEF FetchContent
  <2> DEFINE d == [c EXCEPT !.pc = "allowed", !.next = "recheck",
                            !.full = IF r.cached THEN {} ELSE r.value,
                            !.categories = policy.categories,
                            !.cached = @ \/ r.cached]
  <2>2. /\ d.pc = "allowed" /\ d.next = "recheck" /\ d.queries = c.queries
        /\ d.todo = c.todo /\ c.pc = "content"
    BY <1>0, <1>13 DEF Call, FetchContent
  <2> HIDE DEF d
  <2>3. StepsLeft(d) < StepsLeft(c)
    BY <2>2, StepsToValues, StepsLeftValues
  <2>4. QED
    BY <1>3, <2>1, <2>2, <2>3 DEF d
<1>14. CASE ReCheck(w)
  <2> DEFINE d == [c EXCEPT !.pc = "reply", !.served = {c.msg}]
  <2>1. d.pc = "reply" /\ d.queries = c.queries /\ d.todo = c.todo /\ c.pc = "recheck"
    BY <1>0, <1>14 DEF Call, ReCheck
  <2>2. Become(w, d) \/ Deny(w)
    BY <1>14 DEF ReCheck
  <2> HIDE DEF d
  <2>3. StepsLeft(d) < StepsLeft(c)
    BY <2>1, StepsToValues, StepsLeftValues
  <2>4. QED
    BY <1>2, <1>3, <2>1, <2>2, <2>3
<1>15. CASE ReadListing(w)
  <2>1. PICK r \in ListingReads(c.fresh) :
          LET read == [c EXCEPT !.cached = @ \/ r.cached] IN
          IF c.tool = "labels"
          THEN Become(w, [read EXCEPT !.pc = "reply"])
          ELSE Become(w, [read EXCEPT !.pc = "allowed", !.next = "validate",
                                      !.listing = r.value, !.rules = policy])
    BY <1>15 DEF ReadListing
  <2> DEFINE read == [c EXCEPT !.cached = @ \/ r.cached]
             x == [read EXCEPT !.pc = "reply"]
             y == [read EXCEPT !.pc = "allowed", !.next = "validate",
                               !.listing = r.value, !.rules = policy]
  <2>2. /\ x.pc = "reply" /\ x.queries = c.queries /\ x.todo = c.todo
        /\ y.pc = "allowed" /\ y.next = "validate"
        /\ y.queries = c.queries /\ y.todo = c.todo
        /\ c.pc = "listing"
    BY <1>0, <1>15 DEF Call, ReadListing
  <2> HIDE DEF x, y
  <2>3. Become(w, x) \/ Become(w, y)
    BY <2>1 DEF x, y
  <2>4. StepsLeft(x) < StepsLeft(c) /\ StepsLeft(y) < StepsLeft(c)
    BY <2>2, StepsToValues, StepsLeftValues
  <2>5. QED
    BY <1>3, <2>2, <2>3, <2>4
<1>16. CASE Validate(w)
  <2> DEFINE d == [Judged(c) EXCEPT
                     !.pc = "metadata",
                     !.addIds = ResolveAll(c.add, c.listing),
                     !.removeIds = ResolveAll(c.remove, c.listing),
                     !.add = {}, !.remove = {},
                     !.listing = Idle.listing, !.rules = Idle.rules]
  <2>1. d.pc = "metadata" /\ d.queries = c.queries /\ d.todo = c.todo /\ c.pc = "validate"
    BY <1>0, <1>16 DEF Call, Judged, Validate
  <2>2. Become(w, d) \/ Deny(w)
    BY <1>16 DEF Validate
  <2> HIDE DEF d
  <2>3. StepsLeft(d) < StepsLeft(c)
    BY <2>1, StepsToValues, StepsLeftValues
  <2>4. QED
    BY <1>2, <1>3, <2>1, <2>2, <2>3
<1>17. CASE Modify(w)
  <2> DEFINE d == [c EXCEPT !.pc = "allowed", !.next = "verify",
                            !.labels = box'[c.msg],
                            !.before = box[c.msg],
                            !.categories = policy.categories]
  <2>1. /\ d.pc = "allowed" /\ d.next = "verify" /\ d.queries = c.queries
        /\ d.todo = c.todo /\ c.pc = "modify"
    BY <1>0, <1>17 DEF Call, Modify
  <2>2. Become(w, d)
    BY <1>17 DEF Modify
  <2> HIDE DEF d
  <2>3. StepsLeft(d) < StepsLeft(c)
    BY <2>1, StepsToValues, StepsLeftValues
  <2>4. QED
    BY <1>3, <2>1, <2>2, <2>3
<1>18. CASE Verify(w)
  <2> DEFINE x == [Judged(c) EXCEPT !.pc = "reply", !.served = {c.msg}]
             y == [Judged(c) EXCEPT !.pc = "revert"]
  <2>1. /\ x.pc = "reply" /\ x.queries = c.queries /\ x.todo = c.todo
        /\ y.pc = "revert" /\ y.queries = c.queries /\ y.todo = c.todo
        /\ c.pc = "verify"
    BY <1>0, <1>18 DEF Call, Judged, Verify
  <2>2. Become(w, x) \/ Become(w, y)
    BY <1>18 DEF Verify
  <2> HIDE DEF x, y
  <2>3. StepsLeft(x) < StepsLeft(c) /\ StepsLeft(y) < StepsLeft(c)
    BY <2>1, StepsToValues, StepsLeftValues
  <2>4. QED
    BY <1>3, <2>1, <2>2, <2>3
<1>19. CASE Trash(w)
  <2> DEFINE d == [c EXCEPT !.pc = "reply"]
  <2>1. d.pc = "reply" /\ d.queries = c.queries /\ d.todo = c.todo /\ c.pc = "trash"
    BY <1>0, <1>19 DEF Call, Trash
  <2>2. Become(w, d)
    BY <1>19 DEF Trash
  <2> HIDE DEF d
  <2>3. StepsLeft(d) < StepsLeft(c)
    BY <2>1, StepsToValues, StepsLeftValues
  <2>4. QED
    BY <1>3, <2>1, <2>2, <2>3
<1>20. CASE Reply(w)
  BY <1>0, <1>1, <1>20, IdleIsNearer DEF Reply
<1>21. CASE PermitTrash(w)
  <2> DEFINE d == [c EXCEPT !.pc = "metadata"]
  <2>1. d.pc = "metadata" /\ d.queries = c.queries /\ d.todo = c.todo /\ c.pc = "permit"
    BY <1>0, <1>21 DEF Call, PermitTrash
  <2>2. Become(w, d) \/ Deny(w)
    BY <1>21 DEF PermitTrash
  <2> HIDE DEF d
  <2>3. StepsLeft(d) < StepsLeft(c)
    BY <2>1, StepsToValues, StepsLeftValues
  <2>4. QED
    BY <1>2, <1>3, <2>1, <2>2, <2>3
<1>22. QED
  BY <1>4, <1>5, <1>6, <1>7, <1>8, <1>9, <1>10, <1>11, <1>12, <1>13, <1>14,
     <1>15, <1>16, <1>17, <1>18, <1>19, <1>20, <1>21 DEF Serve

\* Each step of a handler of tools.py gets on with its call: the loops over
\* searches and over messages included, and whatever anyone else does.
THEOREM CallsGetOn == Spec => StepsForward
<1> DEFINE Step(w) ==
      call[w].pc # "idle" /\ call'[w] # call[w] => Nearer(call'[w], call[w])
<1>1. ASSUME Inv, [Next]_vars, NEW w \in Worker PROVE Step(w)
  BY <1>1, OwnStep, ServeAdvances DEF Busy
<1>2. Inv /\ [Next]_vars => [\A w \in Worker : Step(w)]_vars
  BY <1>1
<1>3. QED
  BY <1>2, Invariance, PTL DEF Spec, StepsForward

\* And there is no getting on for ever: with finitely many messages no
\* sequence of states of a call has each one nearer its end than the last.
\* With CallsGetOn, every loop of a handler is left after finitely many steps.
THEOREM NoEndlessCall ==
  ASSUME IsFiniteSet(Message)
  PROVE  ~\E f \in [Nat -> Call] : \A n \in Nat : Nearer(f[n + 1], f[n])
<1> DEFINE Less  == OpToRel(<, Nat)
           Fewer == StrictSubsetOrdering(Message)
           Inner == LexPairOrdering(Fewer, Less, SUBSET Message, Nat)
           Order == LexPairOrdering(Less, Inner, Nat, (SUBSET Message) \X Nat)
           Rank(c) == <<FetchesLeft(c), <<c.todo, StepsLeft(c)>>>>
<1>1. IsWellFoundedOn(Less, Nat)
  BY NatLessThanWellFounded
<1>2. IsWellFoundedOn(Fewer, SUBSET Message)
  BY FS_StrictSubsetOrderingWellFounded, FS_FiniteSubsetsOfFinite
<1>3. /\ \A i, j \in Nat : i < j => <<i, j>> \in Less
      /\ \A i, j \in SUBSET Message : i \subseteq j /\ i # j => <<i, j>> \in Fewer
  BY DEF OpToRel, StrictSubsetOrdering
<1> HIDE DEF Less, Fewer
<1>4. IsWellFoundedOn(Inner, (SUBSET Message) \X Nat)
  BY <1>1, <1>2, WFLexPairOrdering
<1>5. \A i, j \in SUBSET Message, k, l \in Nat :
        (i \subseteq j /\ i # j) \/ (i = j /\ k < l)
          => <<<<i, k>>, <<j, l>>>> \in Inner
  BY <1>3 DEF LexPairOrdering
<1> HIDE DEF Inner
<1>6. IsWellFoundedOn(Order, Nat \X ((SUBSET Message) \X Nat))
  BY <1>1, <1>4, WFLexPairOrdering
<1>7. \A i, j \in Nat, x, y \in (SUBSET Message) \X Nat :
        i < j \/ (i = j /\ <<x, y>> \in Inner) => <<<<i, x>>, <<j, y>>>> \in Order
  BY <1>3 DEF LexPairOrdering
<1> HIDE DEF Order
<1>8. ASSUME NEW c \in Call
      PROVE  FetchesLeft(c) \in Nat /\ c.todo \in SUBSET Message /\ StepsLeft(c) \in Nat
  <2>1. c.queries \in Nat /\ c.todo \in SUBSET Message
    BY CallsAssumption DEF Call
  <2>2. QED
    BY <2>1, StepsLeftIsNat DEF FetchesLeft
<1>9. ASSUME NEW c \in Call, NEW d \in Call, Nearer(d, c)
      PROVE  <<Rank(d), Rank(c)>> \in Order
  <2>1. /\ <<c.todo, StepsLeft(c)>> \in (SUBSET Message) \X Nat
        /\ <<d.todo, StepsLeft(d)>> \in (SUBSET Message) \X Nat
    BY <1>8
  <2>2. \/ FetchesLeft(d) < FetchesLeft(c)
        \/ /\ FetchesLeft(d) = FetchesLeft(c)
           /\ <<<<d.todo, StepsLeft(d)>>, <<c.todo, StepsLeft(c)>>>> \in Inner
    BY <1>5, <1>8, <1>9 DEF Nearer
  <2>3. QED
    BY <1>7, <1>8, <2>1, <2>2
<1>10. SUFFICES ASSUME NEW f \in [Nat -> Call],
                       \A n \in Nat : Nearer(f[n + 1], f[n])
                PROVE  FALSE
  OBVIOUS
<1> DEFINE g == [n \in Nat |-> Rank(f[n])]
<1>11. g \in [Nat -> Nat \X ((SUBSET Message) \X Nat)]
  BY <1>8
<1>12. ASSUME NEW n \in Nat PROVE <<g[n + 1], g[n]>> \in Order
  BY <1>9, <1>10
<1>13. QED
  BY <1>6, <1>11, <1>12 DEF IsWellFoundedOn

----------------------------------------------------------------------------
\* The handlers implement Confinement.tla.

\* What the mapping relies on besides Inv: the loops are those of calls that
\* read; gmail_get_message speaks of its message only in the reply; and no
\* validated mutation adds a label it also removes.
Shaped(w) ==
  LET c == call[w] IN
  /\ c.pc \in {"search", "thread", "pick"} => c.tool # "trash"
  /\ c.tool = "get" /\ c.pc # "reply" => c.served = {}
  /\ Mutating(c) => c.addIds \cap c.removeIds = {}

Mapped == Inv /\ \A w \in Worker : Shaped(w)

\* Confinement.tla means the same by the mailbox and by the scope.
LEMMA SameMailbox ==
  /\ C!MailboxInit <=> MailboxInit
  /\ C!mailboxVars = mailboxVars
  /\ C!Owner <=> Owner
  /\ \A m, add, remove : C!ModifyLabels(m, add, remove) <=> ModifyLabels(m, add, remove)
  /\ \A m : C!TrashMessage(m) <=> TrashMessage(m)
<1>1. C!Remember <=> Remember
  BY DEF Remember, C!Remember
<1>2. C!MailboxInit <=> MailboxInit
  BY DEF MailboxInit, C!MailboxInit
<1>3. C!mailboxVars = mailboxVars
  BY DEF mailboxVars, C!mailboxVars
<1>4. C!Owner <=> Owner
  BY <1>1 DEF Owner, OwnerRelabels, OwnerNames, OwnerDeletes, Moved,
              C!Owner, C!OwnerRelabels, C!OwnerNames, C!OwnerDeletes, C!Moved
<1>5. ASSUME NEW m, NEW add, NEW remove
      PROVE  C!ModifyLabels(m, add, remove) <=> ModifyLabels(m, add, remove)
  BY <1>1 DEF ModifyLabels, C!ModifyLabels, Relabel, C!Relabel
<1>6. ASSUME NEW m PROVE C!TrashMessage(m) <=> TrashMessage(m)
  BY <1>1 DEF TrashMessage, C!TrashMessage, Trashed, C!Trashed
<1>7. QED
  BY <1>2, <1>3, <1>4, <1>5, <1>6

LEMMA SameLabels ==
  /\ C!Label = Label
  /\ \A n, ids : C!ResolveLabelIds(n, ids) = ResolveLabelIds(n, ids)
  /\ \A l, p, ids : C!Mutable(l, p, ids) <=> Mutable(l, p, ids)
<1>1. C!Label = Label /\ C!System = System /\ C!HardDeny = HardDeny
  BY DEF Label, System, HardDeny, C!Label, C!System, C!HardDeny
<1>2. QED
  BY <1>1 DEF ResolveLabelIds, Mutable, C!ResolveLabelIds, C!Mutable

LEMMA SameScope ==
  ASSUME NEW w \in Worker
  PROVE  /\ C!ListingsOf(w) = NamesUsable(w)
         /\ \A labels : C!Admissible(w, labels) <=> InScopeBy(w, labels)
         /\ \A m : C!InScope(w, m) <=> InScopeDuring(w, m)
<1>1. Deals[w].cached = call[w].cached /\ Deals[w].fresh = call[w].fresh
  BY DEF Deals, DealOf
<1>2. C!ListingsOf(w) = NamesUsable(w)
      /\ \A m : C!LabelsOf(w, m) = LabelsUsable(w, m)
  BY <1>1 DEF C!ListingsOf, C!LabelsOf, C!Stale, NamesUsable, LabelsUsable, MayBeStale
<1>3. \A labels, categories, allowed, blocked :
        C!IsEligible(labels, categories, allowed, blocked)
          <=> IsEligible(labels, categories, allowed, blocked)
  BY DEF IsEligible, HardDeny, C!IsEligible, C!HardDeny
<1>4. ASSUME NEW labels
      PROVE  C!Admissible(w, labels) <=> InScopeBy(w, labels)
  BY <1>2, <1>3, SameLabels
     DEF C!Admissible, C!InScopeUnder, InScopeBy, InScopeUnder
<1>5. \A m : C!InScope(w, m) <=> InScopeDuring(w, m)
  BY <1>2, <1>4 DEF C!InScope, InScopeDuring
<1>6. QED
  BY <1>2, <1>4, <1>5

\* A call that becomes d becomes the deal of d.
LEMMA DealStep ==
  ASSUME TypeOK, NEW w \in Worker, NEW d, Become(w, d), UNCHANGED policy
  PROVE  C!Becomes(w, DealOf(d))
<1>1. Deals' = [Deals EXCEPT ![w] = DealOf(d)]
  <2>1. \A v \in Worker : call'[v] = IF v = w THEN d ELSE call[v]
    BY BecomeIs
  <2>2. \A v \in Worker : Deals'[v] = IF v = w THEN DealOf(d) ELSE Deals[v]
    BY <2>1 DEF Deals
  <2>3. QED
    BY <2>2 DEF Deals
<1>2. C!Observe
  <2>1. \A v \in Worker : Deals'[v].phase = "idle" <=> call'[v].pc = "idle"
    BY DEF Deals, DealOf, DealPhase
  <2>2. QED
    BY <2>1 DEF Become, Observe, Unseen, C!Observe, C!Unseen
<1>3. QED
  BY <1>1, <1>2 DEF C!Becomes

LEMMA IdleDeal == DealOf(Idle) = C!NoDeal
BY DEF DealOf, DealPhase, DealKind, Owed, Undecided, Idle, C!NoDeal, ModifyTool

\* The other calls keep their shape.
LEMMA ShapeStep ==
  ASSUME Mapped, NEW w \in Worker, NEW d, Become(w, d), Shaped(w)'
  PROVE  \A v \in Worker : Shaped(v)'
BY BecomeIs DEF Mapped, Inv, Shaped

LEMMA IdleShape ==
  ASSUME Mapped, NEW w \in Worker, Become(w, Idle)
  PROVE  \A v \in Worker : Shaped(v)'
<1>1. call'[w] = Idle
  BY BecomeIs DEF Mapped, Inv
<1>2. Shaped(w)'
  BY <1>1 DEF Shaped, Mutating, Idle, ModifyTool
<1>3. QED
  BY <1>2, ShapeStep

\* What a step of w has to be shown to be.
ServeMaps(w) ==
  /\ \/ C!Look(w) \/ C!Admit(w) \/ C!Over(w)
     \/ C!Relabels(w) \/ C!Stands(w) \/ C!TakenBack(w) \/ C!Discards(w)
  /\ \A v \in Worker : Shaped(v)'

LEMMA QuietKeeps == Quiet => C!Keeps /\ UNCHANGED policy
BY DEF Quiet, C!Keeps, C!mailboxVars, mailboxVars

\* A call that is denied, or whose reply leaves, is over.
LEMMA DenyMaps ==
  ASSUME Mapped, NEW w \in Worker, Busy(w), Quiet, Become(w, Idle)
  PROVE  ServeMaps(w)
<1>1. C!Becomes(w, C!NoDeal)
  BY QuietKeeps, DealStep, IdleDeal DEF Mapped, Inv
<1>2. Deals[w].phase # "idle"
  BY DEF Busy, Deals, DealOf, DealPhase
<1>3. C!Over(w)
  BY <1>1, <1>2, QuietKeeps DEF C!Over
<1>4. QED
  BY <1>3, IdleShape DEF ServeMaps

LEMMA AskingIs ==
  ASSUME NEW w \in Worker, call[w].pc \notin {"idle", "reply"}
  PROVE  C!Asking(w) /\ DealOf(call[w]).phase = "asking"
BY DEF C!Asking, Deals, DealOf, DealPhase

\* What w goes on as, on its way to the reply.
GoesOn(w, d) ==
  LET c == call[w] IN
  /\ c.pc \notin {"idle", "reply"} /\ d.pc # "idle"
  /\ d.tool = c.tool /\ d.fresh = c.fresh /\ d.cached \in {c.cached, TRUE}
  /\ d.pc = "reply" => DealKind(c) = "read"
  /\ d.pc \in {"search", "thread", "pick"} => c.tool # "trash"

KeepsIds(w, d) ==
  Mutating(d) =>
    \/ d.addIds \cap d.removeIds = {}
    \/ /\ Mutating(call[w])
       /\ d.addIds = call[w].addIds /\ d.removeIds = call[w].removeIds

KeepsOwed(w, d) ==
  /\ Undecided(d) <=> Undecided(call[w])
  /\ Undecided(d) =>
       /\ d.msg = call[w].msg /\ d.labels = call[w].labels
       /\ d.addIds = call[w].addIds /\ d.removeIds = call[w].removeIds

\* A step that only reads is looking.
LEMMA LookMaps ==
  ASSUME Mapped, NEW w \in Worker, NEW d, Quiet, Become(w, d),
         GoesOn(w, d), KeepsIds(w, d), KeepsOwed(w, d), d.served = call[w].served
  PROVE  ServeMaps(w)
<1> DEFINE c == call[w]
<1>1. C!Becomes(w, DealOf(d))
  BY QuietKeeps, DealStep DEF Mapped, Inv
<1>2. DealOf(d) = [DealOf(c) EXCEPT !.cached = d.cached, !.phase = DealPhase(d)]
  <2>1. Owed(d) = Owed(c)
    BY DEF Owed, KeepsOwed
  <2>2. DealKind(d) = DealKind(c) /\ d.fresh = c.fresh /\ d.served = c.served
    BY DEF DealKind, GoesOn
  <2>3. PICK r : r = DealOf(c)
    OBVIOUS
  <2>4. PICK x : x = [r EXCEPT !.cached = d.cached]
    OBVIOUS
  <2>5. x = [DealOf(c) EXCEPT !.cached = d.cached]
    BY <2>3, <2>4
  <2>6. x = [phase |-> DealPhase(c), kind |-> DealKind(d), fresh |-> d.fresh,
             cached |-> d.cached, told |-> d.served, owed |-> Owed(d)]
    BY <2>1, <2>2, <2>3, <2>4 DEF DealOf
  <2>7. DealOf(d) = [x EXCEPT !.phase = DealPhase(d)]
    BY <2>6 DEF DealOf
  <2>8. QED
    BY <2>5, <2>7
<1>3. Deals[w] = DealOf(c) /\ DealOf(c).cached = c.cached /\ DealOf(c).kind = DealKind(c)
  BY DEF Deals, DealOf
<1>4. /\ DealPhase(d) \in {"asking", "answering"}
      /\ DealPhase(d) = "answering" => DealKind(c) = "read"
  BY DEF GoesOn, DealPhase
<1>5. C!Look(w)
  <2>1. C!Asking(w) /\ C!Keeps
    BY QuietKeeps, AskingIs DEF GoesOn
  <2>2. d.cached \in {Deals[w].cached, TRUE}
    BY <1>3 DEF GoesOn
  <2>3. C!Becomes(w, [Deals[w] EXCEPT !.cached = d.cached, !.phase = DealPhase(d)])
    BY <1>1, <1>2, <1>3
  <2>4. DealPhase(d) = "answering" => Deals[w].kind = "read"
    BY <1>3, <1>4
  <2>5. QED
    BY <1>4, <2>1, <2>2, <2>3, <2>4 DEF C!Look
<1>6. Shaped(w)'
  <2>1. call'[w] = d
    BY BecomeIs DEF Mapped, Inv
  <2>2. QED
    BY <2>1 DEF Mapped, Shaped, GoesOn, KeepsIds, DealKind
<1>7. QED
  BY <1>5, <1>6, ShapeStep DEF ServeMaps

\* One that finds a message in scope, and tells of it, admits it.
LEMMA AdmitMaps ==
  ASSUME Mapped, NEW w \in Worker, NEW d, NEW m \in Message, Quiet, Become(w, d),
         GoesOn(w, d), KeepsIds(w, d), ~Undecided(call[w]), ~Undecided(d),
         d.cached = call[w].cached, DealKind(call[w]) = "read",
         d.served = call[w].served \cup {m}, InScopeDuring(w, m),
         call[w].tool = "get" => d.pc = "reply"
  PROVE  ServeMaps(w)
<1> DEFINE c == call[w]
<1>1. C!Becomes(w, DealOf(d))
  BY QuietKeeps, DealStep DEF Mapped, Inv
<1>2. DealOf(d) = [DealOf(c) EXCEPT !.phase = DealPhase(d), !.told = @ \cup {m}]
  <2>1. Owed(d) = {} /\ Owed(c) = {}
    BY DEF Owed
  <2>2. DealKind(d) = DealKind(c) /\ d.fresh = c.fresh
    BY DEF DealKind, GoesOn
  <2>3. PICK r : r = DealOf(c)
    OBVIOUS
  <2>4. PICK x : x = [r EXCEPT !.phase = DealPhase(d)]
    OBVIOUS
  <2>5. x = [DealOf(c) EXCEPT !.phase = DealPhase(d)]
    BY <2>3, <2>4
  <2>6. x = [phase |-> DealPhase(d), kind |-> DealKind(d), fresh |-> d.fresh,
             cached |-> d.cached, told |-> c.served, owed |-> Owed(d)]
    BY <2>1, <2>2, <2>3, <2>4 DEF DealOf
  <2>7. DealOf(d) = [x EXCEPT !.told = c.served \cup {m}]
    BY <2>6 DEF DealOf
  <2>8. DealOf(c).told = c.served
    BY DEF DealOf
  <2>9. QED
    BY <2>5, <2>7, <2>8
<1>3. Deals[w] = DealOf(c) /\ DealOf(c).kind = "read"
  BY DEF Deals, DealOf
<1>4. DealPhase(d) \in {"asking", "answering"}
  BY DEF GoesOn, DealPhase
<1>5. C!InScope(w, m)
  BY SameScope
<1>6. C!Admit(w)
  <2>1. C!Asking(w) /\ C!Keeps
    BY QuietKeeps, AskingIs DEF GoesOn
  <2>2. C!Becomes(w, [Deals[w] EXCEPT !.phase = DealPhase(d), !.told = @ \cup {m}])
    BY <1>1, <1>2, <1>3
  <2>3. QED
    BY <1>3, <1>4, <1>5, <2>1, <2>2 DEF C!Admit
<1>7. Shaped(w)'
  <2>1. call'[w] = d
    BY BecomeIs DEF Mapped, Inv
  <2>2. QED
    BY <2>1 DEF Mapped, Shaped, GoesOn, KeepsIds, DealKind
<1>8. QED
  BY <1>6, <1>7, ShapeStep DEF ServeMaps

LEMMA ReadAllowedMaps ==
  ASSUME Mapped, NEW w \in Worker, ReadAllowed(w)
  PROVE  ServeMaps(w)
<1> DEFINE c == call[w]
<1>1. c \in Call /\ c.cached \in BOOLEAN /\ c.fresh \in BOOLEAN
  BY DEF Mapped, Inv, TypeOK, Call
<1>2. PICK r \in AllowedReads(c.fresh) :
        Become(w, [c EXCEPT !.pc = "blocked",
                            !.allowed = r.ids,
                            !.cached = @ \/ r.cached,
                            !.blind = IF c.next = "validate" THEN r.failed ELSE @])
  BY DEF ReadAllowed
<1> DEFINE d == [c EXCEPT !.pc = "blocked",
                          !.allowed = r.ids,
                          !.cached = @ \/ r.cached,
                          !.blind = IF c.next = "validate" THEN r.failed ELSE @]
<1>3. r.cached \in BOOLEAN
  BY <1>1, ReadTypes DEF Mapped, Inv
<1>4. /\ c.pc = "allowed" /\ d.pc = "blocked" /\ d.next = c.next /\ d.tool = c.tool
      /\ d.fresh = c.fresh /\ d.cached \in {c.cached, TRUE} /\ d.served = c.served
      /\ d.addIds = c.addIds /\ d.removeIds = c.removeIds
      /\ d.msg = c.msg /\ d.labels = c.labels
  BY <1>1, <1>3 DEF Call, ReadAllowed
<1> HIDE DEF d
<1>5. GoesOn(w, d) /\ KeepsIds(w, d) /\ KeepsOwed(w, d)
  BY <1>4 DEF GoesOn, KeepsIds, KeepsOwed, Mutating, Validating, Undecided
<1>6. QED
  BY <1>2, <1>4, <1>5, LookMaps DEF ReadAllowed, d

LEMMA ReadBlockedMaps ==
  ASSUME Mapped, NEW w \in Worker, ReadBlocked(w)
  PROVE  ServeMaps(w)
<1> DEFINE c == call[w]
<1>1. c \in Call /\ c.cached \in BOOLEAN /\ c.fresh \in BOOLEAN
      /\ c.next \in {"validate", "gate", "recheck", "verify"}
  BY DEF Mapped, Inv, TypeOK, Call
<1>2. PICK r \in BlockedReads(c.fresh) :
        Become(w, [c EXCEPT !.pc = c.next, !.blocked = r.ids,
                            !.cached = @ \/ r.cached])
  BY DEF ReadBlocked
<1> DEFINE d == [c EXCEPT !.pc = c.next, !.blocked = r.ids,
                          !.cached = @ \/ r.cached]
<1>3. r.cached \in BOOLEAN
  BY <1>1, ReadTypes DEF Mapped, Inv
<1>4. /\ c.pc = "blocked" /\ d.pc = c.next /\ d.next = c.next /\ d.tool = c.tool
      /\ d.fresh = c.fresh /\ d.cached \in {c.cached, TRUE} /\ d.served = c.served
      /\ d.addIds = c.addIds /\ d.removeIds = c.removeIds
      /\ d.msg = c.msg /\ d.labels = c.labels
  BY <1>1, <1>3 DEF Call, ReadBlocked
<1> HIDE DEF d
<1>5. GoesOn(w, d) /\ KeepsIds(w, d) /\ KeepsOwed(w, d)
  BY <1>1, <1>4 DEF GoesOn, KeepsIds, KeepsOwed, Mutating, Validating, Undecided
<1>6. QED
  BY <1>2, <1>4, <1>5, LookMaps DEF ReadBlocked, d

LEMMA DenyingMaps ==
  ASSUME Mapped, NEW w \in Worker,
         \/ BlockedUnknown(w) \/ ReadFails(w) \/ GateRefuses(w)
         \/ RevertFails(w) \/ Reply(w)
  PROVE  ServeMaps(w)
BY DenyMaps
   DEF BlockedUnknown, ReadFails, GateRefuses, RevertFails, Reply, Deny, Busy

LEMMA ReadMetadataMaps ==
  ASSUME Mapped, NEW w \in Worker, ReadMetadata(w)
  PROVE  ServeMaps(w)
<1> DEFINE c == call[w]
<1>1. c \in Call /\ c.cached \in BOOLEAN /\ c.fresh \in BOOLEAN /\ c.msg \in Message
  BY DEF Mapped, Inv, TypeOK, Call
<1>2. PICK r \in MetadataReads(c.msg, c.fresh) :
        Become(w, [c EXCEPT !.pc = "allowed", !.next = "gate",
                            !.labels = r.value,
                            !.categories = policy.categories,
                            !.cached = @ \/ r.cached])
  BY DEF ReadMetadata
<1> DEFINE d == [c EXCEPT !.pc = "allowed", !.next = "gate",
                          !.labels = r.value,
                          !.categories = policy.categories,
                          !.cached = @ \/ r.cached]
<1>3. r.cached \in BOOLEAN
  BY <1>1, ReadTypes DEF Mapped, Inv
<1>4. /\ c.pc = "metadata" /\ d.pc = "allowed" /\ d.next = "gate" /\ d.tool = c.tool
      /\ d.fresh = c.fresh /\ d.cached \in {c.cached, TRUE} /\ d.served = c.served
      /\ d.addIds = c.addIds /\ d.removeIds = c.removeIds
  BY <1>1, <1>3 DEF Call, ReadMetadata
<1> HIDE DEF d
<1>5. GoesOn(w, d) /\ KeepsIds(w, d) /\ KeepsOwed(w, d)
  BY <1>4 DEF GoesOn, KeepsIds, KeepsOwed, Mutating, Validating, Undecided
<1>6. QED
  BY <1>2, <1>4, <1>5, LookMaps DEF ReadMetadata, d

LEMMA PermitTrashMaps ==
  ASSUME Mapped, NEW w \in Worker, PermitTrash(w)
  PROVE  ServeMaps(w)
<1> DEFINE c == call[w]
           d == [c EXCEPT !.pc = "metadata"]
<1>1. c \in Call /\ c.cached \in BOOLEAN /\ c.fresh \in BOOLEAN
  BY DEF Mapped, Inv, TypeOK, Call
<1>2. c.pc = "permit" /\ Quiet /\ (Become(w, d) \/ Become(w, Idle))
  BY DEF PermitTrash, Deny
<1>3. /\ d.pc = "metadata" /\ d.next = c.next /\ d.tool = c.tool
      /\ d.fresh = c.fresh /\ d.cached \in {c.cached, TRUE} /\ d.served = c.served
      /\ d.addIds = c.addIds /\ d.removeIds = c.removeIds
  BY <1>1 DEF Call
<1> HIDE DEF d
<1>4. GoesOn(w, d) /\ KeepsIds(w, d) /\ KeepsOwed(w, d)
  BY <1>2, <1>3 DEF GoesOn, KeepsIds, KeepsOwed, Mutating, Validating, Undecided
<1>5. QED
  BY <1>2, <1>3, <1>4, LookMaps, DenyMaps DEF Busy

LEMMA GateOpensMaps ==
  ASSUME Mapped, NEW w \in Worker, GateOpens(w)
  PROVE  ServeMaps(w)
<1> DEFINE c == call[w]
<1>1. c \in Call /\ c.msg \in Message /\ c.pc = "gate" /\ Verdict(c)
  BY DEF Mapped, Inv, TypeOK, Call, GateOpens
<1>2. CASE c.tool \in ModifyTool \cup {"trash", "get"}
  <2>1. PICK pc \in {"modify", "trash", "content"} :
          Become(w, [Judged(c) EXCEPT !.pc = pc])
    BY <1>2 DEF GateOpens, ModifyTool
  <2> DEFINE d == [Judged(c) EXCEPT !.pc = pc]
  <2>2. /\ d.pc = pc /\ d.next = c.next /\ d.tool = c.tool
        /\ d.fresh = c.fresh /\ d.cached = c.cached /\ d.served = c.served
        /\ d.addIds = c.addIds /\ d.removeIds = c.removeIds
    BY <1>1 DEF Call, Judged
  <2> HIDE DEF d
  <2>3. GoesOn(w, d) /\ KeepsIds(w, d) /\ KeepsOwed(w, d)
    BY <1>1, <2>1, <2>2
       DEF GoesOn, KeepsIds, KeepsOwed, Mutating, Validating, Undecided
  <2>4. QED
    BY <2>1, <2>2, <2>3, LookMaps DEF GateOpens, d
<1>3. CASE c.tool \notin ModifyTool \cup {"trash", "get"}
  <2> DEFINE d == [Judged(c) EXCEPT !.pc = "pick", !.served = @ \cup {c.msg}]
  <2>1. Become(w, d)
    BY <1>3 DEF GateOpens
  <2>2. /\ d.pc = "pick" /\ d.tool = c.tool
        /\ d.fresh = c.fresh /\ d.cached = c.cached
        /\ d.served = c.served \cup {c.msg}
        /\ d.addIds = c.addIds /\ d.removeIds = c.removeIds
    BY <1>1 DEF Call, Judged
  <2> HIDE DEF d
  <2>3. GoesOn(w, d) /\ KeepsIds(w, d) /\ ~Undecided(c) /\ ~Undecided(d)
    BY <1>1, <1>3, <2>2 DEF GoesOn, KeepsIds, Mutating, Validating, Undecided
  <2>4. InScopeDuring(w, c.msg)
    BY <1>1, VerdictInScope DEF Mapped, Inv, CallInv, Known, Judging, Busy
  <2>5. DealKind(c) = "read"
    BY <1>3 DEF DealKind
  <2>6. QED
    BY <1>1, <1>3, <2>1, <2>2, <2>3, <2>4, <2>5, AdmitMaps DEF GateOpens
<1>4. QED
  BY <1>2, <1>3

LEMMA GateSkipsMaps ==
  ASSUME Mapped, NEW w \in Worker, GateSkips(w)
  PROVE  ServeMaps(w)
<1> DEFINE c == call[w]
           d == [Judged(c) EXCEPT !.pc = "pick"]
<1>1. c \in Call
  BY DEF Mapped, Inv, TypeOK
<1>2. /\ c.pc = "gate" /\ c.tool \in {"list", "counts", "thread"}
      /\ d.pc = "pick" /\ d.tool = c.tool
      /\ d.fresh = c.fresh /\ d.cached = c.cached /\ d.served = c.served
      /\ d.addIds = c.addIds /\ d.removeIds = c.removeIds
  BY <1>1 DEF Call, Judged, GateSkips
<1>3. Quiet /\ Become(w, d)
  BY DEF GateSkips
<1> HIDE DEF d
<1>4. GoesOn(w, d) /\ KeepsIds(w, d) /\ KeepsOwed(w, d)
  BY <1>2 DEF GoesOn, KeepsIds, KeepsOwed, Mutating, Validating, Undecided
<1>5. QED
  BY <1>2, <1>3, <1>4, LookMaps

LEMMA SearchMaps ==
  ASSUME Mapped, NEW w \in Worker, Search(w)
  PROVE  ServeMaps(w)
<1> DEFINE c == call[w]
<1>1. c \in Call /\ c.cached \in BOOLEAN /\ c.fresh \in BOOLEAN
      /\ c.tool # "trash"
  BY DEF Mapped, Inv, TypeOK, Call, Shaped, Search
<1>2. PICK r \in SearchReads(c.fresh) :
        Become(w, [c EXCEPT !.pc = "pick", !.todo = r.value,
                            !.queries = @ - 1, !.cached = @ \/ r.cached])
  BY DEF Search
<1> DEFINE d == [c EXCEPT !.pc = "pick", !.todo = r.value,
                          !.queries = @ - 1, !.cached = @ \/ r.cached]
<1>3. r.cached \in BOOLEAN
  BY <1>1, ReadTypes DEF Mapped, Inv
<1>4. /\ c.pc = "search" /\ d.pc = "pick" /\ d.tool = c.tool
      /\ d.fresh = c.fresh /\ d.cached \in {c.cached, TRUE} /\ d.served = c.served
      /\ d.addIds = c.addIds /\ d.removeIds = c.removeIds
  BY <1>1, <1>3 DEF Call, Search
<1> HIDE DEF d
<1>5. GoesOn(w, d) /\ KeepsIds(w, d) /\ KeepsOwed(w, d)
  BY <1>1, <1>4 DEF GoesOn, KeepsIds, KeepsOwed, Mutating, Validating, Undecided
<1>6. QED
  BY <1>2, <1>4, <1>5, LookMaps DEF Search, d

LEMMA GetThreadMaps ==
  ASSUME Mapped, NEW w \in Worker, GetThread(w)
  PROVE  ServeMaps(w)
<1> DEFINE c == call[w]
<1>1. c \in Call /\ c.tool # "trash"
  BY DEF Mapped, Inv, TypeOK, Shaped, GetThread
<1>2. PICK members \in SUBSET Message :
        Become(w, [c EXCEPT !.pc = "pick", !.todo = members, !.hand = box])
  BY DEF GetThread
<1> DEFINE d == [c EXCEPT !.pc = "pick", !.todo = members, !.hand = box]
<1>3. /\ c.pc = "thread" /\ d.pc = "pick" /\ d.tool = c.tool
      /\ d.fresh = c.fresh /\ d.cached = c.cached /\ d.served = c.served
      /\ d.addIds = c.addIds /\ d.removeIds = c.removeIds
  BY <1>1 DEF Call, GetThread
<1> HIDE DEF d
<1>4. GoesOn(w, d) /\ KeepsIds(w, d) /\ KeepsOwed(w, d)
  BY <1>1, <1>3 DEF GoesOn, KeepsIds, KeepsOwed, Mutating, Validating, Undecided
<1>5. QED
  BY <1>2, <1>3, <1>4, LookMaps DEF GetThread, d

LEMMA PickMaps ==
  ASSUME Mapped, NEW w \in Worker, Pick(w)
  PROVE  ServeMaps(w)
<1> DEFINE c == call[w]
<1>1. c \in Call
  BY DEF Mapped, Inv, TypeOK
<1>2. PICK m \in c.todo :
        LET picked == [c EXCEPT !.msg = m, !.todo = @ \ {m}] IN
        IF c.tool = "thread"
        THEN Become(w, [picked EXCEPT !.pc = "allowed", !.next = "gate",
                                      !.labels = c.hand[m],
                                      !.categories = policy.categories])
        ELSE Become(w, [picked EXCEPT !.pc = "metadata"])
  BY DEF Pick
<1> DEFINE p == [c EXCEPT !.msg = m, !.todo = @ \ {m}]
           x == [p EXCEPT !.pc = "allowed", !.next = "gate",
                          !.labels = c.hand[m],
                          !.categories = policy.categories]
           y == [p EXCEPT !.pc = "metadata"]
<1>3. /\ c.pc = "pick" /\ x.pc = "allowed" /\ x.next = "gate" /\ x.tool = c.tool
      /\ x.fresh = c.fresh /\ x.cached = c.cached /\ x.served = c.served
      /\ x.addIds = c.addIds /\ x.removeIds = c.removeIds
  BY <1>1 DEF Call, Pick
<1>4. /\ y.pc = "metadata" /\ y.tool = c.tool
      /\ y.fresh = c.fresh /\ y.cached = c.cached /\ y.served = c.served
      /\ y.addIds = c.addIds /\ y.removeIds = c.removeIds
  BY <1>1 DEF Call
<1> HIDE DEF x, y
<1>5. PICK d \in {x, y} : Become(w, d)
  BY <1>2 DEF x, y
<1>6. GoesOn(w, d) /\ KeepsIds(w, d) /\ KeepsOwed(w, d) /\ d.served = c.served
  BY <1>3, <1>4 DEF GoesOn, KeepsIds, KeepsOwed, Mutating, Validating, Undecided
<1>7. QED
  BY <1>5, <1>6, LookMaps DEF Pick

LEMMA ExhaustedMaps ==
  ASSUME Mapped, NEW w \in Worker, Exhausted(w)
  PROVE  ServeMaps(w)
<1> DEFINE c == call[w]
           x == [c EXCEPT !.pc = "search"]
           y == [c EXCEPT !.pc = "reply"]
<1>1. c \in Call /\ c.pc = "pick" /\ c.tool \notin ModifyTool \cup {"trash"} /\ Quiet
  BY DEF Mapped, Inv, TypeOK, CallInv, Placed, Shaped, Exhausted
<1>2. \A d \in {x, y} :
        /\ d.pc \in {"search", "reply"} /\ d.tool = c.tool
        /\ d.fresh = c.fresh /\ d.cached = c.cached /\ d.served = c.served
        /\ d.addIds = c.addIds /\ d.removeIds = c.removeIds
  BY <1>1 DEF Call
<1>3. Become(w, x) \/ Become(w, y) \/ Become(w, Idle)
  BY DEF Exhausted, Deny
<1> HIDE DEF x, y
<1>4. ASSUME NEW d \in {x, y}, Become(w, d) PROVE ServeMaps(w)
  <2>1. GoesOn(w, d) /\ KeepsIds(w, d) /\ KeepsOwed(w, d)
    BY <1>1, <1>2
       DEF GoesOn, KeepsIds, KeepsOwed, Mutating, Validating, Undecided, DealKind
  <2>2. QED
    BY <1>1, <1>2, <1>4, <2>1, LookMaps
<1>5. QED
  BY <1>1, <1>3, <1>4, DenyMaps DEF Busy

LEMMA FetchContentMaps ==
  ASSUME Mapped, NEW w \in Worker, FetchContent(w)
  PROVE  ServeMaps(w)
<1> DEFINE c == call[w]
<1>1. c \in Call /\ c.cached \in BOOLEAN /\ c.fresh \in BOOLEAN /\ c.msg \in Message
      /\ c.tool = "get"
  BY DEF Mapped, Inv, TypeOK, Call, CallInv, Placed, FetchContent
<1>2. PICK r \in ContentReads(c.msg, c.fresh) :
        Become(w, [c EXCEPT !.pc = "allowed", !.next = "recheck",
                            !.full = IF r.cached THEN {} ELSE r.value,
                            !.categories = policy.categories,
                            !.cached = @ \/ r.cached])
  BY DEF FetchContent
<1> DEFINE d == [c EXCEPT !.pc = "allowed", !.next = "recheck",
                          !.full = IF r.cached THEN {} ELSE r.value,
                          !.categories = policy.categories,
                          !.cached = @ \/ r.cached]
<1>3. r.cached \in BOOLEAN
  BY <1>1, ReadTypes DEF Mapped, Inv
<1>4. /\ c.pc = "content" /\ d.pc = "allowed" /\ d.next = "recheck" /\ d.tool = c.tool
      /\ d.fresh = c.fresh /\ d.cached \in {c.cached, TRUE} /\ d.served = c.served
  BY <1>1, <1>3 DEF Call, FetchContent
<1> HIDE DEF d
<1>5. GoesOn(w, d) /\ KeepsIds(w, d) /\ KeepsOwed(w, d)
  BY <1>1, <1>4 DEF GoesOn, KeepsIds, KeepsOwed, Mutating, Undecided, ModifyTool
<1>6. QED
  BY <1>2, <1>4, <1>5, LookMaps DEF FetchContent, d

LEMMA ReCheckMaps ==
  ASSUME Mapped, NEW w \in Worker, ReCheck(w)
  PROVE  ServeMaps(w)
<1> DEFINE c == call[w]
           d == [c EXCEPT !.pc = "reply", !.served = {c.msg}]
<1>1. /\ c \in Call /\ c.msg \in Message /\ Quiet /\ c.pc = "recheck"
      /\ c.tool = "get" /\ c.served = {}
  BY DEF Mapped, Inv, TypeOK, Call, CallInv, Placed, Shaped, ReCheck
<1>2. /\ d.pc = "reply" /\ d.tool = c.tool /\ d.fresh = c.fresh
      /\ d.cached = c.cached /\ d.served = c.served \cup {c.msg}
  BY <1>1 DEF Call
<1>3. (Verdict(c) /\ Become(w, d)) \/ Become(w, Idle)
  BY DEF ReCheck, Deny
<1> HIDE DEF d
<1>4. CASE Verdict(c) /\ Become(w, d)
  <2>1. InScopeDuring(w, c.msg)
    BY <1>1, <1>4, VerdictInScope DEF Mapped, Inv, CallInv, Known, Judging, Busy
  <2>2. GoesOn(w, d) /\ KeepsIds(w, d) /\ ~Undecided(c) /\ ~Undecided(d)
        /\ DealKind(c) = "read"
    BY <1>1, <1>2 DEF GoesOn, KeepsIds, Mutating, Undecided, DealKind, ModifyTool
  <2>3. QED
    BY <1>1, <1>2, <1>4, <2>1, <2>2, AdmitMaps
<1>5. QED
  BY <1>1, <1>3, <1>4, DenyMaps DEF Busy

LEMMA ReadListingMaps ==
  ASSUME Mapped, NEW w \in Worker, ReadListing(w)
  PROVE  ServeMaps(w)
<1> DEFINE c == call[w]
<1>1. /\ c \in Call /\ c.cached \in BOOLEAN /\ c.fresh \in BOOLEAN
      /\ c.tool \in ModifyTool \cup {"labels"}
  BY DEF Mapped, Inv, TypeOK, Call, CallInv, Placed, ReadListing
<1>2. PICK r \in ListingReads(c.fresh) :
        LET read == [c EXCEPT !.cached = @ \/ r.cached] IN
        IF c.tool = "labels"
        THEN Become(w, [read EXCEPT !.pc = "reply"])
        ELSE Become(w, [read EXCEPT !.pc = "allowed", !.next = "validate",
                                    !.listing = r.value, !.rules = policy])
  BY DEF ReadListing
<1> DEFINE read == [c EXCEPT !.cached = @ \/ r.cached]
           x == [read EXCEPT !.pc = "reply"]
           y == [read EXCEPT !.pc = "allowed", !.next = "validate",
                             !.listing = r.value, !.rules = policy]
<1>3. r.cached \in BOOLEAN
  BY <1>1, ReadTypes DEF Mapped, Inv
<1>4. /\ c.pc = "listing" /\ x.pc = "reply" /\ x.tool = c.tool
      /\ x.fresh = c.fresh /\ x.cached \in {c.cached, TRUE} /\ x.served = c.served
  BY <1>1, <1>3 DEF Call, ReadListing
<1>5. /\ y.pc = "allowed" /\ y.next = "validate" /\ y.tool = c.tool
      /\ y.fresh = c.fresh /\ y.cached \in {c.cached, TRUE} /\ y.served = c.served
  BY <1>1, <1>3 DEF Call
<1> HIDE DEF x, y
<1>6. (c.tool = "labels" /\ Become(w, x)) \/ Become(w, y)
  BY <1>2 DEF x, y
<1>7. CASE c.tool = "labels" /\ Become(w, x)
  <2>1. GoesOn(w, x) /\ KeepsIds(w, x) /\ KeepsOwed(w, x)
    BY <1>4, <1>7
       DEF GoesOn, KeepsIds, KeepsOwed, Mutating, Undecided, DealKind, ModifyTool
  <2>2. QED
    BY <1>4, <1>7, <2>1, LookMaps DEF ReadListing
<1>8. CASE Become(w, y)
  <2>1. GoesOn(w, y) /\ KeepsIds(w, y) /\ KeepsOwed(w, y)
    BY <1>4, <1>5 DEF GoesOn, KeepsIds, KeepsOwed, Mutating, Validating, Undecided
  <2>2. QED
    BY <1>5, <1>8, <2>1, LookMaps DEF ReadListing
<1>9. QED
  BY <1>6, <1>7, <1>8

LEMMA ValidateMaps ==
  ASSUME Mapped, NEW w \in Worker, Validate(w)
  PROVE  ServeMaps(w)
<1> DEFINE c == call[w]
           added   == ResolveAll(c.add, c.listing)
           removed == ResolveAll(c.remove, c.listing)
           d == [Judged(c) EXCEPT !.pc = "metadata",
                                  !.addIds = added,
                                  !.removeIds = removed,
                                  !.add = {}, !.remove = {},
                                  !.listing = Idle.listing, !.rules = Idle.rules]
<1>1. c \in Call /\ Quiet /\ c.pc = "validate"
  BY DEF Mapped, Inv, TypeOK, Validate
<1>2. /\ d.pc = "metadata" /\ d.tool = c.tool /\ d.fresh = c.fresh
      /\ d.cached = c.cached /\ d.served = c.served
      /\ d.addIds = added /\ d.removeIds = removed
  BY <1>1 DEF Call, Judged
<1>3. (added \cap removed = {} /\ Become(w, d)) \/ Become(w, Idle)
  BY DEF Validate, Validates, Deny
<1> HIDE DEF d, added, removed
<1>4. CASE added \cap removed = {} /\ Become(w, d)
  <2>1. GoesOn(w, d) /\ KeepsIds(w, d) /\ KeepsOwed(w, d)
    BY <1>1, <1>2, <1>4 DEF GoesOn, KeepsIds, KeepsOwed, Undecided
  <2>2. QED
    BY <1>1, <1>2, <1>4, <2>1, LookMaps
<1>5. QED
  BY <1>1, <1>3, <1>4, DenyMaps DEF Busy

\* The ids of a validated mutation are ones that Confinement.tla lets change.
LEMMA TouchedIsChangeable ==
  ASSUME NEW w \in Worker, MutableKnown(w), SparesBlocked(w), Touched(w) \subseteq Label
  PROVE  \E labels \in C!Changeable(w) : Touched(w) \subseteq labels
<1>1. PICK p \in seen[w].policies :
        ~p.readOnly /\ \A l \in Touched(w) : Mutable(l, p, {})
  BY DEF MutableKnown
<1>2. PICK n \in NamesUsable(w), q \in seen[w].policies :
        Touched(w) \cap ResolveLabelIds(n, q.blockedLabels) = {}
  BY DEF SparesBlocked, Blocking
<1> DEFINE labels == {l \in Label : Mutable(l, p, ResolveLabelIds(n, q.blockedLabels))}
<1>3. labels \in C!Changeable(w)
  <2>1. labels = {l \in C!Label :
                    C!Mutable(l, p, C!ResolveLabelIds(n, q.blockedLabels))}
    BY SameLabels
  <2>2. n \in C!ListingsOf(w)
    BY SameScope
  <2>3. p \in {r \in seen[w].policies : ~r.readOnly}
    BY <1>1
  <2> HIDE DEF labels
  <2>4. QED
    BY <2>1, <2>2, <2>3 DEF C!Changeable
<1>4. Touched(w) \subseteq labels
  BY <1>1, <1>2 DEF Mutable
<1>5. QED
  BY <1>3, <1>4

\* What Modify has to show besides what it becomes.
LEMMA RelabelsIf ==
  ASSUME Mapped, NEW w \in Worker, call[w].pc = "modify",
         ModifyLabels(call[w].msg, call[w].addIds, call[w].removeIds),
         \/ C!Becomes(w, C!NoDeal)
         \/ C!Becomes(w, [Deals[w] EXCEPT
                            !.owed = {[msg    |-> call[w].msg,
                                       add    |-> call[w].addIds,
                                       remove |-> call[w].removeIds,
                                       labels |-> box'[call[w].msg]]}])
  PROVE  C!Relabels(w)
<1> DEFINE c == call[w]
<1>1. c.msg \in Message /\ c.addIds \subseteq Label /\ c.removeIds \subseteq Label
  BY DEF Mapped, Inv, TypeOK, Call
<1>2. c.tool \in ModifyTool /\ Known(w) /\ Shaped(w) /\ Mutating(c)
  BY DEF Mapped, Inv, CallInv, Placed, Mutating, Validating
<1>3. C!InScope(w, c.msg)
  BY <1>2, SameScope DEF Known
<1>4. PICK labels \in C!Changeable(w) : Touched(w) \subseteq labels
  BY <1>1, <1>2, TouchedIsChangeable DEF Known, MutationKnown, Touched
<1>5. c.addIds \in SUBSET labels /\ c.removeIds \in SUBSET (labels \ c.addIds)
  BY <1>2, <1>4 DEF Touched, Shaped
<1>6. Deals[w].kind = "relabel" /\ Deals[w].owed = {}
  BY <1>2 DEF Deals, DealOf, DealKind, Owed, Undecided
<1>7. UNCHANGED moves
  BY DEF ModifyLabels
<1>8. C!ModifyLabels(c.msg, c.addIds, c.removeIds)
  BY SameMailbox
<1>9. C!Asking(w)
  BY AskingIs
<1>10. c.msg \in {n \in Message : C!InScope(w, n)}
  BY <1>1, <1>3
<1>11. QED
  BY <1>4, <1>5, <1>6, <1>7, <1>8, <1>9, <1>10, Zenon DEF C!Relabels

LEMMA ModifyMaps ==
  ASSUME Mapped, NEW w \in Worker, Modify(w)
  PROVE  ServeMaps(w)
<1> DEFINE c == call[w]
           d == [c EXCEPT !.pc = "allowed", !.next = "verify",
                          !.labels = box'[c.msg],
                          !.before = box[c.msg],
                          !.categories = policy.categories]
<1>1. /\ c \in Call /\ c.pc = "modify" /\ UNCHANGED policy
      /\ ModifyLabels(c.msg, c.addIds, c.removeIds) /\ Become(w, d)
  BY DEF Mapped, Inv, TypeOK, Modify
<1>2. /\ d.pc = "allowed" /\ d.next = "verify" /\ d.tool = c.tool
      /\ d.fresh = c.fresh /\ d.cached = c.cached /\ d.served = c.served
      /\ d.msg = c.msg /\ d.labels = box'[c.msg]
      /\ d.addIds = c.addIds /\ d.removeIds = c.removeIds
  BY <1>1 DEF Call
<1> HIDE DEF d
<1>3. DealOf(d) = [DealOf(c) EXCEPT
                     !.owed = {[msg |-> c.msg, add |-> c.addIds,
                                remove |-> c.removeIds, labels |-> box'[c.msg]]}]
  <2>1. Owed(d) = {[msg |-> c.msg, add |-> c.addIds,
                    remove |-> c.removeIds, labels |-> box'[c.msg]]}
    BY <1>2 DEF Owed, Undecided
  <2>2. DealKind(d) = DealKind(c) /\ DealPhase(d) = "asking" /\ DealPhase(c) = "asking"
    BY <1>1, <1>2 DEF DealKind, DealPhase
  <2>3. PICK r : r = DealOf(c)
    OBVIOUS
  <2>4. DealOf(d) = [r EXCEPT !.owed = Owed(d)]
    BY <1>2, <2>2, <2>3 DEF DealOf
  <2>5. QED
    BY <2>1, <2>3, <2>4
<1>4. C!Becomes(w, DealOf(d)) /\ Deals[w] = DealOf(c)
  BY <1>1, DealStep DEF Mapped, Inv, Deals
<1>5. C!Relabels(w)
  BY <1>1, <1>3, <1>4, RelabelsIf
<1>6. Shaped(w)'
  <2>1. call'[w] = d
    BY <1>1, BecomeIs DEF Mapped, Inv
  <2>2. c.tool \in ModifyTool
    BY <1>1 DEF Mapped, Inv, CallInv, Placed
  <2>3. Mutating(c)
    BY <1>1, <2>2 DEF Mutating, Validating
  <2>4. QED
    BY <1>2, <2>1, <2>2, <2>3 DEF Mapped, Shaped, ModifyTool
<1>7. QED
  BY <1>1, <1>5, <1>6, ShapeStep DEF ServeMaps

LEMMA ModifyUnansweredMaps ==
  ASSUME Mapped, NEW w \in Worker, ModifyUnanswered(w)
  PROVE  ServeMaps(w)
<1>1. /\ call[w].pc = "modify" /\ UNCHANGED policy /\ Become(w, Idle)
      /\ ModifyLabels(call[w].msg, call[w].addIds, call[w].removeIds)
  BY DEF ModifyUnanswered, Deny
<1>2. C!Becomes(w, C!NoDeal)
  BY <1>1, DealStep, IdleDeal DEF Mapped, Inv
<1>3. C!Relabels(w)
  BY <1>1, <1>2, RelabelsIf
<1>4. QED
  BY <1>1, <1>3, IdleShape DEF ServeMaps

\* The deal w has owed since its modify.
LEMMA OwedIs ==
  ASSUME NEW w \in Worker, call[w].pc \in {"verify", "revert"}
  PROVE  /\ C!Asking(w)
         /\ Deals[w].owed = {[msg |-> call[w].msg, add |-> call[w].addIds,
                              remove |-> call[w].removeIds,
                              labels |-> call[w].labels]}
BY AskingIs DEF Deals, DealOf, Owed, Undecided

LEMMA VerifyMaps ==
  ASSUME Mapped, NEW w \in Worker, Verify(w)
  PROVE  ServeMaps(w)
<1> DEFINE c == call[w]
           x == [Judged(c) EXCEPT !.pc = "reply", !.served = {c.msg}]
           y == [Judged(c) EXCEPT !.pc = "revert"]
<1>1. c \in Call /\ c.pc = "verify" /\ c.tool \in ModifyTool /\ Quiet
  BY DEF Mapped, Inv, TypeOK, CallInv, Placed, Verify
<1>2. /\ x.pc = "reply" /\ x.tool = c.tool
      /\ x.fresh = c.fresh /\ x.cached = c.cached /\ x.served = {c.msg}
      /\ x.addIds = c.addIds /\ x.removeIds = c.removeIds
  BY <1>1 DEF Call, Judged
<1>3. /\ y.pc = "revert" /\ y.tool = c.tool
      /\ y.fresh = c.fresh /\ y.cached = c.cached /\ y.served = c.served
      /\ y.msg = c.msg /\ y.labels = c.labels
      /\ y.addIds = c.addIds /\ y.removeIds = c.removeIds
  BY <1>1 DEF Call, Judged
<1>4. (Verdict(c) /\ Become(w, x)) \/ Become(w, y)
  BY DEF Verify
<1>5. Mutating(c)
  BY <1>1 DEF Mutating, Validating
<1> HIDE DEF x, y
<1>6. CASE Verdict(c) /\ Become(w, x)
  <2> DEFINE o == [msg |-> c.msg, add |-> c.addIds, remove |-> c.removeIds,
                   labels |-> c.labels]
  <2>1. InScopeBy(w, c.labels)
    BY <1>1, <1>6, VerdictInScope DEF Mapped, Inv, CallInv, Known, Judging, Busy
  <2>2. C!Admissible(w, o.labels)
    BY <2>1, SameScope
  <2>3. DealOf(x) = [DealOf(c) EXCEPT !.phase = "answering", !.owed = {}, !.told = {c.msg}]
    <3>1. Owed(x) = {} /\ DealKind(x) = DealKind(c) /\ DealPhase(x) = "answering"
      BY <1>2 DEF Owed, Undecided, DealKind, DealPhase
    <3>2. PICK r : r = DealOf(c)
      OBVIOUS
    <3>3. PICK s : s = [r EXCEPT !.phase = "answering"]
      OBVIOUS
    <3>4. s = [phase |-> "answering", kind |-> DealKind(c), fresh |-> c.fresh,
               cached |-> c.cached, told |-> c.served, owed |-> Owed(c)]
      BY <3>2, <3>3 DEF DealOf
    <3>5. PICK t : t = [s EXCEPT !.owed = {}]
      OBVIOUS
    <3>6. t = [phase |-> "answering", kind |-> DealKind(c), fresh |-> c.fresh,
               cached |-> c.cached, told |-> c.served, owed |-> {}]
      BY <3>4, <3>5
    <3>7. DealOf(x) = [t EXCEPT !.told = {c.msg}]
      BY <1>2, <3>1, <3>6 DEF DealOf
    <3>8. QED
      BY <3>2, <3>3, <3>5, <3>7
  <2>4. C!Becomes(w, DealOf(x)) /\ Deals[w] = DealOf(c)
    BY <1>1, <1>6, DealStep, QuietKeeps DEF Mapped, Inv, Deals
  <2>5. o \in Deals[w].owed /\ C!Asking(w) /\ o.msg = c.msg
    BY <1>1, OwedIs
  <2>6. C!Becomes(w, [Deals[w] EXCEPT !.phase = "answering", !.owed = {},
                                      !.told = {o.msg}])
    BY <2>3, <2>4, <2>5
  <2> HIDE DEF o
  <2>7. C!Stands(w)
    BY <1>1, <2>2, <2>5, <2>6, QuietKeeps DEF C!Stands
  <2>8. Shaped(w)'
    <3>1. call'[w] = x
      BY <1>6, BecomeIs DEF Mapped, Inv
    <3>2. QED
      BY <1>1, <1>2, <1>5, <3>1 DEF Mapped, Shaped, ModifyTool
  <2>9. QED
    BY <1>6, <2>7, <2>8, ShapeStep DEF ServeMaps
<1>7. CASE Become(w, y)
  <2>1. GoesOn(w, y) /\ KeepsIds(w, y) /\ KeepsOwed(w, y)
    BY <1>1, <1>3, <1>5 DEF GoesOn, KeepsIds, KeepsOwed, Undecided
  <2>2. QED
    BY <1>1, <1>3, <1>7, <2>1, LookMaps
<1>8. QED
  BY <1>4, <1>6, <1>7

LEMMA RevertMaps ==
  ASSUME Mapped, NEW w \in Worker, Revert(w)
  PROVE  ServeMaps(w)
<1> DEFINE c == call[w]
           o == [msg |-> c.msg, add |-> c.addIds, remove |-> c.removeIds,
                 labels |-> c.labels]
<1>1. /\ c.pc = "revert" /\ UNCHANGED policy /\ Become(w, Idle)
      /\ ModifyLabels(c.msg, c.removeIds, c.addIds)
  BY DEF Revert, Deny
<1>2. C!Becomes(w, C!NoDeal)
  BY <1>1, DealStep, IdleDeal DEF Mapped, Inv
<1>3. o \in Deals[w].owed /\ C!Asking(w)
  BY <1>1, OwedIs
<1>4. C!ModifyLabels(o.msg, o.remove, o.add)
  BY <1>1, SameMailbox
<1> HIDE DEF o
<1>5. C!TakenBack(w)
  BY <1>2, <1>3, <1>4 DEF C!TakenBack
<1>6. QED
  BY <1>1, <1>5, IdleShape DEF ServeMaps

LEMMA TrashMaps ==
  ASSUME Mapped, NEW w \in Worker, Trash(w) \/ TrashUnanswered(w)
  PROVE  ServeMaps(w)
<1> DEFINE c == call[w]
           d == [c EXCEPT !.pc = "reply"]
<1>1. /\ c \in Call /\ c.msg \in Message /\ c.pc = "trash" /\ c.tool = "trash"
      /\ InScopeDuring(w, c.msg) /\ TrashKnown(w)
  BY DEF Mapped, Inv, TypeOK, Call, CallInv, Placed, Known, Trash, TrashUnanswered
<1>2. TrashMessage(c.msg) /\ UNCHANGED policy /\ (Become(w, d) \/ Become(w, Idle))
  BY DEF Trash, TrashUnanswered, Deny
<1>3. /\ d.pc = "reply" /\ d.tool = c.tool
      /\ d.fresh = c.fresh /\ d.cached = c.cached /\ d.served = c.served
  BY <1>1 DEF Call
<1> HIDE DEF d
<1>4. /\ C!Asking(w) /\ Deals[w].kind = "trash" /\ Deals[w] = DealOf(c)
      /\ C!InScope(w, c.msg) /\ C!TrashMessage(c.msg)
      /\ \E p \in seen[w].policies : p.allowTrash
  BY <1>1, <1>2, AskingIs, SameScope, SameMailbox
     DEF Deals, DealOf, DealKind, ModifyTool, TrashKnown
<1>5. CASE Become(w, d)
  <2>1. C!Becomes(w, DealOf(d))
    BY <1>2, <1>5, DealStep DEF Mapped, Inv
  <2>2. DealOf(d) = [DealOf(c) EXCEPT !.phase = "answering"]
    <3>1. Owed(c) = {} /\ Owed(d) = {} /\ DealKind(d) = DealKind(c)
          /\ DealPhase(d) = "answering"
      BY <1>1, <1>3 DEF Owed, Undecided, DealKind, DealPhase
    <3>2. PICK r : r = DealOf(c)
      OBVIOUS
    <3>3. DealOf(d) = [r EXCEPT !.phase = "answering"]
      BY <1>3, <3>1, <3>2 DEF DealOf
    <3>4. QED
      BY <3>2, <3>3
  <2>3. C!Discards(w)
    BY <1>1, <1>4, <2>1, <2>2 DEF C!Discards
  <2>4. Shaped(w)'
    <3>1. call'[w] = d
      BY <1>5, BecomeIs DEF Mapped, Inv
    <3>2. QED
      BY <1>1, <1>3, <3>1 DEF Shaped, Mutating, ModifyTool
  <2>5. QED
    BY <1>5, <2>3, <2>4, ShapeStep DEF ServeMaps
<1>6. CASE Become(w, Idle)
  <2>1. C!Becomes(w, C!NoDeal)
    BY <1>2, <1>6, DealStep, IdleDeal DEF Mapped, Inv
  <2>2. C!Discards(w)
    BY <1>1, <1>4, <2>1 DEF C!Discards
  <2>3. QED
    BY <1>6, <2>2, IdleShape DEF ServeMaps
<1>7. QED
  BY <1>2, <1>5, <1>6

LEMMA ServeStepMaps ==
  ASSUME Mapped, NEW w \in Worker, Serve(w)
  PROVE  ServeMaps(w)
BY ReadAllowedMaps, ReadBlockedMaps, DenyingMaps, ReadMetadataMaps, GateOpensMaps,
   GateSkipsMaps, SearchMaps, GetThreadMaps, PickMaps, ExhaustedMaps,
   FetchContentMaps, ReCheckMaps, ReadListingMaps, ValidateMaps, ModifyMaps,
   ModifyUnansweredMaps, VerifyMaps, RevertMaps, TrashMaps, PermitTrashMaps
   DEF Serve

\* What a call is when it begins.
Fresh(d) ==
  /\ d.pc \in {"listing", "search", "metadata", "thread", "permit"}
  /\ d.pc \in {"search", "thread"} => d.tool # "trash"
  /\ d.fresh \in BOOLEAN /\ d.cached = FALSE /\ d.served = {}
  /\ d.addIds = {} /\ d.removeIds = {}
  /\ d.tool \in ModifyTool \cup {"trash"} => ~policy.readOnly

LEMMA StartIs ==
  ASSUME NEW w \in Worker, Start(w)
  PROVE  \E d : Begin(w, d) /\ Fresh(d)
<1>1. /\ Idle \in Call /\ Idle.fresh = FALSE /\ Idle.cached = FALSE
      /\ Idle.served = {} /\ Idle.addIds = {} /\ Idle.removeIds = {}
  BY IdleType DEF Idle
<1>2. CASE StartList(w)
  <2>1. PICK fresh \in BOOLEAN, tool \in {"list", "counts"} :
          \E n \in IF tool = "list" THEN {1} ELSE 1..MaxQueries :
            Begin(w, [Idle EXCEPT !.pc = "search", !.tool = tool,
                                  !.fresh = fresh, !.queries = n])
    BY <1>2 DEF StartList
  <2>2. PICK n : Begin(w, [Idle EXCEPT !.pc = "search", !.tool = tool,
                                       !.fresh = fresh, !.queries = n])
    BY <2>1
  <2> DEFINE d == [Idle EXCEPT !.pc = "search", !.tool = tool,
                               !.fresh = fresh, !.queries = n]
  <2>3. Fresh(d)
    BY <1>1 DEF Fresh, Call, ModifyTool
  <2>4. QED
    BY <2>2, <2>3
<1>3. CASE StartGet(w)
  <2>1. PICK fresh \in BOOLEAN, m \in Message :
          Begin(w, [Idle EXCEPT !.pc = "metadata", !.tool = "get",
                                !.fresh = fresh, !.msg = m])
    BY <1>3 DEF StartGet
  <2> DEFINE d == [Idle EXCEPT !.pc = "metadata", !.tool = "get",
                               !.fresh = fresh, !.msg = m]
  <2>2. Fresh(d)
    BY <1>1 DEF Fresh, Call, ModifyTool
  <2>3. QED
    BY <2>1, <2>2
<1>4. CASE StartThread(w)
  <2>1. PICK fresh \in BOOLEAN :
          Begin(w, [Idle EXCEPT !.pc = "thread", !.tool = "thread",
                                !.fresh = fresh])
    BY <1>4 DEF StartThread
  <2> DEFINE d == [Idle EXCEPT !.pc = "thread", !.tool = "thread",
                               !.fresh = fresh]
  <2>2. Fresh(d)
    BY <1>1 DEF Fresh, Call, ModifyTool
  <2>3. QED
    BY <2>1, <2>2
<1>5. CASE StartLabels(w)
  <2>1. PICK fresh \in BOOLEAN :
          Begin(w, [Idle EXCEPT !.pc = "listing", !.tool = "labels",
                                !.fresh = fresh])
    BY <1>5 DEF StartLabels
  <2> DEFINE d == [Idle EXCEPT !.pc = "listing", !.tool = "labels",
                               !.fresh = fresh]
  <2>2. Fresh(d)
    BY <1>1 DEF Fresh, Call, ModifyTool
  <2>3. QED
    BY <2>1, <2>2
<1>6. CASE StartModify(w)
  <2>1. PICK m \in Message, add \in Request, remove \in Request :
          Begin(w, [Idle EXCEPT !.pc = "listing", !.tool = "modify", !.msg = m,
                                !.add = add, !.remove = remove])
    BY <1>6 DEF StartModify
  <2> DEFINE d == [Idle EXCEPT !.pc = "listing", !.tool = "modify", !.msg = m,
                               !.add = add, !.remove = remove]
  <2>2. ~policy.readOnly
    BY <1>6 DEF StartModify, Write
  <2>3. Fresh(d)
    BY <1>1, <2>2 DEF Fresh, Call
  <2>4. QED
    BY <2>1, <2>3
<1>7. CASE StartArchive(w)
  <2>1. PICK m \in Message :
          Begin(w, [Idle EXCEPT !.pc = "listing", !.tool = "archive", !.msg = m,
                                !.remove = {INBOX}])
    BY <1>7 DEF StartArchive
  <2> DEFINE d == [Idle EXCEPT !.pc = "listing", !.tool = "archive", !.msg = m,
                               !.remove = {INBOX}]
  <2>2. ~policy.readOnly
    BY <1>7 DEF StartArchive, Write
  <2>3. Fresh(d)
    BY <1>1, <2>2 DEF Fresh, Call
  <2>4. QED
    BY <2>1, <2>3
<1>8. CASE StartTrash(w)
  <2>1. PICK m \in Message :
          Begin(w, [Idle EXCEPT !.pc = "permit", !.tool = "trash", !.msg = m])
    BY <1>8 DEF StartTrash
  <2> DEFINE d == [Idle EXCEPT !.pc = "permit", !.tool = "trash", !.msg = m]
  <2>2. ~policy.readOnly
    BY <1>8 DEF StartTrash, Write
  <2>3. Fresh(d)
    BY <1>1, <2>2 DEF Fresh, Call
  <2>4. QED
    BY <2>1, <2>3
<1>9. QED
  BY <1>2, <1>3, <1>4, <1>5, <1>6, <1>7, <1>8 DEF Start

LEMMA StartMaps ==
  ASSUME Mapped, NEW w \in Worker, Start(w)
  PROVE  C!Ask(w) /\ \A v \in Worker : Shaped(v)'
<1>1. PICK d : Begin(w, d) /\ Fresh(d)
  BY StartIs
<1>2. Become(w, d) /\ UNCHANGED <<mailboxVars, policy>> /\ call[w].pc = "idle"
  BY <1>1 DEF Begin
<1>3. C!Becomes(w, DealOf(d))
  BY <1>2, DealStep DEF Mapped, Inv
<1>4. DealOf(d) = [C!NoDeal EXCEPT !.phase = "asking", !.kind = DealKind(d),
                                   !.fresh = d.fresh]
  <2>1. Owed(d) = {} /\ DealPhase(d) = "asking"
    BY <1>1 DEF Fresh, Owed, Undecided, DealPhase
  <2>2. PICK no : no = FALSE
    OBVIOUS
  <2>3. PICK fresh : fresh = d.fresh
    OBVIOUS
  <2>4. PICK r : r = [phase |-> "idle", kind |-> "read", fresh |-> no,
                      cached |-> no, told |-> {}, owed |-> {}]
    OBVIOUS
  <2>5. PICK s : s = [r EXCEPT !.phase = "asking"]
    OBVIOUS
  <2>6. s = [phase |-> "asking", kind |-> "read", fresh |-> no,
             cached |-> no, told |-> {}, owed |-> {}]
    BY <2>4, <2>5
  <2>7. PICK t : t = [s EXCEPT !.kind = DealKind(d)]
    OBVIOUS
  <2>8. t = [phase |-> "asking", kind |-> DealKind(d), fresh |-> no,
             cached |-> no, told |-> {}, owed |-> {}]
    BY <2>6, <2>7
  <2>9. [t EXCEPT !.fresh = fresh]
          = [phase |-> "asking", kind |-> DealKind(d), fresh |-> fresh,
             cached |-> no, told |-> {}, owed |-> {}]
    BY <2>8
  <2>10. DealOf(d) = [phase |-> "asking", kind |-> DealKind(d), fresh |-> fresh,
                      cached |-> no, told |-> {}, owed |-> {}]
    BY <1>1, <2>1, <2>2, <2>3 DEF DealOf, Fresh
  <2>11. C!NoDeal = r
    BY <2>2, <2>4 DEF C!NoDeal
  <2>12. QED
    BY <2>3, <2>5, <2>7, <2>9, <2>10, <2>11
<1>5. Deals[w].phase = "idle" /\ C!Keeps
  BY <1>2 DEF Deals, DealOf, DealPhase, C!Keeps, C!mailboxVars, mailboxVars
<1>6. /\ DealKind(d) \in {"read", "relabel", "trash"} /\ d.fresh \in BOOLEAN
      /\ DealKind(d) # "read" => ~policy.readOnly
  BY <1>1 DEF Fresh, DealKind
<1>7. C!Ask(w)
  BY <1>3, <1>4, <1>5, <1>6 DEF C!Ask
<1>8. Shaped(w)'
  <2>1. call'[w] = d
    BY <1>2, BecomeIs DEF Mapped, Inv
  <2>2. QED
    BY <1>1, <2>1 DEF Shaped, Fresh
<1>9. QED
  BY <1>2, <1>7, <1>8, ShapeStep

LEMMA OutsideMaps ==
  ASSUME Mapped, SavePolicy \/ OwnerStep
  PROVE  C!Outside /\ \A v \in Worker : Shaped(v)'
<1>1. call' = call /\ Observe
  BY DEF SavePolicy, OwnerStep
<1>2. UNCHANGED Deals
  BY <1>1 DEF Deals
<1>3. C!Observe
  <2>1. \A v \in Worker : Deals'[v].phase = "idle" <=> call'[v].pc = "idle"
    BY DEF Deals, DealOf, DealPhase
  <2>2. QED
    BY <1>1, <2>1 DEF Observe, Unseen, C!Observe, C!Unseen
<1>4. \/ C!Owner /\ UNCHANGED policy
      \/ C!Moved /\ policy' \in Policies /\ UNCHANGED <<box, names, pastBox, pastNames>>
  BY SameMailbox DEF SavePolicy, OwnerStep, Moved, C!Moved
<1>5. \A v \in Worker : Shaped(v)'
  BY <1>1 DEF Mapped, Shaped
<1>6. QED
  BY <1>2, <1>3, <1>4, <1>5 DEF C!Outside

LEMMA InitMaps == Init => C!Init /\ Mapped
<1> SUFFICES ASSUME Init PROVE C!Init /\ Mapped
  OBVIOUS
<1>1. Deals = [w \in Worker |-> C!NoDeal]
  BY IdleDeal DEF Init, Deals
<1>2. seen = [w \in Worker |-> C!Unseen]
  BY DEF Init, Unseen, C!Unseen
<1>3. C!Init
  BY <1>1, <1>2, SameMailbox DEF Init, C!Init
<1>4. \A w \in Worker : Shaped(w)
  BY DEF Init, Shaped, Idle, Mutating, ModifyTool
<1>5. QED
  BY <1>3, <1>4, InitInv DEF Mapped

LEMMA StepMaps ==
  Mapped /\ [Next]_vars => Mapped' /\ [C!Next]_(C!confinementVars)
<1> SUFFICES ASSUME Mapped, [Next]_vars
             PROVE  Mapped' /\ [C!Next]_(C!confinementVars)
  OBVIOUS
<1>1. Inv'
  BY NextInv DEF Mapped
<1>2. CASE UNCHANGED vars
  <2>1. UNCHANGED <<box, names, pastBox, pastNames, moves, policy, call, seen>>
    BY <1>2 DEF vars, mailboxVars
  <2>2. UNCHANGED Deals
    BY <2>1 DEF Deals
  <2>3. UNCHANGED C!confinementVars
    BY <2>1, <2>2 DEF C!confinementVars, C!mailboxVars
  <2>4. \A v \in Worker : Shaped(v)'
    BY <2>1 DEF Mapped, Shaped
  <2>5. QED
    BY <1>1, <2>3, <2>4 DEF Mapped
<1>3. ASSUME NEW w \in Worker, Start(w) PROVE C!Next /\ Mapped'
  BY <1>1, <1>3, StartMaps DEF C!Next, Mapped
<1>4. ASSUME NEW w \in Worker, Serve(w) PROVE C!Next /\ Mapped'
  BY <1>1, <1>4, ServeStepMaps DEF C!Next, Mapped, ServeMaps
<1>5. CASE SavePolicy \/ OwnerStep
  BY <1>1, <1>5, OutsideMaps DEF C!Next, Mapped
<1>6. QED
  BY <1>2, <1>3, <1>4, <1>5 DEF Next

\* The handlers of tools.py keep the promise of Confinement.tla: whatever is
\* called, cached, lost, renamed or relabelled meanwhile, a tool call does
\* nothing to the mailbox that a deal of its kind does not allow, and its
\* reply tells of nothing a deal may not tell of.
THEOREM Confines == Spec => Confined
<1>1. Init => C!Init /\ Mapped
  BY InitMaps
<1>2. Mapped /\ [Next]_vars => Mapped' /\ [C!Next]_(C!confinementVars)
  BY StepMaps
<1>3. QED
  BY <1>1, <1>2, PTL DEF Spec, Confined, C!Spec

----------------------------------------------------------------------------
\* What a revert undoes.

\* The labels in hand until a change is decided on are those it made.
Answered(c) == Undecided(c) => c.labels = Relabel(c.before, c.addIds, c.removeIds)

\* Of a call's own steps only these leave a change undecided.
LEMMA DecidedStep ==
  ASSUME Inv, NEW w \in Worker, Serve(w),
         ~ReadAllowed(w), ~ReadBlocked(w), ~Modify(w), ~Verify(w)
  PROVE  ~Undecided(call'[w])
<1> DEFINE c == call[w]
<1>0. TypeOK /\ c \in Call
  BY DEF Inv, TypeOK
<1>1. ASSUME NEW d, Become(w, d), ~Undecided(d)
      PROVE  ~Undecided(call'[w])
  BY <1>0, <1>1, BecomeIs
<1>2. ~Undecided(Idle)
  BY DEF Undecided, Idle
<1>3. CASE Deny(w)
  BY <1>1, <1>2, <1>3 DEF Deny
<1>4. CASE BlockedUnknown(w) \/ ReadFails(w) \/ GateRefuses(w) \/ ModifyUnanswered(w)
           \/ Revert(w) \/ RevertFails(w) \/ TrashUnanswered(w) \/ Reply(w)
  BY <1>1, <1>2, <1>4
     DEF BlockedUnknown, ReadFails, GateRefuses, ModifyUnanswered, Revert,
         RevertFails, TrashUnanswered, Reply, Deny
<1>5. ASSUME NEW d, Become(w, d),
             \/ d.pc \in {"search", "pick", "metadata", "content", "modify", "trash", "reply"}
             \/ d.pc = "allowed" /\ d.next # "verify"
      PROVE  ~Undecided(call'[w])
  BY <1>1, <1>5 DEF Undecided
<1>6. CASE ReadMetadata(w)
  <2>1. PICK r \in MetadataReads(c.msg, c.fresh) :
          Become(w, [c EXCEPT !.pc = "allowed", !.next = "gate",
                              !.labels = r.value,
                              !.categories = policy.categories,
                              !.cached = @ \/ r.cached])
    BY <1>6 DEF ReadMetadata
  <2> DEFINE d == [c EXCEPT !.pc = "allowed", !.next = "gate",
                            !.labels = r.value,
                            !.categories = policy.categories,
                            !.cached = @ \/ r.cached]
  <2>2. d.pc = "allowed" /\ d.next = "gate"
    BY <1>0 DEF Call
  <2> HIDE DEF d
  <2>3. QED
    BY <1>5, <2>1, <2>2 DEF d
<1>7. CASE GateOpens(w) \/ GateSkips(w)
  <2> DEFINE x1 == [Judged(c) EXCEPT !.pc = "modify"]
             x2 == [Judged(c) EXCEPT !.pc = "trash"]
             x3 == [Judged(c) EXCEPT !.pc = "content"]
             x4 == [Judged(c) EXCEPT !.pc = "pick", !.served = @ \cup {c.msg}]
             x5 == [Judged(c) EXCEPT !.pc = "pick"]
  <2>1. /\ x1.pc = "modify" /\ x2.pc = "trash" /\ x3.pc = "content"
        /\ x4.pc = "pick" /\ x5.pc = "pick"
    BY <1>0 DEF Judged, Call
  <2> HIDE DEF x1, x2, x3, x4, x5
  <2>2. CASE GateOpens(w)
    <3>1. Become(w, x1) \/ Become(w, x2) \/ Become(w, x3) \/ Become(w, x4)
      BY <2>2 DEF GateOpens, x1, x2, x3, x4
    <3>2. QED
      BY <1>5, <2>1, <3>1
  <2>3. CASE GateSkips(w)
    <3>1. Become(w, x5)
      BY <2>3 DEF GateSkips, x5
    <3>2. QED
      BY <1>5, <2>1, <3>1
  <2>4. QED
    BY <1>7, <2>2, <2>3
<1>8. CASE Search(w)
  <2>1. PICK r \in SearchReads(c.fresh) :
          Become(w, [c EXCEPT !.pc = "pick", !.todo = r.value,
                              !.queries = @ - 1, !.cached = @ \/ r.cached])
    BY <1>8 DEF Search
  <2> DEFINE d == [c EXCEPT !.pc = "pick", !.todo = r.value,
                            !.queries = @ - 1, !.cached = @ \/ r.cached]
  <2>2. d.pc = "pick"
    BY <1>0 DEF Call
  <2> HIDE DEF d
  <2>3. QED
    BY <1>5, <2>1, <2>2 DEF d
<1>9. CASE GetThread(w)
  <2>1. PICK members \in SUBSET Message :
          Become(w, [c EXCEPT !.pc = "pick", !.todo = members, !.hand = box])
    BY <1>9 DEF GetThread
  <2> DEFINE d == [c EXCEPT !.pc = "pick", !.todo = members, !.hand = box]
  <2>2. d.pc = "pick"
    BY <1>0 DEF Call
  <2> HIDE DEF d
  <2>3. QED
    BY <1>5, <2>1, <2>2 DEF d
<1>10. CASE Pick(w)
  <2>1. PICK m \in c.todo :
          LET picked == [c EXCEPT !.msg = m, !.todo = @ \ {m}] IN
          IF c.tool = "thread"
          THEN Become(w, [picked EXCEPT !.pc = "allowed", !.next = "gate",
                                        !.labels = c.hand[m],
                                        !.categories = policy.categories])
          ELSE Become(w, [picked EXCEPT !.pc = "metadata"])
    BY <1>10 DEF Pick
  <2> DEFINE p == [c EXCEPT !.msg = m, !.todo = @ \ {m}]
             x == [p EXCEPT !.pc = "allowed", !.next = "gate",
                            !.labels = c.hand[m],
                            !.categories = policy.categories]
             y == [p EXCEPT !.pc = "metadata"]
  <2>2. x.pc = "allowed" /\ x.next = "gate" /\ y.pc = "metadata"
    BY <1>0 DEF Call
  <2> HIDE DEF x, y
  <2>3. Become(w, x) \/ Become(w, y)
    BY <2>1 DEF x, y
  <2>4. QED
    BY <1>5, <2>2, <2>3
<1>11. CASE Exhausted(w)
  <2> DEFINE x == [c EXCEPT !.pc = "search"]
             y == [c EXCEPT !.pc = "reply"]
  <2>1. x.pc = "search" /\ y.pc = "reply"
    BY <1>0 DEF Call
  <2>2. Become(w, x) \/ Become(w, y) \/ Deny(w)
    BY <1>11 DEF Exhausted
  <2> HIDE DEF x, y
  <2>3. QED
    BY <1>3, <1>5, <2>1, <2>2
<1>12. CASE FetchContent(w)
  <2>1. PICK r \in ContentReads(c.msg, c.fresh) :
          Become(w, [c EXCEPT !.pc = "allowed", !.next = "recheck",
                              !.full = IF r.cached THEN {} ELSE r.value,
                              !.categories = policy.categories,
                              !.cached = @ \/ r.cached])
    BY <1>12 DEF FetchContent
  <2> DEFINE d == [c EXCEPT !.pc = "allowed", !.next = "recheck",
                            !.full = IF r.cached THEN {} ELSE r.value,
                            !.categories = policy.categories,
                            !.cached = @ \/ r.cached]
  <2>2. d.pc = "allowed" /\ d.next = "recheck"
    BY <1>0 DEF Call
  <2> HIDE DEF d
  <2>3. QED
    BY <1>5, <2>1, <2>2 DEF d
<1>13. CASE ReCheck(w)
  <2> DEFINE d == [c EXCEPT !.pc = "reply", !.served = {c.msg}]
  <2>1. d.pc = "reply"
    BY <1>0 DEF Call
  <2>2. Become(w, d) \/ Deny(w)
    BY <1>13 DEF ReCheck
  <2> HIDE DEF d
  <2>3. QED
    BY <1>3, <1>5, <2>1, <2>2
<1>14. CASE ReadListing(w)
  <2>1. PICK r \in ListingReads(c.fresh) :
          LET read == [c EXCEPT !.cached = @ \/ r.cached] IN
          IF c.tool = "labels"
          THEN Become(w, [read EXCEPT !.pc = "reply"])
          ELSE Become(w, [read EXCEPT !.pc = "allowed", !.next = "validate",
                                      !.listing = r.value, !.rules = policy])
    BY <1>14 DEF ReadListing
  <2> DEFINE read == [c EXCEPT !.cached = @ \/ r.cached]
             x == [read EXCEPT !.pc = "reply"]
             y == [read EXCEPT !.pc = "allowed", !.next = "validate",
                               !.listing = r.value, !.rules = policy]
  <2>2. x.pc = "reply" /\ y.pc = "allowed" /\ y.next = "validate"
    BY <1>0 DEF Call
  <2> HIDE DEF x, y
  <2>3. Become(w, x) \/ Become(w, y)
    BY <2>1 DEF x, y
  <2>4. QED
    BY <1>5, <2>2, <2>3
<1>15. CASE Validate(w)
  <2> DEFINE d == [Judged(c) EXCEPT
                     !.pc = "metadata",
                     !.addIds = ResolveAll(c.add, c.listing),
                     !.removeIds = ResolveAll(c.remove, c.listing),
                     !.add = {}, !.remove = {},
                     !.listing = Idle.listing, !.rules = Idle.rules]
  <2>1. d.pc = "metadata"
    BY <1>0 DEF Judged, Call
  <2>2. Become(w, d) \/ Deny(w)
    BY <1>15 DEF Validate
  <2> HIDE DEF d
  <2>3. QED
    BY <1>3, <1>5, <2>1, <2>2
<1>16. CASE Trash(w)
  <2> DEFINE d == [c EXCEPT !.pc = "reply"]
  <2>1. d.pc = "reply" /\ Become(w, d)
    BY <1>0, <1>16 DEF Call, Trash
  <2> HIDE DEF d
  <2>2. QED
    BY <1>5, <2>1
<1>17. CASE PermitTrash(w)
  <2> DEFINE d == [c EXCEPT !.pc = "metadata"]
  <2>1. d.pc = "metadata"
    BY <1>0 DEF Call
  <2>2. Become(w, d) \/ Deny(w)
    BY <1>17 DEF PermitTrash
  <2> HIDE DEF d
  <2>3. QED
    BY <1>3, <1>5, <2>1, <2>2
<1>18. QED
  BY <1>4, <1>6, <1>7, <1>8, <1>9, <1>10, <1>11, <1>12, <1>13, <1>14, <1>15,
     <1>16, <1>17 DEF Serve

LEMMA AnsweredStep ==
  ASSUME Inv, \A w \in Worker : Answered(call[w]), [Next]_vars, NEW w \in Worker
  PROVE  Answered(call'[w])
<1> DEFINE c == call[w]
<1>0. TypeOK /\ c \in Call /\ Answered(c)
  BY DEF Inv, TypeOK
<1>1. CASE call'[w] = c
  BY <1>0, <1>1
<1>2. CASE c.pc = "idle" /\ call'[w] # c
  <2>1. PICK v \in Worker : Start(v) \/ Serve(v)
    BY <1>2 DEF Next, vars, SavePolicy, OwnerStep
  <2>2. PICK d : Become(v, d)
    BY <2>1
       DEF Start, StartList, StartGet, StartThread, StartLabels, StartModify,
           StartArchive, StartTrash, Begin, Serve, ReadAllowed, ReadBlocked,
           BlockedUnknown, ReadFails, ReadMetadata, GateOpens, GateSkips,
           GateRefuses, Search, GetThread, Pick, Exhausted, FetchContent,
           ReCheck, PermitTrash, ReadListing, Validate, Modify,
           ModifyUnanswered, Verify, Revert, RevertFails, Trash,
           TrashUnanswered, Reply, Deny
  <2>3. v = w
    BY <1>0, <1>2, <2>2, BecomeIs
  <2>4. ~Serve(w)
    BY <1>2
       DEF Serve, ReadAllowed, ReadBlocked, BlockedUnknown, ReadFails,
           ReadMetadata, GateOpens, GateSkips, GateRefuses, Search, GetThread,
           Pick, Exhausted, FetchContent, ReCheck, PermitTrash, ReadListing,
           Validate, Modify, ModifyUnanswered, Verify, Revert, RevertFails,
           Trash, TrashUnanswered, Reply
  <2>5. PICK e : Begin(w, e) /\ Fresh(e)
    BY <2>1, <2>3, <2>4, StartIs
  <2>6. call'[w] = e
    BY <1>0, <2>5, BecomeIs DEF Begin
  <2>7. QED
    BY <2>5, <2>6 DEF Fresh, Answered, Undecided
<1>3. CASE Busy(w) /\ call'[w] # c
  <2>1. Serve(w)
    BY <1>3, OwnStep
  <2>2. ASSUME NEW d, Become(w, d), Answered(d) PROVE Answered(call'[w])
    BY <1>0, <2>2, BecomeIs
  <2>3. ASSUME NEW d, Become(w, d), Undecided(d) => Undecided(c),
               d.labels = c.labels, d.before = c.before,
               d.addIds = c.addIds, d.removeIds = c.removeIds
        PROVE  Answered(call'[w])
    BY <1>0, <2>2, <2>3 DEF Answered
  <2>4. CASE ReadAllowed(w)
    <3>1. PICK r \in AllowedReads(c.fresh) :
            Become(w, [c EXCEPT !.pc = "blocked",
                                !.allowed = r.ids,
                                !.cached = @ \/ r.cached,
                                !.blind = IF c.next = "validate" THEN r.failed ELSE @])
      BY <2>4 DEF ReadAllowed
    <3> DEFINE d == [c EXCEPT !.pc = "blocked",
                              !.allowed = r.ids,
                              !.cached = @ \/ r.cached,
                              !.blind = IF c.next = "validate" THEN r.failed ELSE @]
    <3>2. /\ d.pc = "blocked" /\ d.next = c.next /\ c.pc = "allowed"
          /\ d.labels = c.labels /\ d.before = c.before
          /\ d.addIds = c.addIds /\ d.removeIds = c.removeIds
      BY <1>0, <2>4 DEF Call, ReadAllowed
    <3> HIDE DEF d
    <3>3. Undecided(d) => Undecided(c)
      BY <3>2 DEF Undecided
    <3>4. QED
      BY <2>3, <3>1, <3>2, <3>3 DEF d
  <2>5. CASE ReadBlocked(w)
    <3>1. PICK r \in BlockedReads(c.fresh) :
            Become(w, [c EXCEPT !.pc = c.next,
                                !.blocked = r.ids,
                                !.cached = @ \/ r.cached])
      BY <2>5 DEF ReadBlocked
    <3> DEFINE d == [c EXCEPT !.pc = c.next,
                              !.blocked = r.ids,
                              !.cached = @ \/ r.cached]
    <3>2. /\ d.pc = c.next /\ c.pc = "blocked"
          /\ c.next \in {"validate", "gate", "recheck", "verify"}
          /\ d.labels = c.labels /\ d.before = c.before
          /\ d.addIds = c.addIds /\ d.removeIds = c.removeIds
      BY <1>0, <2>5 DEF Call, ReadBlocked
    <3> HIDE DEF d
    <3>3. Undecided(d) => Undecided(c)
      BY <3>2 DEF Undecided
    <3>4. QED
      BY <2>3, <3>1, <3>2, <3>3 DEF d
  <2>6. CASE Verify(w)
    <3> DEFINE x == [Judged(c) EXCEPT !.pc = "reply", !.served = {c.msg}]
               y == [Judged(c) EXCEPT !.pc = "revert"]
    <3>1. /\ x.labels = c.labels /\ x.before = c.before
          /\ x.addIds = c.addIds /\ x.removeIds = c.removeIds
          /\ y.labels = c.labels /\ y.before = c.before
          /\ y.addIds = c.addIds /\ y.removeIds = c.removeIds
      BY <1>0 DEF Judged, Call
    <3>2. Become(w, x) \/ Become(w, y)
      BY <2>6 DEF Verify
    <3>3. Undecided(c)
      BY <2>6 DEF Verify, Undecided
    <3> HIDE DEF x, y
    <3>4. QED
      BY <2>3, <3>1, <3>2, <3>3
  <2>7. CASE Modify(w)
    <3> DEFINE d == [c EXCEPT !.pc = "allowed", !.next = "verify",
                              !.labels = box'[c.msg],
                              !.before = box[c.msg],
                              !.categories = policy.categories]
    <3>1. Become(w, d) /\ ModifyLabels(c.msg, c.addIds, c.removeIds)
      BY <2>7 DEF Modify
    <3>2. /\ d.labels = box'[c.msg] /\ d.before = box[c.msg]
          /\ d.addIds = c.addIds /\ d.removeIds = c.removeIds
      BY <1>0 DEF Call
    <3>3. c.msg \in Message /\ box \in [Message -> SUBSET Label]
      BY <1>0 DEF Call, TypeOK, MailboxTypeOK
    <3>4. box'[c.msg] = Relabel(box[c.msg], c.addIds, c.removeIds)
      BY <3>1, <3>3 DEF ModifyLabels
    <3> HIDE DEF d
    <3>5. Answered(d)
      BY <3>2, <3>4 DEF Answered
    <3>6. QED
      BY <2>2, <3>1, <3>5 DEF d
  <2>8. CASE ~ReadAllowed(w) /\ ~ReadBlocked(w) /\ ~Modify(w) /\ ~Verify(w)
    BY <2>1, <2>8, DecidedStep DEF Answered
  <2>9. QED
    BY <2>4, <2>5, <2>6, <2>7, <2>8
<1>4. QED
  BY <1>1, <1>2, <1>3 DEF Busy

\* A revert of modify_labels applied to the labels that Gmail answered with
\* makes good exactly the change that was made, and nothing else.
THEOREM RevertsUndo == Spec => RevertUndoes
<1> DEFINE AllAnswered == \A w \in Worker : Answered(call[w])
           Step(w) ==
             LET c == call[w] IN
             /\ Modifies(w) /\ c.pc = "revert" /\ box' # box
             /\ c.addIds \cap c.before = {} /\ c.removeIds \subseteq c.before
             /\ box[c.msg] = c.labels
             => box'[c.msg] = c.before
<1>1. Init => Mapped /\ AllAnswered
  BY InitMaps DEF Init, Idle, Answered, Undecided
<1>2. Mapped /\ AllAnswered /\ [Next]_vars => Mapped' /\ AllAnswered'
  BY StepMaps, AnsweredStep DEF Mapped
<1>3. ASSUME Mapped, AllAnswered, [Next]_vars, NEW w \in Worker PROVE Step(w)
  <2> DEFINE c == call[w]
  <2>1. SUFFICES ASSUME Modifies(w), c.pc = "revert", box' # box,
                        c.addIds \cap c.before = {}, c.removeIds \subseteq c.before,
                        box[c.msg] = c.labels
                 PROVE  box'[c.msg] = c.before
    OBVIOUS
  <2>2. /\ c.msg \in Message /\ box \in [Message -> SUBSET Label]
        /\ Placed(w) /\ Shaped(w) /\ Answered(c)
    BY <1>3 DEF Mapped, Inv, CallInv, TypeOK, MailboxTypeOK, Call
  <2>3. Mutating(c)
    BY <2>1, <2>2 DEF Placed, Mutating, Validating
  <2>4. c.addIds \cap c.removeIds = {}
    BY <2>2, <2>3 DEF Shaped
  <2>5. c.labels = Relabel(c.before, c.addIds, c.removeIds)
    BY <2>1, <2>2 DEF Answered, Undecided
  <2>6. Serve(w)
    BY <1>3, <2>1, OwnStep DEF Modifies, Busy, Mapped
  <2>7. Revert(w)
    BY <2>1, <2>6
       DEF Serve, ReadAllowed, ReadBlocked, BlockedUnknown, ReadFails,
           ReadMetadata, GateOpens, GateSkips, GateRefuses, Search, GetThread,
           Pick, Exhausted, FetchContent, ReCheck, PermitTrash, ReadListing,
           Validate, Modify, ModifyUnanswered, Verify, RevertFails, Trash,
           TrashUnanswered, Reply, Quiet, mailboxVars
  <2>8. box'[c.msg] = Relabel(box[c.msg], c.removeIds, c.addIds)
    BY <2>2, <2>7 DEF Revert, ModifyLabels
  <2>9. QED
    BY <2>1, <2>4, <2>5, <2>8, InverseRestores
<1>4. Mapped /\ AllAnswered /\ [Next]_vars => [\A w \in Worker : Step(w)]_vars
  BY <1>3
<1> HIDE DEF AllAnswered, Step
<1>5. Spec => [][\A w \in Worker : Step(w)]_vars
  BY <1>1, <1>2, <1>4, PTL DEF Spec
<1>6. QED
  BY <1>5 DEF RevertUndoes, Step

=============================================================================
