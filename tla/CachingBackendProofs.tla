------------------------ MODULE CachingBackendProofs ------------------------
(***************************************************************************)
(* Theorems about CachingBackend.tla: its invariants, and that it          *)
(* implements the contract of Backend.tla, for any messages, clients,      *)
(* requests and configurations.                                            *)
(*                                                                         *)
(* Inv ties each value that is kept, or is going to be, to the history of  *)
(* the mailbox (LiveInv), and each entry with a time to live to the        *)
(* mutations whose caller has, or is about to get, the answer (FreshInv).  *)
(***************************************************************************)
EXTENDS CachingBackend, MailboxProofs, SequenceTheorems

----------------------------------------------------------------------------
\* The invariant.

\* What the mailbox is now it has been.
HistoryInv ==
  /\ \A m \in Message : box[m] \in pastBox[m]
  /\ names \in pastNames

\* v was the answer to r at some time, by what was remembered of the mailbox.
WasLive(r, v, boxes, listings) ==
  /\ r.op \in {"metadata", "content"} => v \in boxes[r.msg]
  /\ r.op = "listing" => v \in listings
  /\ r.op = "thread" => \A m \in Message : v[m] \in boxes[m]

\* What a call has in hand was live, and only contents are put one by one.
Carries(call, boxes, listings) ==
  /\ call.pc \in {"put", "store"} => WasLive(call.ask, call.value, boxes, listings)
  /\ call.pc = "store" => call.ask.op \in {"content", "thread"}

LiveInv ==
  /\ \A m \in Message :
       ttl[<<"metadata", m>>] # None => ttl[<<"metadata", m>>].value \in pastBox[m]
  /\ ttl[<<"listing", "_">>] # None => ttl[<<"listing", "_">>].value \in pastNames
  /\ \A i \in 1..Len(content) : content[i].labels \in pastBox[content[i].id]
  /\ \A c \in Client : Carries(req[c], pastBox, pastNames)

\* What is acknowledged has been applied; what a call began with, had been
\* acknowledged, and what it fetched, had been applied.
AckInv ==
  \A m \in Message :
    /\ acked[m] <= applied[m]
    /\ \A c \in Client : req[c].since[m] <= acked[m] /\ req[c].asOf[m] <= applied[m]
    /\ \A k \in Key : ttl[k] # None => ttl[k].asOf[m] <= applied[m]

\* A mutation of m that is about to be acknowledged.
Writing(call, m) ==
  call.pc = "done" /\ call.ask.op \in B!WriteOp /\ call.ask.msg = m

\* asOf includes all mutations of m whose caller has, or is about to get,
\* the answer.
Knows(asOf, m, ack, calls) ==
  /\ ack[m] <= asOf[m]
  /\ \A d \in Client : Writing(calls[d], m) => calls[d].asOf[m] <= asOf[m]

\* The calls whose answer is out of date without a mutation of m.
Bears(r, m) == r.op = "search" \/ (r.op = "metadata" /\ r.msg = m)

Timely(call, m) ==
  call.pc \in Late /\ Bears(call.ask, m) => call.since[m] <= call.asOf[m]

FreshInv ==
  ~crossed =>
    \A m \in Message :
      /\ ttl[<<"metadata", m>>] # None =>
           Knows(ttl[<<"metadata", m>>].asOf, m, acked, req)
      /\ \A q \in Query : ttl[<<"search", q>>] # None =>
           Knows(ttl[<<"search", q>>].asOf, m, acked, req)
      /\ \A c \in Client : Timely(req[c], m)

Inv ==
  /\ TypeOK
  /\ HistoryInv
  /\ LiveInv
  /\ ContentBounded
  /\ AckInv
  /\ FreshInv

----------------------------------------------------------------------------
\* Constants.

LEMMA RequestFacts ==
  /\ \A c \in Client : \A r \in Requests[c] : r \in B!Request /\ r # None
  /\ None \notin B!Reply
<1>1. None \notin B!Request /\ None \notin B!Reply
  BY CacheAssumption
<1>2. Requests \in [Client -> SUBSET B!Request]
  BY CacheAssumption
<1>3. ASSUME NEW c \in Client, NEW r \in Requests[c]
      PROVE  r \in B!Request
  BY <1>2
<1>. QED  BY <1>1, <1>3

\* Backend.tla extends the same module.
LEMMA SameLabels == B!Label = Label /\ B!Listing = Listing
BY DEF Label, System, HardDeny, Listing, B!Label, B!System, B!HardDeny, B!Listing

LEMMA RequestFields ==
  ASSUME NEW r \in B!Request
  PROVE  /\ r.op \in B!ReadOp \cup B!WriteOp /\ r.msg \in Message /\ r.query \in Query
         /\ r.fresh \in BOOLEAN /\ r.add \in SUBSET Label /\ r.remove \in SUBSET Label
BY SameLabels DEF B!Request

LEMMA Bounds == MaxTime \in Nat /\ MaxWrites \in Nat /\ MaxChanges \in Nat /\ MaxMoves \in Nat
BY CacheAssumption, MailboxAssumption

LEMMA ConfigFacts ==
  ASSUME NEW f \in Configs
  PROVE  /\ f.enabled \in BOOLEAN /\ f.maxMessages \in Nat
         /\ \A op \in CachedOp : f.ttl[op] \in Nat
         /\ f.ttl["metadata"] > 0 => MetadataCached
         /\ f.ttl["listing"] > 0 => ListingCached
         /\ f.ttl["search"] > 0 => SearchCached
         /\ f.enabled => ContentCached
BY CacheAssumption DEF Config

----------------------------------------------------------------------------
\* Calls.

Frame(c) == {Ready} \cup UNION {Asking(r) \cup Answered(r) : r \in Requests[c]}

LEMMA ZeroIsCount == Zero \in Count
BY Bounds DEF Zero, Count

LEMMA ReadyFields ==
  /\ Ready.pc = "idle" /\ Ready.ask = None /\ Ready.since = Zero /\ Ready.asOf = Zero
  /\ Ready.pc \notin Early \cup Late
BY DEF Ready, Early, Late

\* What is known of a call from where it is.
LEMMA FrameOf ==
  ASSUME TypeOK, NEW c \in Client
  PROVE  /\ req[c] \in Frame(c)
         /\ req[c].pc \in {"idle"} \cup Early \cup Late
         /\ req[c].pc = "idle" => req[c] = Ready
         /\ req[c].pc \in Early =>
              req[c].ask \in Requests[c] /\ req[c] \in Asking(req[c].ask)
         /\ req[c].pc \in Late =>
              req[c].ask \in Requests[c] /\ req[c] \in Answered(req[c].ask)
         /\ req[c].since \in Count /\ req[c].asOf \in Count
<1>1. CASE req[c] = Ready
  BY <1>1, ReadyFields, ZeroIsCount DEF Frame
<1>2. CASE \E r \in Requests[c] :
             /\ req[c].ask = r
             /\ IF req[c].pc \in Early THEN req[c] \in Asking(r) ELSE req[c] \in Answered(r)
  <2>1. PICK r \in Requests[c] :
          /\ req[c].ask = r
          /\ IF req[c].pc \in Early THEN req[c] \in Asking(r) ELSE req[c] \in Answered(r)
    BY <1>2
  <2>2. CASE req[c] \in Asking(r)
    <3>1. req[c].pc \in Early /\ req[c].since \in Count /\ req[c].asOf = Zero
      BY <2>2 DEF Asking
    <3>. QED  BY <2>1, <2>2, <3>1, ZeroIsCount DEF Frame, Early, Late
  <2>3. CASE req[c] \in Answered(r)
    <3>1. req[c].pc \in Late /\ req[c].since \in Count /\ req[c].asOf \in Count
      BY <2>3 DEF Answered
    <3>. QED  BY <2>1, <2>3, <3>1 DEF Frame, Early, Late
  <2>. QED  BY <2>1, <2>2, <2>3
<1>. QED  BY <1>1, <1>2 DEF TypeOK

Calls ==
  /\ DOMAIN req = Client
  /\ \A c \in Client :
       \/ req[c] = Ready
       \/ \E r \in Requests[c] :
            /\ req[c].ask = r
            /\ IF req[c].pc \in Early THEN req[c] \in Asking(r) ELSE req[c] \in Answered(r)

Others(c) == \A d \in Client : d # c => req'[d] = req[d]

\* A step of one call.
LEMMA Stepping ==
  ASSUME TypeOK, NEW c \in Client, NEW x \in Frame(c), Step(c, x)
  PROVE  Calls' /\ req'[c] = x /\ Others(c)
<1>1. DOMAIN req' = Client /\ req'[c] = x /\ Others(c)
  BY DEF TypeOK, Step, Others
<1>2. \/ x = Ready
      \/ \E r \in Requests[c] :
           /\ x.ask = r
           /\ IF x.pc \in Early THEN x \in Asking(r) ELSE x \in Answered(r)
  <2>1. ASSUME NEW r \in Requests[c], x \in Asking(r)
        PROVE  x.ask = r /\ x.pc \in Early
    BY <2>1 DEF Asking
  <2>2. ASSUME NEW r \in Requests[c], x \in Answered(r)
        PROVE  x.ask = r /\ x.pc \notin Early
    BY <2>2 DEF Answered, Early, Late
  <2>. QED  BY <2>1, <2>2 DEF Frame
<1>. QED  BY <1>1, <1>2 DEF TypeOK, Calls, Others

----------------------------------------------------------------------------
\* The content cache.

Single(s) == \A i, j \in 1..Len(s) : s[i].id = s[j].id => i = j

From(s, t) == \A i \in 1..Len(s) : \E j \in 1..Len(t) : s[i] = t[j]

LEMMA TrimFacts ==
  ASSUME NEW s \in Seq(Kept), Single(s), NEW size \in Nat
  PROVE  /\ Trim(s, size) \in Seq(Kept)
         /\ Len(Trim(s, size)) <= size
         /\ Single(Trim(s, size))
         /\ From(Trim(s, size), s)
<1>1. CASE Len(s) <= size
  BY <1>1 DEF Trim, From
<1>2. CASE ~(Len(s) <= size)
  <2>. DEFINE first == Len(s) - size + 1
              t == SubSeq(s, first, Len(s))
  <2>1. Len(s) \in Nat /\ Len(s) > size /\ first \in 2..Len(s)+1
    BY <1>2, LenProperties
  <2>2. \A i \in first..Len(s) : s[i] \in Kept
    BY <2>1, ElementOfSeq
  <2>. HIDE DEF first
  <2>3. /\ t \in Seq(Kept)
        /\ Len(t) = IF first <= Len(s) THEN Len(s) - first + 1 ELSE 0
        /\ \A i \in 1..Len(s) - first + 1 : t[i] = s[first + i - 1]
    BY <2>1, <2>2, SubSeqProperties
  <2>4. Len(t) = size
    BY <2>1, <2>3 DEF first
  <2>5. \A i \in 1..size : t[i] = s[first + i - 1] /\ first + i - 1 \in 1..Len(s)
    BY <2>1, <2>3 DEF first
  <2>6. Trim(s, size) = t
    BY <1>2 DEF Trim, first
  <2>. HIDE DEF t
  <2>7. Single(t)
    <3>. SUFFICES ASSUME NEW i \in 1..size, NEW j \in 1..size, t[i].id = t[j].id
                  PROVE  i = j
      BY <2>4 DEF Single
    <3>1. /\ first + i - 1 \in 1..Len(s) /\ first + j - 1 \in 1..Len(s)
          /\ s[first + i - 1].id = s[first + j - 1].id
      BY <2>5
    <3>2. first + i - 1 = first + j - 1
      BY <3>1 DEF Single
    <3>. QED  BY <2>1, <3>2
  <2>. QED  BY <2>3, <2>4, <2>5, <2>6, <2>7 DEF From
<1>. QED  BY <1>1, <1>2

LEMMA WithoutFacts ==
  ASSUME content \in Seq(Kept), Single(content), NEW m \in Message
  PROVE  /\ Without(m) \in Seq(Kept)
         /\ Len(Without(m)) = IF Places(m) = {} THEN Len(content) ELSE Len(content) - 1
         /\ Single(Without(m))
         /\ From(Without(m), content)
         /\ \A i \in 1..Len(Without(m)) : Without(m)[i].id # m
<1>1. Len(content) \in Nat /\ DOMAIN content = 1..Len(content)
  BY LenProperties
<1>2. CASE Places(m) = {}
  BY <1>1, <1>2 DEF Without, Places, From
<1>3. CASE Places(m) # {}
  <2>. DEFINE k == CHOOSE i \in Places(m) : TRUE
              l == SubSeq(content, 1, k - 1)
              r == SubSeq(content, k + 1, Len(content))
              w == l \o r
  <2>1. k \in 1..Len(content) /\ content[k].id = m
    BY <1>1, <1>3 DEF Places
  <2>2. Without(m) = w
    BY <1>3 DEF Without, RemoveAt
  <2>. HIDE DEF k
  <2>3. \A i \in 1..Len(content) : content[i] \in Kept
    BY ElementOfSeq
  <2>4. /\ l \in Seq(Kept) /\ Len(l) = k - 1
        /\ \A i \in 1..k - 1 : l[i] = content[i]
    <3>1. /\ l \in Seq(Kept)
          /\ Len(l) = IF 1 <= k - 1 THEN k - 1 - 1 + 1 ELSE 0
          /\ \A i \in 1..k - 1 - 1 + 1 : l[i] = content[1 + i - 1]
      <4>1. 1 \in Int /\ k - 1 \in Int /\ \A i \in 1..k - 1 : content[i] \in Kept
        BY <1>1, <2>1, <2>3
      <4>. QED  BY <4>1, SubSeqProperties
    <3>. QED  BY <1>1, <2>1, <3>1
  <2>5. /\ r \in Seq(Kept) /\ Len(r) = Len(content) - k
        /\ \A i \in 1..Len(content) - k : r[i] = content[k + i]
    <3>1. /\ r \in Seq(Kept)
          /\ Len(r) = IF k + 1 <= Len(content) THEN Len(content) - (k + 1) + 1 ELSE 0
          /\ \A i \in 1..Len(content) - (k + 1) + 1 : r[i] = content[k + 1 + i - 1]
      <4>1. k + 1 \in Int /\ Len(content) \in Int
            /\ \A i \in k + 1..Len(content) : content[i] \in Kept
        BY <1>1, <2>1, <2>3
      <4>. QED  BY <4>1, SubSeqProperties
    <3>. QED  BY <1>1, <2>1, <3>1
  <2>. HIDE DEF l, r
  <2>6. /\ w \in Seq(Kept) /\ Len(w) = Len(l) + Len(r)
        /\ \A i \in 1..Len(l) + Len(r) : w[i] = IF i <= Len(l) THEN l[i] ELSE r[i - Len(l)]
    BY <2>4, <2>5, ConcatProperties
  <2>. HIDE DEF w
  <2>7. Len(w) = Len(content) - 1
    BY <1>1, <2>1, <2>4, <2>5, <2>6
  <2>8. \A i \in 1..Len(w) : w[i] = content[IF i < k THEN i ELSE i + 1]
    <3>1. ASSUME NEW i \in 1..Len(w), i < k PROVE w[i] = content[i]
      BY <1>1, <2>1, <2>4, <2>5, <2>6, <3>1
    <3>2. ASSUME NEW i \in 1..Len(w), ~(i < k) PROVE w[i] = content[i + 1]
      <4>1. w[i] = r[i - (k - 1)] /\ i - (k - 1) \in 1..Len(content) - k
        BY <1>1, <2>1, <2>4, <2>5, <2>6, <2>7, <3>2
      <4>2. r[i - (k - 1)] = content[k + (i - (k - 1))]
        BY <2>5, <4>1
      <4>3. k + (i - (k - 1)) = i + 1
        BY <1>1, <2>1
      <4>. QED  BY <4>1, <4>2, <4>3
    <3>. QED  BY <3>1, <3>2
  <2>9. \A i \in 1..Len(w) :
          LET j == IF i < k THEN i ELSE i + 1 IN j \in 1..Len(content) /\ j # k
    BY <1>1, <2>1, <2>7
  <2>10. \A i \in 1..Len(w) : w[i].id # m
    BY <2>1, <2>8, <2>9 DEF Single
  <2>11. Single(w)
    <3>. SUFFICES ASSUME NEW i \in 1..Len(w), NEW j \in 1..Len(w), w[i].id = w[j].id
                  PROVE  i = j
      BY DEF Single
    <3>1. (IF i < k THEN i ELSE i + 1) = (IF j < k THEN j ELSE j + 1)
      BY <2>8, <2>9 DEF Single
    <3>. QED  BY <1>1, <2>1, <2>7, <3>1
  <2>12. From(w, content)
    BY <2>8, <2>9 DEF From
  <2>. QED  BY <1>1, <1>3, <2>2, <2>6, <2>7, <2>10, <2>11, <2>12
<1>. QED  BY <1>2, <1>3

\* A message becomes the most recently used.
LEMMA LatestFacts ==
  ASSUME content \in Seq(Kept), Single(content), NEW m \in Message,
         NEW e \in Kept, e.id = m
  PROVE  LET s == Append(Without(m), e) IN
         /\ s \in Seq(Kept)
         /\ Single(s)
         /\ Places(m) # {} => Len(s) = Len(content)
         /\ \A i \in 1..Len(s) : s[i] = e \/ \E j \in 1..Len(content) : s[i] = content[j]
<1>. DEFINE w == Without(m)
            s == Append(w, e)
<1>1. /\ w \in Seq(Kept)
      /\ Len(w) = IF Places(m) = {} THEN Len(content) ELSE Len(content) - 1
      /\ Single(w) /\ From(w, content)
      /\ \A i \in 1..Len(w) : w[i].id # m
  BY WithoutFacts
<1>2. Len(w) \in Nat /\ Len(content) \in Nat
  BY <1>1, LenProperties
<1>. HIDE DEF w
<1>3. /\ s \in Seq(Kept) /\ Len(s) = Len(w) + 1
      /\ \A i \in 1..Len(w) : s[i] = w[i]
      /\ s[Len(w) + 1] = e
  BY <1>1, AppendProperties
<1>. HIDE DEF s
<1>4. \A i \in 1..Len(s) : i \in 1..Len(w) \/ i = Len(w) + 1
  BY <1>2, <1>3
<1>5. Single(s)
  <2>. SUFFICES ASSUME NEW i \in 1..Len(s), NEW j \in 1..Len(s), s[i].id = s[j].id
                PROVE  i = j
    BY DEF Single
  <2>1. CASE i \in 1..Len(w) /\ j \in 1..Len(w)
    BY <1>1, <1>3, <2>1 DEF Single
  <2>2. CASE i = Len(w) + 1 /\ j \in 1..Len(w)
    BY <1>1, <1>3, <2>2
  <2>3. CASE i \in 1..Len(w) /\ j = Len(w) + 1
    BY <1>1, <1>3, <2>3
  <2>. QED  BY <1>4, <2>1, <2>2, <2>3
<1>6. \A i \in 1..Len(s) : s[i] = e \/ \E j \in 1..Len(content) : s[i] = content[j]
  BY <1>1, <1>3, <1>4 DEF From
<1>7. Places(m) # {} => Len(s) = Len(content)
  BY <1>1, <1>2, <1>3
<1>. QED  BY <1>3, <1>5, <1>6, <1>7 DEF s, w

----------------------------------------------------------------------------
\* The caches with a time to live.

LEMMA KeyFacts ==
  /\ \A m \in Message : <<"metadata", m>> \in Key
  /\ \A q \in Query : <<"search", q>> \in Key
  /\ <<"listing", "_">> \in Key
  /\ \A m \in Message, q \in Query :
       /\ <<"metadata", m>> # <<"search", q>>
       /\ <<"metadata", m>> # <<"listing", "_">>
       /\ <<"search", q>> # <<"listing", "_">>
  /\ \A l, m \in Message : <<"metadata", l>> = <<"metadata", m>> => l = m
BY DEF Key

LEMMA KeyOfFacts ==
  ASSUME NEW r \in B!Request, r.op \in CachedOp
  PROVE  /\ KeyOf(r) \in Key /\ KeyOf(r)[1] = r.op
         /\ r.op = "metadata" => KeyOf(r) = <<"metadata", r.msg>>
         /\ r.op = "search" => KeyOf(r) = <<"search", r.query>>
         /\ r.op = "listing" => KeyOf(r) = <<"listing", "_">>
BY KeyFacts, RequestFields DEF KeyOf, CachedOp

\* A step of one call that puts no value and ends no mutation.
LEMMA QuietStep ==
  ASSUME Inv, NEW c \in Client, NEW x \in Frame(c), Step(c, x),
         UNCHANGED <<mailboxVars, cfg, now, saves, history>>,
         content' \in Seq(Kept), Single(content'), Len(content') <= cfg.maxMessages,
         \A i \in 1..Len(content') : content'[i].labels \in pastBox[content'[i].id],
         DOMAIN ttl' = Key, \A k \in Key : ttl'[k] = ttl[k] \/ ttl'[k] = None,
         Carries(x, pastBox, pastNames),
         x.pc = "done" => x.ask.op \notin B!WriteOp,
         \A m \in Message : x.since[m] <= acked[m] /\ x.asOf[m] <= applied[m],
         ~crossed => \A m \in Message : Timely(x, m)
  PROVE  Inv'
<1>1. Calls' /\ req'[c] = x /\ \A d \in Client : d # c => req'[d] = req[d]
  BY Stepping DEF Inv, Others
<1>2. /\ UNCHANGED <<box, names, pastBox, pastNames, moves, cfg, now, saves>>
      /\ UNCHANGED <<applied, acked, crossed>>
  BY DEF mailboxVars, history
<1>3. TypeOK'
  BY <1>1, <1>2 DEF Inv, TypeOK, MailboxTypeOK, Calls, Count
<1>4. HistoryInv'
  BY <1>2 DEF Inv, HistoryInv
<1>5. LiveInv'
  <2>1. ASSUME NEW d \in Client PROVE Carries(req'[d], pastBox, pastNames)
    BY <1>1, <2>1 DEF Inv, LiveInv
  <2>2. /\ \A m \in Message : ttl'[<<"metadata", m>>] # None =>
             ttl'[<<"metadata", m>>].value \in pastBox[m]
        /\ ttl'[<<"listing", "_">>] # None => ttl'[<<"listing", "_">>].value \in pastNames
    BY KeyFacts DEF Inv, LiveInv
  <2>. QED  BY <1>2, <2>1, <2>2 DEF LiveInv
<1>6. ContentBounded'
  BY <1>2 DEF ContentBounded, Single
<1>7. AckInv'
  BY <1>1, <1>2 DEF Inv, AckInv
<1>8. FreshInv'
  <2>. SUFFICES ASSUME ~crossed, NEW m \in Message
                PROVE  /\ ttl'[<<"metadata", m>>] # None =>
                            Knows(ttl'[<<"metadata", m>>].asOf, m, acked, req')
                       /\ \A q \in Query : ttl'[<<"search", q>>] # None =>
                            Knows(ttl'[<<"search", q>>].asOf, m, acked, req')
                       /\ \A d \in Client : Timely(req'[d], m)
    BY <1>2 DEF FreshInv
  <2>1. \A asOf : Knows(asOf, m, acked, req) => Knows(asOf, m, acked, req')
    BY <1>1 DEF Knows, Writing
  <2>2. /\ ttl[<<"metadata", m>>] # None =>
             Knows(ttl[<<"metadata", m>>].asOf, m, acked, req)
        /\ \A q \in Query : ttl[<<"search", q>>] # None =>
             Knows(ttl[<<"search", q>>].asOf, m, acked, req)
        /\ \A d \in Client : Timely(req[d], m)
    BY DEF Inv, FreshInv
  <2>3. \A d \in Client : Timely(req'[d], m)
    BY <1>1, <2>2
  <2>4. ttl'[<<"metadata", m>>] # None =>
          Knows(ttl'[<<"metadata", m>>].asOf, m, acked, req')
    BY <2>1, <2>2, KeyFacts
  <2>5. \A q \in Query : ttl'[<<"search", q>>] # None =>
          Knows(ttl'[<<"search", q>>].asOf, m, acked, req')
    BY <2>1, <2>2, KeyFacts
  <2>. QED  BY <2>3, <2>4, <2>5
<1>. QED  BY <1>3, <1>4, <1>5, <1>6, <1>7, <1>8 DEF Inv

LEMMA NowFacts ==
  ASSUME Inv
  PROVE  /\ TypeOK
         /\ content \in Seq(Kept) /\ Single(content) /\ Len(content) <= cfg.maxMessages
         /\ Len(content) \in Nat
         /\ DOMAIN content = 1..Len(content)
         /\ \A i \in 1..Len(content) :
              content[i] \in Kept /\ content[i].labels \in pastBox[content[i].id]
         /\ DOMAIN ttl = Key
         /\ cfg \in Configs /\ cfg.maxMessages \in Nat
         /\ acked \in Count /\ applied \in Count
         /\ \A m \in Message : acked[m] \in Nat /\ applied[m] \in Nat
<1>1. content \in Seq(Kept) /\ cfg \in Configs /\ acked \in Count /\ applied \in Count
  BY DEF Inv, TypeOK
<1>2. \A m \in Message : acked[m] \in Nat /\ applied[m] \in Nat
  BY <1>1, Bounds DEF Count
<1>3. Len(content) \in Nat /\ DOMAIN content = 1..Len(content)
  BY <1>1, LenProperties
<1>4. \A i \in 1..Len(content) : content[i] \in Kept
  BY <1>1, ElementOfSeq
<1>5. cfg.maxMessages \in Nat
  BY <1>1, ConfigFacts
<1>. QED  BY <1>1, <1>2, <1>3, <1>4, <1>5
          DEF Inv, TypeOK, ContentBounded, Single, LiveInv

\* A step of one call that touches no cache either.
LEMMA CallStep ==
  ASSUME Inv, NEW c \in Client, NEW x \in Frame(c), Step(c, x),
         UNCHANGED <<mailboxVars, cacheVars, history>>,
         Carries(x, pastBox, pastNames),
         x.pc = "done" => x.ask.op \notin B!WriteOp,
         \A m \in Message : x.since[m] <= acked[m] /\ x.asOf[m] <= applied[m],
         ~crossed => \A m \in Message : Timely(x, m)
  PROVE  Inv'
<1>1. UNCHANGED <<cfg, now, saves>> /\ content' = content /\ ttl' = ttl
  BY DEF cacheVars
<1>. QED  BY <1>1, NowFacts, QuietStep

LEMMA ReadyStep ==
  ASSUME Inv, NEW c \in Client
  PROVE  /\ Ready \in Frame(c) /\ Ready.pc \notin Late
         /\ \A m \in Message : Ready.since[m] <= acked[m] /\ Ready.asOf[m] <= applied[m]
         /\ \A m \in Message : Timely(Ready, m)
BY NowFacts, ReadyFields DEF Frame, Zero, Timely

----------------------------------------------------------------------------
\* The actions.

LEMMA InitInv == Init => Inv
<1>. SUFFICES ASSUME Init PROVE Inv
  OBVIOUS
<1>1. content = <<>> /\ content \in Seq(Kept) /\ Len(content) = 0
  BY EmptySeq DEF Init
<1>2. /\ \A k \in Key : ttl[k] = None
      /\ \A c \in Client : req[c] = Ready
      /\ acked = Zero /\ applied = Zero /\ cfg \in Configs
  BY DEF Init
<1>3. TypeOK
  <2>1. MailboxTypeOK
    BY MailboxAssumption DEF Init, MailboxInit, MailboxTypeOK
  <2>2. DOMAIN ttl = Key /\ DOMAIN req = Client /\ crossed \in BOOLEAN
    BY DEF Init
  <2>3. now \in 0..MaxTime /\ saves \in 0..MaxChanges
    BY Bounds DEF Init
  <2>. QED  BY <1>1, <1>2, <2>1, <2>2, <2>3, ZeroIsCount DEF TypeOK
<1>4. HistoryInv
  BY DEF Init, MailboxInit, HistoryInv
<1>5. LiveInv /\ FreshInv
  <2>1. \A c \in Client : req[c].pc = "idle" /\ req[c].pc \notin Late
    BY <1>2, ReadyFields
  <2>2. \A c \in Client, m \in Message : Timely(req[c], m)
    BY <2>1 DEF Timely
  <2>3. \A i \in 1..Len(content) : FALSE
    BY <1>1
  <2>4. LiveInv
    BY <1>2, <2>1, <2>3, KeyFacts DEF Carries, LiveInv
  <2>5. FreshInv
    BY <1>2, <2>2, KeyFacts DEF FreshInv
  <2>. QED  BY <2>4, <2>5
<1>6. ContentBounded
  BY <1>1, <1>2, ConfigFacts DEF ContentBounded
<1>7. AckInv
  BY <1>2, ReadyFields DEF AckInv, Zero
<1>. QED  BY <1>3, <1>4, <1>5, <1>6, <1>7 DEF Inv

LEMMA AskInv ==
  ASSUME Inv, NEW c \in Client, Ask(c)
  PROVE  Inv'
<1>1. PICK r \in Requests[c] :
        Step(c, [Ready EXCEPT !.pc = IF r.op \in CachedOp \cup {"content"}
                                     THEN "lookup" ELSE "call",
                              !.ask = r, !.since = acked])
  BY DEF Ask
<1>. DEFINE x == [Ready EXCEPT !.pc = IF r.op \in CachedOp \cup {"content"}
                                      THEN "lookup" ELSE "call",
                               !.ask = r, !.since = acked]
<1>2. x \in Asking(r) /\ x.pc \in Early /\ x.since = acked /\ x.asOf = Zero
  BY NowFacts, ZeroIsCount DEF Ready, Asking, Early
<1>3. x \in Frame(c)
  BY <1>2 DEF Frame
<1>. HIDE DEF x
<1>4. x.pc \notin Late /\ x.pc \notin {"put", "store", "done"}
  BY <1>2 DEF Early, Late
<1>5. \A m \in Message : x.since[m] <= acked[m] /\ x.asOf[m] <= applied[m]
  BY <1>2, NowFacts DEF Zero
<1>. QED  BY <1>1, <1>3, <1>4, <1>5, CallStep DEF Carries, Ask, Timely, x

LEMMA CallFacts ==
  ASSUME Inv, NEW c \in Client
  PROVE  /\ req[c].pc \in Early => req[c] \in Asking(req[c].ask)
         /\ req[c].pc \in Late => req[c] \in Answered(req[c].ask)
         /\ req[c].pc \in Early \cup Late =>
              /\ req[c].ask \in Requests[c] /\ req[c].ask \in B!Request /\ req[c].ask # None
              /\ req[c].ask.msg \in Message
              /\ req[c].ask.op \in B!ReadOp \cup B!WriteOp
         /\ req[c].since \in Count /\ req[c].asOf \in Count
         /\ \A m \in Message :
              /\ req[c].since[m] \in Nat /\ req[c].asOf[m] \in Nat
              /\ req[c].since[m] <= acked[m] /\ req[c].asOf[m] <= applied[m]
         /\ ~crossed => \A m \in Message : Timely(req[c], m)
<1>1. /\ req[c].pc \in Early => req[c] \in Asking(req[c].ask)
      /\ req[c].pc \in Late => req[c] \in Answered(req[c].ask)
      /\ req[c].pc \in Early \cup Late => req[c].ask \in Requests[c]
      /\ req[c].since \in Count /\ req[c].asOf \in Count
  BY FrameOf DEF Inv
<1>2. req[c].pc \in Early \cup Late =>
        req[c].ask \in B!Request /\ req[c].ask # None
  BY <1>1, RequestFacts
<1>3. \A m \in Message : req[c].since[m] \in Nat /\ req[c].asOf[m] \in Nat
  BY <1>1, Bounds DEF Count
<1>. QED  BY <1>1, <1>2, <1>3, RequestFields DEF Inv, AckInv, FreshInv

LEMMA EntryFacts ==
  ASSUME Inv, NEW r \in B!Request, r.op \in CachedOp, Entry(r) # None
  PROVE  /\ Entry(r).value \in Values(r.op) /\ Entry(r).asOf \in Count
         /\ WasLive(r, Entry(r).value, pastBox, pastNames)
         /\ \A m \in Message :
              Entry(r).asOf[m] \in Nat /\ Entry(r).asOf[m] <= applied[m]
         /\ ~crossed => \A m \in Message : Bears(r, m) => acked[m] <= Entry(r).asOf[m]
<1>. DEFINE k == KeyOf(r)
<1>1. k \in Key /\ k[1] = r.op /\ Entry(r) = ttl[k]
  BY KeyOfFacts DEF Entry
<1>2. ttl[k] \in [expires : Nat, value : Values(k[1]), asOf : Count]
  BY <1>1 DEF Inv, TypeOK
<1>3. Entry(r).value \in Values(r.op) /\ Entry(r).asOf \in Count
  BY <1>1, <1>2
<1>4. /\ r.op = "metadata" => k = <<"metadata", r.msg>>
      /\ r.op = "search" => k = <<"search", r.query>>
      /\ r.op = "listing" => k = <<"listing", "_">>
      /\ r.msg \in Message /\ r.query \in Query
  BY KeyOfFacts, RequestFields
<1>. HIDE DEF k
<1>5. WasLive(r, Entry(r).value, pastBox, pastNames)
  BY <1>1, <1>4 DEF Inv, LiveInv, WasLive, CachedOp
<1>6. \A m \in Message : Entry(r).asOf[m] \in Nat /\ Entry(r).asOf[m] <= applied[m]
  BY <1>1, <1>3, Bounds DEF Inv, AckInv, Count
<1>7. ASSUME ~crossed, NEW m \in Message, Bears(r, m)
      PROVE  acked[m] <= Entry(r).asOf[m]
  <2>1. CASE r.op = "search"
    BY <1>1, <1>4, <1>7, <2>1 DEF Inv, FreshInv, Knows
  <2>2. CASE r.op = "metadata" /\ r.msg = m
    BY <1>1, <1>4, <1>7, <2>2 DEF Inv, FreshInv, Knows
  <2>. QED  BY <1>7, <2>1, <2>2 DEF Bears
<1>. QED  BY <1>3, <1>5, <1>6, <1>7

LEMMA TtlHitInv ==
  ASSUME Inv, NEW c \in Client, TtlHit(c)
  PROVE  Inv'
<1>. DEFINE r == req[c].ask
            x == [req[c] EXCEPT !.pc = "done", !.value = Entry(r).value,
                                !.cached = TRUE, !.asOf = Entry(r).asOf]
<1>1. req[c].pc = "lookup" /\ r.op \in CachedOp /\ Entry(r) # None /\ Step(c, x)
  BY DEF TtlHit, Current
<1>2. req[c] \in Asking(r) /\ r \in Requests[c] /\ r \in B!Request
  BY <1>1, CallFacts DEF Early
<1>3. /\ Entry(r).value \in Values(r.op) /\ Entry(r).asOf \in Count
      /\ \A m \in Message : Entry(r).asOf[m] \in Nat /\ Entry(r).asOf[m] <= applied[m]
      /\ ~crossed => \A m \in Message : Bears(r, m) => acked[m] <= Entry(r).asOf[m]
  BY <1>1, <1>2, EntryFacts
<1>4. /\ x \in Answered(r) /\ x.pc = "done" /\ x.ask = r
      /\ x.since = req[c].since /\ x.asOf = Entry(r).asOf
  BY <1>2, <1>3 DEF Asking, Answered, Late
<1>5. x \in Frame(c) /\ r.op \notin B!WriteOp
  BY <1>1, <1>2, <1>4 DEF Frame, CachedOp, B!WriteOp
<1>. HIDE DEF x
<1>6. \A m \in Message : x.since[m] <= acked[m] /\ x.asOf[m] <= applied[m]
  BY <1>3, <1>4, CallFacts
<1>7. ASSUME ~crossed, NEW m \in Message PROVE Timely(x, m)
  BY <1>3, <1>4, <1>7, CallFacts, NowFacts DEF Timely
<1>. QED  BY <1>1, <1>4, <1>5, <1>6, <1>7, CallStep DEF Carries, TtlHit

\* A call goes on with what it has.
Onward(c, x, pc) ==
  \/ req[c].pc \in Early /\ pc \in Early /\ x = [req[c] EXCEPT !.pc = pc]
  \/ /\ req[c].pc \in Late /\ pc \in Late
     /\ \/ x = [req[c] EXCEPT !.pc = pc]
        \/ \E todo \in SUBSET req[c].todo :
             x = [req[c] EXCEPT !.pc = pc, !.todo = todo]
        \/ \E todo \in SUBSET req[c].todo :
             x = [req[c] EXCEPT !.todo = todo] /\ pc = req[c].pc

LEMMA OnwardCall ==
  ASSUME Inv, NEW c \in Client, NEW x, NEW pc, Onward(c, x, pc)
  PROVE  /\ x \in Frame(c) /\ x.pc = pc /\ x.ask = req[c].ask /\ x.value = req[c].value
         /\ \A m \in Message : x.since[m] <= acked[m] /\ x.asOf[m] <= applied[m]
         /\ ~crossed => \A m \in Message : Timely(x, m)
<1>. DEFINE r == req[c].ask
<1>1. /\ r \in Requests[c]
      /\ x \in Asking(r) \cup Answered(r)
      /\ x.pc = pc /\ x.ask = r /\ x.value = req[c].value
      /\ x.since = req[c].since /\ x.asOf = req[c].asOf
      /\ x.pc \in Late => req[c].pc \in Late
  <2>1. CASE req[c].pc \in Early /\ pc \in Early /\ x = [req[c] EXCEPT !.pc = pc]
    <3>1. req[c] \in Asking(r) /\ r \in Requests[c]
      BY <2>1, CallFacts
    <3>. QED  BY <2>1, <3>1 DEF Asking, Early, Late
  <2>2. CASE req[c].pc \in Late /\ pc \in Late
    <3>1. req[c] \in Answered(r) /\ r \in Requests[c]
      BY <2>2, CallFacts
    <3>2. CASE x = [req[c] EXCEPT !.pc = pc]
      BY <2>2, <3>1, <3>2 DEF Answered
    <3>3. CASE \E todo \in SUBSET req[c].todo : x = [req[c] EXCEPT !.pc = pc, !.todo = todo]
      BY <2>2, <3>1, <3>3 DEF Answered
    <3>4. CASE \E todo \in SUBSET req[c].todo :
                 x = [req[c] EXCEPT !.todo = todo] /\ pc = req[c].pc
      BY <2>2, <3>1, <3>4 DEF Answered
    <3>5. CASE req[c].pc \in Early
      BY <2>2, <3>5 DEF Early, Late
    <3>. QED  BY <2>2, <3>2, <3>3, <3>4, <3>5 DEF Onward
  <2>. QED  BY <2>1, <2>2 DEF Onward
<1>2. x \in Frame(c)
  BY <1>1 DEF Frame
<1>. QED  BY <1>1, <1>2, CallFacts DEF Timely

LEMMA TtlMissInv ==
  ASSUME Inv, NEW c \in Client, TtlMiss(c)
  PROVE  Inv'
<1>. DEFINE r == req[c].ask
            x == [req[c] EXCEPT !.pc = "call"]
<1>1. /\ req[c].pc = "lookup" /\ r.op \in CachedOp /\ Step(c, x)
      /\ UNCHANGED <<mailboxVars, cfg, content, now, saves, history>>
      /\ ttl' = [ttl EXCEPT ![KeyOf(r)] = None] \/ ttl' = ttl
  BY DEF TtlMiss
<1>2. /\ x \in Frame(c) /\ x.pc = "call"
      /\ \A m \in Message : x.since[m] <= acked[m] /\ x.asOf[m] <= applied[m]
      /\ ~crossed => \A m \in Message : Timely(x, m)
  <2>1. Onward(c, x, "call")
    BY <1>1 DEF Onward, Early
  <2>. HIDE DEF x
  <2>. QED  BY <2>1, OnwardCall
<1>. HIDE DEF x
<1>3. DOMAIN ttl' = Key /\ \A k \in Key : ttl'[k] = ttl[k] \/ ttl'[k] = None
  BY <1>1, NowFacts
<1>. QED  BY <1>1, <1>2, <1>3, NowFacts, QuietStep DEF Carries

LEMMA ContentHitInv ==
  ASSUME Inv, NEW c \in Client, ContentHit(c)
  PROVE  Inv'
<1>. DEFINE r == req[c].ask
<1>1. /\ req[c].pc = "lookup" /\ r.op = "content"
      /\ UNCHANGED <<mailboxVars, cfg, ttl, now, saves, history>>
  BY DEF ContentHit
<1>2. PICK i \in Places(r.msg) :
        /\ content' = Append(Without(r.msg), content[i])
        /\ Step(c, [req[c] EXCEPT !.pc = "done", !.value = content[i].labels,
                                  !.cached = TRUE])
  BY DEF ContentHit
<1>. DEFINE x == [req[c] EXCEPT !.pc = "done", !.value = content[i].labels,
                                !.cached = TRUE]
<1>3. i \in 1..Len(content) /\ content[i].id = r.msg /\ content[i] \in Kept
      /\ content[i].labels \in SUBSET Label /\ content[i].labels \in pastBox[r.msg]
  BY NowFacts DEF Places, Kept
<1>4. req[c] \in Asking(r) /\ r \in Requests[c] /\ r.msg \in Message
  BY <1>1, CallFacts DEF Early
<1>5. /\ x \in Answered(r) /\ x.pc = "done" /\ x.ask = r
      /\ x.since = req[c].since /\ x.asOf = req[c].asOf
  <2>1. Values(r.op) = SUBSET Label
    BY <1>1 DEF Values
  <2>. QED  BY <1>1, <1>3, <1>4, <2>1, ZeroIsCount DEF Asking, Answered, Late
<1>6. x \in Frame(c) /\ r.op \notin B!WriteOp
  BY <1>1, <1>4, <1>5 DEF Frame, B!WriteOp
<1>. HIDE DEF x
<1>7. \A m \in Message : x.since[m] <= acked[m] /\ x.asOf[m] <= applied[m]
  BY <1>5, CallFacts
<1>8. \A m \in Message : Timely(x, m)
  BY <1>1, <1>5 DEF Timely, Bears
<1>9. /\ content' \in Seq(Kept) /\ Single(content') /\ Len(content') <= cfg.maxMessages
      /\ \A j \in 1..Len(content') : \E k \in 1..Len(content) : content'[j] = content[k]
  <2>1. content \in Seq(Kept) /\ Single(content) /\ Len(content) <= cfg.maxMessages
    BY NowFacts
  <2>2. LET s == Append(Without(r.msg), content[i]) IN
        /\ s \in Seq(Kept) /\ Single(s)
        /\ Places(r.msg) # {} => Len(s) = Len(content)
        /\ \A j \in 1..Len(s) : s[j] = content[i] \/ \E k \in 1..Len(content) : s[j] = content[k]
    BY <1>3, <1>4, <2>1, LatestFacts
  <2>. QED  BY <1>2, <1>3, <2>1, <2>2
<1>10. \A j \in 1..Len(content') : content'[j].labels \in pastBox[content'[j].id]
  BY <1>9, NowFacts
<1>. QED  BY <1>1, <1>2, <1>5, <1>6, <1>7, <1>8, <1>9, <1>10, NowFacts, QuietStep DEF Carries, x

LEMMA ContentMissInv ==
  ASSUME Inv, NEW c \in Client, ContentMiss(c)
  PROVE  Inv'
<1>. DEFINE x == [req[c] EXCEPT !.pc = "call"]
<1>1. req[c].pc = "lookup" /\ Step(c, x) /\ UNCHANGED <<mailboxVars, cacheVars, history>>
  BY DEF ContentMiss
<1>2. /\ x \in Frame(c) /\ x.pc = "call"
      /\ \A m \in Message : x.since[m] <= acked[m] /\ x.asOf[m] <= applied[m]
      /\ ~crossed => \A m \in Message : Timely(x, m)
  <2>1. Onward(c, x, "call")
    BY <1>1 DEF Onward, Early
  <2>. HIDE DEF x
  <2>. QED  BY <2>1, OnwardCall
<1>. HIDE DEF x
<1>. QED  BY <1>1, <1>2, CallStep DEF Carries

LEMMA CallFailsInv ==
  ASSUME Inv, NEW c \in Client, CallFails(c)
  PROVE  Inv'
BY ReadyStep, CallStep, ReadyFields DEF Carries, CallFails

LEMMA AdmitInv ==
  ASSUME Inv, NEW c \in Client, Admit(c)
  PROVE  Inv'
<1>1. /\ req[c].pc = "put" /\ req[c].ask.op \in {"content", "thread"}
      /\ UNCHANGED <<mailboxVars, cacheVars, history>>
  BY DEF Admit
<1>2. PICK x, pc :
        /\ Step(c, x)
        /\ pc \in {"done", "store", "put"}
        /\ \/ x = [req[c] EXCEPT !.pc = pc]
           \/ \E todo \in SUBSET req[c].todo :
                x = [req[c] EXCEPT !.todo = todo] /\ pc = req[c].pc
  <2>1. CASE Step(c, [req[c] EXCEPT !.pc = "done"])
    BY <2>1
  <2>2. CASE Step(c, [req[c] EXCEPT !.pc = "store"])
    BY <2>2
  <2>3. CASE \E m \in req[c].todo : Step(c, [req[c] EXCEPT !.todo = @ \ {m}])
    <3>1. PICK m \in req[c].todo : Step(c, [req[c] EXCEPT !.todo = req[c].todo \ {m}])
      BY <2>3
    <3>2. req[c].todo \ {m} \in SUBSET req[c].todo
      OBVIOUS
    <3>. QED  BY <1>1, <3>1, <3>2
  <2>. QED  BY <2>1, <2>2, <2>3 DEF Admit
<1>3. /\ x \in Frame(c) /\ x.pc = pc /\ x.ask = req[c].ask /\ x.value = req[c].value
      /\ \A m \in Message : x.since[m] <= acked[m] /\ x.asOf[m] <= applied[m]
      /\ ~crossed => \A m \in Message : Timely(x, m)
  <2>1. Onward(c, x, pc)
    BY <1>1, <1>2 DEF Onward, Late
  <2>. QED  BY <2>1, OnwardCall
<1>4. Carries(x, pastBox, pastNames) /\ x.ask.op \notin B!WriteOp
  BY <1>1, <1>3 DEF Inv, LiveInv, Carries, B!WriteOp
<1>. QED  BY <1>1, <1>2, <1>3, <1>4, CallStep

LEMMA StoreInv ==
  ASSUME Inv, NEW c \in Client, Store(c)
  PROVE  Inv'
<1>. DEFINE r == req[c].ask
            e(m) == [id |-> m, labels |-> IF r.op = "thread" THEN req[c].value[m]
                                          ELSE req[c].value]
            x(m) == [req[c] EXCEPT !.pc = "put", !.todo = @ \ {m}]
<1>1. req[c].pc = "store" /\ UNCHANGED <<mailboxVars, cfg, ttl, now, saves, history>>
  BY DEF Store
<1>2. PICK m \in req[c].todo :
        /\ content' = Trim(Append(Without(m), e(m)), cfg.maxMessages)
        /\ Step(c, x(m))
  BY DEF Store
<1>3. /\ req[c] \in Answered(r) /\ r.msg \in Message
      /\ r.op \in {"content", "thread"}
      /\ WasLive(r, req[c].value, pastBox, pastNames)
  BY <1>1, CallFacts DEF Late, Inv, LiveInv, Carries
<1>4. e(m) \in Kept /\ e(m).id = m /\ m \in Message /\ e(m).labels \in pastBox[m]
  <2>1. CASE r.op = "content"
    <3>1. req[c].value \in SUBSET Label /\ m = r.msg
      BY <1>3, <2>1 DEF Answered, Values
    <3>. QED  BY <1>3, <2>1, <3>1 DEF Kept, WasLive
  <2>2. CASE r.op = "thread"
    <3>1. req[c].value \in [Message -> SUBSET Label] /\ m \in Message
      BY <1>3, <2>2 DEF Answered, Values
    <3>. QED  BY <1>3, <2>2, <3>1 DEF Kept, WasLive
  <2>. QED  BY <1>3, <2>1, <2>2
<1>. HIDE DEF e
<1>5. /\ content' \in Seq(Kept) /\ Single(content') /\ Len(content') <= cfg.maxMessages
      /\ \A i \in 1..Len(content') :
           content'[i] = e(m) \/ \E j \in 1..Len(content) : content'[i] = content[j]
  <2>. DEFINE s == Append(Without(m), e(m))
  <2>1. /\ s \in Seq(Kept) /\ Single(s)
        /\ \A i \in 1..Len(s) : s[i] = e(m) \/ \E j \in 1..Len(content) : s[i] = content[j]
    BY <1>4, NowFacts, LatestFacts
  <2>. HIDE DEF s
  <2>2. /\ Trim(s, cfg.maxMessages) \in Seq(Kept)
        /\ Len(Trim(s, cfg.maxMessages)) <= cfg.maxMessages
        /\ Single(Trim(s, cfg.maxMessages))
        /\ From(Trim(s, cfg.maxMessages), s)
    BY <2>1, NowFacts, TrimFacts
  <2>3. content' = Trim(s, cfg.maxMessages)
    BY <1>2 DEF s
  <2>. QED  BY <2>1, <2>2, <2>3 DEF From
<1>6. \A i \in 1..Len(content') : content'[i].labels \in pastBox[content'[i].id]
  BY <1>4, <1>5, NowFacts
<1>7. /\ x(m) \in Frame(c) /\ x(m).pc = "put" /\ x(m).ask = r /\ x(m).value = req[c].value
      /\ \A l \in Message : x(m).since[l] <= acked[l] /\ x(m).asOf[l] <= applied[l]
      /\ ~crossed => \A l \in Message : Timely(x(m), l)
  <2>1. Onward(c, x(m), "put")
    <3>1. req[c].todo \ {m} \in SUBSET req[c].todo /\ req[c].pc \in Late /\ "put" \in Late
      BY <1>1 DEF Late
    <3>. QED  BY <3>1 DEF Onward
  <2>. HIDE DEF x
  <2>. QED  BY <2>1, OnwardCall
<1>. HIDE DEF x
<1>8. Carries(x(m), pastBox, pastNames)
  BY <1>3, <1>7 DEF Carries
<1>. QED  BY <1>1, <1>2, <1>5, <1>6, <1>7, <1>8, NowFacts, QuietStep

LEMMA FetchInv ==
  ASSUME Inv, NEW c \in Client, Fetch(c)
  PROVE  Inv'
<1>. DEFINE r == req[c].ask
            x(v, members) == [req[c] EXCEPT !.pc = "put", !.value = v, !.asOf = applied,
                                            !.todo = members]
<1>1. /\ req[c].pc = "call" /\ r.op \in B!ReadOp
      /\ UNCHANGED <<mailboxVars, cacheVars, history>>
  BY DEF Fetch
<1>2. PICK v \in Fetched(r), members \in SUBSET Message :
        (members = {r.msg} \/ r.op = "thread") /\ Step(c, x(v, members))
  BY DEF Fetch
<1>3. req[c] \in Asking(r) /\ r \in Requests[c] /\ r \in B!Request /\ r.msg \in Message
  BY <1>1, CallFacts DEF Early
<1>4. v \in Values(r.op) /\ WasLive(r, v, pastBox, pastNames)
  <2>1. /\ box \in [Message -> SUBSET Label] /\ names \in Listing
        /\ \A m \in Message : box[m] \in pastBox[m]
        /\ names \in pastNames /\ Found \subseteq SUBSET Message
    BY CacheAssumption DEF Inv, TypeOK, MailboxTypeOK, HistoryInv
  <2>. QED  BY <1>1, <1>3, <2>1 DEF Fetched, Values, WasLive, B!ReadOp
<1>5. /\ x(v, members) \in Answered(r) /\ x(v, members).pc = "put"
      /\ x(v, members).ask = r /\ x(v, members).value = v
      /\ x(v, members).since = req[c].since /\ x(v, members).asOf = applied
  <2>1. applied \in Count
    BY NowFacts
  <2>. QED  BY <1>2, <1>3, <1>4, <2>1 DEF Asking, Answered, Late
<1>6. x(v, members) \in Frame(c)
  BY <1>3, <1>5 DEF Frame
<1>. HIDE DEF x
<1>7. Carries(x(v, members), pastBox, pastNames)
  BY <1>4, <1>5 DEF Carries
<1>8. \A m \in Message :
        /\ x(v, members).since[m] <= acked[m] /\ x(v, members).asOf[m] <= applied[m]
        /\ Timely(x(v, members), m)
  <2>1. \A m \in Message : acked[m] <= applied[m]
    BY DEF Inv, AckInv
  <2>. QED  BY <1>5, <2>1, CallFacts, NowFacts DEF Timely
<1>. QED  BY <1>1, <1>2, <1>5, <1>6, <1>7, <1>8, CallStep

----------------------------------------------------------------------------
\* Steps that leave the calls alone.

LEMMA TickInv ==
  ASSUME Inv, Tick
  PROVE  Inv'
<1>1. now' \in 0..MaxTime
  BY Bounds DEF Tick, Inv, TypeOK
<1>2. UNCHANGED <<box, names, pastBox, pastNames, moves, cfg, content, ttl, saves, req,
                  applied, acked, crossed>>
  BY DEF Tick, mailboxVars, history
<1>. QED  BY <1>1, <1>2 DEF Inv, TypeOK, MailboxTypeOK, HistoryInv, LiveInv, ContentBounded,
                         AckInv, FreshInv, Count

LEMMA ClearInv ==
  ASSUME Inv, Clear
  PROVE  Inv'
<1>1. content' = <<>> /\ content' \in Seq(Kept) /\ Len(content') = 0
      /\ \A i \in 1..Len(content') : FALSE
  BY EmptySeq DEF Clear
<1>2. DOMAIN ttl' = Key /\ \A k \in Key : ttl'[k] = None
  BY DEF Clear
<1>3. UNCHANGED <<box, names, pastBox, pastNames, moves, cfg, now, saves, req,
                  applied, acked, crossed>>
  BY DEF Clear, mailboxVars, history
<1>4. TypeOK'
  BY <1>1, <1>2, <1>3 DEF Inv, TypeOK, MailboxTypeOK, Count
<1>5. HistoryInv' /\ AckInv'
  BY <1>2, <1>3 DEF Inv, HistoryInv, AckInv
<1>6. LiveInv'
  BY <1>1, <1>2, <1>3, KeyFacts DEF Inv, LiveInv
<1>7. ContentBounded'
  BY <1>1, <1>3, NowFacts DEF ContentBounded
<1>8. FreshInv'
  BY <1>2, <1>3, KeyFacts DEF Inv, FreshInv
<1>. QED  BY <1>4, <1>5, <1>6, <1>7, <1>8 DEF Inv

LEMMA ReconfigureInv ==
  ASSUME Inv, Reconfigure
  PROVE  Inv'
<1>1. /\ cfg' \in Configs /\ moves + saves < MaxChanges /\ saves' = saves + 1
      /\ content' = IF cfg'.enabled THEN Trim(content, cfg'.maxMessages) ELSE <<>>
  BY DEF Reconfigure
<1>2. UNCHANGED <<box, names, pastBox, pastNames, moves, ttl, now, req,
                  applied, acked, crossed>>
  BY DEF Reconfigure, mailboxVars, history
<1>3. saves' \in 0..MaxChanges
  <2>1. saves \in Nat /\ moves \in Nat
    BY Bounds DEF Inv, TypeOK, MailboxTypeOK
  <2>. QED  BY <1>1, <2>1, Bounds
<1>4. cfg'.maxMessages \in Nat
  BY <1>1, ConfigFacts
<1>5. /\ content' \in Seq(Kept) /\ Len(content') <= cfg'.maxMessages /\ Single(content')
      /\ From(content', content)
  <2>1. CASE cfg'.enabled
    BY <1>1, <1>4, <2>1, NowFacts, TrimFacts
  <2>2. CASE ~cfg'.enabled
    <3>1. content' = <<>> /\ content' \in Seq(Kept) /\ Len(content') = 0
      BY <1>1, <2>2, EmptySeq
    <3>. QED  BY <1>4, <3>1 DEF Single, From
  <2>. QED  BY <2>1, <2>2
<1>6. TypeOK'
  BY <1>1, <1>2, <1>3, <1>5 DEF Inv, TypeOK, MailboxTypeOK, Count
<1>7. HistoryInv' /\ AckInv'
  BY <1>2 DEF Inv, HistoryInv, AckInv
<1>8. LiveInv'
  <2>1. \A i \in 1..Len(content') : content'[i].labels \in pastBox[content'[i].id]
    BY <1>5, NowFacts DEF From
  <2>. QED  BY <1>2, <2>1 DEF Inv, LiveInv
<1>9. ContentBounded' /\ FreshInv'
  BY <1>2, <1>5 DEF Inv, ContentBounded, Single, FreshInv
<1>. QED  BY <1>6, <1>7, <1>8, <1>9 DEF Inv

----------------------------------------------------------------------------
\* Steps that change the mailbox.

LEMMA MailboxStep ==
  ASSUME Inv, MailboxTypeOK', Remember,
         UNCHANGED <<cfg, content, ttl, now, saves, acked, crossed>>,
         applied' \in Count, \A m \in Message : applied[m] <= applied'[m],
         Calls',
         \A d \in Client :
           \/ req'[d] = req[d]
           \/ /\ req'[d].pc \notin {"put", "store", "done"}
              /\ \A m \in Message : /\ req'[d].since[m] <= acked[m]
                                    /\ req'[d].asOf[m] <= applied'[m]
                                    /\ Timely(req'[d], m)
  PROVE  Inv'
<1>1. /\ \A m \in Message : box'[m] \in pastBox'[m] /\ pastBox[m] \subseteq pastBox'[m]
      /\ names' \in pastNames' /\ pastNames \subseteq pastNames'
  BY RememberGrows DEF Inv, TypeOK
<1>2. TypeOK'
  BY DEF Inv, TypeOK, Calls, Count
<1>3. HistoryInv'
  BY <1>1 DEF HistoryInv
<1>4. LiveInv'
  <2>1. \A i \in 1..Len(content) : content[i].labels \in pastBox'[content[i].id]
    <3>1. \A i \in 1..Len(content) :
            content[i].id \in Message /\ content[i].labels \in pastBox[content[i].id]
      BY NowFacts DEF Kept
    <3>. QED  BY <1>1, <3>1
  <2>2. ASSUME NEW d \in Client PROVE Carries(req'[d], pastBox', pastNames')
    <3>1. CASE req'[d] = req[d]
      <4>1. req[d].pc \in {"put", "store"} => req[d].ask.msg \in Message
        BY CallFacts DEF Late
      <4>2. Carries(req[d], pastBox, pastNames)
        BY DEF Inv, LiveInv
      <4>. QED  BY <1>1, <3>1, <4>1, <4>2 DEF Carries, WasLive
    <3>2. CASE req'[d].pc \notin {"put", "store", "done"}
      BY <3>2 DEF Carries
    <3>. QED  BY <3>1, <3>2
  <2>. QED  BY <1>1, <2>1, <2>2 DEF Inv, LiveInv
<1>5. ContentBounded'
  BY DEF Inv, ContentBounded
<1>6. AckInv'
  <2>1. ASSUME NEW m \in Message
        PROVE  /\ acked[m] <= applied'[m]
               /\ \A d \in Client : req'[d].since[m] <= acked[m] /\ req'[d].asOf[m] <= applied'[m]
               /\ \A k \in Key : ttl[k] # None => ttl[k].asOf[m] <= applied'[m]
    <3>1. acked[m] \in Nat /\ applied[m] \in Nat /\ applied'[m] \in Nat
          /\ acked[m] <= applied[m] /\ applied[m] <= applied'[m]
      BY NowFacts, Bounds DEF Inv, AckInv, Count
    <3>2. ASSUME NEW d \in Client
          PROVE  req'[d].since[m] <= acked[m] /\ req'[d].asOf[m] <= applied'[m]
      BY <3>1, CallFacts
    <3>3. ASSUME NEW k \in Key, ttl[k] # None
          PROVE  ttl[k].asOf[m] <= applied'[m]
      <4>1. ttl[k].asOf[m] \in Nat /\ ttl[k].asOf[m] <= applied[m]
        BY <3>3, Bounds DEF Inv, TypeOK, AckInv, Count
      <4>. QED  BY <3>1, <4>1
    <3>. QED  BY <3>1, <3>2, <3>3
  <2>. QED  BY <2>1 DEF AckInv
<1>7. FreshInv'
  <2>1. \A asOf, m : Knows(asOf, m, acked, req) => Knows(asOf, m, acked, req')
    BY DEF Knows, Writing
  <2>2. ASSUME ~crossed, NEW d \in Client, NEW m \in Message
        PROVE  Timely(req'[d], m)
    BY <2>2, CallFacts
  <2>. QED  BY <2>1, <2>2 DEF Inv, FreshInv
<1>. QED  BY <1>2, <1>3, <1>4, <1>5, <1>6, <1>7 DEF Inv

LEMMA OwnerStepInv ==
  ASSUME Inv, OwnerStep
  PROVE  Inv'
<1>1. Owner /\ UNCHANGED <<cfg, content, ttl, now, saves, req, applied, acked, crossed>>
  BY DEF OwnerStep, cacheVars, history
<1>2. MailboxTypeOK' /\ Remember
  BY <1>1, OwnerTypes
     DEF Inv, TypeOK, Owner, OwnerRelabels, OwnerNames, OwnerDeletes
<1>3. Calls'
  BY <1>1 DEF Inv, TypeOK, Calls
<1>4. applied' \in Count /\ \A m \in Message : applied[m] <= applied'[m]
  BY <1>1, NowFacts DEF Count
<1>. QED  BY <1>1, <1>2, <1>3, <1>4, MailboxStep

\* A mutation that reaches Gmail.
LEMMA ReachesFacts ==
  ASSUME Inv, NEW r \in B!Request, Reaches(r)
  PROVE  /\ MailboxTypeOK' /\ Remember
         /\ applied' \in Count
         /\ \A m \in Message : applied[m] <= applied'[m]
         /\ box'[r.msg] \in SUBSET Label
<1>1. r.msg \in Message /\ r.add \in SUBSET Label /\ r.remove \in SUBSET Label
  BY RequestFields
<1>2. ModifyLabels(r.msg, r.add, r.remove) \/ TrashMessage(r.msg)
  BY DEF Reaches
<1>3. MailboxTypeOK' /\ Remember
  BY <1>1, <1>2, WriteTypes DEF ModifyLabels, TrashMessage, Inv, TypeOK
<1>4. box'[r.msg] \in SUBSET Label
  BY <1>1, <1>3 DEF MailboxTypeOK
<1>5. /\ applied \in [Message -> 0..MaxWrites] /\ applied[r.msg] < MaxWrites
      /\ applied' = [applied EXCEPT ![r.msg] = @ + 1]
  BY NowFacts DEF Reaches, Count
<1>6. applied' \in Count /\ \A m \in Message : applied[m] <= applied'[m]
  BY <1>1, <1>5, Bounds DEF Count
<1>. QED  BY <1>3, <1>4, <1>6

LEMMA MutateInv ==
  ASSUME Inv, NEW c \in Client, Mutate(c)
  PROVE  Inv'
<1>. DEFINE r == req[c].ask
            x == [req[c] EXCEPT !.pc = "invalidate", !.value = box'[r.msg], !.asOf = applied']
<1>1. /\ req[c].pc = "call" /\ r.op \in B!WriteOp /\ Reaches(r) /\ Step(c, x)
      /\ UNCHANGED <<cfg, content, ttl, now, saves, acked, crossed>>
  BY DEF Mutate, cacheVars
<1>2. req[c] \in Asking(r) /\ r \in Requests[c] /\ r \in B!Request
  BY <1>1, CallFacts DEF Early
<1>3. /\ MailboxTypeOK' /\ Remember /\ applied' \in Count
      /\ \A m \in Message : applied[m] <= applied'[m]
      /\ box'[r.msg] \in SUBSET Label
  BY <1>1, <1>2, ReachesFacts
<1>4. /\ x \in Answered(r) /\ x.pc = "invalidate" /\ x.ask = r
      /\ x.since = req[c].since /\ x.asOf = applied'
  <2>1. Values(r.op) = SUBSET Label
    BY <1>1 DEF Values, B!WriteOp
  <2>. QED  BY <1>2, <1>3, <2>1 DEF Asking, Answered, Late
<1>5. x \in Frame(c)
  BY <1>2, <1>4 DEF Frame
<1>. HIDE DEF x
<1>6. Calls' /\ req'[c] = x /\ \A d \in Client : d # c => req'[d] = req[d]
  BY <1>1, <1>5, Stepping DEF Inv, Others
<1>7. /\ x.pc \notin {"put", "store", "done"}
      /\ \A m \in Message : /\ x.since[m] <= acked[m]
                            /\ x.asOf[m] <= applied'[m]
                            /\ Timely(x, m)
  <2>1. \A m \in Message : ~Bears(r, m)
    BY <1>1 DEF Bears, B!WriteOp
  <2>2. \A m \in Message : applied'[m] \in Nat
    BY <1>3, Bounds DEF Count
  <2>. QED  BY <1>4, <2>1, <2>2, CallFacts DEF Timely
<1>. QED  BY <1>1, <1>3, <1>6, <1>7, MailboxStep

LEMMA MutateUnansweredInv ==
  ASSUME Inv, NEW c \in Client, MutateUnanswered(c)
  PROVE  Inv'
<1>. DEFINE r == req[c].ask
<1>1. /\ req[c].pc = "call" /\ Reaches(r) /\ Step(c, Ready)
      /\ UNCHANGED <<cfg, content, ttl, now, saves, acked, crossed>>
  BY DEF MutateUnanswered, cacheVars
<1>2. r \in B!Request
  BY <1>1, CallFacts DEF Early
<1>3. /\ MailboxTypeOK' /\ Remember /\ applied' \in Count
      /\ \A m \in Message : applied[m] <= applied'[m]
  BY <1>1, <1>2, ReachesFacts
<1>4. Calls' /\ req'[c] = Ready /\ \A d \in Client : d # c => req'[d] = req[d]
  BY <1>1, ReadyStep, Stepping DEF Inv, Others
<1>5. /\ Ready.pc \notin {"put", "store", "done"}
      /\ \A m \in Message : /\ Ready.since[m] <= acked[m]
                            /\ Ready.asOf[m] <= applied'[m]
                            /\ Timely(Ready, m)
  <2>1. \A m \in Message : applied'[m] \in Nat
    BY <1>3, Bounds DEF Count
  <2>. QED  BY <2>1, ReadyStep, ReadyFields DEF Zero
<1>. QED  BY <1>1, <1>3, <1>4, <1>5, MailboxStep

----------------------------------------------------------------------------
\* Puts, invalidations and answers: where FreshInv is earned.

LEMMA NumberFacts ==
  ASSUME Inv
  PROVE  \A m \in Message :
           /\ acked[m] \in Nat /\ applied[m] \in Nat /\ acked[m] <= applied[m]
           /\ \A d \in Client :
                /\ req[d].since[m] \in Nat /\ req[d].asOf[m] \in Nat
                /\ req[d].since[m] <= acked[m] /\ req[d].asOf[m] <= applied[m]
BY NowFacts, CallFacts DEF Inv, AckInv

LEMMA TtlPutInv ==
  ASSUME Inv, NEW c \in Client, TtlPut(c)
  PROVE  Inv'
<1>. DEFINE r == req[c].ask
            k == KeyOf(r)
            x == [req[c] EXCEPT !.pc = "done"]
            e == [expires |-> now + cfg.ttl[r.op], value |-> req[c].value,
                  asOf |-> req[c].asOf]
<1>1. /\ req[c].pc = "put" /\ r.op \in CachedOp /\ Step(c, x)
      /\ UNCHANGED <<box, names, pastBox, pastNames, moves, cfg, content, now, saves,
                     applied, acked>>
  BY DEF TtlPut, mailboxVars
<1>2. /\ req[c] \in Answered(r) /\ r \in Requests[c] /\ r \in B!Request
      /\ WasLive(r, req[c].value, pastBox, pastNames) /\ r.op \notin B!WriteOp
  BY <1>1, CallFacts DEF Late, Inv, LiveInv, Carries, CachedOp, B!WriteOp
<1>3. /\ x \in Frame(c) /\ x.pc = "done" /\ x.ask = r
      /\ \A m \in Message : x.since[m] <= acked[m] /\ x.asOf[m] <= applied[m]
      /\ ~crossed => \A m \in Message : Timely(x, m)
  <2>1. Onward(c, x, "done")
    BY <1>1 DEF Onward, Late
  <2>. HIDE DEF x
  <2>. QED  BY <2>1, OnwardCall
<1>. HIDE DEF x
<1>4. Calls' /\ req'[c] = x /\ \A d \in Client : d # c => req'[d] = req[d]
  BY <1>1, <1>3, Stepping DEF Inv, Others
<1>5. CASE ~(cfg.ttl[r.op] > 0)
  <2>1. UNCHANGED <<mailboxVars, cacheVars, history>>
    BY <1>1, <1>5 DEF TtlPut, mailboxVars, cacheVars, history
  <2>. QED  BY <1>1, <1>2, <1>3, <2>1, CallStep DEF Carries
<1>6. CASE cfg.ttl[r.op] > 0
  <2>1. /\ ttl' = [ttl EXCEPT ![k] = e]
        /\ crossed' = (crossed \/ Overtaken(req[c]))
    BY <1>6 DEF TtlPut
  <2>2. /\ k \in Key /\ k[1] = r.op
        /\ r.op = "metadata" => k = <<"metadata", r.msg>>
        /\ r.op = "search" => k = <<"search", r.query>>
        /\ r.op = "listing" => k = <<"listing", "_">>
        /\ r.msg \in Message /\ r.query \in Query
    BY <1>1, <1>2, KeyOfFacts, RequestFields
  <2>3. e \in [expires : Nat, value : Values(r.op), asOf : Count]
    <3>1. now \in Nat /\ cfg.ttl[r.op] \in Nat
      BY <1>1, Bounds, NowFacts, ConfigFacts DEF Inv, TypeOK
    <3>. QED  BY <1>2, <3>1 DEF Answered
  <2>4. e.value = req[c].value /\ e.asOf = req[c].asOf
    OBVIOUS
  <2>. HIDE DEF e, k
  <2>5. DOMAIN ttl' = Key /\ ttl'[k] = e /\ \A l \in Key : l # k => ttl'[l] = ttl[l]
    BY <2>1, <2>2, NowFacts
  <2>6. TypeOK'
    <3>1. \A l \in Key : ttl'[l] # None =>
            ttl'[l] \in [expires : Nat, value : Values(l[1]), asOf : Count]
      BY <2>2, <2>3, <2>5 DEF Inv, TypeOK
    <3>2. crossed' \in BOOLEAN
      BY <1>1, <2>1 DEF Overtaken, CachedOp, Inv, TypeOK
    <3>. QED  BY <1>1, <1>4, <2>5, <3>1, <3>2
              DEF Inv, TypeOK, MailboxTypeOK, Calls, Count
  <2>7. HistoryInv' /\ ContentBounded'
    BY <1>1 DEF Inv, HistoryInv, ContentBounded
  <2>8. LiveInv'
    <3>1. ASSUME NEW m \in Message, ttl'[<<"metadata", m>>] # None
          PROVE  ttl'[<<"metadata", m>>].value \in pastBox[m]
      <4>1. CASE <<"metadata", m>> = k
        <5>1. r.op = "metadata" /\ m = r.msg
          BY <1>1, <2>2, <4>1, KeyFacts DEF CachedOp
        <5>. QED  BY <1>2, <2>4, <2>5, <4>1, <5>1 DEF WasLive
      <4>2. CASE <<"metadata", m>> # k
        BY <2>5, <3>1, <4>2, KeyFacts DEF Inv, LiveInv
      <4>. QED  BY <4>1, <4>2
    <3>2. ASSUME ttl'[<<"listing", "_">>] # None
          PROVE  ttl'[<<"listing", "_">>].value \in pastNames
      <4>1. CASE <<"listing", "_">> = k
        <5>1. r.op = "listing"
          BY <1>1, <2>2, <4>1, KeyFacts DEF CachedOp
        <5>. QED  BY <1>2, <2>4, <2>5, <4>1, <5>1 DEF WasLive
      <4>2. CASE <<"listing", "_">> # k
        BY <2>5, <3>2, <4>2, KeyFacts DEF Inv, LiveInv
      <4>. QED  BY <4>1, <4>2
    <3>3. \A d \in Client : Carries(req'[d], pastBox, pastNames)
      BY <1>3, <1>4 DEF Inv, LiveInv, Carries
    <3>. QED  BY <1>1, <3>1, <3>2, <3>3 DEF Inv, LiveInv
  <2>9. AckInv'
    <3>1. \A l \in Key, m \in Message : ttl'[l] # None => ttl'[l].asOf[m] <= applied[m]
      BY <2>4, <2>5, NumberFacts DEF Inv, AckInv
    <3>. QED  BY <1>1, <1>3, <1>4, <3>1 DEF Inv, AckInv
  <2>10. FreshInv'
    <3>. SUFFICES ASSUME ~crossed', NEW m \in Message
                  PROVE  /\ ttl'[<<"metadata", m>>] # None =>
                              Knows(ttl'[<<"metadata", m>>].asOf, m, acked, req')
                         /\ \A q \in Query : ttl'[<<"search", q>>] # None =>
                              Knows(ttl'[<<"search", q>>].asOf, m, acked, req')
                         /\ \A d \in Client : Timely(req'[d], m)
      BY <1>1 DEF FreshInv
    <3>1. ~crossed /\ ~Overtaken(req[c])
      BY <2>1
    <3>2. \A asOf : Knows(asOf, m, acked, req) => Knows(asOf, m, acked, req')
      BY <1>2, <1>3, <1>4 DEF Knows, Writing
    <3>3. Knows(applied, m, acked, req)
      BY NumberFacts DEF Knows
    <3>4. ASSUME Bears(r, m) PROVE Knows(e.asOf, m, acked, req')
      <4>1. req[c].asOf[m] = applied[m]
        <5>1. CASE r.op = "search"
          BY <3>1, <5>1 DEF Overtaken
        <5>2. CASE r.op = "metadata" /\ r.msg = m
          BY <3>1, <5>2 DEF Overtaken
        <5>. QED  BY <3>4, <5>1, <5>2 DEF Bears
      <4>. QED  BY <2>4, <3>2, <3>3, <4>1 DEF Knows
    <3>5. ttl'[<<"metadata", m>>] # None =>
            Knows(ttl'[<<"metadata", m>>].asOf, m, acked, req')
      <4>1. CASE <<"metadata", m>> = k
        <5>1. r.op = "metadata" /\ m = r.msg
          BY <1>1, <2>2, <4>1, KeyFacts DEF CachedOp
        <5>. QED  BY <2>5, <3>4, <4>1, <5>1, KeyFacts DEF Bears
      <4>2. CASE <<"metadata", m>> # k
        BY <2>5, <3>1, <3>2, <4>2, KeyFacts DEF Inv, FreshInv
      <4>. QED  BY <4>1, <4>2
    <3>6. ASSUME NEW q \in Query, ttl'[<<"search", q>>] # None
          PROVE  Knows(ttl'[<<"search", q>>].asOf, m, acked, req')
      <4>1. CASE <<"search", q>> = k
        <5>1. r.op = "search"
          BY <1>1, <2>2, <4>1, KeyFacts DEF CachedOp
        <5>. QED  BY <2>5, <3>4, <4>1, <5>1, KeyFacts DEF Bears
      <4>2. CASE <<"search", q>> # k
        BY <2>5, <3>1, <3>2, <3>6, <4>2, KeyFacts DEF Inv, FreshInv
      <4>. QED  BY <4>1, <4>2
    <3>7. \A d \in Client : Timely(req'[d], m)
      BY <1>3, <1>4, <3>1 DEF Inv, FreshInv
    <3>. QED  BY <3>5, <3>6, <3>7
  <2>. QED  BY <2>6, <2>7, <2>8, <2>9, <2>10 DEF Inv
<1>. QED  BY <1>5, <1>6

LEMMA InvalidateInv ==
  ASSUME Inv, NEW c \in Client, Invalidate(c)
  PROVE  Inv'
<1>. DEFINE r == req[c].ask
            x == [req[c] EXCEPT !.pc = "done"]
<1>1. /\ req[c].pc = "invalidate" /\ Step(c, x)
      /\ ttl' = [k \in Key |-> IF k[1] = "search" \/ k = <<"metadata", r.msg>>
                               THEN None ELSE ttl[k]]
      /\ content' = Without(r.msg)
      /\ UNCHANGED <<box, names, pastBox, pastNames, moves, cfg, now, saves,
                     applied, acked, crossed>>
  BY DEF Invalidate, mailboxVars, history
<1>2. r.msg \in Message
  BY <1>1, CallFacts DEF Late
<1>3. /\ x \in Frame(c) /\ x.pc = "done" /\ x.ask = r
      /\ \A m \in Message : x.since[m] <= acked[m] /\ x.asOf[m] <= applied[m]
      /\ ~crossed => \A m \in Message : Timely(x, m)
  <2>1. Onward(c, x, "done")
    BY <1>1 DEF Onward, Late
  <2>. HIDE DEF x
  <2>. QED  BY <2>1, OnwardCall
<1>. HIDE DEF x
<1>4. Calls' /\ req'[c] = x /\ \A d \in Client : d # c => req'[d] = req[d]
  BY <1>1, <1>3, Stepping DEF Inv, Others
<1>5. /\ DOMAIN ttl' = Key /\ \A k \in Key : ttl'[k] = ttl[k] \/ ttl'[k] = None
      /\ ttl'[<<"metadata", r.msg>>] = None
      /\ \A q \in Query : ttl'[<<"search", q>>] = None
  BY <1>1, <1>2, KeyFacts
<1>6. /\ content' \in Seq(Kept) /\ Single(content') /\ From(content', content)
      /\ Len(content') <= cfg.maxMessages
  <2>1. /\ Without(r.msg) \in Seq(Kept) /\ Single(Without(r.msg))
        /\ From(Without(r.msg), content)
        /\ Len(Without(r.msg)) = IF Places(r.msg) = {} THEN Len(content) ELSE Len(content) - 1
    BY <1>2, NowFacts, WithoutFacts
  <2>. QED  BY <1>1, <2>1, NowFacts
<1>7. TypeOK'
  BY <1>1, <1>4, <1>5, <1>6 DEF Inv, TypeOK, MailboxTypeOK, Calls, Count
<1>8. HistoryInv' /\ ContentBounded' /\ AckInv'
  BY <1>1, <1>3, <1>4, <1>5, <1>6
     DEF Inv, HistoryInv, ContentBounded, Single, AckInv
<1>9. LiveInv'
  <2>1. \A i \in 1..Len(content') : content'[i].labels \in pastBox[content'[i].id]
    BY <1>6, NowFacts DEF From
  <2>2. \A d \in Client : Carries(req'[d], pastBox, pastNames)
    BY <1>3, <1>4 DEF Inv, LiveInv, Carries
  <2>3. /\ \A m \in Message : ttl'[<<"metadata", m>>] # None =>
             ttl'[<<"metadata", m>>].value \in pastBox[m]
        /\ ttl'[<<"listing", "_">>] # None => ttl'[<<"listing", "_">>].value \in pastNames
    BY <1>5, KeyFacts DEF Inv, LiveInv
  <2>. QED  BY <1>1, <2>1, <2>2, <2>3 DEF LiveInv
<1>10. FreshInv'
  <2>. SUFFICES ASSUME ~crossed, NEW m \in Message
                PROVE  /\ ttl'[<<"metadata", m>>] # None =>
                            Knows(ttl'[<<"metadata", m>>].asOf, m, acked, req')
                       /\ \A d \in Client : Timely(req'[d], m)
    BY <1>1, <1>5 DEF FreshInv
  <2>1. \A d \in Client : Timely(req'[d], m)
    BY <1>3, <1>4 DEF Inv, FreshInv
  <2>2. CASE m = r.msg
    BY <1>5, <2>1, <2>2
  <2>3. CASE m # r.msg
    <3>1. \A asOf : Knows(asOf, m, acked, req) => Knows(asOf, m, acked, req')
      BY <1>3, <1>4, <2>3 DEF Knows, Writing
    <3>. QED  BY <1>5, <2>1, <3>1, KeyFacts DEF Inv, FreshInv
  <2>. QED  BY <2>2, <2>3
<1>. QED  BY <1>7, <1>8, <1>9, <1>10 DEF Inv

LEMMA ReturnInv ==
  ASSUME Inv, NEW c \in Client, Return(c)
  PROVE  Inv'
<1>. DEFINE r == req[c].ask
<1>1. /\ req[c].pc = "done" /\ Step(c, Ready)
      /\ acked' = IF r.op \in B!WriteOp /\ req[c].asOf[r.msg] > acked[r.msg]
                  THEN [acked EXCEPT ![r.msg] = req[c].asOf[r.msg]] ELSE acked
      /\ UNCHANGED <<box, names, pastBox, pastNames, moves, cfg, content, ttl, now, saves,
                     applied, crossed>>
  BY DEF Return, mailboxVars, cacheVars
<1>2. r.msg \in Message
  BY <1>1, CallFacts DEF Late
<1>3. Calls' /\ req'[c] = Ready /\ \A d \in Client : d # c => req'[d] = req[d]
  BY <1>1, ReadyStep, Stepping DEF Inv, Others
<1>4. acked' \in Count
  BY <1>1, <1>2, CallFacts, NowFacts DEF Count
<1>5. \A m \in Message :
        /\ acked[m] <= acked'[m] /\ acked'[m] <= applied[m] /\ acked'[m] \in Nat
        /\ \A asOf : Knows(asOf, m, acked, req) => acked'[m] <= asOf[m]
  <2>1. ASSUME NEW m \in Message, acked'[m] # acked[m]
        PROVE  Writing(req[c], m) /\ acked'[m] = req[c].asOf[m] /\ acked'[m] > acked[m]
    BY <1>1, <1>2, <2>1, NowFacts DEF Writing, Count
  <2>. QED  BY <2>1, NumberFacts DEF Knows
<1>6. TypeOK'
  BY <1>1, <1>3, <1>4 DEF Inv, TypeOK, MailboxTypeOK, Calls
<1>7. HistoryInv' /\ ContentBounded'
  BY <1>1 DEF Inv, HistoryInv, ContentBounded
<1>8. LiveInv'
  BY <1>1, <1>3, ReadyFields DEF Inv, LiveInv, Carries
<1>9. AckInv'
  <2>1. ASSUME NEW m \in Message, NEW d \in Client
        PROVE  req'[d].since[m] <= acked'[m] /\ req'[d].asOf[m] <= applied[m]
    <3>1. CASE d = c
      BY <1>3, <1>5, <3>1, NumberFacts, ReadyFields DEF Zero
    <3>2. CASE d # c
      BY <1>3, <1>5, <3>2, NumberFacts
    <3>. QED  BY <3>1, <3>2
  <2>. QED  BY <1>1, <1>5, <2>1 DEF Inv, AckInv
<1>10. FreshInv'
  <2>. SUFFICES ASSUME ~crossed, NEW m \in Message
                PROVE  /\ ttl[<<"metadata", m>>] # None =>
                            Knows(ttl[<<"metadata", m>>].asOf, m, acked', req')
                       /\ \A q \in Query : ttl[<<"search", q>>] # None =>
                            Knows(ttl[<<"search", q>>].asOf, m, acked', req')
                       /\ \A d \in Client : Timely(req'[d], m)
    BY <1>1 DEF FreshInv
  <2>1. \A asOf : Knows(asOf, m, acked, req) => Knows(asOf, m, acked', req')
    <3>1. ASSUME NEW asOf, Knows(asOf, m, acked, req)
          PROVE  acked'[m] <= asOf[m]
      BY <1>5, <3>1
    <3>2. \A d \in Client : Writing(req'[d], m) => req'[d] = req[d]
      BY <1>3, ReadyFields DEF Writing
    <3>. QED  BY <3>1, <3>2 DEF Knows
  <2>2. \A d \in Client : Timely(req'[d], m)
    BY <1>3, ReadyStep DEF Inv, FreshInv
  <2>. QED  BY <2>1, <2>2 DEF Inv, FreshInv
<1>. QED  BY <1>6, <1>7, <1>8, <1>9, <1>10 DEF Inv

----------------------------------------------------------------------------
\* The invariants of the run "cache".

THEOREM Invariance == Spec => []Inv
<1>1. Inv /\ [Next]_vars => Inv'
  <2>. SUFFICES ASSUME Inv, [Next]_vars PROVE Inv'
    OBVIOUS
  <2>1. ASSUME NEW c \in Client,
               \/ Ask(c) \/ TtlHit(c) \/ TtlMiss(c) \/ TtlPut(c)
               \/ ContentHit(c) \/ ContentMiss(c) \/ Admit(c) \/ Store(c)
               \/ Fetch(c) \/ CallFails(c) \/ Mutate(c) \/ MutateUnanswered(c)
               \/ Invalidate(c) \/ Return(c)
        PROVE  Inv'
    BY <2>1, AskInv, TtlHitInv, TtlMissInv, TtlPutInv, ContentHitInv, ContentMissInv,
       AdmitInv, StoreInv, FetchInv, CallFailsInv, MutateInv, MutateUnansweredInv,
       InvalidateInv, ReturnInv
  <2>2. CASE Reconfigure
    BY <2>2, ReconfigureInv
  <2>3. CASE Clear
    BY <2>3, ClearInv
  <2>4. CASE Tick
    BY <2>4, TickInv
  <2>5. CASE OwnerStep
    BY <2>5, OwnerStepInv
  <2>6. CASE UNCHANGED vars
    <3>1. UNCHANGED <<box, names, pastBox, pastNames, moves, cfg, content, ttl, now, saves,
                      req, applied, acked, crossed>>
      BY <2>6 DEF vars, mailboxVars, cacheVars, history
    <3>. QED  BY <3>1 DEF Inv, TypeOK, MailboxTypeOK, HistoryInv, LiveInv,
                          ContentBounded, AckInv, FreshInv, Count
  <2>. QED  BY <2>1, <2>2, <2>3, <2>4, <2>5, <2>6 DEF Next
<1>. QED  BY <1>1, InitInv, PTL DEF Spec

\* Every value of the cache, of a call and of its answer is of its type.
THEOREM TypeCorrectness == Spec => []TypeOK
BY Invariance, PTL DEF Inv

\* _trim_content: at most max_messages contents, and none twice, whichever
\* puts, hits and reconfigurations cross.
THEOREM Bounded == Spec => []ContentBounded
BY Invariance, PTL DEF Inv

\* _invalidate_on_mutation: once a mutation has been answered, no metadata
\* and no search from before it is given out, unless a put was overtaken.
THEOREM UpToDate == Spec => []OutOfDateOnlyIfCrossed
<1>1. Inv => OutOfDateOnlyIfCrossed
  <2>. SUFFICES ASSUME Inv, NEW c \in Client, OutOfDate(c), ~crossed
                PROVE  FALSE
    BY DEF OutOfDateOnlyIfCrossed
  <2>1. req[c].pc \in Late
    BY DEF OutOfDate, Late
  <2>2. PICK m \in Message : Bears(req[c].ask, m) /\ req[c].asOf[m] < req[c].since[m]
    BY <2>1, CallFacts DEF OutOfDate, Bears
  <2>3. req[c].since[m] <= req[c].asOf[m]
    BY <2>1, <2>2, CallFacts DEF Timely
  <2>. QED  BY <2>2, <2>3, CallFacts
<1>. QED  BY <1>1, Invariance, PTL

----------------------------------------------------------------------------
\* The refinement: what B takes for asked and reply.

Asked == [c \in Client |-> req[c].ask]

AnswerOf(call) ==
  IF call.pc \in Late THEN [value |-> call.value, cached |-> call.cached] ELSE None

Replied == [c \in Client |-> AnswerOf(req[c])]

\* The mailbox is the same on both sides.
LEMMA SameMailbox ==
  /\ B!MailboxInit <=> MailboxInit
  /\ B!mailboxVars = mailboxVars
  /\ B!Owner <=> Owner
  /\ \A m, add, remove : B!ModifyLabels(m, add, remove) <=> ModifyLabels(m, add, remove)
  /\ \A m : B!TrashMessage(m) <=> TrashMessage(m)
<1>1. B!Remember <=> Remember
  BY DEF Remember, B!Remember
<1>2. B!MailboxInit <=> MailboxInit
  BY DEF MailboxInit, B!MailboxInit
<1>3. B!mailboxVars = mailboxVars
  BY DEF mailboxVars, B!mailboxVars
<1>4. B!Owner <=> Owner
  BY <1>1 DEF Owner, OwnerRelabels, OwnerNames, OwnerDeletes, Moved,
              B!Owner, B!OwnerRelabels, B!OwnerNames, B!OwnerDeletes, B!Moved
<1>5. ASSUME NEW m, NEW add, NEW remove
      PROVE  B!ModifyLabels(m, add, remove) <=> ModifyLabels(m, add, remove)
  BY <1>1 DEF ModifyLabels, B!ModifyLabels, Relabel, B!Relabel
<1>6. ASSUME NEW m PROVE B!TrashMessage(m) <=> TrashMessage(m)
  BY <1>1 DEF TrashMessage, B!TrashMessage, Trashed, B!Trashed
<1>. QED  BY <1>2, <1>3, <1>4, <1>5, <1>6

LEMMA SameAnswers ==
  ASSUME NEW r
  PROVE  B!Answers(r) = CASE r.op = "metadata" -> MetadataReads(r.msg, r.fresh)
                          [] r.op = "content"  -> ContentReads(r.msg, r.fresh)
                          [] r.op = "listing"  -> ListingReads(r.fresh)
                          [] r.op = "search"   -> SearchReads(r.fresh)
                          [] r.op = "thread"   -> Live(box)
BY DEF B!Answers, B!MetadataReads, B!ContentReads, B!ListingReads, B!SearchReads,
       B!Live, B!Remembered, MetadataReads, ContentReads, ListingReads, SearchReads,
       Live, Remembered

\* The mutations a request of each kind makes.
LEMMA SameEffect ==
  ASSUME NEW r, Reaches(r)
  PROVE  B!Effect(r)
BY SameMailbox DEF B!Effect, Reaches

\* A step of one call, as B sees it.
LEMMA Mapped ==
  ASSUME TypeOK, NEW c \in Client, NEW x \in Frame(c), Step(c, x)
  PROVE  /\ Asked' = [Asked EXCEPT ![c] = x.ask]
         /\ Replied' = [Replied EXCEPT ![c] = AnswerOf(x)]
         /\ Asked[c] = req[c].ask /\ Replied[c] = AnswerOf(req[c])
<1>1. req'[c] = x /\ \A d \in Client : d # c => req'[d] = req[d]
  BY Stepping DEF Others
<1>. QED  BY <1>1 DEF Asked, Replied

\* ...which is nothing, when neither the request nor the answer changes.
LEMMA Unseen ==
  ASSUME TypeOK, NEW c \in Client, NEW x \in Frame(c), Step(c, x),
         x.ask = req[c].ask, AnswerOf(x) = AnswerOf(req[c])
  PROVE  Asked' = Asked /\ Replied' = Replied
<1>1. req'[c] = x /\ \A d \in Client : d # c => req'[d] = req[d]
  BY Stepping DEF Others
<1>. QED  BY <1>1 DEF Asked, Replied

\* An answer is a record, and never None.
LEMMA AnswerIsReply ==
  ASSUME NEW c \in Client, NEW r \in Requests[c], NEW x \in Answered(r)
  PROVE  /\ AnswerOf(x) = [value |-> x.value, cached |-> x.cached]
         /\ AnswerOf(x) # None
<1>1. /\ x.pc \in Late /\ x.value \in Values(r.op) /\ x.cached \in BOOLEAN
  BY DEF Answered
<1>2. x.value \in (SUBSET Label) \cup Listing \cup (SUBSET Message)
                   \cup [Message -> SUBSET Label]
  <2>1. CASE r.op \in {"listing", "search", "thread"}
    BY <1>1, <2>1 DEF Values
  <2>2. CASE r.op \notin {"listing", "search", "thread"}
    <3>1. Values(r.op) = SUBSET Label
      BY <2>2 DEF Values
    <3>. QED  BY <1>1, <3>1
  <2>. QED  BY <2>1, <2>2
<1>3. [value |-> x.value, cached |-> x.cached] \in B!Reply
  BY <1>1, <1>2, SameLabels DEF B!Reply
<1>. QED  BY <1>1, <1>3, RequestFacts DEF AnswerOf

Stutter == mailboxVars' = mailboxVars /\ Asked' = Asked /\ Replied' = Replied

LEMMA StutterIsStutter ==
  ASSUME Stutter
  PROVE  UNCHANGED B!backendVars
BY DEF Stutter, B!backendVars, B!mailboxVars, mailboxVars, Asked, Replied, AnswerOf

LEMMA AskMaps ==
  ASSUME Inv, NEW c \in Client, Ask(c)
  PROVE  B!Ask(c)
<1>1. req[c].pc = "idle" /\ mailboxVars' = mailboxVars
  BY DEF Ask
<1>2. PICK r \in Requests[c] :
        Step(c, [Ready EXCEPT !.pc = IF r.op \in CachedOp \cup {"content"}
                                     THEN "lookup" ELSE "call",
                              !.ask = r, !.since = acked])
  BY DEF Ask
<1>. DEFINE x == [Ready EXCEPT !.pc = IF r.op \in CachedOp \cup {"content"}
                                      THEN "lookup" ELSE "call",
                               !.ask = r, !.since = acked]
<1>3. x \in Asking(r) /\ x.pc \in Early /\ x.ask = r /\ Step(c, x)
  BY <1>2, NowFacts, ZeroIsCount DEF Ready, Asking, Early
<1>4. x \in Frame(c)
  BY <1>3 DEF Frame
<1>. HIDE DEF x
<1>5. Asked' = [Asked EXCEPT ![c] = r] /\ Replied' = [Replied EXCEPT ![c] = None]
      /\ Asked[c] = None /\ Replied[c] = None
  <2>1. req[c] = Ready
    BY <1>1, FrameOf DEF Inv
  <2>2. AnswerOf(x) = None /\ AnswerOf(Ready) = None
    BY <1>3, ReadyFields DEF AnswerOf, Early, Late
  <2>. QED  BY <1>3, <1>4, <2>1, <2>2, Mapped, ReadyFields DEF Inv
<1>6. Replied' = Replied
  BY <1>5 DEF Replied
<1>. QED  BY <1>1, <1>5, <1>6
          DEF B!Ask, Asked, Replied, AnswerOf, B!mailboxVars, mailboxVars

\* A call that has its answer gives it to B.
LEMMA Answering ==
  ASSUME Inv, NEW c \in Client, req[c].pc \in Early,
         NEW x \in Answered(req[c].ask), Step(c, x)
  PROVE  /\ Asked' = Asked
         /\ Replied' = [Replied EXCEPT ![c] = [value |-> x.value, cached |-> x.cached]]
         /\ Asked[c] = req[c].ask /\ Asked[c] # None /\ Replied[c] = None
<1>. DEFINE r == req[c].ask
<1>1. r \in Requests[c] /\ r # None
  BY CallFacts
<1>2. x \in Frame(c) /\ x.ask = r
  BY <1>1 DEF Frame, Answered
<1>3. AnswerOf(x) = [value |-> x.value, cached |-> x.cached]
  BY <1>1, AnswerIsReply
<1>4. AnswerOf(req[c]) = None
  BY DEF AnswerOf, Early, Late
<1>5. /\ Asked' = [Asked EXCEPT ![c] = r] /\ Asked[c] = r
      /\ Replied' = [Replied EXCEPT ![c] = AnswerOf(x)] /\ Replied[c] = None
  BY <1>2, <1>4, Mapped DEF Inv
<1>6. Asked' = Asked
  BY <1>5 DEF Asked
<1>. QED  BY <1>1, <1>3, <1>5, <1>6

\* A read is answered with one of the answers B allows.
LEMMA ReadMaps ==
  ASSUME Inv, NEW c \in Client, req[c].pc \in Early, req[c].ask.op \in B!ReadOp,
         NEW x \in Answered(req[c].ask), Step(c, x), mailboxVars' = mailboxVars,
         [value |-> x.value, cached |-> x.cached] \in B!Answers(req[c].ask)
  PROVE  B!AnswerRead(c)
<1>1. /\ Asked' = Asked
      /\ Replied' = [Replied EXCEPT ![c] = [value |-> x.value, cached |-> x.cached]]
      /\ Asked[c] = req[c].ask /\ Asked[c] # None /\ Replied[c] = None
  BY Answering
<1>2. \E a \in B!Answers(Asked[c]) : Replied' = [Replied EXCEPT ![c] = a]
  BY <1>1
<1>. QED  BY <1>1, <1>2
          DEF B!AnswerRead, Asked, Replied, AnswerOf, B!mailboxVars, mailboxVars

LEMMA TtlHitMaps ==
  ASSUME Inv, NEW c \in Client, TtlHit(c)
  PROVE  B!AnswerRead(c)
<1>. DEFINE r == req[c].ask
            x == [req[c] EXCEPT !.pc = "done", !.value = Entry(r).value,
                                !.cached = TRUE, !.asOf = Entry(r).asOf]
<1>1. /\ req[c].pc = "lookup" /\ r.op \in CachedOp /\ Step(c, x) /\ mailboxVars' = mailboxVars
      /\ cfg.ttl[r.op] > 0 /\ ~r.fresh /\ Entry(r) # None
  BY DEF TtlHit, Current, Usable
<1>2. req[c] \in Asking(r) /\ r \in B!Request
  BY <1>1, CallFacts DEF Early
<1>3. /\ Entry(r).value \in Values(r.op) /\ Entry(r).asOf \in Count
      /\ WasLive(r, Entry(r).value, pastBox, pastNames)
  BY <1>1, <1>2, EntryFacts
<1>4. x \in Answered(r) /\ x.value = Entry(r).value /\ x.cached = TRUE
  BY <1>2, <1>3 DEF Asking, Answered, Late
<1>. HIDE DEF x
<1>5. [value |-> x.value, cached |-> x.cached] \in B!Answers(r)
  <2>1. CASE r.op = "metadata"
    <3>1. MetadataCached /\ x.value \in pastBox[r.msg]
      BY <1>1, <1>3, <1>4, <2>1, NowFacts, ConfigFacts DEF WasLive
    <3>2. B!Answers(r) = MetadataReads(r.msg, r.fresh)
      BY <2>1, SameAnswers
    <3>. QED  BY <1>1, <1>4, <3>1, <3>2 DEF MetadataReads, Remembered
  <2>2. CASE r.op = "listing"
    <3>1. ListingCached /\ x.value \in pastNames
      BY <1>1, <1>3, <1>4, <2>2, NowFacts, ConfigFacts DEF WasLive
    <3>2. B!Answers(r) = ListingReads(r.fresh)
      BY <2>2, SameAnswers
    <3>. QED  BY <1>1, <1>4, <3>1, <3>2 DEF ListingReads, Remembered
  <2>3. CASE r.op = "search"
    <3>1. SearchCached /\ x.value \in SUBSET Message
      BY <1>1, <1>3, <1>4, <2>3, NowFacts, ConfigFacts DEF Values
    <3>2. B!Answers(r) = SearchReads(r.fresh)
      BY <2>3, SameAnswers
    <3>. QED  BY <1>1, <1>4, <3>1, <3>2 DEF SearchReads
  <2>. QED  BY <1>1, <2>1, <2>2, <2>3 DEF CachedOp
<1>6. req[c].pc \in Early /\ r.op \in B!ReadOp
  BY <1>1 DEF Early, CachedOp, B!ReadOp
<1>. QED  BY <1>1, <1>4, <1>5, <1>6, ReadMaps

LEMMA ContentHitMaps ==
  ASSUME Inv, NEW c \in Client, ContentHit(c)
  PROVE  B!AnswerRead(c)
<1>. DEFINE r == req[c].ask
            x(i) == [req[c] EXCEPT !.pc = "done", !.value = content[i].labels,
                                   !.cached = TRUE]
<1>1. /\ req[c].pc = "lookup" /\ r.op = "content" /\ mailboxVars' = mailboxVars
      /\ cfg.enabled /\ ~r.fresh
  BY DEF ContentHit, ContentOn
<1>2. PICK i \in Places(r.msg) : Step(c, x(i))
  BY DEF ContentHit
<1>3. /\ content[i].labels \in SUBSET Label /\ content[i].labels \in pastBox[r.msg]
      /\ ContentCached
  BY <1>1, NowFacts, ConfigFacts DEF Places, Kept
<1>4. x(i) \in Answered(r) /\ x(i).value = content[i].labels /\ x(i).cached = TRUE
  <2>1. req[c] \in Asking(r)
    BY <1>1, CallFacts DEF Early
  <2>2. Values(r.op) = SUBSET Label
    BY <1>1 DEF Values
  <2>. QED  BY <1>1, <1>3, <2>1, <2>2, ZeroIsCount DEF Asking, Answered, Late
<1>. HIDE DEF x
<1>5. [value |-> x(i).value, cached |-> x(i).cached] \in B!Answers(r)
  <2>1. B!Answers(r) = ContentReads(r.msg, r.fresh)
    BY <1>1, SameAnswers
  <2>. QED  BY <1>1, <1>3, <1>4, <2>1 DEF ContentReads, Remembered
<1>6. req[c].pc \in Early /\ r.op \in B!ReadOp
  BY <1>1 DEF Early, B!ReadOp
<1>. QED  BY <1>1, <1>2, <1>4, <1>5, <1>6, ReadMaps

LEMMA FetchMaps ==
  ASSUME Inv, NEW c \in Client, Fetch(c)
  PROVE  B!AnswerRead(c)
<1>. DEFINE r == req[c].ask
            x(v, members) == [req[c] EXCEPT !.pc = "put", !.value = v, !.asOf = applied,
                                            !.todo = members]
<1>1. req[c].pc = "call" /\ r.op \in B!ReadOp /\ mailboxVars' = mailboxVars
  BY DEF Fetch
<1>2. PICK v \in Fetched(r), members \in SUBSET Message :
        (members = {r.msg} \/ r.op = "thread") /\ Step(c, x(v, members))
  BY DEF Fetch
<1>3. req[c] \in Asking(r) /\ r \in B!Request /\ r.msg \in Message
  BY <1>1, CallFacts DEF Early
<1>4. v \in Values(r.op)
  <2>1. /\ box \in [Message -> SUBSET Label] /\ names \in Listing
        /\ Found \subseteq SUBSET Message
    BY CacheAssumption DEF Inv, TypeOK, MailboxTypeOK
  <2>. QED  BY <1>1, <1>3, <2>1 DEF Fetched, Values, B!ReadOp
<1>5. /\ x(v, members) \in Answered(r)
      /\ x(v, members).value = v /\ x(v, members).cached = FALSE
  BY <1>2, <1>3, <1>4, NowFacts DEF Asking, Answered, Late
<1>. HIDE DEF x
<1>6. [value |-> v, cached |-> FALSE] \in B!Answers(r)
  <2>1. CASE r.op \in {"metadata", "content"}
    <3>1. B!Answers(r) \in {MetadataReads(r.msg, r.fresh), ContentReads(r.msg, r.fresh)}
      BY <2>1, SameAnswers
    <3>2. v = box[r.msg]
      BY <2>1 DEF Fetched
    <3>. QED  BY <3>1, <3>2 DEF MetadataReads, ContentReads, Live
  <2>2. CASE r.op = "listing"
    <3>1. B!Answers(r) = ListingReads(r.fresh)
      BY <2>2, SameAnswers
    <3>2. v = names
      BY <2>2 DEF Fetched
    <3>. QED  BY <3>1, <3>2 DEF ListingReads, Live
  <2>3. CASE r.op = "search"
    <3>1. B!Answers(r) = SearchReads(r.fresh)
      BY <2>3, SameAnswers
    <3>2. v \in SUBSET Message
      BY <1>4, <2>3 DEF Values
    <3>. QED  BY <3>1, <3>2 DEF SearchReads
  <2>4. CASE r.op = "thread"
    <3>1. B!Answers(r) = Live(box)
      BY <2>4, SameAnswers
    <3>2. v = box
      BY <2>4 DEF Fetched
    <3>. QED  BY <3>1, <3>2 DEF Live
  <2>. QED  BY <1>1, <2>1, <2>2, <2>3, <2>4 DEF B!ReadOp
<1>. QED  BY <1>1, <1>2, <1>5, <1>6, ReadMaps DEF Early

LEMMA MutateMaps ==
  ASSUME Inv, NEW c \in Client, Mutate(c)
  PROVE  B!AnswerWrite(c)
<1>. DEFINE r == req[c].ask
            x == [req[c] EXCEPT !.pc = "invalidate", !.value = box'[r.msg], !.asOf = applied']
<1>1. req[c].pc = "call" /\ r.op \in B!WriteOp /\ Reaches(r) /\ Step(c, x)
  BY DEF Mutate
<1>2. req[c] \in Asking(r) /\ r \in B!Request
  BY <1>1, CallFacts DEF Early
<1>3. x \in Answered(r) /\ x.value = box'[r.msg] /\ x.cached = FALSE
  <2>1. Values(r.op) = SUBSET Label
    BY <1>1 DEF Values, B!WriteOp
  <2>2. applied' \in Count /\ box'[r.msg] \in SUBSET Label
    BY <1>1, <1>2, ReachesFacts
  <2>. QED  BY <1>2, <2>1, <2>2 DEF Asking, Answered, Late
<1>. HIDE DEF x
<1>4. /\ Asked' = Asked
      /\ Replied' = [Replied EXCEPT ![c] = [value |-> box'[r.msg], cached |-> FALSE]]
      /\ Asked[c] = r /\ Asked[c] # None /\ Replied[c] = None
  BY <1>1, <1>3, Answering DEF Early
<1>5. B!Effect(Asked[c])
  BY <1>1, <1>4, SameEffect
<1>6. /\ Asked[c].op \in B!WriteOp
      /\ Replied' = [Replied EXCEPT ![c] = [value |-> box'[Asked[c].msg], cached |-> FALSE]]
  BY <1>1, <1>4
<1>. QED  BY <1>4, <1>5, <1>6 DEF B!AnswerWrite, Asked, Replied, AnswerOf

\* A call that is over, answered or not.
LEMMA Ending ==
  ASSUME Inv, NEW c \in Client, Step(c, Ready)
  PROVE  /\ Asked' = [Asked EXCEPT ![c] = None]
         /\ Replied' = [Replied EXCEPT ![c] = None]
         /\ Asked[c] = req[c].ask /\ Replied[c] = AnswerOf(req[c])
<1>1. AnswerOf(Ready) = None
  BY ReadyFields DEF AnswerOf
<1>. QED  BY <1>1, ReadyStep, ReadyFields, Mapped DEF Inv

LEMMA FailMaps ==
  ASSUME Inv, NEW c \in Client, CallFails(c) \/ MutateUnanswered(c)
  PROVE  B!Fail(c)
<1>. DEFINE r == req[c].ask
<1>1. /\ req[c].pc = "call" /\ Step(c, Ready)
      /\ mailboxVars' = mailboxVars \/ (r.op \in B!WriteOp /\ Reaches(r))
  BY DEF CallFails, MutateUnanswered
<1>2. /\ Asked' = [Asked EXCEPT ![c] = None] /\ Replied' = [Replied EXCEPT ![c] = None]
      /\ Asked[c] = r /\ Asked[c] # None /\ Replied[c] = None
  BY <1>1, Ending, CallFacts DEF AnswerOf, Early, Late
<1>3. Replied' = Replied
  BY <1>2 DEF Replied
<1>4. \/ mailboxVars' = mailboxVars
      \/ Asked[c].op \in B!WriteOp /\ B!Effect(Asked[c])
  BY <1>1, <1>2, SameEffect
<1>. QED  BY <1>2, <1>3, <1>4
          DEF B!Fail, Asked, Replied, AnswerOf, B!mailboxVars, mailboxVars

LEMMA ReturnMaps ==
  ASSUME Inv, NEW c \in Client, Return(c)
  PROVE  B!Return(c)
<1>1. req[c].pc = "done" /\ Step(c, Ready) /\ mailboxVars' = mailboxVars
  BY DEF Return
<1>2. AnswerOf(req[c]) # None
  BY <1>1, CallFacts, AnswerIsReply DEF Late
<1>3. /\ Asked' = [Asked EXCEPT ![c] = None] /\ Replied' = [Replied EXCEPT ![c] = None]
      /\ Replied[c] # None
  BY <1>1, <1>2, Ending
<1>. QED  BY <1>1, <1>3 DEF B!Return, Asked, Replied, AnswerOf, B!mailboxVars, mailboxVars

\* What a call does besides, B does not see.
LEMMA OnwardIsStutter ==
  ASSUME Inv, NEW c \in Client, NEW x, NEW pc, Onward(c, x, pc), Step(c, x),
         mailboxVars' = mailboxVars
  PROVE  Stutter
<1>1. x \in Frame(c) /\ x.pc = pc /\ x.ask = req[c].ask
  BY OnwardCall
<1>2. AnswerOf(x) = AnswerOf(req[c])
  <2>1. CASE req[c].pc \in Early /\ pc \in Early
    BY <1>1, <2>1 DEF AnswerOf, Early, Late
  <2>2. CASE req[c].pc \in Late /\ pc \in Late
    <3>1. req[c] \in Answered(req[c].ask)
      BY <2>2, CallFacts
    <3>2. x.value = req[c].value /\ x.cached = req[c].cached
      BY <2>2, <3>1 DEF Onward, Answered, Early, Late
    <3>. QED  BY <1>1, <2>2, <3>2 DEF AnswerOf
  <2>. QED  BY <2>1, <2>2 DEF Onward
<1>. QED  BY <1>1, <1>2, Unseen DEF Inv, Stutter

LEMMA InnerStutters ==
  ASSUME Inv, NEW c \in Client,
         TtlMiss(c) \/ ContentMiss(c) \/ TtlPut(c) \/ Admit(c) \/ Store(c) \/ Invalidate(c)
  PROVE  Stutter
<1>1. CASE TtlMiss(c) \/ ContentMiss(c)
  <2>1. /\ req[c].pc = "lookup" /\ mailboxVars' = mailboxVars
        /\ Step(c, [req[c] EXCEPT !.pc = "call"])
    BY <1>1 DEF TtlMiss, ContentMiss
  <2>2. Onward(c, [req[c] EXCEPT !.pc = "call"], "call")
    BY <2>1 DEF Onward, Early
  <2>. QED  BY <2>1, <2>2, OnwardIsStutter
<1>2. CASE TtlPut(c) \/ Invalidate(c)
  <2>1. /\ req[c].pc \in {"put", "invalidate"} /\ mailboxVars' = mailboxVars
        /\ Step(c, [req[c] EXCEPT !.pc = "done"])
    BY <1>2 DEF TtlPut, Invalidate
  <2>2. Onward(c, [req[c] EXCEPT !.pc = "done"], "done")
    BY <2>1 DEF Onward, Late
  <2>. QED  BY <2>1, <2>2, OnwardIsStutter
<1>3. CASE Admit(c)
  <2>1. req[c].pc = "put" /\ mailboxVars' = mailboxVars
    BY <1>3 DEF Admit
  <2>2. CASE Step(c, [req[c] EXCEPT !.pc = "done"])
    <3>1. Onward(c, [req[c] EXCEPT !.pc = "done"], "done")
      BY <2>1 DEF Onward, Late
    <3>. QED  BY <2>1, <2>2, <3>1, OnwardIsStutter
  <2>3. CASE Step(c, [req[c] EXCEPT !.pc = "store"])
    <3>1. Onward(c, [req[c] EXCEPT !.pc = "store"], "store")
      BY <2>1 DEF Onward, Late
    <3>. QED  BY <2>1, <2>3, <3>1, OnwardIsStutter
  <2>4. CASE \E m \in req[c].todo : Step(c, [req[c] EXCEPT !.todo = @ \ {m}])
    <3>1. PICK m \in req[c].todo : Step(c, [req[c] EXCEPT !.todo = req[c].todo \ {m}])
      BY <2>4
    <3>2. Onward(c, [req[c] EXCEPT !.todo = req[c].todo \ {m}], "put")
      <4>1. req[c].todo \ {m} \in SUBSET req[c].todo
        OBVIOUS
      <4>. QED  BY <2>1, <4>1 DEF Onward, Late
    <3>. QED  BY <2>1, <3>1, <3>2, OnwardIsStutter
  <2>. QED  BY <1>3, <2>2, <2>3, <2>4 DEF Admit
<1>4. CASE Store(c)
  <2>1. req[c].pc = "store" /\ mailboxVars' = mailboxVars
    BY <1>4 DEF Store
  <2>2. PICK m \in req[c].todo :
          Step(c, [req[c] EXCEPT !.pc = "put", !.todo = req[c].todo \ {m}])
    BY <1>4 DEF Store
  <2>3. Onward(c, [req[c] EXCEPT !.pc = "put", !.todo = req[c].todo \ {m}], "put")
    <3>1. req[c].todo \ {m} \in SUBSET req[c].todo
      OBVIOUS
    <3>. QED  BY <2>1, <3>1 DEF Onward, Late
  <2>. QED  BY <2>1, <2>2, <2>3, OnwardIsStutter
<1>. QED  BY <1>1, <1>2, <1>3, <1>4

\* The operator and the clock never touch a call.
LEMMA AloneStutters ==
  ASSUME Reconfigure \/ Clear \/ Tick
  PROVE  Stutter
<1>1. req' = req /\ mailboxVars' = mailboxVars
  BY DEF Reconfigure, Clear, Tick
<1>. QED  BY <1>1 DEF Stutter, Asked, Replied

LEMMA OwnerMaps ==
  ASSUME OwnerStep
  PROVE  B!Owner /\ UNCHANGED <<Asked, Replied>>
BY SameMailbox DEF OwnerStep, Asked, Replied

\* Every answer was live at an instant of its call, or is marked as cached,
\* was live once and was not asked for with fresh=true: what ToolCalls.tla
\* takes a call of the backend for, cache.py provides.
THEOREM Implements == Spec => Contract
<1>1. Init => B!Init
  <2>. SUFFICES ASSUME Init PROVE B!Init
    OBVIOUS
  <2>1. B!MailboxInit
    BY SameMailbox DEF Init
  <2>2. Asked = [c \in Client |-> None] /\ Replied = [c \in Client |-> None]
    <3>1. \A c \in Client : req[c] = Ready
      BY DEF Init
    <3>. QED  BY <3>1, ReadyFields DEF Asked, Replied, AnswerOf
  <2>. QED  BY <2>1, <2>2 DEF B!Init, Asked, Replied, AnswerOf
<1>2. Inv /\ [Next]_vars => [B!Next]_(B!backendVars)
  <2>. SUFFICES ASSUME Inv, [Next]_vars
                PROVE  B!Next \/ UNCHANGED B!backendVars
    OBVIOUS
  <2>1. ASSUME NEW c \in Client,
               \/ Ask(c) \/ TtlHit(c) \/ TtlMiss(c) \/ TtlPut(c)
               \/ ContentHit(c) \/ ContentMiss(c) \/ Admit(c) \/ Store(c)
               \/ Fetch(c) \/ CallFails(c) \/ Mutate(c) \/ MutateUnanswered(c)
               \/ Invalidate(c) \/ Return(c)
        PROVE  \/ \E d \in Client : B!Ask(d) \/ B!AnswerRead(d) \/ B!AnswerWrite(d)
                                    \/ B!Fail(d) \/ B!Return(d)
               \/ Stutter
    BY <2>1, AskMaps, TtlHitMaps, ContentHitMaps, FetchMaps, MutateMaps, FailMaps,
       ReturnMaps, InnerStutters
  <2>2. CASE Reconfigure \/ Clear \/ Tick
    BY <2>2, AloneStutters, StutterIsStutter
  <2>3. CASE OwnerStep
    <3>1. B!Owner /\ Asked' = Asked /\ Replied' = Replied
      BY <2>3, OwnerMaps
    <3>. QED  BY <3>1 DEF B!Next, Asked, Replied, AnswerOf
  <2>4. CASE UNCHANGED vars
    <3>1. Stutter
      BY <2>4 DEF vars, Stutter, Asked, Replied
    <3>. QED  BY <3>1, StutterIsStutter
  <2>5. CASE \E c \in Client :
               \/ Ask(c) \/ TtlHit(c) \/ TtlMiss(c) \/ TtlPut(c)
               \/ ContentHit(c) \/ ContentMiss(c) \/ Admit(c) \/ Store(c)
               \/ Fetch(c) \/ CallFails(c) \/ Mutate(c) \/ MutateUnanswered(c)
               \/ Invalidate(c) \/ Return(c)
    BY <2>1, <2>5, StutterIsStutter DEF B!Next
  <2>. QED  BY <2>2, <2>3, <2>4, <2>5 DEF Next
<1>. QED  BY <1>1, <1>2, Invariance, PTL DEF Spec, Contract, B!Spec

=============================================================================
