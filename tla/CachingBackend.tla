--------------------------- MODULE CachingBackend ---------------------------
(***************************************************************************)
(* CachingGmailBackend of cache.py: an LRU of message contents and caches  *)
(* with a time to live for metadata, search results and the label listing, *)
(* in front of the Gmail API.  The MCP endpoint and the admin UI call one  *)
(* object, the admin's synchronous handlers from a pool of threads.  A     *)
(* section under _lock is one step; the lookup, the API call and the put   *)
(* of one read are separate steps.                                         *)
(*                                                                         *)
(* The profile cache (its value changes only with the account) and the     *)
(* counters of stats() are left out.                                       *)
(***************************************************************************)
EXTENDS Mailbox, SequencesExt

CONSTANTS
  Client,     \* threads that call the backend
  Query,      \* search queries, with page size and page token
  Requests,   \* BOUND: what each client asks for
  None,       \* no request, no entry
  Configs,    \* BOUND: the cache configurations the operator saves
  Found,      \* BOUND: what a search may find
  MaxTime,    \* BOUND: seconds that pass
  MaxWrites,  \* BOUND: mutations that reach Gmail
  MaxChanges  \* BOUND: changes by the owner and the operator together

CachedOp == {"metadata", "listing", "search"}

\* CacheConfig: the content cache, and seconds to live for each other read.
Config == [enabled : BOOLEAN, maxMessages : Nat, ttl : [CachedOp -> Nat]]

\* The keys of the caches with a time to live: message id, query, or "_".
Key == ({"metadata"} \X Message) \cup ({"search"} \X Query) \cup {<<"listing", "_">>}

KeyOf(r) == CASE r.op = "metadata" -> <<"metadata", r.msg>>
              [] r.op = "search"   -> <<"search", r.query>>
              [] r.op = "listing"  -> <<"listing", "_">>

VARIABLES
  cfg,     \* self.cfg
  content, \* self._content: least recently used first
  ttl,     \* self._ttl
  now,     \* time.monotonic()
  saves,   \* configurations saved so far
  req,     \* the call each client is in
  applied, \* history: mutations of each message that reached Gmail
  acked,   \* history: the last of them whose caller has its answer
  crossed  \* history: a value was put that a mutation had overtaken

cacheVars == <<cfg, content, ttl, now, saves>>
history   == <<applied, acked, crossed>>
vars      == <<mailboxVars, cacheVars, req, history>>

Zero == [m \in Message |-> 0]

\* Ahead of the answer, and after it.
Early == {"lookup", "call"}
Late  == {"put", "store", "invalidate", "done"}

\* value, cached: the answer.  todo: fetched messages still to be put.
\* since, asOf: history, what was acked at the beginning and what had been
\* applied when the value was fetched.
Ready == [pc |-> "idle", ask |-> None, value |-> None, cached |-> FALSE,
          todo |-> {}, since |-> Zero, asOf |-> Zero]

\* The contract with the tool layer: a call has taken effect, and has its
\* answer, once its lookup hit or its API call returned.
B == INSTANCE Backend WITH
       asked <- [c \in Client |-> req[c].ask],
       reply <- [c \in Client |->
                   IF req[c].pc \in Late
                   THEN [value |-> req[c].value, cached |-> req[c].cached]
                   ELSE None]

ASSUME CacheAssumption ==
  /\ Requests \in [Client -> SUBSET B!Request]
  /\ None \notin B!Request \cup B!Reply
  /\ Configs \subseteq Config
  /\ Found \subseteq SUBSET Message
  /\ MaxTime \in Nat
  /\ MaxWrites \in Nat
  /\ MaxChanges \in Nat
  /\ \A f \in Configs :
       /\ f.ttl["metadata"] > 0 => MetadataCached
       /\ f.ttl["listing"] > 0  => ListingCached
       /\ f.ttl["search"] > 0   => SearchCached
       /\ f.enabled             => ContentCached

Init ==
  /\ MailboxInit
  /\ cfg \in Configs
  /\ content = <<>>
  /\ ttl = [k \in Key |-> None]
  /\ now = 0
  /\ saves = 0
  /\ req = [c \in Client |-> Ready]
  /\ applied = Zero
  /\ acked = Zero
  /\ crossed = FALSE

Step(c, r) == req' = [req EXCEPT ![c] = r]

----------------------------------------------------------------------------
\* A call begins with a lookup, unless nothing is cached for it.
Ask(c) ==
  /\ req[c].pc = "idle"
  /\ \E r \in Requests[c] :
       Step(c, [Ready EXCEPT !.pc = IF r.op \in CachedOp \cup {"content"}
                                    THEN "lookup" ELSE "call",
                             !.ask = r, !.since = acked])
  /\ UNCHANGED <<mailboxVars, cacheVars, history>>

----------------------------------------------------------------------------
\* _ttl_get

\* Mutant: fresh=true is forgotten.
UsableAlways(r) == cfg.ttl[r.op] > 0

Usable(r)  == cfg.ttl[r.op] > 0 /\ ~r.fresh
Entry(r)   == ttl[KeyOf(r)]
Current(r) == Usable(r) /\ Entry(r) # None /\ Entry(r).expires > now

TtlHit(c) ==
  LET r == req[c].ask IN
  /\ req[c].pc = "lookup"
  /\ r.op \in CachedOp
  /\ Current(r)
  /\ Step(c, [req[c] EXCEPT !.pc = "done", !.value = Entry(r).value,
                            !.cached = TRUE, !.asOf = Entry(r).asOf])
  /\ UNCHANGED <<mailboxVars, cacheVars, history>>

\* Mutant: the reply is marked ahead of looking at the expiry.
TtlMissMarks(c) ==
  LET r == req[c].ask IN
  /\ req[c].pc = "lookup"
  /\ r.op \in CachedOp
  /\ ~Current(r)
  /\ ttl' = IF Usable(r) THEN [ttl EXCEPT ![KeyOf(r)] = None] ELSE ttl
  /\ Step(c, [req[c] EXCEPT !.pc = "call", !.cached = Entry(r) # None])
  /\ UNCHANGED <<mailboxVars, cfg, content, now, saves, history>>

\* An expired entry is dropped.
TtlMiss(c) ==
  LET r == req[c].ask IN
  /\ req[c].pc = "lookup"
  /\ r.op \in CachedOp
  /\ ~Current(r)
  /\ ttl' = IF Usable(r) THEN [ttl EXCEPT ![KeyOf(r)] = None] ELSE ttl
  /\ Step(c, [req[c] EXCEPT !.pc = "call"])
  /\ UNCHANGED <<mailboxVars, cfg, content, now, saves, history>>

\* A mutation that bears on the value reached Gmail after it was fetched.
Overtaken(r) ==
  CASE r.ask.op = "metadata" -> r.asOf[r.ask.msg] # applied[r.ask.msg]
    [] r.ask.op = "search"   -> r.asOf # applied
    [] r.ask.op = "listing"  -> FALSE

\* _ttl_put: the entry lives from now, whenever its value was fetched.
TtlPut(c) ==
  LET r == req[c].ask IN
  /\ req[c].pc = "put"
  /\ r.op \in CachedOp
  /\ IF cfg.ttl[r.op] > 0
     THEN /\ ttl' = [ttl EXCEPT ![KeyOf(r)] =
                       [expires |-> now + cfg.ttl[r.op],
                        value |-> req[c].value, asOf |-> req[c].asOf]]
          /\ crossed' = (crossed \/ Overtaken(req[c]))
     ELSE UNCHANGED <<ttl, crossed>>
  /\ Step(c, [req[c] EXCEPT !.pc = "done"])
  /\ UNCHANGED <<mailboxVars, cfg, content, now, saves, applied, acked>>

----------------------------------------------------------------------------
\* The content cache.

\* Where message m is kept, and the cache without it.
Places(m)  == {i \in DOMAIN content : content[i].id = m}
Without(m) == IF Places(m) = {} THEN content
              ELSE RemoveAt(content, CHOOSE i \in Places(m) : TRUE)

\* Mutant: one message too many is kept.
TrimLate(s, size) ==
  IF Len(s) <= size + 1 THEN s ELSE SubSeq(s, Len(s) - size, Len(s))

\* _trim_content: the least recently used go first.
Trim(s, size) == IF Len(s) <= size THEN s ELSE SubSeq(s, Len(s) - size + 1, Len(s))

ContentOn == cfg.enabled /\ cfg.maxMessages # 0

\* _content_get: a hit makes the message the most recently used.
ContentHit(c) ==
  LET r == req[c].ask IN
  /\ req[c].pc = "lookup"
  /\ r.op = "content"
  /\ ContentOn /\ ~r.fresh
  /\ \E i \in Places(r.msg) :
       /\ content' = Append(Without(r.msg), content[i])
       /\ Step(c, [req[c] EXCEPT !.pc = "done", !.value = content[i].labels,
                                 !.cached = TRUE])
  /\ UNCHANGED <<mailboxVars, cfg, ttl, now, saves, history>>

ContentMiss(c) ==
  LET r == req[c].ask IN
  /\ req[c].pc = "lookup"
  /\ r.op = "content"
  /\ ~ContentOn \/ r.fresh \/ Places(r.msg) = {}
  /\ Step(c, [req[c] EXCEPT !.pc = "call"])
  /\ UNCHANGED <<mailboxVars, cacheVars, history>>

\* _content_put looks at the configuration ahead of taking the lock...
Admit(c) ==
  /\ req[c].pc = "put"
  /\ req[c].ask.op \in {"content", "thread"}
  /\ IF req[c].todo = {} THEN Step(c, [req[c] EXCEPT !.pc = "done"])
     ELSE IF ContentOn   THEN Step(c, [req[c] EXCEPT !.pc = "store"])
     ELSE \E m \in req[c].todo : Step(c, [req[c] EXCEPT !.todo = @ \ {m}])
  /\ UNCHANGED <<mailboxVars, cacheVars, history>>

\* ...and under the lock puts the message, of a thread one after the other.
Store(c) ==
  /\ req[c].pc = "store"
  /\ \E m \in req[c].todo :
       /\ content' = Trim(Append(Without(m),
                                 [id |-> m,
                                  labels |-> IF req[c].ask.op = "thread"
                                             THEN req[c].value[m] ELSE req[c].value]),
                          cfg.maxMessages)
       /\ Step(c, [req[c] EXCEPT !.pc = "put", !.todo = @ \ {m}])
  /\ UNCHANGED <<mailboxVars, cfg, ttl, now, saves, history>>

----------------------------------------------------------------------------
\* self.inner: the calls of the Gmail API.

\* What a read fetches.
Fetched(r) ==
  CASE r.op \in {"metadata", "content"} -> {box[r.msg]}
    [] r.op = "listing"                 -> {names}
    [] r.op = "search"                  -> Found
    [] r.op = "thread"                  -> {box}

Fetch(c) ==
  LET r == req[c].ask IN
  /\ req[c].pc = "call"
  /\ r.op \in B!ReadOp
  /\ \E v \in Fetched(r), members \in SUBSET Message :
       /\ members = {r.msg} \/ r.op = "thread"
       /\ Step(c, [req[c] EXCEPT !.pc = "put", !.value = v, !.asOf = applied,
                                 !.todo = members])
  /\ UNCHANGED <<mailboxVars, cacheVars, history>>

\* The call raises GmailError, which passes through.
CallFails(c) ==
  /\ req[c].pc = "call"
  /\ Step(c, Ready)
  /\ UNCHANGED <<mailboxVars, cacheVars, history>>

Reaches(r) ==
  /\ applied[r.msg] < MaxWrites
  /\ IF r.op = "modify" THEN ModifyLabels(r.msg, r.add, r.remove)
                        ELSE TrashMessage(r.msg)
  /\ applied' = [applied EXCEPT ![r.msg] = @ + 1]

Mutate(c) ==
  LET r == req[c].ask IN
  /\ req[c].pc = "call"
  /\ r.op \in B!WriteOp
  /\ Reaches(r)
  /\ Step(c, [req[c] EXCEPT !.pc = "invalidate", !.value = box'[r.msg],
                            !.asOf = applied'])
  /\ UNCHANGED <<cacheVars, acked, crossed>>

\* The reply is lost: GmailError, and nothing is invalidated.
MutateUnanswered(c) ==
  LET r == req[c].ask IN
  /\ req[c].pc = "call"
  /\ r.op \in B!WriteOp
  /\ Reaches(r)
  /\ Step(c, Ready)
  /\ UNCHANGED <<cacheVars, acked, crossed>>

\* Mutant: the search results are kept.
InvalidateMessage(c) ==
  LET m == req[c].ask.msg IN
  /\ req[c].pc = "invalidate"
  /\ ttl' = [ttl EXCEPT ![<<"metadata", m>>] = None]
  /\ content' = Without(m)
  /\ Step(c, [req[c] EXCEPT !.pc = "done"])
  /\ UNCHANGED <<mailboxVars, cfg, now, saves, history>>

\* _invalidate_on_mutation
Invalidate(c) ==
  LET m == req[c].ask.msg IN
  /\ req[c].pc = "invalidate"
  /\ ttl' = [k \in Key |-> IF k[1] = "search" \/ k = <<"metadata", m>>
                           THEN None ELSE ttl[k]]
  /\ content' = Without(m)
  /\ Step(c, [req[c] EXCEPT !.pc = "done"])
  /\ UNCHANGED <<mailboxVars, cfg, now, saves, history>>

\* The answer reaches the caller, which knows from now on of its mutation.
Return(c) ==
  LET m == req[c].ask.msg IN
  /\ req[c].pc = "done"
  /\ acked' = IF req[c].ask.op \in B!WriteOp /\ req[c].asOf[m] > acked[m]
              THEN [acked EXCEPT ![m] = req[c].asOf[m]] ELSE acked
  /\ Step(c, Ready)
  /\ UNCHANGED <<mailboxVars, cacheVars, applied, crossed>>

----------------------------------------------------------------------------
\* The operator and the clock.

\* reload_policy hands the backend its new configuration.
Reconfigure ==
  /\ moves + saves < MaxChanges
  /\ saves' = saves + 1
  /\ cfg' \in Configs
  /\ content' = IF cfg'.enabled THEN Trim(content, cfg'.maxMessages) ELSE <<>>
  /\ UNCHANGED <<mailboxVars, ttl, now, req, history>>

\* /cache/clear
Clear ==
  /\ content' = <<>>
  /\ ttl' = [k \in Key |-> None]
  /\ UNCHANGED <<mailboxVars, cfg, now, saves, req, history>>

Tick ==
  /\ now < MaxTime
  /\ now' = now + 1
  /\ UNCHANGED <<mailboxVars, cfg, content, ttl, saves, req, history>>

OwnerStep ==
  /\ moves + saves < MaxChanges
  /\ Owner
  /\ UNCHANGED <<cacheVars, req, history>>

Next ==
  \/ \E c \in Client :
       \/ Ask(c) \/ TtlHit(c) \/ TtlMiss(c) \/ TtlPut(c)
       \/ ContentHit(c) \/ ContentMiss(c) \/ Admit(c) \/ Store(c)
       \/ Fetch(c) \/ CallFails(c) \/ Mutate(c) \/ MutateUnanswered(c)
       \/ Invalidate(c) \/ Return(c)
  \/ Reconfigure \/ Clear \/ Tick \/ OwnerStep

Spec == Init /\ [][Next]_vars

----------------------------------------------------------------------------
\* Types.

Count == [Message -> 0..MaxWrites]

Values(op) ==
  CASE op = "listing" -> Listing
    [] op = "search"  -> SUBSET Message
    [] op = "thread"  -> [Message -> SUBSET Label]
    [] OTHER          -> SUBSET Label

\* A call on the request r before it has its answer, and after.
Asking(r) ==
  [pc : Early, ask : {r}, value : {None}, cached : {FALSE},
   todo : {{}}, since : Count, asOf : {Zero}]
Answered(r) ==
  [pc : Late, ask : {r}, value : Values(r.op), cached : BOOLEAN,
   todo : IF r.op = "thread" THEN SUBSET Message ELSE SUBSET {r.msg},
   since : Count, asOf : Count]

Kept == [id : Message, labels : SUBSET Label]

TypeOK ==
  /\ MailboxTypeOK
  /\ cfg \in Configs
  /\ content \in Seq(Kept)
  /\ DOMAIN ttl = Key
  /\ \A k \in Key : ttl[k] # None =>
       ttl[k] \in [expires : Nat, value : Values(k[1]), asOf : Count]
  /\ now \in 0..MaxTime
  /\ saves \in 0..MaxChanges
  /\ DOMAIN req = Client
  /\ \A c \in Client :
       \/ req[c] = Ready
       \/ \E r \in Requests[c] :
            /\ req[c].ask = r
            /\ IF req[c].pc \in Early THEN req[c] \in Asking(r) ELSE req[c] \in Answered(r)
  /\ applied \in Count
  /\ acked \in Count
  /\ crossed \in BOOLEAN

\* What cache.py promises the tool layer, as Backend.tla states it: every
\* answer was live at an instant of its call, or is marked as cached, was
\* live once and was not asked for with fresh=true.
Contract == B!Spec

\* The content cache holds at most max_messages, under every interleaving of
\* puts, hits and reconfigurations, and no message twice.
ContentBounded ==
  /\ Len(content) <= cfg.maxMessages
  /\ \A i, j \in 1..Len(content) : content[i].id = content[j].id => i = j

\* The answer c is about to get misses a mutation that was acknowledged
\* before c asked.
OutOfDate(c) ==
  /\ req[c].pc = "done"
  /\ \/ /\ req[c].ask.op = "metadata"
        /\ req[c].asOf[req[c].ask.msg] < req[c].since[req[c].ask.msg]
     \/ /\ req[c].ask.op = "search"
        /\ \E m \in Message : req[c].asOf[m] < req[c].since[m]

\* Once a mutation has been answered, no cache of metadata or of search
\* results gives an answer from before it, unless a read that was overtaken
\* by a mutation has put its value afterwards.
OutOfDateOnlyIfCrossed == \A c \in Client : OutOfDate(c) => crossed

\* config.py:51 "the entry is invalidated whenever the message is mutated":
\* a caller who mutated a message reads its labels as they are since.
ReadYourWrites == \A c \in Client : ~OutOfDate(c)

=============================================================================
