----------------------------- MODULE ToolCalls -----------------------------
(***************************************************************************)
(* The tool handlers of tools.py, cut at their Gmail API calls.  Between   *)
(* two API calls of one tool call the owner may move or rename anything,   *)
(* the operator may save a new policy and other tool calls may take steps: *)
(* with an MCP SDK that runs sync tools in worker threads calls interleave *)
(* as here; with one that runs them on the event loop fewer interleavings  *)
(* are possible.  Any API call may fail (GmailError).                      *)
(*                                                                         *)
(* The mode a call runs in is computed ahead of its handler, from          *)
(* ctx.policy as it is then; allow_trash is read by the handler.           *)
(*                                                                         *)
(* call[w] is the tool call worker w is serving; its pc is the next thing  *)
(* the handler does.  A verdict takes two reads of the label listing, for  *)
(* allowed_labels and then for blocked_labels, and is decided at pc        *)
(* call[w].next.                                                           *)
(***************************************************************************)
EXTENDS Mailbox

CONSTANTS
  Worker,     \* tool calls that can be in progress at once
  Policies,   \* BOUND: the policies the operator saves
  Request,    \* BOUND: the sets of label names a caller asks to add or remove
  Tools,      \* BOUND: the tools that are called
  MaxQueries, \* BOUND: searches of one gmail_counts call
  MaxWrites   \* BOUND: mutating calls

ReadTool   == {"list", "counts", "get", "thread", "labels"}
ModifyTool == {"modify", "archive"}
Tool       == ReadTool \cup ModifyTool \cup {"trash"}

ASSUME CallsAssumption ==
  /\ Message # {}
  /\ Policies \subseteq Policy
  /\ Request \subseteq SUBSET Name
  /\ Tools \subseteq Tool
  /\ MaxQueries \in Nat \ {0}
  /\ MaxWrites \in Nat

VARIABLES
  policy, \* ctx.policy
  call,   \* what each worker is doing
  seen,   \* history: what was live at some time during each call in progress
  writes  \* mutating calls made so far

vars == <<mailboxVars, policy, call, seen, writes>>

\* The handlers' local variables.  hand is what get_thread returned, todo
\* the ids still to look at, queries the searches still to make.  The last
\* three are history: the labels the full fetch carried, the labels ahead of
\* the modify, and whether allowed_labels failed to resolve for it.
Call ==
  [pc         : {"idle", "permit", "listing", "search", "thread", "pick", "metadata",
                 "allowed", "blocked", "validate", "gate", "content",
                 "recheck", "modify", "verify", "revert", "trash", "reply"},
   next       : {"validate", "gate", "recheck", "verify"},
   tool       : Tool,
   fresh      : BOOLEAN,
   msg        : Message,
   add        : SUBSET Name,
   remove     : SUBSET Name,
   rules      : PolicyFields,
   listing    : Listing,
   labels     : SUBSET Label,
   categories : SUBSET Category,
   allowed    : SUBSET Label,
   blocked    : SUBSET Label,
   addIds     : SUBSET Label,
   removeIds  : SUBSET Label,
   hand       : [Message -> SUBSET Label],
   todo       : SUBSET Message,
   queries    : 0..MaxQueries,
   served     : SUBSET Message,
   cached     : BOOLEAN,
   full       : SUBSET Label,
   before     : SUBSET Label,
   blind      : BOOLEAN]

Idle ==
  [pc |-> "idle", next |-> "gate", tool |-> "labels", fresh |-> FALSE,
   msg |-> CHOOSE m \in Message : TRUE, add |-> {}, remove |-> {},
   rules |-> [categories |-> {}, allowedLabels |-> {}, blockedLabels |-> {},
              mutableLabels |-> {}, userLabelMutations |-> FALSE,
              readOnly |-> TRUE, allowTrash |-> FALSE],
   listing |-> [l \in Label |-> Unlisted], labels |-> {}, categories |-> {},
   allowed |-> {}, blocked |-> {}, addIds |-> {}, removeIds |-> {},
   hand |-> [m \in Message |-> {}], todo |-> {}, queries |-> 0,
   served |-> {}, cached |-> FALSE, full |-> {}, before |-> {},
   blind |-> FALSE]

Unseen == [box |-> [m \in Message |-> {}], names |-> {}, policies |-> {}]

Init ==
  /\ MailboxInit
  /\ policy \in Policies
  /\ call = [w \in Worker |-> Idle]
  /\ seen = [w \in Worker |-> Unseen]
  /\ writes = 0

TypeOK ==
  /\ MailboxTypeOK
  /\ policy \in Policies
  /\ call \in [Worker -> Call]
  /\ seen \in [Worker -> [box      : [Message -> SUBSET SUBSET Label],
                          names    : SUBSET Listing,
                          policies : SUBSET Policies]]
  /\ writes \in 0..MaxWrites

\* Everything that is live now is seen by every call in progress.
Observe ==
  seen' = [w \in Worker |->
             IF call'[w].pc = "idle" THEN Unseen
             ELSE [box      |-> [m \in Message |-> seen[w].box[m] \cup {box'[m]}],
                   names    |-> seen[w].names \cup {names'},
                   policies |-> seen[w].policies \cup {policy'}]]

Quiet == UNCHANGED <<mailboxVars, policy, writes>>

Become(w, c) == call' = [call EXCEPT ![w] = c] /\ Observe

\* An error reply, or the end of the reply: nothing of the call is left.
Deny(w) == Become(w, Idle)

----------------------------------------------------------------------------
\* A tool call arrives, and the mode is computed that it runs in.  One that
\* is refused for its mode or for a bad query changes nothing here.

Begin(w, c) ==
  /\ call[w].pc = "idle"
  /\ c.tool \in Tools
  /\ UNCHANGED <<mailboxVars, policy>>
  /\ Become(w, c)

\* _resolve_actor: mutating calls need a mode that lets them through.  What
\* the policy says of the mode later on does not matter to the handler.
Write ==
  /\ writes < MaxWrites
  /\ writes' = writes + 1
  /\ ~policy.readOnly

StartList(w) ==
  /\ UNCHANGED writes
  /\ \E fresh \in BOOLEAN, tool \in {"list", "counts"} :
     \E n \in IF tool = "list" THEN {1} ELSE 1..MaxQueries :
       Begin(w, [Idle EXCEPT !.pc = "search", !.tool = tool, !.fresh = fresh,
                             !.queries = n])

StartGet(w) ==
  /\ UNCHANGED writes
  /\ \E fresh \in BOOLEAN, m \in Message :
       Begin(w, [Idle EXCEPT !.pc = "metadata", !.tool = "get",
                             !.fresh = fresh, !.msg = m])

StartThread(w) ==
  /\ UNCHANGED writes
  /\ \E fresh \in BOOLEAN :
       Begin(w, [Idle EXCEPT !.pc = "thread", !.tool = "thread", !.fresh = fresh])

StartLabels(w) ==
  /\ UNCHANGED writes
  /\ \E fresh \in BOOLEAN :
       Begin(w, [Idle EXCEPT !.pc = "listing", !.tool = "labels", !.fresh = fresh])

StartModify(w) ==
  /\ Write
  /\ \E m \in Message, add \in Request, remove \in Request :
       Begin(w, [Idle EXCEPT !.pc = "listing", !.tool = "modify", !.msg = m,
                             !.add = add, !.remove = remove])

StartArchive(w) ==
  /\ Write
  /\ \E m \in Message :
       Begin(w, [Idle EXCEPT !.pc = "listing", !.tool = "archive", !.msg = m,
                             !.remove = {INBOX}])

StartTrash(w) ==
  /\ Write
  /\ \E m \in Message :
       Begin(w, [Idle EXCEPT !.pc = "permit", !.tool = "trash", !.msg = m])

\* Mutant: allow_trash is not looked at.
PermitAnyTrash(w) ==
  LET c == call[w] IN
  /\ c.pc = "permit"
  /\ Quiet
  /\ Become(w, [c EXCEPT !.pc = "metadata"])

\* _h_trash, past the freeze flag and the limiter: allow_trash of the policy
\* in force by now.
PermitTrash(w) ==
  LET c == call[w] IN
  /\ c.pc = "permit"
  /\ Quiet
  /\ IF policy.allowTrash THEN Become(w, [c EXCEPT !.pc = "metadata"])
                          ELSE Deny(w)

Start(w) ==
  \/ StartList(w) \/ StartGet(w) \/ StartThread(w) \/ StartLabels(w)
  \/ StartModify(w) \/ StartArchive(w) \/ StartTrash(w)

----------------------------------------------------------------------------
\* Resolving the scope labels.  policy.allowed_labels and blocked_labels are
\* read from ctx.policy at each resolution, and no names need no API call.

\* _allowed_label_ids: a GmailError here means no grants.
AllowedReads(fresh) ==
  IF policy.allowedLabels = {}
  THEN {[ids |-> {}, cached |-> FALSE, failed |-> FALSE]}
  ELSE {[ids    |-> ResolveLabelIds(r.value, policy.allowedLabels),
         cached |-> r.cached,
         failed |-> FALSE] : r \in ListingReads(fresh)}
       \cup {[ids |-> {}, cached |-> FALSE, failed |-> TRUE]}

\* Mutant: the blocklist fails open, as the grants do.
BlockedReadsFailOpen(fresh) ==
  IF policy.blockedLabels = {}
  THEN {[ids |-> {}, cached |-> FALSE]}
  ELSE {[ids    |-> ResolveLabelIds(r.value, policy.blockedLabels),
         cached |-> r.cached] : r \in ListingReads(fresh)}
       \cup {[ids |-> {}, cached |-> FALSE]}

\* _blocked_label_ids: a GmailError here ends the call (BlockedUnknown).
BlockedReads(fresh) ==
  IF policy.blockedLabels = {}
  THEN {[ids |-> {}, cached |-> FALSE]}
  ELSE {[ids    |-> ResolveLabelIds(r.value, policy.blockedLabels),
         cached |-> r.cached] : r \in ListingReads(fresh)}

ReadAllowed(w) ==
  LET c == call[w] IN
  /\ c.pc = "allowed"
  /\ Quiet
  /\ \E r \in AllowedReads(c.fresh) :
       Become(w, [c EXCEPT !.pc = "blocked",
                           !.allowed = r.ids,
                           !.cached = @ \/ r.cached,
                           !.blind = IF c.next = "validate" THEN r.failed ELSE @])

ReadBlocked(w) ==
  LET c == call[w] IN
  /\ c.pc = "blocked"
  /\ Quiet
  /\ \E r \in BlockedReads(c.fresh) :
       Become(w, [c EXCEPT !.pc = c.next,
                           !.blocked = r.ids,
                           !.cached = @ \/ r.cached])

BlockedUnknown(w) ==
  /\ call[w].pc = "blocked"
  /\ policy.blockedLabels # {}
  /\ Quiet
  /\ Deny(w)

\* _eligible, once everything it needs has been read.
Verdict(c) == IsEligible(c.labels, c.categories, c.allowed, c.blocked)

\* What only the verdict needed is gone after it.
Judged(c) == [c EXCEPT !.categories = {}, !.allowed = {}, !.blocked = {}]

----------------------------------------------------------------------------
\* The reads that raise when Gmail fails, which ends the call.
ReadFails(w) ==
  /\ call[w].pc \in {"listing", "search", "thread", "metadata", "content",
                     "modify", "trash"}
  /\ Quiet
  /\ Deny(w)

\* Mutant: a hit in the metadata cache is not marked.
ReadMetadataUnmarked(w) ==
  LET c == call[w] IN
  /\ c.pc = "metadata"
  /\ Quiet
  /\ \E r \in MetadataReads(c.msg, c.fresh) :
       Become(w, [c EXCEPT !.pc = "allowed", !.next = "gate",
                           !.labels = r.value,
                           !.categories = policy.categories])

\* _fetch_metadata; _eligible then takes the categories before the labels.
ReadMetadata(w) ==
  LET c == call[w] IN
  /\ c.pc = "metadata"
  /\ Quiet
  /\ \E r \in MetadataReads(c.msg, c.fresh) :
       Become(w, [c EXCEPT !.pc = "allowed", !.next = "gate",
                           !.labels = r.value,
                           !.categories = policy.categories,
                           !.cached = @ \/ r.cached])

\* Mutant: gmail_trash_message without its _require_eligible.
GateOpensToTrash(w) ==
  LET c == call[w] IN
  /\ c.pc = "gate"
  /\ Quiet
  /\ Verdict(c) \/ c.tool = "trash"
  /\ CASE c.tool \in ModifyTool -> Become(w, [Judged(c) EXCEPT !.pc = "modify"])
       [] c.tool = "trash"      -> Become(w, [Judged(c) EXCEPT !.pc = "trash"])
       [] c.tool = "get"        -> Become(w, [Judged(c) EXCEPT !.pc = "content"])
       [] OTHER -> Become(w, [Judged(c) EXCEPT !.pc = "pick",
                                               !.served = @ \cup {c.msg}])

\* _require_eligible lets the call go on; in the loops of _h_list, _h_thread
\* and _count_unread the message is kept.
GateOpens(w) ==
  LET c == call[w] IN
  /\ c.pc = "gate"
  /\ Quiet
  /\ Verdict(c)
  /\ CASE c.tool \in ModifyTool -> Become(w, [Judged(c) EXCEPT !.pc = "modify"])
       [] c.tool = "trash"      -> Become(w, [Judged(c) EXCEPT !.pc = "trash"])
       [] c.tool = "get"        -> Become(w, [Judged(c) EXCEPT !.pc = "content"])
       [] OTHER -> Become(w, [Judged(c) EXCEPT !.pc = "pick",
                                               !.served = @ \cup {c.msg}])

\* Mutant: it is looked at again later.
GateSkipsForNow(w) ==
  LET c == call[w] IN
  /\ c.pc = "gate"
  /\ Quiet
  /\ ~Verdict(c)
  /\ c.tool \in {"list", "counts", "thread"}
  /\ Become(w, [Judged(c) EXCEPT !.pc = "pick", !.todo = @ \cup {c.msg}])

\* In the loops a message out of scope is passed over.
GateSkips(w) ==
  LET c == call[w] IN
  /\ c.pc = "gate"
  /\ Quiet
  /\ ~Verdict(c)
  /\ c.tool \in {"list", "counts", "thread"}
  /\ Become(w, [Judged(c) EXCEPT !.pc = "pick"])

\* Elsewhere it ends the call.  The reason for the denial resolves the labels
\* again; whatever that finds, or if it fails, the call is denied.
GateRefuses(w) ==
  /\ call[w].pc = "gate"
  /\ ~Verdict(call[w])
  /\ call[w].tool \notin {"list", "counts", "thread"}
  /\ Quiet
  /\ Deny(w)

----------------------------------------------------------------------------
\* gmail_list_messages, gmail_counts (a search per category and per label)
\* and gmail_get_thread, whose labels come with the thread and uncached.

\* Mutant: the same search over and over.
SearchAgain(w) ==
  LET c == call[w] IN
  /\ c.pc = "search"
  /\ Quiet
  /\ \E r \in SearchReads(c.fresh) :
       Become(w, [c EXCEPT !.pc = "pick", !.todo = r.value,
                           !.cached = @ \/ r.cached])

Search(w) ==
  LET c == call[w] IN
  /\ c.pc = "search"
  /\ Quiet
  /\ \E r \in SearchReads(c.fresh) :
       Become(w, [c EXCEPT !.pc = "pick", !.todo = r.value,
                           !.queries = @ - 1, !.cached = @ \/ r.cached])

GetThread(w) ==
  LET c == call[w] IN
  /\ c.pc = "thread"
  /\ Quiet
  /\ \E members \in SUBSET Message :
       Become(w, [c EXCEPT !.pc = "pick", !.todo = members, !.hand = box])

Pick(w) ==
  LET c == call[w] IN
  /\ c.pc = "pick"
  /\ Quiet
  /\ \E m \in c.todo :
       LET picked == [c EXCEPT !.msg = m, !.todo = @ \ {m}] IN
       IF c.tool = "thread"
       THEN Become(w, [picked EXCEPT !.pc = "allowed", !.next = "gate",
                                     !.labels = c.hand[m],
                                     !.categories = policy.categories])
       ELSE Become(w, [picked EXCEPT !.pc = "metadata"])

\* Mutant: one search too many.
ExhaustedLate(w) ==
  LET c == call[w] IN
  /\ c.pc = "pick"
  /\ Quiet
  /\ c.todo = {}
  /\ IF c.queries >= 0 THEN Become(w, [c EXCEPT !.pc = "search"])
     ELSE IF c.tool = "thread" /\ c.served = {} THEN Deny(w)
     ELSE Become(w, [c EXCEPT !.pc = "reply"])

\* A thread with nothing in scope is denied.
Exhausted(w) ==
  LET c == call[w] IN
  /\ c.pc = "pick"
  /\ Quiet
  /\ c.todo = {}
  /\ IF c.queries > 0 THEN Become(w, [c EXCEPT !.pc = "search"])
     ELSE IF c.tool = "thread" /\ c.served = {} THEN Deny(w)
     ELSE Become(w, [c EXCEPT !.pc = "reply"])

----------------------------------------------------------------------------
\* gmail_get_message: the labels of the metadata read replace those of the
\* full fetch, which may come from the content cache, and are judged again.

FetchContent(w) ==
  LET c == call[w] IN
  /\ c.pc = "content"
  /\ Quiet
  /\ \E r \in ContentReads(c.msg, c.fresh) :
       Become(w, [c EXCEPT !.pc = "allowed", !.next = "recheck",
                           !.full = IF r.cached THEN {} ELSE r.value,
                           !.categories = policy.categories,
                           !.cached = @ \/ r.cached])

ReCheck(w) ==
  LET c == call[w] IN
  /\ c.pc = "recheck"
  /\ Quiet
  /\ IF Verdict(c) THEN Become(w, [c EXCEPT !.pc = "reply", !.served = {c.msg}])
                   ELSE Deny(w)

----------------------------------------------------------------------------
\* gmail_list_labels, and the listing a mutation is validated against.
\* ctx.policy is handed to validate_mutation as it is at this moment.

ReadListing(w) ==
  LET c == call[w] IN
  /\ c.pc = "listing"
  /\ Quiet
  /\ \E r \in ListingReads(c.fresh) :
       LET read == [c EXCEPT !.cached = @ \/ r.cached] IN
       IF c.tool = "labels"
       THEN Become(w, [read EXCEPT !.pc = "reply"])
       ELSE Become(w, [read EXCEPT !.pc = "allowed", !.next = "validate",
                                   !.listing = r.value, !.rules = policy])

\* Mutant: only the labels that block are immutable.
ValidateBlocksOnly(w) ==
  LET c == call[w] IN
  /\ c.pc = "validate"
  /\ Quiet
  /\ IF Validates(c.add, c.remove, c.rules, c.listing, c.blocked)
     THEN Become(w, [Judged(c) EXCEPT
                       !.pc = "metadata",
                       !.addIds = ResolveAll(c.add, c.listing),
                       !.removeIds = ResolveAll(c.remove, c.listing),
                       !.add = {}, !.remove = {},
                       !.listing = Idle.listing, !.rules = Idle.rules])
     ELSE Deny(w)

\* validate_mutation: nothing that decides scope may be changed.
Validate(w) ==
  LET c == call[w] IN
  /\ c.pc = "validate"
  /\ Quiet
  /\ IF Validates(c.add, c.remove, c.rules, c.listing, c.allowed \cup c.blocked)
     THEN Become(w, [Judged(c) EXCEPT
                       !.pc = "metadata",
                       !.addIds = ResolveAll(c.add, c.listing),
                       !.removeIds = ResolveAll(c.remove, c.listing),
                       !.add = {}, !.remove = {},
                       !.listing = Idle.listing, !.rules = Idle.rules])
     ELSE Deny(w)

\* Mutant: the labels that were read ahead are edited and written back.
ModifyWritesBack(w) ==
  LET c == call[w] IN
  /\ c.pc = "modify"
  /\ box' = [box EXCEPT ![c.msg] = Relabel(c.labels, c.addIds, c.removeIds)]
  /\ UNCHANGED <<names, moves>>
  /\ Remember
  /\ UNCHANGED <<policy, writes>>
  /\ Become(w, [c EXCEPT !.pc = "allowed", !.next = "verify",
                         !.labels = box'[c.msg],
                         !.before = box[c.msg],
                         !.categories = policy.categories])

\* messages.modify answers with the labels the message has now.
Modify(w) ==
  LET c == call[w] IN
  /\ c.pc = "modify"
  /\ ModifyLabels(c.msg, c.addIds, c.removeIds)
  /\ UNCHANGED <<policy, writes>>
  /\ Become(w, [c EXCEPT !.pc = "allowed", !.next = "verify",
                         !.labels = box'[c.msg],
                         !.before = box[c.msg],
                         !.categories = policy.categories])

\* Mutant: a modify whose reply was lost is sent once more.
ModifyRetried(w) ==
  LET c == call[w] IN
  /\ c.pc = "modify"
  /\ ModifyLabels(c.msg, c.addIds, c.removeIds)
  /\ UNCHANGED <<policy, writes>>
  /\ Become(w, c)

\* It was applied, but the reply was lost: a GmailError all the same.
ModifyUnanswered(w) ==
  LET c == call[w] IN
  /\ c.pc = "modify"
  /\ ModifyLabels(c.msg, c.addIds, c.removeIds)
  /\ UNCHANGED <<policy, writes>>
  /\ Deny(w)

\* Mutant: nothing is looked at after the modify.
VerifyNothing(w) ==
  LET c == call[w] IN
  /\ c.pc = "verify"
  /\ Quiet
  /\ Become(w, [Judged(c) EXCEPT !.pc = "reply", !.served = {c.msg}])

Verify(w) ==
  LET c == call[w] IN
  /\ c.pc = "verify"
  /\ Quiet
  /\ IF Verdict(c) THEN Become(w, [Judged(c) EXCEPT !.pc = "reply", !.served = {c.msg}])
                   ELSE Become(w, [Judged(c) EXCEPT !.pc = "revert"])

\* Mutant: the revert puts back the labels from ahead of the modify.
RevertPutsBack(w) ==
  LET c == call[w] IN
  /\ c.pc = "revert"
  /\ box' = [box EXCEPT ![c.msg] = c.before]
  /\ UNCHANGED <<names, moves>>
  /\ Remember
  /\ UNCHANGED <<policy, writes>>
  /\ Deny(w)

\* Mutant: what was added is not taken away.
RevertAddsOnly(w) ==
  LET c == call[w] IN
  /\ c.pc = "revert"
  /\ ModifyLabels(c.msg, c.removeIds, {})
  /\ UNCHANGED <<policy, writes>>
  /\ Deny(w)

\* The best-effort inverse, then a 409 "reclassified; reverted" whether or
\* not Gmail applied it.
Revert(w) ==
  LET c == call[w] IN
  /\ c.pc = "revert"
  /\ ModifyLabels(c.msg, c.removeIds, c.addIds)
  /\ UNCHANGED <<policy, writes>>
  /\ Deny(w)

RevertFails(w) ==
  /\ call[w].pc = "revert"
  /\ Quiet
  /\ Deny(w)

\* gmail_trash_message, which needs no labels in the reply.
Trash(w) ==
  LET c == call[w] IN
  /\ c.pc = "trash"
  /\ TrashMessage(c.msg)
  /\ UNCHANGED <<policy, writes>>
  /\ Become(w, [c EXCEPT !.pc = "reply"])

TrashUnanswered(w) ==
  LET c == call[w] IN
  /\ c.pc = "trash"
  /\ TrashMessage(c.msg)
  /\ UNCHANGED <<policy, writes>>
  /\ Deny(w)

----------------------------------------------------------------------------
\* The reply, with _control.cached, leaves for the agent.
Reply(w) ==
  /\ call[w].pc = "reply"
  /\ Quiet
  /\ Become(w, Idle)

\* The operator saves a new policy; reload_policy swaps the object.
SavePolicy ==
  /\ Moved
  /\ policy' \in Policies
  /\ UNCHANGED <<box, names, pastBox, pastNames, call, writes>>
  /\ Observe

OwnerStep ==
  /\ Owner
  /\ UNCHANGED <<policy, call, writes>>
  /\ Observe

\* The handlers' own steps.
Serve(w) ==
  \/ ReadAllowed(w) \/ ReadBlocked(w) \/ BlockedUnknown(w) \/ ReadFails(w)
  \/ ReadMetadata(w) \/ GateOpens(w) \/ GateSkips(w) \/ GateRefuses(w)
  \/ Search(w) \/ GetThread(w) \/ Pick(w) \/ Exhausted(w)
  \/ FetchContent(w) \/ ReCheck(w)
  \/ PermitTrash(w) \/ ReadListing(w) \/ Validate(w)
  \/ Modify(w) \/ ModifyUnanswered(w) \/ Verify(w) \/ Revert(w) \/ RevertFails(w)
  \/ Trash(w) \/ TrashUnanswered(w)
  \/ Reply(w)

Next ==
  \/ \E w \in Worker : Start(w) \/ Serve(w)
  \/ SavePolicy
  \/ OwnerStep

\* A handler, once dispatched, keeps running: every API call it makes
\* answers or raises.
Spec == Init /\ [][Next]_vars /\ \A w \in Worker : WF_vars(Serve(w))

----------------------------------------------------------------------------
\* What may be said of the values a call decided on.  A value not taken from
\* a cache was live while the call was in progress; fresh=true and a tainted
\* reply are the contract with the agent (SKILL.md "Freshness & caching").

MayBeStale(w) == call[w].cached /\ ~call[w].fresh

LabelsUsable(w, m) ==
  IF MayBeStale(w) /\ MetadataCached THEN pastBox[m] ELSE seen[w].box[m]

NamesUsable(w) ==
  IF MayBeStale(w) /\ ListingCached THEN pastNames ELSE seen[w].names

\* These labels are in scope by names and policies of during the call.
InScopeBy(w, labels) == InScopeUnder(labels, seen[w].policies, NamesUsable(w))

\* m was in scope during the call.
InScopeDuring(w, m) ==
  \E labels \in LabelsUsable(w, m) : InScopeBy(w, labels)

\* What a reply says about messages is only about messages in scope: each one
\* listed, counted, fetched, found in a thread or reported as modified was in
\* scope by labels and names that were live during the call -- or had been
\* live earlier, if the reply is marked cached and fresh was not asked for.
ServedInScope ==
  \A w \in Worker : \A m \in call[w].served : InScopeDuring(w, m)

\* The same of a message about to be modified or trashed: every mutation has
\* passed _require_eligible, whose reads may be answered from a cache as those
\* of any other call (see ActsOnLiveState below).
ActsInScope ==
  \A w \in Worker :
    call[w].pc \in {"modify", "trash"} => InScopeDuring(w, call[w].msg)

\* A modify or archive is reported as done only if the labels Gmail answered
\* it with are in scope: otherwise it is reverted and refused.
MutationEndsInScope ==
  \A w \in Worker :
    LET c == call[w] IN
    c.pc = "reply" /\ c.tool \in ModifyTool => InScopeBy(w, c.labels)

\* The labels of m that change in this step.
Changed(m) == (box[m] \ box'[m]) \cup (box'[m] \ box[m])

\* w is modifying labels, forwards or back, or has trashed in this step.
Modifies(w) == call[w].pc \in {"modify", "revert"} /\ call'[w] # call[w]
Trashes(w)  == call[w].pc = "trash" /\ call'[w] # call[w] /\ box' # box

\* Whatever moves during the call, modify and revert change only labels that
\* one policy lets the agent touch which is not read-only.  A trash needs a
\* policy that is not read-only and one with allow_trash, both in force during
\* the call: they may be two, for a save may come between the two checks.
OnlyMutableLabelsChange ==
  [][\A w \in Worker :
       /\ Modifies(w) =>
            \E p \in seen[w].policies :
              /\ ~p.readOnly
              /\ \A m \in Message, l \in Label :
                   l \in Changed(m) => Mutable(l, p, {})
       /\ Trashes(w) =>
            \E p, q \in seen[w].policies : ~p.readOnly /\ q.allowTrash]_vars

\* A label that blocks is never added or removed by the agent: if the
\* blocklist cannot be resolved the mutation is refused.
BlockedLabelsUntouched ==
  [][\A w \in Worker : Modifies(w) =>
       \E names1 \in NamesUsable(w), p \in seen[w].policies :
         \A m \in Message :
           Changed(m) \cap ResolveLabelIds(names1, p.blockedLabels) = {}]_vars

\* The naming and the policy have stood still under everything w has read.
Settled(w) == NamesUsable(w) = {names} /\ seen[w].policies = {policy}

LiveVerdict(labels) ==
  IsEligible(labels, policy.categories,
             ResolveLabelIds(names, policy.allowedLabels),
             ResolveLabelIds(names, policy.blockedLabels))

\* No smuggling: while names and policy stand still and allowed_labels could
\* be resolved, no modify and no revert moves a message into or out of scope,
\* whatever its labels have become since they were read.
NoSmuggling ==
  [][\A w \in Worker :
       Modifies(w) /\ Settled(w) /\ ~call[w].blind =>
         \A m \in Message : LiveVerdict(box[m]) <=> LiveVerdict(box'[m])]_vars

\* Nor does the agent give or take a label that grants access, as far as the
\* grants could be resolved when the mutation was validated.
GrantsUntouched ==
  [][\A w \in Worker :
       Modifies(w) /\ Settled(w) /\ ~call[w].blind =>
         \A m \in Message :
           Changed(m) \cap ResolveLabelIds(names, policy.allowedLabels) = {}]_vars

\* A revert gives the message back the labels it had when Gmail changed them,
\* if the call had added none it had and removed none it had not, and the
\* owner and other calls have left it alone since.
RevertUndoes ==
  [][\A w \in Worker :
       LET c == call[w] IN
       /\ Modifies(w) /\ c.pc = "revert" /\ box' # box
       /\ c.addIds \cap c.before = {} /\ c.removeIds \subseteq c.before
       /\ box[c.msg] = c.labels
       => box'[c.msg] = c.before]_vars

\* Every tool call comes to its end: no loop of a handler runs on for ever.
EveryCallReturns ==
  \A w \in Worker : call[w].pc # "idle" ~> call[w].pc = "idle"

\* How late in its handler a call is.  A verdict is two reads ahead of where
\* it is decided.
StepsTo == [listing |-> 39, permit |-> 36, validate |-> 36, metadata |-> 33, gate |-> 30,
            content |-> 27, modify |-> 27, trash |-> 27, recheck |-> 24,
            verify |-> 24, revert |-> 21, thread |-> 21, pick |-> 18,
            search |-> 15, reply |-> 12, idle |-> 0]

StepsLeft(c) == CASE c.pc = "allowed" -> StepsTo[c.next] + 2
                  [] c.pc = "blocked" -> StepsTo[c.next] + 1
                  [] OTHER            -> StepsTo[c.pc]

\* The searches and the thread still to fetch.
FetchesLeft(c) == c.queries + (IF c.pc = "thread" THEN 1 ELSE 0)

\* d is nearer its end than c: less to fetch; or as much, and fewer messages
\* to look at; or as much of both, and later in the handler.
Nearer(d, c) ==
  \/ FetchesLeft(d) < FetchesLeft(c)
  \/ /\ FetchesLeft(d) = FetchesLeft(c)
     /\ \/ d.todo \subseteq c.todo /\ d.todo # c.todo
        \/ d.todo = c.todo /\ StepsLeft(d) < StepsLeft(c)

\* Every step of a call brings it nearer its end, whatever the searches find,
\* whatever fails and whatever the owner, the operator and other calls do
\* meanwhile: no loop of a handler goes round without getting on.
StepsForward ==
  [][\A w \in Worker :
       call[w].pc # "idle" /\ call'[w] # call[w] => Nearer(call'[w], call[w])]_vars

----------------------------------------------------------------------------
\* The promise of Confinement.tla to the owner, and what of a handler's state
\* it is about.

DealPhase(c) == CASE c.pc = "idle"  -> "idle"
                  [] c.pc = "reply" -> "answering"
                  [] OTHER          -> "asking"

DealKind(c) == IF c.tool \in ModifyTool THEN "relabel"
               ELSE IF c.tool = "trash" THEN "trash" ELSE "read"

\* The labels were changed, and the verdict on the outcome is to come.
Undecided(c) ==
  \/ c.pc \in {"verify", "revert"}
  \/ c.pc \in {"allowed", "blocked"} /\ c.next = "verify"

Owed(c) == IF Undecided(c)
           THEN {[msg |-> c.msg, add |-> c.addIds, remove |-> c.removeIds,
                  labels |-> c.labels]}
           ELSE {}

DealOf(c) == [phase |-> DealPhase(c), kind |-> DealKind(c), fresh |-> c.fresh,
              cached |-> c.cached, told |-> c.served, owed |-> Owed(c)]

Deals == [w \in Worker |-> DealOf(call[w])]

C == INSTANCE Confinement WITH deal <- Deals

\* Whatever the agent calls and whatever happens meanwhile, the handlers do
\* no more than Confinement.tla allows: one change a call, of the kind the
\* call is of, in scope, within what the policy lets change, and nothing
\* afterwards but its inverse.
Confined == C!Spec

----------------------------------------------------------------------------
\* What the documents say and the code does not do.

\* SKILL.md:76 "Mutations ... always act on live state": a message about to be
\* modified or trashed was in scope by labels and names live during the call.
ActsOnLiveState ==
  \A w \in Worker :
    call[w].pc \in {"modify", "trash"} =>
      \E labels \in seen[w].box[call[w].msg] :
        InScopeUnder(labels, seen[w].policies, seen[w].names)

\* README.md:65 "Labels used for scoping are made immutable to the agent": a
\* label that grants access is never added or removed.
AllowedLabelsUntouched ==
  [][\A w \in Worker : Modifies(w) /\ Settled(w) =>
       \A m \in Message :
         Changed(m) \cap ResolveLabelIds(names, policy.allowedLabels) = {}]_vars

\* tools.py:141 "reclassified between metadata and full fetch": a body whose
\* full fetch carried labels out of scope is not returned.
ReclassifiedIsNotServed ==
  \A w \in Worker :
    LET c == call[w] IN
    c.pc = "reply" /\ c.tool = "get" /\ ~c.cached =>
      IsEligible(c.full, c.categories, c.allowed, c.blocked)

=============================================================================
