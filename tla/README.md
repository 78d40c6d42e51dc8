# A TLA+ model of the Gmail proxy

This directory models the proxy of `src/src/gmail_proxy` in TLA+: modules that
follow its code, TLC configurations that check them on small instances, and
TLAPS proofs of the properties of its core for every instance. `PROJECT.json`
lists runs, properties, source lines, hazards and findings; this file says how
they hang together. File names without a directory are under
`src/src/gmail_proxy/`.

## 1. The system

The proxy stands between an agent and one Gmail mailbox. It serves two HTTP
endpoints from one process: the MCP endpoint with nine tools for the agent, and
an admin UI for the operator. What the agent sees and changes is confined to
messages *in scope*: a message with an allowed category or an allowed label,
unless it is in SPAM or TRASH or carries a blocked label.

| part | code | state it keeps | operations |
|---|---|---|---|
| confinement predicate | `policy/engine.py`, `categories.py` | none | `is_eligible`, `eligibility_reason` |
| mutation guard | `policy/mutation.py` | none | `validate_mutation` |
| tool handlers | `tools.py` | locals of each call | list, counts, get, thread, labels, modify, archive, trash, profile |
| cache | `cache.py` | LRU of contents, caches with a TTL, configuration | the backend's operations, `reconfigure`, `clear` |
| Gmail API | `gmail/google_client.py`, `gmail/mock_client.py` | the mailbox, outside the process | reads, `modify`, `trash` |
| dispatch | `tools.call_tool` | none | gates, handler, audit, answer |
| kill switch | `killswitch.py` | the file `FROZEN` | `freeze`, `unfreeze`, `is_frozen` |
| rate limiter | `auth.RateLimiter` | two deques of clock readings for each actor | `check` |
| audit log | `audit.py` | `audit.log`, the last hash | `record`, `verify_chain`, recovery at start |
| credentials | `auth.CredentialStore` | credentials and index in memory, `credentials.json` | `issue`, `revoke`, `rotate`, `verify` |
| MCP endpoint | `mcp_server.py` | none of its own | bearer gate, `_resolve_actor`, `_call` |
| policy | `config.py` | `policy.yaml`, `ctx.policy` | `load_policy`, saved by the admin UI |
| connection | `context.py`, `gmail/oauth.py`, `gmail/token_store.py` | token and client files, `ctx.backend` | connect, disconnect, `rebuild_backend`, `reload_policy` |
| admin UI | `admin/app.py` | none of its own | pages that call the parts above |
| query builder | `policy/query.py` | none | `build_query` |
| output, errors | `output.py`, `errors.py` | none | pure functions |

**How they interact.** A request of the agent passes the bearer gate, is
resolved to a credential, and enters `call_tool`: freeze flag, rate limiter,
handler, audit log, answer. A handler makes several calls of the backend, which
is the cache in front of the Gmail API. The admin UI reads and writes the same
objects through the shared `AppContext`, and its tool tester enters `call_tool`
too, past the flag and the limiter.

**Concurrency.** `main.py` runs both servers on one event loop. The admin UI's
synchronous page functions run in a pool of threads beside it; its asynchronous
ones (save the policy, save the OAuth client, run a tool) run on the loop. MCP
tools are synchronous functions, and it depends on the SDK, whose version
`pyproject.toml` does not pin, whether they run on the loop or in threads. So a
tool call and an admin page are concurrent in any build, and two tool calls in
some. The models let them interleave at each API call, file access and lock;
where tools run on the loop, fewer interleavings happen and every safety
property carries over. A handler's read of `ctx.policy` is taken together with
the API call it stands next to, except where two reads decide one thing: the
mode, which is computed ahead of the handler, and `allow_trash`, which the
handler reads past the freeze flag and the limiter, are steps of their own.
Elsewhere the properties do not tell the difference: they ask for some policy
and some listing of during the call, and not for two that were there together.
Beside all that the mailbox owner, and Gmail's own
classifier, move and rename things at any time.

**What is hard.** A verdict rests on reads made at different times of a
mailbox that moves; a call may fail with or without effect; caches sit between
verdict and truth; a mutation may have to be taken back; the process may die
between memory and file. The list, with lines, is under `hazards` in
`PROJECT.json`. What makes each part correct:

- *tools*: nothing out of scope is served or touched; labels that decide scope
  are not changed by the agent; every call ends.
- *cache*: an answer is live, or marked and once live; its own mutations are
  seen; it stays within its size.
- *dispatch*: a freeze stops later calls; the limits hold; every answer is on
  record; the chain of records verifies.
- *credentials*: a dead token stays dead, a live one keeps working, a request
  runs as who it is.
- *connection*: what runs is what the files say; a disconnect lasts; no token
  file and no policy is taken for whole that is not.
- *query builder*: the search and the predicate draw the same line, so that no
  message is hidden and no count comes out short.

## 2. The modules

| module | models | runs |
|---|---|---|
| `Scope` | predicate, guard, policy fields: operators over sets of labels | all of the next row |
| `Mailbox` | the mailbox, its owner, and what a backend call may answer or do | |
| `ToolCalls` | the handlers, one step for each API call | `tools` `race` `returns` `grants` `reclassified` `staleact` |
| `Query` | the search of a list or counts call, against the predicate | `tools` |
| `Confinement` | what the tool layer promises the owner: the most a call may do | |
| `Backend` | the contract of the backend: a call takes effect at one instant | |
| `CachingBackend` | `cache.py`, which implements `Backend` | `cache` `stalefill` |
| `Credentials` | credential store, the two verifications, crashes | `credentials` |
| `RateLimiter`, `AuditLog` | operators on a limiter and on a log file | |
| `Dispatch` | `call_tool` around them, kill switch, restart | `dispatch` `auditchain` |
| `Connection` | client, token and policy files, `ctx.backend`, `ctx.policy`, the pages that change them, restart | `connection` |
| `...Proofs` | theorems about `Scope`, `ToolCalls`, `Query`, `CachingBackend`, `Credentials`, `Dispatch`, `Connection`; lemmas on `Mailbox` | |
| `MC...` | values of the constants for TLC | |

**Composition.** `ToolCalls` extends `Mailbox` and takes every backend call as
one step whose answer is in `MetadataReads`, `ContentReads`, and so on.
`Backend` states exactly that as a specification over the same operators, and
`CachingBackend` is shown to implement it: `B == INSTANCE Backend WITH asked <-
..., reply <- ...`, where a call has its reply once its lookup hit or its API
call returned. `Contract == B!Spec` is a property of the run `cache` and a
theorem of `CachingBackendProofs`. So what `ToolCalls` proves holds with the
cache as it is. Upwards, `ToolCalls` implements `Confinement`, which knows no
handlers, verdicts or resolved labels, only *deals*: a call reads, or relabels
one message in scope once, within what the policy lets change, or trashes one
once, if the policy was not read-only when the call came in and some policy of
the call allows trash; after a relabelling it may only let that stand or apply
its inverse; and it tells of nothing but messages in scope. `C == INSTANCE
Confinement WITH deal <- Deals` takes from the frame of a call how far it is,
its kind, what it will tell of, and the change it made and has not judged yet
(`DealOf`). `Confined == C!Spec` is a property of the run `returns` and a
theorem of `ToolCallsProofs`. `Dispatch` is the layer above: there a handler is
one step. `Credentials` is the layer above that. `Connection` stands beside
them: what it puts in place of `ctx.backend` is the cache in front of a
mailbox, and the others are about the time between two replacements. `Query`
extends `ToolCalls` and compares, for each policy that comes into force there,
what a search would find with what the handlers would let pass.

### State and actions against the code

`Mailbox`. `box` and `names` are the labels of each message and the listing at
Gmail; `pastBox`, `pastNames` are history. `OwnerRelabels`, `OwnerNames`,
`OwnerDeletes` are the owner. A label is identified by its id and has a name in
the listing, or is `Unlisted`; a name may be shared and may change.

`ToolCalls`. `call[w]` is the frame of a handler: what it has read (`listing`,
`allowed`, `blocked`, `labels`), what it still has to look at (`todo`,
`queries`), what it will reply (`served`), and `pc`, the next API call or
check. The verdict `_eligible` is a short subroutine (`ReadAllowed`,
`ReadBlocked`, `Judged`), entered from four places and continued at `next`. A
failing API call ends the call, in the loops of list, thread and counts too,
which skip only messages that are out of scope. The exception is
`_allowed_label_ids`, which turns a failure into no labels. `Start...` is the
arrival of a call, with the mode it runs in, as `_resolve_actor` computes it; a
trash then waits at `permit` for its look at `allow_trash` (`PermitTrash`). A
mutation may also take effect and lose its reply. `seen[w]` is history:
everything that was live at some time during the call.

`CachingBackend`. A section under `_lock` is one step. The lookup, the API call
and the put of one read are three; so are the check of the configuration and
the put in `_content_put`, which the code makes inside and outside the lock.
Each value carries, as history, which mutations it knows of (`asOf`).

`Credentials`. `issue`, `revoke` and `rotate` change the memory, then the file
(`Persist`, `PersistFails`), holding the lock; `verify` reads without it, the
index first (`LookUp`) and then the credential (`Gate`, `Resolve`), or finds
nothing in one of them (`Refuse`): any step of the store may come between.
`Crash` may fall between the two, with the file replaced or not. A token is its
hash.

`Dispatch`. `Arrive`, `CheckFrozen`, `ReadClock`, `Check`, `Run`, `Seal`,
`WriteRecord` or `WriteFails`, `Answer` are the steps of `call_tool`. The clock
is read ahead of the limiter's lock, so a check may come late. A line of the
log is a record (its number stands for its hash, and names its predecessor) or
garbage, and the file may end in a line without end: what is appended then is
glued to it. A reason for denial does not matter to any property and is left
out, but for being turned away by the limiter.

`Query`. A query is the set of its terms: categories, spelled label names,
spelled blocked names, the labels that `is:unread` and `in:inbox` ask for, and
the other terms, of which some do not pass validation. `BuildQuery` returns the
set of that one query, or nothing when the call is rejected. `Spelling` is
`label_search_token` as a function on names, which need not be one to one.
`Matches` is the search itself as the mock backend does it. `CountUnread` is a
count over whichever hits come first.

`Connection`. `op[a]` is an operation of a browser or of the event loop: what
it has read or is about to write, and the next access. `setup_client` and
`config_save` are asynchronous and run on the loop, so only the loop does them;
`connect`, `callback` and `disconnect` run in threads. `Open`, `Fill` and
`Replace` are the three system calls of `TokenStore.save`, with the name a file
has by now (`at`), because another thread may have renamed it. `ReadClient`,
`ReadToken`, `ReadConfig`, `Assign` are `rebuild_backend`. `EnvClient` is the
client of the environment, which a rebuild takes when none is stored, and
`Google` says whether `GMAIL_BACKEND=google` is set, so that without a client
there is no demo mailbox but `NotConnected`. A token belongs to the client it
was issued to; one with serial 0 is there from the start, put by the bootstrap
script. A file whose write was not completed is `Cut`; a policy file may also
come out `Garbled`, which the loader refuses, whereas an empty one is an empty
mapping and loads as the defaults.

## 3. What is checked

Bounds are constants of the modules, named `Max...` or marked BOUND.

| run | instance | shows |
|---|---|---|
| `tools` | one call, any tool, two messages, all caches but that of searches on, one change from outside, three policies; searches over every set of labels, three listings, two names of one spelling, and counts over pages of one hit | `ServedInScope`, `ActsInScope`, `OnlyMutableLabelsChange`, `BlockedLabelsUntouched`, `NoSmuggling`, `GrantsUntouched`, `RevertUndoes`, `QuerySound`, `QueryComplete`, `CountIsExact` |
| `race` | two mutating calls on one message, one change from outside, three policies | `MutationEndsInScope` and the action properties when calls interleave |
| `returns` | one call, any tool, two messages, counts of two searches, metadata cached, one change from outside, two policies | `EveryCallReturns`, `StepsForward`, `Confined` |
| `cache` | an agent's and an admin's thread, one mutation, one change by the owner or of the configuration, one tick, room for one message | `Contract`, `ContentBounded`, `OutOfDateOnlyIfCrossed` |
| `credentials` | two ids, three tokens, two requests, two crashes | `DeadTokensAreRefused`, `IssuedTokensWork`, `RunsAsIssued`, `OneTokenEach` |
| `dispatch` | two threads, three calls, two of freeze, unfreeze, save and restart, one failed write, three clock readings | `FrozenStops`, `RateBound`, `TurnedAwayOnlyWhenFull`, `AnswersAreOnRecord`, `ChainIntact` |
| `connection` | two browsers and the loop, four operations, two clients, none of them the environment's, `GMAIL_BACKEND` unset, two policies, two tokens, one failed write, one restart | `BackendIsFromFiles`, `DisconnectHolds`, `TokenFileIsWhole`, `PolicyIsChosen` |

*Why the bounds are enough.* The properties of `tools` speak of one message,
one caller and one verdict; two messages are what it takes to confuse them, one
change from outside can fall at any of the points where it matters, and the
proofs remove the bounds altogether. `returns` has two messages and two
searches, so that both loops go round, a message can leave scope or be deleted
at any step, and a cached verdict can be stale when it is used. The policies
are one that allows everything, one without trash, and one that is read-only
but allows trash and grants and blocks nothing: a save goes from any of them to
any other, also between the mode and `allow_trash`. `returns` has the last two
of them, under which a trash always takes a save in between. In `tools` the two
messages are symmetric. Two mutating calls are the
smallest race, and a third adds none since each compares its message only with
its own reads. In `cache`, two clients and one mutation make the crossing of a
read and an invalidation, a cache of one message makes each put an eviction,
one tick lets an entry of one second expire. In `credentials`, three tokens
over two ids allow issue, issue, rotate; two crashes allow one in an operation
and one after its recovery. In `dispatch`, one admission a minute and two a day
make either limit the one that bites within three readings (a minute is one
reading, a day two), two changes allow freeze and restart, and three calls
allow a failed write between two good ones. In `connection`, two browsers and
the loop make every pair of operations overlap, four operations allow a client,
a connection and two that cross, and the restart falls between any two
accesses.

In `race` every tool mutates, so the instance stops once its bound on mutations
is used up; `dispatch` and `auditchain` stop with their last call, `connection`
with its last operation. These four do not check for deadlock. In the other
runs TLC does, and reports none.

**Fairness.** Only `EveryCallReturns` needs it: `Spec` of `ToolCalls` has
`WF_vars(Serve(w))`, a started call goes on. The code justifies it: handlers
take no lock across a step, the Gmail client's transport times out after 60
seconds and raises, and a thread or loop that is ready is scheduled. Nothing is
assumed of the owner, the operator or the next call.

**Properties that look odd.**
- `ServedInScope` says *live during the call, or once live and marked cached*:
  that is all a proxy can promise of a mailbox that others change. That cached
  verdicts are marked is what `SKILL.md` tells the agent.
- `ActsInScope` says no more of a mutation: its gate reads through the caches
  like any other; the run `staleact` shows what that admits.
- `OnlyMutableLabelsChange` asks for two policies of a trash, one that is not
  read-only and one that allows it, and not for one that permits it. The mode
  is taken from the policy ahead of the freeze flag and the limiter, and
  `allow_trash` from the policy behind them. With tools in threads, a save from
  *read-write without trash* to *read-only with trash* in between lets it
  through, though neither policy does.
- `NoSmuggling` and `GrantsUntouched` except a call whose `allowed_labels`
  could not be resolved (`blind`); the run `grants` shows why.
- `RevertUndoes` excepts requests that add what is there or remove what is not;
  a revert inverts the request and not its effect, so that a label which was
  there already and was asked for is lost. `InverseRestores` proves that the
  exception is exact.
- `OutOfDateOnlyIfCrossed` excepts histories in which a put was overtaken; the
  run `stalefill` shows why.
- `AnswersAreOnRecord` and `ChainIntact` except torn lines, the second failed
  writes too; the run `auditchain` shows why.
- `BackendIsFromFiles` excepts the time from when two operations overlapped to
  the next rebuild that nothing overlaps (`mixed`): rebuilds take no lock, and
  the last to be installed may be the one that read first. `DisconnectHolds`
  is about disconnects that nothing overlapped, for the same reason.
- `TokenFileIsWhole` excepts two callbacks that had the one temporary file at
  the same time (`shared`), which may leave a cut file behind. TLC reaches both
  exceptions.
- `PolicyIsChosen` lets the policy be `Defaults` with a file that is cut: an
  empty `policy.yaml` loads as the defaults, which may be wider than what the
  operator chose.
- `QuerySound` and `QueryComplete` leave out listings in which another label is
  spelled like an allowed, or a blocked, one (`Distinct`). With "Secret mail"
  blocked and a label "Secret-mail" beside it, list and counts miss the
  messages of the second, which get serves. `CountIsExact` needs both.
- `RateBound` counts the admissions whose clock reading was not overtaken by a
  tick, for each limiter: a save of the policy makes a new one.

### Findings

Five runs show the code to differ from what a document or comment says of it
(`findings` in `PROJECT.json` quotes both sides).

1. `grants`: when `labels.list` fails while `allowed_labels` is resolved, the
   labels that grant access are not immutable for that call.
2. `reclassified`: the check for a message "reclassified between metadata and
   full fetch" looks at the labels of the metadata read again.
3. `stalefill`: a metadata read may put its value after a mutation has
   invalidated the entry. Ten steps: read, mutate, invalidate, answer, put,
   read again and hit.
4. `auditchain`: the audit log advances its last hash ahead of the append, so
   one failed append breaks `verify_chain` for good.
5. `staleact`: mutations are said to act on live state, but pass their gate by
   cached labels and a cached listing, the listing for a minute by default.

## 4. What is proved

`ScopeProofs` and `ToolCallsProofs` hold for any sets of labels, names,
messages, workers and policies that satisfy the named assumptions of `Scope`,
`Mailbox` and `ToolCalls`; TLC evaluates the assumptions in every run.

- `ReasonAgrees`: `eligibility_reason` is `allowed` exactly when `is_eligible`
  holds.
- `OrdinaryLabelsKeepVerdict`: changing labels that decide nothing never
  changes the verdict. `ValidatedKeepsVerdict` draws the conclusion for
  `validate_mutation`: what it lets through, and the inverse of it, changes no
  verdict by the listing it was resolved with.
- `NarrowerPolicyNarrowsScope`: an operator who takes grants away or blocks
  more lets nothing new in, whatever the labels are called.
- `InverseRestores`: the inverse of a change restores a message if and only if
  the change added nothing that was there and removed nothing that was not. It
  is the condition of `RevertUndoes`.
- `TypeCorrectness`, `ServedWasInScope`, `MutationEnds`, `ActedInScope`: the
  invariants of `tools` and `race`.
- `MutationsAreAllowed`, `BlockersStay`, `NothingIsSmuggled`, `GrantsStay`,
  `RevertsUndo`: their action properties.
- `CallsGetOn`: `StepsForward`, every step of a call brings it nearer its end.
- `NoEndlessCall`: if messages are finitely many, nothing gets nearer its end
  for ever. With `CallsGetOn`, no call takes infinitely many steps.
- `Confines`: `ToolCalls` implements `Confinement`.

**The argument.** None of these is inductive: that a reply is in scope depends
on reads several steps back. `Inv` adds to the types, first, `HistoryInv`: what
is live is in the history, and in what each call in progress has seen. Second,
for each worker, where it came from: at each `pc` every field that is going to
be used is *known*, read from something live during the call, or formerly live
and marked as cached (`Known`), and the fields a `pc` relies on were set on the
way (`Placed`). A trash in progress has seen some policy that is not read-only
(`WriteKnown`), and past `permit` some policy that allows trash (`TrashKnown`):
different steps bring the two about, and history keeps both. `KnownStaysKnown`
carries knowledge over steps of others, for history only grows; `WorkerStep`
and `QuietStep` reduce a step of a worker to its own frame; there is one lemma
for each action. `Invariance` is `Spec => []Inv`, the properties follow from
it: an invariant by expanding its `pc`, an action property with `WhatModifies`,
which says what a step that touches a mailbox looked like.

*The refinement.* A step of a handler is a step of `Confinement` or a stutter
that it does not see; there is one lemma for each action (`...Maps`), and they
come down to three forms: a step that reads on (`LookMaps`), one that adds to
what will be told (`AdmitMaps`), one that is over (`DenyMaps`). `Inv` is what
makes a gate that opened a message in scope, and a validated request a set of
changeable labels. `Mapped` adds to it what only the refinement needs
(`Shaped`): that the ids to add and to remove are disjoint, that trash meets no
loop, and that get tells of nothing ahead of its reply. `RevertsUndo` adds
once more, that until a change is judged the labels in hand are the ones it
made (`Answered`).

*The measure.* `Nearer` orders the frames of a call: fewer searches to make
(`FetchesLeft`); or as many, and fewer messages to look at; or the same of
both, and later in the handler (`StepsLeft`). `CallsGetOn` compares the frames
of each action. For `NoEndlessCall`, the searches cannot fall for ever, after
that the set of messages cannot shrink for ever, being finite, and after that
the steps left cannot fall for ever.

`QueryProofs` (`SearchSound`, `SearchComplete`, `CountsExact`): for any labels,
names, spelling, listings and policies. `HitIsEligible` turns each token of a
hit back into a label and its name, which is where distinct spelling is used;
`EligibleIsHit` is the other direction. For a count, the hits are then just the
messages to be counted, so that every page tells the same
(`PagesTellTheCount`).

`CredentialsProofs` (`TypeCorrectness`, `DeadTokens`, `IssuedWork`,
`RunAsIssued`, `OneToken`): for any number of operators, requests, ids and
tokens. The invariant says how far memory and file may be apart at each point
of an operation: the index maps back to the credentials, whoever holds the lock
is alone with an entry that the file does not have yet, and what a request
found came from a token that was live when it looked. Between the two reads of
`verify` the id in hand stays the one the token was made for (`Found`), and if
the token was dead on arrival its credential is revoked by then: a token that a
rotation killed is no longer in the index to be looked up.

`ConnectionProofs` (`TypeCorrectness`, `Faithful`, `Disconnected`,
`WholeToken`, `ChosenPolicy`): for any number of browsers, clients and
policies, with or without a client in the environment and with either kind of
backend while there is none. `HoldsInv` ties what an operation holds to the
files it has read, while it is alone; `AloneInv`, that an operation which is
alone is the only one; `TmpInv`, who has the temporary file open; `LinkInv`,
`GoneInv` and `PolicyInv` lead from there to the properties.

`DispatchProofs` (`TypeCorrectness`, `Frozen`, `OnTheRecord`, `WholeChain`,
`RatesBounded`, `FullWhenTurnedAway`): for any number of threads, calls, saves,
failures and restarts. `Inv` holds the flag to the calls that came while it
stood, what is told to what is written, and the last hash to the end of the
file. `RatesInv` is about the deques. They are not sorted, since the clock is
read ahead of the lock, and eviction stops at the first entry that is not old;
so each prompt admission that is still in a window has a place of its own in
the deque (`Kept`), and a window can hold no more of them than the deque has
places. In the other direction every entry stands for an admission of its own
(`Stands`), so a full deque means a limit that was used up. Two theorems say
what `verify_chain` is worth. `ChainFixesLog`: two logs that it accepts and
that end in the same hash are the same, so that who remembers the last hash
detects every change; the argument goes back from the end, line by line
(`SameFromTheEnd`), and ends where one log does, since only a first record
follows none (`NotShorter`). That a hash stands for one record is a hypothesis
(`Binding`). `BeginningsVerify`: without that hash, records missing at the end
do not show.

`CachingBackendProofs` (`TypeCorrectness`, `Bounded`, `UpToDate`,
`Implements`): for any clients, requests, messages and configurations.
`LiveInv` ties every value that is kept, or is in a call's hands on the way to
being kept, to `pastBox` and `pastNames`; `FreshInv` says that, as long as no
put was overtaken, every entry knows of the mutations whose caller has its
answer or is about to get it (`Knows`, `Writing`): `Invalidate` makes that true
by removing what could be older, and `TtlPut` keeps it because a value that is
not overtaken knows of everything applied. `Implements` is the refinement: a
hit or a fetch is `Backend`'s `AnswerRead`, a mutation that reaches Gmail its
`AnswerWrite` when it is answered and its `Fail` when the reply is lost, the
return its `Return`, and everything else, from puts and evictions to the clock,
a step that `Backend` does not see (`InnerStutters`, `AloneStutters`).
That a hit was live once is `LiveInv`, which is why the refinement needs the
invariant and cannot be read off the actions.

Only model-checked: `EveryCallReturns`, since it rests on fairness, and with it
on `ENABLED`, which is out of the prover's reach. What the code has to do with
it is proved: no call goes on for ever (`CallsGetOn`, `NoEndlessCall`); what
remains is that a call which is not over has a next step, which TLC shows on
the instance. The violation runs are counterexamples and need no proof.

## 5. What is not modelled

- *The text of a query*: how terms are joined and values are checked character
  by character. In `ToolCalls` a search may return any set of messages, as
  Gmail's index may lag, and each result is judged again; `Query` is about a
  mailbox that stands still.
- *Output, errors, data types*: formatting of unbounded strings, constructors.
- *`gmail_get_profile`, the profile cache, cache counters*: no message data.
- *Transport*: the MCP SDK, uvicorn, host checks; pure functions of a request.
- *Admin login*: cryptographic checks of one request.
- *What an audit record says*, and changes to the log from outside.
- *The bootstrap script*: one shot, on the operator's machine.
- *The encryption key of the token store*: made on first use, by whichever page
  comes first, and not changed after that.

## 6. Plan

The modules planned are written, and every safety property a run checks is
proved. What could follow: an abstract specification of the credential store,
in which each page and each request takes effect at one instant, implemented by
`Credentials`; the host allow-list against a reference definition; and the
profile cache, whose value changes only when the account does, in a composition
of `CachingBackend` with `Connection`.
