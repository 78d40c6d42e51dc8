----------------------------- MODULE Connection -----------------------------
(***************************************************************************)
(* How the proxy is connected to Gmail, and what its policy is: the files  *)
(* of the OAuth client, of the token and of the policy, the backend that   *)
(* rebuild_backend makes of them, and the pages of the admin UI that       *)
(* change them (context.py, gmail/token_store.py, gmail/oauth.py, and the  *)
(* setup and configuration handlers of admin/app.py).                      *)
(*                                                                         *)
(* No lock protects any of it.  Saving the policy and saving the client    *)
(* run on the event loop, one after the other; connect, callback and       *)
(* disconnect run in threads.  A step is one access to a file or to a      *)
(* field of the context.  Encryption of the token is left out: the key is  *)
(* there from the first look at the setup page.                            *)
(***************************************************************************)
EXTENDS Naturals

CONSTANTS
  Admin,        \* browsers of the operator, each served by a thread at a time
  Loop,         \* the event loop
  OAuthClient,  \* the client ids there are
  EnvClient,    \* the one of the environment, if there is one
  Google,       \* GMAIL_BACKEND=google
  Policy,       \* the policies the operator saves
  Defaults,     \* a policy with defaults for what a file does not say
  Cache,        \* the cache configuration of each policy
  None,         \* no file, nothing
  Cut,          \* a file's content when its write has not been completed
  Garbled,      \* a policy file that load_policy rejects
  Demo,         \* sample_backend()
  NotConnected, \* NotConnectedBackend()
  MaxOps,       \* BOUND: operations
  MaxTokens,    \* BOUND: tokens Google issues
  MaxFaults,    \* BOUND: writes that fail
  MaxRestarts   \* BOUND: restarts

Actor == Admin \cup {Loop}

\* A refresh token is good for the client it was issued to.  Serial 0 is one
\* that scripts/oauth_bootstrap.py stored.
Token == [client : OAuthClient, serial : 0..MaxTokens]

\* A GoogleGmail has its client's id and the token it found.
Link == [client : OAuthClient, token : Token] \cup {Demo, NotConnected}

ASSUME ConnectionAssumption ==
  /\ Loop \notin Admin
  /\ EnvClient \in OAuthClient \cup {None}
  /\ Google \in BOOLEAN
  /\ Cut \notin Token \cup Policy
  /\ None \notin Token \cup OAuthClient \cup {Cut}
  /\ {Demo, NotConnected} \cap [client : OAuthClient, token : Token] = {}
  /\ Garbled \notin Policy \cup {Cut, Defaults}
  /\ Defaults \notin Policy
  /\ {MaxOps, MaxTokens, MaxFaults, MaxRestarts} \subseteq Nat
  /\ Cache = [p \in Policy \cup {Defaults} |-> Cache[p]]

VARIABLES
  clientFile,  \* gmail_oauth.json
  tokenFile,   \* the token store
  tmpFile,     \* TokenStore.save's temporary file, one for all threads
  policyFile,  \* policy.yaml
  policy,      \* ctx.policy
  backend,     \* ctx.backend
  flow,        \* gmail_tx cookies: the client a browser was sent to Google for
  op,          \* the operations in progress
  ops, serial, faults, restarts, \* so far
  chosen,      \* history: the policies the operator may expect in force
  gone,        \* history: a disconnect has succeeded, no connection begun since
  mixed,       \* history: operations have overlapped since the last clean rebuild
  shared       \* history: two threads have had the temporary file at a time

files   == <<clientFile, tokenFile, tmpFile, policyFile>>
ctx     == <<policy, backend>>
bounds  == <<serial, faults, restarts>>
history == <<chosen, gone, mixed, shared>>
vars    == <<files, ctx, flow, op, ops, bounds, history>>

\* holds: what the operation has read, or is about to write.  at: where the
\* file it has open is by now.  alone: history, no other has overlapped it.
Rest == [kind |-> None, pc |-> "idle", holds |-> None, cache |-> None,
         at |-> None, alone |-> TRUE]

\* load_policy.  An empty file is an empty mapping.
Loads(f) == IF f = Cut THEN Defaults ELSE f

\* _resolve_client_creds: the client that is stored, or else the environment's.
ClientOf(file) == IF file # None THEN file ELSE EnvClient

\* _make_backend
Unconfigured == IF Google THEN NotConnected ELSE Demo

Made(client, token) ==
  IF client = None THEN Unconfigured
  ELSE IF token \in Token THEN [client |-> client, token |-> token]
  ELSE NotConnected

Init ==
  /\ clientFile = None
  /\ tokenFile \in {None} \cup [client : OAuthClient, serial : {0}]
  /\ tmpFile = None
  /\ policyFile \in Policy
  /\ policy = policyFile
  /\ backend = [link |-> Made(EnvClient, tokenFile), cache |-> Cache[policy]]
  /\ flow = [a \in Admin |-> None]
  /\ op = [a \in Actor |-> Rest]
  /\ ops = 0 /\ serial = 0 /\ faults = 0 /\ restarts = 0
  /\ chosen = {policy}
  /\ gone = FALSE
  /\ mixed = FALSE
  /\ shared = FALSE

Idle(a) == op[a].pc = "idle"

\* Operation a begins; whoever is under way has company from now on.
Begin(a, kind, pc, holds) ==
  LET others == {b \in Actor \ {a} : ~Idle(b)} IN
  /\ Idle(a)
  /\ ops < MaxOps
  /\ ops' = ops + 1
  /\ op' = [b \in Actor |->
              IF b = a THEN [Rest EXCEPT !.kind = kind, !.pc = pc, !.holds = holds,
                                         !.alone = others = {}]
              ELSE IF b \in others THEN [op[b] EXCEPT !.alone = FALSE]
              ELSE op[b]]
  /\ mixed' = (mixed \/ others # {})

\* Operation a goes on from pc to next, holding h.
Goes(a, pc, next, h) ==
  /\ op[a].pc = pc
  /\ op' = [op EXCEPT ![a].pc = next, ![a].holds = h]
  /\ UNCHANGED ops

Ends(a, pc) ==
  /\ op[a].pc = pc
  /\ op' = [op EXCEPT ![a] = Rest]
  /\ UNCHANGED ops

Fault == faults < MaxFaults /\ faults' = faults + 1

----------------------------------------------------------------------------
\* rebuild_backend, the last part of three operations.

ReadClient(a) ==
  LET client == ClientOf(clientFile) IN
  /\ IF client = None THEN Goes(a, "client", "config", Unconfigured)
                      ELSE Goes(a, "client", "token", client)
  /\ UNCHANGED <<files, ctx, flow, bounds, history>>

\* Mutant: whatever is in the file is taken for a token.
ReadAnyToken(a) ==
  /\ Goes(a, "token", "config",
          IF tokenFile = None THEN NotConnected
          ELSE [client |-> op[a].holds, token |-> tokenFile])
  /\ UNCHANGED <<files, ctx, flow, bounds, history>>

\* The token is read when the GoogleGmail is made; one that does not load
\* makes a NotConnectedBackend.
ReadToken(a) ==
  /\ Goes(a, "token", "config", Made(op[a].holds, tokenFile))
  /\ UNCHANGED <<files, ctx, flow, bounds, history>>

ReadConfig(a) ==
  /\ op[a].pc = "config"
  /\ op' = [op EXCEPT ![a].pc = "assign", ![a].cache = Cache[policy]]
  /\ UNCHANGED <<files, ctx, flow, ops, bounds, history>>

Assign(a) ==
  /\ Ends(a, "assign")
  /\ backend' = [link |-> op[a].holds, cache |-> op[a].cache]
  /\ mixed' = (mixed /\ ~op[a].alone)
  /\ gone' = (gone \/ (op[a].kind = "disconnect" /\ op[a].alone))
  /\ UNCHANGED <<files, policy, flow, bounds, chosen, shared>>

----------------------------------------------------------------------------
\* Save the OAuth client.  OAuthClientStore.save replaces the file at once,
\* and only the loop calls it.

SetupClient ==
  /\ Begin(Loop, "client", "client", None)
  /\ clientFile' \in OAuthClient
  /\ UNCHANGED <<tokenFile, tmpFile, policyFile, ctx, flow, bounds, chosen, gone, shared>>

----------------------------------------------------------------------------
\* Connect: to Google, and back with a code.  Both take the client that is
\* stored, never the environment's.

SetupConnect(a) ==
  /\ Idle(a)
  /\ clientFile # None
  /\ flow' = [flow EXCEPT ![a] = clientFile]
  /\ UNCHANGED <<files, ctx, op, ops, bounds, history>>

\* Back from Google: the client that is stored now redeems the code.
SetupCallback(a) ==
  /\ flow[a] # None
  /\ flow' = [flow EXCEPT ![a] = None]
  /\ Begin(a, "callback", "exchange", [made |-> flow[a], used |-> clientFile])
  /\ gone' = FALSE
  /\ UNCHANGED <<files, ctx, bounds, chosen, shared>>

\* exchange_code.  Google redeems a code for the client it was made for.
Exchange(a) ==
  LET c == op[a].holds.used IN
  /\ op[a].pc = "exchange"
  /\ op[a].holds.made = c
  /\ serial < MaxTokens
  /\ serial' = serial + 1
  /\ Goes(a, "exchange", "open", [client |-> c, serial |-> serial + 1])
  /\ UNCHANGED <<files, ctx, flow, faults, restarts, history>>

\* Refused, timed out, or no refresh token in the answer.
ExchangeFails(a) ==
  /\ Ends(a, "exchange")
  /\ UNCHANGED <<files, ctx, flow, bounds, history>>

----------------------------------------------------------------------------
\* TokenStore.save

\* Mutant: the token file itself is opened.
OpenInPlace(a) ==
  /\ op[a].pc = "open"
  /\ op' = [op EXCEPT ![a].pc = "fill", ![a].at = "token"]
  /\ tokenFile' = Cut
  /\ UNCHANGED <<clientFile, tmpFile, policyFile, ctx, flow, ops, bounds, history>>

\* The temporary file is created, or the one that is there is truncated...
Open(a) ==
  /\ op[a].pc = "open"
  /\ op' = [op EXCEPT ![a].pc = "fill", ![a].at = "tmp"]
  /\ tmpFile' = Cut
  /\ shared' = (shared \/ \E b \in Actor \ {a} : op[b].pc \in {"fill", "replace"})
  /\ UNCHANGED <<clientFile, tokenFile, policyFile, ctx, flow, ops, bounds,
                 chosen, gone, mixed>>

\* What a write makes of a file: over another's bytes, maybe neither.
Written(content, t) == IF content = Cut THEN {t} ELSE {t, Cut}

\* ...written, under whatever name it has by now...
Fill(a) ==
  /\ op[a].pc = "fill"
  /\ op' = [op EXCEPT ![a].pc = "replace", ![a].at = None]
  /\ IF op[a].at = "tmp" THEN tmpFile' \in Written(tmpFile, op[a].holds)
                         ELSE UNCHANGED tmpFile
  /\ IF op[a].at = "token" THEN tokenFile' \in Written(tokenFile, op[a].holds)
                           ELSE UNCHANGED tokenFile
  /\ UNCHANGED <<clientFile, policyFile, ctx, flow, ops, bounds, history>>

FillFails(a) ==
  /\ Fault
  /\ Ends(a, "fill")
  /\ UNCHANGED <<files, ctx, flow, serial, restarts, history>>

\* A file that others have open changes its name, or loses it.
Renamed(at) == CASE at = "tmp" -> "token" [] at = "token" -> None [] OTHER -> at

\* ...and renamed.
Replace(a) ==
  /\ op[a].pc = "replace"
  /\ tmpFile # None
  /\ tokenFile' = tmpFile
  /\ tmpFile' = None
  /\ op' = [b \in Actor |->
              IF b = a THEN [op[a] EXCEPT !.pc = "client", !.holds = None]
              ELSE [op[b] EXCEPT !.at = Renamed(@)]]
  /\ UNCHANGED <<clientFile, policyFile, ctx, flow, ops, bounds, history>>

\* Another thread has renamed it: FileNotFoundError.
ReplaceFails(a) ==
  /\ tmpFile = None
  /\ Ends(a, "replace")
  /\ UNCHANGED <<files, ctx, flow, bounds, history>>

----------------------------------------------------------------------------
\* Disconnect.

\* Mutant: the token stays where it is.
DisconnectKeeps(a) ==
  /\ Begin(a, "disconnect", "client", None)
  /\ UNCHANGED <<files, ctx, flow, bounds, chosen, gone, shared>>

SetupDisconnect(a) ==
  /\ Begin(a, "disconnect", IF tokenFile = None THEN "client" ELSE "unlink", None)
  /\ UNCHANGED <<files, ctx, flow, bounds, chosen, gone, shared>>

Unlink(a) ==
  /\ op[a].pc = "unlink"
  /\ tokenFile # None
  /\ tokenFile' = None
  /\ op' = [b \in Actor |->
              IF b = a THEN [op[a] EXCEPT !.pc = "client"]
              ELSE IF op[b].at = "token" THEN [op[b] EXCEPT !.at = None]
              ELSE op[b]]
  /\ UNCHANGED <<clientFile, tmpFile, policyFile, ctx, flow, ops, bounds, history>>

\* Another thread was first: FileNotFoundError.
UnlinkFails(a) ==
  /\ tokenFile = None
  /\ Ends(a, "unlink")
  /\ UNCHANGED <<files, ctx, flow, bounds, history>>

----------------------------------------------------------------------------
\* Save the policy, once it has been validated: policy.yaml in place...

\* Mutant: the policy is in force ahead of the write.
SaveEarly ==
  /\ \E p \in Policy : Begin(Loop, "config", "write", p) /\ policy' = p
  /\ policyFile' = Cut
  /\ UNCHANGED <<clientFile, tokenFile, tmpFile, backend, flow, bounds, chosen, gone, shared>>

ConfigSave ==
  /\ \E p \in Policy : Begin(Loop, "config", "write", p)
  /\ policyFile' = Cut
  /\ UNCHANGED <<clientFile, tokenFile, tmpFile, ctx, flow, bounds, chosen, gone, shared>>

WritePolicy ==
  /\ Goes(Loop, "write", "load", None)
  /\ policyFile' = op[Loop].holds
  /\ chosen' = chosen \cup {policyFile'}
  /\ UNCHANGED <<clientFile, tokenFile, tmpFile, ctx, flow, bounds, gone, mixed, shared>>

\* The disk is full.  The page reports the error.
WritePolicyFails ==
  /\ Fault
  /\ Ends(Loop, "write")
  /\ policyFile' \in {Cut, Garbled}
  /\ UNCHANGED <<clientFile, tokenFile, tmpFile, ctx, flow, serial, restarts, history>>

\* ...then reload_policy.  (The new limiter is in Dispatch.)
LoadPolicy ==
  /\ Goes(Loop, "load", "reconfigure", None)
  /\ policy' = Loads(policyFile)
  /\ UNCHANGED <<files, backend, flow, bounds, history>>

\* Mutant: the cache keeps its configuration.
ReconfigureNothing ==
  /\ Ends(Loop, "reconfigure")
  /\ chosen' = {policy}
  /\ UNCHANGED <<files, ctx, flow, bounds, gone, mixed, shared>>

Reconfigure ==
  /\ Ends(Loop, "reconfigure")
  /\ backend' = [backend EXCEPT !.cache = Cache[policy]]
  /\ chosen' = {policy}
  /\ UNCHANGED <<files, policy, flow, bounds, gone, mixed, shared>>

----------------------------------------------------------------------------
\* The process dies at any point, and build_context runs again.  With a
\* policy file that does not load it does so once the operator has written one.
Restart ==
  /\ restarts < MaxRestarts
  /\ restarts' = restarts + 1
  /\ op' = [a \in Actor |-> Rest]
  /\ IF policyFile = Garbled
     THEN policyFile' \in Policy /\ chosen' = {policyFile'}
     ELSE UNCHANGED <<policyFile, chosen>>
  /\ policy' = Loads(policyFile')
  /\ backend' = [link |-> Made(ClientOf(clientFile), tokenFile), cache |-> Cache[policy']]
  /\ mixed' = FALSE
  /\ UNCHANGED <<clientFile, tokenFile, tmpFile, flow, ops, serial, faults, gone, shared>>

Next ==
  \/ \E a \in Actor : ReadClient(a) \/ ReadToken(a) \/ ReadConfig(a) \/ Assign(a)
  \/ \E a \in Admin :
       \/ SetupConnect(a) \/ SetupCallback(a) \/ Exchange(a) \/ ExchangeFails(a)
       \/ Open(a) \/ Fill(a) \/ FillFails(a) \/ Replace(a) \/ ReplaceFails(a)
       \/ SetupDisconnect(a) \/ Unlink(a) \/ UnlinkFails(a)
  \/ SetupClient \/ ConfigSave \/ WritePolicy \/ WritePolicyFails
  \/ LoadPolicy \/ Reconfigure
  \/ Restart

Spec == Init /\ [][Next]_vars

----------------------------------------------------------------------------
\* Properties.

PolicyText == Policy \cup {Cut, Garbled}
Held == OAuthClient \cup Token \cup Link \cup Policy \cup {None}
          \cup [made : OAuthClient, used : OAuthClient]

Operation ==
  [kind  : {None, "client", "callback", "disconnect", "config"},
   pc    : {"idle", "client", "token", "config", "assign", "exchange", "open",
            "fill", "replace", "unlink", "write", "load", "reconfigure"},
   holds : Held,
   cache : {Cache[p] : p \in Policy \cup {Defaults}} \cup {None},
   at    : {"tmp", "token", None},
   alone : BOOLEAN]

\* The state has its type; a link is only ever made of a token that loads.
TypeOK ==
  /\ clientFile \in OAuthClient \cup {None}
  /\ {tokenFile, tmpFile} \subseteq Token \cup {None, Cut}
  /\ policyFile \in PolicyText
  /\ policy \in Policy \cup {Defaults}
  /\ backend \in [link : Link, cache : {Cache[p] : p \in Policy \cup {Defaults}}]
  /\ flow \in [Admin -> OAuthClient \cup {None}]
  /\ op \in [Actor -> Operation]
  /\ ops \in 0..MaxOps
  /\ serial \in 0..MaxTokens
  /\ faults \in 0..MaxFaults
  /\ restarts \in 0..MaxRestarts
  /\ chosen \in SUBSET Policy
  /\ {gone, mixed, shared} \subseteq BOOLEAN

\* When nothing is under way, what runs is what a restart would make of the
\* files: no failed write or refused code leaves them apart, unless
\* operations have overlapped since the backend was last rebuilt.
BackendIsFromFiles ==
  (\A a \in Actor : Idle(a)) /\ ~mixed =>
    backend = [link |-> Made(ClientOf(clientFile), tokenFile), cache |-> Cache[policy]]

\* Once a disconnect that nothing overlapped was answered, no backend has a
\* token until a browser comes back from Google: not after a client or a
\* policy was saved, nor after a restart.
DisconnectHolds == gone => backend.link \in {Demo, NotConnected}

\* The token file holds a whole token at all times, through failed writes and
\* restarts, unless two callbacks have had the temporary file at a time.
TokenFileIsWhole == tokenFile = Cut => shared

\* Between saves the policy in force is the one last saved, or one whose
\* save was cut short when it was complete on disk; one that was refused
\* never is.  It falls back to defaults only with a file cut short.
PolicyIsChosen ==
  Idle(Loop) =>
    \/ policy \in chosen /\ (policyFile \in Policy => policy = policyFile)
    \/ policy = Defaults /\ policyFile \in {Cut, Garbled}

=============================================================================
