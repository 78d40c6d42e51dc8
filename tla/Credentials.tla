---------------------------- MODULE Credentials ----------------------------
(***************************************************************************)
(* The agents' bearer credentials: CredentialStore of auth.py, the admin   *)
(* UI's issue, revoke and rotate, and the two places of mcp_server.py that *)
(* verify the token of a request.  The store lives in memory and in a file *)
(* that is replaced as a whole; the process may crash at any time and      *)
(* starts again from the file.  issue, revoke and rotate run under _lock,  *)
(* in the admin UI's threads; verify takes no lock, and reads the index    *)
(* and then the credential.  An operation changes the two in one step: the *)
(* entries it writes are those of one credential, and a request reads one  *)
(* entry of each.                                                          *)
(*                                                                         *)
(* A token stands for its hash.                                            *)
(***************************************************************************)
EXTENDS Naturals

CONSTANTS
  Id,        \* credential ids
  Token,     \* bearer tokens
  Worker,    \* requests of agents in progress at once
  None,      \* no credential, no operation
  MaxCrashes \* BOUND: crashes of the process

Mode == {"read_only", "read_write"}

\* Credential.  Names, dates and notes are left out.
Credential == [token : Token, revoked : BOOLEAN, mode : Mode]
Creds      == [Id -> Credential \cup {None}]

ASSUME CredentialsAssumption ==
  /\ None \notin Token
  /\ None \notin Id
  /\ None \notin Credential
  /\ MaxCrashes \in Nat

VARIABLES
  creds,   \* self._creds
  byHash,  \* self._by_hash
  file,    \* credentials.json
  op,      \* the operation that holds _lock and has changed the memory
  up,      \* the process is running
  call,    \* the requests in progress
  crashes, \* crashes so far
  minted,  \* history: the credential each token was generated for
  issued,  \* history: the credential and mode each delivered token is for
  at_risk, \* history: tokens somebody has tried to revoke or to rotate
  dead     \* history: tokens whose revocation or rotation was acknowledged

store   == <<creds, byHash, file>>
history == <<minted, issued, at_risk, dead>>
vars    == <<store, op, up, call, crashes, history>>

\* actor: the credential that was looked up; in the end actor and mode are what
\* the request is run as.  barred: history, the dead tokens when it arrived.
Quiet == [pc |-> "idle", token |-> None, actor |-> None, mode |-> "read_only",
          barred |-> {}]

Nothing == [i \in Id |-> None]
Nowhere == [t \in Token |-> None]

Init ==
  /\ creds = Nothing
  /\ byHash = Nowhere
  /\ file = Nothing
  /\ op = None
  /\ up = TRUE
  /\ call = [w \in Worker |-> Quiet]
  /\ crashes = 0
  /\ minted = Nowhere
  /\ issued = Nowhere
  /\ at_risk = {}
  /\ dead = {}

----------------------------------------------------------------------------
\* issue, revoke and rotate: first the memory...

TokensOf(i) == {t \in Token : minted[t] = i}

Free == up /\ op = None

Fresh == {t \in Token : minted[t] = None}

\* Mutant: a mode is only written when a rotation asks for it.
IssueWithoutMode ==
  /\ Free
  /\ \E i \in Id, t \in Fresh :
       /\ \A s \in Token : minted[s] # i
       /\ creds' = [creds EXCEPT ![i] = [token |-> t, revoked |-> FALSE, mode |-> None]]
       /\ byHash' = [byHash EXCEPT ![t] = i]
       /\ op' = [kind |-> "issue", id |-> i, token |-> t]
       /\ minted' = [minted EXCEPT ![t] = i]
  /\ UNCHANGED <<file, up, call, crashes, issued, at_risk, dead>>

\* Neither token_urlsafe nor token_hex repeats itself.
Issue ==
  /\ Free
  /\ \E i \in Id, t \in Fresh, m \in Mode :
       /\ \A s \in Token : minted[s] # i
       /\ creds' = [creds EXCEPT ![i] = [token |-> t, revoked |-> FALSE, mode |-> m]]
       /\ byHash' = [byHash EXCEPT ![t] = i]
       /\ op' = [kind |-> "issue", id |-> i, token |-> t]
       /\ minted' = [minted EXCEPT ![t] = i]
  /\ UNCHANGED <<file, up, call, crashes, issued, at_risk, dead>>

\* An unknown id returns without a trace.
Revoke ==
  /\ Free
  /\ \E i \in Id :
       /\ creds[i] # None
       /\ creds' = [creds EXCEPT ![i].revoked = TRUE]
       /\ op' = [kind |-> "revoke", id |-> i, token |-> creds[i].token]
       /\ at_risk' = at_risk \cup TokensOf(i)
  /\ UNCHANGED <<byHash, file, up, call, crashes, minted, issued, dead>>

\* Mutant: the old token is still looked up.
RotateKeepsOld ==
  /\ Free
  /\ \E i \in Id, t \in Fresh :
       /\ creds[i] # None
       /\ ~creds[i].revoked
       /\ creds' = [creds EXCEPT ![i].token = t]
       /\ byHash' = [byHash EXCEPT ![t] = i]
       /\ op' = [kind |-> "rotate", id |-> i, token |-> t]
       /\ minted' = [minted EXCEPT ![t] = i]
       /\ at_risk' = at_risk \cup TokensOf(i)
  /\ UNCHANGED <<file, up, call, crashes, issued, dead>>

\* A revoked credential is not rotated.
Rotate ==
  /\ Free
  /\ \E i \in Id, t \in Fresh :
       /\ creds[i] # None
       /\ ~creds[i].revoked
       /\ creds' = [creds EXCEPT ![i].token = t]
       /\ byHash' = [byHash EXCEPT ![creds[i].token] = None, ![t] = i]
       /\ op' = [kind |-> "rotate", id |-> i, token |-> t]
       /\ minted' = [minted EXCEPT ![t] = i]
       /\ at_risk' = at_risk \cup TokensOf(i)
  /\ UNCHANGED <<file, up, call, crashes, issued, dead>>

----------------------------------------------------------------------------
\* ...then the file: _persist writes a temporary file and renames it.

Deliver == [id |-> op.id, mode |-> creds[op.id].mode]

\* The operator is told, and for issue and rotate given the token.
Acknowledge ==
  /\ issued' = IF op.kind = "revoke" THEN issued
               ELSE [issued EXCEPT ![op.token] = Deliver]
  /\ dead' = dead \cup CASE op.kind = "issue"  -> {}
                        [] op.kind = "revoke" -> TokensOf(op.id)
                        [] op.kind = "rotate" -> TokensOf(op.id) \ {op.token}

Persist ==
  /\ up
  /\ op # None
  /\ file' = creds
  /\ op' = None
  /\ Acknowledge
  /\ UNCHANGED <<creds, byHash, up, call, crashes, minted, at_risk>>

\* Mutant: a file that cannot be written is passed over.
PersistFailsSilently ==
  /\ up
  /\ op # None
  /\ op' = None
  /\ Acknowledge
  /\ UNCHANGED <<store, up, call, crashes, minted, at_risk>>

\* The disk is full: an exception, a 500 for the operator, and the memory
\* stays as it is.
PersistFails ==
  /\ up
  /\ op # None
  /\ op' = None
  /\ UNCHANGED <<store, up, call, crashes, history>>

----------------------------------------------------------------------------
\* verify, and what a request makes of it.

Arrive(w) ==
  /\ up
  /\ call[w].pc = "idle"
  /\ \E t \in Token \ Fresh :
       call' = [call EXCEPT ![w] = [Quiet EXCEPT !.pc = "arrived", !.token = t,
                                                 !.barred = dead]]
  /\ UNCHANGED <<store, op, up, crashes, history>>

\* The first half of verify: the id for the hash.
LookUp(w) ==
  LET c == call[w] IN
  /\ up
  /\ c.pc \in {"arrived", "gated"}
  /\ byHash[c.token] # None
  /\ call' = [call EXCEPT
                ![w].pc = IF c.pc = "arrived" THEN "checking" ELSE "resolving",
                ![w].actor = byHash[c.token]]
  /\ UNCHANGED <<store, op, up, crashes, history>>

\* The other half, for BearerAuthMiddleware's early gate, which keeps nothing.
Gate(w) ==
  /\ up
  /\ call[w].pc = "checking"
  /\ ~creds[call[w].actor].revoked
  /\ call' = [call EXCEPT ![w].pc = "gated", ![w].actor = None]
  /\ UNCHANGED <<store, op, up, crashes, history>>

\* Mutant: the identity of another request in progress.
ResolveAsAnother(w) ==
  /\ up
  /\ call[w].pc = "resolving"
  /\ \E i \in {call[v].actor : v \in Worker} \ {None} :
       /\ ~creds[i].revoked
       /\ call' = [call EXCEPT ![w].pc = "running",
                               ![w].actor = i,
                               ![w].mode = creds[i].mode]
  /\ UNCHANGED <<store, op, up, crashes, history>>

\* And for _resolve_actor, which takes the identity and the mode from it.
Resolve(w) ==
  LET i == call[w].actor IN
  /\ up
  /\ call[w].pc = "resolving"
  /\ ~creds[i].revoked
  /\ call' = [call EXCEPT ![w].pc = "running", ![w].mode = creds[i].mode]
  /\ UNCHANGED <<store, op, up, crashes, history>>

\* 401 at either place: an unknown hash, or a revoked credential.
Refuse(w) ==
  LET c == call[w] IN
  /\ up
  /\ \/ c.pc \in {"arrived", "gated"} /\ byHash[c.token] = None
     \/ c.pc \in {"checking", "resolving"} /\ creds[c.actor].revoked
  /\ call' = [call EXCEPT ![w] = Quiet]
  /\ UNCHANGED <<store, op, up, crashes, history>>

Finish(w) ==
  /\ up
  /\ call[w].pc = "running"
  /\ call' = [call EXCEPT ![w] = Quiet]
  /\ UNCHANGED <<store, op, up, crashes, history>>

----------------------------------------------------------------------------
\* The process dies, also right after the file was replaced, and comes back.

Crash ==
  /\ up
  /\ crashes < MaxCrashes
  /\ crashes' = crashes + 1
  /\ up' = FALSE
  /\ file' \in IF op = None THEN {file} ELSE {file, creds}
  /\ op' = None
  /\ creds' = Nothing
  /\ byHash' = Nowhere
  /\ call' = [w \in Worker |-> Quiet]
  /\ UNCHANGED history

\* Mutant: the index by hash is not loaded.
RestartWithoutIndex ==
  /\ ~up
  /\ up' = TRUE
  /\ creds' = file
  /\ UNCHANGED <<byHash, file, op, call, crashes, history>>

\* _load
Restart ==
  /\ ~up
  /\ up' = TRUE
  /\ creds' = file
  /\ byHash' = [t \in Token |->
                  LET of == {i \in Id : file[i] # None /\ file[i].token = t}
                  IN  IF of = {} THEN None ELSE CHOOSE i \in of : TRUE]
  /\ UNCHANGED <<file, op, call, crashes, history>>

Next ==
  \/ Issue \/ Revoke \/ Rotate \/ Persist \/ PersistFails
  \/ \E w \in Worker : \/ Arrive(w) \/ LookUp(w) \/ Gate(w) \/ Resolve(w)
                      \/ Refuse(w) \/ Finish(w)
  \/ Crash \/ Restart

Spec == Init /\ [][Next]_vars

----------------------------------------------------------------------------
\* Properties.

Grant == [id : Id, mode : Mode]

TypeOK ==
  /\ creds \in Creds
  /\ byHash \in [Token -> Id \cup {None}]
  /\ file \in Creds
  /\ op \in {None} \cup
       [kind : {"issue", "revoke", "rotate"}, id : Id, token : Token]
  /\ up \in BOOLEAN
  /\ call \in [Worker -> [pc     : {"idle", "arrived", "checking", "gated",
                                    "resolving", "running"},
                          token  : Token \cup {None},
                          actor  : Id \cup {None},
                          mode   : Mode,
                          barred : SUBSET Token]]
  /\ crashes \in 0..MaxCrashes
  /\ minted \in [Token -> Id \cup {None}]
  /\ issued \in [Token -> Grant \cup {None}]
  /\ at_risk \in SUBSET Token
  /\ dead \in SUBSET at_risk

\* Once the operator has seen a revocation or a rotation succeed, no request
\* that arrives later runs on a token the credential had before: not after
\* writes that failed since, nor after a crash and a restart.
DeadTokensAreRefused ==
  \A w \in Worker : call[w].pc = "running" => call[w].token \notin call[w].barred

\* What verify says of a token of which nothing changes while it runs.
Verified(t) == byHash[t] # None /\ ~creds[byHash[t]].revoked

\* A token that was handed out works, for the credential and with the mode it
\* was issued for, as long as nobody has tried to revoke or rotate it,
\* whatever has failed or crashed since.
IssuedTokensWork ==
  up => \A t \in Token :
          issued[t] # None /\ t \notin at_risk =>
            /\ Verified(t)
            /\ byHash[t] = issued[t].id
            /\ creds[byHash[t]].mode = issued[t].mode

\* A request is run as the credential its token was handed out for, and never
\* with a wider mode.
RunsAsIssued ==
  \A w \in Worker :
    LET c == call[w] IN
    c.pc = "running" /\ issued[c.token] # None =>
      [id |-> c.actor, mode |-> c.mode] = issued[c.token]

\* No credential has two tokens that work.
OneTokenEach ==
  \A s, t \in Token : Verified(s) /\ Verified(t) /\ byHash[s] = byHash[t] => s = t

=============================================================================
