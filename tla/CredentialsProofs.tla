------------------------- MODULE CredentialsProofs -------------------------
(***************************************************************************)
(* Proofs about Credentials.tla, for any sets of ids, tokens and requests  *)
(* and any number of crashes.                                              *)
(*                                                                         *)
(* The inductive invariant says of a table of credentials what makes it    *)
(* safe to look tokens up in (Sound, Keeps), and that both the memory and  *)
(* the file are such tables at all times: a crash may fall anywhere, and   *)
(* the file is what comes back.                                            *)
(***************************************************************************)
EXTENDS Credentials, TLAPS

USE DEF Mode, Credential, Creds, Grant

\* Every token is the one its credential got last, a dead one is revoked, and
\* no mode differs from the one that was handed out.
Sound(f) ==
  \A i \in Id : f[i] # None =>
    /\ minted[f[i].token] = i
    /\ f[i].token \in dead => f[i].revoked
    /\ \A t \in Token : issued[t] # None /\ issued[t].id = i =>
         issued[t].mode = f[i].mode

\* What was handed out and never threatened is there.
Keeps(f) ==
  \A t \in Token : issued[t] # None /\ t \notin at_risk =>
    /\ f[issued[t].id] # None
    /\ f[issued[t].id].token = t
    /\ ~f[issued[t].id].revoked

TablesInv ==
  /\ Sound(file) /\ Keeps(file)
  /\ Sound(creds)
  /\ up => Keeps(creds)

\* byHash is the inverse of the tokens in memory.
IndexInv ==
  /\ \A i \in Id : creds[i] # None => byHash[creds[i].token] = i
  /\ \A t \in Token : byHash[t] # None =>
       creds[byHash[t]] # None /\ creds[byHash[t]].token = t

\* What is threatened or handed out was minted, for that credential.
MintInv ==
  /\ \A t \in at_risk : minted[t] # None
  /\ \A t \in Token : issued[t] # None => issued[t].id = minted[t]

\* The memory is ready to be written.
PendingInv ==
  op # None =>
    /\ creds[op.id] # None
    /\ op.kind = "revoke" =>
         /\ creds[op.id].revoked
         /\ \A s \in Token : minted[s] = op.id => s \in at_risk
    /\ op.kind # "revoke" => creds[op.id].token = op.token /\ ~creds[op.id].revoked
    /\ op.kind = "rotate" =>
         \A s \in Token : minted[s] = op.id /\ s # op.token => s \in at_risk

\* What a request has looked up is the credential its token was made for; if
\* the token was dead on arrival, the credential is revoked by now.
Found(c) ==
  /\ minted[c.token] = c.actor
  /\ c.actor \in Id
  /\ creds[c.actor] # None

CallsInv ==
  \A w \in Worker :
    /\ call[w].barred \subseteq dead
    /\ call[w].pc # "idle" => call[w].token \in Token
    /\ call[w].pc \in {"checking", "resolving", "running"} => Found(call[w])
    /\ call[w].pc \in {"checking", "resolving"} /\ call[w].token \in call[w].barred =>
         creds[call[w].actor].revoked
    /\ call[w].pc = "running" =>
         /\ call[w].token \notin call[w].barred
         /\ call[w].mode = creds[call[w].actor].mode

DownInv ==
  ~up => creds = Nothing /\ byHash = Nowhere /\ op = None
         /\ \A w \in Worker : call[w].pc = "idle"

Inv == /\ TypeOK /\ TablesInv /\ IndexInv /\ MintInv
       /\ PendingInv /\ CallsInv /\ DownInv

Frame == [pc     : {"idle", "arrived", "checking", "gated", "resolving", "running"},
          token  : Token \cup {None},
          actor  : Id \cup {None},
          mode   : Mode,
          barred : SUBSET Token]

----------------------------------------------------------------------------

\* The empty store satisfies the invariant.
LEMMA InitInv == Init => Inv
BY CredentialsAssumption
   DEF Init, Inv, TypeOK, TablesInv, Sound, Keeps, IndexInv, MintInv, PendingInv,
       CallsInv, DownInv, Nothing, Nowhere, Quiet

\* A step that leaves the store, the history and the operation alone has to
\* be looked at only for the requests.
LEMMA CallStep ==
  ASSUME Inv, UNCHANGED <<store, op, up, crashes, history>>,
         TypeOK', CallsInv',
         up
  PROVE  Inv'
BY DEF Inv, store, history, TablesInv, Sound, Keeps, IndexInv, MintInv, PendingInv, DownInv

\* A request keeps what CallsInv says of it, whatever it says of the others.
LEMMA RequestStep ==
  ASSUME Inv, UNCHANGED <<store, op, up, crashes, history>>, up,
         NEW w \in Worker,
         NEW c \in Frame,
         call' = [call EXCEPT ![w] = c],
         c.barred \subseteq dead,
         c.pc # "idle" => c.token \in Token,
         c.pc \in {"checking", "resolving", "running"} => Found(c),
         c.pc \in {"checking", "resolving"} /\ c.token \in c.barred =>
           creds[c.actor].revoked,
         c.pc = "running" =>
           /\ c.token \notin c.barred
           /\ c.mode = creds[c.actor].mode
  PROVE  Inv'
<1>1. TypeOK'
  BY DEF Inv, TypeOK, store, history, Frame
<1>2. CallsInv'
  <2>. SUFFICES ASSUME NEW v \in Worker PROVE CallsInv!(v)'
    BY DEF CallsInv
  <2>1. CASE v = w
    <3>1. call'[v] = c
      BY <2>1 DEF Inv, TypeOK
    <3>. QED
      BY <3>1 DEF Found, store, history
  <2>2. CASE v # w
    <3>1. call'[v] = call[v]
      BY <2>2 DEF Inv, TypeOK
    <3>. QED
      BY <3>1 DEF Inv, CallsInv, Found, store, history
  <2>. QED  BY <2>1, <2>2
<1>. QED  BY <1>1, <1>2, CallStep

LEMMA ArriveInv ==
  ASSUME Inv, NEW w \in Worker, Arrive(w)
  PROVE  Inv'
<1>. PICK t \in Token \ Fresh :
       call' = [call EXCEPT ![w] = [Quiet EXCEPT !.pc = "arrived", !.token = t,
                                                 !.barred = dead]]
  BY DEF Arrive
<1>. DEFINE c == [Quiet EXCEPT !.pc = "arrived", !.token = t, !.barred = dead]
<1>1. dead \in SUBSET Token
  BY DEF Inv, TypeOK
<1>2. Quiet \in Frame
  BY DEF Quiet, Frame
<1>3. c \in Frame /\ c.pc = "arrived" /\ c.token = t /\ c.barred = dead
  BY <1>1, <1>2 DEF Frame
<1>4. call' = [call EXCEPT ![w] = c]
  OBVIOUS
<1>. HIDE DEF c
<1>. QED  BY <1>3, <1>4, RequestStep DEF Arrive

\* The index leads to the credential the token was made for, and a dead token
\* only to a revoked one.
LEMMA LookUpInv ==
  ASSUME Inv, NEW w \in Worker, LookUp(w)
  PROVE  Inv'
<1>. DEFINE t == call[w].token
            i == byHash[t]
            pc == IF call[w].pc = "arrived" THEN "checking" ELSE "resolving"
            c == [call[w] EXCEPT !.pc = pc, !.actor = i]
<1>1. call' = [call EXCEPT ![w] = c]
  BY DEF LookUp, Inv, TypeOK
<1>2. t \in Token /\ call[w].barred \subseteq dead
  BY DEF LookUp, Inv, CallsInv
<1>3. i \in Id /\ creds[i] # None /\ creds[i].token = t
  BY <1>2 DEF LookUp, Inv, IndexInv, TypeOK
<1>4. minted[t] = i /\ (t \in dead => creds[i].revoked)
  BY <1>3 DEF Inv, TablesInv, Sound
<1>5. /\ c \in Frame /\ c.pc \in {"checking", "resolving"}
      /\ c.token = t /\ c.barred = call[w].barred /\ c.actor = i
  <2>1. call[w] \in Frame
    BY DEF Inv, TypeOK, Frame
  <2>2. pc \in {"checking", "resolving"}
    OBVIOUS
  <2>. HIDE DEF i, t, pc
  <2>. QED  BY <1>3, <2>1, <2>2 DEF Frame, t
<1>. HIDE DEF c, i, t
<1>6. /\ c.barred \subseteq dead /\ c.token \in Token /\ c.pc # "running"
      /\ Found(c)
      /\ c.token \in c.barred => creds[c.actor].revoked
  BY <1>2, <1>3, <1>4, <1>5 DEF Found
<1>7. UNCHANGED <<store, op, up, crashes, history>> /\ up
  BY DEF LookUp
<1>. QED  BY <1>1, <1>5, <1>6, <1>7, RequestStep

LEMMA GateInv ==
  ASSUME Inv, NEW w \in Worker, Gate(w)
  PROVE  Inv'
<1>. DEFINE c == [call[w] EXCEPT !.pc = "gated", !.actor = None]
<1>1. call' = [call EXCEPT ![w] = c]
  BY DEF Gate, Inv, TypeOK
<1>2. /\ c \in Frame
      /\ c.pc = "gated" /\ c.token = call[w].token /\ c.barred = call[w].barred
  BY DEF Inv, TypeOK, Frame
<1>3. c.barred \subseteq dead /\ c.token \in Token
  BY <1>2 DEF Gate, Inv, CallsInv
<1>. HIDE DEF c
<1>. QED  BY <1>1, <1>2, <1>3, RequestStep DEF Gate

LEMMA ResolveInv ==
  ASSUME Inv, NEW w \in Worker, Resolve(w)
  PROVE  Inv'
<1>. DEFINE i == call[w].actor
            c == [call[w] EXCEPT !.pc = "running", !.mode = creds[i].mode]
<1>1. call' = [call EXCEPT ![w] = c]
  BY DEF Resolve, Inv, TypeOK
<1>2. /\ call[w].token \in Token /\ call[w].barred \subseteq dead
      /\ Found(call[w]) /\ call[w].token \notin call[w].barred
  BY DEF Resolve, Inv, CallsInv
<1>3. creds[i].mode \in Mode
  BY <1>2 DEF Found, Inv, TypeOK
<1>4. /\ c \in Frame
      /\ c.pc = "running" /\ c.token = call[w].token /\ c.barred = call[w].barred
      /\ c.actor = i /\ c.mode = creds[i].mode
  <2>1. call[w] \in Frame
    BY DEF Inv, TypeOK, Frame
  <2>. QED  BY <1>3, <2>1 DEF Frame
<1>. HIDE DEF c
<1>5. Found(c)
  BY <1>2, <1>4 DEF Found
<1>6. UNCHANGED <<store, op, up, crashes, history>> /\ up
  BY DEF Resolve
<1>. QED  BY <1>1, <1>2, <1>4, <1>5, <1>6, RequestStep

LEMMA RefuseFinishInv ==
  ASSUME Inv, NEW w \in Worker, Refuse(w) \/ Finish(w)
  PROVE  Inv'
<1>1. call' = [call EXCEPT ![w] = Quiet]
  BY DEF Refuse, Finish
<1>2. Quiet \in Frame /\ Quiet.pc = "idle" /\ Quiet.barred = {}
  BY DEF Quiet, Frame
<1>. QED  BY <1>1, <1>2, RequestStep DEF Refuse, Finish

----------------------------------------------------------------------------
\* issue, revoke, rotate.

\* A fresh token is nowhere: not in a table, not handed out, not threatened.
LEMMA FreshToken ==
  ASSUME Inv, NEW t \in Fresh
  PROVE  /\ t \in Token /\ minted[t] = None /\ issued[t] = None
         /\ t \notin at_risk /\ t \notin dead /\ byHash[t] = None
         /\ \A i \in Id : /\ creds[i] # None => creds[i].token # t
                          /\ file[i] # None => file[i].token # t
BY CredentialsAssumption
   DEF Inv, TypeOK, Fresh, TablesInv, Sound, IndexInv, MintInv

\* An id that nothing was minted for has no credential.
LEMMA FreshId ==
  ASSUME Inv, NEW i \in Id, \A s \in Token : minted[s] # i
  PROVE  /\ creds[i] = None /\ file[i] = None
         /\ \A s \in Token : issued[s] # None => issued[s].id # i
BY DEF Inv, TypeOK, TablesInv, Sound, MintInv

LEMMA IssueInv ==
  ASSUME Inv, Issue
  PROVE  Inv'
<1>. PICK i \in Id, t \in Fresh, m \in Mode :
       /\ \A s \in Token : minted[s] # i
       /\ creds' = [creds EXCEPT ![i] = [token |-> t, revoked |-> FALSE, mode |-> m]]
       /\ byHash' = [byHash EXCEPT ![t] = i]
       /\ op' = [kind |-> "issue", id |-> i, token |-> t]
       /\ minted' = [minted EXCEPT ![t] = i]
  BY DEF Issue
<1>1. UNCHANGED <<file, up, call, crashes, issued, at_risk, dead>> /\ up /\ op = None
  BY DEF Issue, Free
<1>2. /\ creds[i] = None /\ file[i] = None
      /\ \A s \in Token : issued[s] # None => issued[s].id # i
  BY FreshId
<1>3. /\ t \in Token /\ minted[t] = None /\ issued[t] = None
      /\ t \notin at_risk /\ t \notin dead /\ byHash[t] = None
      /\ \A j \in Id : /\ creds[j] # None => creds[j].token # t
                       /\ file[j] # None => file[j].token # t
  BY FreshToken
<1>4. /\ creds'[i] = [token |-> t, revoked |-> FALSE, mode |-> m] /\ creds'[i] # None
      /\ \A j \in Id : j # i => creds'[j] = creds[j]
      /\ minted'[t] = i /\ \A s \in Token : s # t => minted'[s] = minted[s]
      /\ byHash'[t] = i /\ \A s \in Token : s # t => byHash'[s] = byHash[s]
  <2>. DEFINE r == [token |-> t, revoked |-> FALSE, mode |-> m]
  <2>1. r \in Credential
    BY <1>3
  <2>2. r # None
    BY <2>1, CredentialsAssumption
  <2>3. creds' = [creds EXCEPT ![i] = r]
    OBVIOUS
  <2>4. creds'[i] = r /\ \A j \in Id : j # i => creds'[j] = creds[j]
    <3>. HIDE DEF r
    <3>. QED  BY <2>3 DEF Inv, TypeOK
  <2>5. /\ minted'[t] = i /\ \A s \in Token : s # t => minted'[s] = minted[s]
        /\ byHash'[t] = i /\ \A s \in Token : s # t => byHash'[s] = byHash[s]
    BY <1>3 DEF Inv, TypeOK
  <2>. QED  BY <2>2, <2>4, <2>5
<1>5. TypeOK'
  BY <1>1, <1>3 DEF Inv, TypeOK
<1>6. TablesInv'
  <2>1. Sound(file)'
    BY <1>1, <1>3, <1>4 DEF Inv, TypeOK, TablesInv, Sound
  <2>2. Sound(creds)'
    BY <1>1, <1>2, <1>3, <1>4 DEF Inv, TypeOK, TablesInv, Sound
  <2>3. Keeps(file)' /\ Keeps(creds)'
    BY <1>1, <1>2, <1>3, <1>4 DEF Inv, TypeOK, TablesInv, Keeps
  <2>. QED  BY <2>1, <2>2, <2>3 DEF TablesInv
<1>7. IndexInv'
  BY <1>2, <1>3, <1>4, CredentialsAssumption DEF Inv, TypeOK, IndexInv
<1>8. MintInv'
  BY <1>1, <1>3, <1>4, CredentialsAssumption DEF Inv, TypeOK, MintInv
<1>9. PendingInv'
  BY <1>4 DEF PendingInv
<1>10. CallsInv'
  <2>. SUFFICES ASSUME NEW w \in Worker PROVE CallsInv!(w)'
    BY DEF CallsInv
  <2>1. CallsInv!(w) /\ call'[w] = call[w] /\ dead' = dead
    BY <1>1 DEF Inv, CallsInv
  <2>2. call[w].pc \in {"checking", "resolving", "running"} =>
          call[w].actor # i /\ call[w].token # t
    BY <1>2, <1>3, <2>1, CredentialsAssumption DEF Found
  <2>. QED  BY <1>4, <2>1, <2>2 DEF Found
<1>11. DownInv'
  BY <1>1 DEF DownInv
<1>. QED  BY <1>5, <1>6, <1>7, <1>8, <1>9, <1>10, <1>11 DEF Inv

LEMMA RevokeInv ==
  ASSUME Inv, Revoke
  PROVE  Inv'
<1>. PICK i \in Id :
       /\ creds[i] # None
       /\ creds' = [creds EXCEPT ![i].revoked = TRUE]
       /\ op' = [kind |-> "revoke", id |-> i, token |-> creds[i].token]
       /\ at_risk' = at_risk \cup TokensOf(i)
  BY DEF Revoke
<1>1. UNCHANGED <<byHash, file, up, call, crashes, minted, issued, dead>> /\ up /\ op = None
  BY DEF Revoke, Free
<1>2. creds[i] \in Credential
  BY DEF Inv, TypeOK
<1>3. /\ creds'[i] \in Credential /\ creds'[i] # None
      /\ creds'[i].token = creds[i].token /\ creds'[i].mode = creds[i].mode
      /\ creds'[i].revoked
      /\ \A j \in Id : j # i => creds'[j] = creds[j]
  BY <1>2, CredentialsAssumption DEF Inv, TypeOK
<1>4. /\ at_risk \subseteq at_risk' /\ at_risk' \subseteq Token
      /\ \A t \in Token : minted[t] = i => t \in at_risk'
      /\ \A t \in at_risk' : minted[t] # None
  BY CredentialsAssumption DEF Inv, TypeOK, TokensOf, MintInv
<1>5. TypeOK'
  <2>1. creds' \in Creds /\ op'.token \in Token
    BY <1>2, <1>3 DEF Inv, TypeOK
  <2>. QED  BY <1>1, <1>4, <2>1 DEF Inv, TypeOK
<1>6. TablesInv'
  <2>1. Sound(file)' /\ Sound(creds)'
    BY <1>1, <1>3 DEF Inv, TablesInv, Sound
  <2>2. Keeps(file)'
    BY <1>1, <1>4 DEF Inv, TablesInv, Keeps
  <2>3. Keeps(creds)'
    BY <1>1, <1>3, <1>4 DEF Inv, TypeOK, TablesInv, Keeps, MintInv
  <2>. QED  BY <2>1, <2>2, <2>3 DEF TablesInv
<1>7. IndexInv'
  BY <1>1, <1>3 DEF Inv, TypeOK, IndexInv
<1>8. MintInv'
  BY <1>1, <1>4 DEF Inv, MintInv
<1>9. PendingInv'
  BY <1>1, <1>3, <1>4 DEF PendingInv
<1>10. CallsInv'
  BY <1>1, <1>3 DEF Inv, CallsInv, Found
<1>11. DownInv'
  BY <1>1 DEF DownInv
<1>. QED  BY <1>5, <1>6, <1>7, <1>8, <1>9, <1>10, <1>11 DEF Inv

LEMMA RotateInv ==
  ASSUME Inv, Rotate
  PROVE  Inv'
<1>. PICK i \in Id, t \in Fresh :
       /\ creds[i] # None
       /\ ~creds[i].revoked
       /\ creds' = [creds EXCEPT ![i].token = t]
       /\ byHash' = [byHash EXCEPT ![creds[i].token] = None, ![t] = i]
       /\ op' = [kind |-> "rotate", id |-> i, token |-> t]
       /\ minted' = [minted EXCEPT ![t] = i]
       /\ at_risk' = at_risk \cup TokensOf(i)
  BY DEF Rotate
<1>1. UNCHANGED <<file, up, call, crashes, issued, dead>> /\ up /\ op = None
  BY DEF Rotate, Free
<1>2. creds[i] \in Credential /\ creds[i].token \in Token
  BY DEF Inv, TypeOK
<1>3. /\ t \in Token /\ minted[t] = None /\ issued[t] = None
      /\ t \notin at_risk /\ t \notin dead /\ byHash[t] = None
      /\ \A j \in Id : /\ creds[j] # None => creds[j].token # t
                       /\ file[j] # None => file[j].token # t
  BY FreshToken
<1>4. /\ creds'[i] \in Credential /\ creds'[i] # None
      /\ creds'[i].token = t /\ creds'[i].mode = creds[i].mode
      /\ ~creds'[i].revoked
      /\ \A j \in Id : j # i => creds'[j] = creds[j]
  BY <1>2, <1>3, CredentialsAssumption DEF Inv, TypeOK
<1>5. /\ minted'[t] = i /\ \A s \in Token : s # t => minted'[s] = minted[s]
      /\ byHash'[t] = i /\ byHash'[creds[i].token] = None
      /\ \A s \in Token : s # t /\ s # creds[i].token => byHash'[s] = byHash[s]
  BY <1>2, <1>3 DEF Inv, TypeOK
<1>6. /\ at_risk \subseteq at_risk' /\ at_risk' \subseteq Token
      /\ t \notin at_risk'
      /\ \A s \in Token : minted[s] = i => s \in at_risk'
      /\ \A s \in at_risk' : minted[s] # None
  BY <1>3, CredentialsAssumption DEF Inv, TypeOK, TokensOf, MintInv
<1>7. TypeOK'
  <2>1. creds' \in Creds
    BY <1>2, <1>3, <1>4 DEF Inv, TypeOK
  <2>2. byHash' \in [Token -> Id \cup {None}] /\ minted' \in [Token -> Id \cup {None}]
    BY <1>2, <1>3 DEF Inv, TypeOK
  <2>. QED  BY <1>1, <1>3, <1>6, <2>1, <2>2 DEF Inv, TypeOK
<1>8. TablesInv'
  <2>1. Sound(file)'
    BY <1>1, <1>3, <1>5 DEF Inv, TypeOK, TablesInv, Sound
  <2>2. Sound(creds)'
    BY <1>1, <1>3, <1>4, <1>5 DEF Inv, TypeOK, TablesInv, Sound
  <2>3. Keeps(file)'
    BY <1>1, <1>6 DEF Inv, TablesInv, Keeps
  <2>4. Keeps(creds)'
    BY <1>1, <1>3, <1>4, <1>6 DEF Inv, TypeOK, TablesInv, Keeps, MintInv
  <2>. QED  BY <2>1, <2>2, <2>3, <2>4 DEF TablesInv
<1>9. IndexInv'
  <2>1. \A j \in Id : creds'[j] # None => byHash'[creds'[j].token] = j
    <3>. SUFFICES ASSUME NEW j \in Id, creds'[j] # None, j # i
                  PROVE  byHash'[creds'[j].token] = j
      BY <1>4, <1>5
    <3>1. creds'[j] = creds[j] /\ creds[j].token \in Token /\ byHash[creds[j].token] = j
      BY <1>4 DEF Inv, TypeOK, IndexInv
    <3>2. creds[j].token # creds[i].token
      BY <3>1 DEF Inv, IndexInv
    <3>. QED  BY <1>3, <1>5, <3>1, <3>2
  <2>2. ASSUME NEW s \in Token, byHash'[s] # None
        PROVE  creds'[byHash'[s]] # None /\ creds'[byHash'[s]].token = s
    <3>1. CASE s = t
      BY <1>4, <1>5, <3>1
    <3>2. CASE s # t
      <4>1. s # creds[i].token /\ byHash'[s] = byHash[s]
        BY <1>3, <1>5, <2>2, <3>2
      <4>2. creds[byHash[s]] # None /\ creds[byHash[s]].token = s /\ byHash[s] \in Id
        BY <2>2, <4>1 DEF Inv, TypeOK, IndexInv
      <4>. QED  BY <1>4, <4>1, <4>2
    <3>. QED  BY <3>1, <3>2
  <2>. QED  BY <2>1, <2>2 DEF IndexInv
<1>10. MintInv'
  BY <1>1, <1>3, <1>5, <1>6, CredentialsAssumption DEF Inv, TypeOK, MintInv
<1>11. PendingInv'
  BY <1>4, <1>5, <1>6 DEF PendingInv
<1>12. CallsInv'
  <2>. SUFFICES ASSUME NEW w \in Worker PROVE CallsInv!(w)'
    BY DEF CallsInv
  <2>1. CallsInv!(w) /\ call'[w] = call[w] /\ dead' = dead
    BY <1>1 DEF Inv, CallsInv
  <2>2. call[w].pc \in {"checking", "resolving", "running"} => call[w].token # t
    BY <1>3, <2>1, CredentialsAssumption DEF Found
  <2>. QED  BY <1>4, <1>5, <2>1, <2>2 DEF Found
<1>13. DownInv'
  BY <1>1 DEF DownInv
<1>. QED  BY <1>7, <1>8, <1>9, <1>10, <1>11, <1>12, <1>13 DEF Inv

----------------------------------------------------------------------------
\* The write, and its failure.

LEMMA PersistFailsInv ==
  ASSUME Inv, PersistFails
  PROVE  Inv'
<1>1. UNCHANGED <<store, up, call, crashes, history>> /\ up /\ op' = None
  BY DEF PersistFails
<1>2. TypeOK' /\ TablesInv' /\ IndexInv' /\ MintInv'
  BY <1>1 DEF Inv, TypeOK, TablesInv, Sound, Keeps, IndexInv, MintInv, store, history
<1>3. PendingInv' /\ CallsInv' /\ DownInv'
  BY <1>1 DEF Inv, PendingInv, CallsInv, Found, DownInv, store, history
<1>. QED  BY <1>2, <1>3 DEF Inv

\* What the operator is told of is dead or handed out, and the table in memory
\* is ready for it.
LEMMA PersistInv ==
  ASSUME Inv, Persist
  PROVE  Inv'
<1>1. /\ UNCHANGED <<creds, byHash, up, call, crashes, minted, at_risk>>
      /\ up /\ file' = creds /\ op' = None /\ op # None
  BY DEF Persist
<1>. DEFINE i == op.id
            t == op.token
<1>2. /\ i \in Id /\ t \in Token /\ creds[i] # None /\ creds[i] \in Credential
      /\ op.kind \in {"issue", "revoke", "rotate"}
      /\ op.kind = "revoke" =>
           /\ creds[i].revoked
           /\ \A s \in Token : minted[s] = i => s \in at_risk
      /\ op.kind # "revoke" => creds[i].token = t /\ ~creds[i].revoked
      /\ op.kind = "rotate" => \A s \in Token : minted[s] = i /\ s # t => s \in at_risk
      /\ minted[creds[i].token] = i
  BY <1>1 DEF Inv, TypeOK, PendingInv, TablesInv, Sound
<1>3. /\ dead \subseteq dead' /\ dead' \subseteq at_risk
      /\ \A s \in dead' : s \notin dead =>
           minted[s] = i /\ (op.kind = "revoke" \/ s # t)
  <2>1. dead \subseteq at_risk
    BY DEF Inv, TypeOK
  <2>. QED  BY <1>2, <2>1 DEF Persist, Acknowledge, TokensOf
<1>4. /\ issued' \in [Token -> Grant \cup {None}]
      /\ \A s \in Token :
           \/ issued'[s] = issued[s]
           \/ s = t /\ op.kind # "revoke" /\ issued'[s].id = i /\ issued'[s].mode = creds[i].mode
  <2>. DEFINE g == Deliver
  <2>1. g \in Grant /\ g.id = i /\ g.mode = creds[i].mode
    BY <1>2 DEF Deliver
  <2>2. issued' = IF op.kind = "revoke" THEN issued ELSE [issued EXCEPT ![t] = g]
    BY DEF Persist, Acknowledge
  <2>. HIDE DEF g, t, i
  <2>. QED  BY <1>2, <2>1, <2>2 DEF Inv, TypeOK
<1>. HIDE DEF i, t
<1>5. TypeOK'
  BY <1>1, <1>3, <1>4 DEF Inv, TypeOK
<1>6. Sound(creds)'
  <2>. SUFFICES ASSUME NEW j \in Id, creds[j] # None
                PROVE  /\ minted[creds[j].token] = j
                       /\ creds[j].token \in dead' => creds[j].revoked
                       /\ \A s \in Token : issued'[s] # None /\ issued'[s].id = j =>
                            issued'[s].mode = creds[j].mode
    BY <1>1 DEF Sound
  <2>1. /\ minted[creds[j].token] = j
        /\ creds[j].token \in dead => creds[j].revoked
        /\ \A s \in Token : issued[s] # None /\ issued[s].id = j =>
             issued[s].mode = creds[j].mode
    BY DEF Inv, TablesInv, Sound
  <2>. QED  BY <1>2, <1>3, <1>4, <2>1
<1>7. Keeps(creds)'
  <2>1. Keeps(creds)
    BY <1>1 DEF Inv, TablesInv
  <2>. QED  BY <1>1, <1>2, <1>4, <2>1 DEF Keeps
<1>8. TablesInv'
  <2>1. Sound(file)' /\ Keeps(file)'
    BY <1>1, <1>6, <1>7 DEF Sound, Keeps
  <2>. QED  BY <1>6, <1>7, <2>1 DEF TablesInv
<1>9. IndexInv'
  BY <1>1 DEF Inv, IndexInv
<1>10. MintInv'
  BY <1>1, <1>2, <1>4 DEF Inv, MintInv
<1>11. PendingInv'
  BY <1>1 DEF PendingInv
<1>12. CallsInv'
  BY <1>1, <1>3 DEF Inv, CallsInv, Found
<1>13. DownInv'
  BY <1>1 DEF DownInv
<1>. QED  BY <1>5, <1>8, <1>9, <1>10, <1>11, <1>12, <1>13 DEF Inv

----------------------------------------------------------------------------
\* Crash and restart.

LEMMA CrashInv ==
  ASSUME Inv, Crash
  PROVE  Inv'
<1>1. /\ UNCHANGED history /\ up /\ up' = FALSE /\ op' = None
      /\ file' \in {file, creds} /\ crashes' = crashes + 1 /\ crashes < MaxCrashes
      /\ creds' = Nothing /\ byHash' = Nowhere /\ call' = [w \in Worker |-> Quiet]
  BY DEF Crash
<1>2. UNCHANGED <<minted, issued, at_risk, dead>>
  BY <1>1 DEF history
<1>3. /\ \A i \in Id : creds'[i] = None
      /\ \A t \in Token : byHash'[t] = None
      /\ \A w \in Worker : call'[w].pc = "idle" /\ call'[w].barred = {}
  BY <1>1 DEF Nothing, Nowhere, Quiet
<1>4. TypeOK'
  <2>1. crashes' \in 0..MaxCrashes
    BY <1>1, CredentialsAssumption DEF Inv, TypeOK
  <2>2. creds' \in Creds /\ byHash' \in [Token -> Id \cup {None}]
    BY <1>1 DEF Nothing, Nowhere
  <2>3. file' \in Creds
    BY <1>1 DEF Inv, TypeOK
  <2>4. Quiet \in Frame
    BY DEF Quiet, Frame
  <2>5. call' \in [Worker -> Frame]
    BY <1>1, <2>4
  <2>. QED  BY <1>1, <1>2, <2>1, <2>2, <2>3, <2>5 DEF Inv, TypeOK, Frame
<1>5. Sound(file)' /\ Keeps(file)'
  BY <1>1, <1>2 DEF Inv, TablesInv, Sound, Keeps
<1>6. TablesInv' /\ IndexInv' /\ CallsInv' /\ DownInv'
  BY <1>1, <1>3, <1>5 DEF TablesInv, Sound, IndexInv, CallsInv, DownInv
<1>7. MintInv' /\ PendingInv'
  BY <1>1, <1>2 DEF Inv, MintInv, PendingInv
<1>. QED  BY <1>4, <1>6, <1>7 DEF Inv

\* _load finds at most one credential for a token: the table is sound.
LEMMA RestartInv ==
  ASSUME Inv, Restart
  PROVE  Inv'
<1>. DEFINE of(t) == {i \in Id : file[i] # None /\ file[i].token = t}
<1>1. /\ UNCHANGED <<file, op, call, crashes, minted, issued, at_risk, dead>>
      /\ ~up /\ up' = TRUE /\ creds' = file
      /\ byHash' = [t \in Token |-> IF of(t) = {} THEN None ELSE CHOOSE i \in of(t) : TRUE]
  BY DEF Restart, history
<1>2. op = None /\ \A w \in Worker : call[w].pc = "idle"
  BY <1>1 DEF Inv, DownInv
<1>3. ASSUME NEW t \in Token, NEW i \in of(t)
      PROVE  byHash'[t] = i
  <2>1. \A j \in of(t) : j = minted[t]
    BY DEF Inv, TablesInv, Sound
  <2>2. byHash'[t] = CHOOSE j \in of(t) : TRUE
    BY <1>1
  <2>3. (CHOOSE j \in of(t) : TRUE) \in of(t)
    OBVIOUS
  <2>. QED  BY <1>3, <2>1, <2>2, <2>3
<1>4. ASSUME NEW t \in Token, byHash'[t] # None
      PROVE  byHash'[t] \in of(t)
  <2>1. of(t) # {}
    BY <1>1, <1>4
  <2>. QED  BY <1>3, <2>1
<1>5. byHash' \in [Token -> Id \cup {None}]
  <2>1. \A t \in Token : byHash'[t] \in Id \cup {None}
    BY <1>4
  <2>. QED  BY <1>1, <2>1
<1>6. TypeOK'
  BY <1>1, <1>5 DEF Inv, TypeOK
<1>7. TablesInv'
  BY <1>1 DEF Inv, TablesInv, Sound, Keeps
<1>8. IndexInv'
  <2>1. \A i \in Id : creds'[i] # None => creds'[i].token \in Token
    BY <1>1 DEF Inv, TypeOK
  <2>. QED  BY <1>1, <1>3, <1>4, <2>1 DEF IndexInv
<1>9. MintInv'
  BY <1>1 DEF Inv, MintInv
<1>10. PendingInv' /\ CallsInv' /\ DownInv'
  BY <1>1, <1>2 DEF Inv, PendingInv, CallsInv, DownInv
<1>. QED  BY <1>6, <1>7, <1>8, <1>9, <1>10 DEF Inv

----------------------------------------------------------------------------
\* The theorems.

LEMMA StepInv == Inv /\ [Next]_vars => Inv'
<1>. SUFFICES ASSUME Inv, [Next]_vars PROVE Inv'
  OBVIOUS
<1>1. CASE Issue \/ Revoke \/ Rotate
  BY <1>1, IssueInv, RevokeInv, RotateInv
<1>2. CASE Persist \/ PersistFails \/ Crash \/ Restart
  BY <1>2, PersistInv, PersistFailsInv, CrashInv, RestartInv
<1>3. ASSUME NEW w \in Worker,
             Arrive(w) \/ LookUp(w) \/ Gate(w) \/ Resolve(w) \/ Refuse(w) \/ Finish(w)
      PROVE  Inv'
  BY <1>3, ArriveInv, LookUpInv, GateInv, ResolveInv, RefuseFinishInv
<1>4. CASE UNCHANGED vars
  <2>1. UNCHANGED <<store, op, up, call, crashes, history>>
    BY <1>4 DEF vars
  <2>2. TypeOK' /\ TablesInv' /\ IndexInv' /\ MintInv'
    BY <2>1 DEF Inv, TypeOK, TablesInv, Sound, Keeps, IndexInv, MintInv, store, history
  <2>3. PendingInv' /\ CallsInv' /\ DownInv'
    BY <2>1 DEF Inv, PendingInv, CallsInv, Found, DownInv, store, history
  <2>. QED  BY <2>2, <2>3 DEF Inv
<1>. QED  BY <1>1, <1>2, <1>3, <1>4 DEF Next

LEMMA Invariance == Spec => []Inv
BY InitInv, StepInv, PTL DEF Spec

\* CredentialStore (auth.py:120-260): memory, index, file and the operation
\* under the lock stay what the code takes them for.
THEOREM TypeCorrectness == Spec => []TypeOK
BY Invariance, PTL DEF Inv

\* A request that arrives after the operator saw a revocation or a rotation
\* succeed is not run on a token the credential had before (auth.py verify,
\* mcp_server.py's two checks), whatever failed or crashed in between.
THEOREM DeadTokens == Spec => []DeadTokensAreRefused
<1>1. Inv => DeadTokensAreRefused
  BY DEF Inv, CallsInv, DeadTokensAreRefused
<1>. QED  BY <1>1, Invariance, PTL

\* A delivered token that nobody tried to revoke or rotate is verified, as its
\* credential and with its mode (auth.py issue, _persist, _load, verify).
THEOREM IssuedWork == Spec => []IssuedTokensWork
<1>1. Inv => IssuedTokensWork
  <2>. SUFFICES ASSUME Inv, up, NEW t \in Token, issued[t] # None, t \notin at_risk
                PROVE  /\ Verified(t)
                       /\ byHash[t] = issued[t].id
                       /\ creds[byHash[t]].mode = issued[t].mode
    BY DEF IssuedTokensWork
  <2>. DEFINE i == issued[t].id
  <2>1. i \in Id
    BY DEF Inv, TypeOK
  <2>2. creds[i] # None /\ creds[i].token = t /\ ~creds[i].revoked
    BY DEF Inv, TablesInv, Keeps
  <2>3. byHash[t] = i /\ i # None /\ creds[i].mode = issued[t].mode
    BY <2>1, <2>2, CredentialsAssumption DEF Inv, IndexInv, TablesInv, Sound
  <2>. QED  BY <2>2, <2>3 DEF Verified
<1>. QED  BY <1>1, Invariance, PTL

\* A request runs as the credential its token was handed out for, with the mode
\* of that credential (mcp_server.py _resolve_actor).
THEOREM RunAsIssued == Spec => []RunsAsIssued
<1>1. Inv => RunsAsIssued
  <2>. SUFFICES ASSUME Inv, NEW w \in Worker, call[w].pc = "running",
                       issued[call[w].token] # None
                PROVE  [id |-> call[w].actor, mode |-> call[w].mode] = issued[call[w].token]
    BY DEF RunsAsIssued
  <2>. DEFINE c == call[w]
              g == issued[c.token]
  <2>1. /\ c.token \in Token /\ minted[c.token] = c.actor /\ c.actor \in Id
        /\ creds[c.actor] # None /\ c.mode = creds[c.actor].mode
    BY DEF Inv, CallsInv, Found
  <2>2. g \in Grant /\ g.id = c.actor
    BY <2>1 DEF Inv, TypeOK, MintInv
  <2>3. g.mode = c.mode
    BY <2>1, <2>2 DEF Inv, TablesInv, Sound
  <2>. QED  BY <2>2, <2>3
<1>. QED  BY <1>1, Invariance, PTL

\* A credential never has two tokens that work (auth.py rotate).
THEOREM OneToken == Spec => []OneTokenEach
<1>1. Inv => OneTokenEach
  BY DEF Inv, IndexInv, OneTokenEach, Verified
<1>. QED  BY <1>1, Invariance, PTL

=============================================================================
