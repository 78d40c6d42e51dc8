-------------------------- MODULE ConnectionProofs --------------------------
(***************************************************************************)
(* Proofs about Connection.tla, for any browsers, clients and policies and *)
(* any number of operations, faults and restarts.                          *)
(*                                                                         *)
(* The invariant says of every operation what it holds at each pc, and of  *)
(* one that has been alone that what it holds is what the files say.       *)
(***************************************************************************)
EXTENDS Connection, TLAPS

Rebuild == {"client", "token", "config", "assign"}
Redeem == {"exchange", "open", "fill", "replace"}
Unlinked == {Demo, NotConnected}

\* What an operation holds fits what it does next.
HoldsInv ==
  /\ \A a \in Actor :
       /\ op[a].pc = "exchange" => op[a].holds \in [made : OAuthClient, used : OAuthClient]
       /\ op[a].pc = "token" => op[a].holds \in OAuthClient
       /\ op[a].pc \in {"config", "assign"} => op[a].holds \in Link
       /\ op[a].pc = "assign" => op[a].cache \in {Cache[p] : p \in Policy \cup {Defaults}}
       /\ op[a].pc \in {"open", "fill", "replace"} => op[a].holds \in Token
       /\ op[a].pc = "write" => op[a].holds \in Policy
  /\ \A a \in Admin : flow[a] # None => clientFile # None

\* As long as one thread at a time has the temporary file, it is empty until
\* it is filled, and whole from then on.
TmpInv ==
  ~shared =>
    /\ tokenFile # Cut
    /\ \A a \in Actor : op[a].pc = "fill" => op[a].at = "tmp" /\ tmpFile = Cut
    /\ \A a \in Actor : op[a].pc = "replace" => tmpFile \in Token
    /\ \A a, b \in Actor :
         op[a].pc \in {"fill", "replace"} /\ op[b].pc \in {"fill", "replace"} => a = b

Alone(a) == ~Idle(a) /\ op[a].alone

\* Nothing else runs while an operation is alone, and what it has read is
\* what there is.
AloneInv ==
  /\ \A a \in Actor : Alone(a) =>
       /\ \A b \in Actor : b # a => Idle(b)
       /\ op[a].pc \in Redeem => op[a].kind # "disconnect"
       /\ op[a].pc = "fill" => op[a].at = "tmp"
       /\ op[a].pc = "token" => op[a].holds = ClientOf(clientFile)
       /\ op[a].pc \in {"config", "assign"} => op[a].holds = Made(ClientOf(clientFile), tokenFile)
       /\ op[a].pc = "assign" => op[a].cache = Cache[policy]
       /\ op[a].kind = "disconnect" /\ op[a].pc \in Rebuild => tokenFile = None
  /\ ~mixed => \A a \in Actor : Idle(a) \/ Alone(a)

\* Without overlap the backend lags behind only inside an operation.
LinkInv ==
  ~mixed =>
    /\ (\A a \in Actor : op[a].pc \notin Rebuild) =>
         backend.link = Made(ClientOf(clientFile), tokenFile)
    /\ (\A a \in Actor : op[a].pc \notin Rebuild \cup {"reconfigure"}) =>
         backend.cache = Cache[policy]

\* After a disconnect there is no token to be had, nor one on its way.
GoneInv ==
  gone =>
    /\ backend.link \in Unlinked
    /\ tokenFile \notin Token
    /\ \A a \in Actor :
         /\ op[a].pc \notin Redeem
         /\ op[a].pc \in {"config", "assign"} => op[a].holds \in Unlinked

\* The policy in force, the file and what the operator expects.
PolicyInv ==
  /\ policyFile \in Policy => policyFile \in chosen
  /\ CASE op[Loop].pc = "write" -> policyFile = Cut /\ policy \in chosen \cup {Defaults}
       [] op[Loop].pc = "load" -> policyFile \in Policy
       [] op[Loop].pc = "reconfigure" -> policyFile \in Policy /\ policy = policyFile
       [] OTHER ->
            \/ policy \in chosen /\ (policyFile \in Policy => policy = policyFile)
            \/ policy = Defaults /\ policyFile \in {Cut, Garbled}

Inv == /\ TypeOK /\ HoldsInv /\ TmpInv /\ AloneInv
       /\ LinkInv /\ GoneInv /\ PolicyInv

----------------------------------------------------------------------------
\* What the three ways an operation moves do to the operations.

PC == {"idle", "client", "token", "config", "assign", "exchange", "open",
       "fill", "replace", "unlink", "write", "load", "reconfigure"}

\* Operation a moves, the others do not.
Only(a) == \A b \in Actor : b # a => op'[b] = op[b]

LEMMA GoesStep ==
  ASSUME TypeOK, NEW a \in Actor, NEW pc, NEW next \in PC, NEW h \in Held,
         Goes(a, pc, next, h)
  PROVE  /\ op' \in [Actor -> Operation] /\ ops' = ops /\ Only(a)
         /\ op[a].pc = pc /\ op'[a].pc = next /\ op'[a].holds = h
         /\ op'[a].kind = op[a].kind /\ op'[a].alone = op[a].alone
         /\ op'[a].at = op[a].at
<1>1. op[a] \in Operation
  BY DEF TypeOK
<1>. DEFINE r == [op[a] EXCEPT !.pc = next, !.holds = h]
<1>2. /\ r \in Operation /\ r.pc = next /\ r.holds = h
      /\ r.kind = op[a].kind /\ r.alone = op[a].alone /\ r.at = op[a].at
  BY <1>1 DEF Operation, PC
<1>3. op' = [op EXCEPT ![a] = r]
  BY DEF Goes, TypeOK
<1>. HIDE DEF r
<1>. QED  BY <1>2, <1>3 DEF Goes, TypeOK, Only

LEMMA Bounds ==
  MaxOps \in Nat /\ MaxTokens \in Nat /\ MaxFaults \in Nat /\ MaxRestarts \in Nat
BY ConnectionAssumption, Zenon

LEMMA RestIsOperation ==
  /\ Rest \in Operation
  /\ Rest.pc = "idle" /\ Rest.kind = None /\ Rest.holds = None
  /\ Rest.at = None /\ Rest.alone = TRUE
BY DEF Rest, Operation, Held

LEMMA EndsStep ==
  ASSUME TypeOK, NEW a \in Actor, NEW pc, Ends(a, pc)
  PROVE  /\ op' \in [Actor -> Operation] /\ ops' = ops /\ Only(a)
         /\ op[a].pc = pc /\ op'[a].pc = "idle"
BY RestIsOperation DEF Ends, TypeOK, Only

LEMMA BeginStep ==
  ASSUME TypeOK, NEW a \in Actor,
         NEW kind \in {"client", "callback", "disconnect", "config"},
         NEW pc \in PC \ {"idle"}, NEW h \in Held,
         Begin(a, kind, pc, h)
  PROVE  /\ op' \in [Actor -> Operation] /\ ops' \in 0..MaxOps
         /\ Idle(a)
         /\ op'[a].pc = pc /\ op'[a].kind = kind /\ op'[a].holds = h
         /\ op'[a].alone <=> \A b \in Actor : b # a => Idle(b)
         /\ \A b \in Actor : b # a =>
              /\ op'[b].pc = op[b].pc /\ op'[b].holds = op[b].holds
              /\ op'[b].at = op[b].at /\ op'[b].cache = op[b].cache
              /\ op[b].pc # "idle" => ~op'[b].alone
         /\ mixed' <=> mixed \/ \E b \in Actor : b # a /\ ~Idle(b)
<1>. DEFINE others == {b \in Actor \ {a} : ~Idle(b)}
            mine == [Rest EXCEPT !.kind = kind, !.pc = pc, !.holds = h,
                                 !.alone = others = {}]
            theirs(b) == [op[b] EXCEPT !.alone = FALSE]
<1>1. /\ mine \in Operation /\ mine.pc = pc /\ mine.kind = kind /\ mine.holds = h
      /\ mine.alone = (others = {})
  BY RestIsOperation DEF Operation, PC
<1>2. ASSUME NEW b \in Actor
      PROVE  /\ theirs(b) \in Operation /\ theirs(b).alone = FALSE
             /\ theirs(b).pc = op[b].pc /\ theirs(b).holds = op[b].holds
             /\ theirs(b).at = op[b].at /\ theirs(b).cache = op[b].cache
  <2>1. op[b] \in Operation
    BY DEF TypeOK
  <2>. QED  BY <2>1 DEF Operation
<1>3. op' = [b \in Actor |-> IF b = a THEN mine ELSE IF b \in others THEN theirs(b) ELSE op[b]]
  BY DEF Begin
<1>. HIDE DEF mine, theirs
<1>4. op' \in [Actor -> Operation]
  BY <1>1, <1>2, <1>3 DEF TypeOK
<1>5. op'[a] = mine
  BY <1>3
<1>6. \A b \in Actor : b # a =>
        op'[b] = IF op[b].pc # "idle" THEN theirs(b) ELSE op[b]
  BY <1>3 DEF Idle
<1>7. ops' \in 0..MaxOps
  <2>1. ops \in 0..MaxOps /\ ops < MaxOps /\ ops' = ops + 1
    BY DEF Begin, TypeOK
  <2>. QED  BY <2>1, Bounds
<1>8. others = {} <=> \A b \in Actor : b # a => Idle(b)
  OBVIOUS
<1>9. Idle(a) /\ mixed' = (mixed \/ others # {})
  BY DEF Begin
<1>10. /\ op'[a].pc = pc /\ op'[a].kind = kind /\ op'[a].holds = h
       /\ op'[a].alone = (others = {})
  BY <1>1, <1>5
<1>11. \A b \in Actor : b # a =>
         /\ op'[b].pc = op[b].pc /\ op'[b].holds = op[b].holds
         /\ op'[b].at = op[b].at /\ op'[b].cache = op[b].cache
         /\ op[b].pc # "idle" => ~op'[b].alone
  BY <1>2, <1>6
<1>12. /\ op'[a].alone <=> \A b \in Actor : b # a => Idle(b)
       /\ mixed' <=> mixed \/ \E b \in Actor : b # a /\ ~Idle(b)
  <2>1. CASE others = {}
    BY <1>8, <1>9, <1>10, <2>1
  <2>2. CASE others # {}
    BY <1>8, <1>9, <1>10, <2>2
  <2>. QED  BY <2>1, <2>2
<1>. QED  BY <1>4, <1>7, <1>9, <1>10, <1>11, <1>12

----------------------------------------------------------------------------
\* Values.

LEMMA Distinct ==
  /\ Cut \notin Token /\ Cut \notin Policy /\ Cut # None
  /\ None \notin Token /\ None \notin OAuthClient
  /\ Garbled \notin Policy /\ Garbled # Cut /\ Defaults \notin Policy
  /\ Loop \notin Admin
BY ConnectionAssumption, Zenon

LEMMA MadeIsLink ==
  ASSUME NEW c \in OAuthClient \cup {None}, NEW t
  PROVE  /\ Made(c, t) \in Link
         /\ t \notin Token => Made(c, t) \in Unlinked
BY DEF Made, Unconfigured, Link, Unlinked

LEMMA ClientIsKnown ==
  /\ ClientOf(None) = EnvClient
  /\ \A file \in OAuthClient \cup {None} : ClientOf(file) \in OAuthClient \cup {None}
BY ConnectionAssumption DEF ClientOf

LEMMA LinkIsHeld == Link \subseteq Held /\ OAuthClient \subseteq Held
                    /\ Token \subseteq Held /\ Policy \subseteq Held /\ None \in Held
                    /\ [made : OAuthClient, used : OAuthClient] \subseteq Held
BY DEF Held

LEMMA InitInv == Init => Inv
<1>. SUFFICES ASSUME Init PROVE Inv
  OBVIOUS
<1>1. /\ \A a \in Actor : op[a] = Rest
      /\ policyFile \in Policy /\ policy = policyFile /\ chosen = {policy}
      /\ clientFile = None /\ tokenFile \in Token \cup {None} /\ tmpFile = None
      /\ backend = [link |-> Made(ClientOf(clientFile), tokenFile), cache |-> Cache[policy]]
      /\ \A a \in Admin : flow[a] = None
      /\ gone = FALSE /\ mixed = FALSE /\ shared = FALSE
  BY Bounds, ClientIsKnown DEF Init, Token
<1>2. Loop \in Actor /\ \A a \in Actor : op[a].pc = "idle"
  BY <1>1, RestIsOperation DEF Actor
<1>3. TypeOK
  <2>1. op \in [Actor -> Operation]
    BY RestIsOperation DEF Init
  <2>2. backend \in [link : Link, cache : {Cache[p] : p \in Policy \cup {Defaults}}]
    BY <1>1, MadeIsLink, ClientIsKnown
  <2>3. /\ ops \in 0..MaxOps /\ serial \in 0..MaxTokens
        /\ faults \in 0..MaxFaults /\ restarts \in 0..MaxRestarts
    BY Bounds DEF Init
  <2>. QED  BY <1>1, <2>1, <2>2, <2>3 DEF Init, TypeOK, PolicyText
<1>4. HoldsInv /\ TmpInv
  BY <1>1, <1>2, Distinct DEF HoldsInv, TmpInv
<1>5. AloneInv /\ GoneInv /\ PolicyInv
  BY <1>1, <1>2 DEF AloneInv, GoneInv, PolicyInv, Alone, Idle
<1>6. LinkInv
  BY <1>1 DEF LinkInv
<1>. QED  BY <1>3, <1>4, <1>5, <1>6 DEF Inv

----------------------------------------------------------------------------
\* Steps that change an operation and nothing else.

HoldsOK(r) ==
  /\ r.pc = "exchange" => r.holds \in [made : OAuthClient, used : OAuthClient]
  /\ r.pc = "token" => r.holds \in OAuthClient
  /\ r.pc \in {"config", "assign"} => r.holds \in Link
  /\ r.pc = "assign" => r.cache \in {Cache[p] : p \in Policy \cup {Defaults}}
  /\ r.pc \in {"open", "fill", "replace"} => r.holds \in Token
  /\ r.pc = "write" => r.holds \in Policy

HasReadRight(r) ==
  /\ r.pc \in Redeem => r.kind # "disconnect"
  /\ r.pc = "fill" => r.at = "tmp"
  /\ r.pc = "token" => r.holds = ClientOf(clientFile)
  /\ r.pc \in {"config", "assign"} => r.holds = Made(ClientOf(clientFile), tokenFile)
  /\ r.pc = "assign" => r.cache = Cache[policy]
  /\ r.kind = "disconnect" /\ r.pc \in Rebuild => tokenFile = None

Tokenless(r) ==
  /\ r.pc \notin Redeem
  /\ r.pc \in {"config", "assign"} => r.holds \in Unlinked

Saving == {"write", "load", "reconfigure"}

LEMMA Onward ==
  ASSUME Inv, NEW a \in Actor,
         UNCHANGED <<files, ctx, flow, history>>,
         op' \in [Actor -> Operation], Only(a), ops' \in 0..MaxOps,
         serial' \in 0..MaxTokens, faults' \in 0..MaxFaults, restarts' \in 0..MaxRestarts,
         HoldsOK(op'[a]),
         op'[a].pc \notin {"fill", "replace"} \cup Saving,
         op[a].pc \notin {"idle"} \cup Saving,
         op'[a].pc # "idle" =>
           op'[a].alone = op[a].alone /\ (op[a].alone => HasReadRight(op'[a])),
         op'[a].pc \notin Rebuild => op[a].pc \notin Rebuild,
         gone => Tokenless(op'[a])
  PROVE  Inv'
<1>1. /\ UNCHANGED <<clientFile, tokenFile, tmpFile, policyFile, policy, backend, flow,
                    chosen, gone, mixed, shared>>
      /\ \A b \in Actor : b # a => op'[b] = op[b]
  BY DEF files, ctx, history, Only
<1>2. TypeOK'
  BY <1>1 DEF Inv, TypeOK
<1>3. HoldsInv'
  BY <1>1 DEF Inv, HoldsInv, HoldsOK
<1>4. TmpInv'
  BY <1>1 DEF Inv, TmpInv
<1>5. AloneInv'
  <2>1. ASSUME NEW b \in Actor, Alone(b)'
        PROVE  b = a /\ op[a].alone
    <3>1. CASE b = a
      BY <1>1, <2>1, <3>1 DEF Alone, Idle
    <3>2. CASE b # a
      BY <1>1, <2>1, <3>2 DEF Inv, AloneInv, Alone, Idle
    <3>. QED  BY <3>1, <3>2
  <2>2. ASSUME op[a].alone
        PROVE  \A c \in Actor : c # a => op'[c].pc = "idle"
    BY <1>1, <2>2 DEF Inv, AloneInv, Alone, Idle
  <2>3. ~mixed' => \A b \in Actor : op'[b].pc = "idle" \/ op'[b].alone
    BY <1>1 DEF Inv, AloneInv, Alone, Idle
  <2>. QED  BY <1>1, <2>1, <2>2, <2>3 DEF AloneInv, Alone, Idle, HasReadRight, Made, ClientOf
<1>6. LinkInv'
  BY <1>1 DEF Inv, LinkInv, Saving, Made, ClientOf
<1>7. GoneInv'
  BY <1>1 DEF Inv, GoneInv, Tokenless
<1>8. PolicyInv'
  <2>1. op[Loop].pc \notin Saving => op'[Loop].pc \notin Saving
    BY <1>1 DEF Actor
  <2>2. op[Loop].pc \in Saving => op'[Loop].pc = op[Loop].pc
    BY <1>1 DEF Actor
  <2>. QED  BY <1>1, <2>1, <2>2 DEF Inv, PolicyInv, Saving
<1>. QED  BY <1>2, <1>3, <1>4, <1>5, <1>6, <1>7, <1>8 DEF Inv

LEMMA ReadClientInv ==
  ASSUME Inv, NEW a \in Actor, ReadClient(a)
  PROVE  Inv'
<1>1. TypeOK /\ UNCHANGED <<files, ctx, flow, bounds, history>>
  BY DEF Inv, ReadClient
<1>2. clientFile \in OAuthClient \cup {None}
  BY <1>1 DEF TypeOK
<1>3. \E next \in {"config", "token"}, h \in Link \cup OAuthClient :
        /\ Goes(a, "client", next, h)
        /\ next = "config" => h = Unconfigured /\ ClientOf(clientFile) = None
        /\ next = "token" => h = ClientOf(clientFile) /\ h \in OAuthClient
  BY <1>2, ConnectionAssumption DEF ReadClient, ClientOf, Unconfigured, Link
<1>. PICK next \in {"config", "token"}, h \in Link \cup OAuthClient :
        /\ Goes(a, "client", next, h)
        /\ next = "config" => h = Unconfigured /\ ClientOf(clientFile) = None
        /\ next = "token" => h = ClientOf(clientFile) /\ h \in OAuthClient
  BY <1>3
<1>4. /\ op' \in [Actor -> Operation] /\ ops' = ops /\ Only(a)
      /\ op[a].pc = "client" /\ op'[a].pc = next /\ op'[a].holds = h
      /\ op'[a].kind = op[a].kind /\ op'[a].alone = op[a].alone
  <2>1. next \in PC /\ h \in Held
    BY LinkIsHeld DEF PC
  <2>2. Goes(a, "client", next, h)
    OBVIOUS
  <2>. QED  BY <1>1, <2>1, <2>2, GoesStep, ZenonT(60)
<1>5. HoldsOK(op'[a]) /\ Tokenless(op'[a])
  BY <1>4 DEF HoldsOK, Tokenless, Link, Unlinked, Unconfigured, Redeem
<1>6. op[a].alone => HasReadRight(op'[a])
  BY <1>4 DEF Inv, AloneInv, Alone, Idle, HasReadRight, Made, ClientOf, Rebuild, Redeem
<1>7. /\ ops' \in 0..MaxOps
      /\ serial' \in 0..MaxTokens /\ faults' \in 0..MaxFaults /\ restarts' \in 0..MaxRestarts
  BY <1>1, <1>4 DEF TypeOK, bounds
<1>. QED  BY <1>1, <1>4, <1>5, <1>6, <1>7, Onward DEF Saving, Rebuild

LEMMA ReadTokenInv ==
  ASSUME Inv, NEW a \in Actor, ReadToken(a)
  PROVE  Inv'
<1>1. TypeOK /\ UNCHANGED <<files, ctx, flow, bounds, history>>
  BY DEF Inv, ReadToken
<1>. DEFINE h == Made(op[a].holds, tokenFile)
<1>2. op[a].pc = "token" /\ op[a].holds \in OAuthClient
  BY DEF ReadToken, Goes, Inv, HoldsInv
<1>3. h \in Link /\ (tokenFile \notin Token => h \in Unlinked)
  BY <1>2, MadeIsLink
<1>4. /\ op' \in [Actor -> Operation] /\ ops' = ops /\ Only(a)
      /\ op'[a].pc = "config" /\ op'[a].holds = h
      /\ op'[a].kind = op[a].kind /\ op'[a].alone = op[a].alone
  <2>1. "config" \in PC /\ h \in Held
    BY <1>3, LinkIsHeld DEF PC
  <2>. QED  BY <1>1, <2>1, GoesStep DEF ReadToken
<1>5. op[a].alone => h = Made(ClientOf(clientFile), tokenFile)
  BY <1>2 DEF Inv, AloneInv, Alone, Idle
<1>6. op[a].alone /\ op[a].kind = "disconnect" => tokenFile = None
  BY <1>2 DEF Inv, AloneInv, Alone, Idle, Rebuild
<1>7. gone => h \in Unlinked
  BY <1>3 DEF Inv, GoneInv
<1>. HIDE DEF h
<1>8. HoldsOK(op'[a]) /\ (gone => Tokenless(op'[a]))
  BY <1>3, <1>4, <1>7 DEF HoldsOK, Tokenless, Redeem
<1>9. op[a].alone => HasReadRight(op'[a])
  BY <1>4, <1>5, <1>6 DEF HasReadRight, Redeem
<1>10. /\ ops' \in 0..MaxOps
       /\ serial' \in 0..MaxTokens /\ faults' \in 0..MaxFaults /\ restarts' \in 0..MaxRestarts
  BY <1>1, <1>4 DEF TypeOK, bounds
<1>. QED  BY <1>1, <1>2, <1>4, <1>8, <1>9, <1>10, Onward DEF Saving, Rebuild

LEMMA ReadConfigInv ==
  ASSUME Inv, NEW a \in Actor, ReadConfig(a)
  PROVE  Inv'
<1>1. TypeOK /\ UNCHANGED <<files, ctx, flow, ops, bounds, history>>
  BY DEF Inv, ReadConfig
<1>. DEFINE r == [op[a] EXCEPT !.pc = "assign", !.cache = Cache[policy]]
<1>2. op[a] \in Operation /\ op[a].pc = "config" /\ op[a].holds \in Link
  BY <1>1 DEF ReadConfig, TypeOK, Inv, HoldsInv
<1>3. op' = [op EXCEPT ![a] = r]
  BY <1>1 DEF ReadConfig, TypeOK
<1>4. Cache[policy] \in {Cache[p] : p \in Policy \cup {Defaults}}
  BY <1>1 DEF TypeOK
<1>5. /\ r \in Operation /\ r.pc = "assign" /\ r.cache = Cache[policy]
      /\ r.holds = op[a].holds /\ r.kind = op[a].kind /\ r.alone = op[a].alone
  BY <1>2, <1>4 DEF Operation
<1>. HIDE DEF r
<1>6. op' \in [Actor -> Operation] /\ op'[a] = r /\ Only(a)
  BY <1>1, <1>3, <1>5 DEF TypeOK, Only
<1>7. HoldsOK(r) /\ (gone => Tokenless(r))
  BY <1>2, <1>4, <1>5 DEF HoldsOK, Tokenless, Inv, GoneInv, Redeem
<1>8. op[a].alone => HasReadRight(r)
  BY <1>2, <1>5 DEF HasReadRight, Inv, AloneInv, Alone, Idle, Rebuild, Redeem
<1>9. /\ ops' \in 0..MaxOps
      /\ serial' \in 0..MaxTokens /\ faults' \in 0..MaxFaults /\ restarts' \in 0..MaxRestarts
  BY <1>1 DEF TypeOK, bounds
<1>. QED  BY <1>1, <1>2, <1>5, <1>6, <1>7, <1>8, <1>9, Onward DEF Saving, Rebuild

LEMMA ExchangeInv ==
  ASSUME Inv, NEW a \in Actor, Exchange(a)
  PROVE  Inv'
<1>. DEFINE h == [client |-> op[a].holds.used, serial |-> serial + 1]
<1>1. /\ TypeOK /\ UNCHANGED <<files, ctx, flow, faults, restarts, history>>
      /\ op[a].pc = "exchange" /\ serial < MaxTokens /\ serial' = serial + 1
      /\ Goes(a, "exchange", "open", h)
  BY DEF Inv, Exchange
<1>2. h \in Token
  <2>1. op[a].holds \in [made : OAuthClient, used : OAuthClient]
    BY <1>1 DEF Inv, HoldsInv
  <2>2. serial + 1 \in 1..MaxTokens
    BY <1>1, Bounds DEF TypeOK
  <2>. QED  BY <2>1, <2>2 DEF Token
<1>. HIDE DEF h
<1>3. /\ op' \in [Actor -> Operation] /\ ops' = ops /\ Only(a)
      /\ op'[a].pc = "open" /\ op'[a].holds = h
      /\ op'[a].kind = op[a].kind /\ op'[a].alone = op[a].alone
  <2>1. "open" \in PC /\ h \in Held
    BY <1>2, LinkIsHeld DEF PC
  <2>. QED  BY <1>1, <2>1, GoesStep
<1>4. HoldsOK(op'[a]) /\ ~gone
  BY <1>1, <1>2, <1>3 DEF HoldsOK, Inv, GoneInv, Redeem
<1>5. op[a].alone => HasReadRight(op'[a])
  BY <1>1, <1>3 DEF HasReadRight, Rebuild, Redeem, Inv, AloneInv, Alone, Idle
<1>6. /\ ops' \in 0..MaxOps
      /\ serial' \in 0..MaxTokens /\ faults' \in 0..MaxFaults /\ restarts' \in 0..MaxRestarts
  BY <1>1, <1>3, Bounds DEF TypeOK
<1>. QED  BY <1>1, <1>3, <1>4, <1>5, <1>6, Onward DEF Saving, Rebuild

\* Four ways to end early.
LEMMA FailsInv ==
  ASSUME Inv, NEW a \in Actor,
         ExchangeFails(a) \/ FillFails(a) \/ ReplaceFails(a) \/ UnlinkFails(a)
  PROVE  Inv'
<1>1. \E pc \in {"exchange", "fill", "replace", "unlink"} : Ends(a, pc)
  BY DEF ExchangeFails, FillFails, ReplaceFails, UnlinkFails
<1>2. /\ op' \in [Actor -> Operation] /\ ops' = ops /\ Only(a)
      /\ op[a].pc \in {"exchange", "fill", "replace", "unlink"} /\ op'[a].pc = "idle"
  BY <1>1, EndsStep DEF Inv
<1>3. /\ UNCHANGED <<files, ctx, flow, history, serial, restarts>>
      /\ faults' = faults \/ (faults < MaxFaults /\ faults' = faults + 1)
  BY DEF ExchangeFails, FillFails, ReplaceFails, UnlinkFails, Fault, bounds
<1>4. /\ ops' \in 0..MaxOps
      /\ serial' \in 0..MaxTokens /\ faults' \in 0..MaxFaults /\ restarts' \in 0..MaxRestarts
  BY <1>2, <1>3, Bounds DEF Inv, TypeOK
<1>5. HoldsOK(op'[a]) /\ Tokenless(op'[a])
  BY <1>2 DEF HoldsOK, Tokenless, Redeem
<1>. QED  BY <1>2, <1>3, <1>4, <1>5, Onward DEF Saving, Rebuild

----------------------------------------------------------------------------
\* The new backend.

LEMMA AssignInv ==
  ASSUME Inv, NEW a \in Actor, Assign(a)
  PROVE  Inv'
<1>1. /\ TypeOK /\ Ends(a, "assign")
      /\ UNCHANGED <<clientFile, tokenFile, tmpFile, policyFile, policy, flow,
                    serial, faults, restarts, chosen, shared>>
      /\ backend' = [link |-> op[a].holds, cache |-> op[a].cache]
      /\ mixed' = (mixed /\ ~op[a].alone)
      /\ gone' = (gone \/ (op[a].kind = "disconnect" /\ op[a].alone))
  BY DEF Inv, Assign, files, bounds
<1>2. /\ op' \in [Actor -> Operation] /\ ops' = ops
      /\ \A b \in Actor : b # a => op'[b] = op[b]
      /\ op[a].pc = "assign" /\ op'[a].pc = "idle"
  BY <1>1, EndsStep DEF Only
<1>3. /\ op[a].holds \in Link
      /\ op[a].cache \in {Cache[p] : p \in Policy \cup {Defaults}}
      /\ backend'.link = op[a].holds /\ backend'.cache = op[a].cache
      /\ op[a].alone \in BOOLEAN
  BY <1>1, <1>2 DEF Inv, HoldsInv, TypeOK, Operation
<1>4. op[a].alone =>
        /\ op[a].holds = Made(ClientOf(clientFile), tokenFile)
        /\ op[a].cache = Cache[policy]
        /\ op[a].kind = "disconnect" => tokenFile = None
        /\ \A b \in Actor : b # a => op[b].pc = "idle"
  BY <1>2 DEF Inv, AloneInv, Alone, Idle, Rebuild
<1>5. TypeOK'
  BY <1>1, <1>2, <1>3 DEF TypeOK
<1>6. HoldsInv' /\ TmpInv'
  BY <1>1, <1>2 DEF Inv, HoldsInv, TmpInv
<1>7. ~mixed => op[a].alone
  BY <1>2 DEF Inv, AloneInv, Alone, Idle
<1>8. AloneInv'
  <2>1. ~mixed' => \A b \in Actor : op'[b].pc = "idle"
    BY <1>1, <1>2, <1>3, <1>4, <1>7
  <2>2. ASSUME NEW b \in Actor, Alone(b)'
        PROVE  FALSE
    BY <1>2, <2>2 DEF Inv, AloneInv, Alone, Idle
  <2>. QED  BY <2>1, <2>2 DEF AloneInv, Idle
<1>9. LinkInv'
  BY <1>1, <1>3, <1>4, <1>7 DEF LinkInv, Made, ClientOf
<1>10. GoneInv'
  <2>1. CASE gone
    <3>1. op[a].holds \in Unlinked /\ tokenFile \notin Token
      BY <1>2, <2>1 DEF Inv, GoneInv
    <3>. QED  BY <1>1, <1>2, <1>3, <2>1, <3>1 DEF Inv, GoneInv, Redeem
  <2>2. CASE op[a].kind = "disconnect" /\ op[a].alone
    <3>1. op[a].holds \in Unlinked /\ tokenFile \notin Token
      BY <1>1, <1>4, <2>2, ClientIsKnown, MadeIsLink, Distinct DEF TypeOK
    <3>2. \A b \in Actor : op'[b].pc = "idle"
      BY <1>2, <1>4, <2>2
    <3>. QED  BY <1>1, <1>3, <3>1, <3>2 DEF GoneInv, Redeem
  <2>. QED  BY <1>1, <2>1, <2>2 DEF GoneInv
<1>11. PolicyInv'
  BY <1>1, <1>2 DEF Inv, PolicyInv, Actor
<1>. QED  BY <1>5, <1>6, <1>8, <1>9, <1>10, <1>11 DEF Inv

----------------------------------------------------------------------------
\* Operations begin.

LEMMA Begun ==
  ASSUME Inv, NEW a \in Actor,
         NEW kind \in {"client", "callback", "disconnect", "config"},
         NEW pc \in {"client", "exchange", "unlink", "write"}, NEW h \in Held,
         Begin(a, kind, pc, h),
         UNCHANGED <<tokenFile, tmpFile, policy, backend, serial, faults, restarts,
                     chosen, shared>>,
         clientFile' \in OAuthClient \cup {None},
         clientFile' = clientFile \/ (pc = "client" /\ clientFile' # None),
         flow' \in [Admin -> OAuthClient \cup {None}],
         \A b \in Admin : flow'[b] # None => clientFile' # None,
         gone' \in BOOLEAN, gone' => gone /\ pc # "exchange",
         kind = "disconnect" => pc # "exchange" /\ (pc = "client" => tokenFile = None),
         pc = "exchange" => h \in [made : OAuthClient, used : OAuthClient],
         IF pc = "write" THEN a = Loop /\ h \in Policy /\ policyFile' = Cut
                         ELSE policyFile' = policyFile
  PROVE  Inv'
<1>1. /\ op' \in [Actor -> Operation] /\ ops' \in 0..MaxOps
      /\ op[a].pc = "idle"
      /\ op'[a].pc = pc /\ op'[a].kind = kind /\ op'[a].holds = h
      /\ op'[a].alone <=> \A b \in Actor : b # a => Idle(b)
      /\ \A b \in Actor : b # a =>
           /\ op'[b].pc = op[b].pc /\ op'[b].holds = op[b].holds
           /\ op'[b].at = op[b].at /\ op'[b].cache = op[b].cache
           /\ op[b].pc # "idle" => ~op'[b].alone
      /\ mixed' <=> mixed \/ \E b \in Actor : b # a /\ ~Idle(b)
  <2>1. pc \in PC \ {"idle"} /\ TypeOK
    BY DEF PC, Inv
  <2>. QED  BY <2>1, BeginStep DEF Idle
<1>2. mixed' \in BOOLEAN
  BY DEF Begin, Inv, TypeOK
<1>3. TypeOK'
  BY <1>1, <1>2 DEF Inv, TypeOK, PolicyText
<1>4. HoldsInv'
  BY <1>1 DEF Inv, HoldsInv
<1>5. TmpInv'
  BY <1>1 DEF Inv, TmpInv
<1>6. AloneInv'
  <2>1. ASSUME NEW b \in Actor, Alone(b)'
        PROVE  b = a /\ op'[a].alone
    BY <1>1, <2>1 DEF Alone, Idle
  <2>2. op'[a].alone => \A b \in Actor : b # a => op'[b].pc = "idle"
    BY <1>1 DEF Idle
  <2>3. ~mixed' => \A b \in Actor : op'[b].pc = "idle" \/ (b = a /\ op'[b].alone)
    BY <1>1 DEF Idle
  <2>4. kind = "disconnect" /\ pc = "client" => tokenFile' = None
    OBVIOUS
  <2>. QED  BY <1>1, <2>1, <2>2, <2>3, <2>4 DEF AloneInv, Alone, Idle, Rebuild, Redeem
<1>7. LinkInv'
  <2>. SUFFICES ASSUME ~mixed' PROVE LinkInv'
    BY DEF LinkInv
  <2>1. ~mixed /\ \A b \in Actor : op[b].pc = "idle"
    BY <1>1 DEF Idle
  <2>2. backend.link = Made(ClientOf(clientFile), tokenFile) /\ backend.cache = Cache[policy]
    BY <2>1 DEF Inv, LinkInv, Rebuild
  <2>3. pc # "client" => clientFile' = clientFile
    OBVIOUS
  <2>. QED  BY <1>1, <2>2, <2>3 DEF LinkInv, Rebuild, Made, ClientOf
<1>8. GoneInv'
  BY <1>1 DEF Inv, GoneInv, Redeem
<1>9. PolicyInv'
  <2>1. CASE a = Loop
    BY <1>1, <2>1, Distinct DEF Inv, PolicyInv
  <2>2. CASE a # Loop
    BY <1>1, <2>2 DEF Inv, PolicyInv, Actor
  <2>. QED  BY <2>1, <2>2
<1>. QED  BY <1>3, <1>4, <1>5, <1>6, <1>7, <1>8, <1>9 DEF Inv

LEMMA SetupClientInv ==
  ASSUME Inv, SetupClient
  PROVE  Inv'
<1>1. /\ Begin(Loop, "client", "client", None) /\ clientFile' \in OAuthClient
      /\ UNCHANGED <<tokenFile, tmpFile, policyFile, policy, backend, flow,
                    serial, faults, restarts, chosen, gone, shared>>
  BY DEF SetupClient, ctx, bounds
<1>2. Loop \in Actor /\ None \in Held /\ clientFile' # None
  BY <1>1, LinkIsHeld, Distinct DEF Actor
<1>3. flow \in [Admin -> OAuthClient \cup {None}] /\ gone \in BOOLEAN
  BY DEF Inv, TypeOK
<1>. QED  BY <1>1, <1>2, <1>3, Begun

LEMMA SetupCallbackInv ==
  ASSUME Inv, NEW a \in Admin, SetupCallback(a)
  PROVE  Inv'
<1>. DEFINE h == [made |-> flow[a], used |-> clientFile]
<1>1. /\ Begin(a, "callback", "exchange", h)
      /\ flow[a] # None /\ flow' = [flow EXCEPT ![a] = None] /\ gone' = FALSE
      /\ UNCHANGED <<clientFile, tokenFile, tmpFile, policyFile, policy, backend,
                    serial, faults, restarts, chosen, shared>>
  BY DEF SetupCallback, files, ctx, bounds
<1>2. /\ flow \in [Admin -> OAuthClient \cup {None}] /\ clientFile \in OAuthClient \cup {None}
      /\ \A b \in Admin : flow[b] # None => clientFile # None
  BY DEF Inv, TypeOK, HoldsInv
<1>3. h \in [made : OAuthClient, used : OAuthClient]
  BY <1>1, <1>2
<1>. HIDE DEF h
<1>4. /\ flow' \in [Admin -> OAuthClient \cup {None}]
      /\ \A b \in Admin : flow'[b] # None => clientFile # None
  BY <1>1, <1>2
<1>5. a \in Actor /\ h \in Held
  BY <1>3, LinkIsHeld DEF Actor
<1>. QED  BY <1>1, <1>2, <1>3, <1>4, <1>5, Begun

LEMMA SetupDisconnectInv ==
  ASSUME Inv, NEW a \in Admin, SetupDisconnect(a)
  PROVE  Inv'
<1>. DEFINE pc == IF tokenFile = None THEN "client" ELSE "unlink"
<1>1. /\ Begin(a, "disconnect", pc, None)
      /\ UNCHANGED <<clientFile, tokenFile, tmpFile, policyFile, policy, backend, flow,
                    serial, faults, restarts, chosen, gone, shared>>
  BY DEF SetupDisconnect, files, ctx, bounds
<1>2. pc \in {"client", "unlink"} /\ (pc = "client" => tokenFile = None)
  OBVIOUS
<1>. HIDE DEF pc
<1>3. /\ flow \in [Admin -> OAuthClient \cup {None}] /\ clientFile \in OAuthClient \cup {None}
      /\ \A b \in Admin : flow[b] # None => clientFile # None
      /\ gone \in BOOLEAN
  BY DEF Inv, TypeOK, HoldsInv
<1>4. a \in Actor /\ None \in Held
  BY LinkIsHeld DEF Actor
<1>. QED  BY <1>1, <1>2, <1>3, <1>4, Begun

LEMMA ConfigSaveInv ==
  ASSUME Inv, ConfigSave
  PROVE  Inv'
<1>. PICK p \in Policy : Begin(Loop, "config", "write", p)
  BY DEF ConfigSave
<1>1. /\ policyFile' = Cut
      /\ UNCHANGED <<clientFile, tokenFile, tmpFile, policy, backend, flow,
                    serial, faults, restarts, chosen, gone, shared>>
  BY DEF ConfigSave, ctx, bounds
<1>2. /\ flow \in [Admin -> OAuthClient \cup {None}] /\ clientFile \in OAuthClient \cup {None}
      /\ \A b \in Admin : flow[b] # None => clientFile # None
      /\ gone \in BOOLEAN
  BY DEF Inv, TypeOK, HoldsInv
<1>3. Loop \in Actor /\ p \in Held
  BY LinkIsHeld DEF Actor
<1>. QED  BY <1>1, <1>2, <1>3, Begun

LEMMA SetupConnectInv ==
  ASSUME Inv, NEW a \in Admin, SetupConnect(a)
  PROVE  Inv'
<1>1. /\ clientFile # None /\ flow' = [flow EXCEPT ![a] = clientFile]
      /\ UNCHANGED <<clientFile, tokenFile, tmpFile, policyFile, policy, backend, op, ops,
                    serial, faults, restarts, chosen, gone, mixed, shared>>
  BY DEF SetupConnect, files, ctx, bounds, history
<1>2. TypeOK'
  BY <1>1 DEF Inv, TypeOK
<1>3. HoldsInv' /\ TmpInv'
  BY <1>1 DEF Inv, TypeOK, HoldsInv, TmpInv
<1>4. AloneInv' /\ LinkInv'
  BY <1>1 DEF Inv, AloneInv, LinkInv, Alone, Idle, Made, ClientOf
<1>5. GoneInv' /\ PolicyInv'
  BY <1>1 DEF Inv, GoneInv, PolicyInv
<1>. QED  BY <1>2, <1>3, <1>4, <1>5 DEF Inv

----------------------------------------------------------------------------
\* The token file.

LEMMA OpenInv ==
  ASSUME Inv, NEW a \in Actor, Open(a)
  PROVE  Inv'
<1>. DEFINE r == [op[a] EXCEPT !.pc = "fill", !.at = "tmp"]
<1>1. /\ TypeOK /\ op[a].pc = "open" /\ tmpFile' = Cut
      /\ shared' = (shared \/ \E b \in Actor \ {a} : op[b].pc \in {"fill", "replace"})
      /\ UNCHANGED <<clientFile, tokenFile, policyFile, policy, backend, flow, ops,
                    serial, faults, restarts, chosen, gone, mixed>>
      /\ op' = [op EXCEPT ![a] = r]
  BY DEF Open, Inv, TypeOK, ctx, bounds
<1>2. op[a] \in Operation /\ op[a].holds \in Token
  BY <1>1 DEF TypeOK, Inv, HoldsInv
<1>3. /\ r \in Operation /\ r.pc = "fill" /\ r.at = "tmp" /\ r.holds = op[a].holds
      /\ r.kind = op[a].kind /\ r.alone = op[a].alone
  BY <1>2 DEF Operation
<1>. HIDE DEF r
<1>4. /\ op' \in [Actor -> Operation] /\ op'[a] = r
      /\ \A b \in Actor : b # a => op'[b] = op[b]
  BY <1>1, <1>3 DEF TypeOK
<1>5. TypeOK'
  BY <1>1, <1>4 DEF TypeOK
<1>6. HoldsInv'
  BY <1>1, <1>2, <1>3, <1>4 DEF Inv, HoldsInv
<1>7. TmpInv'
  BY <1>1, <1>3, <1>4 DEF Inv, TmpInv
<1>8. AloneInv'
  <2>1. ASSUME NEW b \in Actor, Alone(b)'
        PROVE  b = a /\ Alone(a)
    BY <1>1, <1>3, <1>4, <2>1 DEF Inv, AloneInv, Alone, Idle
  <2>2. Alone(a) => op[a].kind # "disconnect" /\ \A b \in Actor : b # a => op'[b].pc = "idle"
    BY <1>1, <1>4 DEF Inv, AloneInv, Idle, Redeem
  <2>3. ~mixed => \A b \in Actor : op'[b].pc = "idle" \/ op'[b].alone
    BY <1>1, <1>3, <1>4 DEF Inv, AloneInv, Alone, Idle
  <2>. QED  BY <1>1, <1>3, <1>4, <2>1, <2>2, <2>3 DEF AloneInv, Alone, Idle, Rebuild
<1>9. LinkInv'
  BY <1>1, <1>3, <1>4 DEF Inv, LinkInv, Rebuild, Made, ClientOf
<1>10. GoneInv'
  BY <1>1 DEF Inv, GoneInv, Redeem
<1>11. PolicyInv'
  BY <1>1, <1>3, <1>4 DEF Inv, PolicyInv, Actor
<1>. QED  BY <1>5, <1>6, <1>7, <1>8, <1>9, <1>10, <1>11 DEF Inv

LEMMA FillInv ==
  ASSUME Inv, NEW a \in Actor, Fill(a)
  PROVE  Inv'
<1>. DEFINE r == [op[a] EXCEPT !.pc = "replace", !.at = None]
<1>1. /\ TypeOK /\ op[a].pc = "fill"
      /\ UNCHANGED <<clientFile, policyFile, policy, backend, flow, ops,
                    serial, faults, restarts, chosen, gone, mixed, shared>>
      /\ op' = [op EXCEPT ![a] = r]
  BY DEF Fill, Inv, TypeOK, ctx, bounds, history
<1>2. op[a] \in Operation /\ op[a].holds \in Token
  BY <1>1 DEF TypeOK, Inv, HoldsInv
<1>3. /\ r \in Operation /\ r.pc = "replace" /\ r.holds = op[a].holds
      /\ r.kind = op[a].kind /\ r.alone = op[a].alone
  BY <1>2 DEF Operation
<1>. HIDE DEF r
<1>4. /\ op' \in [Actor -> Operation] /\ op'[a] = r
      /\ \A b \in Actor : b # a => op'[b] = op[b]
  BY <1>1, <1>3 DEF TypeOK
<1>5. /\ tokenFile' \in Token \cup {None, Cut} /\ tmpFile' \in Token \cup {None, Cut}
      /\ op[a].at = "tmp" => /\ tokenFile' = tokenFile
                             /\ tmpFile = Cut => tmpFile' = op[a].holds
  BY <1>1, <1>2 DEF Fill, Written, TypeOK
<1>6. TypeOK'
  BY <1>1, <1>4, <1>5 DEF TypeOK
<1>7. HoldsInv'
  BY <1>1, <1>2, <1>3, <1>4 DEF Inv, HoldsInv
<1>8. TmpInv'
  BY <1>1, <1>2, <1>3, <1>4, <1>5 DEF Inv, TmpInv
<1>9. Alone(a) => tokenFile' = tokenFile
  BY <1>1, <1>5 DEF Inv, AloneInv
<1>10. AloneInv'
  <2>1. ASSUME NEW b \in Actor, Alone(b)'
        PROVE  b = a /\ Alone(a)
    BY <1>1, <1>3, <1>4, <2>1 DEF Inv, AloneInv, Alone, Idle
  <2>2. Alone(a) => op[a].kind # "disconnect" /\ \A b \in Actor : b # a => op'[b].pc = "idle"
    BY <1>1, <1>4 DEF Inv, AloneInv, Idle, Redeem
  <2>3. ~mixed => \A b \in Actor : op'[b].pc = "idle" \/ op'[b].alone
    BY <1>1, <1>3, <1>4 DEF Inv, AloneInv, Alone, Idle
  <2>. QED  BY <1>1, <1>3, <1>4, <2>1, <2>2, <2>3 DEF AloneInv, Alone, Idle, Rebuild
<1>11. LinkInv'
  <2>1. ~mixed => Alone(a)
    BY <1>1 DEF Inv, AloneInv, Idle
  <2>. QED  BY <1>1, <1>3, <1>4, <1>9, <2>1 DEF Inv, LinkInv, Rebuild, Made, ClientOf
<1>12. GoneInv'
  BY <1>1 DEF Inv, GoneInv, Redeem
<1>13. PolicyInv'
  BY <1>1, <1>3, <1>4 DEF Inv, PolicyInv, Actor
<1>. QED  BY <1>6, <1>7, <1>8, <1>10, <1>11, <1>12, <1>13 DEF Inv

\* The two steps that take the token file from under other threads.  a goes on
\* to rebuild_backend.
LEMMA Rebuilding ==
  ASSUME Inv, NEW a \in Actor,
         op' \in [Actor -> Operation],
         op[a].pc \in {"replace", "unlink"},
         op'[a].pc = "client", op'[a].kind = op[a].kind, op'[a].alone = op[a].alone,
         \A b \in Actor : b # a =>
           /\ op'[b].pc = op[b].pc /\ op'[b].holds = op[b].holds
           /\ op'[b].kind = op[b].kind /\ op'[b].alone = op[b].alone
           /\ op'[b].cache = op[b].cache
           /\ op[b].at = "tmp" => op'[b].at \in {"tmp", IF op[a].pc = "replace" THEN "token" ELSE "tmp"},
         UNCHANGED <<clientFile, policyFile, policy, backend, flow, ops,
                     serial, faults, restarts, chosen, gone, mixed, shared>>,
         IF op[a].pc = "replace" THEN tokenFile' = tmpFile /\ tmpFile' = None
                                 ELSE tokenFile' = None /\ tmpFile' = tmpFile
  PROVE  Inv'
<1>1. TypeOK'
  BY DEF Inv, TypeOK
<1>2. HoldsInv'
  BY DEF Inv, HoldsInv
<1>3. TmpInv'
  <2>1. CASE op[a].pc = "replace"
    BY <2>1, Distinct DEF Inv, TmpInv
  <2>2. CASE op[a].pc = "unlink"
    BY <2>2, Distinct DEF Inv, TmpInv
  <2>. QED  BY <2>1, <2>2
<1>4. AloneInv'
  <2>1. ASSUME NEW b \in Actor, Alone(b)'
        PROVE  b = a /\ Alone(a)
    BY <2>1 DEF Inv, AloneInv, Alone, Idle
  <2>2. Alone(a) => /\ op[a].kind = "disconnect" => tokenFile' = None
                    /\ \A b \in Actor : b # a => op'[b].pc = "idle"
    BY DEF Inv, AloneInv, Idle, Redeem
  <2>3. ~mixed => \A b \in Actor : op'[b].pc = "idle" \/ op'[b].alone
    BY DEF Inv, AloneInv, Alone, Idle
  <2>. QED  BY <2>1, <2>2, <2>3 DEF AloneInv, Alone, Idle, Redeem
<1>5. LinkInv'
  BY DEF LinkInv, Rebuild
<1>6. GoneInv'
  BY Distinct DEF Inv, GoneInv, Redeem
<1>7. PolicyInv'
  BY DEF Inv, PolicyInv, Actor
<1>. QED  BY <1>1, <1>2, <1>3, <1>4, <1>5, <1>6, <1>7 DEF Inv

LEMMA ReplaceInv ==
  ASSUME Inv, NEW a \in Actor, Replace(a)
  PROVE  Inv'
<1>. DEFINE r == [op[a] EXCEPT !.pc = "client", !.holds = None]
            q(b) == [op[b] EXCEPT !.at = Renamed(@)]
<1>1. /\ op[a].pc = "replace" /\ tokenFile' = tmpFile /\ tmpFile' = None
      /\ UNCHANGED <<clientFile, policyFile, policy, backend, flow, ops,
                    serial, faults, restarts, chosen, gone, mixed, shared>>
      /\ op' = [b \in Actor |-> IF b = a THEN r ELSE q(b)]
  BY DEF Replace, ctx, bounds, history
<1>2. \A b \in Actor : op[b] \in Operation
  BY DEF Inv, TypeOK
<1>3. r \in Operation /\ r.pc = "client" /\ r.kind = op[a].kind /\ r.alone = op[a].alone
  BY <1>2, LinkIsHeld DEF Operation
<1>4. ASSUME NEW b \in Actor
      PROVE  /\ q(b) \in Operation /\ q(b).pc = op[b].pc /\ q(b).holds = op[b].holds
             /\ q(b).kind = op[b].kind /\ q(b).alone = op[b].alone
             /\ q(b).cache = op[b].cache /\ (op[b].at = "tmp" => q(b).at = "token")
  <2>1. Renamed(op[b].at) \in {"tmp", "token", None}
        /\ (op[b].at = "tmp" => Renamed(op[b].at) = "token")
    BY <1>2 DEF Renamed, Operation
  <2>. QED  BY <1>2, <2>1 DEF Operation
<1>. HIDE DEF r, q
<1>5. op' \in [Actor -> Operation] /\ op'[a] = r /\ \A b \in Actor : b # a => op'[b] = q(b)
  BY <1>1, <1>3, <1>4
<1>. QED  BY <1>1, <1>3, <1>4, <1>5, Rebuilding

LEMMA UnlinkInv ==
  ASSUME Inv, NEW a \in Actor, Unlink(a)
  PROVE  Inv'
<1>. DEFINE r == [op[a] EXCEPT !.pc = "client"]
            q(b) == IF op[b].at = "token" THEN [op[b] EXCEPT !.at = None] ELSE op[b]
<1>1. /\ op[a].pc = "unlink" /\ tokenFile' = None
      /\ UNCHANGED <<clientFile, tmpFile, policyFile, policy, backend, flow, ops,
                    serial, faults, restarts, chosen, gone, mixed, shared>>
      /\ op' = [b \in Actor |-> IF b = a THEN r ELSE q(b)]
  BY DEF Unlink, ctx, bounds, history
<1>2. \A b \in Actor : op[b] \in Operation
  BY DEF Inv, TypeOK
<1>3. r \in Operation /\ r.pc = "client" /\ r.kind = op[a].kind /\ r.alone = op[a].alone
  BY <1>2 DEF Operation
<1>4. ASSUME NEW b \in Actor
      PROVE  /\ q(b) \in Operation /\ q(b).pc = op[b].pc /\ q(b).holds = op[b].holds
             /\ q(b).kind = op[b].kind /\ q(b).alone = op[b].alone
             /\ q(b).cache = op[b].cache /\ (op[b].at = "tmp" => q(b).at = "tmp")
  BY <1>2 DEF Operation
<1>. HIDE DEF r, q
<1>5. op' \in [Actor -> Operation] /\ op'[a] = r /\ \A b \in Actor : b # a => op'[b] = q(b)
  BY <1>1, <1>3, <1>4
<1>. QED  BY <1>1, <1>3, <1>4, <1>5, Rebuilding

----------------------------------------------------------------------------
\* The loop saves a policy.  Nothing else that is under way is alone.

LEMMA Saves ==
  ASSUME Inv,
         op' \in [Actor -> Operation], Only(Loop), ops' = ops, faults' \in 0..MaxFaults,
         op[Loop].pc \in Saving, op'[Loop].pc \in {"idle"} \cup (Saving \ {"write"}),
         op'[Loop].pc # "idle" => op'[Loop].alone = op[Loop].alone,
         UNCHANGED <<clientFile, tokenFile, tmpFile, flow, serial, restarts,
                     gone, mixed, shared>>,
         policyFile' \in PolicyText, policy' \in Policy \cup {Defaults},
         chosen' \in SUBSET Policy,
         backend' \in [link : Link, cache : {Cache[p] : p \in Policy \cup {Defaults}}],
         backend'.link = backend.link,
         op'[Loop].pc # "reconfigure" =>
           \/ op[Loop].pc # "reconfigure" /\ backend'.cache = backend.cache /\ policy' = policy
           \/ backend'.cache = Cache[policy'],
         PolicyInv'
  PROVE  Inv'
<1>1. Loop \in Actor /\ \A b \in Actor : b # Loop => op'[b] = op[b]
  BY DEF Actor, Only
<1>2. TypeOK'
  BY DEF Inv, TypeOK
<1>3. HoldsInv' /\ TmpInv'
  BY <1>1 DEF Inv, HoldsInv, TmpInv, Saving
<1>4. AloneInv'
  <2>1. ASSUME NEW b \in Actor, Alone(b)'
        PROVE  b = Loop /\ Alone(Loop)
    <3>1. CASE b = Loop
      BY <2>1, <3>1 DEF Alone, Idle, Saving
    <3>2. CASE b # Loop
      BY <1>1, <2>1, <3>2 DEF Inv, AloneInv, Alone, Idle, Saving
    <3>. QED  BY <3>1, <3>2
  <2>2. Alone(Loop) => \A b \in Actor : b # Loop => op'[b].pc = "idle"
    BY <1>1 DEF Inv, AloneInv, Idle
  <2>3. ~mixed => \A b \in Actor : op'[b].pc = "idle" \/ op'[b].alone
    BY <1>1 DEF Inv, AloneInv, Alone, Idle, Saving
  <2>. QED  BY <1>1, <2>1, <2>2, <2>3 DEF AloneInv, Alone, Idle, Rebuild, Redeem, Saving
<1>5. LinkInv'
  BY <1>1 DEF Inv, LinkInv, Rebuild, Saving, Made, ClientOf
<1>6. GoneInv'
  BY <1>1 DEF Inv, GoneInv, Redeem, Saving
<1>. QED  BY <1>2, <1>3, <1>4, <1>5, <1>6 DEF Inv

LEMMA WritePolicyInv ==
  ASSUME Inv, WritePolicy
  PROVE  Inv'
<1>1. /\ TypeOK /\ Goes(Loop, "write", "load", None)
      /\ policyFile' = op[Loop].holds /\ chosen' = chosen \cup {policyFile'}
      /\ UNCHANGED <<clientFile, tokenFile, tmpFile, policy, backend, flow,
                    serial, faults, restarts, gone, mixed, shared>>
  BY DEF Inv, WritePolicy, ctx, bounds
<1>2. /\ op' \in [Actor -> Operation] /\ ops' = ops /\ Only(Loop)
      /\ op[Loop].pc = "write" /\ op'[Loop].pc = "load"
      /\ op'[Loop].alone = op[Loop].alone
  <2>1. Loop \in Actor /\ "load" \in PC /\ None \in Held
    BY LinkIsHeld DEF Actor, PC
  <2>. QED  BY <1>1, <2>1, GoesStep
<1>3. policyFile' \in Policy
  BY <1>1, <1>2 DEF Inv, HoldsInv, Actor
<1>4. PolicyInv'
  BY <1>1, <1>2, <1>3 DEF PolicyInv
<1>5. /\ faults' \in 0..MaxFaults /\ policyFile' \in PolicyText
      /\ policy' \in Policy \cup {Defaults} /\ chosen' \in SUBSET Policy
      /\ backend' \in [link : Link, cache : {Cache[p] : p \in Policy \cup {Defaults}}]
  BY <1>1, <1>3 DEF TypeOK, PolicyText
<1>. QED  BY <1>1, <1>2, <1>4, <1>5, Saves DEF Saving

LEMMA WritePolicyFailsInv ==
  ASSUME Inv, WritePolicyFails
  PROVE  Inv'
<1>1. /\ TypeOK /\ Ends(Loop, "write") /\ policyFile' \in {Cut, Garbled}
      /\ faults < MaxFaults /\ faults' = faults + 1
      /\ UNCHANGED <<clientFile, tokenFile, tmpFile, policy, backend, flow,
                    serial, restarts, chosen, gone, mixed, shared>>
  BY DEF Inv, WritePolicyFails, Fault, ctx, history
<1>2. /\ op' \in [Actor -> Operation] /\ ops' = ops /\ Only(Loop)
      /\ op[Loop].pc = "write" /\ op'[Loop].pc = "idle"
  BY <1>1, EndsStep DEF Actor
<1>3. PolicyInv'
  BY <1>1, <1>2, Distinct DEF Inv, PolicyInv
<1>4. /\ faults' \in 0..MaxFaults /\ policyFile' \in PolicyText
      /\ policy' \in Policy \cup {Defaults} /\ chosen' \in SUBSET Policy
      /\ backend' \in [link : Link, cache : {Cache[p] : p \in Policy \cup {Defaults}}]
  BY <1>1, Bounds DEF TypeOK, PolicyText
<1>. QED  BY <1>1, <1>2, <1>3, <1>4, Saves DEF Saving

LEMMA LoadPolicyInv ==
  ASSUME Inv, LoadPolicy
  PROVE  Inv'
<1>1. /\ TypeOK /\ Goes(Loop, "load", "reconfigure", None)
      /\ policy' = Loads(policyFile)
      /\ UNCHANGED <<clientFile, tokenFile, tmpFile, policyFile, backend, flow,
                    serial, faults, restarts, chosen, gone, mixed, shared>>
  BY DEF Inv, LoadPolicy, files, bounds, history
<1>2. /\ op' \in [Actor -> Operation] /\ ops' = ops /\ Only(Loop)
      /\ op[Loop].pc = "load" /\ op'[Loop].pc = "reconfigure"
      /\ op'[Loop].alone = op[Loop].alone
  <2>1. Loop \in Actor /\ "reconfigure" \in PC /\ None \in Held
    BY LinkIsHeld DEF Actor, PC
  <2>. QED  BY <1>1, <2>1, GoesStep
<1>3. policyFile \in Policy /\ policyFile \in chosen /\ policy' = policyFile
  BY <1>1, <1>2, Distinct DEF Inv, PolicyInv, Loads
<1>4. PolicyInv'
  BY <1>1, <1>2, <1>3 DEF PolicyInv
<1>5. /\ faults' \in 0..MaxFaults /\ policyFile' \in PolicyText
      /\ policy' \in Policy \cup {Defaults} /\ chosen' \in SUBSET Policy
      /\ backend' \in [link : Link, cache : {Cache[p] : p \in Policy \cup {Defaults}}]
  BY <1>1, <1>3 DEF TypeOK
<1>. QED  BY <1>1, <1>2, <1>4, <1>5, Saves DEF Saving

LEMMA ReconfigureInv ==
  ASSUME Inv, Reconfigure
  PROVE  Inv'
<1>. DEFINE b == [backend EXCEPT !.cache = Cache[policy]]
<1>1. /\ TypeOK /\ Ends(Loop, "reconfigure") /\ backend' = b /\ chosen' = {policy}
      /\ UNCHANGED <<clientFile, tokenFile, tmpFile, policyFile, policy, flow,
                    serial, faults, restarts, gone, mixed, shared>>
  BY DEF Inv, Reconfigure, files, bounds
<1>2. /\ op' \in [Actor -> Operation] /\ ops' = ops /\ Only(Loop)
      /\ op[Loop].pc = "reconfigure" /\ op'[Loop].pc = "idle"
  BY <1>1, EndsStep DEF Actor
<1>3. policyFile \in Policy /\ policy = policyFile
  BY <1>2 DEF Inv, PolicyInv
<1>4. PolicyInv'
  BY <1>1, <1>2, <1>3 DEF PolicyInv
<1>5. /\ b \in [link : Link, cache : {Cache[p] : p \in Policy \cup {Defaults}}]
      /\ b.link = backend.link /\ b.cache = Cache[policy]
  BY <1>1 DEF TypeOK
<1>. HIDE DEF b
<1>6. /\ faults' \in 0..MaxFaults /\ policyFile' \in PolicyText
      /\ policy' \in Policy \cup {Defaults} /\ chosen' \in SUBSET Policy
  BY <1>1, <1>3 DEF TypeOK
<1>. QED  BY <1>1, <1>2, <1>4, <1>5, <1>6, Saves DEF Saving

----------------------------------------------------------------------------
\* Restart, and the theorems.

LEMMA RestartInv ==
  ASSUME Inv, Restart
  PROVE  Inv'
<1>1. /\ restarts < MaxRestarts /\ restarts' = restarts + 1
      /\ op' = [a \in Actor |-> Rest]
      /\ policy' = Loads(policyFile')
      /\ backend' = [link |-> Made(ClientOf(clientFile), tokenFile), cache |-> Cache[policy']]
      /\ mixed' = FALSE
      /\ UNCHANGED <<clientFile, tokenFile, tmpFile, flow, ops, serial, faults, gone, shared>>
  BY DEF Restart
<1>2. \A a \in Actor : op'[a] = Rest /\ op'[a].pc = "idle"
  BY <1>1, RestIsOperation
<1>3. /\ policyFile' \in Policy \cup {Cut} /\ chosen' \in SUBSET Policy
      /\ policyFile' \in Policy => policyFile' \in chosen'
  <2>1. CASE policyFile = Garbled
    BY <2>1 DEF Restart
  <2>2. CASE policyFile # Garbled
    BY <2>2 DEF Restart, Inv, TypeOK, PolicyText, PolicyInv
  <2>. QED  BY <2>1, <2>2
<1>4. /\ policy' \in Policy \cup {Defaults}
      /\ policyFile' \in Policy => policy' = policyFile'
      /\ policyFile' = Cut => policy' = Defaults
  BY <1>1, <1>3, Distinct DEF Loads
<1>5. /\ Made(ClientOf(clientFile), tokenFile) \in Link
      /\ tokenFile \notin Token => Made(ClientOf(clientFile), tokenFile) \in Unlinked
  BY MadeIsLink, ClientIsKnown DEF Inv, TypeOK
<1>6. TypeOK'
  <2>1. op' \in [Actor -> Operation]
    BY <1>1, RestIsOperation
  <2>2. restarts' \in 0..MaxRestarts
    BY <1>1, Bounds DEF Inv, TypeOK
  <2>. QED  BY <1>1, <1>3, <1>4, <1>5, <2>1, <2>2 DEF Inv, TypeOK, PolicyText
<1>7. HoldsInv' /\ TmpInv'
  BY <1>1, <1>2 DEF Inv, HoldsInv, TmpInv
<1>8. AloneInv'
  BY <1>2 DEF AloneInv, Alone, Idle
<1>9. LinkInv'
  BY <1>1 DEF LinkInv, Made, ClientOf
<1>10. GoneInv'
  BY <1>1, <1>2, <1>5 DEF Inv, GoneInv, Redeem
<1>11. PolicyInv'
  BY <1>2, <1>3, <1>4 DEF PolicyInv, Actor
<1>. QED  BY <1>6, <1>7, <1>8, <1>9, <1>10, <1>11 DEF Inv

LEMMA StepInv == Inv /\ [Next]_vars => Inv'
<1>. SUFFICES ASSUME Inv, [Next]_vars PROVE Inv'
  OBVIOUS
<1>1. ASSUME NEW a \in Actor,
             ReadClient(a) \/ ReadToken(a) \/ ReadConfig(a) \/ Assign(a)
      PROVE  Inv'
  BY <1>1, ReadClientInv, ReadTokenInv, ReadConfigInv, AssignInv
<1>2. ASSUME NEW a \in Admin,
             \/ SetupConnect(a) \/ SetupCallback(a) \/ SetupDisconnect(a)
             \/ Exchange(a) \/ ExchangeFails(a) \/ Open(a) \/ Fill(a) \/ FillFails(a)
             \/ Replace(a) \/ ReplaceFails(a) \/ Unlink(a) \/ UnlinkFails(a)
      PROVE  Inv'
  <2>1. a \in Actor
    BY DEF Actor
  <2>2. CASE SetupConnect(a) \/ SetupCallback(a) \/ SetupDisconnect(a)
    BY <2>2, SetupConnectInv, SetupCallbackInv, SetupDisconnectInv
  <2>3. CASE Exchange(a) \/ Open(a) \/ Fill(a) \/ Replace(a) \/ Unlink(a)
    BY <2>1, <2>3, ExchangeInv, OpenInv, FillInv, ReplaceInv, UnlinkInv
  <2>4. CASE ExchangeFails(a) \/ FillFails(a) \/ ReplaceFails(a) \/ UnlinkFails(a)
    BY <2>1, <2>4, FailsInv
  <2>. QED  BY <1>2, <2>2, <2>3, <2>4
<1>3. CASE SetupClient \/ ConfigSave \/ WritePolicy \/ WritePolicyFails
           \/ LoadPolicy \/ Reconfigure \/ Restart
  BY <1>3, SetupClientInv, ConfigSaveInv, WritePolicyInv, WritePolicyFailsInv,
     LoadPolicyInv, ReconfigureInv, RestartInv
<1>4. CASE UNCHANGED vars
  <2>1. UNCHANGED <<clientFile, tokenFile, tmpFile, policyFile, policy, backend, flow, op,
                    ops, serial, faults, restarts, chosen, gone, mixed, shared>>
    BY <1>4 DEF vars, files, ctx, bounds, history
  <2>2. TypeOK' /\ HoldsInv' /\ TmpInv' /\ PolicyInv'
    BY <2>1 DEF Inv, TypeOK, HoldsInv, TmpInv, PolicyInv
  <2>3. AloneInv' /\ LinkInv' /\ GoneInv'
    BY <2>1 DEF Inv, AloneInv, Alone, Idle, LinkInv, GoneInv, Made, ClientOf
  <2>. QED  BY <2>2, <2>3 DEF Inv
<1>. QED  BY <1>1, <1>2, <1>3, <1>4 DEF Next

LEMMA Invariance == Spec => []Inv
BY InitInv, StepInv, PTL DEF Spec

\* The files, the backend and the operations stay what context.py takes them
\* for; rebuild_backend (context.py:95-110) never makes a GoogleGmail of a token
\* that does not load.
THEOREM TypeCorrectness == Spec => []TypeOK
BY Invariance, PTL DEF Inv

\* Whatever failed or was refused, between operations that did not overlap the
\* backend of context.py is the one build_context would make of the files.
THEOREM Faithful == Spec => []BackendIsFromFiles
<1>1. Inv => BackendIsFromFiles
  <2>. SUFFICES ASSUME Inv, \A a \in Actor : Idle(a), ~mixed
                PROVE  backend = [link |-> Made(ClientOf(clientFile), tokenFile), cache |-> Cache[policy]]
    BY DEF BackendIsFromFiles
  <2>1. \A a \in Actor : op[a].pc \notin Rebuild \cup {"reconfigure"}
    BY DEF Idle, Rebuild
  <2>2. backend.link = Made(ClientOf(clientFile), tokenFile) /\ backend.cache = Cache[policy]
    BY <2>1 DEF Inv, LinkInv
  <2>3. backend \in [link : Link, cache : {Cache[p] : p \in Policy \cup {Defaults}}]
    BY DEF Inv, TypeOK
  <2>. QED  BY <2>2, <2>3
<1>. QED  BY <1>1, Invariance, PTL

\* A disconnect that nothing overlapped (context.py disconnect_gmail) leaves no
\* backend with a token, later saves and restarts included.
THEOREM Disconnected == Spec => []DisconnectHolds
<1>1. Inv => DisconnectHolds
  BY DEF Inv, GoneInv, Unlinked, DisconnectHolds
<1>. QED  BY <1>1, Invariance, PTL

\* TokenStore.save (token_store.py:24-34) never leaves a part of a token in the
\* token file, unless two threads have shared its temporary file.
THEOREM WholeToken == Spec => []TokenFileIsWhole
<1>1. Inv => TokenFileIsWhole
  BY DEF Inv, TmpInv, TokenFileIsWhole
<1>. QED  BY <1>1, Invariance, PTL

\* Between saves the policy in force is one the operator saved, or the defaults
\* after a save was cut short (admin/app.py config_save, context.py reload_policy).
THEOREM ChosenPolicy == Spec => []PolicyIsChosen
<1>1. Inv => PolicyIsChosen
  BY DEF Inv, PolicyInv, PolicyIsChosen, Idle
<1>. QED  BY <1>1, Invariance, PTL

=============================================================================
