---------------------------- MODULE Confinement ----------------------------
(***************************************************************************)
(* What the tool layer promises the owner of the mailbox, as the most an   *)
(* agent can do with it.  A tool call is a deal of one of three kinds: it  *)
(* reads, it relabels one message, or it trashes one message.  It changes  *)
(* the mailbox at most once, and then only to take that change back; what  *)
(* it touches and what it tells of was in scope while it was in progress.  *)
(* There are no handlers, verdicts or resolved labels here: ToolCalls.tla  *)
(* shows that tools.py comes to no more than this.                         *)
(***************************************************************************)
EXTENDS Mailbox

CONSTANTS
  Worker,  \* tool calls that can be in progress at once
  Policies \* BOUND: the policies the operator saves

\* A relabelling that was made and may still have to be taken back, with the
\* labels Gmail answered it with.
Change == [msg : Message, add : SUBSET Label, remove : SUBSET Label,
           labels : SUBSET Label]

Deal ==
  [phase  : {"idle", "asking", "answering"},
   kind   : {"read", "relabel", "trash"},
   fresh  : BOOLEAN,         \* fresh=true was asked for
   cached : BOOLEAN,         \* the reply will be marked as cached
   told   : SUBSET Message,  \* what the reply tells of
   owed   : SUBSET Change]

NoDeal == [phase |-> "idle", kind |-> "read", fresh |-> FALSE,
           cached |-> FALSE, told |-> {}, owed |-> {}]

Unseen == [box |-> [m \in Message |-> {}], names |-> {}, policies |-> {}]

VARIABLES
  policy, \* the policy in force
  deal,   \* how far each tool call has come
  seen    \* history: what was live at some time during each call in progress

confinementVars == <<mailboxVars, policy, deal, seen>>

Init ==
  /\ MailboxInit
  /\ policy \in Policies
  /\ deal = [w \in Worker |-> NoDeal]
  /\ seen = [w \in Worker |-> Unseen]

Observe ==
  seen' = [w \in Worker |->
             IF deal'[w].phase = "idle" THEN Unseen
             ELSE [box      |-> [m \in Message |-> seen[w].box[m] \cup {box'[m]}],
                   names    |-> seen[w].names \cup {names'},
                   policies |-> seen[w].policies \cup {policy'}]]

Becomes(w, d) == deal' = [deal EXCEPT ![w] = d] /\ UNCHANGED policy /\ Observe

Asking(w) == deal[w].phase = "asking"
Keeps     == UNCHANGED mailboxVars

----------------------------------------------------------------------------
\* What counts as in scope for a call: by labels, listings and policies that
\* were live while it was in progress, or earlier, once it is marked.

Stale(w) == deal[w].cached /\ ~deal[w].fresh

LabelsOf(w, m) ==
  IF Stale(w) /\ MetadataCached THEN pastBox[m] ELSE seen[w].box[m]

ListingsOf(w) == IF Stale(w) /\ ListingCached THEN pastNames ELSE seen[w].names

Admissible(w, labels) == InScopeUnder(labels, seen[w].policies, ListingsOf(w))

InScope(w, m) == \E labels \in LabelsOf(w, m) : Admissible(w, labels)

\* The labels one of the policies lets an agent change, but for those that
\* block by another.
Changeable(w) ==
  {{l \in Label : Mutable(l, p, ResolveLabelIds(n, q.blockedLabels))} :
     p \in {r \in seen[w].policies : ~r.readOnly}, q \in seen[w].policies,
     n \in ListingsOf(w)}

----------------------------------------------------------------------------
\* A call comes in.  One that mutates needs a policy that is not read-only.
Ask(w) ==
  /\ deal[w].phase = "idle"
  /\ Keeps
  /\ \E kind \in {"read", "relabel", "trash"}, fresh \in BOOLEAN :
       /\ kind # "read" => ~policy.readOnly
       /\ Becomes(w, [NoDeal EXCEPT !.phase = "asking", !.kind = kind,
                                    !.fresh = fresh])

\* It reads on, perhaps from a cache, and is marked then.  A call that reads
\* may have its reply together at any time.
Look(w) ==
  /\ Asking(w)
  /\ Keeps
  /\ \E cached \in {deal[w].cached, TRUE}, phase \in {"asking", "answering"} :
       /\ phase = "answering" => deal[w].kind = "read"
       /\ Becomes(w, [deal[w] EXCEPT !.cached = cached, !.phase = phase])

\* A call that reads may tell of a message in scope.
Admit(w) ==
  /\ Asking(w)
  /\ deal[w].kind = "read"
  /\ Keeps
  /\ \E m \in Message, phase \in {"asking", "answering"} :
       /\ Becomes(w, [deal[w] EXCEPT !.phase = phase, !.told = @ \cup {m}])
       /\ InScope(w, m)

\* A call that relabels may do so once, to a message in scope, within what is
\* changeable.  If Gmail's answer is lost, the call is over.
Relabels(w) ==
  /\ Asking(w)
  /\ UNCHANGED moves
  /\ deal[w].kind = "relabel"
  /\ deal[w].owed = {}
  /\ \E m \in {n \in Message : InScope(w, n)}, labels \in Changeable(w) :
     \E add \in SUBSET labels : \E remove \in SUBSET (labels \ add) :
       /\ ModifyLabels(m, add, remove)
       /\ \/ Becomes(w, NoDeal)
          \/ Becomes(w, [deal[w] EXCEPT
                           !.owed = {[msg |-> m, add |-> add,
                                      remove |-> remove, labels |-> box'[m]]}])

\* The change stands, if the labels Gmail answered with are in scope...
Stands(w) ==
  /\ Asking(w)
  /\ Keeps
  /\ \E o \in deal[w].owed :
       /\ Admissible(w, o.labels)
       /\ Becomes(w, [deal[w] EXCEPT !.phase = "answering", !.owed = {},
                                     !.told = {o.msg}])

\* ...or its inverse is applied, and the call is over.
TakenBack(w) ==
  /\ Asking(w)
  /\ \E o \in deal[w].owed : ModifyLabels(o.msg, o.remove, o.add)
  /\ Becomes(w, NoDeal)

\* A call that trashes may do so once, to a message in scope, if a policy of
\* during the call allows trash: not always the one that let the call in.
Discards(w) ==
  /\ Asking(w)
  /\ deal[w].kind = "trash"
  /\ \E p \in seen[w].policies : p.allowTrash
  /\ \E m \in Message : InScope(w, m) /\ TrashMessage(m)
  /\ \/ Becomes(w, NoDeal)
     \/ Becomes(w, [deal[w] EXCEPT !.phase = "answering"])

\* It is over: with the reply, or with an error at any time.
Over(w) ==
  /\ deal[w].phase # "idle"
  /\ Keeps
  /\ Becomes(w, NoDeal)

\* The operator saves a policy; the owner goes on using the mailbox.
Outside ==
  /\ \/ Owner /\ UNCHANGED policy
     \/ Moved /\ policy' \in Policies /\ UNCHANGED <<box, names, pastBox, pastNames>>
  /\ UNCHANGED deal
  /\ Observe

Next ==
  \/ \E w \in Worker :
       \/ Ask(w) \/ Look(w) \/ Over(w) \/ Admit(w)
       \/ Relabels(w) \/ Stands(w) \/ TakenBack(w) \/ Discards(w)
  \/ Outside

Spec == Init /\ [][Next]_confinementVars

=============================================================================
