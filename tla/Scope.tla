------------------------------- MODULE Scope -------------------------------
(***************************************************************************)
(* The pure half of the proxy: which messages are in scope                 *)
(* (policy/engine.py), how a label name becomes a label id, and which      *)
(* label mutations are let through (policy/mutation.py).  Nothing here has *)
(* state; ToolCalls.tla calls these operators between Gmail API calls.     *)
(*                                                                         *)
(* Labels are their ids.  A listing is what labels.list returned: each     *)
(* label's display name, or Unlisted.                                      *)
(***************************************************************************)

CONSTANTS
  Category,    \* ids of the CATEGORY_* system labels
  SPAM, TRASH, \* the two system labels that hide a message unconditionally
  PlainSystem, \* the other system labels: INBOX, UNREAD, STARRED, ...
  UserLabel,   \* ids of the labels the mailbox owner creates
  Name,        \* display names; a system label's id is also a name
  Unlisted     \* in place of the name of a label the mailbox does not have

HardDeny == {SPAM, TRASH}
System   == Category \cup HardDeny \cup PlainSystem
Label    == System \cup UserLabel

\* The ids of different kinds are different, and Gmail's system labels are
\* known to the policy by their id.
ASSUME LabelsAssumption ==
  /\ Category \cap HardDeny = {}
  /\ Category \cap PlainSystem = {}
  /\ HardDeny \cap PlainSystem = {}
  /\ System \cap UserLabel = {}
  /\ System \subseteq Name
  /\ Unlisted \notin Name

\* Any labels.list reply.
Listing == [Label -> Name \cup {Unlisted}]

\* The part of policy.yaml that decides scope and mutability.
PolicyFields ==
  [categories        : SUBSET Category,
   allowedLabels     : SUBSET Name,
   blockedLabels     : SUBSET Name,
   mutableLabels     : SUBSET Label,
   userLabelMutations: BOOLEAN,
   readOnly          : BOOLEAN,
   allowTrash        : BOOLEAN]

\* What Policy's validators accept: something is allowed, no label is both
\* allowed and blocked, no reserved label grants access, and neither a
\* category nor SPAM nor TRASH is mutable.
Policy ==
  {p \in PolicyFields :
     /\ p.categories # {} \/ p.allowedLabels # {}
     /\ p.allowedLabels \cap p.blockedLabels = {}
     /\ p.allowedLabels \cap System = {}
     /\ p.mutableLabels \cap (Category \cup HardDeny) = {}}

----------------------------------------------------------------------------
\* is_eligible: the confinement predicate.

IsEligible(labels, categories, allowed, blocked) ==
  /\ labels # {}
  /\ labels \cap HardDeny = {}
  /\ labels \cap blocked = {}
  /\ \/ labels \cap allowed # {}
     \/ /\ labels \cap Category # {}
        /\ labels \cap Category \subseteq categories

\* eligibility_reason: the same decision told as the first reason that applies.
EligibilityReason(labels, categories, allowed, blocked) ==
  IF labels = {}                            THEN "denied: no labels"
  ELSE IF labels \cap HardDeny # {}         THEN "denied: spam or trash"
  ELSE IF labels \cap blocked # {}          THEN "denied: blocked label"
  ELSE IF labels \cap allowed # {}          THEN "allowed: allowed label"
  ELSE IF labels \cap Category = {}         THEN "denied: uncategorized"
  ELSE IF (labels \cap Category) \ categories # {}
                                            THEN "denied: disallowed category"
                                            ELSE "allowed: categories"

----------------------------------------------------------------------------
\* Names to ids.

\* _resolve_label_ids: every listed label with one of these names.
ResolveLabelIds(listing, wanted) ==
  {l \in Label : listing[l] \in wanted}

\* In scope by some of these policies and listings: a verdict takes the
\* categories and either set of labels at a time of its own.
InScopeUnder(labels, policies, listings) ==
  \E p, q, r \in policies : \E allowing, blocking \in listings :
    IsEligible(labels, p.categories,
               ResolveLabelIds(allowing, q.allowedLabels),
               ResolveLabelIds(blocking, r.blockedLabels))

\* _resolve: the one label a name in a mutation request stands for.  A
\* system label's id wins, then the only user label of that name, then the
\* only label of that name.  Empty when unknown or ambiguous.
Resolve(name, listing) ==
  LET named     == {l \in Label : listing[l] = name}
      userNamed == named \cap UserLabel
      only(s)   == {l \in s : s = {l}}
  IN  IF name \in System /\ listing[name] # Unlisted THEN {name}
      ELSE IF userNamed # {} THEN only(userNamed)
      ELSE only(named)

----------------------------------------------------------------------------
\* validate_mutation.

\* _check_mutable
Mutable(l, policy, immutable) ==
  /\ l \notin Category \cup HardDeny
  /\ l \notin immutable
  /\ IF l \in System THEN l \in policy.mutableLabels
                     ELSE policy.userLabelMutations

ResolveAll(names, listing) == UNION {Resolve(n, listing) : n \in names}

\* validate_mutation lets a request through, with the ids it resolved to
\* given by ResolveAll.  Requests are sets of names: _dedupe makes order and
\* repetition immaterial to the result.
Validates(add, remove, policy, listing, immutable) ==
  /\ ~policy.readOnly
  /\ \A n \in add \cup remove :
       /\ Resolve(n, listing) # {}
       /\ \A l \in Resolve(n, listing) : Mutable(l, policy, immutable)
  /\ ResolveAll(add, listing) \cap ResolveAll(remove, listing) = {}
  /\ add \cup remove # {}

\* What messages.modify does to a message's labels: removals, then
\* additions, as the mock backend that stands for Gmail does.
Relabel(labels, add, remove) == (labels \ remove) \cup add

=============================================================================
