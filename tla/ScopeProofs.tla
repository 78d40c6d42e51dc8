---------------------------- MODULE ScopeProofs ----------------------------
(* Lemmas about the pure operators of Scope.tla, for any labels at all.    *)
EXTENDS Scope, TLAPS

\* The operator reading of a verdict and the one the admin page prints agree:
\* policy/engine.py states the predicate twice, in is_eligible and again in
\* eligibility_reason, and a message is said to be allowed exactly when it is.
THEOREM ReasonAgrees ==
  ASSUME NEW labels, NEW categories, NEW allowed, NEW blocked
  PROVE  IsEligible(labels, categories, allowed, blocked) <=>
         EligibilityReason(labels, categories, allowed, blocked)
           \in {"allowed: allowed label", "allowed: categories"}
<1>1. labels \cap Category \subseteq categories <=>
      (labels \cap Category) \ categories = {}
  OBVIOUS
<1>2. QED
  BY <1>1 DEF IsEligible, EligibilityReason

\* A larger grant never takes a message out of scope: reading no grants at
\* all, as _allowed_label_ids does on a GmailError, can only deny.
LEMMA MoreGrantsMoreScope ==
  ASSUME NEW labels, NEW categories, NEW allowed, NEW more, NEW blocked,
         allowed \subseteq more,
         IsEligible(labels, categories, allowed, blocked)
  PROVE  IsEligible(labels, categories, more, blocked)
BY DEF IsEligible

\* No smuggling by label: adding and removing labels that neither are
\* categories, SPAM or TRASH nor grant or block leaves the verdict alone.
\* This is what validate_mutation's immutability rules are for.
THEOREM OrdinaryLabelsKeepVerdict ==
  ASSUME NEW labels, NEW categories, NEW allowed, NEW blocked,
         NEW add, NEW remove,
         (add \cup remove) \cap (Category \cup HardDeny) = {},
         (add \cup remove) \cap (allowed \cup blocked) = {}
  PROVE  IsEligible(Relabel(labels, add, remove), categories, allowed, blocked)
         <=> IsEligible(labels, categories, allowed, blocked)
<1> DEFINE after == Relabel(labels, add, remove)
<1>1. /\ after \cap HardDeny = labels \cap HardDeny
      /\ after \cap Category = labels \cap Category
      /\ after \cap allowed = labels \cap allowed
      /\ after \cap blocked = labels \cap blocked
  BY DEF Relabel
<1>2. ASSUME NEW s, s \cap allowed # {} \/ s \cap Category # {}
      PROVE  s # {}
  BY <1>2
<1> HIDE DEF after
<1>3. IsEligible(after, categories, allowed, blocked)
      <=> IsEligible(labels, categories, allowed, blocked)
  BY <1>1, <1>2 DEF IsEligible
<1>4. QED
  BY <1>3 DEF after

\* What validate_mutation lets through touches no category, neither SPAM nor
\* TRASH, nothing immutable, and only what the policy makes mutable.
LEMMA ValidatedIsMutable ==
  ASSUME NEW add, NEW remove, NEW rules, NEW listing, NEW immutable,
         Validates(add, remove, rules, listing, immutable)
  PROVE  /\ ~rules.readOnly
         /\ \A l \in ResolveAll(add, listing) \cup ResolveAll(remove, listing) :
              Mutable(l, rules, immutable)
BY DEF Validates, ResolveAll

\* A name in a request stands for at most one label, however labels are named.
LEMMA ResolveIsUnique ==
  ASSUME NEW name, NEW listing, NEW a \in Resolve(name, listing),
         NEW b \in Resolve(name, listing)
  PROVE  a = b
BY DEF Resolve

\* ...and to labels of the mailbox only.
LEMMA ResolveIsLabel ==
  ASSUME NEW name, NEW listing
  PROVE  Resolve(name, listing) \subseteq Label
<1>1. name \in System => {name} \subseteq Label
  BY DEF Label
<1>2. QED
  BY <1>1 DEF Resolve

\* What validate_mutation lets through, by the immutable labels of the
\* listing it is resolved with, decides no verdict by that listing: neither
\* the change nor, should it have to be taken back, its inverse takes a
\* message into scope or out of it.
THEOREM ValidatedKeepsVerdict ==
  ASSUME NEW labels, NEW add, NEW remove, NEW rules, NEW listing,
         Validates(add, remove, rules, listing,
                   ResolveLabelIds(listing, rules.allowedLabels)
                     \cup ResolveLabelIds(listing, rules.blockedLabels))
  PROVE  LET Verdict(after) ==
               IsEligible(after, rules.categories,
                          ResolveLabelIds(listing, rules.allowedLabels),
                          ResolveLabelIds(listing, rules.blockedLabels))
             plus  == ResolveAll(add, listing)
             minus == ResolveAll(remove, listing)
         IN  /\ Verdict(Relabel(labels, plus, minus)) <=> Verdict(labels)
             /\ Verdict(Relabel(labels, minus, plus)) <=> Verdict(labels)
<1> DEFINE allowed == ResolveLabelIds(listing, rules.allowedLabels)
           blocked == ResolveLabelIds(listing, rules.blockedLabels)
           plus    == ResolveAll(add, listing)
           minus   == ResolveAll(remove, listing)
<1>1. \A l \in plus \cup minus : Mutable(l, rules, allowed \cup blocked)
  BY ValidatedIsMutable
<1> HIDE DEF allowed, blocked, plus, minus
<1>2. /\ (plus \cup minus) \cap (Category \cup HardDeny) = {}
      /\ (plus \cup minus) \cap (allowed \cup blocked) = {}
  BY <1>1 DEF Mutable
<1>3. minus \cup plus = plus \cup minus
  OBVIOUS
<1>4. IsEligible(Relabel(labels, plus, minus), rules.categories, allowed, blocked)
      <=> IsEligible(labels, rules.categories, allowed, blocked)
  BY <1>2, OrdinaryLabelsKeepVerdict
<1>5. IsEligible(Relabel(labels, minus, plus), rules.categories, allowed, blocked)
      <=> IsEligible(labels, rules.categories, allowed, blocked)
  BY <1>2, <1>3, OrdinaryLabelsKeepVerdict
<1>6. QED
  BY <1>4, <1>5 DEF allowed, blocked, plus, minus

\* A policy that grants no more and blocks no less lets nothing new into
\* scope, by whatever names the mailbox's labels have at the time: what an
\* operator who narrows the policy on the policy page relies on.
THEOREM NarrowerPolicyNarrowsScope ==
  ASSUME NEW labels, NEW p, NEW q, NEW listing,
         q.categories \subseteq p.categories,
         q.allowedLabels \subseteq p.allowedLabels,
         p.blockedLabels \subseteq q.blockedLabels,
         IsEligible(labels, q.categories,
                    ResolveLabelIds(listing, q.allowedLabels),
                    ResolveLabelIds(listing, q.blockedLabels))
  PROVE  IsEligible(labels, p.categories,
                    ResolveLabelIds(listing, p.allowedLabels),
                    ResolveLabelIds(listing, p.blockedLabels))
<1>1. /\ ResolveLabelIds(listing, q.allowedLabels)
           \subseteq ResolveLabelIds(listing, p.allowedLabels)
      /\ ResolveLabelIds(listing, p.blockedLabels)
           \subseteq ResolveLabelIds(listing, q.blockedLabels)
  BY DEF ResolveLabelIds
<1>2. QED
  BY <1>1 DEF IsEligible

\* Taking a change back gives the labels there were before exactly when
\* nothing the change added was there and everything it removed was: the
\* inverse that modify_labels applies does not restore a message that already
\* had a label it was to be given.
THEOREM InverseRestores ==
  ASSUME NEW labels, NEW add, NEW remove, add \cap remove = {}
  PROVE  Relabel(Relabel(labels, add, remove), remove, add) = labels
         <=> add \cap labels = {} /\ remove \subseteq labels
<1>1. Relabel(Relabel(labels, add, remove), remove, add)
      = (labels \ add) \cup remove
  BY DEF Relabel
<1>2. ((labels \ add) \cup remove) = labels
      <=> add \cap labels = {} /\ remove \subseteq labels
  OBVIOUS
<1>3. QED
  BY <1>1, <1>2

=============================================================================
