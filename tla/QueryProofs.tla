---------------------------- MODULE QueryProofs ----------------------------
(***************************************************************************)
(* Proofs about Query.tla, for any labels, names and spelling, any mailbox *)
(* and any policies: the search and the predicate decide scope alike where *)
(* no two names in question have one spelling.                             *)
(***************************************************************************)
EXTENDS Query, ToolCallsProofs, FiniteSetTheorems

\* The terms of a query, when the call is not rejected.
LEMMA QueryParts ==
  ASSUME NEW categories, NEW category, NEW allowedNames, NEW blockedNames,
         NEW required, NEW values,
         NEW q \in BuildQuery(categories, category, allowedNames, blockedNames,
                              required, values)
  PROVE  /\ q.categories = IF category = {} THEN categories ELSE category
         /\ category \subseteq categories
         /\ q.labels = IF category = {} THEN Spelled(allowedNames) ELSE {}
         /\ q.blocked = Spelled(blockedNames)
         /\ q.required = required
         /\ q.values = values
BY DEF BuildQuery, Spelled

\* ...and when it is rejected.
LEMMA QueryBuilt ==
  ASSUME NEW categories, NEW category, NEW allowedNames, NEW blockedNames,
         NEW required, NEW values,
         category \subseteq categories,
         category # {} \/ categories # {} \/ allowedNames # {},
         values \subseteq Legal
  PROVE  BuildQuery(categories, category, allowedNames, blockedNames,
                    required, values) # {}
<1>1. ASSUME NEW s, NEW t
      PROVE  Spelled(s) \cup Spelled(t) = Spelled(s \cup t)
  BY DEF Spelled
<1>2. CASE category = {}
  BY <1>1, <1>2 DEF BuildQuery, AssertScoped
<1>3. CASE category # {}
  <2>1. Spelled({}) = {}
    BY DEF Spelled
  <2>. QED  BY <1>1, <1>3, <2>1 DEF BuildQuery, AssertScoped
<1>. QED  BY <1>2, <1>3

\* What a label is called is one of the tokens of a message that carries it.
LEMMA TokenOfLabel ==
  ASSUME NEW listing, NEW labels, NEW l \in labels, listing[l] # Unlisted
  PROVE  Spelling[listing[l]] \in Spelled({listing[k] : k \in labels} \ {Unlisted})
BY DEF Spelled

LEMMA LabelOfToken ==
  ASSUME NEW listing, NEW labels,
         NEW t \in Spelled({listing[k] : k \in labels} \ {Unlisted})
  PROVE  \E l \in labels : listing[l] # Unlisted /\ Spelling[listing[l]] = t
BY DEF Spelled

\* A hit of a query whose terms grant no more than the policy is in scope.
LEMMA HitIsEligible ==
  ASSUME NEW p \in Policy, NEW listing \in Listing, NEW labels \in SUBSET Label,
         NEW q, NEW meets,
         q.categories \subseteq p.categories,
         q.labels \subseteq Spelled(p.allowedLabels),
         q.blocked = Spelled(p.blockedLabels),
         Distinct(listing, p.allowedLabels), OneTab(labels),
         Matches(q, labels, meets, listing)
  PROVE  Eligible(p, labels, listing)
<1>1. /\ p.categories \subseteq Category /\ p.allowedLabels \subseteq Name
      /\ p.blockedLabels \subseteq Name
  BY DEF Policy, PolicyFields
<1>2. Unlisted \notin Name
  BY LabelsAssumption
<1>3. PICK tokens : tokens = Spelled({listing[l] : l \in labels} \ {Unlisted})
  OBVIOUS
<1>4. /\ labels \cap HardDeny = {}
      /\ tokens \cap q.blocked = {}
      /\ labels \cap q.categories # {} \/ tokens \cap q.labels # {}
  BY <1>3 DEF Matches
<1>5. labels \cap ResolveLabelIds(listing, p.blockedLabels) = {}
  <2>. SUFFICES ASSUME NEW l \in labels, listing[l] \in p.blockedLabels
                PROVE  FALSE
    BY DEF ResolveLabelIds
  <2>1. Spelling[listing[l]] \in tokens
    BY <1>1, <1>2, <1>3, TokenOfLabel
  <2>2. Spelling[listing[l]] \in q.blocked
    BY DEF Spelled
  <2>. QED  BY <1>4, <2>1, <2>2
<1>6. CASE labels \cap q.categories # {}
  <2>1. labels \cap Category # {} /\ labels \cap Category \subseteq p.categories
    BY <1>1, <1>6 DEF OneTab
  <2>. QED  BY <1>4, <1>5, <2>1 DEF Eligible, IsEligible
<1>7. CASE tokens \cap q.labels # {}
  <2>1. PICK t : t \in tokens /\ t \in q.labels
    BY <1>7
  <2>2. PICK l \in labels : listing[l] # Unlisted /\ Spelling[listing[l]] = t
    BY <1>3, <2>1, LabelOfToken
  <2>3. PICK n \in p.allowedLabels : Spelling[n] = t
    BY <2>1 DEF Spelled
  <2>4. listing[l] = n
    BY <2>2, <2>3 DEF Distinct
  <2>5. l \in ResolveLabelIds(listing, p.allowedLabels)
    BY <2>3, <2>4 DEF ResolveLabelIds
  <2>. QED  BY <1>4, <1>5, <2>5 DEF Eligible, IsEligible
<1>. QED  BY <1>4, <1>6, <1>7

\* A query that names a category of a message in scope, or a label that put it
\* there, and asks for what is true of it finds it.
LEMMA EligibleIsHit ==
  ASSUME NEW p \in Policy, NEW listing \in Listing, NEW labels \in SUBSET Label,
         NEW q, NEW meets,
         Eligible(p, labels, listing),
         q.blocked = Spelled(p.blockedLabels),
         Distinct(listing, p.blockedLabels),
         \/ labels \cap q.categories # {}
         \/ \E l \in labels : listing[l] # Unlisted /\ Spelling[listing[l]] \in q.labels,
         q.required \subseteq labels,
         q.values \subseteq meets
  PROVE  Matches(q, labels, meets, listing)
<1>1. PICK tokens : tokens = Spelled({listing[l] : l \in labels} \ {Unlisted})
  OBVIOUS
<1>2. labels \cap HardDeny = {}
  BY DEF Eligible, IsEligible
<1>3. tokens \cap q.blocked = {}
  <2>. SUFFICES ASSUME NEW t \in tokens, t \in q.blocked
                PROVE  FALSE
    OBVIOUS
  <2>1. PICK l \in labels : listing[l] # Unlisted /\ Spelling[listing[l]] = t
    BY <1>1, LabelOfToken
  <2>2. PICK n \in p.blockedLabels : Spelling[n] = t
    BY DEF Spelled
  <2>3. listing[l] = n
    BY <2>1, <2>2 DEF Distinct
  <2>4. l \in labels \cap ResolveLabelIds(listing, p.blockedLabels)
    BY <2>2, <2>3 DEF ResolveLabelIds
  <2>. QED  BY <2>4 DEF Eligible, IsEligible
<1>4. labels \cap q.categories # {} \/ tokens \cap q.labels # {}
  BY <1>1, TokenOfLabel
<1>. QED  BY <1>1, <1>2, <1>3, <1>4 DEF Matches

LEMMA NoneOverreaching == Overreaching = {}
<1>. SUFFICES ASSUME NEW p \in Policies, NEW listing \in Listings, NEW labels \in Carryable,
                     NEW category \in Asked, NEW required, NEW values, NEW meets,
                     Distinct(listing, p.allowedLabels), OneTab(labels),
                     Found(p, category, required, values, labels, meets, listing)
              PROVE  Eligible(p, labels, listing)
  BY DEF Overreaching
<1>1. p \in Policy /\ listing \in Listing /\ labels \in SUBSET Label
  BY CallsAssumption, QueryAssumption
<1>2. PICK q \in BuildQuery(p.categories, category, p.allowedLabels, p.blockedLabels,
                            required, values) :
        Matches(q, labels, meets, listing)
  BY DEF Found
<1>3. /\ q.categories \subseteq p.categories
      /\ q.labels \subseteq Spelled(p.allowedLabels)
      /\ q.blocked = Spelled(p.blockedLabels)
  BY QueryParts
<1>. QED  BY <1>1, <1>2, <1>3, HitIsEligible

\* build_query and is_eligible: whatever a list or counts call searches for,
\* what it finds is in scope, so long as no other label is spelled like an
\* allowed one and a message has one tab.
THEOREM SearchSound == Spec => []QuerySound
<1>1. QuerySound
  BY NoneOverreaching DEF QuerySound
<1>. QED  BY <1>1, PTL

LEMMA NoneOverlooking == Overlooking = {}
<1>. SUFFICES ASSUME NEW p \in Policies, NEW listing \in Listings, NEW labels \in Carryable,
                     NEW category \in Asked, NEW required,
                     NEW values \in SUBSET Legal, NEW meets,
                     Distinct(listing, p.blockedLabels),
                     Eligible(p, labels, listing),
                     category = {} \/ category \subseteq p.categories \cap labels,
                     required \subseteq labels, values \subseteq meets
              PROVE  Found(p, category, required, values, labels, meets, listing)
  BY DEF Overlooking
<1>1. p \in Policy /\ listing \in Listing /\ labels \in SUBSET Label
  BY CallsAssumption, QueryAssumption
<1>2. PICK q : q \in BuildQuery(p.categories, category, p.allowedLabels,
                                p.blockedLabels, required, values)
  <2>1. p.categories # {} \/ p.allowedLabels # {}
    BY <1>1 DEF Policy
  <2>. QED  BY <2>1, QueryBuilt
<1>3. /\ q.blocked = Spelled(p.blockedLabels)
      /\ q.required = required /\ q.values = values
      /\ category = {} => q.categories = p.categories /\ q.labels = Spelled(p.allowedLabels)
      /\ category # {} => q.categories = category
  BY <1>2, QueryParts
<1>4. \/ labels \cap q.categories # {}
      \/ \E l \in labels : listing[l] # Unlisted /\ Spelling[listing[l]] \in q.labels
  <2>1. CASE category # {}
    BY <1>3, <2>1
  <2>2. CASE category = {}
    <3>1. CASE labels \cap ResolveLabelIds(listing, p.allowedLabels) # {}
      <4>1. PICK l \in labels : listing[l] \in p.allowedLabels
        BY <3>1 DEF ResolveLabelIds
      <4>2. listing[l] # Unlisted
        BY <1>1, <4>1, LabelsAssumption DEF Policy, PolicyFields
      <4>3. Spelling[listing[l]] \in q.labels
        BY <1>3, <2>2, <4>1 DEF Spelled
      <4>. QED  BY <4>2, <4>3
    <3>2. CASE labels \cap Category # {} /\ labels \cap Category \subseteq p.categories
      BY <1>3, <2>2, <3>2
    <3>. QED  BY <3>1, <3>2 DEF Eligible, IsEligible
  <2>. QED  BY <2>1, <2>2
<1>5. Matches(q, labels, meets, listing)
  BY <1>1, <1>3, <1>4, EligibleIsHit
<1>. QED  BY <1>2, <1>5 DEF Found

\* build_query and is_eligible: what is in scope and asked for, the search
\* finds, so long as no other label is spelled like a blocked one.
THEOREM SearchComplete == Spec => []QueryComplete
<1>1. QueryComplete
  BY NoneOverlooking DEF QueryComplete
<1>. QED  BY <1>1, PTL

----------------------------------------------------------------------------
\* A finite set has a subset of each smaller size.
LEMMA SubsetOfSize ==
  ASSUME NEW S, IsFiniteSet(S), NEW k \in Nat, k <= Cardinality(S)
  PROVE  \E T \in SUBSET S : Cardinality(T) = k
<1>1. PICK n \in Nat : n = Cardinality(S)
  BY FS_CardinalityType
<1>2. PICK f \in Bijection(1..n, S) : TRUE
  BY <1>1, FS_CardinalityType DEF ExistsBijection
<1>3. PICK T : T = {f[i] : i \in 1..k}
  OBVIOUS
<1>4. PICK g : g = [i \in 1..k |-> f[i]]
  OBVIOUS
<1>5. 1..k \subseteq 1..n
  BY <1>1
<1>6. g \in Bijection(1..k, T)
  BY <1>2, <1>3, <1>4, <1>5 DEF Bijection, Injection, Surjection, IsInjective
<1>7. IsFiniteSet(1..k) /\ Cardinality(1..k) = k
  BY FS_Interval
<1>8. Cardinality(T) = k
  BY <1>6, <1>7, FS_Bijection DEF ExistsBijection
<1>9. T \in SUBSET S
  BY <1>2, <1>3, <1>5 DEF Bijection, Injection, Surjection
<1>. QED  BY <1>8, <1>9

\* When the hits are the messages that count, every page tells the count.
LEMMA PagesTellTheCount ==
  ASSUME NEW p, NEW queries, NEW held, NEW listing, NEW messages \in SUBSET Message,
         \A m \in Message :
           (\E q \in queries : Matches(q, held[m], {}, listing))
             <=> m \in Unread(p, held, listing, messages)
  PROVE  Exact(p, queries, held, listing, messages)
<1>1. PICK hits : hits = {m \in Message : \E q \in queries : Matches(q, held[m], {}, listing)}
  OBVIOUS
<1>2. hits = Unread(p, held, listing, messages)
  BY <1>1 DEF Unread
<1>3. PICK pages : pages = IF Cardinality(hits) <= PageSize THEN {hits}
                           ELSE {s \in SUBSET hits : Cardinality(s) = PageSize}
  OBVIOUS
<1>4. CountUnread(p, queries, held, listing) =
        {Report(Cardinality({m \in page : Eligible(p, held[m], listing)})) : page \in pages}
  BY <1>1, <1>3 DEF CountUnread
<1>5. ASSUME NEW page \in pages
      PROVE  {m \in page : Eligible(p, held[m], listing)} = page
  <2>1. page \subseteq hits
    BY <1>3
  <2>. QED  BY <1>2, <2>1 DEF Unread
<1>6. CountUnread(p, queries, held, listing) = {Report(Cardinality(page)) : page \in pages}
  <2>1. ASSUME NEW page \in pages
        PROVE  Report(Cardinality({m \in page : Eligible(p, held[m], listing)}))
                 = Report(Cardinality(page))
    BY <1>5
  <2>. QED  BY <1>4, <2>1
<1>7. PICK n \in Nat : n = Cardinality(hits)
  <2>1. hits \in SUBSET Message
    BY <1>1
  <2>2. IsFiniteSet(hits)
    BY <2>1, QueryAssumption, FS_Subset
  <2>. QED  BY <2>2, FS_CardinalityType
<1>8. PageSize \in Nat
  BY QueryAssumption
<1>9. CASE n <= PageSize
  <2>1. pages = {hits}
    BY <1>3, <1>7, <1>9
  <2>. QED  BY <1>2, <1>6, <2>1 DEF Exact
<1>10. CASE ~(n <= PageSize)
  <2>1. pages = {s \in SUBSET hits : Cardinality(s) = PageSize}
    BY <1>3, <1>7, <1>10
  <2>2. pages # {}
    <3>1. IsFiniteSet(hits)
      BY <1>1, QueryAssumption, FS_Subset
    <3>2. PageSize <= Cardinality(hits)
      BY <1>7, <1>8, <1>10
    <3>. QED  BY <1>8, <2>1, <3>1, <3>2, SubsetOfSize
  <2>3. Report(n) = Report(PageSize)
    BY <1>7, <1>8, <1>10 DEF Report
  <2>4. \A page \in pages : Report(Cardinality(page)) = Report(n)
    BY <2>1, <2>3
  <2>. QED  BY <1>2, <1>6, <1>7, <2>2, <2>4 DEF Exact
<1>. QED  BY <1>9, <1>10

LEMMA NoneMiscounting == Miscounting = {}
<1>. SUFFICES ASSUME NEW p \in Policies, NEW listing \in Listings, NEW held \in Boxes,
                     Distinct(listing, p.allowedLabels \cup p.blockedLabels),
                     \A m \in Message : OneTab(held[m])
              PROVE  /\ \A c \in p.categories :
                          Exact(p, CategoryQuery(p, c), held, listing,
                                {m \in Message : c \in held[m]})
                     /\ \A n \in p.allowedLabels :
                          Exact(p, LabelQuery(p, n), held, listing,
                                {m \in Message : \E l \in held[m] : listing[l] = n})
  BY DEF Miscounting
<1>1. /\ p \in Policy /\ listing \in Listing
      /\ \A m \in Message : held[m] \in SUBSET Label
  BY CallsAssumption, QueryAssumption
<1>2. Distinct(listing, p.allowedLabels) /\ Distinct(listing, p.blockedLabels)
  BY DEF Distinct
<1>3. Spelled({}) = {}
  BY DEF Spelled
<1>4. ASSUME NEW c \in p.categories
      PROVE  Exact(p, CategoryQuery(p, c), held, listing, {m \in Message : c \in held[m]})
  <2>1. PICK q : q \in CategoryQuery(p, c)
    BY <1>4, QueryBuilt DEF CategoryQuery
  <2>2. ASSUME NEW r \in CategoryQuery(p, c)
        PROVE  /\ r.categories = {c} /\ r.labels = {} /\ r.blocked = Spelled(p.blockedLabels)
               /\ r.required = {UNREAD, INBOX} /\ r.values = {}
    BY <1>3, <2>2, QueryParts DEF CategoryQuery
  <2>3. ASSUME NEW m \in Message, NEW r \in CategoryQuery(p, c),
               Matches(r, held[m], {}, listing)
        PROVE  m \in Unread(p, held, listing, {k \in Message : c \in held[k]})
    <3>1. Eligible(p, held[m], listing)
      BY <1>1, <1>2, <1>4, <2>2, <2>3, HitIsEligible
    <3>2. {UNREAD, INBOX} \subseteq held[m] /\ c \in held[m]
      BY <2>2, <2>3 DEF Matches
    <3>. QED  BY <3>1, <3>2 DEF Unread
  <2>4. ASSUME NEW m \in Unread(p, held, listing, {k \in Message : c \in held[k]})
        PROVE  Matches(q, held[m], {}, listing)
    <3>1. /\ m \in Message /\ c \in held[m] /\ Eligible(p, held[m], listing)
          /\ {UNREAD, INBOX} \subseteq held[m]
      BY <2>4 DEF Unread
    <3>. QED  BY <1>1, <1>2, <2>1, <2>2, <3>1, EligibleIsHit
  <2>. QED  BY <2>1, <2>3, <2>4, PagesTellTheCount
<1>5. ASSUME NEW n \in p.allowedLabels
      PROVE  Exact(p, LabelQuery(p, n), held, listing,
                   {m \in Message : \E l \in held[m] : listing[l] = n})
  <2>1. PICK q : q \in LabelQuery(p, n)
    BY QueryBuilt DEF LabelQuery
  <2>2. ASSUME NEW r \in LabelQuery(p, n)
        PROVE  /\ r.categories = {} /\ r.labels = {Spelling[n]}
               /\ r.blocked = Spelled(p.blockedLabels)
               /\ r.required = {UNREAD, INBOX} /\ r.values = {}
    <3>1. Spelled({n}) = {Spelling[n]}
      BY DEF Spelled
    <3>2. r \in BuildQuery({}, {}, {n}, p.blockedLabels, {UNREAD, INBOX}, {})
      BY <2>2 DEF LabelQuery
    <3>3. /\ r.categories = {} /\ r.labels = Spelled({n}) /\ r.blocked = Spelled(p.blockedLabels)
          /\ r.required = {UNREAD, INBOX} /\ r.values = {}
      BY <3>2, QueryParts
    <3>. QED  BY <3>1, <3>3
  <2>3. ASSUME NEW m \in Message, NEW r \in LabelQuery(p, n),
               Matches(r, held[m], {}, listing)
        PROVE  m \in Unread(p, held, listing, {k \in Message : \E l \in held[k] : listing[l] = n})
    <3>1. Eligible(p, held[m], listing)
      <4>1. r.labels \subseteq Spelled(p.allowedLabels) /\ r.categories \subseteq p.categories
        BY <2>2 DEF Spelled
      <4>. QED  BY <1>1, <1>2, <2>2, <2>3, <4>1, HitIsEligible
    <3>2. {UNREAD, INBOX} \subseteq held[m]
      BY <2>2, <2>3 DEF Matches
    <3>3. PICK t : t \in Spelled({listing[l] : l \in held[m]} \ {Unlisted}) /\ t = Spelling[n]
      BY <2>2, <2>3 DEF Matches
    <3>4. PICK l \in held[m] : listing[l] # Unlisted /\ Spelling[listing[l]] = t
      BY <3>3, LabelOfToken
    <3>5. l \in Label /\ listing[l] = n
      BY <1>1, <1>2, <3>3, <3>4 DEF Distinct
    <3>. QED  BY <3>1, <3>2, <3>4, <3>5 DEF Unread
  <2>4. ASSUME NEW m \in Unread(p, held, listing, {k \in Message : \E l \in held[k] : listing[l] = n})
        PROVE  Matches(q, held[m], {}, listing)
    <3>1. /\ m \in Message /\ Eligible(p, held[m], listing)
          /\ {UNREAD, INBOX} \subseteq held[m]
      BY <2>4 DEF Unread
    <3>2. PICK l \in held[m] : listing[l] = n
      BY <2>4 DEF Unread
    <3>3. listing[l] # Unlisted /\ Spelling[listing[l]] \in q.labels
      BY <1>1, <2>1, <2>2, <3>2, LabelsAssumption DEF Policy, PolicyFields
    <3>. QED  BY <1>1, <1>2, <2>1, <2>2, <3>1, <3>3, EligibleIsHit
  <2>. QED  BY <2>1, <2>3, <2>4, PagesTellTheCount
<1>. QED  BY <1>4, <1>5

\* gmail_counts: where no two names in question have one spelling, each count
\* is exact, or "100+" when there are that many, whichever hits come first.
THEOREM CountsExact == Spec => []CountIsExact
<1>1. CountIsExact
  BY NoneMiscounting DEF CountIsExact
<1>. QED  BY <1>1, PTL

=============================================================================
