------------------------------- MODULE Query -------------------------------
(***************************************************************************)
(* policy/query.py: the Gmail search a list or counts call is turned into, *)
(* and how it compares with is_eligible.  Scope is decided twice: by the   *)
(* search, and by the predicate on each hit.  What the search misses no    *)
(* predicate brings back, and what it finds too much uses up the page.     *)
(*                                                                         *)
(* A query is the set of its terms.  The properties are about each policy  *)
(* that comes into force, and a mailbox that stands still meanwhile.       *)
(***************************************************************************)
EXTENDS ToolCalls, FiniteSets

CONSTANTS
  UNREAD,   \* the label is:unread searches for
  Spelling, \* label_search_token: how label: spells a name
  Value,    \* from:, subject: and date terms a caller may ask for
  Legal,    \* ...those whose value passes validation
  PageSize, \* hits one search of gmail_counts looks at (100)
  Listings, \* BOUND: the listings searched under
  Carryable, \* BOUND: the label sets of the messages searched
  Boxes     \* BOUND: the mailboxes counted

ASSUME QueryAssumption ==
  /\ UNREAD \in PlainSystem
  /\ Spelling \in [Name -> Name]
  /\ Legal \subseteq Value
  /\ PageSize \in Nat \ {0}
  /\ Listings \subseteq Listing
  /\ Carryable \subseteq SUBSET Label
  /\ Boxes \subseteq [Message -> Carryable]
  /\ IsFiniteSet(Message)

Spelled(labelNames) == {Spelling[n] : n \in labelNames}

\* _assert_scoped: the tokens of the query are those in scope and no others.
AssertScoped(q, scope, labelNames, blockedNames) ==
  /\ q.categories = scope
  /\ q.labels \cup q.blocked = Spelled(labelNames \cup blockedNames)

\* Mutant: a category is taken at its word.
BuildQueryAnyCategory(categories, category, allowedNames, blockedNames, required, values) ==
  {[categories |-> IF category = {} THEN categories ELSE category,
    labels     |-> IF category = {} THEN Spelled(allowedNames) ELSE {},
    blocked    |-> Spelled(blockedNames),
    required   |-> required,
    values     |-> values]}

\* Mutant: archived messages are never searched.
BuildQueryInboxAlways(categories, category, allowedNames, blockedNames, required, values) ==
  {[categories |-> IF category = {} THEN categories ELSE category,
    labels     |-> IF category = {} THEN Spelled(allowedNames) ELSE {},
    blocked    |-> Spelled(blockedNames),
    required   |-> required \cup {INBOX},
    values     |-> values]}

\* build_query: the query, or none when the call is rejected.  A category
\* asked for is a set of at most one; required is what is:unread and in:inbox
\* ask for.
BuildQuery(categories, category, allowedNames, blockedNames, required, values) ==
  LET scope      == IF category = {} THEN categories ELSE category
      labelNames == IF category = {} THEN allowedNames ELSE {}
      q == [categories |-> scope,
            labels     |-> Spelled(labelNames),
            blocked    |-> Spelled(blockedNames),
            required   |-> required,
            values     |-> values]
      accepted ==
        /\ category \subseteq categories
        /\ scope # {} \/ labelNames # {}
        /\ values \subseteq Legal
        /\ AssertScoped(q, scope, labelNames, blockedNames)
  IN  IF accepted THEN {q} ELSE {}

\* Which messages a query finds: Gmail's part, as the mock backend plays it.
\* meets is the from:, subject: and date terms that are true of the message.
\* One with several categories is found under each of them.
Matches(q, labels, meets, listing) ==
  LET tokens == Spelled({listing[l] : l \in labels} \ {Unlisted}) IN
  /\ labels \cap HardDeny = {}
  /\ tokens \cap q.blocked = {}
  /\ labels \cap q.categories # {} \/ tokens \cap q.labels # {}
  /\ q.required \subseteq labels
  /\ q.values \subseteq meets

\* What a list call under policy p has Gmail find.
Found(p, category, required, values, labels, meets, listing) ==
  \E q \in BuildQuery(p.categories, category, p.allowedLabels, p.blockedLabels,
                      required, values) :
    Matches(q, labels, meets, listing)

\* The verdict on each hit.
Eligible(p, labels, listing) ==
  IsEligible(labels, p.categories, ResolveLabelIds(listing, p.allowedLabels),
                                   ResolveLabelIds(listing, p.blockedLabels))

\* Mutant: a full page is taken for the whole.
ReportPage(n) == n

\* How _count_unread tells a count: from PageSize on it is "100+".
Report(n) == IF n < PageSize THEN n ELSE PageSize

\* The searches of gmail_counts.
CategoryQuery(p, c) ==
  BuildQuery(p.categories, {c}, {}, p.blockedLabels, {UNREAD, INBOX}, {})
LabelQuery(p, n) ==
  BuildQuery({}, {}, {n}, p.blockedLabels, {UNREAD, INBOX}, {})

\* _count_unread: the eligible ones among the first hits, whichever come first.
CountUnread(p, queries, held, listing) ==
  LET hits  == {m \in Message : \E q \in queries : Matches(q, held[m], {}, listing)}
      pages == IF Cardinality(hits) <= PageSize THEN {hits}
               ELSE {s \in SUBSET hits : Cardinality(s) = PageSize}
  IN  {Report(Cardinality({m \in page : Eligible(p, held[m], listing)})) : page \in pages}

----------------------------------------------------------------------------
\* Every label that is spelled like one of these names has it.
Distinct(listing, labelNames) ==
  \A l \in Label, n \in labelNames :
    /\ listing[l] # Unlisted
    /\ Spelling[listing[l]] = Spelling[n]
    => listing[l] = n

\* Gmail gives a message one tab.
OneTab(labels) == \A c, d \in labels \cap Category : c = d

Asked == {{}} \cup {{c} : c \in Category}

\* The policies under which a search finds what is not in scope, though no
\* other label is spelled like an allowed one.
Overreaching ==
  {p \in Policies :
     \E listing \in Listings, labels \in Carryable, category \in Asked,
        required \in SUBSET {UNREAD, INBOX}, values \in SUBSET Value,
        meets \in SUBSET Legal :
       /\ Distinct(listing, p.allowedLabels)
       /\ OneTab(labels)
       /\ Found(p, category, required, values, labels, meets, listing)
       /\ ~Eligible(p, labels, listing)}

\* build_query and is_eligible: what a search finds is in scope.
QuerySound == policy \notin Overreaching

\* The policies under which a search misses what is in scope and is what the
\* call asks for, though no other label is spelled like a blocked one.
Overlooking ==
  {p \in Policies :
     \E listing \in Listings, labels \in Carryable, category \in Asked,
        required \in SUBSET {UNREAD, INBOX}, values \in SUBSET Legal,
        meets \in SUBSET Legal :
       /\ Distinct(listing, p.blockedLabels)
       /\ Eligible(p, labels, listing)
       /\ category = {} \/ category \subseteq p.categories \cap labels
       /\ required \subseteq labels
       /\ values \subseteq meets
       /\ ~Found(p, category, required, values, labels, meets, listing)}

\* build_query and is_eligible: what is in scope and asked for, a search finds.
\* Where two names have one spelling and only one of them is blocked, the
\* messages of the other are missing from list and counts, although get serves
\* them: Distinct leaves that case out.
QueryComplete == policy \notin Overlooking

\* What a count is a count of.
Unread(p, held, listing, messages) ==
  {m \in messages : Eligible(p, held[m], listing) /\ {UNREAD, INBOX} \subseteq held[m]}

Exact(p, queries, held, listing, messages) ==
  CountUnread(p, queries, held, listing) =
    {Report(Cardinality(Unread(p, held, listing, messages)))}

\* The policies under which a count is not what it says.
Miscounting ==
  {p \in Policies :
     \E listing \in Listings, held \in Boxes :
       /\ Distinct(listing, p.allowedLabels \cup p.blockedLabels)
       /\ \A m \in Message : OneTab(held[m])
       /\ \/ \E c \in p.categories :
               ~Exact(p, CategoryQuery(p, c), held, listing, {m \in Message : c \in held[m]})
          \/ \E n \in p.allowedLabels :
               ~Exact(p, LabelQuery(p, n), held, listing,
                      {m \in Message : \E l \in held[m] : listing[l] = n})}

\* gmail_counts: the count of a category or an allowed label is that of its
\* unread eligible messages in the inbox, and "100+" is told when there are so
\* many.  This takes both of the above: a hit that is not eligible would use up
\* a place of the page.
CountIsExact == policy \notin Miscounting

=============================================================================
