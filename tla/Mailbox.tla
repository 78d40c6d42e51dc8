------------------------------ MODULE Mailbox ------------------------------
(***************************************************************************)
(* What the tool layer may rely on when it calls ctx.backend: the mailbox, *)
(* its owner who keeps using it, and the values a read may return.  The    *)
(* Gmail service is external; the reads also stand for the caching         *)
(* decorator of cache.py, which may answer with a value that was live      *)
(* earlier, and then says so.                                              *)
(***************************************************************************)
EXTENDS Scope, Integers

CONSTANTS
  Message,        \* message ids
  INBOX,          \* the label archiving removes
  MetadataCached, \* cache.metadata_ttl_s > 0
  ContentCached,  \* cache.content enabled, with room
  ListingCached,  \* cache.labels_ttl_s > 0
  SearchCached,   \* cache.list_ttl_s > 0
  Placement,      \* BOUND: the label sets the owner puts a message in
  FirstListings,  \* BOUND: how the labels are named to begin with
  OwnerName,      \* BOUND: the names the owner gives labels
  MaxMoves        \* BOUND: changes made from outside the proxy

ASSUME MailboxAssumption ==
  /\ INBOX \in PlainSystem
  /\ MetadataCached \in BOOLEAN
  /\ ContentCached \in BOOLEAN
  /\ ListingCached \in BOOLEAN
  /\ SearchCached \in BOOLEAN
  /\ Placement \subseteq SUBSET Label
  /\ FirstListings \subseteq Listing
  /\ OwnerName \subseteq Name
  /\ MaxMoves \in Nat

VARIABLES
  box,       \* the labels each message has at Gmail now
  names,     \* what labels.list would return now
  pastBox,   \* history: every label set each message has had
  pastNames, \* history: every listing there has been
  moves      \* changes made from outside so far

mailboxVars == <<box, names, pastBox, pastNames, moves>>

MailboxInit ==
  /\ box \in [Message -> Placement]
  /\ names \in FirstListings
  /\ pastBox = [m \in Message |-> {box[m]}]
  /\ pastNames = {names}
  /\ moves = 0

MailboxTypeOK ==
  /\ box \in [Message -> SUBSET Label]
  /\ names \in Listing
  /\ pastBox \in [Message -> SUBSET SUBSET Label]
  /\ pastNames \in SUBSET Listing
  /\ moves \in 0..MaxMoves

\* History never constrains a step.
Remember ==
  /\ pastBox' = [m \in Message |-> pastBox[m] \cup {box'[m]}]
  /\ pastNames' = pastNames \cup {names'}

----------------------------------------------------------------------------
\* The owner at work, or Gmail's own classifier.

Moved == moves < MaxMoves /\ moves' = moves + 1

\* A message is moved, relabelled, reported as spam, thrown away...
OwnerRelabels(m) ==
  /\ Moved
  /\ \E labels \in Placement :
       /\ \A l \in labels : names[l] # Unlisted
       /\ box' = [box EXCEPT ![m] = labels]
  /\ UNCHANGED names
  /\ Remember

\* A label is created or renamed.
OwnerNames(l, n) ==
  /\ Moved
  /\ names' = [names EXCEPT ![l] = n]
  /\ UNCHANGED box
  /\ Remember

\* A label is deleted: it also leaves every message.
OwnerDeletes(l) ==
  /\ Moved
  /\ names[l] # Unlisted
  /\ names' = [names EXCEPT ![l] = Unlisted]
  /\ box' = [m \in Message |-> box[m] \ {l}]
  /\ Remember

Owner ==
  \/ \E m \in Message : OwnerRelabels(m)
  \/ \E l \in UserLabel, n \in OwnerName : OwnerNames(l, n)
  \/ \E l \in UserLabel : OwnerDeletes(l)

----------------------------------------------------------------------------
\* Reads: the possible replies, each with whether it came from a cache.
\* fresh=true goes past every cache.

Live(v)         == {[value |-> v, cached |-> FALSE]}
Remembered(old) == {[value |-> v, cached |-> TRUE] : v \in old}

MetadataReads(m, fresh) ==
  Live(box[m]) \cup
  IF MetadataCached /\ ~fresh THEN Remembered(pastBox[m]) ELSE {}

ContentReads(m, fresh) ==
  Live(box[m]) \cup
  IF ContentCached /\ ~fresh THEN Remembered(pastBox[m]) ELSE {}

ListingReads(fresh) ==
  Live(names) \cup
  IF ListingCached /\ ~fresh THEN Remembered(pastNames) ELSE {}

\* Search is Gmail's, and its index may lag: any set of messages.
SearchReads(fresh) ==
  [value : SUBSET Message,
   cached : IF SearchCached /\ ~fresh THEN BOOLEAN ELSE {FALSE}]

----------------------------------------------------------------------------
\* Writes, when they reach Gmail.

ModifyLabels(m, add, remove) ==
  /\ box' = [box EXCEPT ![m] = Relabel(@, add, remove)]
  /\ UNCHANGED <<names, moves>>
  /\ Remember

\* As the mock backend does it: TRASH is added and INBOX taken away, unless
\* the message is in the trash already.
Trashed(labels) ==
  IF TRASH \in labels THEN labels ELSE (labels \ {INBOX}) \cup {TRASH}

TrashMessage(m) ==
  /\ box' = [box EXCEPT ![m] = Trashed(@)]
  /\ UNCHANGED <<names, moves>>
  /\ Remember

=============================================================================
