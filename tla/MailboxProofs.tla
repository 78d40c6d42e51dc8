--------------------------- MODULE MailboxProofs ---------------------------
(* Lemmas about the mailbox of Mailbox.tla: its types, and that what it is *)
(* at any time is remembered.                                              *)
EXTENDS Mailbox, TLAPS

\* The owner and a mutation remember what they make of the mailbox.
LEMMA RememberTypes ==
  ASSUME MailboxTypeOK, Remember, box' \in [Message -> SUBSET Label],
         names' \in Listing, moves' \in 0..MaxMoves
  PROVE  MailboxTypeOK'
<1>1. pastBox' \in [Message -> SUBSET SUBSET Label]
  BY DEF Remember, MailboxTypeOK
<1>2. pastNames' \in SUBSET Listing
  BY DEF Remember, MailboxTypeOK
<1>3. QED
  BY <1>1, <1>2 DEF MailboxTypeOK

\* Both writes keep the mailbox well typed, given label ids to write.
LEMMA WriteTypes ==
  ASSUME MailboxTypeOK, NEW m \in Message, NEW add \in SUBSET Label,
         NEW remove \in SUBSET Label,
         ModifyLabels(m, add, remove) \/ TrashMessage(m)
  PROVE  MailboxTypeOK'
<1>1. TRASH \in Label
  BY DEF Label, System, HardDeny
<1>2. box' \in [Message -> SUBSET Label]
  BY <1>1 DEF MailboxTypeOK, ModifyLabels, TrashMessage, Relabel, Trashed
<1>3. Remember /\ UNCHANGED <<names, moves>>
  BY DEF ModifyLabels, TrashMessage
<1>4. QED
  BY <1>2, <1>3, RememberTypes DEF MailboxTypeOK

LEMMA OwnerTypes == ASSUME MailboxTypeOK, Owner PROVE MailboxTypeOK'
<1>1. Moved /\ Remember
  BY DEF Owner, OwnerRelabels, OwnerNames, OwnerDeletes
<1>2. moves' \in 0..MaxMoves
  BY <1>1, MailboxAssumption DEF Moved, MailboxTypeOK
<1>3. box' \in [Message -> SUBSET Label]
  BY MailboxAssumption
     DEF MailboxTypeOK, Owner, OwnerRelabels, OwnerNames, OwnerDeletes
<1>4. ASSUME NEW l, NEW n \in Name \cup {Unlisted}
      PROVE  [names EXCEPT ![l] = n] \in Listing
  BY DEF MailboxTypeOK, Listing
<1>5. names' \in Listing
  <2>1. ASSUME NEW l, NEW n \in OwnerName, OwnerNames(l, n) PROVE names' \in Listing
    BY <1>4, <2>1, MailboxAssumption DEF OwnerNames
  <2>2. ASSUME NEW l, OwnerDeletes(l) PROVE names' \in Listing
    BY <1>4, <2>2 DEF OwnerDeletes
  <2>3. ASSUME NEW m, OwnerRelabels(m) PROVE names' \in Listing
    BY <2>3 DEF OwnerRelabels, MailboxTypeOK
  <2>4. QED
    BY <2>1, <2>2, <2>3 DEF Owner
<1>6. QED
  BY <1>1, <1>2, <1>3, <1>5, RememberTypes

\* Whatever remembers does so for good.
LEMMA RememberGrows ==
  ASSUME MailboxTypeOK, Remember
  PROVE  /\ \A m \in Message : box'[m] \in pastBox'[m] /\ pastBox[m] \subseteq pastBox'[m]
         /\ names' \in pastNames' /\ pastNames \subseteq pastNames'
BY DEF Remember, MailboxTypeOK

=============================================================================
