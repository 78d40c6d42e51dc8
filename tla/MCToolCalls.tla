---------------------------- MODULE MCToolCalls ----------------------------
(* Values of the constants for TLC.                                        *)
EXTENDS ToolCalls, TLC

CONSTANTS promo, personal, unread, news, secret, NewsName, SecretName, OtherName

MCCategory    == {promo, personal}
MCPlainSystem == {INBOX, unread}
MCUserLabel   == {news, secret}
MCName        == {promo, personal, SPAM, TRASH, INBOX, unread,
                  NewsName, SecretName, OtherName}

Base == [categories         |-> {promo},
         allowedLabels      |-> {NewsName},
         blockedLabels      |-> {SecretName},
         mutableLabels      |-> {INBOX, unread},
         userLabelMutations |-> TRUE,
         readOnly           |-> FALSE,
         allowTrash         |-> TRUE]

\* Trash not allowed; and mutations not allowed, but trash if they were, with
\* other labels deciding scope.
NoTrash  == [Base EXCEPT !.allowTrash = FALSE]
ReadOnly == [Base EXCEPT !.readOnly = TRUE,
                         !.allowedLabels = {}, !.blockedLabels = {}]

MCPolicies == {Base, NoTrash, ReadOnly}

\* A trash takes a save in between.
MixPolicies == {NoTrash, ReadOnly}

\* Messages are interchangeable: the one in an idle frame is never read.
MessageSymmetry == Permutations(Message)

MCPlacement == {{promo, INBOX}, {personal, news}, {promo, secret}}
MCFirstListings == {[l \in Label |-> CASE l = news -> NewsName
                                       [] l = secret -> SecretName
                                       [] OTHER -> l]}
MCOwnerName == {NewsName, SecretName}
MCRequest   == {{}, {unread}, {NewsName}}

\* ...with a label that blocks among them.
ToolsRequest == MCRequest \cup {{SecretName}}

\* Two calls at once: fewer inputs, more interleaving.
OnePolicy     == {Base}
RacePlacement == {{promo, INBOX}, {personal, news}}
RaceRequest   == {{}, {unread}}
RaceTools     == {"modify", "trash"}

\* Scope by category alone, as policy.yaml comes.
CategoryPolicies == {[Base EXCEPT !.allowedLabels = {}, !.blockedLabels = {}]}
CategoryPlacement == {{promo, INBOX}, {personal, INBOX}}

=============================================================================
