------------------------------ MODULE MCQuery ------------------------------
(* Values of the constants for TLC.                                        *)
EXTENDS MCToolCalls, Query

CONSTANTS topic, malformed

\* "Other name" and "Other-name": two names of one spelling.
MCSpelling == [n \in Name |-> IF n = OtherName THEN SecretName ELSE n]

MCValue == {topic, malformed}
MCLegal == {topic}

Named(n, o) == [l \in Label |-> CASE l = news -> n [] l = secret -> o [] OTHER -> l]
MCListings == {Named(NewsName, SecretName), Named(OtherName, SecretName),
               Named(NewsName, Unlisted)}
MCCarryable == SUBSET Label
MCBoxes   == [Message -> {{promo, INBOX, unread}, {personal, news, INBOX, unread},
                          {promo, secret, INBOX, unread}, {promo, news, INBOX}}]

=============================================================================
