--------------------------- MODULE MCCredentials ---------------------------
(* Values of the constants for TLC.                                        *)
EXTENDS Credentials, TLC

\* Ids, tokens and requests are interchangeable.
Symmetry == Permutations(Id) \cup Permutations(Token) \cup Permutations(Worker)

=============================================================================
