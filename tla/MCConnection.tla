---------------------------- MODULE MCConnection ----------------------------
(* Values of the constants for TLC.                                        *)
EXTENDS Connection, TLC

CONSTANTS p1, p2, on, off

\* The defaults and one of the policies have the content cache on.
MCCache == p1 :> on @@ p2 :> off @@ Defaults :> on

\* Browsers are interchangeable, and so are clients as long as none is that of
\* the environment.
Symmetry == Permutations(Admin) \cup Permutations(OAuthClient)

=============================================================================
