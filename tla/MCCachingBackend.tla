-------------------------- MODULE MCCachingBackend --------------------------
(* Values of the constants for TLC.                                        *)
EXTENDS CachingBackend

CONSTANTS promo, unread, mcp, admin, m1, m2, q1

MCCategory      == {promo}
MCPlainSystem   == {INBOX, unread}
MCName          == {promo, SPAM, TRASH, INBOX, unread}
MCPlacement     == {{promo, INBOX}}
MCFirstListings == {[l \in Label |-> l]}

Ask0(op, m, fresh) ==
  [op |-> op, msg |-> m, query |-> q1, fresh |-> fresh, add |-> {}, remove |-> {}]

\* The agent reads, mutates and reads again...
McpRequests ==
  {Ask0("metadata", m1, FALSE), Ask0("search", m1, FALSE), Ask0("content", m1, FALSE),
   [Ask0("modify", m1, FALSE) EXCEPT !.remove = {INBOX}]}

\* ...while the operator's pages do.
AdminRequests ==
  {Ask0("metadata", m1, FALSE), Ask0("metadata", m1, TRUE), Ask0("thread", m1, FALSE)}

MCRequests == (mcp :> McpRequests) @@ (admin :> AdminRequests)

On == [enabled |-> TRUE, maxMessages |-> 1,
       ttl |-> [metadata |-> 1, listing |-> 1, search |-> 1]]
Off == [enabled |-> FALSE, maxMessages |-> 1,
        ttl |-> [metadata |-> 0, listing |-> 1, search |-> 0]]

MCConfigs == {On, Off}
MCFound   == {{m1}}

=============================================================================
