------------------------------ MODULE Backend ------------------------------
(***************************************************************************)
(* What the tool layer relies on when it calls ctx.backend: each call      *)
(* takes effect at one instant between its beginning and its end.  A read  *)
(* answers with what is live at that instant, or, marked as cached, with   *)
(* what was live at some earlier time if that kind of read is cached and   *)
(* the caller did not ask for fresh data.  ToolCalls.tla takes each such   *)
(* call as one step; CachingBackend.tla shows that cache.py provides it.   *)
(***************************************************************************)
EXTENDS Mailbox

CONSTANTS
  Client,   \* threads that call the backend
  Query,    \* search queries, with page size and page token
  Requests, \* BOUND: what each client asks for
  None      \* no request, no reply

ReadOp  == {"metadata", "content", "listing", "search", "thread"}
WriteOp == {"modify", "trash"}

Request ==
  [op : ReadOp \cup WriteOp, msg : Message, query : Query, fresh : BOOLEAN,
   add : SUBSET Label, remove : SUBSET Label]

\* What a call may answer: labels, a listing, the messages found, a thread.
Reply ==
  [value : (SUBSET Label) \cup Listing \cup (SUBSET Message) \cup [Message -> SUBSET Label],
   cached : BOOLEAN]

VARIABLES
  asked, \* the request of each client, None when there is none
  reply  \* the answer that is on its way to the client

backendVars == <<mailboxVars, asked, reply>>

Init ==
  /\ MailboxInit
  /\ asked = [c \in Client |-> None]
  /\ reply = [c \in Client |-> None]

Ask(c) ==
  /\ asked[c] = None
  /\ \E r \in Requests[c] : asked' = [asked EXCEPT ![c] = r]
  /\ UNCHANGED <<mailboxVars, reply>>

\* The possible answers to a read.  A thread brings the labels of all its
\* messages and is never answered from a cache.
Answers(r) ==
  CASE r.op = "metadata" -> MetadataReads(r.msg, r.fresh)
    [] r.op = "content"  -> ContentReads(r.msg, r.fresh)
    [] r.op = "listing"  -> ListingReads(r.fresh)
    [] r.op = "search"   -> SearchReads(r.fresh)
    [] r.op = "thread"   -> Live(box)

AnswerRead(c) ==
  /\ asked[c] # None
  /\ reply[c] = None
  /\ asked[c].op \in ReadOp
  /\ \E a \in Answers(asked[c]) : reply' = [reply EXCEPT ![c] = a]
  /\ UNCHANGED <<mailboxVars, asked>>

\* The effect of a mutation at Gmail.
Effect(r) ==
  IF r.op = "modify" THEN ModifyLabels(r.msg, r.add, r.remove)
                     ELSE TrashMessage(r.msg)

AnswerWrite(c) ==
  /\ asked[c] # None
  /\ reply[c] = None
  /\ asked[c].op \in WriteOp
  /\ Effect(asked[c])
  /\ reply' = [reply EXCEPT ![c] = [value |-> box'[asked[c].msg], cached |-> FALSE]]
  /\ UNCHANGED asked

\* A call that raises: a mutation may have taken effect all the same.
Fail(c) ==
  /\ asked[c] # None
  /\ reply[c] = None
  /\ \/ UNCHANGED mailboxVars
     \/ asked[c].op \in WriteOp /\ Effect(asked[c])
  /\ asked' = [asked EXCEPT ![c] = None]
  /\ UNCHANGED reply

Return(c) ==
  /\ reply[c] # None
  /\ asked' = [asked EXCEPT ![c] = None]
  /\ reply' = [reply EXCEPT ![c] = None]
  /\ UNCHANGED mailboxVars

Next ==
  \/ \E c \in Client : Ask(c) \/ AnswerRead(c) \/ AnswerWrite(c) \/ Fail(c) \/ Return(c)
  \/ Owner /\ UNCHANGED <<asked, reply>>

Spec == Init /\ [][Next]_backendVars

=============================================================================
