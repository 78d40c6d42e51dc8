------------------------------ MODULE AuditLog ------------------------------
(***************************************************************************)
(* The audit log of audit.py: a file of lines, each a record that names    *)
(* the hash of the one before.  A hash is a number, taken anew for each    *)
(* record (time stamp and previous hash make every body different); the    *)
(* content of a record is left out.                                        *)
(***************************************************************************)
EXTENDS Naturals, Sequences

Genesis == 0  \* "0" * 64

\* A line is a record, or text that does not parse.
Record  == [hash : Nat \ {0}, prev : Nat]
Garbage == [hash |-> 0, prev |-> 0]
Line    == Record \cup {Garbage}

\* torn: the last line has no line end.
File  == [lines : Seq(Line), torn : BOOLEAN]
Empty == [lines |-> <<>>, torn |-> FALSE]

Readable(l) == l.hash # 0

\* What the file is when a text l is appended, with or without its line end:
\* after a line that has none the two run together.
Write(f, l, end) ==
  [lines |-> IF f.torn THEN [f.lines EXCEPT ![Len(f.lines)] = Garbage]
             ELSE Append(f.lines, l),
   torn  |-> ~end]

\* A write that fails, or a process that dies, part of the way: nothing, the
\* beginning of the line, or all of it but the line end.
WriteInPart(f, l) == {f, Write(f, Garbage, FALSE), Write(f, l, FALSE)}

\* _recover_last_hash: of the last line that parses.
Recover(f) ==
  LET seen == {n \in DOMAIN f.lines : Readable(f.lines[n])}
  IN  IF seen = {} THEN Genesis
      ELSE f.lines[CHOOSE n \in seen : \A m \in seen : m <= n].hash

\* verify_chain returns True.  At a line that does not parse it raises.
VerifyChain(f) ==
  \A n \in DOMAIN f.lines :
    /\ Readable(f.lines[n])
    /\ f.lines[n].prev = IF n = 1 THEN Genesis ELSE f.lines[n - 1].hash

OnRecord(f) == {f.lines[n].hash : n \in DOMAIN f.lines}

=============================================================================
