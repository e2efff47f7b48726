----------------------------- MODULE SharedDraft -----------------------------
(***************************************************************************)
(* What the row journal promises to the person with whom the program       *)
(* shares a draft.  The program owes one change at a time.  It undertakes  *)
(* to add a record that has no row, its addition takes effect at most      *)
(* once, and only while it is owed.  A change is called done when it is:   *)
(* a record was added, or the last row of one is gone.  The person, and an *)
(* owed deletion, may remove a row at any time.                            *)
(***************************************************************************)
CONSTANTS Record, NoRecord

VARIABLES
  rows,  \* the rows that are bound to a record, each with its id
  owed,  \* the change that was begun and not yet seen to be done, if any
  fate   \* of an owed addition: "open", "made", or "none"

vars == <<rows, owed, fate>>

Change == [kind : {"add", "delete", "reorder"}, record : Record \cup {NoRecord}]
Has(record) == \E row \in rows : row.record = record

Init == rows = {} /\ owed = {} /\ fate = "none"

Undertake(c) ==
  /\ owed = {} /\ (c.kind = "add" => ~Has(c.record))
  /\ owed' = {c}
  /\ fate' = IF c.kind = "add" THEN "open" ELSE "none"
  /\ UNCHANGED rows

\* The addition takes effect.
Comes ==
  /\ fate = "open"
  /\ \E c \in owed, row \in rows' : c.record = row.record /\ ~Has(row.record) /\ rows' = rows \cup {row}
  /\ fate' = "made"
  /\ UNCHANGED owed

\* It never will: it was lost, or its process died before it was sent.
Fails ==
  /\ fate = "open"
  /\ fate' = "none"
  /\ UNCHANGED <<rows, owed>>

Removed ==
  /\ \E row \in rows : rows' = rows \ {row}
  /\ UNCHANGED <<owed, fate>>

Done ==
  /\ owed # {}
  /\ \A c \in owed : (c.kind = "add" => fate = "made") /\ (c.kind = "delete" => ~Has(c.record))
  /\ owed' = {} /\ fate' = "none"
  /\ UNCHANGED rows

Next == (\E c \in Change : Undertake(c)) \/ Comes \/ Fails \/ Removed \/ Done

Spec == Init /\ [][Next]_vars

=============================================================================
