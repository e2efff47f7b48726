----------------------------- MODULE RowJournal -----------------------------
(***************************************************************************)
(* Repeated rows of a form (education, projects, ...) are added, deleted   *)
(* and reordered in a draft that lives on a job site.  Adding is not       *)
(* idempotent there, a response may be lost, a process may die.  The row   *)
(* journal, src/executor/forms/repeated_rows.py, keeps one durable intent  *)
(* at a time and settles it by reading the rows, never by repeating it.    *)
(*                                                                         *)
(* The draft is the sequence of its revisions; an inventory that somebody  *)
(* read is then its revision number, and the preimage that the journal     *)
(* stores is the inventory of the action's "before".                       *)
(***************************************************************************)
EXTENDS Naturals, Sequences, FiniteSets

CONSTANTS
    Process,     \* processes that run a reconciler over this draft
    Action,      \* ids of journal entries
    NoAction,    \* no entry
    Record,      \* canonical records of the collection
    Wish,        \* what a run may ask for: [rows |-> order, deletes |-> set]
    NoWish,      \* a process that runs nothing
    MaxRevision  \* bound: revisions of the draft

ASSUME ConstantsAssumption ==
    /\ NoAction \notin Action
    /\ NoWish \notin Wish
    /\ MaxRevision \in Nat
    /\ \A w \in Wish : /\ w.rows \in Seq(Record)
                       /\ w.deletes \in SUBSET Record
                       /\ \A i \in DOMAIN w.rows : w.rows[i] \notin w.deletes
                       /\ \A i, j \in DOMAIN w.rows : w.rows[i] = w.rows[j] => i = j

VARIABLES
    history,  \* the draft: its inventories, oldest first
    journal,  \* the table row_actions
    calls,    \* actions whose call was sent and may still take effect
    pc,       \* where a process is
    wish,     \* what it was asked for
    inv,      \* revision of the inventory it goes by, 0 for none
    todo,     \* entries it listed as pending and has yet to settle
    act       \* the entry of its own action

vars == <<history, journal, calls, pc, wish, inv, todo, act>>
process == <<pc, wish, inv, todo, act>>

-----------------------------------------------------------------------------
(* The draft.  "foreign" says that some row is unmanaged: such a draft is    *)
(* never touched, so nothing more is said of the row.  A row's id is the     *)
(* revision that it came with, as a site gives an id once.  The order of the *)
(* rows is the relation "stands above" between their records.                *)

Row == [record : Record, id : Nat, edited : BOOLEAN]
Order == SUBSET (Record \X Record)
Inventory == [rows : SUBSET Row, order : Order, foreign : BOOLEAN]

Current == Len(history)
Draft == history[Current]
RowsOf(r) == history[r].rows
Records(inventory) == {row.record : row \in inventory.rows}
RecordsIn(r) == Records(history[r])
Without(rows, record) == {row \in rows : row.record # record}
Unordered(order, record) == {pair \in order : pair[1] # record /\ pair[2] # record}
Ordered(order) == {pair[1] : pair \in order} \cup {pair[2] : pair \in order}
OrderOf(s) == {<<s[ij[1]], s[ij[2]]>> : ij \in {at \in (DOMAIN s) \X (DOMAIN s) : at[1] < at[2]}}

\* _read() accepts an inventory only if no record is bound to two rows.
Readable(r) == \A x, y \in RowsOf(r) : x.record = y.record => x = y

-----------------------------------------------------------------------------
(* The journal.                                                              *)

Kind == {"add", "delete", "reorder"}
Outcome == {"none", "ATTEMPTED", "OBSERVED_SUCCESS"}
Entry == [outcome : Outcome, kind : Kind, record : Record \cup {NoAction},
          order : Order, before : Nat, after : Nat]

NoEntry == [outcome |-> "none", kind |-> "add", record |-> NoAction,
            order |-> {}, before |-> 0, after |-> 0]

Pending == {x \in Action : journal[x].outcome = "ATTEMPTED"}

\* latest_observed_revision(): no observed action has a later inventory.
NotBehind(r) == \A x \in Action : journal[x].after <= r

\* _postcondition(): what entry e wanted is so in the inventory of revision r.
Postcondition(e, r, now) ==
    /\ r > e.before
    /\ ~now.foreign
    /\ e.kind = "add" => \E row \in now.rows : row.record = e.record /\ ~row.edited
    /\ e.kind = "delete" => e.record \notin Records(now)
    /\ e.kind = "reorder" => now.order = e.order

\* _preserves_inventory(): nothing but what e wanted changed since its "before".
PreservesInventory(e, before, now) ==
    /\ e.kind = "add" => /\ e.record \notin Records(before)
                         /\ Without(now.rows, e.record) = before.rows
    /\ e.kind = "delete" => /\ e.record \in Records(before)
                            /\ now.rows = Without(before.rows, e.record)
    /\ e.kind = "reorder" => now.rows = before.rows

\* What _settle_pending() and _act() ask before they call an entry observed.
Settles(x, r) ==
    LET e == journal[x]
    IN  Postcondition(e, r, history[r]) /\ PreservesInventory(e, history[e.before], history[r])

-----------------------------------------------------------------------------
(* What reconcile() does next, going by revision r.                          *)

Wanted(w) == {w.rows[i] : i \in DOMAIN w.rows}
RowFor(r, record) == CHOOSE row \in RowsOf(r) : row.record = record

\* Rows that are neither wanted nor to be deleted, or not managed: refused.
Unbound(w, r) ==
    \/ history[r].foreign
    \/ ~(RecordsIn(r) \subseteq Wanted(w) \cup w.deletes)

\* The first wanted row that is missing or that differs from its record.
FirstOpen(w, r, i) ==
    /\ i \in DOMAIN w.rows
    /\ \A j \in 1..(i - 1) : \E row \in RowsOf(r) : row.record = w.rows[j] /\ ~row.edited
    /\ ~\E row \in RowsOf(r) : row.record = w.rows[i] /\ ~row.edited

Matches(w, r) ==
    /\ ~history[r].foreign
    /\ history[r].order = OrderOf(w.rows)
    /\ RecordsIn(r) = Wanted(w)
    /\ \A row \in RowsOf(r) : ~row.edited

\* The entries that _act() may be called for: the deletes, then the adds in
\* order, then one reorder.
Moves(w, r) ==
    LET entry(kind, record, order) ==
            [outcome |-> "ATTEMPTED", kind |-> kind, record |-> record,
             order |-> order, before |-> r, after |-> 0]
        doomed == w.deletes \cap RecordsIn(r)
        open == {i \in DOMAIN w.rows : FirstOpen(w, r, i)}
    IN  IF Unbound(w, r) THEN {}
        ELSE IF doomed # {} THEN {entry("delete", record, {}) : record \in doomed}
        ELSE IF open # {} THEN {entry("add", w.rows[i], {}) :
                                    i \in {j \in open : w.rows[j] \notin RecordsIn(r)}}
        ELSE IF history[r].order # OrderOf(w.rows)
             THEN {entry("reorder", NoAction, OrderOf(w.rows))}
        ELSE {}

-----------------------------------------------------------------------------
(* Processes.                                                                *)

Step(p, from, to) == pc[p] = from /\ pc' = [pc EXCEPT ![p] = to]

\* A run calls reconcile(), or verify_rows_read_only() before the review; the
\* latter takes the same steps and ends in Finish or, if the rows differ, in Stop.
Start(p) ==
    /\ Step(p, "idle", "read")
    /\ \E w \in Wish : wish' = [wish EXCEPT ![p] = w]
    /\ UNCHANGED <<history, journal, calls, inv, todo, act>>

\* _read(): the inventory is complete and no record is there twice.
Read(p) ==
    /\ Step(p, "read", "latest")
    /\ Readable(Current)
    /\ inv' = [inv EXCEPT ![p] = Current]
    /\ UNCHANGED <<history, journal, calls, wish, todo, act>>

\* The revision that was read is not behind the last one that was observed.
CheckLatest(p) ==
    /\ Step(p, "latest", "list")
    /\ NotBehind(inv[p])
    /\ UNCHANGED <<history, journal, calls, wish, inv, todo, act>>

ListPending(p) ==
    /\ Step(p, "list", "plan")
    /\ todo' = [todo EXCEPT ![p] = Pending]
    /\ UNCHANGED <<history, journal, calls, wish, inv, act>>

\* _settle_pending(): by what the inventory shows, and only while still pending.
Settle(p) ==
    /\ pc[p] = "plan"
    /\ \E x \in todo[p] :
          /\ Settles(x, inv[p])
          /\ journal[x].outcome = "ATTEMPTED"
          /\ journal' = [journal EXCEPT ![x].outcome = "OBSERVED_SUCCESS",
                                        ![x].after = inv[p]]
          /\ todo' = [todo EXCEPT ![p] = @ \ {x}]
    /\ UNCHANGED <<history, calls, pc, wish, inv, act>>

\* faulty: a pending entry does not keep others out
BeginBesidePending(p) ==
    /\ Step(p, "plan", "call")
    /\ todo[p] = {}
    /\ NotBehind(inv[p])
    /\ \E x \in Action, entry \in Moves(wish[p], inv[p]) :
          /\ journal[x] = NoEntry
          /\ journal' = [journal EXCEPT ![x] = entry]
          /\ act' = [act EXCEPT ![p] = x]
    /\ UNCHANGED <<history, calls, wish, inv, todo>>

\* _act() up to the committed intent of begin(): nothing is pending and the
\* plan was not made from an inventory older than an observed write.
Begin(p) ==
    /\ Step(p, "plan", "call")
    /\ todo[p] = {}
    /\ Pending = {}
    /\ NotBehind(inv[p])
    /\ \E x \in Action, entry \in Moves(wish[p], inv[p]) :
          /\ journal[x] = NoEntry
          /\ journal' = [journal EXCEPT ![x] = entry]
          /\ act' = [act EXCEPT ![p] = x]
    /\ UNCHANGED <<history, calls, wish, inv, todo>>

\* The second guard held; the driver's call is sent.  Whether it takes effect
\* now, later or never is up to Lands and Lost; an exception is swallowed.
Call(p) ==
    /\ Step(p, "call", "reread")
    /\ calls' = calls \cup {act[p]}
    /\ UNCHANGED <<history, journal, wish, inv, todo, act>>

\* The rows are read again and show what was wanted and nothing else.
Reread(p) ==
    /\ Step(p, "reread", "observe")
    /\ Readable(Current)
    /\ Settles(act[p], Current)
    /\ inv' = [inv EXCEPT ![p] = Current]
    /\ UNCHANGED <<history, journal, calls, wish, todo, act>>

\* observed(); it raises if somebody else has settled the entry.
Observe(p) ==
    /\ Step(p, "observe", "plan")
    /\ journal[act[p]].outcome = "ATTEMPTED"
    /\ journal' = [journal EXCEPT ![act[p]].outcome = "OBSERVED_SUCCESS",
                                  ![act[p]].after = inv[p]]
    /\ act' = [act EXCEPT ![p] = NoAction]
    /\ UNCHANGED <<history, calls, wish, inv, todo>>

\* faulty: the process keeps the entry that it had begun
LeaveWithEntry(p) ==
    /\ pc' = [pc EXCEPT ![p] = "idle"]
    /\ wish' = [wish EXCEPT ![p] = NoWish]
    /\ inv' = [inv EXCEPT ![p] = 0]
    /\ todo' = [todo EXCEPT ![p] = {}]
    /\ UNCHANGED act

Leave(p) ==
    /\ pc' = [pc EXCEPT ![p] = "idle"]
    /\ wish' = [wish EXCEPT ![p] = NoWish]
    /\ inv' = [inv EXCEPT ![p] = 0]
    /\ todo' = [todo EXCEPT ![p] = {}]
    /\ act' = [act EXCEPT ![p] = NoAction]

\* The receipt.
Finish(p) ==
    /\ pc[p] = "plan"
    /\ todo[p] = {}
    /\ Matches(wish[p], inv[p])
    /\ Leave(p)
    /\ UNCHANGED <<history, journal, calls>>

\* A refusal, a lost lease in either guard, an unavailable inventory, an unknown
\* outcome, or the end of the process: whatever was begun stays as it is.
Stop(p) ==
    /\ pc[p] # "idle"
    /\ Leave(p)
    /\ UNCHANGED <<history, journal, calls>>

-----------------------------------------------------------------------------
(* The site and its user.                                                    *)

NewRow(record) == [record |-> record, id |-> Current + 1, edited |-> FALSE]

\* The row that a delete names by the id it had in the inventory.
Doomed(x) == RowFor(journal[x].before, journal[x].record).id

\* What the draft is after the call of x took effect.
After(x) ==
    CASE journal[x].kind = "add" ->
            [Draft EXCEPT !.rows = @ \cup {NewRow(journal[x].record)},
                          !.order = @ \cup (RecordsIn(Current) \X {journal[x].record})]
      [] journal[x].kind = "delete" ->
            IF \E row \in Draft.rows : row.id = Doomed(x)
            THEN [Draft EXCEPT !.rows = {row \in @ : row.id # Doomed(x)},
                               !.order = Unordered(@, journal[x].record)]
            ELSE Draft
      [] journal[x].kind = "reorder" ->
            IF RecordsIn(Current) = Ordered(journal[x].order)
            THEN [Draft EXCEPT !.order = journal[x].order]
            ELSE Draft

\* A call takes effect, as a new revision of the draft.
Lands(x) ==
    /\ x \in calls
    /\ Current < MaxRevision
    /\ history' = Append(history, After(x))
    /\ calls' = calls \ {x}
    /\ UNCHANGED <<journal, process>>

\* A call never arrives, or the site refused it.
Lost(x) ==
    /\ x \in calls
    /\ calls' = calls \ {x}
    /\ UNCHANGED <<history, journal, process>>

\* The user works on the same draft in a browser.  Rows that the user adds are
\* bound to no record.
Edited ==
    {[Draft EXCEPT !.rows = @ \ {row},
                   !.order = Unordered(@, row.record)] : row \in Draft.rows}
    \cup {[Draft EXCEPT !.rows = (@ \ {row}) \cup {[row EXCEPT !.edited = ~@]}] : row \in Draft.rows}
    \cup {[Draft EXCEPT !.foreign = ~@]}
    \cup {[Draft EXCEPT !.order = {<<pair[2], pair[1]>> : pair \in @}]}

UserEdits ==
    /\ Current < MaxRevision
    /\ \E next \in Edited : history' = Append(history, next)
    /\ UNCHANGED <<journal, calls, process>>

-----------------------------------------------------------------------------
Empty == [rows |-> {}, order |-> {}, foreign |-> FALSE]

Init ==
    /\ history = <<Empty>>
    /\ journal = [x \in Action |-> NoEntry]
    /\ calls = {}
    /\ pc = [p \in Process |-> "idle"]
    /\ wish = [p \in Process |-> NoWish]
    /\ inv = [p \in Process |-> 0]
    /\ todo = [p \in Process |-> {}]
    /\ act = [p \in Process |-> NoAction]

Reconciling(p) ==
    \/ Start(p) \/ Read(p) \/ CheckLatest(p) \/ ListPending(p) \/ Settle(p)
    \/ Begin(p) \/ Call(p) \/ Reread(p) \/ Observe(p) \/ Finish(p) \/ Stop(p)

Next ==
    \/ \E p \in Process : Reconciling(p)
    \/ \E x \in Action : Lands(x) \/ Lost(x)
    \/ UserEdits

Spec == Init /\ [][Next]_vars

-----------------------------------------------------------------------------
TypeOK ==
    /\ history \in Seq(Inventory) /\ history # <<>>
    /\ journal \in [Action -> Entry]
    /\ calls \in SUBSET Action
    /\ pc \in [Process -> {"idle", "read", "latest", "list", "plan", "call",
                           "reread", "observe"}]
    /\ wish \in [Process -> Wish \cup {NoWish}]
    /\ inv \in [Process -> 0..Current]
    /\ todo \in [Process -> SUBSET Action]
    /\ act \in [Process -> Action \cup {NoAction}]
    /\ \A p \in Process : (act[p] = NoAction) <=> (pc[p] \notin {"call", "reread", "observe"})

\* No record is ever there twice, although a call may land at any time after its
\* process gave up or died and others reconcile the same draft meanwhile
\* (begin() and _settle_pending()).
NoRowTwice == Readable(Current)

\* A process that is about to add a row still finds none on the draft, however
\* long ago it read the rows (the revision check of begin()).
AddIsFresh ==
    \A p \in Process :
        pc[p] = "call" /\ journal[act[p]].kind = "add" =>
            journal[act[p]].record \notin RecordsIn(Current)

\* A call that can still change which rows there are is known to be uncertain: its
\* entry is pending, so that it keeps every other write of the program away.
LateCallsAreUncertain ==
    \A x \in calls : After(x).rows # Draft.rows => x \in Pending

\* The call of x is still to be sent, or was sent and may still take effect.
Outstanding(x) == x \in calls \/ \E p \in Process : pc[p] = "call" /\ act[p] = x

\* As the person sees it: the rows, the change that the journal waits for, and
\* what became of an addition.
RowsSeen == {[record |-> row.record, id |-> row.id] : row \in Draft.rows}
Owed == {[kind |-> journal[x].kind, record |-> journal[x].record] : x \in Pending}
AddsOwed == {x \in Pending : journal[x].kind = "add"}
HasCome(x) == \E r \in journal[x].before..Current : journal[x].record \in RecordsIn(r)
Fate ==
    IF \E x \in AddsOwed : Outstanding(x) THEN "open"
    ELSE IF \E x \in AddsOwed : HasCome(x) THEN "made"
    ELSE "none"

\* However many processes reconcile the draft and die, and however late their calls
\* land, the person sees one change at a time, each made at most once and reported
\* only when it was (begin(), _settle_pending() and _act()).
Shared == INSTANCE SharedDraft WITH
    NoRecord <- NoAction, rows <- RowsSeen, owed <- Owed, fate <- Fate
ImplementsSharedDraft == Shared!Spec
=============================================================================
