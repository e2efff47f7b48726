--------------------------- MODULE RowJournalProofs ---------------------------
(***************************************************************************)
(* Proofs about RowJournal for every set of processes, entries, records    *)
(* and wishes and any number of revisions.                                 *)
(*                                                                         *)
(* The argument.  A row's id tells when it came.  Rows that are gone do    *)
(* not come back (HistoryInv), so a record that an inventory lacks can be  *)
(* there later only by a call that landed since.  Such a call has an entry *)
(* (BirthInv); when begin() finds nothing pending and no observed revision *)
(* after the inventory, there is no such call.  Hence a record for which   *)
(* an add is yet to land is absent ever since the add was planned          *)
(* (AddInv), and nobody can take that add for done.                        *)
(*                                                                         *)
(* The last section shows that RowJournal implements SharedDraft.          *)
(***************************************************************************)
EXTENDS RowJournal, TLAPS

Known(x) == journal[x].outcome # "none"
Observed(x) == journal[x].outcome = "OBSERVED_SUCCESS"
IsAdd(x) == journal[x].kind = "add"

HistoryInv ==
    /\ \A r \in 1..Current : \A u \in RowsOf(r) : u.id \in 1..r
    /\ \A r, s \in 1..Current : r <= s =>
          \A u \in RowsOf(s) : u.id <= r =>
              \E v \in RowsOf(r) : v.id = u.id /\ v.record = u.record
    /\ \A r \in 1..Current : \A u, v \in RowsOf(r) : u.id = v.id => u = v
    /\ \A r \in 1..Current : Readable(r)

JournalInv ==
    /\ \A x \in Action : ~Known(x) => journal[x] = NoEntry
    /\ \A x \in Action : Known(x) => journal[x].before \in 1..Current
    /\ \A x \in Action : Known(x) /\ journal[x].kind \in {"add", "delete"} =>
                             journal[x].record \in Record
    /\ \A x \in Action : Known(x) /\ IsAdd(x) =>
                             journal[x].record \notin RecordsIn(journal[x].before)
    /\ \A x \in Action : Known(x) /\ journal[x].kind = "delete" =>
                             journal[x].record \in RecordsIn(journal[x].before)
    /\ \A x \in Action : Observed(x) => /\ journal[x].after \in 1..Current
                                        /\ Settles(x, journal[x].after)
    /\ \A x, y \in Pending : x = y

ProcessInv ==
    /\ \A p \in Process : pc[p] \in {"latest", "list", "plan", "call", "observe"} =>
                              inv[p] \in 1..Current
    /\ \A p \in Process : pc[p] # "idle" => wish[p] \in Wish
    /\ \A p \in Process : act[p] # NoAction => Known(act[p])
    /\ \A p \in Process : pc[p] = "call" => act[p] \notin calls
    /\ \A p \in Process : pc[p] = "observe" => Settles(act[p], inv[p])
    /\ \A p, q \in Process : act[p] = act[q] /\ act[p] # NoAction => p = q
    /\ \A x \in calls : Known(x)

AddInv ==
    \A x \in Action : IsAdd(x) /\ Outstanding(x) =>
        /\ x \in Pending
        /\ \A r \in journal[x].before..Current : journal[x].record \notin RecordsIn(r)

BirthInv ==
    /\ \A r \in 1..Current : \A u \in RowsOf(r) : \E y \in Action :
          /\ Known(y) /\ IsAdd(y) /\ journal[y].record = u.record
          /\ journal[y].before < u.id
          /\ Observed(y) => u.id <= journal[y].after
    /\ \A y \in Pending : IsAdd(y) =>
          \A r, s \in journal[y].before..Current : \A u \in RowsOf(r), v \in RowsOf(s) :
              u.record = journal[y].record /\ v.record = journal[y].record => u.id = v.id

IInv == TypeOK /\ HistoryInv /\ JournalInv /\ ProcessInv /\ AddInv /\ BirthInv
-----------------------------------------------------------------------------
(* Steps that leave the draft and the journal alone.                         *)

\* Such a step preserves the invariant if no process comes to the point where it
\* sends a call (start, read, check, list, give up, finish, lose a call).
LEMMA Quiet ==
    ASSUME IInv, TypeOK', ProcessInv',
           history' = history, journal' = journal, calls' \subseteq calls,
           \A p \in Process : pc'[p] = "call" => pc[p] = "call" /\ act'[p] = act[p]
    PROVE  IInv'
<1>1. HistoryInv'
  BY DEF IInv, HistoryInv, Current, RowsOf, Readable
<1>2. JournalInv'
  BY DEF IInv, JournalInv, Current, RowsOf, RecordsIn, Records, Known, Observed, IsAdd, Settles, Pending
<1>3. AddInv'
  BY DEF IInv, AddInv, Outstanding, Pending, IsAdd, Current, RowsOf, RecordsIn, Records
<1>4. BirthInv'
  BY DEF IInv, BirthInv, Current, RowsOf, Known, Observed, IsAdd, Pending
<1> QED BY <1>1, <1>2, <1>3, <1>4 DEF IInv

\* Start.
LEMMA StartStep == ASSUME IInv, NEW p \in Process, Start(p) PROVE IInv'
<1>1. TypeOK'
  BY DEF IInv, TypeOK, Start, Step, Current, JournalInv, ProcessInv
<1>2. ProcessInv'
  BY DEF IInv, TypeOK, Start, Step, ProcessInv, Current, Known, Settles
<1> QED BY <1>1, <1>2, Quiet DEF IInv, TypeOK, Start, Step

\* Read.
LEMMA ReadStep == ASSUME IInv, NEW p \in Process, Read(p) PROVE IInv'
<1>1. Current \in Nat /\ Current > 0 /\ Current' = Current
  BY DEF IInv, TypeOK, Read, Current
<1>2. TypeOK'
  BY <1>1 DEF IInv, TypeOK, Read, Step
<1>3. ProcessInv'
  BY <1>1 DEF IInv, TypeOK, Read, Step, ProcessInv, Known, Settles
<1> QED BY <1>2, <1>3, Quiet DEF IInv, TypeOK, Read, Step

\* CheckLatest.
LEMMA CheckLatestStep == ASSUME IInv, NEW p \in Process, CheckLatest(p) PROVE IInv'
<1>1. TypeOK'
  BY DEF IInv, TypeOK, CheckLatest, Step, Current
<1>2. ProcessInv'
  BY DEF IInv, TypeOK, CheckLatest, Step, ProcessInv, Current, Known, Settles
<1> QED BY <1>1, <1>2, Quiet DEF IInv, TypeOK, CheckLatest, Step

\* ListPending.
LEMMA ListPendingStep == ASSUME IInv, NEW p \in Process, ListPending(p) PROVE IInv'
<1>1. TypeOK'
  BY DEF IInv, TypeOK, ListPending, Step, Current, Pending
<1>2. ProcessInv'
  BY DEF IInv, TypeOK, ListPending, Step, ProcessInv, Current, Known, Settles
<1> QED BY <1>1, <1>2, Quiet DEF IInv, TypeOK, ListPending, Step

\* Reread.
LEMMA RereadStep == ASSUME IInv, NEW p \in Process, Reread(p) PROVE IInv'
<1>1. Current \in Nat /\ Current > 0 /\ Current' = Current
  BY DEF IInv, TypeOK, Reread, Current
<1>2. TypeOK'
  BY <1>1 DEF IInv, TypeOK, Reread, Step
<1>3. ProcessInv'
  BY <1>1 DEF IInv, TypeOK, Reread, Step, ProcessInv, Known, Settles
<1> QED BY <1>2, <1>3, Quiet DEF IInv, TypeOK, Reread, Step

\* Finish and Stop: the process forgets everything.
LEMMA LeaveStep ==
    ASSUME IInv, NEW p \in Process, Leave(p), UNCHANGED <<history, journal, calls>>
    PROVE  IInv'
<1>1. TypeOK'
  BY DEF IInv, TypeOK, Leave, Current
<1>2. ProcessInv'
  BY ConstantsAssumption DEF IInv, TypeOK, Leave, ProcessInv, Current, Known, Settles
<1> QED BY <1>1, <1>2, Quiet DEF IInv, TypeOK, Leave

\* Lost.
LEMMA LostStep == ASSUME IInv, NEW x \in Action, Lost(x) PROVE IInv'
<1>1. TypeOK'
  BY DEF IInv, TypeOK, Lost, process, Current
<1>2. ProcessInv'
  BY DEF IInv, TypeOK, Lost, process, ProcessInv, Current, Known, Settles
<1> QED BY <1>1, <1>2, Quiet DEF IInv, Lost, process

\* Call: the entry of the process is outstanding before and after.
LEMMA CallStep == ASSUME IInv, NEW p \in Process, Call(p) PROVE IInv'
<1>1. act[p] \in Action /\ Known(act[p])
  BY DEF IInv, TypeOK, ProcessInv, Call, Step
<1>2. TypeOK'
  BY <1>1 DEF IInv, TypeOK, Call, Step, Current
<1>3. ProcessInv'
  BY <1>1 DEF IInv, TypeOK, Call, Step, ProcessInv, Current, Known, Settles
<1>4. HistoryInv'
  BY DEF IInv, HistoryInv, Call, Current, RowsOf, Readable
<1>5. JournalInv'
  BY DEF IInv, JournalInv, Call, Current, RowsOf, RecordsIn, Records, Known, Observed, IsAdd, Settles, Pending
<1>6. \A x \in Action : Outstanding(x)' => Outstanding(x)
  BY <1>1 DEF IInv, TypeOK, Call, Step, Outstanding
<1>7. AddInv'
  BY <1>6 DEF IInv, AddInv, Call, Pending, IsAdd, Current, RowsOf, RecordsIn, Records
<1>8. BirthInv'
  BY DEF IInv, BirthInv, Call, Current, RowsOf, Known, Observed, IsAdd, Pending
<1> QED BY <1>2, <1>3, <1>4, <1>5, <1>7, <1>8 DEF IInv

-----------------------------------------------------------------------------
(* Steps that write the journal.                                             *)

\* A pending add that an inventory shows as done has landed, at the latest with
\* that inventory.
LEMMA SettledAddHasLanded ==
    ASSUME IInv, NEW x \in Pending, IsAdd(x), NEW v \in 1..Current, Settles(x, v)
    PROVE  /\ ~Outstanding(x)
           /\ \A r \in 1..Current : \A u \in RowsOf(r) :
                 u.record = journal[x].record /\ u.id > journal[x].before => u.id <= v
<1>1. x \in Action /\ Known(x)
  BY DEF Pending, Known
<1>2. journal[x].before \in 1..Current /\ v > journal[x].before /\ Current \in Nat
  BY <1>1 DEF IInv, TypeOK, JournalInv, Settles, Postcondition, Current
<1>3. PICK w \in RowsOf(v) : w.record = journal[x].record
  BY DEF Settles, Postcondition, IsAdd, RowsOf
<1>4. ~Outstanding(x)
  BY <1>1, <1>2, <1>3 DEF IInv, AddInv, RecordsIn, Records, RowsOf
<1>5. ASSUME NEW r \in 1..Current, NEW u \in RowsOf(r),
             u.record = journal[x].record, u.id > journal[x].before
      PROVE  u.id <= v
  <2>1. u.id \in 1..r
    BY DEF IInv, HistoryInv
  <2>2. r \in journal[x].before..Current /\ v \in journal[x].before..Current
    BY <1>2, <1>5, <2>1
  <2>3. u.id = w.id
    BY <1>3, <1>5, <2>2 DEF IInv, BirthInv
  <2>4. w.id \in 1..v
    BY <1>3 DEF IInv, HistoryInv
  <2> QED BY <2>3, <2>4
<1> QED BY <1>4, <1>5

\* The table stays well-typed when an entry becomes observed.
LEMMA ObservedType ==
    ASSUME journal \in [Action -> Entry], NEW x \in Action, NEW v \in Nat
    PROVE  [journal EXCEPT ![x].outcome = "OBSERVED_SUCCESS", ![x].after = v] \in [Action -> Entry]
<1> DEFINE e == [journal[x] EXCEPT !.outcome = "OBSERVED_SUCCESS", !.after = v]
<1>1. e \in Entry
  BY DEF Entry, Outcome
<1>2. [journal EXCEPT ![x].outcome = "OBSERVED_SUCCESS", ![x].after = v] = [journal EXCEPT ![x] = e]
  OBVIOUS
<1> HIDE DEF e
<1> QED BY <1>1, <1>2

\* An entry that is pending becomes observed with revision v, which settles it.
LEMMA Settlement ==
    ASSUME IInv, NEW x \in Pending, NEW v \in 1..Current, Settles(x, v),
           journal' = [journal EXCEPT ![x].outcome = "OBSERVED_SUCCESS", ![x].after = v],
           history' = history, calls' = calls, TypeOK', ProcessInv',
           \A p \in Process : pc'[p] = "call" => pc[p] = "call" /\ act'[p] = act[p]
    PROVE  IInv'
<1>1. x \in Action /\ Known(x)
  BY DEF Pending, Known
<1>2. /\ \A y \in Action : journal'[y].kind = journal[y].kind
      /\ \A y \in Action : journal'[y].record = journal[y].record
      /\ \A y \in Action : journal'[y].order = journal[y].order
      /\ \A y \in Action : journal'[y].before = journal[y].before
      /\ \A y \in Action \ {x} : journal'[y] = journal[y]
      /\ journal'[x].outcome = "OBSERVED_SUCCESS" /\ journal'[x].after = v
  BY <1>1 DEF IInv, TypeOK, Entry
<1>3. \A y \in Action : Known(y)' = Known(y)
  BY <1>1, <1>2 DEF Known
<1>4. Pending' = Pending \ {x}
  BY <1>1, <1>2 DEF Pending
<1>5. HistoryInv'
  BY DEF IInv, HistoryInv, Current, RowsOf, Readable
<1>6. ASSUME NEW y \in Action, NEW r \in 1..Current PROVE Settles(y, r)' <=> Settles(y, r)
  <2>1. /\ journal'[y].kind = journal[y].kind /\ journal'[y].record = journal[y].record
        /\ journal'[y].order = journal[y].order /\ journal'[y].before = journal[y].before
    BY <1>2
  <2> QED BY <2>1 DEF Settles, Postcondition, PreservesInventory
<1>7. JournalInv'
  <2>1. \A y \in Action : ~Known(y)' => journal'[y] = NoEntry
    BY <1>1, <1>2, <1>3 DEF IInv, JournalInv
  <2>2. \A y \in Action : Observed(y)' => journal'[y].after \in 1..Current /\ Settles(y, journal[y].after)'
    <3> TAKE y \in Action
    <3>1. CASE y = x
      BY <1>2, <1>6, <3>1
    <3>2. CASE y # x
      BY <1>2, <1>6, <3>2 DEF IInv, JournalInv, Observed
    <3> QED BY <3>1, <3>2
  <2> QED
    BY ZenonT(40), <1>2, <1>3, <1>4, <2>1, <2>2 DEF IInv, JournalInv, Current, IsAdd, RecordsIn, Records
<1>8. AddInv'
  <2> SUFFICES ASSUME NEW y \in Action, IsAdd(y)', Outstanding(y)'
               PROVE  /\ y \in Pending'
                      /\ \A r \in journal'[y].before..Current : journal'[y].record \notin RecordsIn(r)
    BY DEF AddInv, Current, RecordsIn, Records, RowsOf
  <2>1. IsAdd(y) /\ Outstanding(y)
    BY <1>2 DEF IsAdd, Outstanding
  <2>2. y # x
    BY <2>1, SettledAddHasLanded
  <2> QED BY <1>2, <1>4, <2>1, <2>2 DEF IInv, AddInv
<1>9. BirthInv'
  <2>1. ASSUME NEW r \in 1..Current, NEW u \in RowsOf(r)
        PROVE  \E y \in Action :
                  /\ Known(y)' /\ IsAdd(y)' /\ journal'[y].record = u.record
                  /\ journal'[y].before < u.id
                  /\ Observed(y)' => u.id <= journal'[y].after
    <3>1. PICK y \in Action :
            /\ Known(y) /\ IsAdd(y) /\ journal[y].record = u.record
            /\ journal[y].before < u.id
            /\ Observed(y) => u.id <= journal[y].after
      BY DEF IInv, BirthInv
    <3>2. CASE y = x
      <4>1. u.id \in Nat /\ journal[x].before \in Nat
        BY <1>1 DEF IInv, HistoryInv, JournalInv
      <4>2. IsAdd(x) /\ u.record = journal[x].record /\ u.id > journal[x].before
        BY <3>1, <3>2, <4>1 DEF IsAdd
      <4>3. u.id <= v
        BY <4>2, SettledAddHasLanded
      <4> QED BY <1>1, <1>2, <3>1, <3>2, <4>3 DEF IsAdd, Known, Observed
    <3>3. CASE y # x
      BY <1>2, <3>1, <3>3 DEF IsAdd, Known, Observed
    <3> QED BY <3>2, <3>3
  <2>2. \A r \in (1..Current)' : \A u \in RowsOf(r)' : \E y \in Action :
            /\ Known(y)' /\ IsAdd(y)' /\ journal'[y].record = u.record
            /\ journal'[y].before < u.id
            /\ Observed(y)' => u.id <= journal'[y].after
    BY <2>1 DEF Current, RowsOf
  <2>3. \A y \in Pending' : IsAdd(y)' =>
          \A r, s \in journal'[y].before..Current' : \A u \in RowsOf(r)', w \in RowsOf(s)' :
              u.record = journal'[y].record /\ w.record = journal'[y].record => u.id = w.id
    <3> TAKE y \in Pending'
    <3> HAVE IsAdd(y)'
    <3> TAKE r, s \in journal'[y].before..Current'
    <3> TAKE u \in RowsOf(r)', w \in RowsOf(s)'
    <3> HAVE u.record = journal'[y].record /\ w.record = journal'[y].record
    <3>1. r \in journal'[y].before..Current /\ s \in journal'[y].before..Current
      BY DEF Current
    <3>2. u \in RowsOf(r) /\ w \in RowsOf(s)
      BY DEF RowsOf
    <3>3. /\ y \in Pending /\ IsAdd(y)
          /\ journal'[y].before = journal[y].before /\ journal'[y].record = journal[y].record
      BY <1>2, <1>4 DEF Pending, IsAdd
    <3> QED BY <3>1, <3>2, <3>3 DEF IInv, BirthInv
  <2> QED BY <2>2, <2>3 DEF BirthInv
<1> QED BY <1>5, <1>7, <1>8, <1>9 DEF IInv

\* Settle: an entry from the list, if it is still pending and the inventory shows it.
LEMMA SettleStep == ASSUME IInv, NEW p \in Process, Settle(p) PROVE IInv'
<1>1. PICK x \in todo[p] :
        /\ Settles(x, inv[p])
        /\ journal[x].outcome = "ATTEMPTED"
        /\ journal' = [journal EXCEPT ![x].outcome = "OBSERVED_SUCCESS", ![x].after = inv[p]]
        /\ todo' = [todo EXCEPT ![p] = @ \ {x}]
  BY DEF Settle
<1>2. x \in Pending /\ x \in Action /\ inv[p] \in 1..Current /\ inv[p] \in Nat
  BY <1>1 DEF IInv, TypeOK, ProcessInv, Settle, Pending
<1>3. TypeOK'
  <2>1. journal' \in [Action -> Entry]
    BY <1>1, <1>2, ObservedType DEF IInv, TypeOK
  <2> QED BY <1>1, <1>2, <2>1 DEF IInv, TypeOK, Settle, Current
<1>4. ProcessInv'
  <2>1. \A y \in Action, r \in Nat : Settles(y, r) => Settles(y, r)'
    BY <1>1, <1>2 DEF IInv, TypeOK, Entry, Settle, Settles, Postcondition, PreservesInventory
  <2> QED BY <1>1, <1>2, <2>1 DEF IInv, TypeOK, Settle, ProcessInv, Current, Known
<1> QED BY <1>1, <1>2, <1>3, <1>4, Settlement DEF Settle

\* Observe: the process's own entry, which its last inventory shows.
LEMMA ObserveStep == ASSUME IInv, NEW p \in Process, Observe(p) PROVE IInv'
<1> DEFINE x == act[p]
<1>1. /\ x \in Pending /\ x \in Action /\ inv[p] \in 1..Current /\ inv[p] \in Nat
      /\ Settles(x, inv[p])
  BY DEF IInv, TypeOK, ProcessInv, Observe, Step, Pending
<1>2. journal' = [journal EXCEPT ![x].outcome = "OBSERVED_SUCCESS", ![x].after = inv[p]]
  BY DEF Observe
<1> HIDE DEF x
<1>3. TypeOK'
  <2>1. journal' \in [Action -> Entry]
    BY <1>1, <1>2, ObservedType DEF IInv, TypeOK
  <2> QED BY <2>1, <1>1 DEF IInv, TypeOK, Observe, Step, Current
<1>4. ProcessInv'
  <2>1. \A y \in Action, r \in Nat : Settles(y, r) => Settles(y, r)'
    BY <1>1, <1>2 DEF IInv, TypeOK, Entry, Observe, Settles, Postcondition, PreservesInventory
  <2> QED BY <1>1, <1>2, <2>1 DEF IInv, TypeOK, Observe, Step, ProcessInv, Current, Known
<1> QED BY <1>1, <1>2, <1>3, <1>4, Settlement DEF IInv, TypeOK, Observe, Step

\* Begin: the record that is to be added is absent ever since the inventory that
\* the plan was made from.
LEMMA PlannedAddIsAbsent ==
    ASSUME IInv, Pending = {}, NEW r \in 1..Current, NotBehind(r),
           NEW record \in Record, record \notin RecordsIn(r)
    PROVE  \A s \in r..Current : record \notin RecordsIn(s)
<1> SUFFICES ASSUME NEW s \in r..Current, NEW u \in RowsOf(s), u.record = record
             PROVE  FALSE
  BY DEF RecordsIn, Records, RowsOf
<1>1. s \in 1..Current /\ r <= s /\ Current \in Nat
  BY DEF IInv, TypeOK, Current
<1>2. u.id \in 1..s
  BY <1>1 DEF IInv, HistoryInv
<1>3. ~(u.id <= r)
  BY <1>1 DEF IInv, HistoryInv, RecordsIn, Records, RowsOf
<1>4. PICK y \in Action : Known(y) /\ (Observed(y) => u.id <= journal[y].after)
  BY <1>1 DEF IInv, BirthInv
<1>5. Observed(y)
  BY <1>4 DEF IInv, TypeOK, Entry, Outcome, Known, Observed, Pending
<1>6. journal[y].after <= r /\ journal[y].after \in Nat
  BY DEF NotBehind, IInv, TypeOK, Entry
<1> QED BY <1>1, <1>2, <1>3, <1>4, <1>5, <1>6

\* What an entry that a process may begin says.
LEMMA MoveIsSound ==
    ASSUME NEW w \in Wish, NEW r \in Nat, NEW e \in Moves(w, r)
    PROVE  /\ e \in Entry /\ e.outcome = "ATTEMPTED" /\ e.before = r /\ e.after = 0
           /\ e.kind \in {"add", "delete"} => e.record \in Record
           /\ e.kind = "add" => e.record \notin RecordsIn(r)
           /\ e.kind = "delete" => e.record \in RecordsIn(r)
<1>1. /\ w.rows \in Seq(Record) /\ w.deletes \in SUBSET Record
      /\ \A i \in DOMAIN w.rows : w.rows[i] \in Record
  BY ConstantsAssumption
<1>2. OrderOf(w.rows) \in Order
  BY <1>1 DEF OrderOf, Order
<1> QED BY <1>1, <1>2 DEF Moves, Entry, Outcome, Kind, Order

\* Begin.
LEMMA BeginStep == ASSUME IInv, NEW p \in Process, Begin(p) PROVE IInv'
<1>1. PICK x \in Action, e \in Moves(wish[p], inv[p]) :
        /\ journal[x] = NoEntry
        /\ journal' = [journal EXCEPT ![x] = e]
        /\ act' = [act EXCEPT ![p] = x]
  BY DEF Begin
<1>2. /\ wish[p] \in Wish /\ inv[p] \in 1..Current /\ inv[p] \in Nat /\ Current \in Nat
      /\ Pending = {} /\ NotBehind(inv[p]) /\ pc[p] = "plan"
      /\ pc' = [pc EXCEPT ![p] = "call"]
      /\ UNCHANGED <<history, calls, wish, inv, todo>>
  BY DEF IInv, TypeOK, ProcessInv, Begin, Step, Current
<1>3. /\ e \in Entry /\ e.outcome = "ATTEMPTED" /\ e.before = inv[p] /\ e.after = 0
      /\ e.kind \in {"add", "delete"} => e.record \in Record
      /\ e.kind = "add" => e.record \notin RecordsIn(inv[p])
      /\ e.kind = "delete" => e.record \in RecordsIn(inv[p])
  BY <1>2, MoveIsSound
<1>4. /\ journal'[x] = e
      /\ \A y \in Action \ {x} : journal'[y] = journal[y]
      /\ ~Known(x)
  BY <1>1 DEF IInv, TypeOK, Known, NoEntry
<1>5. Pending' = {x}
  BY <1>1, <1>2, <1>3, <1>4 DEF Pending
<1>6. Current' = Current /\ x \notin calls
  BY <1>2, <1>4 DEF Current, IInv, ProcessInv
<1>7. TypeOK'
  <2>1. journal' \in [Action -> Entry]
    BY <1>1, <1>3 DEF IInv, TypeOK
  <2> QED BY <2>1, <1>1, <1>2, <1>6, ConstantsAssumption DEF IInv, TypeOK
<1>8. HistoryInv'
  BY <1>2 DEF IInv, HistoryInv, Current, RowsOf, Readable
<1>9. \A y \in Action \ {x}, r \in Nat : Settles(y, r)' <=> Settles(y, r)
  BY <1>2, <1>4 DEF Settles
<1>10. JournalInv'
  <2>1. \A y \in Action : ~Known(y)' => journal'[y] = NoEntry
    BY <1>3, <1>4 DEF IInv, JournalInv, Known
  <2>2. \A y \in Action : Known(y)' => journal'[y].before \in 1..Current'
    BY <1>2, <1>3, <1>4, <1>6 DEF IInv, JournalInv, Known
  <2>3. \A y \in Action : Known(y)' /\ journal'[y].kind \in {"add", "delete"} =>
                              journal'[y].record \in Record
    BY <1>3, <1>4 DEF IInv, JournalInv, Known
  <2>4. \A y \in Action : Known(y)' /\ IsAdd(y)' =>
                              journal'[y].record \notin RecordsIn(journal[y].before)'
    BY <1>2, <1>3, <1>4 DEF IInv, JournalInv, Known, IsAdd, RecordsIn
  <2>5. \A y \in Action : Known(y)' /\ journal'[y].kind = "delete" =>
                              journal'[y].record \in RecordsIn(journal[y].before)'
    BY <1>2, <1>3, <1>4 DEF IInv, JournalInv, Known, RecordsIn
  <2>6. \A y \in Action : Observed(y)' => /\ journal'[y].after \in 1..Current'
                                         /\ Settles(y, journal[y].after)'
    <3> TAKE y \in Action
    <3> HAVE Observed(y)'
    <3>1. y \in Action \ {x} /\ Observed(y)
      BY <1>3, <1>4 DEF Observed
    <3> QED BY <1>2, <1>4, <1>6, <3>1 DEF IInv, JournalInv, Settles
  <2>7. \A y, z \in Pending' : y = z
    BY <1>5
  <2> QED BY <2>1, <2>2, <2>3, <2>4, <2>5, <2>6, <2>7 DEF JournalInv
<1>11. ProcessInv'
  <2>1. \A q \in Process : act[q] # x
    BY <1>4, ConstantsAssumption DEF IInv, ProcessInv
  <2>2. \A q \in Process \ {p} : /\ pc'[q] = pc[q] /\ act'[q] = act[q]
                                 /\ inv'[q] = inv[q] /\ wish'[q] = wish[q]
    BY <1>1, <1>2 DEF IInv, TypeOK
  <2>3. pc'[p] = "call" /\ act'[p] = x /\ inv'[p] = inv[p] /\ wish'[p] = wish[p]
    BY <1>1, <1>2 DEF IInv, TypeOK
  <2>4. \A q \in Process : pc'[q] = "observe" => Settles(act[q], inv[q])'
    <3> TAKE q \in Process
    <3> HAVE pc'[q] = "observe"
    <3>1. q \in Process \ {p} /\ pc[q] = "observe" /\ act[q] \in Action \ {x}
      BY <2>1, <2>2, <2>3 DEF IInv, TypeOK
    <3>2. Settles(act[q], inv[q])
      BY <3>1 DEF IInv, ProcessInv
    <3> QED BY <1>2, <1>4, <2>2, <3>1, <3>2 DEF Settles
  <2>5. \A y \in Action : Known(y) => Known(y)'
    BY <1>3, <1>4 DEF Known
  <2>6. Known(x)'
    BY <1>3, <1>4 DEF Known
  <2>7. \A q \in Process : act'[q] # NoAction => Known(act[q])'
    <3> TAKE q \in Process
    <3> HAVE act'[q] # NoAction
    <3>1. CASE q = p
      BY <2>3, <2>6, <3>1 DEF Known
    <3>2. CASE q # p
      BY <2>1, <2>2, <1>4, <3>2 DEF IInv, TypeOK, ProcessInv, Known
    <3> QED BY <3>1, <3>2
  <2>8. \A y \in calls' : Known(y)'
    BY <1>2, <2>5 DEF IInv, TypeOK, ProcessInv
  <2>9. \A q \in Process : pc'[q] = "call" => act'[q] \notin calls'
    BY <1>2, <1>6, <2>2, <2>3 DEF IInv, ProcessInv
  <2>10. \A q, t \in Process : act'[q] = act'[t] /\ act'[q] # NoAction => q = t
    BY <2>1, <2>2, <2>3 DEF IInv, ProcessInv
  <2>11. \A q \in Process : pc'[q] # "idle" => wish'[q] \in Wish
    BY <1>2, <2>2, <2>3 DEF IInv, ProcessInv
  <2>12. \A q \in Process : pc'[q] \in {"latest", "list", "plan", "call", "observe"} => inv'[q] \in 1..Current'
    BY <1>2, <1>6, <2>2, <2>3 DEF IInv, ProcessInv
  <2> QED BY <2>4, <2>7, <2>8, <2>9, <2>10, <2>11, <2>12 DEF ProcessInv
<1>12. IsAdd(x)' => \A r \in inv[p]..Current : e.record \notin RecordsIn(r)
  BY <1>2, <1>3, <1>4, PlannedAddIsAbsent DEF IsAdd
<1>13. AddInv'
  <2> SUFFICES ASSUME NEW y \in Action, IsAdd(y)', Outstanding(y)'
               PROVE  /\ y \in Pending'
                      /\ \A r \in journal'[y].before..Current' : journal'[y].record \notin RecordsIn(r)'
    BY DEF AddInv
  <2>1. CASE y = x
    BY <1>2, <1>3, <1>4, <1>5, <1>6, <1>12, <2>1 DEF RecordsIn, Records, RowsOf
  <2>2. CASE y # x
    <3>1. IsAdd(y) /\ Outstanding(y)
      BY <1>1, <1>2, <1>4, <2>2 DEF IsAdd, Outstanding, IInv, TypeOK
    <3> QED BY <1>2, <3>1 DEF IInv, AddInv
  <2> QED BY <2>1, <2>2
<1>14. BirthInv'
  <2>1. ASSUME NEW r \in 1..Current, NEW u \in RowsOf(r)
        PROVE  \E y \in Action :
                  /\ Known(y)' /\ IsAdd(y)' /\ journal'[y].record = u.record
                  /\ journal'[y].before < u.id
                  /\ Observed(y)' => u.id <= journal'[y].after
    <3>1. PICK y \in Action :
            /\ Known(y) /\ IsAdd(y) /\ journal[y].record = u.record
            /\ journal[y].before < u.id
            /\ Observed(y) => u.id <= journal[y].after
      BY DEF IInv, BirthInv
    <3>2. journal'[y] = journal[y]
      BY <1>4, <3>1 DEF Known
    <3> QED BY <3>1, <3>2 DEF IsAdd, Known, Observed
  <2>2. \A r \in (1..Current)' : \A u \in RowsOf(r)' : \E y \in Action :
            /\ Known(y)' /\ IsAdd(y)' /\ journal'[y].record = u.record
            /\ journal'[y].before < u.id
            /\ Observed(y)' => u.id <= journal'[y].after
    BY <1>2, <2>1 DEF Current, RowsOf
  <2>3. \A y \in Pending' : IsAdd(y)' =>
          \A r, s \in journal'[y].before..Current' : \A u \in RowsOf(r)', w \in RowsOf(s)' :
              u.record = journal'[y].record /\ w.record = journal'[y].record => u.id = w.id
    BY <1>2, <1>3, <1>4, <1>5, <1>6, <1>12 DEF RecordsIn, Records, RowsOf
  <2> QED BY <2>2, <2>3 DEF BirthInv
<1> QED BY <1>7, <1>8, <1>10, <1>11, <1>13, <1>14 DEF IInv

-----------------------------------------------------------------------------
(* Steps of the site and of its user.                                        *)

\* A new revision whose rows are rows of the draft, edited or not, and at most the
\* row of an add that landed, preserves the invariant.
LEMMA NewRevision ==
    ASSUME IInv, NEW new \in Inventory, history' = Append(history, new),
           journal' = journal, UNCHANGED process, calls' \subseteq calls,
           \A u, v \in new.rows : u.id = v.id \/ u.record = v.record => u = v,
           \A u \in new.rows :
              \/ \E v \in Draft.rows : v.id = u.id /\ v.record = u.record
              \/ \E x \in calls \ calls' : /\ IsAdd(x) /\ u.record = journal[x].record
                                          /\ u.id = Current + 1
    PROVE  IInv'
<1> PICK n \in Nat : n = Current /\ n > 0
  BY DEF IInv, TypeOK, Current
<1>1. /\ Current = n /\ Current' = n + 1 /\ n \in Nat /\ n > 0
      /\ \A r \in 1..n : history'[r] = history[r]
      /\ history'[n + 1] = new
      /\ history' \in Seq(Inventory) /\ history' # <<>>
  BY DEF IInv, TypeOK, Current
<1>2. /\ \A r \in 1..n : RowsOf(r)' = RowsOf(r) /\ RecordsIn(r)' = RecordsIn(r)
      /\ RowsOf(n + 1)' = new.rows
      /\ Draft.rows = RowsOf(n)
  BY <1>1 DEF RowsOf, RecordsIn, Draft
<1>3. \A x \in calls \ calls' : IsAdd(x) =>
        /\ x \in Action /\ x \in Pending /\ Known(x) /\ ~Observed(x)
        /\ journal[x].before \in 1..n
        /\ \A r \in journal[x].before..n : journal[x].record \notin RecordsIn(r)
        /\ \A p \in Process : pc[p] = "call" => act[p] # x
  BY DEF IInv, TypeOK, AddInv, JournalInv, ProcessInv, Outstanding, Pending, Known, Observed
<1>4. TypeOK'
  BY <1>1 DEF IInv, TypeOK, process
<1>5. HistoryInv'
  <2>1. \A r \in 1..(n + 1) : \A u \in RowsOf(r)' : u.id \in 1..r
    <3>1. ASSUME NEW u \in new.rows PROVE u.id \in 1..(n + 1)
      BY <1>1, <1>2 DEF IInv, HistoryInv
    <3> QED BY <1>1, <1>2, <3>1 DEF IInv, HistoryInv
  <2>2. ASSUME NEW r \in 1..(n + 1), NEW s \in 1..(n + 1), r <= s,
               NEW u \in RowsOf(s)', u.id <= r
        PROVE  \E v \in RowsOf(r)' : v.id = u.id /\ v.record = u.record
    <3>1. CASE r = s
      BY <2>2, <3>1
    <3>2. CASE s \in 1..n
      <4>1. r \in 1..n /\ u \in RowsOf(s)
        BY <1>1, <1>2, <2>2, <3>2
      <4>2. \E v \in RowsOf(r) : v.id = u.id /\ v.record = u.record
        BY <2>2, <3>2, <4>1 DEF IInv, HistoryInv
      <4> QED BY <1>2, <4>1, <4>2
    <3>3. CASE s = n + 1 /\ r \in 1..n
      <4>1. PICK w \in RowsOf(n) : w.id = u.id /\ w.record = u.record
        BY <1>1, <1>2, <2>2, <3>3
      <4>2. n \in 1..n /\ r <= n /\ w.id <= r
        BY <1>1, <2>2, <3>3, <4>1
      <4>3. \E v \in RowsOf(r) : v.id = w.id /\ v.record = w.record
        BY <3>3, <4>1, <4>2 DEF IInv, HistoryInv
      <4> QED BY <1>2, <3>3, <4>1, <4>3
    <3> QED BY <1>1, <2>2, <3>1, <3>2, <3>3
  <2>3. \A r \in 1..(n + 1) : \A u, v \in RowsOf(r)' : u.id = v.id => u = v
    BY <1>1, <1>2 DEF IInv, HistoryInv
  <2>4. \A r \in 1..(n + 1) : Readable(r)'
    <3> TAKE r \in 1..(n + 1)
    <3>1. CASE r \in 1..n
      BY <1>2, <3>1 DEF IInv, HistoryInv, Readable
    <3>2. CASE r = n + 1
      BY <1>2, <3>2 DEF Readable
    <3> QED BY <1>1, <3>1, <3>2
  <2> QED BY <1>1, <2>1, <2>2, <2>3, <2>4 DEF HistoryInv
<1>6. JournalInv'
  <2>1. \A x \in Action : Known(x) /\ IsAdd(x) => journal[x].record \notin RecordsIn(journal[x].before)'
    BY <1>1, <1>2 DEF IInv, JournalInv, RecordsIn
  <2>2. \A x \in Action : Known(x) /\ journal[x].kind = "delete" =>
                              journal[x].record \in RecordsIn(journal[x].before)'
    BY <1>1, <1>2 DEF IInv, JournalInv, RecordsIn
  <2>3. \A x \in Action : Observed(x) => /\ journal[x].after \in 1..(n + 1)
                                         /\ Settles(x, journal[x].after)'
    <3> TAKE x \in Action
    <3> HAVE Observed(x)
    <3>1. Settles(x, journal[x].after) /\ journal[x].after \in 1..n /\ journal[x].before \in 1..n
      BY <1>1 DEF IInv, JournalInv, Observed, Known
    <3>2. /\ history'[journal[x].after] = history[journal[x].after]
          /\ history'[journal[x].before] = history[journal[x].before]
      BY <1>1, <3>1
    <3>3. journal[x].after \in 1..(n + 1)
      BY <1>1, <3>1
    <3> QED BY <3>1, <3>2, <3>3 DEF Settles
  <2>4. \A x \in Action : Known(x) => journal[x].before \in 1..(n + 1)
    BY <1>1 DEF IInv, JournalInv
  <2> QED BY <1>1, <2>1, <2>2, <2>3, <2>4 DEF IInv, JournalInv, Known, IsAdd, Observed, Pending
<1>7. ProcessInv'
  <2>1. \A p \in Process : pc[p] = "observe" => Settles(act[p], inv[p])'
    <3> TAKE p \in Process
    <3> HAVE pc[p] = "observe"
    <3>1. /\ act[p] \in Action /\ Known(act[p]) /\ inv[p] \in 1..n /\ Settles(act[p], inv[p])
      BY DEF IInv, TypeOK, ProcessInv
    <3>2. journal[act[p]].before \in 1..n
      BY <3>1 DEF IInv, JournalInv
    <3> QED BY <1>1, <3>1, <3>2 DEF Settles, process
  <2> QED BY <1>1, <2>1 DEF IInv, ProcessInv, process, Known
<1>8. AddInv'
  <2> SUFFICES ASSUME NEW y \in Action, IsAdd(y), Outstanding(y)',
                      NEW r \in journal[y].before..(n + 1)
               PROVE  y \in Pending /\ journal[y].record \notin RecordsIn(r)'
    <3>1. \A y \in Action : IsAdd(y) /\ Outstanding(y)' => y \in Pending
      BY DEF IInv, AddInv, Outstanding, process
    <3> QED BY <1>1, <3>1 DEF AddInv, IsAdd, Pending
  <2>1. Outstanding(y)
    BY DEF Outstanding, process
  <2>2. y \in Pending /\ journal[y].before \in 1..n
    BY <2>1 DEF IInv, AddInv, JournalInv, Pending, Known
  <2>3. CASE r \in 1..n
    BY <1>2, <2>1, <2>2, <2>3 DEF IInv, AddInv
  <2>4. CASE r = n + 1
    <3> SUFFICES ASSUME NEW u \in new.rows, u.record = journal[y].record PROVE FALSE
      BY <1>1, <2>2, <2>4 DEF RecordsIn, Records
    <3>1. ASSUME NEW v \in Draft.rows, v.record = u.record PROVE FALSE
      <4>1. n \in journal[y].before..n
        BY <1>1, <2>2
      <4>2. journal[y].record \notin RecordsIn(n)
        BY <2>1, <4>1 DEF IInv, AddInv
      <4> QED BY <1>2, <3>1, <4>2 DEF RecordsIn, Records, RowsOf
    <3>2. ASSUME NEW x \in calls \ calls', IsAdd(x) PROVE FALSE
      <4>1. x = y
        BY <1>3, <2>2, <3>2 DEF IInv, JournalInv
      <4> QED BY <1>3, <3>2, <4>1 DEF Outstanding, process
    <3> QED BY <3>1, <3>2
  <2> QED BY <1>1, <2>2, <2>3, <2>4
<1>9. BirthInv'
  <2>1. ASSUME NEW r \in 1..(n + 1), NEW u \in RowsOf(r)'
        PROVE  \E y \in Action :
                  /\ Known(y) /\ IsAdd(y) /\ journal[y].record = u.record
                  /\ journal[y].before < u.id
                  /\ Observed(y) => u.id <= journal[y].after
    <3>1. CASE r \in 1..n
      BY <1>2, <3>1 DEF IInv, BirthInv
    <3>2. CASE r = n + 1
      <4>1. CASE \E v \in Draft.rows : v.id = u.id /\ v.record = u.record
        <5>1. n \in 1..n
          BY <1>1
        <5> QED BY <1>2, <4>1, <5>1 DEF IInv, BirthInv
      <4>2. CASE \E x \in calls \ calls' : /\ IsAdd(x) /\ u.record = journal[x].record
                                          /\ u.id = n + 1
        BY <1>1, <1>3, <4>2
      <4> QED BY <1>2, <3>2, <4>1, <4>2
    <3> QED BY <1>1, <3>1, <3>2
  <2>2. ASSUME NEW y \in Pending, IsAdd(y),
               NEW r \in journal[y].before..(n + 1), NEW s \in journal[y].before..(n + 1),
               NEW u \in RowsOf(r)', NEW w \in RowsOf(s)',
               u.record = journal[y].record, w.record = journal[y].record
        PROVE  u.id = w.id
    <3>1. y \in Action /\ journal[y].before \in 1..n
      BY DEF IInv, JournalInv, Pending, Known
    <3>2. CASE y \in calls \ calls'
      <4>1. ASSUME NEW q \in journal[y].before..(n + 1), NEW z \in RowsOf(q)',
                   z.record = journal[y].record
            PROVE  z \in new.rows
        <5>1. CASE q \in 1..n
          <6>1. q \in journal[y].before..n /\ z \in RowsOf(q)
            BY <1>2, <3>1, <4>1, <5>1
          <6>2. journal[y].record \notin RecordsIn(q)
            BY <1>3, <2>2, <3>2, <6>1
          <6> QED BY <4>1, <6>1, <6>2 DEF RecordsIn, Records, RowsOf
        <5> QED BY <1>1, <1>2, <3>1, <4>1, <5>1
      <4>2. u \in new.rows /\ w \in new.rows
        BY <2>2, <4>1
      <4> QED BY <2>2, <4>2
    <3>3. CASE y \notin calls \ calls'
      <4>1. ASSUME NEW q \in journal[y].before..(n + 1), NEW z \in RowsOf(q)',
                   z.record = journal[y].record
            PROVE  \E t \in journal[y].before..n : \E v \in RowsOf(t) :
                       v.id = z.id /\ v.record = z.record
        <5>1. CASE q \in 1..n
          BY <1>2, <3>1, <5>1
        <5>2. CASE q = n + 1
          <6>1. ~\E x \in calls \ calls' : IsAdd(x)
            BY <1>3, <3>3 DEF IInv, JournalInv
          <6>2. PICK v \in RowsOf(n) : v.id = z.id /\ v.record = z.record
            BY <1>2, <5>2, <6>1
          <6>3. n \in journal[y].before..n
            BY <1>1, <3>1
          <6> QED BY <6>2, <6>3
        <5> QED BY <1>1, <3>1, <5>1, <5>2
      <4>2. PICK t1 \in journal[y].before..n :
                \E v \in RowsOf(t1) : v.id = u.id /\ v.record = u.record
        BY <2>2, <4>1
      <4>3. PICK v1 \in RowsOf(t1) : v1.id = u.id /\ v1.record = u.record
        BY <4>2
      <4>4. PICK t2 \in journal[y].before..n :
                \E v \in RowsOf(t2) : v.id = w.id /\ v.record = w.record
        BY <2>2, <4>1
      <4>5. PICK v2 \in RowsOf(t2) : v2.id = w.id /\ v2.record = w.record
        BY <4>4
      <4> QED BY <2>2, <4>3, <4>5 DEF IInv, BirthInv
    <3> QED BY <3>2, <3>3
  <2> QED BY <1>1, <2>1, <2>2 DEF BirthInv, Known, IsAdd, Observed, Pending
<1> QED BY <1>4, <1>5, <1>6, <1>7, <1>8, <1>9 DEF IInv

\* The draft is an inventory.
LEMMA DraftType ==
    ASSUME TypeOK
    PROVE  /\ Current \in Nat /\ Current > 0 /\ Draft \in Inventory
           /\ Draft.rows \in SUBSET Row /\ Draft.order \in Order /\ Draft.foreign \in BOOLEAN
<1>1. Current \in Nat /\ Current > 0
  BY DEF TypeOK, Current
<1>2. Draft \in Inventory
  BY <1>1 DEF TypeOK, Current, Draft
<1> QED BY <1>1, <1>2 DEF Inventory

\* What a call can do to the rows: an add brings the row of its record, which is
\* not there yet, and any other call takes rows away at most.
LEMMA EffectOfCall ==
    ASSUME IInv, NEW x \in calls
    PROVE  /\ After(x) \in Inventory
           /\ IsAdd(x) => /\ After(x).rows = Draft.rows \cup {NewRow(journal[x].record)}
                          /\ journal[x].record \notin RecordsIn(Current)
           /\ ~IsAdd(x) => After(x).rows \subseteq Draft.rows
<1>1. x \in Action /\ Known(x) /\ journal[x] \in Entry /\ journal[x].before \in 1..Current
  BY DEF IInv, TypeOK, ProcessInv, JournalInv
<1>2. /\ Current \in Nat /\ Current > 0 /\ Draft \in Inventory
      /\ Draft.rows \in SUBSET Row /\ Draft.order \in Order
  BY DraftType DEF IInv
<1>3. RecordsIn(Current) \subseteq Record
  <2>1. \A row \in Draft.rows : row.record \in Record
    BY <1>2 DEF Row
  <2> QED BY <2>1 DEF RecordsIn, Records, Draft
<1>4. CASE journal[x].kind = "add"
  <2>1. journal[x].record \in Record
    BY <1>1, <1>4 DEF IInv, JournalInv
  <2>2. journal[x].record \notin RecordsIn(Current)
    BY <1>1, <1>2, <1>4 DEF IInv, AddInv, Outstanding, IsAdd
  <2>3. After(x) = [Draft EXCEPT !.rows = @ \cup {NewRow(journal[x].record)},
                                 !.order = @ \cup (RecordsIn(Current) \X {journal[x].record})]
    BY <1>4 DEF After
  <2>4. NewRow(journal[x].record) \in Row
    BY <1>2, <2>1 DEF NewRow, Row
  <2>5. Draft.order \cup (RecordsIn(Current) \X {journal[x].record}) \in Order
    BY <1>2, <1>3, <2>1 DEF Order
  <2>6. Draft.rows \cup {NewRow(journal[x].record)} \in SUBSET Row
    BY <1>2, <2>4
  <2> QED BY <1>2, <1>4, <2>2, <2>3, <2>5, <2>6 DEF Inventory, IsAdd
<1>5. CASE journal[x].kind = "delete"
  <2>1. After(x) = IF \E row \in Draft.rows : row.id = Doomed(x)
                   THEN [Draft EXCEPT !.rows = {row \in @ : row.id # Doomed(x)},
                                      !.order = Unordered(@, journal[x].record)]
                   ELSE Draft
    BY <1>5 DEF After
  <2>2. Unordered(Draft.order, journal[x].record) \in Order
    BY <1>2 DEF Unordered, Order
  <2> QED BY <1>2, <1>5, <2>1, <2>2 DEF Inventory, IsAdd
<1>6. CASE journal[x].kind = "reorder"
  <2>1. After(x) = IF RecordsIn(Current) = Ordered(journal[x].order)
                   THEN [Draft EXCEPT !.order = journal[x].order]
                   ELSE Draft
    BY <1>6 DEF After
  <2>2. journal[x].order \in Order
    BY <1>1 DEF Entry
  <2> QED BY <1>2, <1>6, <2>1, <2>2 DEF Inventory, IsAdd
<1> QED BY <1>1, <1>4, <1>5, <1>6 DEF Entry, Kind

\* Lands.
LEMMA LandsStep == ASSUME IInv, NEW x \in Action, Lands(x) PROVE IInv'
<1> DEFINE new == After(x)
<1>1. /\ x \in calls /\ history' = Append(history, new) /\ journal' = journal
      /\ UNCHANGED process /\ calls' = calls \ {x}
  BY DEF Lands
<1>2. new \in Inventory
  BY <1>1, EffectOfCall
<1>3. /\ Current \in Nat /\ Current > 0 /\ Draft.rows = RowsOf(Current)
  BY DEF IInv, TypeOK, Current, Draft, RowsOf
<1>4. \A u, v \in Draft.rows : u.id = v.id \/ u.record = v.record => u = v
  BY <1>3 DEF IInv, HistoryInv, Readable
<1>5. \A u \in Draft.rows : u.id # Current + 1
  BY <1>3 DEF IInv, HistoryInv
<1>6. CASE IsAdd(x)
  <2>1. /\ new.rows = Draft.rows \cup {NewRow(journal[x].record)}
        /\ journal[x].record \notin RecordsIn(Current)
    BY <1>1, <1>6, EffectOfCall
  <2>2. /\ NewRow(journal[x].record).record = journal[x].record
        /\ NewRow(journal[x].record).id = Current + 1
    BY DEF NewRow
  <2>3. \A u \in Draft.rows : u.record # journal[x].record
    BY <2>1 DEF RecordsIn, Records, Draft
  <2> HIDE DEF new
  <2>4. \A u, v \in new.rows : u.id = v.id \/ u.record = v.record => u = v
    BY <1>4, <1>5, <2>1, <2>2, <2>3
  <2>5. \A u \in new.rows :
            \/ \E v \in Draft.rows : v.id = u.id /\ v.record = u.record
            \/ \E y \in calls \ calls' : /\ IsAdd(y) /\ u.record = journal[y].record
                                        /\ u.id = Current + 1
    BY <1>1, <1>6, <2>1, <2>2
  <2> QED BY <1>1, <1>2, <2>4, <2>5, NewRevision
<1>7. CASE ~IsAdd(x)
  <2>1. new.rows \subseteq Draft.rows
    BY <1>1, <1>7, EffectOfCall
  <2> HIDE DEF new
  <2>2. \A u, v \in new.rows : u.id = v.id \/ u.record = v.record => u = v
    BY <1>4, <2>1
  <2>3. \A u \in new.rows : \E v \in Draft.rows : v.id = u.id /\ v.record = u.record
    BY <2>1
  <2> QED BY <1>1, <1>2, <2>2, <2>3, NewRevision
<1> QED BY <1>6, <1>7

\* UserEdits.
LEMMA UserEditsStep == ASSUME IInv, UserEdits PROVE IInv'
<1>1. PICK new \in Edited : history' = Append(history, new)
  BY DEF UserEdits
<1>2. /\ Draft \in Inventory /\ Draft.rows \in SUBSET Row /\ Draft.order \in Order
      /\ Draft.foreign \in BOOLEAN
  BY DraftType DEF IInv
<1>3. /\ Current \in Nat /\ Current > 0 /\ Draft.rows = RowsOf(Current)
  BY DEF IInv, TypeOK, Current, Draft, RowsOf
<1>4. \A u, v \in Draft.rows : u.id = v.id \/ u.record = v.record => u = v
  BY <1>3 DEF IInv, HistoryInv, Readable
<1>5. /\ new \in Inventory
      /\ \A u, v \in new.rows : u.id = v.id \/ u.record = v.record => u = v
      /\ \A u \in new.rows : \E v \in Draft.rows : v.id = u.id /\ v.record = u.record
  <2>1. CASE \E row \in Draft.rows :
                 new = [Draft EXCEPT !.rows = @ \ {row}, !.order = Unordered(@, row.record)]
    <3>1. PICK row \in Draft.rows :
                 new = [Draft EXCEPT !.rows = @ \ {row}, !.order = Unordered(@, row.record)]
      BY <2>1
    <3>2. Unordered(Draft.order, row.record) \in Order
      BY <1>2 DEF Unordered, Order
    <3>3. new.rows = Draft.rows \ {row} /\ new \in Inventory
      BY <1>2, <3>1, <3>2 DEF Inventory
    <3> QED BY <1>4, <3>3
  <2>2. CASE \E row \in Draft.rows :
                 new = [Draft EXCEPT !.rows = (@ \ {row}) \cup {[row EXCEPT !.edited = ~@]}]
    <3>1. PICK row \in Draft.rows :
                 new = [Draft EXCEPT !.rows = (@ \ {row}) \cup {[row EXCEPT !.edited = ~@]}]
      BY <2>2
    <3> DEFINE touched == [row EXCEPT !.edited = ~@]
    <3>2. touched \in Row /\ touched.id = row.id /\ touched.record = row.record
      BY <1>2 DEF Row
    <3>3. new.rows = (Draft.rows \ {row}) \cup {touched} /\ new \in Inventory
      BY <1>2, <3>1, <3>2 DEF Inventory
    <3> HIDE DEF touched
    <3> QED BY <1>4, <3>2, <3>3
  <2>3. CASE new = [Draft EXCEPT !.foreign = ~@]
    BY <1>2, <1>4, <2>3 DEF Inventory
  <2>4. CASE new = [Draft EXCEPT !.order = {<<pair[2], pair[1]>> : pair \in @}]
    <3>1. {<<pair[2], pair[1]>> : pair \in Draft.order} \in Order
      BY <1>2 DEF Order
    <3> QED BY <1>2, <1>4, <2>4, <3>1 DEF Inventory
  <2> QED BY <1>1, <2>1, <2>2, <2>3, <2>4 DEF Edited
<1> HIDE <1>1
<1> QED BY <1>1, <1>5, NewRevision DEF UserEdits

-----------------------------------------------------------------------------
(* The invariant.                                                            *)

\* It holds of an empty draft with an empty journal.
LEMMA Initially == Init => IInv
<1> SUFFICES ASSUME Init PROVE IInv
  OBVIOUS
<1>1. Empty \in Inventory /\ Empty.rows = {}
  BY DEF Empty, Inventory, Order
<1>2. NoEntry \in Entry /\ NoEntry.outcome = "none"
  BY DEF NoEntry, Entry, Outcome, Kind, Order
<1>3. Current = 1 /\ history[1] = Empty /\ history \in Seq(Inventory) /\ history # <<>>
  BY <1>1 DEF Init, Current
<1>4. TypeOK
  BY <1>2, <1>3 DEF Init, TypeOK
<1>5. HistoryInv
  BY <1>1, <1>3 DEF HistoryInv, RowsOf, Readable
<1>6. \A x \in Action : ~Known(x) /\ x \notin Pending /\ ~Observed(x) /\ journal[x] = NoEntry
  BY <1>2 DEF Init, Known, Pending, Observed
<1>7. JournalInv
  BY <1>6 DEF JournalInv, Pending
<1>8. ProcessInv
  BY DEF Init, ProcessInv
<1>9. AddInv
  BY ConstantsAssumption DEF Init, AddInv, Outstanding
<1>10. BirthInv
  BY <1>1, <1>3, <1>6 DEF BirthInv, RowsOf, Pending
<1> QED BY <1>4, <1>5, <1>7, <1>8, <1>9, <1>10 DEF IInv

\* Every step preserves it.
LEMMA Inductive == IInv /\ [Next]_vars => IInv'
<1> SUFFICES ASSUME IInv, [Next]_vars PROVE IInv'
  OBVIOUS
<1>1. CASE UNCHANGED vars
  <2>1. TypeOK'
    BY <1>1 DEF IInv, TypeOK, vars, Current
  <2>2. ProcessInv'
    BY <1>1 DEF IInv, ProcessInv, vars, Current, Known, Settles
  <2> QED BY <1>1, <2>1, <2>2, Quiet DEF vars
<1>2. ASSUME NEW p \in Process, Reconciling(p) PROVE IInv'
  <2>1. CASE Finish(p) \/ Stop(p)
    BY <2>1, LeaveStep DEF Finish, Stop
  <2> QED BY <1>2, <2>1, StartStep, ReadStep, CheckLatestStep, ListPendingStep, SettleStep,
             BeginStep, CallStep, RereadStep, ObserveStep DEF Reconciling
<1>3. ASSUME NEW x \in Action, Lands(x) \/ Lost(x) PROVE IInv'
  BY <1>3, LandsStep, LostStep
<1> QED BY <1>1, <1>2, <1>3, UserEditsStep DEF Next

-----------------------------------------------------------------------------
(* What follows from it.                                                     *)

\* A row that a process is about to add is absent.
LEMMA AddsAreFresh == IInv => AddIsFresh
<1> SUFFICES ASSUME IInv, NEW p \in Process, pc[p] = "call", journal[act[p]].kind = "add"
             PROVE  journal[act[p]].record \notin RecordsIn(Current)
  BY DEF AddIsFresh
<1>1. act[p] \in Action /\ Known(act[p])
  BY DEF IInv, TypeOK, ProcessInv
<1>2. Current \in Nat /\ journal[act[p]].before \in 1..Current
  BY <1>1 DEF IInv, TypeOK, JournalInv, Current
<1>3. Current \in journal[act[p]].before..Current
  BY <1>2
<1> QED BY <1>1, <1>3 DEF IInv, AddInv, IsAdd, Outstanding

\* A delete that was observed finds nothing when its call lands late: the row that
\* it named was gone from the inventory that settled it, and is gone for good.
LEMMA ObservedDeleteIsIdle ==
    ASSUME IInv, NEW x \in Action, Observed(x), journal[x].kind = "delete",
           NEW row \in Draft.rows, row.id = Doomed(x)
    PROVE  FALSE
<1> DEFINE b == journal[x].before
           a == journal[x].after
           record == journal[x].record
<1>1. /\ b \in 1..Current /\ a \in 1..Current /\ Settles(x, a) /\ record \in RecordsIn(b)
      /\ Current \in Nat /\ Current > 0
  BY DEF IInv, TypeOK, JournalInv, Observed, Known, Current
<1>2. b < a /\ record \notin RecordsIn(a)
  BY <1>1 DEF Settles, Postcondition, RecordsIn
<1>3. PICK old \in RowsOf(b) : old.record = record
  BY <1>1 DEF RecordsIn, Records, RowsOf
<1>4. RowFor(b, record) \in RowsOf(b) /\ RowFor(b, record).record = record
  BY <1>3 DEF RowFor
<1> DEFINE gone == RowFor(b, record)
<1>5. gone.id = row.id
  BY DEF Doomed
<1>6. gone \in RowsOf(b) /\ gone.record = record
  BY <1>4
<1>7. row \in RowsOf(Current) /\ Current \in 1..Current
  BY <1>1 DEF Draft, RowsOf
<1> HIDE DEF gone
<1>8. row.id \in 1..b
  BY <1>1, <1>5, <1>6 DEF IInv, HistoryInv
<1>9. PICK mid \in RowsOf(a) : mid.id = row.id /\ mid.record = row.record
  BY <1>1, <1>2, <1>7, <1>8 DEF IInv, HistoryInv
<1>10. PICK first \in RowsOf(b) : first.id = row.id /\ first.record = row.record
  BY <1>1, <1>7, <1>8 DEF IInv, HistoryInv
<1>11. first = gone
  BY <1>1, <1>5, <1>6, <1>10 DEF IInv, HistoryInv
<1> QED BY <1>2, <1>6, <1>9, <1>10, <1>11 DEF RecordsIn, Records, RowsOf

\* A call that would change the rows belongs to a pending entry.
LEMMA LateCalls == IInv => LateCallsAreUncertain
<1> SUFFICES ASSUME IInv, NEW x \in calls, After(x).rows # Draft.rows PROVE x \in Pending
  BY DEF LateCallsAreUncertain
<1>1. x \in Action /\ Known(x) /\ journal[x] \in Entry
  BY DEF IInv, TypeOK, ProcessInv
<1>2. CASE IsAdd(x)
  BY <1>1, <1>2 DEF IInv, AddInv, Outstanding
<1>3. CASE journal[x].kind = "delete"
  <2>1. \E row \in Draft.rows : row.id = Doomed(x)
    BY <1>3 DEF After
  <2>2. ~Observed(x)
    BY <1>1, <1>3, <2>1, ObservedDeleteIsIdle
  <2> QED BY <1>1, <2>2 DEF Known, Observed, Pending, Entry, Outcome
<1>4. CASE journal[x].kind = "reorder"
  <2>1. Draft \in Inventory
    BY DraftType DEF IInv
  <2> QED BY <1>4, <2>1 DEF After, Inventory
<1> QED BY <1>1, <1>2, <1>3, <1>4 DEF Entry, Kind, IsAdd

\* No record has two rows.
LEMMA NoneTwice == IInv => NoRowTwice
<1> SUFFICES ASSUME IInv PROVE Readable(Current)
  BY DEF NoRowTwice
<1>1. Current \in 1..Current
  BY DEF IInv, TypeOK, Current
<1> QED BY <1>1 DEF IInv, HistoryInv

\* The variables keep their types, and a process has an entry of its own exactly
\* between the intent of its action and the outcome (begin() to observed()).
THEOREM Typing == Spec => []TypeOK
<1>1. IInv => TypeOK
  BY DEF IInv
<1> QED BY <1>1, Initially, Inductive, PTL DEF Spec

\* However many processes reconcile a draft and die, and however late their calls
\* land, no record is added twice, no add is sent for a record that is there, and
\* no call that can still change the rows is taken for settled.
THEOREM RowsHappenOnce == Spec => [](NoRowTwice /\ AddIsFresh /\ LateCallsAreUncertain)
<1>1. IInv => NoRowTwice /\ AddIsFresh /\ LateCallsAreUncertain
  BY NoneTwice, AddsAreFresh, LateCalls
<1> QED BY <1>1, Initially, Inductive, PTL DEF Spec
-----------------------------------------------------------------------------
(* The journal keeps the promise of SharedDraft.                             *)

\* While an entry is pending nothing is observed that is later than its inventory.
LedgerInv == \A x \in Pending, y \in Action : journal[y].after <= journal[x].before

\* The pending entry is the only one.
LEMMA Sole ==
    ASSUME IInv, NEW x \in Pending
    PROVE  /\ x \in Action /\ Pending = {x}
           /\ Owed = {[kind |-> journal[x].kind, record |-> journal[x].record]}
           /\ AddsOwed = IF IsAdd(x) THEN {x} ELSE {}
<1>1. Pending = {x}
  BY DEF IInv, JournalInv
<1>2. x \in Action
  BY DEF Pending
<1> QED BY <1>1, <1>2 DEF Owed, AddsOwed, IsAdd

\* An addition that may still take effect has not.
LEMMA OpenHasNotCome ==
    ASSUME IInv, NEW x \in Action, IsAdd(x), Outstanding(x)
    PROVE  x \in AddsOwed /\ ~HasCome(x)
BY DEF IInv, AddInv, AddsOwed, HasCome, IsAdd

\* What the person sees depends on the draft, the journal and the open additions.
LEMMA SameSight ==
    ASSUME history' = history, journal' = journal
    PROVE  /\ RowsSeen' = RowsSeen /\ Owed' = Owed /\ AddsOwed' = AddsOwed /\ Pending' = Pending
           /\ \A x \in AddsOwed : HasCome(x)' = HasCome(x)
BY DEF RowsSeen, Draft, Current, Owed, AddsOwed, Pending, HasCome, RecordsIn, Records

\* A step that sends no new call: an open addition stays open or fails, unseen else.
LEMMA Fades ==
    ASSUME IInv, history' = history, journal' = journal,
           \A x \in Action : Outstanding(x)' => Outstanding(x)
    PROVE  Shared!Next \/ UNCHANGED Shared!vars
<1>1. CASE \E x \in AddsOwed : Outstanding(x) /\ ~Outstanding(x)'
  <2>1. PICK x \in AddsOwed : Outstanding(x) /\ ~Outstanding(x)'
    BY <1>1
  <2>2. x \in Pending /\ IsAdd(x) /\ x \in Action
    BY <2>1 DEF AddsOwed, Pending, IsAdd
  <2>3. AddsOwed = {x} /\ ~HasCome(x)
    BY <2>1, <2>2, Sole, OpenHasNotCome
  <2>4. AddsOwed' = {x} /\ ~HasCome(x)'
    BY <2>3, SameSight
  <2>5. Fate = "open"
    BY <2>1 DEF Fate
  <2>6. Fate' = "none"
    BY <2>1, <2>4 DEF Fate
  <2>7. Shared!Fails
    BY <2>5, <2>6, SameSight DEF Shared!Fails
  <2> QED BY <2>7 DEF Shared!Next
<1>2. CASE \A x \in AddsOwed : Outstanding(x) => Outstanding(x)'
  <2>1. \A x \in AddsOwed : Outstanding(x)' = Outstanding(x)
    BY <1>2 DEF AddsOwed, Pending, Outstanding
  <2>2. Fate' = Fate
    BY <2>1, SameSight DEF Fate
  <2> QED BY <2>2, SameSight DEF Shared!vars
<1> QED BY <1>1, <1>2

\* Steps of a process between two writes of the journal.
LEMMA ProcessSeen ==
    ASSUME IInv, NEW p \in Process,
           Start(p) \/ Read(p) \/ CheckLatest(p) \/ ListPending(p) \/ Call(p) \/ Reread(p) \/ Finish(p) \/ Stop(p)
    PROVE  Shared!Next \/ UNCHANGED Shared!vars
<1>1. history' = history /\ journal' = journal
  BY DEF Start, Read, CheckLatest, ListPending, Call, Reread, Finish, Stop
<1>2. CASE Call(p)
  <2>1. \A x \in Action : Outstanding(x)' => Outstanding(x)
    BY <1>2 DEF IInv, TypeOK, Call, Step, Outstanding
  <2> QED BY <1>1, <2>1, Fades
<1>3. CASE ~Call(p)
  <2>1. calls' = calls
    BY <1>3 DEF Start, Read, CheckLatest, ListPending, Reread, Finish, Stop
  <2>2. \A q \in Process : pc'[q] = "call" => pc[q] = "call" /\ act'[q] = act[q]
    BY <1>3 DEF Start, Read, CheckLatest, ListPending, Reread, Finish, Stop, Leave, Step, IInv, TypeOK
  <2>3. \A x \in Action : Outstanding(x)' => Outstanding(x)
    BY <2>1, <2>2 DEF Outstanding
  <2> QED BY <1>1, <2>3, Fades
<1> QED BY <1>2, <1>3

\* A call that is lost.
LEMMA LostSeen ==
    ASSUME IInv, NEW x \in Action, Lost(x)
    PROVE  Shared!Next \/ UNCHANGED Shared!vars
<1>1. \A y \in Action : Outstanding(y)' => Outstanding(y)
  BY DEF Lost, process, Outstanding
<1> QED BY <1>1, Fades DEF Lost

\* The intent of an addition finds no row of its record.
LEMMA BeginSeen ==
    ASSUME IInv, IInv', NEW p \in Process, Begin(p)
    PROVE  Shared!Next /\ LedgerInv'
<1>1. PICK x \in Action, e \in Moves(wish[p], inv[p]) :
        /\ journal[x] = NoEntry
        /\ journal' = [journal EXCEPT ![x] = e]
        /\ act' = [act EXCEPT ![p] = x]
  BY DEF Begin
<1>2. /\ wish[p] \in Wish /\ inv[p] \in 1..Current /\ inv[p] \in Nat /\ Current \in Nat
      /\ Pending = {} /\ NotBehind(inv[p]) /\ pc[p] = "plan"
      /\ pc' = [pc EXCEPT ![p] = "call"] /\ history' = history
  BY DEF IInv, TypeOK, ProcessInv, Begin, Step, Current
<1>3. e \in Entry /\ e.outcome = "ATTEMPTED" /\ e.before = inv[p] /\ e.after = 0
  BY <1>2, MoveIsSound
<1>4. /\ journal'[x] = e
      /\ \A y \in Action \ {x} : journal'[y] = journal[y]
  BY <1>1 DEF IInv, TypeOK
<1>5. Pending' = {x}
  BY <1>2, <1>3, <1>4 DEF Pending
<1>6. Owed' = {[kind |-> e.kind, record |-> e.record]} /\ AddsOwed' = IF e.kind = "add" THEN {x} ELSE {}
  BY <1>4, <1>5 DEF Owed, AddsOwed
<1>7. Owed = {} /\ RowsSeen' = RowsSeen
  BY <1>2 DEF Owed, RowsSeen, Draft, Current
<1>8. Outstanding(x)'
  BY <1>1, <1>2 DEF IInv, TypeOK, Outstanding
<1>9. Fate' = IF e.kind = "add" THEN "open" ELSE "none"
  BY <1>6, <1>8 DEF Fate
<1>10. e.kind = "add" => \A row \in RowsSeen : row.record # e.record
  <2> SUFFICES ASSUME e.kind = "add" PROVE \A row \in RowsSeen : row.record # e.record
    OBVIOUS
  <2>1. e.record \notin RecordsIn(inv[p]) /\ e.record \in Record
    BY <1>2, MoveIsSound
  <2>2. e.record \notin RecordsIn(Current)
    BY <1>2, <2>1, PlannedAddIsAbsent
  <2> QED BY <2>2 DEF RecordsIn, Records, RowsSeen, Draft
<1>11. [kind |-> e.kind, record |-> e.record] \in Shared!Change
  BY <1>3 DEF Entry, Kind, Shared!Change
<1>12. Shared!Undertake([kind |-> e.kind, record |-> e.record])
  BY <1>6, <1>7, <1>9, <1>10 DEF Shared!Undertake, Shared!Has
<1>13. LedgerInv'
  <2>1. ASSUME NEW y \in Action PROVE journal'[y].after <= inv[p]
    <3>1. CASE y = x
      BY <1>2, <1>3, <1>4, <3>1
    <3>2. CASE y # x
      BY <1>2, <1>4, <3>2 DEF NotBehind
    <3> QED BY <3>1, <3>2
  <2>2. journal'[x].before = inv[p]
    BY <1>3, <1>4
  <2> QED BY <1>5, <2>1, <2>2 DEF LedgerInv
<1> QED BY <1>11, <1>12, <1>13 DEF Shared!Next

\* A change that an inventory shows was made, and nothing undid it since.
LEMMA SettlementSeen ==
    ASSUME IInv, LedgerInv, NEW x \in Pending, NEW v \in 1..Current, Settles(x, v),
           journal' = [journal EXCEPT ![x].outcome = "OBSERVED_SUCCESS", ![x].after = v],
           history' = history
    PROVE  Shared!Done /\ LedgerInv'
<1>1. x \in Action /\ Known(x) /\ Pending = {x}
      /\ Owed = {[kind |-> journal[x].kind, record |-> journal[x].record]}
      /\ AddsOwed = IF IsAdd(x) THEN {x} ELSE {}
  BY Sole DEF Pending, Known
<1>2. journal[x].before \in 1..Current /\ v > journal[x].before /\ Current \in Nat
  BY <1>1 DEF IInv, TypeOK, JournalInv, Settles, Postcondition, Current
<1>3. Pending' = {}
  BY <1>1 DEF IInv, TypeOK, Entry, Pending
<1>4. Owed' = {} /\ AddsOwed' = {} /\ LedgerInv'
  BY <1>3 DEF Owed, AddsOwed, LedgerInv
<1>5. Fate' = "none" /\ RowsSeen' = RowsSeen
  BY <1>4 DEF Fate, RowsSeen, Draft, Current
<1>6. IsAdd(x) => Fate = "made"
  <2> SUFFICES ASSUME IsAdd(x) PROVE Fate = "made"
    OBVIOUS
  <2>1. ~Outstanding(x)
    BY SettledAddHasLanded
  <2>2. journal[x].record \in RecordsIn(v)
    BY DEF Settles, Postcondition, IsAdd, RecordsIn, Records
  <2>3. HasCome(x)
    BY <1>2, <2>2 DEF HasCome
  <2> QED BY <1>1, <2>1, <2>3 DEF Fate
<1>7. journal[x].kind = "delete" => \A row \in RowsSeen : row.record # journal[x].record
  <2> SUFFICES ASSUME journal[x].kind = "delete",
                      NEW u \in RowsOf(Current), u.record = journal[x].record
               PROVE  FALSE
    BY DEF RowsSeen, Draft, RowsOf
  <2>1. journal[x].record \notin RecordsIn(v)
    BY DEF Settles, Postcondition, RecordsIn
  <2>2. Current \in 1..Current /\ v <= Current
    BY <1>2
  <2>3. u.id \in 1..Current
    BY <2>2 DEF IInv, HistoryInv
  <2>4. ~(u.id <= v)
    BY <2>1, <2>2 DEF IInv, HistoryInv, RecordsIn, Records, RowsOf
  <2>5. PICK y \in Action : Known(y) /\ IsAdd(y) /\ (Observed(y) => u.id <= journal[y].after)
    BY <2>2 DEF IInv, BirthInv
  <2>6. y \notin Pending
    BY <1>1, <2>5 DEF IsAdd
  <2>7. Observed(y)
    BY <2>5, <2>6 DEF IInv, TypeOK, Entry, Outcome, Known, Observed, Pending
  <2>8. journal[y].after <= journal[x].before /\ journal[y].after \in Nat
    BY DEF LedgerInv, IInv, TypeOK, Entry
  <2> QED BY <1>2, <2>3, <2>4, <2>5, <2>7, <2>8
<1>8. Shared!Done
  BY <1>1, <1>4, <1>5, <1>6, <1>7 DEF Shared!Done, Shared!Has, IsAdd
<1> QED BY <1>4, <1>8

LEMMA SettleSeen ==
    ASSUME IInv, LedgerInv, NEW p \in Process, Settle(p) \/ Observe(p)
    PROVE  Shared!Next /\ LedgerInv'
<1>1. CASE Settle(p)
  <2>1. PICK x \in todo[p] :
          /\ Settles(x, inv[p])
          /\ journal[x].outcome = "ATTEMPTED"
          /\ journal' = [journal EXCEPT ![x].outcome = "OBSERVED_SUCCESS", ![x].after = inv[p]]
    BY <1>1 DEF Settle
  <2>2. x \in Pending /\ inv[p] \in 1..Current /\ history' = history
    BY <1>1, <2>1 DEF IInv, TypeOK, ProcessInv, Settle, Pending
  <2> QED BY <2>1, <2>2, SettlementSeen DEF Shared!Next
<1>2. CASE Observe(p)
  <2>1. PICK x : x = act[p]
    OBVIOUS
  <2>2. /\ x \in Pending /\ inv[p] \in 1..Current /\ Settles(x, inv[p]) /\ history' = history
        /\ journal' = [journal EXCEPT ![x].outcome = "OBSERVED_SUCCESS", ![x].after = inv[p]]
    BY <1>2, <2>1 DEF IInv, TypeOK, ProcessInv, Observe, Step, Pending
  <2> QED BY <2>2, SettlementSeen DEF Shared!Next
<1> QED BY <1>1, <1>2

\* A revision that brings no record: at most a row is gone.
LEMMA RemovalSeen ==
    ASSUME IInv, NEW new, history' = Append(history, new), journal' = journal, UNCHANGED process,
           \A x \in AddsOwed : x \in calls' <=> x \in calls,
           Records(new) \subseteq RecordsIn(Current),
           \/ RowsSeen' = RowsSeen
           \/ \E row \in RowsSeen : RowsSeen' = RowsSeen \ {row}
    PROVE  Shared!Next \/ UNCHANGED Shared!vars
<1>1. PICK n \in Nat : n = Current /\ n > 0
  BY DEF IInv, TypeOK, Current
<1>2. Current' = n + 1 /\ history'[n + 1] = new /\ \A r \in 1..n : history'[r] = history[r]
  BY <1>1 DEF IInv, TypeOK, Current
<1>3. Owed' = Owed /\ AddsOwed' = AddsOwed
  BY DEF Owed, AddsOwed, Pending
<1>4. ASSUME NEW x \in AddsOwed PROVE HasCome(x)' = HasCome(x)
  <2>1. journal[x].before \in 1..n
    BY <1>1 DEF AddsOwed, Pending, IInv, JournalInv, Known
  <2>2. \A r \in 1..n : RecordsIn(r)' = RecordsIn(r)
    BY <1>2 DEF RecordsIn
  <2>3. RecordsIn(n + 1)' \subseteq RecordsIn(n)
    BY <1>1, <1>2 DEF RecordsIn
  <2>4. HasCome(x) => HasCome(x)'
    <3>1. \A r \in journal[x].before..n : r \in 1..n /\ r \in journal[x].before..(n + 1)
      BY <1>1, <2>1
    <3> QED BY <1>1, <1>2, <2>2, <3>1 DEF HasCome
  <2>5. HasCome(x)' => HasCome(x)
    <3> SUFFICES ASSUME NEW r \in journal[x].before..(n + 1), journal[x].record \in RecordsIn(r)'
                 PROVE  HasCome(x)
      BY <1>2 DEF HasCome
    <3>1. CASE r = n + 1
      <4>1. n \in journal[x].before..n /\ journal[x].record \in RecordsIn(n)
        BY <1>1, <2>1, <2>3, <3>1
      <4> QED BY <1>1, <4>1 DEF HasCome
    <3>2. CASE r # n + 1
      <4>1. r \in journal[x].before..n /\ r \in 1..n
        BY <1>1, <2>1, <3>2
      <4> QED BY <1>1, <2>2, <4>1 DEF HasCome
    <3> QED BY <3>1, <3>2
  <2> QED BY <2>4, <2>5 DEF HasCome
<1>5. \A x \in AddsOwed : Outstanding(x)' = Outstanding(x)
  BY DEF Outstanding, process
<1>6. Fate' = Fate
  BY <1>3, <1>4, <1>5 DEF Fate
<1>7. CASE RowsSeen' = RowsSeen
  BY <1>3, <1>6, <1>7 DEF Shared!vars
<1>8. CASE \E row \in RowsSeen : RowsSeen' = RowsSeen \ {row}
  BY <1>3, <1>6, <1>8 DEF Shared!Removed, Shared!Next
<1> QED BY <1>7, <1>8

\* A row is known by its record and its id.
LEMMA SightOf ==
    ASSUME IInv, NEW new, history' = Append(history, new)
    PROVE  /\ RowsSeen' = {[record |-> row.record, id |-> row.id] : row \in new.rows}
           /\ Current' = Current + 1 /\ Current \in Nat /\ Current > 0
           /\ \A r \in 1..Current : history'[r] = history[r]
           /\ history'[Current + 1] = new
           /\ \A u, v \in Draft.rows : u.id = v.id => u = v
<1>1. PICK n \in Nat : n = Current /\ n > 0
  BY DEF IInv, TypeOK, Current
<1>2. Current' = n + 1 /\ history'[n + 1] = new /\ \A r \in 1..n : history'[r] = history[r]
  BY <1>1 DEF IInv, TypeOK, Current
<1>3. \A u, v \in Draft.rows : u.id = v.id => u = v
  BY <1>1 DEF IInv, HistoryInv, Draft, RowsOf
<1> QED BY <1>1, <1>2, <1>3 DEF RowsSeen, Draft

\* One row less is seen as one row less.
LEMMA OneRowLess ==
    ASSUME IInv, NEW new, history' = Append(history, new), NEW row \in Draft.rows, new.rows = Draft.rows \ {row}
    PROVE  RowsSeen' = RowsSeen \ {[record |-> row.record, id |-> row.id]}
           /\ [record |-> row.record, id |-> row.id] \in RowsSeen
<1>1. RowsSeen' = {[record |-> u.record, id |-> u.id] : u \in Draft.rows \ {row}}
  BY SightOf
<1>2. \A u \in Draft.rows : [record |-> u.record, id |-> u.id] = [record |-> row.record, id |-> row.id] => u = row
  <2> TAKE u \in Draft.rows
  <2> HAVE [record |-> u.record, id |-> u.id] = [record |-> row.record, id |-> row.id]
  <2>1. u.id = row.id
    OBVIOUS
  <2> QED BY <2>1, SightOf
<1> QED BY <1>1, <1>2 DEF RowsSeen

\* A call lands: an addition comes, a deletion removes its row, if it is there.
LEMMA LandsSeen ==
    ASSUME IInv, NEW x \in Action, Lands(x)
    PROVE  Shared!Next \/ UNCHANGED Shared!vars
<1>1. PICK new : new = After(x)
  OBVIOUS
<1>2. /\ x \in calls /\ history' = Append(history, new) /\ journal' = journal
      /\ UNCHANGED process /\ calls' = calls \ {x}
  BY <1>1 DEF Lands
<1>3. /\ IsAdd(x) => new.rows = Draft.rows \cup {NewRow(journal[x].record)} /\ journal[x].record \notin RecordsIn(Current)
      /\ ~IsAdd(x) => new.rows \subseteq Draft.rows
  BY <1>1, <1>2, EffectOfCall
<1>4. Draft \in Inventory /\ Draft.rows \in SUBSET Row
  BY DraftType DEF IInv
<1>5. CASE IsAdd(x)
  <2>1. Outstanding(x) /\ x \in AddsOwed
    BY <1>2, <1>5, OpenHasNotCome DEF Outstanding
  <2>2. Pending = {x} /\ Owed = {[kind |-> journal[x].kind, record |-> journal[x].record]} /\ AddsOwed = {x}
    BY <1>5, <2>1, Sole DEF AddsOwed
  <2>3. Owed' = Owed /\ AddsOwed' = {x}
    BY <1>2, <2>2 DEF Owed, AddsOwed, Pending
  <2>4. ~Outstanding(x)'
    BY <1>2 DEF Outstanding, process, IInv, ProcessInv
  <2>5. HasCome(x)'
    <3>1. journal[x].before \in 1..Current /\ Current \in Nat
      BY <1>2, SightOf DEF IInv, JournalInv, ProcessInv, TypeOK
    <3>2. PICK r \in Nat : r = Current + 1
      BY <3>1
    <3>3. r \in journal'[x].before..Current' /\ history'[r] = new
      <4>1. Current' = r /\ history'[r] = new
        BY <1>2, <3>2, SightOf
      <4>2. r \in journal[x].before..r
        BY <3>1, <3>2
      <4> QED BY <1>2, <4>1, <4>2
    <3>4. PICK row \in new.rows : row.record = journal[x].record
      BY <1>3, <1>5 DEF NewRow
    <3>5. journal'[x].record \in RecordsIn(r)'
      BY <1>2, <3>3, <3>4 DEF RecordsIn, Records
    <3> QED BY <3>3, <3>5 DEF HasCome
  <2>6. Fate = "open" /\ Fate' = "made"
    BY <2>1, <2>3, <2>4, <2>5 DEF Fate
  <2>7. PICK seen : seen = [record |-> journal[x].record, id |-> Current + 1]
    OBVIOUS
  <2>8. RowsSeen' = RowsSeen \cup {seen} /\ seen.record = journal[x].record
    <3>1. RowsSeen' = {[record |-> row.record, id |-> row.id] : row \in Draft.rows \cup {NewRow(journal[x].record)}}
      BY <1>2, <1>3, <1>5, SightOf
    <3>2. seen = [record |-> NewRow(journal[x].record).record, id |-> NewRow(journal[x].record).id]
      BY <2>7 DEF NewRow
    <3>3. RowsSeen' = RowsSeen \cup {seen}
      BY <3>1, <3>2 DEF RowsSeen
    <3> QED BY <2>7, <3>3
  <2>9. \A row \in RowsSeen : row.record # seen.record
    BY <1>3, <1>5, <2>8 DEF RowsSeen, RecordsIn, Records, Draft
  <2>10. Shared!Comes
    BY <2>2, <2>3, <2>6, <2>8, <2>9 DEF Shared!Comes, Shared!Has
  <2> QED BY <2>10 DEF Shared!Next
<1>6. CASE ~IsAdd(x)
  <2>1. Records(new) \subseteq RecordsIn(Current)
    BY <1>3, <1>6 DEF Records, RecordsIn, Draft
  <2>2. \A y \in AddsOwed : y \in calls' <=> y \in calls
    BY <1>2, <1>6 DEF AddsOwed, IsAdd
  <2>3. new.rows = Draft.rows \/ \E row \in Draft.rows : new.rows = Draft.rows \ {row}
    <3>1. CASE journal[x].kind = "delete" /\ \E row \in Draft.rows : row.id = Doomed(x)
      <4>1. PICK row \in Draft.rows : row.id = Doomed(x)
        BY <3>1
      <4>2. new = [Draft EXCEPT !.rows = {u \in @ : u.id # Doomed(x)}, !.order = Unordered(@, journal[x].record)]
        BY <1>1, <3>1 DEF After
      <4>3. new.rows = {u \in Draft.rows : u.id # Doomed(x)}
        BY <1>4, <4>2 DEF Inventory
      <4>4. \A u \in Draft.rows : u.id = Doomed(x) => u = row
        BY <1>2, <4>1, SightOf
      <4> QED BY <4>1, <4>3, <4>4
    <3>2. CASE journal[x].kind = "delete" /\ ~\E row \in Draft.rows : row.id = Doomed(x)
      BY <1>1, <3>2 DEF After
    <3>3. CASE journal[x].kind = "reorder"
      <4>1. new = Draft \/ new = [Draft EXCEPT !.order = journal[x].order]
        BY <1>1, <3>3 DEF After
      <4> QED BY <1>4, <4>1 DEF Inventory
    <3>4. journal[x].kind \in Kind
      BY DEF IInv, TypeOK, Entry
    <3> QED BY <1>6, <3>1, <3>2, <3>3, <3>4 DEF Kind, IsAdd
  <2>4. RowsSeen' = RowsSeen \/ \E row \in RowsSeen : RowsSeen' = RowsSeen \ {row}
    <3>1. CASE new.rows = Draft.rows
      BY <1>2, <3>1, SightOf DEF RowsSeen
    <3>2. CASE \E row \in Draft.rows : new.rows = Draft.rows \ {row}
      BY <1>2, <3>2, OneRowLess
    <3> QED BY <2>3, <3>1, <3>2
  <2> QED BY <1>2, <2>1, <2>2, <2>4, RemovalSeen
<1> QED BY <1>5, <1>6

\* What the person does: a row is gone, or is what it was but for its contents.
LEMMA UserSeen ==
    ASSUME IInv, UserEdits
    PROVE  Shared!Next \/ UNCHANGED Shared!vars
<1>1. PICK new \in Edited : history' = Append(history, new)
  BY DEF UserEdits
<1>2. journal' = journal /\ calls' = calls /\ UNCHANGED process
  BY DEF UserEdits
<1>3. Draft \in Inventory /\ Draft.rows \in SUBSET Row
  BY DraftType DEF IInv
<1>4. CASE \E row \in Draft.rows : new = [Draft EXCEPT !.rows = @ \ {row}, !.order = Unordered(@, row.record)]
  <2>1. PICK row \in Draft.rows : new = [Draft EXCEPT !.rows = @ \ {row}, !.order = Unordered(@, row.record)]
    BY <1>4
  <2>2. new.rows = Draft.rows \ {row}
    BY <1>3, <2>1 DEF Inventory
  <2>3. Records(new) \subseteq RecordsIn(Current)
    BY <2>2 DEF Records, RecordsIn, Draft
  <2> QED BY <1>1, <1>2, <2>2, <2>3, OneRowLess, RemovalSeen
<1>5. CASE \E row \in Draft.rows : new = [Draft EXCEPT !.rows = (@ \ {row}) \cup {[row EXCEPT !.edited = ~@]}]
  <2>1. PICK row \in Draft.rows : new = [Draft EXCEPT !.rows = (@ \ {row}) \cup {[row EXCEPT !.edited = ~@]}]
    BY <1>5
  <2>2. PICK touched : touched = [row EXCEPT !.edited = ~@]
    OBVIOUS
  <2>3. touched.id = row.id /\ touched.record = row.record
    BY <1>3, <2>2 DEF Row
  <2>4. new.rows = (Draft.rows \ {row}) \cup {touched}
    BY <1>3, <2>1, <2>2 DEF Inventory
  <2>5. RowsSeen' = RowsSeen
    <3>1. RowsSeen' = {[record |-> u.record, id |-> u.id] : u \in (Draft.rows \ {row}) \cup {touched}}
      BY <1>1, <2>4, SightOf
    <3>2. [record |-> touched.record, id |-> touched.id] = [record |-> row.record, id |-> row.id]
      BY <2>3
    <3> QED BY <3>1, <3>2 DEF RowsSeen
  <2>6. Records(new) \subseteq RecordsIn(Current)
    BY <2>3, <2>4 DEF Records, RecordsIn, Draft
  <2> QED BY <1>1, <1>2, <2>5, <2>6, RemovalSeen
<1>6. CASE new = [Draft EXCEPT !.foreign = ~@] \/ new = [Draft EXCEPT !.order = {<<pair[2], pair[1]>> : pair \in @}]
  <2>1. new.rows = Draft.rows
    BY <1>3, <1>6 DEF Inventory
  <2>2. RowsSeen' = RowsSeen
    BY <1>1, <2>1, SightOf DEF RowsSeen
  <2>3. Records(new) \subseteq RecordsIn(Current)
    BY <2>1 DEF Records, RecordsIn, Draft
  <2> QED BY <1>1, <1>2, <2>2, <2>3, RemovalSeen
<1> QED BY <1>4, <1>5, <1>6 DEF Edited

\* Every step is one of the promise, or is not seen.
LEMMA StepSeen ==
    ASSUME IInv, LedgerInv, [Next]_vars
    PROVE  LedgerInv' /\ [Shared!Next]_(Shared!vars)
<1>1. IInv'
  BY Inductive
<1>2. journal' = journal => LedgerInv'
  BY DEF LedgerInv, Pending
<1>3. CASE UNCHANGED vars
  <2>1. \A x \in Action : Outstanding(x)' => Outstanding(x)
    BY <1>3 DEF vars, Outstanding
  <2> QED BY <1>2, <1>3, <2>1, Fades DEF vars
<1>4. ASSUME NEW p \in Process, Reconciling(p) PROVE LedgerInv' /\ [Shared!Next]_(Shared!vars)
  <2>1. CASE Settle(p) \/ Observe(p)
    BY <2>1, SettleSeen
  <2>2. CASE Begin(p)
    BY <1>1, <2>2, BeginSeen
  <2>3. CASE Start(p) \/ Read(p) \/ CheckLatest(p) \/ ListPending(p) \/ Call(p) \/ Reread(p) \/ Finish(p) \/ Stop(p)
    <3>1. journal' = journal
      BY <2>3 DEF Start, Read, CheckLatest, ListPending, Call, Reread, Finish, Stop
    <3> QED BY <1>2, <2>3, <3>1, ProcessSeen
  <2> QED BY <1>4, <2>1, <2>2, <2>3 DEF Reconciling
<1>5. ASSUME NEW x \in Action, Lands(x) \/ Lost(x) PROVE LedgerInv' /\ [Shared!Next]_(Shared!vars)
  BY <1>2, <1>5, LandsSeen, LostSeen DEF Lands, Lost
<1>6. CASE UserEdits
  BY <1>2, <1>6, UserSeen DEF UserEdits
<1> QED BY <1>3, <1>4, <1>5, <1>6 DEF Next

\* At the start there is no row and nothing is owed.
LEMMA InitSeen ==
    ASSUME Init
    PROVE  LedgerInv /\ Shared!Init
<1>1. Pending = {}
  BY DEF Init, Pending, NoEntry
<1>2. Draft.rows = {}
  BY DEF Init, Draft, Current, Empty
<1> QED BY <1>1, <1>2 DEF LedgerInv, Shared!Init, RowsSeen, Owed, AddsOwed, Fate

\* The journal implements SharedDraft: one change at a time, an addition for a
\* record without a row that takes effect once at most and only while it is owed,
\* and a change that is called done was made; the record of a deletion has no row.
THEOREM ChangesAsPromised == Spec => ImplementsSharedDraft
<1>1. Init => LedgerInv /\ Shared!Init
  BY InitSeen
<1>2. IInv /\ LedgerInv /\ [Next]_vars => LedgerInv' /\ [Shared!Next]_(Shared!vars)
  BY StepSeen
<1>3. Spec => []IInv
  BY Initially, Inductive, PTL DEF Spec
<1> QED BY <1>1, <1>2, <1>3, PTL DEF Spec, ImplementsSharedDraft, Shared!Spec
=============================================================================
