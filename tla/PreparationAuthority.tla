------------------------ MODULE PreparationAuthority ------------------------
(***************************************************************************)
(* The durable side of a private preparation: the approval row, the marker *)
(* file next to the database, the journals of the typed fields, of the     *)
(* resume upload and of the final request, and the operations on them      *)
(* (preparation/authority.py, final_journal.py, resume_journal.py).        *)
(*                                                                         *)
(* The first group of operators are the conditions that the code evaluates *)
(* in one transaction, the second the transactions; PreparationSession     *)
(* says who calls them, and when.  A task's revision and the versions of   *)
(* its profile and resume files are one number, `version': every guard     *)
(* compares them all with what the approval was given for.  Time is not a  *)
(* variable: an offer, a permit or a lease can be over at any moment, which *)
(* refuses a step (Fail, in PreparationSession); and the lease of a task a *)
(* preparation took counts as over, so that it keeps nobody out.           *)
(***************************************************************************)
EXTENDS Naturals, Sequences, FiniteSets

CONSTANTS Nonce,        \* the approvals that may be asked for
          Task,         \* the tasks of the queue
          Plan,         \* the selected fields, in the order they are typed
          HasResume,    \* does the profile name a resume?
          MaxVersion,   \* bound: changes of a task or of its files
          NoNonce,      \* the owner of a task that no preparation owns
          Foreign       \* what a marker that cannot be verified says

STAGES == <<"selection_lookup", "start_lookup", "upload">>

Range(s) == {s[i] : i \in DOMAIN s}
Effects == Range(Plan) \cup Range(STAGES) \cup {"final"}
Outcome == {"none", "ATTEMPTED", "RETURNED", "UNKNOWN"}

ASSUME PlanAssumption ==
  /\ Plan \in Seq(STRING) /\ Plan # <<>>
  /\ Range(Plan) \cap (Range(STAGES) \cup {"final"}) = {}
  /\ HasResume \in BOOLEAN /\ MaxVersion \in Nat
  /\ NoNonce \notin Nonce /\ Foreign \notin Nonce \cup {NoNonce}

VARIABLES
  target,     \* the task an approval would be for
  task,       \* owner, stage and version of a task
  worker,     \* does some worker hold a lease?
  approval,   \* preparation_approvals: outcome and context_closed
  marker,     \* the marker file: the nonce in it, or what else is there
  receipts,   \* nonces with a preparation-closed-<nonce>-... file
  tombstone,  \* preparation_nonce_tombstones
  journal,    \* run attempt, field actions, upload, stages, final slot
  hold,       \* what the process of an approval has in memory of it
  seen,       \* the version the offer was issued for
  browser,    \* the browser launched for an approval
  done        \* how often an effect reached the website

durable == <<target, task, worker, approval, marker, receipts, tombstone, journal>>
held == <<hold, seen>>

EmptyJournal ==
  [run |-> "none", field |-> [f \in Range(Plan) |-> "none"], upload |-> "none",
   selected |-> FALSE, stage |-> [s \in Range(STAGES) |-> "none"],
   final |-> "none"]

AuthorityInit ==
  /\ target \in [Nonce -> Task]
  /\ task = [t \in Task |-> [owner |-> NoNonce, stage |-> "OPEN", version |-> 0]]
  /\ worker = FALSE
  /\ approval = [n \in Nonce |-> [outcome |-> "none", context_closed |-> FALSE]]
  /\ marker = NoNonce /\ receipts = {} /\ tombstone = {}
  /\ journal = [n \in Nonce |-> EmptyJournal]
  /\ hold = [n \in Nonce |-> "none"]
  /\ seen = [n \in Nonce |-> 0]
  /\ browser = [n \in Nonce |-> "none"]
  /\ done = [n \in Nonce |-> [e \in Effects |-> 0]]

-----------------------------------------------------------------------------
(* Guards.                                                                 *)

OpenRow(n) == approval[n].outcome # "none" /\ ~approval[n].context_closed

PreparationInFlight == marker # NoNonce \/ \E n \in Nonce : OpenRow(n)

\* prepare_task(): the task is one that a preparation can be made for.
Preparable(n) == task[target[n]].stage # "STOPPED"

\* The profile and the resume, held open, are the files the offer names.
FilesUnchanged(n) == task[target[n]].version = seen[n]

Material(n) == Preparable(n) /\ FilesUnchanged(n)

\* verify() of the owned process identity: what the child launched still runs.
Owned(n) == browser[n] = "alive"

\* The independent proof that nothing of it runs any more.
Absent(n) == browser[n] # "alive"

\* Mutant: another approval's marker is not looked at.
AdmissibleUnmarked(n) ==
  /\ hold[n] = "pending" /\ Material(n) /\ n \notin receipts \cup tombstone
  /\ ~worker /\ approval[n].outcome = "none"
  /\ \A m \in Nonce :
       /\ ~OpenRow(m)
       /\ target[m] = target[n] => approval[m].outcome \notin {"ATTEMPTED", "UNKNOWN"}

\* consume(): nothing may have used this nonce, this task's form or the
\* one place for a preparation.
Admissible(n) ==
  /\ hold[n] = "pending" /\ Material(n)
  /\ marker = NoNonce /\ n \notin receipts \cup tombstone
  /\ ~worker
  /\ approval[n].outcome = "none"
  /\ \A m \in Nonce :
       /\ ~OpenRow(m)
       /\ target[m] = target[n] =>
            /\ approval[m].outcome \notin {"ATTEMPTED", "UNKNOWN"}
            /\ \A f \in Range(Plan) : journal[m].field[f] = "none"

\* The task is still the one this preparation took.
OwnsTask(n) ==
  LET t == task[target[n]]
  IN t.owner = n /\ t.stage = "PREPARATION" /\ t.version = seen[n]

\* guard(): may the next field be typed?
Permitted(n) ==
  /\ hold[n] = "active" /\ OwnsTask(n) /\ OpenRow(n)
  /\ approval[n].outcome \in {"ATTEMPTED", "PREPARED"}

AllReadBack(n) ==
  /\ journal[n].run = "RETURNED"
  /\ \A f \in Range(Plan) : journal[n].field[f] = "READBACK"

\* _prepared_task(): the retained proof; it does not ask for a live permit.
PreparedTask(n) ==
  /\ hold[n] = "active" /\ OpenRow(n) /\ approval[n].outcome = "PREPARED"
  /\ OwnsTask(n) /\ AllReadBack(n)

\* ResumeUploadJournal._rows(), once the upload was approved.
UploadRows(n) ==
  /\ PreparedTask(n) /\ FilesUnchanged(n) /\ journal[n].final = "none"
  /\ journal[n].upload = "ATTEMPTED"
  /\ \A s \in Range(STAGES) : journal[n].stage[s] # "UNKNOWN"

StagesReturned(n, k) ==
  \A i \in DOMAIN STAGES :
    journal[n].stage[STAGES[i]] = IF i <= k THEN "RETURNED" ELSE "none"

\* PreparationFinalJournal._rows(): a resume that is part of the profile must
\* have been uploaded.
FinalRows(n) ==
  /\ PreparedTask(n)
  /\ (HasResume \/ journal[n].upload # "none") =>
       /\ journal[n].upload = "RETURNED" /\ journal[n].selected
       /\ StagesReturned(n, 3)

-----------------------------------------------------------------------------
(* Transactions.  Each says what becomes of the durable state.            *)

Issue(n) ==
  /\ Preparable(n)
  /\ hold' = [hold EXCEPT ![n] = "pending"]
  /\ seen' = [seen EXCEPT ![n] = task[target[n]].version]

\* The marker is a file: it is there before the row, and stays when the
\* transaction is not committed or nobody learns that it was.
ConsumeMarker(n) == marker' = n

ConsumeRow(n) ==
  /\ approval' = [approval EXCEPT ![n].outcome = "ATTEMPTED"]
  /\ task' = [task EXCEPT ![target[n]].owner = n,
                          ![target[n]].stage = "PREPARATION"]

Retired(o) == IF o = "ATTEMPTED" THEN "UNKNOWN" ELSE o

\* _retire_resume_requests() and the two updates next to its calls.
RetiredJournal(j) ==
  [j EXCEPT !.upload = Retired(@),
            !.stage = [s \in DOMAIN @ |-> Retired(@[s])],
            !.field = [f \in DOMAIN @ |-> IF @[f] = "none" THEN "none" ELSE "UNKNOWN"],
            !.run = IF @ = "none" THEN "none" ELSE "UNKNOWN"]

\* Mutant: the owner becomes a value no owner has.
FreedTaskToForeign(n) ==
  [task EXCEPT ![target[n]].owner = IF @ = n THEN Foreign ELSE @]

FreedTask(n) ==
  [task EXCEPT ![target[n]].owner = IF @ = n THEN NoNonce ELSE @]

\* The rows that finish() and reconcile_closed_context() write once the
\* browser is known to be gone.
CloseRows(n) ==
  /\ approval' = [approval EXCEPT ![n] = [outcome |-> "UNKNOWN", context_closed |-> TRUE]]
  /\ journal' = [journal EXCEPT ![n] = [RetiredJournal(journal[n]) EXCEPT !.final = Retired(@)]]
  /\ task' = FreedTask(n)

\* _clear_marker(): the file is renamed, never unlinked.
ClearMarker(n) ==
  /\ marker = n
  /\ marker' = NoNonce /\ receipts' = receipts \cup {n}

\* ... and when the rename cannot be verified a sentinel takes its place.
ClearMarkerFails(n) ==
  /\ marker = n
  /\ marker' \in {n, Foreign}
  /\ receipts' = IF marker' = n THEN receipts ELSE receipts \cup {n}

FinishClosed(n) ==
  /\ OpenRow(n)
  /\ \/ ClearMarker(n) /\ CloseRows(n)
     \* the rename was done, the commit was not
     \/ ClearMarker(n) /\ UNCHANGED <<approval, journal, task>>
     \/ ClearMarkerFails(n) /\ UNCHANGED <<approval, journal, task>>
  /\ UNCHANGED tombstone

FinishOpen(n, outcome) ==
  /\ OpenRow(n)
  /\ approval[n].outcome = "UNKNOWN" => outcome = "UNKNOWN"
  /\ approval' = [approval EXCEPT ![n].outcome = outcome]
  /\ journal' = [journal EXCEPT ![n] =
                   IF outcome = "UNKNOWN" THEN RetiredJournal(@) ELSE @]
  /\ UNCHANGED <<task, marker, receipts, tombstone>>

\* Another process that can prove the browser absent closes the books; what
\* the process of the approval has in memory stays there.
ReconcileClosedContext(n) ==
  /\ Absent(n)
  /\ \/ /\ OpenRow(n) /\ marker \in {n, NoNonce}
        /\ CloseRows(n) /\ UNCHANGED tombstone
     \/ /\ approval[n].outcome = "none" /\ marker = n
        /\ tombstone' = tombstone \cup {n}
        /\ UNCHANGED <<approval, journal, task>>
  /\ IF marker = n THEN ClearMarker(n) ELSE UNCHANGED <<marker, receipts>>
  /\ UNCHANGED <<target, worker, held, browser, done>>

\* PreparationJournal
BeginRun(n) ==
  /\ Permitted(n) /\ approval[n].outcome = "ATTEMPTED" /\ journal[n].run = "none"
  /\ journal' = [journal EXCEPT ![n].run = "ATTEMPTED"]

BeginField(n, f) ==
  /\ Permitted(n) /\ journal[n].run = "ATTEMPTED" /\ journal[n].field[f] = "none"
  /\ journal' = [journal EXCEPT ![n].field[f] = "ATTEMPTED"]

FinishField(n, f) ==
  /\ journal[n].field[f] = "ATTEMPTED"
  /\ journal' = [journal EXCEPT ![n].field[f] = "READBACK"]

CompleteRun(n) ==
  /\ Permitted(n) /\ journal[n].run = "ATTEMPTED"
  /\ journal' = [journal EXCEPT ![n].run = "RETURNED"]

\* Mutant: the intents of an interrupted run are rolled back.
RolledBackRun(j) == [j EXCEPT !.run = "none", !.field = EmptyJournal.field]

\* invalidate() works when the lease is gone.
InvalidatedRun(j) ==
  [j EXCEPT !.run = IF @ = "none" THEN @ ELSE "UNKNOWN",
            !.field = [f \in DOMAIN @ |-> IF @[f] = "none" THEN @[f] ELSE "UNKNOWN"]]

\* ResumeUploadJournal
ApproveUpload(n) ==
  /\ PreparedTask(n) /\ journal[n].final = "none" /\ journal[n].upload = "none"
  /\ journal' = [journal EXCEPT ![n].upload = "ATTEMPTED"]

BeginSelection(n) ==
  /\ UploadRows(n) /\ ~journal[n].selected
  /\ journal' = [journal EXCEPT ![n].selected = TRUE]

BeginStage(n, k) ==
  /\ UploadRows(n) /\ journal[n].selected /\ StagesReturned(n, k - 1)
  /\ journal' = [journal EXCEPT ![n].stage[STAGES[k]] = "ATTEMPTED"]

RecordStage(n, k) ==
  /\ journal[n].stage[STAGES[k]] \in {"ATTEMPTED", "UNKNOWN"}
  /\ journal' = [journal EXCEPT ![n] =
       IF UploadRows(n) /\ @.stage[STAGES[k]] = "ATTEMPTED"
       THEN [@ EXCEPT !.stage[STAGES[k]] = "RETURNED"]
       ELSE [@ EXCEPT !.stage[STAGES[k]] = "UNKNOWN", !.upload = "UNKNOWN"]]

\* finish() of an upload that is to be RETURNED.
FinishUpload(n) ==
  journal' = [journal EXCEPT ![n].upload =
                IF UploadRows(n) /\ journal[n].selected /\ StagesReturned(n, 3)
                THEN "RETURNED" ELSE "UNKNOWN"]

\* finish('UNKNOWN_OUTCOME')
LostUpload(j) ==
  [j EXCEPT !.upload = "UNKNOWN", !.stage = [s \in DOMAIN @ |-> Retired(@[s])]]

\* PreparationFinalJournal
ConsumeFinal(n) ==
  /\ FinalRows(n) /\ Material(n) /\ journal[n].final = "none"
  /\ journal' = [journal EXCEPT ![n].final = "ATTEMPTED"]

RecordFinal(n, returned) ==
  journal' = [journal EXCEPT ![n].final =
                IF returned /\ @ # "UNKNOWN" /\ FinalRows(n) THEN "RETURNED" ELSE "UNKNOWN"]

-----------------------------------------------------------------------------
(* The rest of the queue, as far as a preparation sees it.                 *)

WorkerClaims ==
  /\ ~worker /\ ~PreparationInFlight
  /\ worker' = TRUE
  /\ UNCHANGED <<target, task, approval, marker, receipts, tombstone, journal,
                 held, browser, done>>

WorkerReturns ==
  /\ worker /\ worker' = FALSE
  /\ UNCHANGED <<target, task, approval, marker, receipts, tombstone, journal,
                 held, browser, done>>

\* A file of the task changes, or the user pauses or cancels it.
TaskChanges(t) ==
  /\ task[t].version < MaxVersion
  /\ \/ task' = [task EXCEPT ![t].version = @ + 1]
     \/ task' = [task EXCEPT ![t] = [owner |-> NoNonce, stage |-> "STOPPED",
                                     version |-> @.version + 1]]
  /\ UNCHANGED <<target, worker, approval, marker, receipts, tombstone, journal,
                 held, browser, done>>

=============================================================================
