------------------------------ MODULE TaskQueue ------------------------------
(***************************************************************************)
(* The durable task queue, executor/autonomy/queue.py.  Every method runs  *)
(* in one BEGIN IMMEDIATE transaction, so every action below is one method *)
(* called by anybody: the worker thread, a stale worker whose lease is     *)
(* gone, an HTTP handler, the manager, the preparation authority.  Only    *)
(* the calls that change rows are actions; a call the code refuses raises  *)
(* and changes nothing.                                                    *)
(*                                                                         *)
(* Time is abstract.  The only facts the code derives from the clock are   *)
(* "lease_until > now" (field live) and "next_run <= now" (field due), so  *)
(* a lease may expire and a backoff may elapse at any moment.  renew()     *)
(* keeps a live lease live and is therefore a stuttering step.             *)
(*                                                                         *)
(* A revision is abstract too.  It only grows, and is only compared with   *)
(* the revision a client read: known[c] is the task whose current revision *)
(* client c holds, and the next event on that task makes the client stale. *)
(* A command id that was already executed is answered from its receipt and *)
(* changes nothing.                                                        *)
(*                                                                         *)
(* A definition marked "faulty" is no part of the specification: it is a   *)
(* plausible mistake in the definition after it, and each property below   *)
(* fails when one of them takes that definition's place.                   *)
(***************************************************************************)
EXTENDS Naturals, Sequences

CONSTANTS
  Task,          \* exact application targets: the idempotency key of a task
  Profile,       \* canonical applicant profile files
  profile_ref,   \* the profile a task reads
  max_attempts,  \* TaskSpec.max_attempts of every task
  Owner,         \* lease tokens: worker + ":" + uuid4
  Attempt,       \* ids of run attempts
  Client,        \* senders of revision-fenced control commands
  Landing,       \* tasks enqueued at a landing page, not at an exact job
  Preparable,    \* tasks whose target matches the preparation contract
  Reports,       \* the <<stage, blocker>> pairs the worker checkpoints: what
                 \* outcome() and the browser guard produce, never CANCELLED
  NoTask, NoOwner, NoAttempt

SAFE_STAGES == {"DISCOVERED", "PROFILE_RESOLVED", "FORM_FILLED", "VALIDATED"}
HUMAN_WAITS == {"NEEDS_USER_INPUT", "NEEDS_USER_ACTION"}
STOPPED == {"READY_TO_SUBMIT", "SUBMITTED", "VERIFIED", "CANCELLED"}
STAGES == SAFE_STAGES \cup HUMAN_WAITS \cup STOPPED \cup {"BLOCKED", "ERROR"}

RECONCILIATION_REQUIRED ==
  {"browser_ownership_unknown", "unknown_outcome", "auth_return_unverified",
   "account_identity_unverified", "draft_persistence_unverified",
   "attachment_persistence_unverified", "form_observation_unavailable",
   "row_reconciliation_unverified", "anonymous_preparation_unverified"}
OTP_WAITS == {"otp_waiting", "otp_ambiguous"}
RETRYABLE_BLOCKS == {"session_unavailable", "validation"}

\* What checkpoint() accepts, what other methods write, "none" for NULL, and
\* the origin of a paused wait ("user_paused_from_input" is paused + "input").
CHECKPOINT_BLOCKERS ==
  {"none", "unknown_facts", "security_challenge", "retry_pending",
   "retry_exhausted", "live_not_authorized", "protected_target",
   "target_mismatch", "isolated_external_target"}
  \cup OTP_WAITS \cup RETRYABLE_BLOCKS \cup RECONCILIATION_REQUIRED
BLOCKERS == CHECKPOINT_BLOCKERS
            \cup {"input", "action", "profile_changed", "profile_promotion_pending"}

UNRESOLVED == {"ATTEMPTED", "UNKNOWN_OUTCOME"}
OUTCOMES == UNRESOLVED \cup {"RETURNED_UNVERIFIED"}

ASSUME ConstantsAssumption ==
  /\ profile_ref \in [Task -> Profile]
  /\ max_attempts \in Nat \ {0}
  /\ Landing \subseteq Task /\ Preparable \subseteq Task \ Landing
  /\ Reports \subseteq (STAGES \ {"SUBMITTED", "VERIFIED", "CANCELLED"}) \X CHECKPOINT_BLOCKERS
  /\ NoTask \notin Task /\ NoOwner \notin Owner /\ NoAttempt \notin Attempt

\* outcome() and the exception handlers of the worker report these as BLOCKED.
ASSUME ReportsAssumption ==
  \A report \in Reports : report[2] \in RECONCILIATION_REQUIRED => report[1] = "BLOCKED"

VARIABLES
  row,        \* tasks table
  created,    \* the tasks enqueued so far, ORDER BY created
  runs,       \* run_attempts table
  barrier,    \* profile_write_barriers table
  reusable,   \* tasks with a reusable answer in task_answer_events
  prep,       \* preparation_approvals table (with the marker file)
  protected,  \* targets in the protected-target registry file
  landing,    \* tasks whose target still is a landing page
  known       \* the task of which a client holds the current revision

vars == <<row, created, runs, barrier, reusable, prep, protected, landing, known>>

Row == [stage : STAGES \cup {"ABSENT"}, checkpoint : SAFE_STAGES,
        blocker : BLOCKERS, paused : BOOLEAN, attempts : 0 .. max_attempts,
        owner : Owner \cup {NoOwner}, live : BOOLEAN, due : BOOLEAN]
Run == [task : Task \cup {NoTask}, owner : Owner \cup {NoOwner},
        outcome : OUTCOMES \cup {"NONE"}]
Approval == [state : {"none", "open", "closed"}, owner : Owner \cup {NoOwner},
             attempt : Attempt \cup {NoAttempt},
             outcome : {"ATTEMPTED", "PREPARED_UNVERIFIED", "UNKNOWN_OUTCOME"}]

NoRow == [stage |-> "ABSENT", checkpoint |-> "DISCOVERED", blocker |-> "none",
          paused |-> FALSE, attempts |-> 0, owner |-> NoOwner,
          live |-> FALSE, due |-> TRUE]
NoRun == [task |-> NoTask, owner |-> NoOwner, outcome |-> "NONE"]
NoApproval == [state |-> "none", owner |-> NoOwner, attempt |-> NoAttempt,
               outcome |-> "ATTEMPTED"]

Init ==
  /\ row = [t \in Task |-> NoRow]
  /\ created = <<>>
  /\ runs = [a \in Attempt |-> NoRun]
  /\ barrier = [p \in Profile |-> NoTask]
  /\ reusable = {}
  /\ prep = [t \in Task |-> NoApproval]
  /\ protected = {}
  /\ landing = Landing
  /\ known = [c \in Client |-> NoTask]

-----------------------------------------------------------------------------
Exists(t) == row[t].stage # "ABSENT"
Live(t) == row[t].live
NobodyRunning == \A t \in Task : ~(Live(t) /\ row[t].stage \in SAFE_STAGES)   \* faulty
NobodyLive == \A t \in Task : ~Live(t)
Unresolved(t) == {a \in Attempt : runs[a].task = t /\ runs[a].outcome \in UNRESOLVED}
PreparationInFlight == \E t \in Task : prep[t].state = "open"
PreparationLease(t) == prep[t].state = "open" /\ row[t].owner = prep[t].owner
WorkerLease(t) == Live(t) /\ ~PreparationLease(t)
Runnable(r) == r.stage \in SAFE_STAGES \/ (r.stage = "ERROR" /\ r.blocker = "retry_pending")
\* uuid4 and token_hex never repeat a token that is still written anywhere.
FreshOwner(o) ==
  /\ \A t \in Task : row[t].owner # o /\ prep[t].owner # o
  /\ \A a \in Attempt : runs[a].owner # o
Older(u, t) == \E i, j \in 1 .. Len(created) : i < j /\ created[i] = u /\ created[j] = t

\* _event(): every transition of a task bumps its revision.
Event(S) ==
  known' = [c \in Client |-> IF known[c] \in S THEN NoTask ELSE known[c]]

OwnerCleared(r) == [r EXCEPT !.owner = NoOwner]   \* faulty
Unleased(r) == [r EXCEPT !.owner = NoOwner, !.live = FALSE]
Settle(r, stage, blocker) ==
  [Unleased(r) EXCEPT !.stage = stage, !.blocker = blocker, !.paused = FALSE]

-----------------------------------------------------------------------------
\* The clock passes lease_until, because nobody renewed, or next_run.
LeaseExpires(t) ==
  /\ Live(t)
  /\ row' = [row EXCEPT ![t].live = FALSE]
  /\ UNCHANGED <<created, runs, barrier, reusable, prep, protected, landing, known>>

BackoffElapses(t) ==
  /\ ~row[t].due
  /\ row' = [row EXCEPT ![t].due = TRUE]
  /\ UNCHANGED <<created, runs, barrier, reusable, prep, protected, landing, known>>

\* A second enqueue of the same target returns the existing row.
Enqueue(t) ==
  /\ ~Exists(t)
  /\ t \notin protected
  /\ row' = [row EXCEPT ![t] = [NoRow EXCEPT !.stage = "DISCOVERED"]]
  /\ created' = Append(created, t)
  /\ Event({t})
  /\ UNCHANGED <<runs, barrier, reusable, prep, protected, landing>>

RetargetSameOriginLanding(t) ==
  /\ Exists(t) /\ t \in landing /\ t \notin protected
  /\ ~Live(t) /\ row[t].stage \notin STOPPED
  /\ \A a \in Attempt : runs[a].task # t
  /\ row' = [row EXCEPT ![t] = [NoRow EXCEPT !.stage = "DISCOVERED"]]
  /\ landing' = landing \ {t}
  /\ Event({t})
  /\ UNCHANGED <<created, runs, barrier, reusable, prep, protected>>

-----------------------------------------------------------------------------
\* claim().  The first statement frees expired owners of rows that wait for
\* a human; it commits even when a live lease then makes claim() return None.
StaleWait(r) ==
  r.owner # NoOwner /\ ~r.live
  /\ r.stage \in HUMAN_WAITS \cup {"BLOCKED", "READY_TO_SUBMIT", "CANCELLED"}
Freed(t) == IF StaleWait(row[t]) THEN Unleased(row[t]) ELSE row[t]

Eligible(t) ==
  /\ Exists(t) /\ ~Live(t) /\ row[t].due
  /\ barrier[profile_ref[t]] = NoTask
  /\ Runnable(row[t])
Uncertain(t) == Eligible(t) /\ Unresolved(t) # {}
Exhausted(t) == Eligible(t) /\ Unresolved(t) = {} /\ row[t].attempts >= max_attempts
ClaimableDespiteAttempt(t) == Eligible(t) /\ row[t].attempts < max_attempts   \* faulty
Claimable(t) == Eligible(t) /\ Unresolved(t) = {} /\ row[t].attempts < max_attempts

\* The rows the scan passes on its way: an uncertain one is blocked, with its
\* attempt, and an exhausted one fails.
Passed(S, t) ==
  IF t \in S /\ Uncertain(t) THEN Settle(row[t], "BLOCKED", "unknown_outcome")
  ELSE IF t \in S /\ Exhausted(t) THEN Settle(row[t], "ERROR", "retry_exhausted")
  ELSE Freed(t)
RunsAfterScan(S) ==
  [a \in Attempt |->
     IF \E t \in S : Uncertain(t) /\ a \in Unresolved(t)
     THEN [runs[a] EXCEPT !.outcome = "UNKNOWN_OUTCOME"] ELSE runs[a]]
UncertainEvents(S) == {t \in S : Uncertain(t)}   \* faulty
ScanEvents(S) == {t \in S : Uncertain(t) \/ Exhausted(t)}

ClaimBusy ==
  /\ ~PreparationInFlight /\ ~NobodyLive
  /\ row' = [t \in Task |-> Freed(t)]
  /\ UNCHANGED <<created, runs, barrier, reusable, prep, protected, landing, known>>

ClaimNothing ==
  /\ ~PreparationInFlight /\ NobodyLive
  /\ \A t \in Task : ~Claimable(t)
  /\ row' = [t \in Task |-> Passed(Task, t)]
  /\ runs' = RunsAfterScan(Task)
  /\ Event(ScanEvents(Task))
  /\ UNCHANGED <<created, barrier, reusable, prep, protected, landing>>

ClaimTask(t, o) ==
  LET older == {u \in Task : Older(u, t)} IN
  /\ ~PreparationInFlight /\ NobodyLive
  /\ Claimable(t) /\ \A u \in older : ~Claimable(u)
  /\ FreshOwner(o)
  /\ row' = [u \in Task |->
               IF u = t THEN [row[t] EXCEPT !.owner = o, !.live = TRUE,
                                !.attempts = @ + 1, !.stage = row[t].checkpoint]
               ELSE Passed(older, u)]
  /\ runs' = RunsAfterScan(older)
  /\ Event(ScanEvents(older) \cup {t})
  /\ UNCHANGED <<created, barrier, reusable, prep, protected, landing>>

-----------------------------------------------------------------------------
\* A worker writes its progress.  Its token must still own a live lease, so a
\* stale worker can only fail here.
Checkpoint(t, report, release) ==
  LET stage == report[1] blocker == report[2] IN
  /\ WorkerLease(t)
  /\ row[t].stage \notin STOPPED
  /\ row' = [row EXCEPT ![t] =
       [(IF release THEN Unleased(row[t]) ELSE row[t]) EXCEPT
          !.stage = stage, !.blocker = blocker, !.paused = FALSE,
          !.checkpoint = IF stage \in SAFE_STAGES THEN stage ELSE @,
          !.due = blocker # "retry_pending"]]
  /\ Event({t})
  /\ UNCHANGED <<created, runs, barrier, reusable, prep, protected, landing>>

BeginRunAttempt(t, a) ==
  /\ WorkerLease(t)
  /\ Unresolved(t) = {}
  /\ runs[a] = NoRun
  /\ runs' = [runs EXCEPT ![a] =
       [task |-> t, owner |-> row[t].owner, outcome |-> "ATTEMPTED"]]
  /\ UNCHANGED <<row, created, barrier, reusable, prep, protected, landing, known>>

\* No lease is asked for: a worker that lost its lease still reports.
FinishRunAttempt(a, outcome) ==
  /\ runs[a].outcome = "ATTEMPTED"
  /\ runs' = [runs EXCEPT ![a].outcome = outcome]
  /\ UNCHANGED <<row, created, barrier, reusable, prep, protected, landing, known>>

\* confirm_human_submission(): the registry file is written first, and the
\* SQLite commit may be lost (saved = FALSE).
ConfirmHumanSubmission(t, saved) ==
  /\ row[t].stage = "READY_TO_SUBMIT" /\ row[t].owner = NoOwner
  /\ t \notin landing
  /\ protected' = protected \cup {t}
  /\ IF saved
     THEN /\ row' = [row EXCEPT ![t] =
               [row[t] EXCEPT !.stage = "SUBMITTED", !.blocker = "none", !.paused = FALSE]]
          /\ Event({t})
     ELSE UNCHANGED <<row, known>>
  /\ UNCHANGED <<created, runs, barrier, reusable, prep, landing>>

-----------------------------------------------------------------------------
\* The transitions of _resume_in_tx(), pause() and cancel().
ResumeDespiteRegistry(t) ==   \* faulty: the registry is not asked again
  /\ Exists(t) /\ ~Live(t) /\ row[t].stage \notin STOPPED
  /\ prep[t].state = "none"
  /\ row[t].blocker \notin RECONCILIATION_REQUIRED
  /\ Unresolved(t) = {}
ResumeAllowed(t) ==
  /\ Exists(t) /\ ~Live(t) /\ row[t].stage \notin STOPPED
  /\ ~(row[t].stage = "ERROR" /\ row[t].attempts >= max_attempts)
  /\ prep[t].state = "none"
  /\ row[t].blocker \notin RECONCILIATION_REQUIRED
  /\ Unresolved(t) = {}
  /\ t \notin protected

ForgivesAttempts(r) ==
  \/ r.stage \in HUMAN_WAITS
  \/ r.stage = "BLOCKED" /\ r.blocker \in RETRYABLE_BLOCKS
  \/ r.stage = "BLOCKED" /\ r.paused /\ r.blocker \in OTP_WAITS \cup {"input", "action"}
  \/ r.stage = "BLOCKED" /\ r.blocker \in {"profile_changed", "profile_promotion_pending"}

ResumedRow(r) ==
  [Unleased(r) EXCEPT !.stage = r.checkpoint, !.blocker = "none", !.paused = FALSE,
     !.attempts = IF ForgivesAttempts(r) THEN 0 ELSE @, !.due = TRUE]

PauseAnything(t) == Exists(t) /\ row[t].stage \notin {"SUBMITTED", "CANCELLED"}   \* faulty
PauseAllowed(t) ==
  /\ Exists(t) /\ row[t].stage \notin STOPPED
  /\ ~(row[t].stage = "ERROR" /\ row[t].blocker = "retry_exhausted")

\* Which wait a pause interrupts, so that a later resume treats it alike.
PauseOriginOfWait(r) ==   \* faulty: a pause forgets a needed reconciliation
  IF r.stage = "NEEDS_USER_INPUT" THEN "input"
  ELSE IF r.stage = "NEEDS_USER_ACTION" THEN "action" ELSE "none"
PauseOrigin(r) ==
  CASE r.stage = "BLOCKED" /\ r.paused -> r.blocker
    [] r.stage = "BLOCKED" /\ ~r.paused
         /\ r.blocker \in RETRYABLE_BLOCKS \cup RECONCILIATION_REQUIRED -> r.blocker
    [] r.stage = "NEEDS_USER_ACTION" /\ r.blocker \in OTP_WAITS -> r.blocker
    [] r.stage = "NEEDS_USER_ACTION" /\ r.blocker \notin OTP_WAITS -> "action"
    [] r.stage = "NEEDS_USER_INPUT" -> "input"
    [] OTHER -> "none"

PausedRow(t) ==
  [Settle(row[t], "BLOCKED", PauseOrigin(row[t])) EXCEPT !.paused = TRUE, !.due = TRUE,
     !.attempts = IF WorkerLease(t) /\ @ > 0 THEN @ - 1 ELSE @]

Resume(t) ==
  /\ ResumeAllowed(t)
  /\ row' = [row EXCEPT ![t] = ResumedRow(row[t])]
  /\ Event({t})
  /\ UNCHANGED <<created, runs, barrier, reusable, prep, protected, landing>>

Pause(t) ==
  /\ PauseAllowed(t)
  /\ row' = [row EXCEPT ![t] = PausedRow(t)]
  /\ Event({t})
  /\ UNCHANGED <<created, runs, barrier, reusable, prep, protected, landing>>

Cancel(t) ==
  /\ Exists(t) /\ row[t].stage \notin {"SUBMITTED", "VERIFIED"}
  /\ row' = [row EXCEPT ![t] = [Unleased(row[t]) EXCEPT !.stage = "CANCELLED"]]
  /\ Event({t})
  /\ UNCHANGED <<created, runs, barrier, reusable, prep, protected, landing>>

\* A client reads a task and its revision.  control() is Pause, Resume or
\* Cancel on the further condition known[c] = t, so it adds no behaviour to
\* the unfenced calls of the HTTP routes, the worker and the OTP watcher.
ReadTask(c, t) ==
  /\ Exists(t) /\ known[c] # t
  /\ known' = [known EXCEPT ![c] = t]
  /\ UNCHANGED <<row, created, runs, barrier, reusable, prep, protected, landing>>

-----------------------------------------------------------------------------
\* Whoever read a reusable answer of t may promote it, however late: two
\* threads promote concurrently (ProfilePromotion has their steps).
BeginProfileWrite(t) ==
  LET p == profile_ref[t]
      hit == {u \in Task \ {t} : profile_ref[u] = p /\ Exists(u)
                /\ row[u].stage \notin {"SUBMITTED", "VERIFIED", "CANCELLED"}} IN
  /\ t \in reusable
  /\ barrier[p] \in {NoTask, t}
  /\ barrier' = [barrier EXCEPT ![p] = t]
  /\ row' = [u \in Task |->
       IF u \in hit
       THEN [Settle(row[u], "BLOCKED", "profile_changed") EXCEPT !.checkpoint = "DISCOVERED"]
       ELSE row[u]]
  /\ Event(hit)
  /\ UNCHANGED <<created, runs, reusable, prep, protected, landing>>

\* AnswerStore.save_and_resume(remember=True), and the end of the promotion:
\* mark_reuse_applied() resumes the task unless the user paused or cancelled it,
\* and releases the barrier in the same transaction.
SaveReusableAnswer(t) ==
  /\ row[t].stage = "NEEDS_USER_INPUT" /\ row[t].owner = NoOwner
  /\ row' = [row EXCEPT ![t] =
       [row[t] EXCEPT !.stage = "BLOCKED", !.blocker = "profile_promotion_pending"]]
  /\ reusable' = reusable \cup {t}
  /\ Event({t})
  /\ UNCHANGED <<created, runs, barrier, prep, protected, landing>>

FinishProfileWrite(t) ==
  /\ t \in reusable /\ barrier[profile_ref[t]] \in {NoTask, t}
  /\ \/ /\ row[t].stage = "BLOCKED" /\ ~row[t].paused
        /\ row[t].blocker \in {"profile_promotion_pending", "profile_changed"}
        /\ ResumeAllowed(t)
        /\ row' = [row EXCEPT ![t] = ResumedRow(row[t])]
        /\ Event({t})
     \/ /\ row[t].stage = "CANCELLED" \/ row[t].paused
        /\ UNCHANGED <<row, known>>
  /\ barrier' = [barrier EXCEPT ![profile_ref[t]] = NoTask]
  /\ UNCHANGED <<created, runs, reusable, prep, protected, landing>>

-----------------------------------------------------------------------------
\* The preparation authority leases a task of its own: consume() is a claim
\* that no worker lease, no other preparation and no unsettled attempt, OTP
\* wait or profile write may accompany.
ConsumePreparation(t, o) ==
  /\ Exists(t) /\ t \in Preparable /\ row[t].stage \notin STOPPED
  /\ NobodyLive /\ ~PreparationInFlight
  /\ prep[t].state = "none"
  /\ \A u \in Task : ~(row[u].blocker \in OTP_WAITS /\ Exists(u))
  /\ \A a \in Attempt : runs[a].outcome \in UNRESOLVED =>
        \E u \in Task : prep[u].state = "closed" /\ prep[u].attempt = a
  /\ barrier[profile_ref[t]] = NoTask
  /\ FreshOwner(o)
  /\ prep' = [prep EXCEPT ![t] = [state |-> "open", owner |-> o, attempt |-> NoAttempt,
                                  outcome |-> "ATTEMPTED"]]
  /\ row' = [row EXCEPT ![t] = [Settle(row[t], "BLOCKED", "anonymous_preparation_unverified")
                                  EXCEPT !.owner = o, !.live = TRUE]]
  /\ Event({t})
  /\ UNCHANGED <<created, runs, barrier, reusable, protected, landing>>

\* PreparationJournal.__init__
BeginPreparationAttempt(t, a) ==
  /\ PreparationLease(t) /\ Live(t)
  /\ prep[t].attempt = NoAttempt /\ prep[t].outcome = "ATTEMPTED"
  /\ runs[a] = NoRun
  /\ runs' = [runs EXCEPT ![a] =
       [task |-> t, owner |-> prep[t].owner, outcome |-> "ATTEMPTED"]]
  /\ prep' = [prep EXCEPT ![t].attempt = a]
  /\ UNCHANGED <<row, created, barrier, reusable, protected, landing, known>>

\* finish() and reconcile_closed_context(): the outcome is PREPARED only with
\* the lease still live and a returned attempt, and the lease ends only when
\* the browser context is known to be closed.  No event: the row is not
\* requeued, and a pause or cancel in between is kept.
FinishPreparation(t, outcome, context_closed) ==
  LET a == prep[t].attempt IN
  /\ prep[t].state = "open"
  /\ outcome = "PREPARED_UNVERIFIED" =>
       /\ prep[t].outcome # "UNKNOWN_OUTCOME"
       /\ Live(t) /\ PreparationLease(t)
       /\ a # NoAttempt /\ runs[a].outcome = "RETURNED_UNVERIFIED"
  /\ runs' = IF outcome = "UNKNOWN_OUTCOME" /\ a # NoAttempt
             THEN [runs EXCEPT ![a].outcome = "UNKNOWN_OUTCOME"] ELSE runs
  /\ prep' = [prep EXCEPT ![t].outcome = outcome,
                          ![t].state = IF context_closed THEN "closed" ELSE "open"]
  /\ row' = IF context_closed /\ PreparationLease(t)
            THEN [row EXCEPT ![t] = Unleased(row[t])] ELSE row
  /\ UNCHANGED <<created, barrier, reusable, protected, landing, known>>

-----------------------------------------------------------------------------
Scheduling ==
  \/ ClaimBusy \/ ClaimNothing
  \/ \E t \in Task, o \in Owner : ClaimTask(t, o)
  \/ \E t \in Task : LeaseExpires(t) \/ BackoffElapses(t)
Working ==
  \/ \E t \in Task, report \in Reports, release \in BOOLEAN : Checkpoint(t, report, release)
  \/ \E t \in Task, a \in Attempt : BeginRunAttempt(t, a)
  \/ \E a \in Attempt, outcome \in {"RETURNED_UNVERIFIED", "UNKNOWN_OUTCOME"} :
       FinishRunAttempt(a, outcome)
Commanding ==
  \/ \E t \in Task : Enqueue(t) \/ RetargetSameOriginLanding(t)
  \/ \E t \in Task : Pause(t) \/ Resume(t) \/ Cancel(t)
  \/ \E t \in Task, saved \in BOOLEAN : ConfirmHumanSubmission(t, saved)
  \/ \E c \in Client, t \in Task : ReadTask(c, t)
Promoting ==
  \E t \in Task : SaveReusableAnswer(t) \/ BeginProfileWrite(t) \/ FinishProfileWrite(t)
Preparing ==
  \/ \E t \in Task, o \in Owner : ConsumePreparation(t, o)
  \/ \E t \in Task, a \in Attempt : BeginPreparationAttempt(t, a)
  \/ \E t \in Task, outcome \in {"PREPARED_UNVERIFIED", "UNKNOWN_OUTCOME"},
        closed \in BOOLEAN : FinishPreparation(t, outcome, closed)

Next == Scheduling \/ Working \/ Commanding \/ Promoting \/ Preparing

Spec == Init /\ [][Next]_vars

-----------------------------------------------------------------------------
\* Every table holds rows of its type; a live lease names its holder.
TypeOK ==
  /\ row \in [Task -> Row]
  /\ created \in Seq(Task)
  /\ runs \in [Attempt -> Run]
  /\ barrier \in [Profile -> Task \cup {NoTask}]
  /\ reusable \subseteq Task
  /\ prep \in [Task -> Approval]
  /\ protected \subseteq Task
  /\ landing \subseteq Task
  /\ known \in [Client -> Task \cup {NoTask}]
  /\ \A t \in Task : row[t].live => row[t].owner # NoOwner

\* "One live browser worker is supported": whatever expires, renews, pauses or
\* restarts, two tasks never hold a live lease at the same time (claim, consume).
OneLease == \A t, u \in Task : Live(t) /\ Live(u) => t = u

\* While an attempt of a task has no settled outcome, nobody else is let near
\* the site for that task: a live lease belongs to the attempt's own token
\* (claim, begin_run_attempt, _resume_in_tx, consume).
NoReplay ==
  \A t \in Task : Live(t) => \A a \in Unresolved(t) : runs[a].owner = row[t].owner

\* At most one attempt of a task is unsettled, so claim() may stop at LIMIT 1.
OneUnresolved == \A t \in Task : \A a, b \in Unresolved(t) : a = b

\* Once the human's submission is in the registry the task is never runnable
\* again, also when the SQLite commit after the registry write was lost.
ProtectedNeverRuns == \A t \in protected : ~Runnable(row[t]) /\ ~WorkerLease(t)

\* While a task promotes a fact into a profile nobody else works from the old
\* content of that profile (begin_profile_write, claim, consume).
BarrierFencesReaders ==
  \A t \in Task : barrier[profile_ref[t]] \notin {NoTask, t} => ~Live(t)

\* While a preparation context may be open no worker is admitted, whatever
\* happened to the preparation's own lease (claim, consume, pause, cancel).
PreparationExcludesWorkers ==
  \A u \in Task : prep[u].state = "open" => \A t \in Task : ~WorkerLease(t)

\* The queue never leaves the human boundary by itself: READY_TO_SUBMIT ends
\* in a confirmation, a cancel, or a new review after the profile changed; a
\* submitted or cancelled task stays so (_resume_in_tx, pause, claim, retarget).
HumanBoundaryHolds ==
  [][\A t \in Task :
       /\ row[t].stage = "READY_TO_SUBMIT" =>
            \/ row'[t].stage \in {"READY_TO_SUBMIT", "SUBMITTED", "CANCELLED"}
            \/ row'[t].stage = "BLOCKED" /\ row'[t].blocker = "profile_changed"
       /\ row[t].stage \in {"SUBMITTED", "CANCELLED"} => row'[t].stage = row[t].stage]_vars

\* A released task that needs reconciliation is not freed of that need by any
\* sequence of pauses, resumes, claims and sweeps: only a changed profile (or a
\* landing page resolved before anything ran) replaces its blocker.
ReconciliationSticks ==
  [][\A t \in Task :
       row[t].blocker \in RECONCILIATION_REQUIRED /\ ~Live(t)
         /\ row'[t].blocker \notin RECONCILIATION_REQUIRED =>
       row'[t].blocker = "profile_changed" \/ t \in landing \ landing']_vars

\* No task changes behind a client's back: whatever a step changes of a task's
\* stage, checkpoint, blocker or attempts, a revision read before that step no
\* longer passes the check (_event, _command_before).
View(r) == <<r.stage, r.checkpoint, r.blocker, r.paused, r.attempts>>
NoSilentChange ==
  [][\A t \in Task : View(row'[t]) # View(row[t]) =>
       \A c \in Client : known'[c] # t]_vars

-----------------------------------------------------------------------------
Holder == IF NobodyLive THEN NoTask ELSE CHOOSE t \in Task : Live(t)
Trust(t) ==
  IF \E a \in Unresolved(t) : runs[a].outcome = "UNKNOWN_OUTCOME" THEN "unknown"
  ELSE IF Unresolved(t) # {} THEN "open" ELSE "settled"

Access == INSTANCE SiteAccess WITH
  Nobody <- NoTask, holder <- Holder, trust <- [t \in Task |-> Trust(t)]

\* The queue implements SiteAccess: with leases that expire, stale workers that
\* still report, preparation leases, pauses and crashes, access is exclusive
\* and an unknown outcome is never worked on again or upgraded.
ImplementsSiteAccess == Access!Spec

=============================================================================
