--------------------------- MODULE TaskQueueProofs ---------------------------
(***************************************************************************)
(* Proofs about TaskQueue, for every set of tasks, profiles, owners,       *)
(* attempts and clients and for every retry budget.                        *)
(***************************************************************************)
EXTENDS TaskQueue, TLAPS

\* The defaults of the tasks table (__init__) are a row of its type.
LEMMA NoRowTyped == NoRow \in Row
BY ConstantsAssumption DEF NoRow, Row, SAFE_STAGES, BLOCKERS, CHECKPOINT_BLOCKERS

\* Clearing owner and lease_until leaves a row of its type that nobody holds.
LEMMA UnleasedTyped ==
  ASSUME NEW r \in Row
  PROVE  /\ Unleased(r) \in Row /\ ~Unleased(r).live
         /\ Unleased(r).owner = NoOwner
BY DEF Row, Unleased

\* The UPDATE that ends a task's work at a stage (claim's scan, pause,
\* begin_profile_write, consume) leaves a typed row that nobody holds.
LEMMA SettleTyped ==
  ASSUME NEW r \in Row, NEW s \in STAGES, NEW b \in BLOCKERS
  PROVE  Settle(r, s, b) \in Row /\ ~Settle(r, s, b).live /\ Settle(r, s, b).stage = s
BY DEF Row, Unleased, Settle

\* _resume_in_tx() leaves a typed row without a lease, at its safe checkpoint.
LEMMA ResumedTyped ==
  ASSUME NEW r \in Row
  PROVE  ResumedRow(r) \in Row /\ ~ResumedRow(r).live
<1> DEFINE n == IF ForgivesAttempts(r) THEN 0 ELSE Unleased(r).attempts
<1>1. Unleased(r) \in Row /\ ~Unleased(r).live
  BY UnleasedTyped
<1>2. "none" \in BLOCKERS
  BY DEF BLOCKERS, CHECKPOINT_BLOCKERS
<1>3. r.checkpoint \in STAGES
  BY DEF Row, STAGES
<1>4. n \in 0 .. max_attempts
  BY <1>1, ConstantsAssumption DEF Row
<1>5. ResumedRow(r) = [Unleased(r) EXCEPT !.stage = r.checkpoint, !.blocker = "none",
                         !.paused = FALSE, !.attempts = n, !.due = TRUE]
  BY DEF ResumedRow
<1> HIDE DEF n
<1> QED
  BY ZenonT(40), <1>1, <1>2, <1>3, <1>4, <1>5 DEF Row

\* pause() leaves a typed row without a lease; the refund of an attempt does
\* not go below zero.
LEMMA PausedTyped ==
  ASSUME TypeOK, NEW t \in Task
  PROVE  PausedRow(t) \in Row /\ ~PausedRow(t).live /\ PausedRow(t).stage = "BLOCKED"
<1> DEFINE s == Settle(row[t], "BLOCKED", PauseOrigin(row[t]))
           n == IF WorkerLease(t) /\ s.attempts > 0 THEN s.attempts - 1 ELSE s.attempts
<1>1. row[t] \in Row
  BY DEF TypeOK
<1>2. PauseOrigin(row[t]) \in BLOCKERS
  BY <1>1 DEF PauseOrigin, Row, BLOCKERS, CHECKPOINT_BLOCKERS, RETRYABLE_BLOCKS, OTP_WAITS
<1>3. s \in Row /\ ~s.live /\ s.stage = "BLOCKED"
  BY <1>1, <1>2, SettleTyped DEF STAGES
<1>4. n \in 0 .. max_attempts
  BY <1>3, ConstantsAssumption DEF Row
<1>5. PausedRow(t) = [s EXCEPT !.paused = TRUE, !.due = TRUE, !.attempts = n]
  BY DEF PausedRow
<1> HIDE DEF s, n
<1> QED
  BY <1>3, <1>4, <1>5 DEF Row

\* The first UPDATE of claim() only ends leases that are over.
LEMMA FreedTyped ==
  ASSUME TypeOK, NEW t \in Task
  PROVE  /\ Freed(t) \in Row
         /\ Freed(t).live => row[t].live /\ Freed(t).owner = row[t].owner
<1>1. row[t] \in Row
  BY DEF TypeOK
<1> QED
  BY <1>1, UnleasedTyped DEF Freed

\* A row that claim()'s scan passes stays typed, and gains no lease.
LEMMA PassedTyped ==
  ASSUME TypeOK, NEW S, NEW t \in Task
  PROVE  /\ Passed(S, t) \in Row
         /\ Passed(S, t).live => row[t].live /\ Passed(S, t).owner = row[t].owner
<1>1. row[t] \in Row
  BY DEF TypeOK
<1>2. {"unknown_outcome", "retry_exhausted"} \subseteq BLOCKERS /\ {"BLOCKED", "ERROR"} \subseteq STAGES
  BY DEF BLOCKERS, CHECKPOINT_BLOCKERS, RECONCILIATION_REQUIRED, STAGES
<1> QED
  BY <1>1, <1>2, FreedTyped, SettleTyped DEF Passed

\* The attempts claim() marks as unknown stay typed.
LEMMA RunsAfterScanTyped ==
  ASSUME TypeOK, NEW S
  PROVE  RunsAfterScan(S) \in [Attempt -> Run]
BY DEF TypeOK, RunsAfterScan, Run, OUTCOMES, UNRESOLVED

\* An event leaves every client with a task it knows or with none.
LEMMA EventTyped ==
  ASSUME TypeOK, NEW S, Event(S)
  PROVE  known' \in [Client -> Task \cup {NoTask}]
BY DEF TypeOK, Event

\* A fresh database is typed.
LEMMA InitTyped == Init => TypeOK
BY ConstantsAssumption, NoRowTyped
   DEF Init, TypeOK, NoRow, NoRun, NoApproval, Run, Approval, OUTCOMES

-----------------------------------------------------------------------------
\* Every method of the queue keeps its tables typed, one step per method.
LEMMA NextTyped == TypeOK /\ [Next]_vars => TypeOK'
<1> SUFFICES ASSUME TypeOK, [Next]_vars PROVE TypeOK'
  OBVIOUS
<1>r. \A t \in Task : row[t] \in Row /\ (row[t].live => row[t].owner # NoOwner)
  BY DEF TypeOK
<1>s. /\ {"DISCOVERED", "BLOCKED", "CANCELLED", "SUBMITTED", "ERROR"} \subseteq STAGES
      /\ SAFE_STAGES \subseteq STAGES
      /\ {"none", "profile_changed", "profile_promotion_pending",
          "anonymous_preparation_unverified"} \subseteq BLOCKERS
  BY DEF STAGES, STOPPED, BLOCKERS, SAFE_STAGES, CHECKPOINT_BLOCKERS, RECONCILIATION_REQUIRED
<1>1. ASSUME NEW t \in Task, LeaseExpires(t) PROVE TypeOK'
  <2>1. [row[t] EXCEPT !.live = FALSE] \in Row
    BY <1>r DEF Row
  <2> QED
    BY <1>1, <2>1 DEF LeaseExpires, TypeOK
<1>2. ASSUME NEW t \in Task, BackoffElapses(t) PROVE TypeOK'
  <2>1. [row[t] EXCEPT !.due = TRUE] \in Row
    BY <1>r DEF Row
  <2>2. [row[t] EXCEPT !.due = TRUE].live => [row[t] EXCEPT !.due = TRUE].owner # NoOwner
    BY <1>r DEF Row
  <2> QED
    BY <1>2, <2>1, <2>2 DEF BackoffElapses, TypeOK
<1>3. ASSUME NEW t \in Task, Enqueue(t) PROVE TypeOK'
  <2>1. [NoRow EXCEPT !.stage = "DISCOVERED"] \in Row /\ ~[NoRow EXCEPT !.stage = "DISCOVERED"].live
    BY <1>s, NoRowTyped DEF Row, NoRow
  <2>2. created' \in Seq(Task)
    BY <1>3 DEF Enqueue, TypeOK
  <2> QED
    BY <1>3, <2>1, <2>2, EventTyped DEF Enqueue, TypeOK
<1>4. ASSUME NEW t \in Task, RetargetSameOriginLanding(t) PROVE TypeOK'
  <2>1. [NoRow EXCEPT !.stage = "DISCOVERED"] \in Row /\ ~[NoRow EXCEPT !.stage = "DISCOVERED"].live
    BY <1>s, NoRowTyped DEF Row, NoRow
  <2> QED
    BY <1>4, <2>1, EventTyped DEF RetargetSameOriginLanding, TypeOK
<1>5. CASE ClaimBusy
  BY <1>5, <1>r, FreedTyped DEF ClaimBusy, TypeOK
<1>6. CASE ClaimNothing
  <2>1. runs' \in [Attempt -> Run] /\ known' \in [Client -> Task \cup {NoTask}]
    BY <1>6, RunsAfterScanTyped, EventTyped DEF ClaimNothing
  <2> QED
    BY <1>6, <1>r, <2>1, PassedTyped DEF ClaimNothing, TypeOK
<1>7. ASSUME NEW t \in Task, NEW o \in Owner, ClaimTask(t, o) PROVE TypeOK'
  <2> DEFINE older == {u \in Task : Older(u, t)}
             granted == [row[t] EXCEPT !.owner = o, !.live = TRUE,
                                       !.attempts = @ + 1, !.stage = row[t].checkpoint]
  <2>1. runs' \in [Attempt -> Run] /\ known' \in [Client -> Task \cup {NoTask}]
    BY <1>7, RunsAfterScanTyped, EventTyped DEF ClaimTask
  <2>2. row[t].attempts + 1 \in 0 .. max_attempts
    BY <1>7, <1>r, ConstantsAssumption DEF ClaimTask, Claimable, Row
  <2>3. granted \in Row /\ granted.owner # NoOwner
    BY <1>r, <1>s, <2>2, ConstantsAssumption DEF Row
  <2>4. row' = [u \in Task |-> IF u = t THEN granted ELSE Passed(older, u)]
    BY <1>7 DEF ClaimTask
  <2> HIDE DEF older, granted
  <2>5. row' \in [Task -> Row] /\ \A u \in Task : row'[u].live => row'[u].owner # NoOwner
    BY <1>r, <2>3, <2>4, PassedTyped
  <2> QED
    BY <1>7, <2>1, <2>5 DEF ClaimTask, TypeOK
<1>8. ASSUME NEW t \in Task, NEW report \in Reports, NEW release \in BOOLEAN,
             Checkpoint(t, report, release)
      PROVE  TypeOK'
  <2> DEFINE kept == IF release THEN Unleased(row[t]) ELSE row[t]
             cp == IF report[1] \in SAFE_STAGES THEN report[1] ELSE kept.checkpoint
             saved == [kept EXCEPT !.stage = report[1], !.blocker = report[2], !.paused = FALSE,
                                   !.checkpoint = cp, !.due = report[2] # "retry_pending"]
  <2>1. kept \in Row /\ (kept.live => kept.owner # NoOwner)
    BY <1>r, UnleasedTyped
  <2>2. report[1] \in STAGES /\ report[2] \in BLOCKERS
    BY ConstantsAssumption DEF BLOCKERS
  <2>3. cp \in SAFE_STAGES
    BY <2>1 DEF Row
  <2>4. row' = [row EXCEPT ![t] = saved]
    BY <1>8 DEF Checkpoint
  <2> HIDE DEF kept, cp
  <2>5. saved \in Row /\ (saved.live => saved.owner # NoOwner)
    BY <2>1, <2>2, <2>3 DEF Row
  <2>6. known' \in [Client -> Task \cup {NoTask}]
    BY <1>8, EventTyped DEF Checkpoint
  <2> HIDE DEF saved
  <2>7. row' \in [Task -> Row] /\ \A u \in Task : row'[u].live => row'[u].owner # NoOwner
    BY <1>r, <2>4, <2>5 DEF TypeOK
  <2> QED
    BY <1>8, <2>6, <2>7 DEF Checkpoint, TypeOK
<1>9. ASSUME NEW t \in Task, NEW a \in Attempt, BeginRunAttempt(t, a) PROVE TypeOK'
  <2>1. [task |-> t, owner |-> row[t].owner, outcome |-> "ATTEMPTED"] \in Run
    BY <1>r DEF Run, Row, OUTCOMES, UNRESOLVED
  <2> QED
    BY <1>9, <2>1 DEF BeginRunAttempt, TypeOK
<1>10. ASSUME NEW a \in Attempt, NEW outcome \in {"RETURNED_UNVERIFIED", "UNKNOWN_OUTCOME"},
              FinishRunAttempt(a, outcome)
       PROVE  TypeOK'
  <2>1. [runs[a] EXCEPT !.outcome = outcome] \in Run
    BY DEF TypeOK, Run, OUTCOMES, UNRESOLVED
  <2> QED
    BY <1>10, <2>1 DEF FinishRunAttempt, TypeOK
<1>11. ASSUME NEW t \in Task, NEW saved \in BOOLEAN, ConfirmHumanSubmission(t, saved)
       PROVE  TypeOK'
  <2>1. [row[t] EXCEPT !.stage = "SUBMITTED", !.blocker = "none", !.paused = FALSE] \in Row
    BY <1>r, <1>s DEF Row
  <2>2. CASE saved
    <3>1. row' = [row EXCEPT ![t] = [row[t] EXCEPT !.stage = "SUBMITTED",
                                       !.blocker = "none", !.paused = FALSE]]
      BY <1>11, <2>2 DEF ConfirmHumanSubmission
    <3>2. [row[t] EXCEPT !.stage = "SUBMITTED", !.blocker = "none", !.paused = FALSE].live
            => row[t].live
      BY <1>r DEF Row
    <3>3. ~row[t].live
      BY <1>11, <1>r DEF ConfirmHumanSubmission
    <3> QED
      BY <1>11, <2>2, <1>r, <2>1, <3>1, <3>2, <3>3, EventTyped
         DEF ConfirmHumanSubmission, TypeOK
  <2>3. CASE ~saved
    BY <1>11, <2>3 DEF ConfirmHumanSubmission, TypeOK
  <2> QED
    BY <2>2, <2>3
<1>12. ASSUME NEW t \in Task, Resume(t) PROVE TypeOK'
  BY <1>12, <1>r, ResumedTyped, EventTyped DEF Resume, TypeOK
<1>13. ASSUME NEW t \in Task, Pause(t) PROVE TypeOK'
  BY <1>13, <1>r, PausedTyped, EventTyped DEF Pause, TypeOK
<1>14. ASSUME NEW t \in Task, Cancel(t) PROVE TypeOK'
  <2> DEFINE gone == [Unleased(row[t]) EXCEPT !.stage = "CANCELLED"]
  <2>1. Unleased(row[t]) \in Row /\ ~Unleased(row[t]).live
    BY <1>r, UnleasedTyped
  <2>2. gone \in Row /\ ~gone.live
    BY <2>1, <1>s DEF Row
  <2>3. row' = [row EXCEPT ![t] = gone]
    BY <1>14 DEF Cancel
  <2> HIDE DEF gone
  <2> QED
    BY <1>14, <1>r, <2>2, <2>3, EventTyped DEF Cancel, TypeOK
<1>15. ASSUME NEW c \in Client, NEW t \in Task, ReadTask(c, t) PROVE TypeOK'
  BY <1>15 DEF ReadTask, TypeOK
<1>16. ASSUME NEW t \in Task, SaveReusableAnswer(t) PROVE TypeOK'
  <2> DEFINE saved == [row[t] EXCEPT !.stage = "BLOCKED", !.blocker = "profile_promotion_pending"]
  <2>1. saved \in Row /\ (saved.live => saved.owner # NoOwner)
    BY <1>r, <1>s DEF Row
  <2>2. row' = [row EXCEPT ![t] = saved]
    BY <1>16 DEF SaveReusableAnswer
  <2> HIDE DEF saved
  <2> QED
    BY <1>16, <1>r, <2>1, <2>2, EventTyped DEF SaveReusableAnswer, TypeOK
<1>17. ASSUME NEW t \in Task, BeginProfileWrite(t) PROVE TypeOK'
  <2> DEFINE hit == {u \in Task \ {t} : profile_ref[u] = profile_ref[t] /\ Exists(u)
                       /\ row[u].stage \notin {"SUBMITTED", "VERIFIED", "CANCELLED"}}
             demoted(u) == [Settle(row[u], "BLOCKED", "profile_changed") EXCEPT
                              !.checkpoint = "DISCOVERED"]
  <2>1. \A u \in Task : demoted(u) \in Row /\ ~demoted(u).live
    BY <1>r, <1>s, SettleTyped DEF Row, SAFE_STAGES
  <2>2. row' = [u \in Task |-> IF u \in hit THEN demoted(u) ELSE row[u]]
    BY <1>17 DEF BeginProfileWrite
  <2>3. known' \in [Client -> Task \cup {NoTask}]
    BY <1>17, EventTyped DEF BeginProfileWrite
  <2>4. barrier' \in [Profile -> Task \cup {NoTask}]
    BY <1>17, ConstantsAssumption DEF BeginProfileWrite, TypeOK
  <2> HIDE DEF hit, demoted
  <2>5. row' \in [Task -> Row] /\ \A u \in Task : row'[u].live => row'[u].owner # NoOwner
    BY <1>r, <2>1, <2>2
  <2> QED
    BY <1>17, <2>3, <2>4, <2>5 DEF BeginProfileWrite, TypeOK
<1>18. ASSUME NEW t \in Task, FinishProfileWrite(t) PROVE TypeOK'
  <2>1. barrier' \in [Profile -> Task \cup {NoTask}]
    BY <1>18, ConstantsAssumption DEF FinishProfileWrite, TypeOK
  <2>2. CASE row' = [row EXCEPT ![t] = ResumedRow(row[t])] /\ Event({t})
    BY <1>18, <1>r, <2>1, <2>2, ResumedTyped, EventTyped DEF FinishProfileWrite, TypeOK
  <2>3. CASE UNCHANGED <<row, known>>
    BY <1>18, <2>1, <2>3 DEF FinishProfileWrite, TypeOK
  <2> QED
    BY <1>18, <2>2, <2>3 DEF FinishProfileWrite
<1>19. ASSUME NEW t \in Task, NEW o \in Owner, ConsumePreparation(t, o) PROVE TypeOK'
  <2> DEFINE s == Settle(row[t], "BLOCKED", "anonymous_preparation_unverified")
             leased == [s EXCEPT !.owner = o, !.live = TRUE]
             approval == [state |-> "open", owner |-> o, attempt |-> NoAttempt,
                          outcome |-> "ATTEMPTED"]
  <2>1. s \in Row
    BY <1>r, <1>s, SettleTyped
  <2>2. row' = [row EXCEPT ![t] = leased] /\ prep' = [prep EXCEPT ![t] = approval]
    BY <1>19 DEF ConsumePreparation
  <2> HIDE DEF s
  <2>3. leased \in Row /\ leased.owner # NoOwner
    BY <2>1, ConstantsAssumption DEF Row
  <2>4. approval \in Approval
    BY DEF Approval
  <2>5. known' \in [Client -> Task \cup {NoTask}]
    BY <1>19, EventTyped DEF ConsumePreparation
  <2> HIDE DEF leased, approval
  <2>6. row' \in [Task -> Row] /\ \A u \in Task : row'[u].live => row'[u].owner # NoOwner
    BY <1>r, <2>2, <2>3 DEF TypeOK
  <2> QED
    BY <1>19, <2>2, <2>4, <2>5, <2>6 DEF ConsumePreparation, TypeOK
<1>20. ASSUME NEW t \in Task, NEW a \in Attempt, BeginPreparationAttempt(t, a) PROVE TypeOK'
  <2>1. prep[t] \in Approval
    BY DEF TypeOK
  <2>2. [task |-> t, owner |-> prep[t].owner, outcome |-> "ATTEMPTED"] \in Run
    BY <2>1 DEF Run, Approval, OUTCOMES, UNRESOLVED
  <2>3. [prep[t] EXCEPT !.attempt = a] \in Approval
    BY <2>1 DEF Approval
  <2> QED
    BY <1>20, <2>2, <2>3 DEF BeginPreparationAttempt, TypeOK
<1>21. ASSUME NEW t \in Task, NEW outcome \in {"PREPARED_UNVERIFIED", "UNKNOWN_OUTCOME"},
              NEW closed \in BOOLEAN, FinishPreparation(t, outcome, closed)
       PROVE  TypeOK'
  <2> DEFINE a == prep[t].attempt
  <2>1. prep[t] \in Approval
    BY DEF TypeOK
  <2>2. runs' \in [Attempt -> Run]
    <3>1. CASE outcome = "UNKNOWN_OUTCOME" /\ a # NoAttempt
      <4>1. a \in Attempt
        BY <2>1, <3>1 DEF Approval
      <4>2. [runs[a] EXCEPT !.outcome = "UNKNOWN_OUTCOME"] \in Run
        BY <4>1 DEF TypeOK, Run, OUTCOMES, UNRESOLVED
      <4>3. runs' = [runs EXCEPT ![a] = [runs[a] EXCEPT !.outcome = "UNKNOWN_OUTCOME"]]
        BY <1>21, <3>1, <4>1 DEF FinishPreparation, TypeOK, Run
      <4> QED
        BY <4>1, <4>2, <4>3 DEF TypeOK
    <3>2. CASE ~(outcome = "UNKNOWN_OUTCOME" /\ a # NoAttempt)
      BY <1>21, <3>2 DEF FinishPreparation, TypeOK
    <3> QED
      BY <3>1, <3>2
  <2>3. prep' \in [Task -> Approval]
    <3> DEFINE done == [prep[t] EXCEPT !.outcome = outcome,
                                       !.state = IF closed THEN "closed" ELSE "open"]
    <3>1. done \in Approval
      BY <2>1 DEF Approval
    <3>2. prep' = [prep EXCEPT ![t] = done]
      BY <1>21, <2>1 DEF FinishPreparation, TypeOK, Approval
    <3> QED
      BY <3>1, <3>2 DEF TypeOK
  <2>4. row' \in [Task -> Row] /\ \A u \in Task : row'[u].live => row'[u].owner # NoOwner
    BY <1>21, <1>r, UnleasedTyped DEF FinishPreparation, TypeOK
  <2> QED
    BY <1>21, <2>2, <2>3, <2>4 DEF FinishPreparation, TypeOK
<1>22. CASE UNCHANGED vars
  BY <1>22 DEF vars, TypeOK, Exists
<1> QED
  BY <1>1, <1>2, <1>3, <1>4, <1>5, <1>6, <1>7, <1>8, <1>9, <1>10, <1>11, <1>12, <1>13,
     <1>14, <1>15, <1>16, <1>17, <1>18, <1>19, <1>20, <1>21, <1>22
     DEF Next, Scheduling, Working, Commanding, Promoting, Preparing

\* The tables of the queue stay well typed, the attempts of a task stay within
\* its budget (claim, pause), and a live lease always names its holder.
THEOREM Typing == Spec => []TypeOK
<1>1. Init => TypeOK
  BY InitTyped
<1>2. TypeOK /\ [Next]_vars => TypeOK'
  BY NextTyped
<1> QED
  BY <1>1, <1>2, PTL DEF Spec

-----------------------------------------------------------------------------
(***************************************************************************)
(* Leases and attempts.  OneLease, NoReplay, OneUnresolved and             *)
(* PreparationExcludesWorkers are inductive together with two facts about  *)
(* preparations: which attempt a preparation wrote down is its own, and    *)
(* while a preparation is open no other attempt of its task is unsettled.  *)
(***************************************************************************)
AttemptOfPreparation ==
  \A t \in Task : prep[t].attempt # NoAttempt =>
    /\ runs[prep[t].attempt].task = t
    /\ runs[prep[t].attempt].owner = prep[t].owner
    /\ runs[prep[t].attempt].outcome \in OUTCOMES
OpenPreparation ==
  \A t \in Task : prep[t].state = "open" => \A a \in Unresolved(t) : a = prep[t].attempt

LeaseInv ==
  /\ OneLease
  /\ NoReplay
  /\ OneUnresolved
  /\ PreparationExcludesWorkers
  /\ AttemptOfPreparation
  /\ OpenPreparation

\* Most steps grant nothing and start nothing: leases and unsettled attempts
\* only get fewer, and no preparation changes.
Quiet ==
  /\ \A u \in Task : row'[u].live => row[u].live /\ row'[u].owner = row[u].owner
  /\ \A a \in Attempt :
       /\ runs'[a].task = runs[a].task /\ runs'[a].owner = runs[a].owner
       /\ runs'[a].outcome \in UNRESOLVED => runs[a].outcome \in UNRESOLVED
       /\ runs[a].outcome \in OUTCOMES => runs'[a].outcome \in OUTCOMES
  /\ prep' = prep

\* claim()'s sweep of uncertain attempts starts none and reassigns none.
LEMMA RunsAfterScanQuiet ==
  ASSUME TypeOK, NEW S, runs' = RunsAfterScan(S), NEW a \in Attempt
  PROVE  /\ runs'[a].task = runs[a].task /\ runs'[a].owner = runs[a].owner
         /\ runs'[a].outcome \in UNRESOLVED => runs[a].outcome \in UNRESOLVED
         /\ runs[a].outcome \in OUTCOMES => runs'[a].outcome \in OUTCOMES
BY DEF TypeOK, RunsAfterScan, Run, OUTCOMES, UNRESOLVED, Unresolved

\* Only claim(), consume(), the two ways to begin an attempt and finish() of a
\* preparation touch leases, attempts or approvals in a way that needs care.
LEMMA StepKinds ==
  ASSUME TypeOK, [Next]_vars
  PROVE  \/ Quiet
         \/ \E t \in Task, o \in Owner : ClaimTask(t, o) \/ ConsumePreparation(t, o)
         \/ \E t \in Task, a \in Attempt : BeginRunAttempt(t, a) \/ BeginPreparationAttempt(t, a)
         \/ \E t \in Task, outcome \in {"PREPARED_UNVERIFIED", "UNKNOWN_OUTCOME"},
              closed \in BOOLEAN : FinishPreparation(t, outcome, closed)
<1>r. \A t \in Task : row[t] \in Row
  BY DEF TypeOK
<1>1. ASSUME NEW t \in Task, LeaseExpires(t) \/ BackoffElapses(t) PROVE Quiet
  <2>1. CASE LeaseExpires(t)
    <3>1. \A u \in Task : row'[u].live => row'[u] = row[u]
      BY <2>1, <1>r DEF LeaseExpires, TypeOK, Row
    <3> QED
      BY <2>1, <3>1 DEF LeaseExpires, Quiet
  <2>2. CASE BackoffElapses(t)
    <3>1. \A u \in Task : row'[u].live = row[u].live /\ row'[u].owner = row[u].owner
      BY <2>2, <1>r DEF BackoffElapses, TypeOK, Row
    <3> QED
      BY <2>2, <3>1 DEF BackoffElapses, Quiet
  <2> QED
    BY <1>1, <2>1, <2>2
<1>2. ASSUME NEW t \in Task, Enqueue(t) \/ RetargetSameOriginLanding(t) PROVE Quiet
  BY <1>2, <1>r DEF Enqueue, RetargetSameOriginLanding, NoRow, Quiet, TypeOK
<1>3. CASE ClaimBusy
  BY <1>3, FreedTyped DEF ClaimBusy, Quiet
<1>4. CASE ClaimNothing
  <2>1. \A u \in Task : row'[u].live => row[u].live /\ row'[u].owner = row[u].owner
    BY <1>4, PassedTyped DEF ClaimNothing
  <2> QED
    BY <1>4, <2>1, RunsAfterScanQuiet DEF ClaimNothing, Quiet
<1>5. ASSUME NEW t \in Task, NEW report \in Reports, NEW release \in BOOLEAN,
             Checkpoint(t, report, release)
      PROVE  Quiet
  <2> DEFINE kept == IF release THEN Unleased(row[t]) ELSE row[t]
  <2>1. kept \in Row /\ (kept.live => row[t].live /\ kept.owner = row[t].owner)
    BY <1>r, UnleasedTyped
  <2>2. PICK saved :
          /\ row' = [row EXCEPT ![t] = saved]
          /\ saved.live = kept.live /\ saved.owner = kept.owner
    <3> DEFINE saved == [kept EXCEPT !.stage = report[1], !.blocker = report[2],
                           !.paused = FALSE,
                           !.checkpoint = IF report[1] \in SAFE_STAGES THEN report[1] ELSE @,
                           !.due = report[2] # "retry_pending"]
    <3>1. row' = [row EXCEPT ![t] = saved]
      BY <1>5 DEF Checkpoint
    <3> HIDE DEF kept
    <3>2. saved.live = kept.live /\ saved.owner = kept.owner
      BY <2>1 DEF Row
    <3> HIDE DEF saved
    <3> QED
      BY <3>1, <3>2
  <2> HIDE DEF kept
  <2>3. \A u \in Task : row'[u].live => row[u].live /\ row'[u].owner = row[u].owner
    BY <2>1, <2>2 DEF TypeOK
  <2> QED
    BY <1>5, <2>3 DEF Checkpoint, Quiet
<1>6. ASSUME NEW a \in Attempt, NEW outcome \in {"RETURNED_UNVERIFIED", "UNKNOWN_OUTCOME"},
             FinishRunAttempt(a, outcome)
      PROVE  Quiet
  BY <1>6 DEF FinishRunAttempt, Quiet, TypeOK, Run, OUTCOMES, UNRESOLVED
<1>7. ASSUME NEW t \in Task, NEW saved \in BOOLEAN, ConfirmHumanSubmission(t, saved) PROVE Quiet
  <2> DEFINE done == [row[t] EXCEPT !.stage = "SUBMITTED", !.blocker = "none", !.paused = FALSE]
  <2>1. done.live = row[t].live /\ done.owner = row[t].owner
    BY <1>r DEF Row
  <2>2. row' = [row EXCEPT ![t] = done] \/ row' = row
    BY <1>7 DEF ConfirmHumanSubmission
  <2> HIDE DEF done
  <2>3. \A u \in Task : row'[u].live = row[u].live /\ row'[u].owner = row[u].owner
    BY <2>1, <2>2 DEF TypeOK
  <2> QED
    BY <1>7, <2>3 DEF ConfirmHumanSubmission, Quiet
<1>8. ASSUME NEW t \in Task, Resume(t) PROVE Quiet
  BY <1>8, <1>r, ResumedTyped DEF Resume, Quiet, TypeOK
<1>9. ASSUME NEW t \in Task, Pause(t) PROVE Quiet
  BY <1>9, <1>r, PausedTyped DEF Pause, Quiet, TypeOK
<1>10. ASSUME NEW t \in Task, Cancel(t) PROVE Quiet
  <2>1. Unleased(row[t]) \in Row /\ ~Unleased(row[t]).live
    BY <1>r, UnleasedTyped
  <2>2. ~[Unleased(row[t]) EXCEPT !.stage = "CANCELLED"].live
    BY <2>1 DEF Row
  <2> QED
    BY <1>10, <1>r, <2>2 DEF Cancel, Quiet, TypeOK
<1>11. ASSUME NEW c \in Client, NEW t \in Task, ReadTask(c, t) PROVE Quiet
  BY <1>11 DEF ReadTask, Quiet
<1>12. ASSUME NEW t \in Task, SaveReusableAnswer(t) PROVE Quiet
  <2> DEFINE saved == [row[t] EXCEPT !.stage = "BLOCKED", !.blocker = "profile_promotion_pending"]
  <2>1. row' = [row EXCEPT ![t] = saved]
    BY <1>12 DEF SaveReusableAnswer
  <2>2. saved.live = row[t].live /\ saved.owner = row[t].owner
    BY <1>r DEF Row
  <2> HIDE DEF saved
  <2> QED
    BY <1>12, <2>1, <2>2 DEF SaveReusableAnswer, Quiet, TypeOK
<1>13. ASSUME NEW t \in Task, BeginProfileWrite(t) PROVE Quiet
  <2> DEFINE demoted(u) == [Settle(row[u], "BLOCKED", "profile_changed") EXCEPT
                              !.checkpoint = "DISCOVERED"]
  <2>1. \A u \in Task : ~demoted(u).live
    BY <1>r, SettleTyped DEF Row, STAGES, BLOCKERS
  <2>2. \A u \in Task : row'[u] = demoted(u) \/ row'[u] = row[u]
    BY <1>13 DEF BeginProfileWrite
  <2> HIDE DEF demoted
  <2> QED
    BY <1>13, <2>1, <2>2 DEF BeginProfileWrite, Quiet
<1>14. ASSUME NEW t \in Task, FinishProfileWrite(t) PROVE Quiet
  BY <1>14, <1>r, ResumedTyped DEF FinishProfileWrite, Quiet, TypeOK
<1>15. CASE UNCHANGED vars
  BY <1>15 DEF vars, Quiet
<1> QED
  BY <1>1, <1>2, <1>3, <1>4, <1>5, <1>6, <1>7, <1>8, <1>9, <1>10, <1>11, <1>12, <1>13,
     <1>14, <1>15 DEF Next, Scheduling, Working, Commanding, Promoting, Preparing

\* A fresh database has no lease, no attempt and no approval.
LEMMA InitLeases == Init => LeaseInv
BY ConstantsAssumption
   DEF Init, LeaseInv, OneLease, NoReplay, OneUnresolved, PreparationExcludesWorkers,
       AttemptOfPreparation, OpenPreparation, Live, WorkerLease, Unresolved, NoRow,
       NoRun, NoApproval, UNRESOLVED

\* A step that only ends leases and settles attempts keeps the invariant.
LEMMA QuietKeepsLeases ==
  ASSUME TypeOK, LeaseInv, Quiet
  PROVE  LeaseInv'
<1>1. \A t \in Task : Unresolved(t)' \subseteq Unresolved(t)
  BY DEF Quiet, Unresolved
<1>2. \A t \in Task : Live(t)' => Live(t) /\ row'[t].owner = row[t].owner
  BY DEF Quiet, Live
<1>3. OneLease'
  BY <1>2 DEF LeaseInv, OneLease
<1>4. NoReplay'
  <2> SUFFICES ASSUME NEW t \in Task, Live(t)', NEW a \in Unresolved(t)'
               PROVE  runs'[a].owner = row'[t].owner
    BY DEF NoReplay
  <2>1. a \in Attempt /\ a \in Unresolved(t)
    BY <1>1 DEF Unresolved
  <2> QED
    BY <1>2, <2>1 DEF LeaseInv, NoReplay, Quiet
<1>5. OneUnresolved'
  BY <1>1 DEF LeaseInv, OneUnresolved
<1>6. PreparationExcludesWorkers'
  BY <1>2 DEF LeaseInv, PreparationExcludesWorkers, WorkerLease, PreparationLease, Quiet
<1>7. AttemptOfPreparation'
  <2>1. \A t \in Task : prep[t].attempt # NoAttempt => prep[t].attempt \in Attempt
    BY DEF TypeOK, Approval
  <2> QED
    BY <2>1 DEF LeaseInv, AttemptOfPreparation, Quiet
<1>8. OpenPreparation'
  BY <1>1 DEF LeaseInv, OpenPreparation, Quiet
<1> QED
  BY <1>3, <1>4, <1>5, <1>6, <1>7, <1>8 DEF LeaseInv

\* claim(): nobody is live and no preparation is open before the step.
LEMMA ClaimKeepsLeases ==
  ASSUME TypeOK, LeaseInv, NEW t \in Task, NEW o \in Owner, ClaimTask(t, o)
  PROVE  LeaseInv'
<1>1. \A u \in Task : Live(u)' => u = t
  BY PassedTyped DEF ClaimTask, NobodyLive, Live
<1>2. prep' = prep /\ \A u \in Task : prep[u].state # "open"
  BY DEF ClaimTask, PreparationInFlight
<1>3. \A a \in Attempt :
        /\ runs'[a].task = runs[a].task /\ runs'[a].owner = runs[a].owner
        /\ runs'[a].outcome \in UNRESOLVED => runs[a].outcome \in UNRESOLVED
        /\ runs[a].outcome \in OUTCOMES => runs'[a].outcome \in OUTCOMES
  BY RunsAfterScanQuiet DEF ClaimTask
<1>4. \A u \in Task : Unresolved(u)' \subseteq Unresolved(u)
  BY <1>3 DEF Unresolved
<1>5. Unresolved(t)' = {}
  BY <1>4 DEF ClaimTask, Claimable
<1>6. OneLease' /\ NoReplay'
  BY <1>1, <1>5 DEF OneLease, NoReplay
<1>7. OneUnresolved'
  BY <1>4 DEF LeaseInv, OneUnresolved
<1>8. PreparationExcludesWorkers' /\ OpenPreparation'
  BY <1>2 DEF PreparationExcludesWorkers, OpenPreparation
<1>9. AttemptOfPreparation'
  <2>1. \A u \in Task : prep[u].attempt # NoAttempt => prep[u].attempt \in Attempt
    BY DEF TypeOK, Approval
  <2> QED
    BY <1>2, <1>3, <2>1 DEF LeaseInv, AttemptOfPreparation
<1> QED
  BY <1>6, <1>7, <1>8, <1>9 DEF LeaseInv

\* consume(): the same, and what is unsettled belongs to closed preparations
\* of other tasks.
LEMMA ConsumeKeepsLeases ==
  ASSUME TypeOK, LeaseInv, NEW t \in Task, NEW o \in Owner, ConsumePreparation(t, o)
  PROVE  LeaseInv'
<1>1. Unresolved(t) = {}
  <2> SUFFICES ASSUME NEW a \in Unresolved(t) PROVE FALSE
    OBVIOUS
  <2>1. a \in Attempt /\ runs[a].task = t
    BY DEF Unresolved
  <2>2. PICK u \in Task : prep[u].state = "closed" /\ prep[u].attempt = a
    BY <2>1 DEF ConsumePreparation, Unresolved
  <2>3. u = t
    BY <2>1, <2>2, ConstantsAssumption DEF LeaseInv, AttemptOfPreparation
  <2> QED
    BY <2>2, <2>3 DEF ConsumePreparation
<1>2. \A u \in Task : Unresolved(u)' = Unresolved(u)
  BY DEF ConsumePreparation, Unresolved
<1>3. \A u \in Task : Live(u)' => u = t
  BY DEF ConsumePreparation, NobodyLive, Live, TypeOK
<1>4. row'[t].owner = o /\ prep'[t].owner = o /\ prep'[t].state = "open"
      /\ prep'[t].attempt = NoAttempt
  <2> DEFINE s == Settle(row[t], "BLOCKED", "anonymous_preparation_unverified")
  <2>1. s \in Row
    BY SettleTyped DEF TypeOK, STAGES, BLOCKERS, CHECKPOINT_BLOCKERS, RECONCILIATION_REQUIRED
  <2>2. row' = [row EXCEPT ![t] = [s EXCEPT !.owner = o, !.live = TRUE]]
    BY DEF ConsumePreparation
  <2> HIDE DEF s
  <2>3. row'[t].owner = o
    BY <2>1, <2>2 DEF TypeOK, Row
  <2> QED
    BY <2>3 DEF ConsumePreparation, TypeOK
<1>5. \A u \in Task \ {t} : prep'[u] = prep[u]
  BY DEF ConsumePreparation, TypeOK
<1>6. OneLease' /\ NoReplay'
  BY <1>1, <1>2, <1>3 DEF OneLease, NoReplay
<1>7. OneUnresolved'
  BY <1>2 DEF LeaseInv, OneUnresolved
<1>8. PreparationExcludesWorkers'
  BY <1>3, <1>4 DEF PreparationExcludesWorkers, WorkerLease, PreparationLease
<1>9. AttemptOfPreparation'
  BY <1>4, <1>5 DEF LeaseInv, AttemptOfPreparation, ConsumePreparation
<1>10. OpenPreparation'
  BY <1>1, <1>2, <1>5 DEF LeaseInv, OpenPreparation
<1> QED
  BY <1>6, <1>7, <1>8, <1>9, <1>10 DEF LeaseInv

\* begin_run_attempt() and PreparationJournal: the attempt is the holder's own.
LEMMA BeginKeepsLeases ==
  ASSUME TypeOK, LeaseInv, NEW t \in Task, NEW a \in Attempt,
         BeginRunAttempt(t, a) \/ BeginPreparationAttempt(t, a)
  PROVE  LeaseInv'
<1>1. row' = row /\ \A u \in Task : Live(u)' = Live(u)
  BY DEF BeginRunAttempt, BeginPreparationAttempt, Live
<1>2. Live(t) /\ Unresolved(t) = {}
  <2>1. CASE BeginRunAttempt(t, a)
    BY <2>1 DEF BeginRunAttempt, WorkerLease
  <2>2. CASE BeginPreparationAttempt(t, a)
    BY <2>2, ConstantsAssumption
       DEF BeginPreparationAttempt, PreparationLease, LeaseInv, OpenPreparation, Unresolved
  <2> QED
    BY <2>1, <2>2
<1>3. runs[a] = NoRun
      /\ runs' = [runs EXCEPT ![a] = [task |-> t, owner |-> row[t].owner, outcome |-> "ATTEMPTED"]]
  BY DEF BeginRunAttempt, BeginPreparationAttempt, PreparationLease
<1>4. \A u \in Task : Unresolved(u)' \subseteq IF u = t THEN {a} ELSE Unresolved(u)
  BY <1>2, <1>3 DEF Unresolved, TypeOK
<1>5. OneLease'
  BY <1>1 DEF LeaseInv, OneLease
<1>6. NoReplay'
  <2> SUFFICES ASSUME NEW u \in Task, Live(u)', NEW b \in Unresolved(u)'
               PROVE  runs'[b].owner = row'[u].owner
    BY DEF NoReplay
  <2>1. u = t /\ b = a
    BY <1>1, <1>2, <1>4 DEF LeaseInv, OneLease
  <2> QED
    BY <1>1, <1>3, <2>1 DEF TypeOK
<1>7. OneUnresolved'
  BY <1>4 DEF LeaseInv, OneUnresolved
<1>8. \A u \in Task : prep'[u].state = prep[u].state /\ prep'[u].owner = prep[u].owner
  <2>1. CASE BeginRunAttempt(t, a)
    BY <2>1 DEF BeginRunAttempt
  <2>2. CASE BeginPreparationAttempt(t, a)
    <3>1. prep[t] \in Approval /\ prep' = [prep EXCEPT ![t] = [prep[t] EXCEPT !.attempt = a]]
      BY <2>2 DEF BeginPreparationAttempt, TypeOK
    <3>2. [prep[t] EXCEPT !.attempt = a].state = prep[t].state
          /\ [prep[t] EXCEPT !.attempt = a].owner = prep[t].owner
      BY <3>1 DEF Approval
    <3> QED
      BY <3>1, <3>2 DEF TypeOK
  <2> QED
    BY <2>1, <2>2
<1>9. PreparationExcludesWorkers'
  BY <1>1, <1>8 DEF LeaseInv, PreparationExcludesWorkers, WorkerLease, PreparationLease
<1>10. AttemptOfPreparation'
  <2> SUFFICES ASSUME NEW u \in Task, prep'[u].attempt # NoAttempt
               PROVE  /\ runs'[prep'[u].attempt].task = u
                      /\ runs'[prep'[u].attempt].owner = prep'[u].owner
                      /\ runs'[prep'[u].attempt].outcome \in OUTCOMES
    BY DEF AttemptOfPreparation
  <2>1. CASE prep'[u].attempt = prep[u].attempt
    <3>1. prep[u].attempt \in Attempt
      BY <2>1 DEF TypeOK, Approval
    <3>2. prep[u].attempt # a
      BY <1>3, <2>1 DEF LeaseInv, AttemptOfPreparation, NoRun, OUTCOMES, UNRESOLVED
    <3> QED
      BY <1>3, <1>8, <2>1, <3>1, <3>2 DEF LeaseInv, AttemptOfPreparation
  <2>2. CASE prep'[u].attempt # prep[u].attempt
    <3>1. BeginPreparationAttempt(t, a) /\ u = t /\ prep'[u].attempt = a
      BY <2>2 DEF BeginRunAttempt, BeginPreparationAttempt, TypeOK, Approval
    <3>2. row[t].owner = prep'[u].owner
      BY <1>8, <3>1 DEF BeginPreparationAttempt, PreparationLease
    <3> QED
      BY <1>3, <3>1, <3>2 DEF TypeOK, OUTCOMES, UNRESOLVED
  <2> QED
    BY <2>1, <2>2
<1>11. OpenPreparation'
  <2>1. CASE BeginRunAttempt(t, a)
    <3>1. \A u \in Task : prep'[u].state # "open"
      BY <1>8, <2>1 DEF LeaseInv, PreparationExcludesWorkers, BeginRunAttempt
    <3> QED
      BY <3>1 DEF OpenPreparation
  <2>2. CASE BeginPreparationAttempt(t, a)
    <3>1. prep'[t].attempt = a /\ \A u \in Task \ {t} : prep'[u] = prep[u]
      BY <2>2 DEF BeginPreparationAttempt, TypeOK, Approval
    <3> QED
      BY <1>4, <3>1 DEF LeaseInv, OpenPreparation
  <2> QED
    BY <2>1, <2>2
<1> QED
  BY <1>5, <1>6, <1>7, <1>9, <1>10, <1>11 DEF LeaseInv

\* finish() and reconcile_closed_context(): only the preparation's own attempt
\* becomes uncertain, and its lease ends with its context.
LEMMA FinishKeepsLeases ==
  ASSUME TypeOK, LeaseInv, NEW t \in Task,
         NEW outcome \in {"PREPARED_UNVERIFIED", "UNKNOWN_OUTCOME"}, NEW closed \in BOOLEAN,
         FinishPreparation(t, outcome, closed)
  PROVE  LeaseInv'
<1> DEFINE own == prep[t].attempt
<1>1. \A u \in Task : Live(u)' => Live(u) /\ row'[u].owner = row[u].owner
  BY UnleasedTyped DEF FinishPreparation, Live, TypeOK
<1>2. \A b \in Attempt :
        /\ runs'[b].task = runs[b].task /\ runs'[b].owner = runs[b].owner
        /\ runs'[b].outcome \in UNRESOLVED => runs[b].outcome \in UNRESOLVED \/ b = own
        /\ runs[b].outcome \in OUTCOMES => runs'[b].outcome \in OUTCOMES
  BY DEF FinishPreparation, TypeOK, Run, OUTCOMES, UNRESOLVED
<1>3. own \in Attempt => runs[own].task = t /\ runs[own].owner = prep[t].owner
  BY ConstantsAssumption DEF LeaseInv, AttemptOfPreparation
<1>4. \A u \in Task : Unresolved(u)' \subseteq Unresolved(u) \cup (IF u = t THEN {own} ELSE {})
  BY <1>2, <1>3 DEF Unresolved
<1>5. prep[t].state = "open"
  BY DEF FinishPreparation
<1>6. Unresolved(t) \subseteq {own}
  BY <1>5 DEF LeaseInv, OpenPreparation
<1>7. \A u \in Task : /\ prep'[u].attempt = prep[u].attempt /\ prep'[u].owner = prep[u].owner
                      /\ prep'[u].state = "open" => prep[u].state = "open"
                      /\ u # t => prep'[u].state = prep[u].state
                      /\ prep'[t].state = "open" \/ closed
  BY <1>5 DEF FinishPreparation, TypeOK, Approval
<1>8. OneLease'
  BY <1>1 DEF LeaseInv, OneLease
<1>9. NoReplay'
  <2> SUFFICES ASSUME NEW u \in Task, Live(u)', NEW b \in Unresolved(u)'
               PROVE  runs'[b].owner = row'[u].owner
    BY DEF NoReplay
  <2>1. b \in Attempt
    BY DEF Unresolved
  <2>2. CASE b \in Unresolved(u)
    BY <1>1, <1>2, <2>1, <2>2 DEF LeaseInv, NoReplay
  <2>3. CASE u = t /\ b = own
    <3>1. PreparationLease(t)
      BY <1>1, <1>5, <2>3 DEF LeaseInv, PreparationExcludesWorkers, WorkerLease
    <3> QED
      BY <1>1, <1>2, <1>3, <2>1, <2>3, <3>1 DEF PreparationLease
  <2> QED
    BY <1>4, <2>2, <2>3
<1>10. OneUnresolved'
  BY <1>4, <1>6 DEF LeaseInv, OneUnresolved
<1>11. PreparationExcludesWorkers'
  <2> SUFFICES ASSUME NEW u \in Task, prep'[u].state = "open", NEW v \in Task, WorkerLease(v)'
               PROVE  FALSE
    BY DEF PreparationExcludesWorkers
  <2>1. Live(v)' /\ Live(v) /\ row'[v].owner = row[v].owner
    BY <1>1 DEF WorkerLease
  <2>2. PreparationLease(v)
    BY <1>7, <2>1 DEF LeaseInv, PreparationExcludesWorkers, WorkerLease
  <2>3. v = t /\ closed
    BY <1>7, <2>1, <2>2 DEF WorkerLease, PreparationLease
  <2>4. ~row'[t].live
    BY <2>2, <2>3, UnleasedTyped DEF FinishPreparation, TypeOK
  <2> QED
    BY <2>1, <2>3, <2>4 DEF Live
<1>12. AttemptOfPreparation'
  <2>1. \A u \in Task : prep[u].attempt # NoAttempt => prep[u].attempt \in Attempt
    BY DEF TypeOK, Approval
  <2> QED
    BY <1>2, <1>7, <2>1 DEF LeaseInv, AttemptOfPreparation
<1>13. OpenPreparation'
  BY <1>4, <1>7 DEF LeaseInv, OpenPreparation
<1> QED
  BY <1>8, <1>9, <1>10, <1>11, <1>12, <1>13 DEF LeaseInv

\* The lease invariant is inductive.
LEMMA NextLeases == TypeOK /\ LeaseInv /\ [Next]_vars => LeaseInv'
BY StepKinds, QuietKeepsLeases, ClaimKeepsLeases, ConsumeKeepsLeases, BeginKeepsLeases,
   FinishKeepsLeases

\* Leases are exclusive, an unsettled attempt belongs to the holder, and an
\* open preparation excludes workers: claim(), consume(), begin_run_attempt(),
\* PreparationJournal and finish(), in any interleaving with expiry, pauses,
\* cancels, profile writes and late reports.
THEOREM LeasesAreExclusive ==
  Spec => [](OneLease /\ NoReplay /\ OneUnresolved /\ PreparationExcludesWorkers)
<1>1. Init => LeaseInv
  BY InitLeases
<1>2. TypeOK /\ TypeOK' /\ LeaseInv /\ [Next]_vars => LeaseInv'
  BY NextLeases
<1>3. LeaseInv => OneLease /\ NoReplay /\ OneUnresolved /\ PreparationExcludesWorkers
  BY DEF LeaseInv
<1> QED
  BY <1>1, <1>2, <1>3, Typing, PTL DEF Spec

-----------------------------------------------------------------------------
(***************************************************************************)
(* Boundaries.  A protected target never runs and a profile write fences   *)
(* readers, because a live task is never at a stage that begin_profile_-   *)
(* write() skips, and a confirmed target is never a landing page.          *)
(***************************************************************************)
LiveStage ==
  \A t \in Task : Live(t) => row[t].stage \notin {"ABSENT", "SUBMITTED", "VERIFIED", "CANCELLED"}
NoProtectedLanding == protected \cap landing = {}

BoundaryInv ==
  /\ ProtectedNeverRuns
  /\ BarrierFencesReaders
  /\ LiveStage
  /\ NoProtectedLanding

\* What a step may do to one row.
Kept(u) ==
  /\ row'[u].stage = row[u].stage /\ row'[u].blocker = row[u].blocker
  /\ row'[u].live => row[u].live /\ row'[u].owner = row[u].owner
Stopped(u) == ~row'[u].live /\ ~Runnable(row'[u])
Restarted(u) == ~row'[u].live /\ (u \notin protected \/ u \in landing)
Reported(u) ==
  /\ WorkerLease(u)
  /\ row'[u].stage \notin {"ABSENT", "SUBMITTED", "VERIFIED", "CANCELLED"}
Claimed(u) ==
  /\ Runnable(row[u]) /\ row'[u].stage \in SAFE_STAGES
  /\ barrier[profile_ref[u]] = NoTask
Prepared(u) ==
  /\ row'[u].stage = "BLOCKED" /\ barrier[profile_ref[u]] = NoTask
  /\ prep'[u].state = "open" /\ prep'[u].owner = row'[u].owner

RowKind(u) ==
  Kept(u) \/ Stopped(u) \/ Restarted(u) \/ Reported(u) \/ Claimed(u)
  \/ Prepared(u)

\* A row that claim()'s scan passes is kept or stopped.
LEMMA PassedKind ==
  ASSUME TypeOK, NEW S, NEW u \in Task, row'[u] = Passed(S, u)
  PROVE  Kept(u) \/ Stopped(u)
<1>r. row[u] \in Row
  BY DEF TypeOK
<1>1. CASE Passed(S, u) = Freed(u)
  BY <1>1, <1>r DEF Freed, Unleased, Row, Kept
<1>2. CASE Passed(S, u) = Settle(row[u], "BLOCKED", "unknown_outcome")
  BY <1>2, <1>r DEF Settle, Unleased, Row, Stopped, Runnable, SAFE_STAGES
<1>3. CASE Passed(S, u) = Settle(row[u], "ERROR", "retry_exhausted")
  BY <1>3, <1>r DEF Settle, Unleased, Row, Stopped, Runnable, SAFE_STAGES
<1> QED
  BY <1>1, <1>2, <1>3 DEF Passed

\* What any step does to any row is of one of the kinds above.
LEMMA RowKinds ==
  ASSUME TypeOK, [Next]_vars, NEW u \in Task
  PROVE  RowKind(u)
<1>r. \A t \in Task : row[t] \in Row
  BY DEF TypeOK
<1>0. ASSUME row' = row PROVE RowKind(u)
  BY <1>0 DEF RowKind, Kept
<1>1. ASSUME NEW t \in Task, LeaseExpires(t) PROVE RowKind(u)
  BY <1>1, <1>r DEF LeaseExpires, TypeOK, Row, RowKind, Kept
<1>2. ASSUME NEW t \in Task, BackoffElapses(t) PROVE RowKind(u)
  BY <1>2, <1>r DEF BackoffElapses, TypeOK, Row, RowKind, Kept
<1>3. ASSUME NEW t \in Task, Enqueue(t) PROVE RowKind(u)
  BY <1>3 DEF Enqueue, TypeOK, NoRow, RowKind, Kept, Restarted
<1>4. ASSUME NEW t \in Task, RetargetSameOriginLanding(t) PROVE RowKind(u)
  BY <1>4 DEF RetargetSameOriginLanding, TypeOK, NoRow, RowKind, Kept, Restarted
<1>5. CASE ClaimBusy
  <2>1. row'[u] = Freed(u)
    BY <1>5 DEF ClaimBusy
  <2> QED
    BY <2>1, <1>r DEF Freed, Unleased, Row, RowKind, Kept
<1>6. CASE ClaimNothing
  <2>1. row'[u] = Passed(Task, u)
    BY <1>6 DEF ClaimNothing
  <2> QED
    BY <2>1, PassedKind DEF RowKind
<1>7. ASSUME NEW t \in Task, NEW o \in Owner, ClaimTask(t, o) PROVE RowKind(u)
  <2>1. CASE u = t
    <3> DEFINE granted == [row[t] EXCEPT !.owner = o, !.live = TRUE,
                                         !.attempts = @ + 1, !.stage = row[t].checkpoint]
    <3>1. row'[t] = granted
      BY <1>7 DEF ClaimTask
    <3>2. granted.stage \in SAFE_STAGES
      BY <1>r DEF Row
    <3> HIDE DEF granted
    <3> QED
      BY <1>7, <2>1, <3>1, <3>2 DEF ClaimTask, Claimable, Eligible, RowKind, Claimed
  <2>2. CASE u # t
    <3>1. PICK S : row'[u] = Passed(S, u)
      BY <1>7, <2>2 DEF ClaimTask
    <3> QED
      BY <3>1, PassedKind DEF RowKind
  <2> QED
    BY <2>1, <2>2
<1>8. ASSUME NEW t \in Task, NEW report \in Reports, NEW release \in BOOLEAN,
             Checkpoint(t, report, release)
      PROVE  RowKind(u)
  <2> DEFINE kept == IF release THEN Unleased(row[t]) ELSE row[t]
             saved == [kept EXCEPT !.stage = report[1], !.blocker = report[2], !.paused = FALSE,
                         !.checkpoint = IF report[1] \in SAFE_STAGES THEN report[1] ELSE @,
                         !.due = report[2] # "retry_pending"]
  <2>1. kept \in Row
    BY <1>r, UnleasedTyped
  <2>2. row' = [row EXCEPT ![t] = saved] /\ WorkerLease(t) /\ row[t].live
    BY <1>8 DEF Checkpoint, WorkerLease, Live
  <2> HIDE DEF kept
  <2>3. saved.stage = report[1]
    BY <2>1 DEF Row
  <2>4. report[1] \notin {"ABSENT", "SUBMITTED", "VERIFIED", "CANCELLED"}
    BY ConstantsAssumption DEF STAGES, SAFE_STAGES, HUMAN_WAITS, STOPPED
  <2> HIDE DEF saved
  <2> QED
    BY <2>2, <2>3, <2>4 DEF TypeOK, RowKind, Kept, Reported
<1>9. ASSUME NEW t \in Task, NEW saved \in BOOLEAN, ConfirmHumanSubmission(t, saved)
      PROVE  RowKind(u)
  <2> DEFINE done == [row[t] EXCEPT !.stage = "SUBMITTED", !.blocker = "none", !.paused = FALSE]
  <2>1. ~done.live /\ done.stage = "SUBMITTED"
    BY <1>9, <1>r DEF ConfirmHumanSubmission, TypeOK, Row
  <2>2. row' = [row EXCEPT ![t] = done] \/ row' = row
    BY <1>9 DEF ConfirmHumanSubmission
  <2> HIDE DEF done
  <2> QED
    BY <2>1, <2>2 DEF TypeOK, RowKind, Kept, Stopped, Runnable, SAFE_STAGES
<1>10. ASSUME NEW t \in Task, row' = [row EXCEPT ![t] = ResumedRow(row[t])], ResumeAllowed(t)
       PROVE  RowKind(u)
  BY <1>10, <1>r, ResumedTyped DEF ResumeAllowed, TypeOK, RowKind, Kept, Restarted
<1>11. ASSUME NEW t \in Task, Pause(t) PROVE RowKind(u)
  BY <1>11, PausedTyped DEF Pause, TypeOK, RowKind, Kept, Stopped, Runnable, SAFE_STAGES
<1>12. ASSUME NEW t \in Task, Cancel(t) PROVE RowKind(u)
  <2> DEFINE gone == [Unleased(row[t]) EXCEPT !.stage = "CANCELLED"]
  <2>1. gone.stage = "CANCELLED" /\ ~gone.live
    BY <1>r DEF Unleased, Row
  <2>2. row' = [row EXCEPT ![t] = gone]
    BY <1>12 DEF Cancel
  <2> HIDE DEF gone
  <2> QED
    BY <2>1, <2>2 DEF TypeOK, RowKind, Kept, Stopped, Runnable, SAFE_STAGES
<1>13. ASSUME NEW t \in Task, SaveReusableAnswer(t) PROVE RowKind(u)
  <2> DEFINE saved == [row[t] EXCEPT !.stage = "BLOCKED", !.blocker = "profile_promotion_pending"]
  <2>1. saved.stage = "BLOCKED" /\ ~saved.live
    BY <1>13, <1>r DEF SaveReusableAnswer, TypeOK, Row
  <2>2. row' = [row EXCEPT ![t] = saved]
    BY <1>13 DEF SaveReusableAnswer
  <2> HIDE DEF saved
  <2> QED
    BY <2>1, <2>2 DEF TypeOK, RowKind, Kept, Stopped, Runnable, SAFE_STAGES
<1>14. ASSUME NEW t \in Task, BeginProfileWrite(t) PROVE RowKind(u)
  <2> DEFINE demoted == [Settle(row[u], "BLOCKED", "profile_changed") EXCEPT
                           !.checkpoint = "DISCOVERED"]
  <2>1. demoted.stage = "BLOCKED" /\ ~demoted.live
    BY <1>r DEF Settle, Unleased, Row
  <2>2. row'[u] = demoted \/ row'[u] = row[u]
    BY <1>14 DEF BeginProfileWrite
  <2> HIDE DEF demoted
  <2> QED
    BY <2>1, <2>2 DEF RowKind, Kept, Stopped, Runnable, SAFE_STAGES
<1>15. ASSUME NEW t \in Task, NEW o \in Owner, ConsumePreparation(t, o) PROVE RowKind(u)
  <2> DEFINE leased == [Settle(row[t], "BLOCKED", "anonymous_preparation_unverified")
                          EXCEPT !.owner = o, !.live = TRUE]
  <2>1. leased.stage = "BLOCKED" /\ leased.owner = o
    BY <1>r DEF Settle, Unleased, Row
  <2>2. row' = [row EXCEPT ![t] = leased]
    BY <1>15 DEF ConsumePreparation
  <2> HIDE DEF leased
  <2> QED
    BY ZenonT(40), <1>15, <2>1, <2>2 DEF ConsumePreparation, TypeOK, RowKind, Kept, Prepared
<1>16. ASSUME NEW t \in Task, NEW outcome \in {"PREPARED_UNVERIFIED", "UNKNOWN_OUTCOME"},
              NEW closed \in BOOLEAN, FinishPreparation(t, outcome, closed)
       PROVE  RowKind(u)
  <2>1. row' = [row EXCEPT ![t] = Unleased(row[t])] \/ row' = row
    BY <1>16 DEF FinishPreparation
  <2>2. Unleased(row[t]).stage = row[t].stage /\ Unleased(row[t]).blocker = row[t].blocker
        /\ ~Unleased(row[t]).live
    BY <1>r DEF Unleased, Row
  <2> QED
    BY <2>1, <2>2 DEF TypeOK, RowKind, Kept
<1>17. ASSUME NEW t \in Task, Resume(t) \/ FinishProfileWrite(t) PROVE RowKind(u)
  BY <1>0, <1>10, <1>17 DEF Resume, FinishProfileWrite
<1> QED
  BY <1>0, <1>1, <1>2, <1>3, <1>4, <1>5, <1>6, <1>7, <1>8, <1>9, <1>11, <1>12, <1>13, <1>14,
     <1>15, <1>16, <1>17
     DEF Next, Scheduling, Working, Commanding, Promoting, Preparing, vars,
         BeginRunAttempt, FinishRunAttempt, BeginPreparationAttempt, ReadTask

\* A fresh database has no protected target, no barrier and no live task.
LEMMA InitBoundaries == Init => BoundaryInv
BY DEF Init, BoundaryInv, ProtectedNeverRuns, BarrierFencesReaders, LiveStage,
       NoProtectedLanding, Live, NoRow

\* A worker lease is only won by claim(): in every other step of the queue, a
\* preparation lease stays one until it ends.
LEMMA WorkerLeaseIsOld ==
  ASSUME TypeOK, LeaseInv, [Next]_vars, NEW u \in Task, WorkerLease(u)'
  PROVE  WorkerLease(u) \/ Claimed(u)
<1>r. \A t \in Task : row[t] \in Row
  BY DEF TypeOK
<1>1. row'[u].live
  BY DEF WorkerLease, Live
<1>2. CASE Quiet
  BY <1>1, <1>2 DEF Quiet, WorkerLease, PreparationLease, Live
<1>3. ASSUME NEW t \in Task, NEW o \in Owner, ClaimTask(t, o) PROVE WorkerLease(u) \/ Claimed(u)
  <2>1. \A v \in Task : row'[v].live => v = t
    BY <1>3, PassedTyped DEF ClaimTask, NobodyLive, Live
  <2> DEFINE granted == [row[t] EXCEPT !.owner = o, !.live = TRUE,
                                       !.attempts = @ + 1, !.stage = row[t].checkpoint]
  <2>2. row'[t] = granted
    BY <1>3 DEF ClaimTask
  <2>3. granted.stage \in SAFE_STAGES
    BY <1>r DEF Row
  <2> HIDE DEF granted
  <2> QED
    BY <1>1, <1>3, <2>1, <2>2, <2>3 DEF ClaimTask, Claimable, Eligible, Claimed
<1>4. ASSUME NEW t \in Task, NEW o \in Owner, ConsumePreparation(t, o) PROVE FALSE
  <2>1. PreparationExcludesWorkers'
    BY <1>4, ConsumeKeepsLeases DEF LeaseInv
  <2>2. prep'[t].state = "open"
    BY <1>4 DEF ConsumePreparation, TypeOK
  <2> QED
    BY <2>1, <2>2 DEF PreparationExcludesWorkers
<1>5. ASSUME NEW t \in Task, NEW a \in Attempt, BeginRunAttempt(t, a) PROVE WorkerLease(u)
  BY <1>5 DEF BeginRunAttempt, WorkerLease, PreparationLease, Live
<1>6. ASSUME NEW t \in Task, NEW a \in Attempt, BeginPreparationAttempt(t, a) PROVE FALSE
  <2>1. PreparationExcludesWorkers'
    BY <1>6, BeginKeepsLeases DEF LeaseInv
  <2>2. prep'[t].state = "open"
    BY <1>6 DEF BeginPreparationAttempt, PreparationLease, TypeOK, Approval
  <2> QED
    BY <2>1, <2>2 DEF PreparationExcludesWorkers
<1>7. ASSUME NEW t \in Task, NEW outcome \in {"PREPARED_UNVERIFIED", "UNKNOWN_OUTCOME"},
             NEW closed \in BOOLEAN, FinishPreparation(t, outcome, closed)
      PROVE  WorkerLease(u)
  <2>1. row[u].live /\ row'[u].owner = row[u].owner
    BY <1>1, <1>7, UnleasedTyped DEF FinishPreparation, TypeOK
  <2>2. CASE PreparationLease(u)
    <3>1. CASE u = t /\ closed
      BY <1>1, <1>7, <2>2, <3>1, UnleasedTyped DEF FinishPreparation, TypeOK
    <3>2. CASE ~(u = t /\ closed)
      <4>1. prep'[u].state = "open" /\ prep'[u].owner = prep[u].owner
        BY <1>7, <2>2, <3>2 DEF FinishPreparation, PreparationLease, TypeOK, Approval
      <4> QED
        BY <2>1, <2>2, <4>1 DEF WorkerLease, PreparationLease
    <3> QED
      BY <3>1, <3>2
  <2> QED
    BY <2>1, <2>2 DEF WorkerLease, Live
<1> QED
  BY <1>2, <1>3, <1>4, <1>5, <1>6, <1>7, StepKinds

\* The boundary invariant is inductive, relative to types and leases.
LEMMA NextBoundaries == TypeOK /\ TypeOK' /\ LeaseInv /\ BoundaryInv /\ [Next]_vars => BoundaryInv'
<1> SUFFICES ASSUME TypeOK, TypeOK', LeaseInv, BoundaryInv, [Next]_vars PROVE BoundaryInv'
  OBVIOUS
<1>1. \A u \in Task : RowKind(u)
  BY RowKinds
<1>2. \A u \in Task : row[u].stage \notin {"ABSENT", "SUBMITTED", "VERIFIED", "CANCELLED"}
                        \/ ~row[u].live
  BY DEF BoundaryInv, LiveStage, Live
<1>3. protected' = protected \/ \E t \in Task : /\ protected' = protected \cup {t}
                                               /\ row[t].stage = "READY_TO_SUBMIT" /\ ~row[t].live
                                               /\ t \notin landing /\ landing' = landing
                                               /\ row'[t].stage \in {"READY_TO_SUBMIT", "SUBMITTED"}
                                               /\ ~row'[t].live
  <2>1. ASSUME NEW t \in Task, NEW saved \in BOOLEAN, ConfirmHumanSubmission(t, saved)
        PROVE  /\ protected' = protected \cup {t}
               /\ row[t].stage = "READY_TO_SUBMIT" /\ ~row[t].live
               /\ t \notin landing /\ landing' = landing
               /\ row'[t].stage \in {"READY_TO_SUBMIT", "SUBMITTED"}
               /\ ~row'[t].live
    <3> DEFINE done == [row[t] EXCEPT !.stage = "SUBMITTED", !.blocker = "none", !.paused = FALSE]
    <3>1. row[t] \in Row /\ ~row[t].live
      BY <2>1 DEF ConfirmHumanSubmission, TypeOK
    <3>2. ~done.live /\ done.stage = "SUBMITTED"
      BY <3>1 DEF Row
    <3>3. row' = [row EXCEPT ![t] = done] \/ row' = row
      BY <2>1 DEF ConfirmHumanSubmission
    <3> HIDE DEF done
    <3> QED
      BY <2>1, <3>1, <3>2, <3>3 DEF ConfirmHumanSubmission, TypeOK
  <2> QED
    BY <2>1 DEF Next, Scheduling, Working, Commanding, Promoting, Preparing, vars,
       LeaseExpires, BackoffElapses, Enqueue, RetargetSameOriginLanding, ClaimBusy,
       ClaimNothing, ClaimTask, Checkpoint, BeginRunAttempt, FinishRunAttempt, Resume, Pause,
       Cancel, ReadTask, SaveReusableAnswer, BeginProfileWrite, FinishProfileWrite,
       ConsumePreparation, BeginPreparationAttempt, FinishPreparation
<1>4. landing' \subseteq landing
  BY DEF Next, Scheduling, Working, Commanding, Promoting, Preparing, vars,
     LeaseExpires, BackoffElapses, Enqueue, RetargetSameOriginLanding, ClaimBusy,
     ClaimNothing, ClaimTask, Checkpoint, BeginRunAttempt, FinishRunAttempt,
     ConfirmHumanSubmission, Resume, Pause, Cancel, ReadTask, SaveReusableAnswer,
     BeginProfileWrite, FinishProfileWrite, ConsumePreparation, BeginPreparationAttempt,
     FinishPreparation
<1>5. NoProtectedLanding'
  BY <1>3, <1>4 DEF BoundaryInv, NoProtectedLanding
<1>6. LiveStage'
  <2> SUFFICES ASSUME NEW u \in Task, row'[u].live
               PROVE  row'[u].stage \notin {"ABSENT", "SUBMITTED", "VERIFIED", "CANCELLED"}
    BY DEF LiveStage, Live
  <2> QED
    BY <1>1, <1>2
       DEF RowKind, Kept, Stopped, Restarted, Reported, Claimed, Prepared, SAFE_STAGES
<1>7. ProtectedNeverRuns'
  <2> SUFFICES ASSUME NEW u \in protected' PROVE ~Runnable(row'[u]) /\ ~WorkerLease(u)'
    BY DEF ProtectedNeverRuns
  <2>0. u \in Task
    BY DEF TypeOK
  <2>1. CASE u \in protected
    <3>1. ~Runnable(row[u]) /\ ~WorkerLease(u) /\ u \notin landing
      BY <2>1 DEF BoundaryInv, ProtectedNeverRuns, NoProtectedLanding
    <3>2. ~WorkerLease(u)'
      BY <2>0, <3>1, WorkerLeaseIsOld DEF Claimed
    <3>3. Kept(u) => ~Runnable(row'[u])
      BY <3>1 DEF Kept, Runnable
    <3>4. Prepared(u) => ~Runnable(row'[u])
      BY DEF Prepared, Runnable, SAFE_STAGES
    <3>5. Stopped(u) => ~Runnable(row'[u])
      BY DEF Stopped
    <3>6. ~Restarted(u) /\ ~Reported(u) /\ ~Claimed(u)
      BY <2>1, <3>1 DEF Restarted, Reported, Claimed
    <3> QED
      BY <1>1, <2>0, <3>2, <3>3, <3>4, <3>5, <3>6 DEF RowKind
  <2>2. CASE u \notin protected
    BY <1>3, <2>0, <2>2 DEF Runnable, SAFE_STAGES, WorkerLease, Live
  <2> QED
    BY <2>1, <2>2
<1>8. BarrierFencesReaders'
  <2> SUFFICES ASSUME NEW u \in Task, barrier'[profile_ref[u]] \notin {NoTask, u}, row'[u].live
               PROVE  FALSE
    BY DEF BarrierFencesReaders, Live
  <2>1. CASE barrier' = barrier
    <3>1. barrier[profile_ref[u]] # NoTask /\ ~row[u].live
      BY <2>1 DEF BoundaryInv, BarrierFencesReaders, Live
    <3> QED
      BY <1>1, <3>1 DEF RowKind, Kept, Stopped, Restarted, Reported, WorkerLease, Live,
         Claimed, Prepared
  <2>2. ASSUME NEW t \in Task, BeginProfileWrite(t) PROVE FALSE
    <3>1. row'[u].live => row[u].live /\ row'[u] = row[u]
      <4> DEFINE demoted == [Settle(row[u], "BLOCKED", "profile_changed") EXCEPT
                               !.checkpoint = "DISCOVERED"]
      <4>1. ~demoted.live
        BY DEF TypeOK, Settle, Unleased, Row
      <4>2. row'[u] = demoted \/ row'[u] = row[u]
        BY <2>2 DEF BeginProfileWrite
      <4> HIDE DEF demoted
      <4> QED
        BY <4>1, <4>2
    <3>2. row[u].live /\ row[u].stage \notin {"ABSENT", "SUBMITTED", "VERIFIED", "CANCELLED"}
      BY <1>2, <3>1
    <3>3. barrier[profile_ref[u]] \in {NoTask, u}
      BY <3>2 DEF BoundaryInv, BarrierFencesReaders, Live
    <3>4. profile_ref[u] = profile_ref[t] /\ u # t
      BY <2>2, <3>3, ConstantsAssumption DEF BeginProfileWrite, TypeOK
    <3>5. row'[u] = [Settle(row[u], "BLOCKED", "profile_changed") EXCEPT
                       !.checkpoint = "DISCOVERED"]
      BY <2>2, <3>2, <3>4 DEF BeginProfileWrite, Exists
    <3> QED
      BY <3>5 DEF TypeOK, Settle, Unleased, Row
  <2>3. ASSUME NEW t \in Task, FinishProfileWrite(t) PROVE FALSE
    <3>1. barrier[profile_ref[u]] \notin {NoTask, u}
      BY <2>3, ConstantsAssumption DEF FinishProfileWrite, TypeOK
    <3>2. ~row[u].live
      BY <3>1 DEF BoundaryInv, BarrierFencesReaders, Live
    <3>3. row' = row \/ row' = [row EXCEPT ![t] = ResumedRow(row[t])]
      BY <2>3 DEF FinishProfileWrite
    <3> QED
      BY <3>2, <3>3, ResumedTyped DEF TypeOK
  <2> QED
    BY <2>1, <2>2, <2>3
       DEF Next, Scheduling, Working, Commanding, Promoting, Preparing, vars,
         LeaseExpires, BackoffElapses, Enqueue, RetargetSameOriginLanding, ClaimBusy,
         ClaimNothing, ClaimTask, Checkpoint, BeginRunAttempt, FinishRunAttempt,
         ConfirmHumanSubmission, Resume, Pause, Cancel, ReadTask, SaveReusableAnswer,
         ConsumePreparation, BeginPreparationAttempt, FinishPreparation
<1> QED
  BY <1>5, <1>6, <1>7, <1>8 DEF BoundaryInv

\* A confirmed submission and a profile being written are boundaries nobody
\* crosses: confirm_human_submission(), begin_profile_write(), and everything
\* that can make a task runnable or live.
THEOREM BoundariesHold == Spec => [](ProtectedNeverRuns /\ BarrierFencesReaders)
<1>1. Init => LeaseInv /\ BoundaryInv
  BY InitLeases, InitBoundaries
<1>2. TypeOK /\ TypeOK' /\ LeaseInv /\ BoundaryInv /\ [Next]_vars => LeaseInv' /\ BoundaryInv'
  BY NextLeases, NextBoundaries
<1>3. BoundaryInv => ProtectedNeverRuns /\ BarrierFencesReaders
  BY DEF BoundaryInv
<1> QED
  BY <1>1, <1>2, <1>3, Typing, PTL DEF Spec

-----------------------------------------------------------------------------
(***************************************************************************)
(* The queue implements SiteAccess.                                        *)
(***************************************************************************)
\* With one lease at most, the holder is the task that is live.
LEMMA HolderIsLive ==
  ASSUME OneLease, NEW t \in Task, Live(t)
  PROVE  Holder = t
BY DEF OneLease, Holder, NobodyLive

\* A step that grants no lease leaves the holder or ends it.
LEMMA HolderShrinks ==
  ASSUME OneLease, OneLease', \A u \in Task : Live(u)' => Live(u)
  PROVE  Holder' \in {Holder, NoTask}
<1>1. CASE NobodyLive'
  BY <1>1 DEF Holder
<1>2. CASE ~NobodyLive'
  <2>1. PICK u \in Task : Live(u)'
    BY <1>2 DEF NobodyLive
  <2>2. Holder = u
    BY <2>1, HolderIsLive
  <2>3. Holder' = u
    BY <2>1 DEF OneLease, Holder, NobodyLive
  <2> QED
    BY <2>2, <2>3
<1> QED
  BY <1>1, <1>2

\* A step that settles nothing and starts nothing only adds doubt.
OnlyDoubts ==
  \A a \in Attempt :
    \/ runs'[a] = runs[a]
    \/ runs'[a].task = runs[a].task /\ runs'[a].outcome = "UNKNOWN_OUTCOME"

\* A step that only doubts attempts leaves a task's trust or makes it unknown.
LEMMA DoubtsInTrust ==
  ASSUME OnlyDoubts, NEW t \in Task
  PROVE  Trust(t)' = Trust(t) \/ Trust(t)' = "unknown"
<1>1. CASE \E a \in Attempt : runs[a].task = t /\ runs'[a] # runs[a]
  BY <1>1 DEF OnlyDoubts, Trust, Unresolved, UNRESOLVED
<1>2. CASE \A a \in Attempt : runs[a].task = t => runs'[a] = runs[a]
  <2>1. \A a \in Attempt : runs'[a].task = t <=> runs[a].task = t
    BY DEF OnlyDoubts
  <2>2. Unresolved(t)' = Unresolved(t) /\ \A a \in Unresolved(t) : runs'[a] = runs[a]
    BY <1>2, <2>1 DEF Unresolved
  <2> QED
    BY <2>2 DEF Trust
<1> QED
  BY <1>1, <1>2

\* claim()'s sweep only doubts attempts.
LEMMA RunsAfterScanDoubts ==
  ASSUME TypeOK, NEW S, runs' = RunsAfterScan(S)
  PROVE  OnlyDoubts
BY DEF TypeOK, Run, RunsAfterScan, OnlyDoubts

\* Every step but a return and a beginning of an attempt only doubts attempts.
LEMMA StepDoubts ==
  ASSUME TypeOK, [Next]_vars
  PROVE  \/ OnlyDoubts
         \/ \E a \in Attempt : FinishRunAttempt(a, "RETURNED_UNVERIFIED")
         \/ \E t \in Task, a \in Attempt : BeginRunAttempt(t, a) \/ BeginPreparationAttempt(t, a)
<1>0. ASSUME runs' = runs PROVE OnlyDoubts
  BY <1>0 DEF OnlyDoubts
<1>1. CASE ClaimNothing
  BY <1>1, RunsAfterScanDoubts DEF ClaimNothing
<1>2. ASSUME NEW t \in Task, NEW o \in Owner, ClaimTask(t, o) PROVE OnlyDoubts
  BY <1>2, RunsAfterScanDoubts DEF ClaimTask
<1>3. ASSUME NEW a \in Attempt, FinishRunAttempt(a, "UNKNOWN_OUTCOME") PROVE OnlyDoubts
  BY <1>3 DEF FinishRunAttempt, TypeOK, Run, OnlyDoubts
<1>4. ASSUME NEW t \in Task, NEW outcome \in {"PREPARED_UNVERIFIED", "UNKNOWN_OUTCOME"},
             NEW closed \in BOOLEAN, FinishPreparation(t, outcome, closed)
      PROVE  OnlyDoubts
  BY <1>4 DEF FinishPreparation, TypeOK, Run, OnlyDoubts
<1> QED
  BY <1>0, <1>1, <1>2, <1>3, <1>4
     DEF Next, Scheduling, Working, Commanding, Promoting, Preparing, vars,
       LeaseExpires, BackoffElapses, Enqueue, RetargetSameOriginLanding, ClaimBusy,
       Checkpoint, ConfirmHumanSubmission, Resume, Pause, Cancel, ReadTask,
       SaveReusableAnswer, BeginProfileWrite, FinishProfileWrite, ConsumePreparation

\* In SiteAccess, doubts with an unchanged or ended access are a Revoke.
LEMMA DoubtsAreRevoke ==
  ASSUME OneLease, OneLease', OnlyDoubts, \A u \in Task : Live(u)' => Live(u)
  PROVE  Access!Next
<1> DEFINE doubted == {t \in Task : Trust(t)' # Trust(t)}
<1>1. [t \in Task |-> Trust(t)]' =
        [t \in Task |-> IF t \in doubted THEN "unknown" ELSE [u \in Task |-> Trust(u)][t]]
  BY DoubtsInTrust
<1>2. Holder' \in {Holder, NoTask}
  BY HolderShrinks
<1>3. Access!Revoke(doubted)
  BY <1>1, <1>2 DEF Access!Revoke
<1> QED
  BY <1>3 DEF Access!Next

\* In SiteAccess, a lease for a task without an unsettled attempt, given when
\* nobody is live, is a Grant.
LEMMA GrantIsGrant ==
  ASSUME OneLease', OnlyDoubts, NEW t \in Task, NobodyLive, Live(t)',
         Unresolved(t) = {}, Unresolved(t)' = {}
  PROVE  Access!Next
<1> DEFINE doubted == {u \in Task : Trust(u)' # Trust(u)}
<1>1. Holder = NoTask /\ Holder' = t
  BY DEF Holder, NobodyLive, OneLease
<1>2. Trust(t) = "settled" /\ Trust(t)' = "settled"
  BY DEF Trust
<1>3. [u \in Task |-> Trust(u)]' =
        [u \in Task |-> IF u \in doubted THEN "unknown" ELSE [v \in Task |-> Trust(v)][u]]
  BY DoubtsInTrust
<1>4. t \notin doubted
  BY <1>2
<1>5. Access!Grant(t, doubted)
  BY <1>1, <1>2, <1>3, <1>4 DEF Access!Grant
<1> QED
  BY <1>5 DEF Access!Next

\* Every step of the queue is a step of SiteAccess or leaves it unchanged.
LEMMA StepImplements ==
  ASSUME TypeOK, TypeOK', LeaseInv, LeaseInv', [Next]_vars
  PROVE  [Access!Next]_(Access!vars)
<1>0. OneLease /\ OneLease' /\ OneUnresolved
  BY DEF LeaseInv
<1>1. ASSUME NEW a \in Attempt, FinishRunAttempt(a, "RETURNED_UNVERIFIED")
      PROVE  [Access!Next]_(Access!vars)
  <2>1. row' = row /\ Holder' = Holder
    BY <1>1 DEF FinishRunAttempt, Holder, NobodyLive, Live
  <2>2. runs[a].outcome = "ATTEMPTED" /\ runs'[a].task = runs[a].task
        /\ runs'[a].outcome = "RETURNED_UNVERIFIED"
        /\ \A b \in Attempt \ {a} : runs'[b] = runs[b]
    BY <1>1 DEF FinishRunAttempt, TypeOK, Run
  <2>3. CASE runs[a].task \in Task
    <3>0. PICK t \in Task : t = runs[a].task
      BY <2>3
    <3>1. Unresolved(t) = {a} /\ Unresolved(t)' = {}
      BY <1>0, <2>2, <3>0 DEF OneUnresolved, Unresolved, UNRESOLVED
    <3>2. Trust(t) = "open" /\ Trust(t)' = "settled"
      BY <2>2, <3>1 DEF Trust
    <3>3. \A u \in Task \ {t} : Unresolved(u)' = Unresolved(u)
                              /\ \A b \in Unresolved(u) : runs'[b] = runs[b]
      BY <2>2, <3>0 DEF Unresolved
    <3>4. \A u \in Task \ {t} : Trust(u)' = Trust(u)
      BY <3>3 DEF Trust
    <3>5. [u \in Task |-> Trust(u)]' = [[u \in Task |-> Trust(u)] EXCEPT ![t] = "settled"]
      BY <3>2, <3>4
    <3>6. Access!Report(t)
      BY <2>1, <3>2, <3>5 DEF Access!Report
    <3> QED
      BY <3>6 DEF Access!Next
  <2>4. CASE runs[a].task \notin Task
    <3>1. \A u \in Task : Unresolved(u)' = Unresolved(u)
                        /\ \A b \in Unresolved(u) : runs'[b] = runs[b]
      BY <2>2, <2>4 DEF Unresolved
    <3>2. \A u \in Task : Trust(u)' = Trust(u)
      BY <3>1 DEF Trust
    <3> QED
      BY <2>1, <3>2 DEF Access!vars
  <2> QED
    BY <2>3, <2>4
<1>2. ASSUME NEW t \in Task, NEW a \in Attempt, BeginRunAttempt(t, a) \/ BeginPreparationAttempt(t, a)
      PROVE  Access!Next
  <2>0. row' = row
    BY <1>2 DEF BeginRunAttempt, BeginPreparationAttempt
  <2>1. Holder' = Holder
    BY <2>0 DEF Holder, NobodyLive, Live
  <2>2. Live(t) /\ Unresolved(t) = {}
    <3>1. CASE BeginRunAttempt(t, a)
      BY <3>1 DEF BeginRunAttempt, WorkerLease
    <3>2. CASE BeginPreparationAttempt(t, a)
      BY <3>2, ConstantsAssumption
         DEF BeginPreparationAttempt, PreparationLease, LeaseInv, OpenPreparation, Unresolved
    <3> QED
      BY <1>2, <3>1, <3>2
  <2>3. runs[a] = NoRun
        /\ runs' = [runs EXCEPT ![a] = [task |-> t, owner |-> row[t].owner, outcome |-> "ATTEMPTED"]]
    BY <1>2 DEF BeginRunAttempt, BeginPreparationAttempt, PreparationLease
  <2>4. Holder = t
    BY <1>0, <2>2, HolderIsLive
  <2>5. Unresolved(t)' = {a} /\ runs'[a].outcome = "ATTEMPTED"
    BY <2>2, <2>3 DEF Unresolved, TypeOK, UNRESOLVED
  <2>6. Trust(t) = "settled" /\ Trust(t)' = "open"
    BY <2>2, <2>5 DEF Trust
  <2>7. \A u \in Task \ {t} : Unresolved(u)' = Unresolved(u)
                            /\ \A b \in Unresolved(u) : runs'[b] = runs[b]
    BY <2>3 DEF Unresolved, TypeOK, NoRun, UNRESOLVED
  <2>8. \A u \in Task \ {t} : Trust(u)' = Trust(u)
    BY <2>7 DEF Trust
  <2>9. [u \in Task |-> Trust(u)]' = [[u \in Task |-> Trust(u)] EXCEPT ![t] = "open"]
    BY <2>6, <2>8
  <2>10. Access!Act(t)
    BY <2>1, <2>4, <2>6, <2>9 DEF Access!Act
  <2> QED
    BY <2>10 DEF Access!Next
<1>3. ASSUME NEW t \in Task, NEW o \in Owner, ClaimTask(t, o) PROVE Access!Next
  <2>1. NobodyLive /\ Unresolved(t) = {}
    BY <1>3 DEF ClaimTask, Claimable
  <2>2. OnlyDoubts
    BY <1>3, RunsAfterScanDoubts DEF ClaimTask
  <2>3. Unresolved(t)' = {}
    BY <1>3, <2>1, RunsAfterScanQuiet DEF ClaimTask, Unresolved
  <2>4. Live(t)'
    <3>1. row'[t] = [row[t] EXCEPT !.owner = o, !.live = TRUE,
                                   !.attempts = @ + 1, !.stage = row[t].checkpoint]
      BY <1>3 DEF ClaimTask
    <3>2. row[t] \in Row
      BY DEF TypeOK
    <3> QED
      BY <3>1, <3>2 DEF Live, Row
  <2> QED
    BY <1>0, <2>1, <2>2, <2>3, <2>4, GrantIsGrant
<1>4. ASSUME NEW t \in Task, NEW o \in Owner, ConsumePreparation(t, o) PROVE Access!Next
  <2>1. NobodyLive /\ runs' = runs
    BY <1>4 DEF ConsumePreparation
  <2>2. OnlyDoubts /\ Unresolved(t)' = Unresolved(t)
    BY <2>1 DEF OnlyDoubts, Unresolved
  <2>3. prep'[t].state = "open" /\ prep'[t].attempt = NoAttempt
    BY <1>4 DEF ConsumePreparation, TypeOK
  <2>4. Unresolved(t)' = {}
    BY <2>3, ConstantsAssumption DEF LeaseInv, OpenPreparation, Unresolved
  <2>5. Live(t)'
    BY <1>4 DEF ConsumePreparation, Live, TypeOK, Settle, Unleased, Row
  <2> QED
    BY <1>0, <2>1, <2>2, <2>4, <2>5, GrantIsGrant
<1>5. ASSUME OnlyDoubts, Quiet PROVE Access!Next
  BY <1>0, <1>5, DoubtsAreRevoke DEF Quiet, Live
<1>6. ASSUME NEW t \in Task, NEW outcome \in {"PREPARED_UNVERIFIED", "UNKNOWN_OUTCOME"},
             NEW closed \in BOOLEAN, FinishPreparation(t, outcome, closed)
      PROVE  Access!Next
  <2>1. OnlyDoubts
    BY <1>6 DEF FinishPreparation, TypeOK, Run, OnlyDoubts
  <2>2. \A u \in Task : Live(u)' => Live(u)
    BY <1>6, UnleasedTyped DEF FinishPreparation, Live, TypeOK
  <2> QED
    BY <1>0, <2>1, <2>2, DoubtsAreRevoke
<1> QED
  BY <1>1, <1>2, <1>3, <1>4, <1>5, <1>6, StepKinds, StepDoubts

\* Every behaviour of the queue is a behaviour of SiteAccess: the initial state
\* maps to its initial state and every step to a step of it or to a stutter.
THEOREM Refinement == Spec => ImplementsSiteAccess
<1>1. Init => Access!Init
  BY DEF Init, Access!Init, Holder, NobodyLive, Live, NoRow, Trust, Unresolved, NoRun,
         UNRESOLVED
<1>2. Init => LeaseInv
  BY InitLeases
<1>3. TypeOK /\ TypeOK' /\ LeaseInv /\ [Next]_vars => LeaseInv'
  BY NextLeases
<1>4. TypeOK /\ TypeOK' /\ LeaseInv /\ LeaseInv' /\ [Next]_vars => [Access!Next]_(Access!vars)
  BY StepImplements
<1> QED
  BY <1>1, <1>2, <1>3, <1>4, Typing, PTL DEF Spec, ImplementsSiteAccess, Access!Spec


-----------------------------------------------------------------------------
(***************************************************************************)
(* What a step may never do to a row.  The three action properties follow, *)
(* row by row, from one invariant: only a stopped row owes a               *)
(* reconciliation, so neither a claim nor a saved answer meets one.        *)
(***************************************************************************)
OwingRowsStand ==
  \A t \in Task : row[t].blocker \in RECONCILIATION_REQUIRED => row[t].stage \in {"BLOCKED", "CANCELLED"}

Forgotten(u) == \A c \in Client : known'[c] # u
KeepsHumanBoundary(u) ==
  /\ row[u].stage = "READY_TO_SUBMIT" =>
       \/ row'[u].stage \in {"READY_TO_SUBMIT", "SUBMITTED", "CANCELLED"}
       \/ row'[u].stage = "BLOCKED" /\ row'[u].blocker = "profile_changed"
  /\ row[u].stage \in {"SUBMITTED", "CANCELLED"} => row'[u].stage = row[u].stage
KeepsDebt(u) ==
  row[u].blocker \in RECONCILIATION_REQUIRED /\ ~Live(u)
    /\ row'[u].blocker \notin RECONCILIATION_REQUIRED =>
  row'[u].blocker = "profile_changed" \/ u \in landing \ landing'
IsNoticed(u) == View(row'[u]) # View(row[u]) => Forgotten(u)
StaysStanding(u) ==
  row'[u].blocker \in RECONCILIATION_REQUIRED => row'[u].stage \in {"BLOCKED", "CANCELLED"}

Lawful(u) == KeepsHumanBoundary(u) /\ KeepsDebt(u) /\ IsNoticed(u) /\ StaysStanding(u)

\* _event() leaves no client with the revision of a task it is about.
LEMMA EventForgets ==
  ASSUME TypeOK, NEW S, Event(S), NEW u \in Task, u \in S
  PROVE  Forgotten(u)
BY ConstantsAssumption DEF TypeOK, Event, Forgotten

\* A row of which only the lease or the backoff changes is treated lawfully.
LEMMA SameView ==
  ASSUME OwingRowsStand, NEW u \in Task, row'[u].stage = row[u].stage,
         row'[u].blocker = row[u].blocker, View(row'[u]) = View(row[u])
  PROVE  Lawful(u)
BY DEF OwingRowsStand, Lawful, KeepsHumanBoundary, KeepsDebt, IsNoticed, StaysStanding

\* A lease that is taken away is nothing the owner of the task sees.
LEMMA UnleasedView ==
  ASSUME NEW r \in Row
  PROVE  /\ Unleased(r).stage = r.stage /\ Unleased(r).blocker = r.blocker
         /\ View(Unleased(r)) = View(r)
BY DEF Row, Unleased, View

\* The rows claim()'s scan blocks or fails are runnable, so they owe nothing.
LEMMA PassedLawful ==
  ASSUME TypeOK, OwingRowsStand, NEW S, NEW u \in Task, row'[u] = Passed(S, u),
         u \in ScanEvents(S) => Forgotten(u)
  PROVE  Lawful(u)
<1>r. row[u] \in Row
  BY DEF TypeOK
<1>1. CASE row'[u] = Freed(u)
  BY <1>r, <1>1, UnleasedView, SameView DEF Freed
<1>2. CASE u \in S /\ Uncertain(u)
  <2>1. row'[u].stage = "BLOCKED" /\ row'[u].blocker = "unknown_outcome"
    BY <1>r, <1>2 DEF Passed, Settle, Unleased, Row
  <2>2. Forgotten(u)
    BY <1>2 DEF ScanEvents
  <2>3. row[u].stage \in SAFE_STAGES \cup {"ERROR"}
    BY <1>2 DEF Uncertain, Eligible, Runnable
  <2> QED
    BY <2>1, <2>2, <2>3 DEF Lawful, KeepsHumanBoundary, KeepsDebt, IsNoticed, StaysStanding,
                            SAFE_STAGES, RECONCILIATION_REQUIRED
<1>3. CASE u \in S /\ ~Uncertain(u) /\ Exhausted(u)
  <2>1. row'[u].stage = "ERROR" /\ row'[u].blocker = "retry_exhausted"
    BY <1>r, <1>3 DEF Passed, Settle, Unleased, Row
  <2>2. Forgotten(u)
    BY <1>3 DEF ScanEvents
  <2>3. row[u].stage \in SAFE_STAGES \cup {"ERROR"}
    BY <1>3 DEF Exhausted, Eligible, Runnable
  <2>4. row[u].blocker \notin RECONCILIATION_REQUIRED
    BY <2>3 DEF OwingRowsStand, SAFE_STAGES
  <2>5. "retry_exhausted" \notin RECONCILIATION_REQUIRED
    BY DEF RECONCILIATION_REQUIRED
  <2> QED
    BY <2>1, <2>2, <2>3, <2>4, <2>5 DEF Lawful, KeepsHumanBoundary, KeepsDebt, IsNoticed, StaysStanding,
                                       SAFE_STAGES
<1> QED
  BY <1>1, <1>2, <1>3 DEF Passed

\* A resumed row was not stopped, submitted or cancelled, and owes nothing.
LEMMA ResumedLawful ==
  ASSUME TypeOK, OwingRowsStand, NEW u \in Task, ResumeAllowed(u), row'[u] = ResumedRow(row[u]), Forgotten(u)
  PROVE  Lawful(u)
<1>r. row[u] \in Row
  BY DEF TypeOK
<1>1. row'[u].blocker = "none"
  <2>1. Unleased(row[u]) \in Row
    BY <1>r, UnleasedTyped
  <2> QED
    BY <2>1 DEF ResumedRow, Row
<1>2. "none" \notin RECONCILIATION_REQUIRED
  BY DEF RECONCILIATION_REQUIRED
<1> QED
  BY <1>1, <1>2 DEF ResumeAllowed, Lawful, KeepsHumanBoundary, KeepsDebt, IsNoticed, StaysStanding, STOPPED

\* A pause of a row that owes a reconciliation keeps its blocker.
LEMMA PausedLawful ==
  ASSUME TypeOK, OwingRowsStand, NEW u \in Task, PauseAllowed(u), row'[u] = PausedRow(u), Forgotten(u)
  PROVE  Lawful(u)
<1> DEFINE s == Settle(row[u], "BLOCKED", PauseOrigin(row[u]))
           n == IF WorkerLease(u) /\ s.attempts > 0 THEN s.attempts - 1 ELSE s.attempts
<1>r. row[u] \in Row
  BY DEF TypeOK
<1>1. s.blocker = PauseOrigin(row[u])
  BY <1>r DEF Settle, Unleased, Row
<1>2. row'[u] = [s EXCEPT !.paused = TRUE, !.due = TRUE, !.attempts = n]
  BY DEF PausedRow
<1>3. row'[u].stage = "BLOCKED" /\ row'[u].blocker = PauseOrigin(row[u])
  <2>1. PausedRow(u).stage = "BLOCKED"
    BY PausedTyped
  <2>2. {"BLOCKED"} \subseteq STAGES /\ PauseOrigin(row[u]) \in BLOCKERS
    BY <1>r DEF PauseOrigin, Row, BLOCKERS, CHECKPOINT_BLOCKERS, RETRYABLE_BLOCKS, OTP_WAITS, STAGES
  <2>3. s \in Row
    BY <1>r, <2>2, SettleTyped
  <2> HIDE DEF s, n
  <2> QED
    BY <1>1, <1>2, <2>1, <2>3 DEF Row
<1>4. row[u].blocker \in RECONCILIATION_REQUIRED => PauseOrigin(row[u]) = row[u].blocker
  <2>1. SUFFICES ASSUME row[u].blocker \in RECONCILIATION_REQUIRED
                 PROVE  PauseOrigin(row[u]) = row[u].blocker
    OBVIOUS
  <2>2. row[u].stage = "BLOCKED" /\ row[u].paused \in BOOLEAN
    BY <1>r, <2>1 DEF OwingRowsStand, PauseAllowed, STOPPED, Row
  <2> QED
    BY <2>1, <2>2 DEF PauseOrigin
<1> HIDE DEF s, n
<1> QED
  BY <1>3, <1>4 DEF PauseAllowed, Lawful, KeepsHumanBoundary, KeepsDebt, IsNoticed, StaysStanding, STOPPED

\* Whatever a step does to a row is lawful, one step per method.
LEMMA RowsLawful ==
  ASSUME TypeOK, OwingRowsStand, [Next]_vars, NEW u \in Task
  PROVE  Lawful(u)
<1>r. \A t \in Task : row[t] \in Row
  BY DEF TypeOK
<1>0. ASSUME row'[u] = row[u] PROVE Lawful(u)
  BY <1>0, SameView
<1>1. ASSUME NEW t \in Task, LeaseExpires(t) PROVE Lawful(u)
  <2>1. CASE u = t
    BY <1>1, <1>r, <2>1, SameView DEF LeaseExpires, TypeOK, Row, View
  <2> QED
    BY <1>0, <1>1, <2>1 DEF LeaseExpires, TypeOK
<1>2. ASSUME NEW t \in Task, BackoffElapses(t) PROVE Lawful(u)
  <2>1. CASE u = t
    BY <1>2, <1>r, <2>1, SameView DEF BackoffElapses, TypeOK, Row, View
  <2> QED
    BY <1>0, <1>2, <2>1 DEF BackoffElapses, TypeOK
<1>3. ASSUME NEW t \in Task, Enqueue(t) PROVE Lawful(u)
  <2>1. CASE u = t
    <3>1. row'[u].stage = "DISCOVERED" /\ row'[u].blocker = "none"
      BY <1>3, <2>1 DEF Enqueue, TypeOK, NoRow
    <3>2. row[u].stage = "ABSENT" /\ Forgotten(u)
      BY <1>3, <2>1, EventForgets DEF Enqueue, Exists
    <3> QED
      BY <3>1, <3>2 DEF Lawful, KeepsHumanBoundary, KeepsDebt, IsNoticed, StaysStanding, OwingRowsStand,
                        RECONCILIATION_REQUIRED
  <2> QED
    BY <1>0, <1>3, <2>1 DEF Enqueue, TypeOK
<1>4. ASSUME NEW t \in Task, RetargetSameOriginLanding(t) PROVE Lawful(u)
  <2>1. CASE u = t
    <3>1. row'[u].stage = "DISCOVERED" /\ row'[u].blocker = "none"
      BY <1>4, <2>1 DEF RetargetSameOriginLanding, TypeOK, NoRow
    <3>2. row[u].stage \notin STOPPED /\ Forgotten(u) /\ u \in landing \ landing'
      BY <1>4, <2>1, EventForgets DEF RetargetSameOriginLanding
    <3> QED
      BY <3>1, <3>2 DEF Lawful, KeepsHumanBoundary, KeepsDebt, IsNoticed, StaysStanding, STOPPED,
                        RECONCILIATION_REQUIRED
  <2> QED
    BY <1>0, <1>4, <2>1 DEF RetargetSameOriginLanding, TypeOK
<1>5. CASE ClaimBusy
  <2>1. row'[u] = Freed(u)
    BY <1>5 DEF ClaimBusy
  <2> QED
    BY <1>r, <2>1, UnleasedView, SameView DEF Freed
<1>6. CASE ClaimNothing
  <2>1. row'[u] = Passed(Task, u)
    BY <1>6 DEF ClaimNothing
  <2>2. u \in ScanEvents(Task) => Forgotten(u)
    BY <1>6, EventForgets DEF ClaimNothing
  <2> QED
    BY <2>1, <2>2, PassedLawful
<1>7. ASSUME NEW t \in Task, NEW o \in Owner, ClaimTask(t, o) PROVE Lawful(u)
  <2>1. PICK S : Event(ScanEvents(S) \cup {t}) /\ (u # t => row'[u] = Passed(S, u))
    BY <1>7 DEF ClaimTask
  <2>2. u \in ScanEvents(S) \cup {t} => Forgotten(u)
    BY <2>1, EventForgets
  <2>3. CASE u = t
    <3> DEFINE granted == [row[t] EXCEPT !.owner = o, !.live = TRUE,
                                         !.attempts = @ + 1, !.stage = row[t].checkpoint]
    <3>1. row'[u] = granted
      BY <1>7, <2>3 DEF ClaimTask
    <3>2. granted.stage \in SAFE_STAGES /\ granted.blocker = row[u].blocker
      BY <1>r, <2>3 DEF Row
    <3>3. row[u].stage \in SAFE_STAGES \cup {"ERROR"}
      BY <1>7, <2>3 DEF ClaimTask, Claimable, Eligible, Runnable
    <3>4. row[u].blocker \notin RECONCILIATION_REQUIRED
      BY <3>3 DEF OwingRowsStand, SAFE_STAGES
    <3> HIDE DEF granted
    <3> QED
      BY <2>2, <2>3, <3>1, <3>2, <3>3, <3>4
         DEF Lawful, KeepsHumanBoundary, KeepsDebt, IsNoticed, StaysStanding, SAFE_STAGES
  <2>4. CASE u # t
    BY <2>1, <2>2, <2>4, PassedLawful
  <2> QED
    BY <2>3, <2>4
<1>8. ASSUME NEW t \in Task, NEW report \in Reports, NEW release \in BOOLEAN,
             Checkpoint(t, report, release)
      PROVE  Lawful(u)
  <2> DEFINE kept == IF release THEN Unleased(row[t]) ELSE row[t]
             saved == [kept EXCEPT !.stage = report[1], !.blocker = report[2], !.paused = FALSE,
                         !.checkpoint = IF report[1] \in SAFE_STAGES THEN report[1] ELSE @,
                         !.due = report[2] # "retry_pending"]
  <2>1. kept \in Row
    BY <1>r, UnleasedTyped
  <2>2. row' = [row EXCEPT ![t] = saved] /\ Live(t) /\ row[t].stage \notin STOPPED /\ Forgotten(t)
    BY <1>8, EventForgets DEF Checkpoint, WorkerLease
  <2> HIDE DEF kept
  <2>3. saved.stage = report[1] /\ saved.blocker = report[2]
    BY <2>1 DEF Row
  <2> HIDE DEF saved
  <2>4. CASE u = t
    <3>1. row'[u].stage = report[1] /\ row'[u].blocker = report[2]
      BY <2>2, <2>3, <2>4 DEF TypeOK
    <3>2. StaysStanding(u)
      BY <3>1, ReportsAssumption DEF StaysStanding
    <3> QED
      BY <2>2, <2>4, <3>2 DEF Lawful, KeepsHumanBoundary, KeepsDebt, IsNoticed, STOPPED
  <2> QED
    BY <1>0, <2>2, <2>4 DEF TypeOK
<1>9. ASSUME NEW t \in Task, NEW saved \in BOOLEAN, ConfirmHumanSubmission(t, saved)
      PROVE  Lawful(u)
  <2> DEFINE done == [row[t] EXCEPT !.stage = "SUBMITTED", !.blocker = "none", !.paused = FALSE]
  <2>1. done.stage = "SUBMITTED" /\ done.blocker = "none"
    BY <1>r DEF Row
  <2>2. CASE saved /\ u = t
    <3>1. row'[u] = done /\ row[u].stage = "READY_TO_SUBMIT" /\ Forgotten(u)
      BY <1>9, <2>2, EventForgets DEF ConfirmHumanSubmission, TypeOK
    <3> HIDE DEF done
    <3> QED
      BY <2>1, <3>1 DEF Lawful, KeepsHumanBoundary, KeepsDebt, IsNoticed, StaysStanding, OwingRowsStand,
                        RECONCILIATION_REQUIRED
  <2> QED
    BY <1>0, <1>9, <2>2 DEF ConfirmHumanSubmission, TypeOK
<1>10. ASSUME NEW t \in Task, row' = [row EXCEPT ![t] = ResumedRow(row[t])], ResumeAllowed(t), Event({t})
       PROVE  Lawful(u)
  <2>1. CASE u = t
    BY <1>10, <2>1, EventForgets, ResumedLawful DEF TypeOK
  <2> QED
    BY <1>0, <1>10, <2>1 DEF TypeOK
<1>11. ASSUME NEW t \in Task, Pause(t) PROVE Lawful(u)
  <2>1. CASE u = t
    BY <1>11, <2>1, EventForgets, PausedLawful DEF Pause, TypeOK
  <2> QED
    BY <1>0, <1>11, <2>1 DEF Pause, TypeOK
<1>12. ASSUME NEW t \in Task, Cancel(t) PROVE Lawful(u)
  <2> DEFINE gone == [Unleased(row[t]) EXCEPT !.stage = "CANCELLED"]
  <2>1. gone.stage = "CANCELLED" /\ gone.blocker = row[t].blocker
    BY <1>r DEF Unleased, Row
  <2>2. CASE u = t
    <3>1. row'[u] = gone /\ row[u].stage # "SUBMITTED" /\ Forgotten(u)
      BY <1>12, <2>2, EventForgets DEF Cancel, TypeOK
    <3> HIDE DEF gone
    <3> QED
      BY <2>1, <2>2, <3>1 DEF Lawful, KeepsHumanBoundary, KeepsDebt, IsNoticed, StaysStanding
  <2> QED
    BY <1>0, <1>12, <2>2 DEF Cancel, TypeOK
<1>13. ASSUME NEW t \in Task, SaveReusableAnswer(t) PROVE Lawful(u)
  <2> DEFINE saved == [row[t] EXCEPT !.stage = "BLOCKED", !.blocker = "profile_promotion_pending"]
  <2>1. saved.stage = "BLOCKED" /\ saved.blocker = "profile_promotion_pending"
    BY <1>r DEF Row
  <2>2. CASE u = t
    <3>1. row'[u] = saved /\ row[u].stage = "NEEDS_USER_INPUT" /\ Forgotten(u)
      BY <1>13, <2>2, EventForgets DEF SaveReusableAnswer, TypeOK
    <3> HIDE DEF saved
    <3> QED
      BY <2>1, <3>1 DEF Lawful, KeepsHumanBoundary, KeepsDebt, IsNoticed, StaysStanding, OwingRowsStand
  <2> QED
    BY <1>0, <1>13, <2>2 DEF SaveReusableAnswer, TypeOK
<1>14. ASSUME NEW t \in Task, BeginProfileWrite(t) PROVE Lawful(u)
  <2> DEFINE hit == {w \in Task \ {t} : profile_ref[w] = profile_ref[t] /\ Exists(w)
                       /\ row[w].stage \notin {"SUBMITTED", "VERIFIED", "CANCELLED"}}
             demoted == [Settle(row[u], "BLOCKED", "profile_changed") EXCEPT
                           !.checkpoint = "DISCOVERED"]
  <2>1. demoted.stage = "BLOCKED" /\ demoted.blocker = "profile_changed"
    BY <1>r DEF Settle, Unleased, Row
  <2>2. row'[u] = IF u \in hit THEN demoted ELSE row[u]
    BY <1>14 DEF BeginProfileWrite
  <2>3. u \in hit => Forgotten(u) /\ row[u].stage \notin {"SUBMITTED", "CANCELLED"}
    BY <1>14, EventForgets DEF BeginProfileWrite
  <2> HIDE DEF demoted, hit
  <2>4. CASE u \in hit
    BY <2>1, <2>2, <2>3, <2>4 DEF Lawful, KeepsHumanBoundary, KeepsDebt, IsNoticed, StaysStanding
  <2> QED
    BY <1>0, <2>2, <2>4
<1>15. ASSUME NEW t \in Task, NEW o \in Owner, ConsumePreparation(t, o) PROVE Lawful(u)
  <2> DEFINE leased == [Settle(row[t], "BLOCKED", "anonymous_preparation_unverified")
                          EXCEPT !.owner = o, !.live = TRUE]
  <2>1. leased.stage = "BLOCKED" /\ leased.blocker = "anonymous_preparation_unverified"
    BY <1>r DEF Settle, Unleased, Row
  <2>2. CASE u = t
    <3>1. row'[u] = leased /\ row[u].stage \notin STOPPED /\ Forgotten(u)
      BY <1>15, <2>2, EventForgets DEF ConsumePreparation, TypeOK
    <3> HIDE DEF leased
    <3> QED
      BY <2>1, <3>1 DEF Lawful, KeepsHumanBoundary, KeepsDebt, IsNoticed, StaysStanding, STOPPED,
                        RECONCILIATION_REQUIRED
  <2> QED
    BY <1>0, <1>15, <2>2 DEF ConsumePreparation, TypeOK
<1>16. ASSUME NEW t \in Task, NEW outcome \in {"PREPARED_UNVERIFIED", "UNKNOWN_OUTCOME"},
              NEW closed \in BOOLEAN, FinishPreparation(t, outcome, closed)
       PROVE  Lawful(u)
  <2>1. row' = [row EXCEPT ![t] = Unleased(row[t])] \/ row' = row
    BY <1>16 DEF FinishPreparation
  <2>2. row'[u] = Unleased(row[u]) \/ row'[u] = row[u]
    BY <2>1 DEF TypeOK
  <2> QED
    BY <1>0, <1>r, <2>2, UnleasedView, SameView
<1>17. ASSUME NEW t \in Task, Resume(t) \/ FinishProfileWrite(t) PROVE Lawful(u)
  BY <1>0, <1>10, <1>17 DEF Resume, FinishProfileWrite
<1>18. ASSUME row' = row PROVE Lawful(u)
  BY <1>0, <1>18
<1> QED
  BY <1>1, <1>2, <1>3, <1>4, <1>5, <1>6, <1>7, <1>8, <1>9, <1>11, <1>12, <1>13, <1>14,
     <1>15, <1>16, <1>17, <1>18
     DEF Next, Scheduling, Working, Commanding, Promoting, Preparing, vars,
         BeginRunAttempt, FinishRunAttempt, BeginPreparationAttempt, ReadTask

\* Only a stopped row owes a reconciliation: what the worker reports as needing
\* one it reports as BLOCKED, and pause() keeps the need in a BLOCKED row.
LEMMA OwingRows == Spec => []OwingRowsStand
<1>1. Init => OwingRowsStand
  BY DEF Init, NoRow, OwingRowsStand, RECONCILIATION_REQUIRED
<1>2. TypeOK /\ OwingRowsStand /\ [Next]_vars => OwingRowsStand'
  BY RowsLawful DEF Lawful, StaysStanding, OwingRowsStand
<1> QED
  BY <1>1, <1>2, Typing, PTL DEF Spec

\* The queue never leaves the human boundary by itself: READY_TO_SUBMIT ends in a
\* confirmation, a cancel, or a new review after the profile changed; a submitted
\* or cancelled task stays so (_resume_in_tx, pause, claim, retarget, consume).
THEOREM HumanBoundary == Spec => HumanBoundaryHolds
<1>1. TypeOK /\ OwingRowsStand /\ [Next]_vars => [\A t \in Task :
        /\ row[t].stage = "READY_TO_SUBMIT" =>
             \/ row'[t].stage \in {"READY_TO_SUBMIT", "SUBMITTED", "CANCELLED"}
             \/ row'[t].stage = "BLOCKED" /\ row'[t].blocker = "profile_changed"
        /\ row[t].stage \in {"SUBMITTED", "CANCELLED"} => row'[t].stage = row[t].stage]_vars
  BY RowsLawful DEF Lawful, KeepsHumanBoundary
<1> QED
  BY <1>1, Typing, OwingRows, PTL DEF Spec, HumanBoundaryHolds

\* A released task that needs reconciliation is not freed of that need by any
\* sequence of pauses, resumes, claims and sweeps: only a changed profile or a
\* resolved landing page replaces its blocker.
THEOREM ReconciliationIsOwed == Spec => ReconciliationSticks
<1>1. TypeOK /\ OwingRowsStand /\ [Next]_vars => [\A t \in Task :
        row[t].blocker \in RECONCILIATION_REQUIRED /\ ~Live(t)
          /\ row'[t].blocker \notin RECONCILIATION_REQUIRED =>
        row'[t].blocker = "profile_changed" \/ t \in landing \ landing']_vars
  BY RowsLawful DEF Lawful, KeepsDebt
<1> QED
  BY <1>1, Typing, OwingRows, PTL DEF Spec, ReconciliationSticks

\* No task changes behind a client's back: a revision read before a step that
\* changed the task's stage, checkpoint, blocker or attempts no longer passes
\* the check (_event, _command_before).
THEOREM RevisionsTell == Spec => NoSilentChange
<1>1. TypeOK /\ OwingRowsStand /\ [Next]_vars =>
        [\A t \in Task : View(row'[t]) # View(row[t]) => \A c \in Client : known'[c] # t]_vars
  BY RowsLawful DEF Lawful, IsNoticed, Forgotten
<1> QED
  BY <1>1, Typing, OwingRows, PTL DEF Spec, NoSilentChange
=============================================================================
