-------------------------- MODULE ProfilePromotion --------------------------
(***************************************************************************)
(* Promotion of a confirmed answer into the canonical applicant profile:   *)
(* AnswerStore (facts/answers.py), AutonomousWorker._promote_pending_facts *)
(* and run_once (autonomy/worker.py), set_user_confirmed_field             *)
(* (evidence.py) and the profile_write_barriers of the queue.              *)
(*                                                                         *)
(* Two kinds of threads promote: the worker, at the start of every turn,   *)
(* and the HTTP handler in which the user said "remember this".  Each step *)
(* of a promotion is a transaction or one locked file write, and the steps *)
(* of the threads interleave.  All tasks here read one profile.            *)
(*                                                                         *)
(* A task is seen as far as promotion tells it apart; TaskQueue has the    *)
(* whole row.  state "runnable" is a safe stage, "asking" NEEDS_USER_INPUT,*)
(* "ready" READY_TO_SUBMIT, and "promoting", "changed", "paused" and       *)
(* "unknown" are BLOCKED with the blocker of that meaning, the latter also  *)
(* paused.                                                                 *)
(***************************************************************************)
EXTENDS Naturals, Sequences, FiniteSets

CONSTANTS
  Task,
  Handler,      \* HTTP handler threads
  Worker,       \* the worker thread
  MaxAnswers,   \* bound: reusable answers given in a behaviour
  MaxCrashes,   \* bound: restarts of the service
  NoTask

ASSUME ConstantsAssumption ==
  /\ Worker \notin Handler /\ NoTask \notin Task
  /\ MaxAnswers \in Nat /\ MaxCrashes \in Nat

Answer == 1 .. MaxAnswers    \* sequence numbers of task_answer_events
Promoter == Handler \cup {Worker}
STATES == {"runnable", "asking", "promoting", "changed", "paused", "unknown",
           "unknown_paused", "ready", "cancelled"}

VARIABLES
  state,      \* stage and blocker of a task
  lease,      \* the task whose lease the worker holds
  unsettled,  \* tasks with a run attempt ATTEMPTED or UNKNOWN_OUTCOME
  asked,      \* the task of an answer event with reuse_requested
  applied,    \* answer events with reuse_applied
  profile,    \* the profile file: the answers in its revisions, oldest first
  barrier,    \* the profile_write_barriers row of the profile
  promoter,   \* what each promoting thread is about to do
  turn,       \* the worker's turn: where it is, and on which tasks
  seen,       \* the answers that the runner of a task knows
  crashes

vars == <<state, lease, unsettled, asked, applied, profile, barrier, promoter, turn,
          seen, crashes>>

Promotion == [pc : {"idle", "collect", "begin", "write", "mark"},
              task : Task \cup {NoTask}, todo : SUBSET Answer]
Idle == [pc |-> "idle", task |-> NoTask, todo |-> {}]
NewTurn == [pc |-> "scan", task |-> NoTask, agenda |-> {}]

Init ==
  /\ state = [t \in Task |-> "runnable"]
  /\ lease = NoTask
  /\ unsettled = {}
  /\ asked = [a \in Answer |-> NoTask]
  /\ applied = {}
  /\ profile = <<>>
  /\ barrier = NoTask
  /\ promoter = [w \in Promoter |-> Idle]
  /\ turn = NewTurn
  /\ seen = [t \in Task |-> {}]
  /\ crashes = 0

-----------------------------------------------------------------------------
Asked(t) == {a \in Answer : asked[a] = t}
Pending(t) == Asked(t) \ applied
Written == {profile[i] : i \in 1 .. Len(profile)}
WaitingTasks == {t \in Task : state[t] = "promoting"}   \* faulty: forgets cancelled tasks
PendingTasks == {t \in Task : Pending(t) # {} \/ state[t] = "promoting"}
Resumable(t) ==
  /\ lease # t /\ t \notin unsettled
  /\ state[t] \notin {"ready", "cancelled", "unknown", "unknown_paused"}
Least(S) == CHOOSE a \in S : \A b \in S : a <= b
LeaseWithout(S) == IF lease \in S THEN NoTask ELSE lease

-----------------------------------------------------------------------------
\* user_input(remember=True): the answer and the wait for its promotion are one
\* transaction; the handler then promotes in its own thread.
SaveReusableAnswer(h, t) ==
  /\ promoter[h] = Idle
  /\ state[t] = "asking" /\ lease # t
  /\ \E a \in Answer :
       /\ asked[a] = NoTask /\ \A b \in Answer : b < a => asked[b] # NoTask
       /\ asked' = [asked EXCEPT ![a] = t]
  /\ state' = [state EXCEPT ![t] = "promoting"]
  /\ promoter' = [promoter EXCEPT ![h] = [Idle EXCEPT !.pc = "collect", !.task = t]]
  /\ UNCHANGED <<lease, unsettled, applied, profile, barrier, turn, seen, crashes>>

\* pending_reuse(): what this thread will promote is read here, once.
Collect(w) ==
  /\ promoter[w].pc = "collect"
  /\ promoter' = [promoter EXCEPT ![w].pc = "begin", ![w].todo = Pending(promoter[w].task)]
  /\ UNCHANGED <<state, lease, unsettled, asked, applied, profile, barrier, turn, seen, crashes>>

\* An exception ends the promotion; its answer stays pending for another try.
Fail(w) == promoter' = [promoter EXCEPT ![w] = Idle]

\* begin_profile_write(): leases of readers end, whatever they were doing.
Fenced(t) == {u \in Task \ {t} : state[u] # "cancelled"}
FencedWhileRunning(t) == {u \in Task \ {t} : state[u] # "cancelled" /\ lease # u}   \* faulty
StopReaders(t) ==
  /\ state' = [u \in Task |-> IF u \in Fenced(t) THEN "changed" ELSE state[u]]
  /\ lease' = LeaseWithout(Fenced(t))

SupposedWork(w) == TRUE   \* faulty: the barrier is raised before the answers are counted
HasWork(w) == promoter[w].todo # {}

BeginProfileWrite(w) ==
  LET t == promoter[w].task IN
  /\ promoter[w].pc = "begin" /\ HasWork(w)
  /\ IF barrier \in {NoTask, t}
     THEN /\ barrier' = t
          /\ StopReaders(t)
          /\ promoter' = [promoter EXCEPT ![w].pc = "write"]
     ELSE Fail(w) /\ UNCHANGED <<barrier, state, lease>>
  /\ UNCHANGED <<unsettled, asked, applied, profile, turn, seen, crashes>>

\* set_user_confirmed_field(): an answer whose note is in the revisions is not
\* written again.
RewrittenProfile(a) == Append(profile, a)   \* faulty
ProfileWith(a) == IF a \in Written THEN profile ELSE Append(profile, a)

WriteProfile(w) ==
  /\ promoter[w].pc = "write"
  /\ profile' = ProfileWith(Least(promoter[w].todo))
  /\ promoter' = [promoter EXCEPT ![w].pc = "mark"]
  /\ UNCHANGED <<state, lease, unsettled, asked, applied, barrier, turn, seen, crashes>>

SwallowedFailure(w) ==   \* faulty: the promotion goes on to its marker
  /\ promoter[w].pc = "write"
  /\ promoter' = [promoter EXCEPT ![w].pc = "mark"]
  /\ UNCHANGED <<state, lease, unsettled, asked, applied, profile, barrier, turn, seen, crashes>>

WriteFails(w) ==
  /\ promoter[w].pc = "write"
  /\ Fail(w)
  /\ UNCHANGED <<state, lease, unsettled, asked, applied, profile, barrier, turn, seen, crashes>>

\* mark_reuse_applied().  The last answer of a task resumes it and releases the
\* barrier, or raises and rolls back; the marker itself is set again if it is
\* set already.
LastMarkAccepted(t) ==
  /\ barrier \in {NoTask, t}
  /\ \/ state[t] \in {"promoting", "changed"} /\ Resumable(t)
     \/ state[t] \in {"cancelled", "paused", "unknown_paused"}

MarkApplied(w) ==
  LET t == promoter[w].task
      a == Least(promoter[w].todo)
      done == applied \cup {a}
      next == [promoter EXCEPT ![w].pc = "begin", ![w].todo = @ \ {a}] IN
  /\ promoter[w].pc = "mark"
  /\ \/ /\ Asked(t) \ done # {}
        /\ applied' = done /\ promoter' = next
        /\ UNCHANGED <<state, barrier>>
     \/ /\ Asked(t) \ done = {} /\ LastMarkAccepted(t)
        /\ applied' = done /\ promoter' = next
        /\ state' = [state EXCEPT ![t] = IF @ \in {"promoting", "changed"} THEN "runnable" ELSE @]
        /\ barrier' = NoTask
     \/ /\ Asked(t) \ done = {} /\ ~LastMarkAccepted(t)
        /\ Fail(w)
        /\ UNCHANGED <<state, barrier, applied>>
  /\ UNCHANGED <<lease, unsettled, asked, profile, turn, seen, crashes>>

\* finish_pending_task(), after the loop over the collected answers.
FinishPendingTask(w) ==
  LET t == promoter[w].task
      stranded == Pending(t) = {} /\ state[t] = "promoting" IN
  /\ promoter[w].pc = "begin" /\ promoter[w].todo = {}
  /\ IF stranded /\ Resumable(t) /\ barrier \in {NoTask, t}
     THEN state' = [state EXCEPT ![t] = "runnable"] /\ barrier' = NoTask
     ELSE UNCHANGED <<state, barrier>>
  /\ Fail(w)
  /\ UNCHANGED <<lease, unsettled, asked, applied, profile, turn, seen, crashes>>

-----------------------------------------------------------------------------
\* run_once(): promote what is pending, then claim and run one task.
Scan ==
  /\ turn.pc = "scan"
  /\ turn' = [turn EXCEPT !.pc = "promote", !.agenda = PendingTasks]
  /\ UNCHANGED <<state, lease, unsettled, asked, applied, profile, barrier, promoter, seen, crashes>>

PromoteNext(t) ==
  /\ turn.pc = "promote" /\ promoter[Worker] = Idle /\ t \in turn.agenda
  /\ turn' = [turn EXCEPT !.agenda = @ \ {t}]
  /\ promoter' = [promoter EXCEPT ![Worker] = [Idle EXCEPT !.pc = "collect", !.task = t]]
  /\ UNCHANGED <<state, lease, unsettled, asked, applied, profile, barrier, seen, crashes>>

ReadyToClaim == turn.pc = "promote" /\ promoter[Worker] = Idle /\ turn.agenda = {}
Admitted(t) == state[t] = "runnable"   \* faulty: claim() ignores the barrier
Claimable(t) == state[t] = "runnable" /\ barrier = NoTask

Uncertain == {t \in unsettled : Claimable(t)}
Blocked(S) == state' = [t \in Task |-> IF t \in S THEN "unknown" ELSE state[t]]

\* The scan blocks the uncertain tasks that it passes, those enqueued before t.
Claim(t) ==
  /\ ReadyToClaim /\ Claimable(t) /\ t \notin unsettled
  /\ \E passed \in SUBSET Uncertain : Blocked(passed)
  /\ lease' = t
  /\ turn' = [NewTurn EXCEPT !.pc = "load", !.task = t]
  /\ UNCHANGED <<unsettled, asked, applied, profile, barrier, promoter, seen, crashes>>

ClaimNothing ==
  /\ ReadyToClaim /\ \A t \in Task \ unsettled : ~Claimable(t)
  /\ Blocked(Uncertain)
  /\ turn' = NewTurn
  /\ UNCHANGED <<lease, unsettled, asked, applied, profile, barrier, promoter, seen, crashes>>

\* The runner reads the profile and the answers of its own task.
LoadProfile ==
  /\ turn.pc = "load"
  /\ seen' = [seen EXCEPT ![turn.task] = Written \cup Asked(turn.task)]
  /\ turn' = [turn EXCEPT !.pc = "start"]
  /\ UNCHANGED <<state, lease, unsettled, asked, applied, profile, barrier, promoter, crashes>>

BeginRunAttempt ==
  /\ turn.pc = "start"
  /\ IF lease = turn.task
     THEN unsettled' = unsettled \cup {turn.task} /\ turn' = [turn EXCEPT !.pc = "work"]
     ELSE turn' = NewTurn /\ UNCHANGED unsettled
  /\ UNCHANGED <<state, lease, asked, applied, profile, barrier, promoter, seen, crashes>>

\* The run ends in a checkpoint that releases the lease.  A run that fails, or
\* that finds its lease lost, leaves the outcome of its attempt unknown.
Checkpoint(result) ==
  /\ turn.pc = "work" /\ lease = turn.task
  /\ state' = [state EXCEPT ![turn.task] = result]
  /\ lease' = NoTask
  /\ turn' = [turn EXCEPT !.pc = "settle"]
  /\ UNCHANGED <<unsettled, asked, applied, profile, barrier, promoter, seen, crashes>>

RunFails ==
  /\ turn.pc = "work"
  /\ Blocked({turn.task} \cap {lease})
  /\ lease' = NoTask
  /\ turn' = NewTurn
  /\ UNCHANGED <<unsettled, asked, applied, profile, barrier, promoter, seen, crashes>>

FinishRunAttempt ==
  /\ turn.pc = "settle"
  /\ unsettled' = unsettled \ {turn.task}
  /\ turn' = NewTurn
  /\ UNCHANGED <<state, lease, asked, applied, profile, barrier, promoter, seen, crashes>>

-----------------------------------------------------------------------------
Pause(t) ==
  /\ state[t] \notin {"ready", "cancelled", "paused", "unknown_paused"}
  /\ state' = [state EXCEPT ![t] = IF @ = "unknown" THEN "unknown_paused" ELSE "paused"]
  /\ lease' = LeaseWithout({t})
  /\ UNCHANGED <<unsettled, asked, applied, profile, barrier, promoter, turn, seen, crashes>>

Resume(t) ==
  /\ Resumable(t) /\ state[t] # "runnable"
  /\ state' = [state EXCEPT ![t] = "runnable"]
  /\ UNCHANGED <<lease, unsettled, asked, applied, profile, barrier, promoter, turn, seen, crashes>>

Cancel(t) ==
  /\ state[t] # "cancelled"
  /\ state' = [state EXCEPT ![t] = "cancelled"]
  /\ lease' = LeaseWithout({t})
  /\ UNCHANGED <<unsettled, asked, applied, profile, barrier, promoter, turn, seen, crashes>>

\* The service dies and comes back after the lease ran out: the tables and the
\* profile file stay, the threads start anew.
Restart ==
  /\ crashes < MaxCrashes
  /\ crashes' = crashes + 1
  /\ lease' = NoTask
  /\ promoter' = [w \in Promoter |-> Idle]
  /\ turn' = NewTurn
  /\ UNCHANGED <<state, unsettled, asked, applied, profile, barrier, seen>>

-----------------------------------------------------------------------------
Promoting(w) ==
  \/ Collect(w) \/ BeginProfileWrite(w) \/ MarkApplied(w) \/ FinishPendingTask(w)
  \/ WriteProfile(w) \/ WriteFails(w)
Working ==
  \/ Scan \/ ClaimNothing \/ LoadProfile \/ BeginRunAttempt \/ RunFails \/ FinishRunAttempt
  \/ \E t \in Task : PromoteNext(t) \/ Claim(t)
  \/ \E result \in {"asking", "ready"} : Checkpoint(result)
Commanding ==
  \/ \E h \in Handler, t \in Task : SaveReusableAnswer(h, t)
  \/ \E t \in Task : Pause(t) \/ Resume(t) \/ Cancel(t)

Next == Working \/ Commanding \/ Restart \/ \E w \in Promoter : Promoting(w)

Spec == Init /\ [][Next]_vars

\* The worker thread never stops looping, and the profile file is not
\* unwritable for ever; nobody else is obliged to do anything.
Fairness ==
  /\ WF_vars(Working)
  /\ WF_vars(Promoting(Worker))
  /\ SF_vars(WriteProfile(Worker))
FairSpec == Spec /\ Fairness

-----------------------------------------------------------------------------
\* Every table, file and thread is well typed, and no thread writes or marks
\* without an answer in hand.
TypeOK ==
  /\ state \in [Task -> STATES]
  /\ lease \in Task \cup {NoTask}
  /\ unsettled \subseteq Task
  /\ asked \in [Answer -> Task \cup {NoTask}]
  /\ applied \subseteq Answer
  /\ profile \in Seq(Answer)
  /\ barrier \in Task \cup {NoTask}
  /\ promoter \in [Promoter -> Promotion]
  /\ \A w \in Promoter : promoter[w].pc \in {"write", "mark"} => promoter[w].todo # {}
  /\ turn \in [pc : {"scan", "promote", "load", "start", "work", "settle"},
               task : Task \cup {NoTask}, agenda : SUBSET Task]
  /\ turn.pc \notin {"scan", "promote"} => turn.task # NoTask
  /\ seen \in [Task -> SUBSET Answer]
  /\ crashes \in 0 .. MaxCrashes

\* A runner that still holds its lease never works from an old profile: every
\* answer in the file is one that it read (begin_profile_write, claim).
NoStaleReader ==
  lease # NoTask /\ turn.pc = "work" => Written \subseteq seen[lease]

\* The consent to reuse an answer is only marked as served when the answer is in
\* the profile file, whichever thread wrote it and whatever was retried.
AppliedIsWritten == applied \subseteq Written

\* The profile holds an answer once, and of two answers of one task the newer
\* one was written last: a late or repeated promotion never brings back an old
\* value (the note check of set_user_confirmed_field).
NewestAnswerWins ==
  \A i, j \in 1 .. Len(profile) : i < j /\ asked[profile[i]] = asked[profile[j]] =>
    profile[i] < profile[j]

\* "The answer remains task-scoped and the consent stays pending": whatever
\* fails, restarts or is cancelled, a reusable answer reaches the profile.  The
\* one thing that can keep it out is the fence of another task that is never
\* lifted: of a task whose resume is refused because its run is unsettled
\* (answers.py:209), or one left behind with nothing to promote, see
\* BarrierHasWork.
AnswerReachesProfile ==
  \A a \in Answer :
    \/ asked[a] # NoTask ~> a \in Written
    \/ <>[](barrier \notin {NoTask, asked[a]})

\* "The final applied marker, task resume and barrier release commit together"
\* (answers.py:193): no barrier is left behind when nothing remains to promote.
\* A second promoter that collected the answer before the first one marked it
\* raises the barrier again, and its own mark is refused.
BarrierHasWork ==
  barrier # NoTask =>
    \/ barrier \in PendingTasks
    \/ \E w \in Promoter : promoter[w].task = barrier

=============================================================================
