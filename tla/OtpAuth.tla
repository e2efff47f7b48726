------------------------------- MODULE OtpAuth -------------------------------
(***************************************************************************)
(* SMS authentication: the durable attempt journal (auth/attempts.py), the *)
(* memory-only code broker (autonomy/otp.py), the part of a run that meets *)
(* a one-time-code challenge (application.py, _resolve_otp_challenge), the *)
(* worker around it (autonomy/worker.py) and the handlers that bring codes *)
(* and authorise resends (autonomy/supervisor.py).                         *)
(*                                                                         *)
(* One worker thread runs one task at a time.  The threads of Sender carry *)
(* codes: HTTP handlers of /v1/otp, and the watchers that listen on after  *)
(* a run gave up.  A step is one transaction, one critical section of the  *)
(* broker's lock, or one effect on the page.                               *)
(*                                                                         *)
(* status[t] stands for the stage and blocker of a task as far as this     *)
(* protocol tells them apart: "action" is any human wait a user may simply *)
(* resume, "unverified" any blocker that only a reconciliation may lift.   *)
(* A lease that expired in the hands of a dead worker counts as no lease:  *)
(* its run is unresolved, so every call that would look at it refuses.     *)
(* The clock is abstract: an attempt may cool down, then expire, any time. *)
(***************************************************************************)
EXTENDS Naturals, Sequences, FiniteSets

CONSTANTS
  Task, Code,    \* applications, and the code values messages may carry
  Sender,        \* threads that deliver codes to the broker
  Modes,         \* what browser_mode() may be: "live" or "isolated"
  MaxAttempts,   \* bound on the attempts of a task
  NoTask, NoCode

ASSUME OtpAssumption ==
  /\ Modes \subseteq {"live", "isolated"}
  /\ NoTask \notin Task /\ NoCode \notin Code
  /\ MaxAttempts \in Nat

VARIABLES
  mode,      \* browser_mode() of the running service
  status,    \* stage and blocker of each task
  leased,    \* the worker thread holds the lease of the task
  returned,  \* runs of the task that returned: none, one, or more (2)
  open,      \* the task has a run whose outcome is unresolved
  attempts,  \* auth_attempts: the attempts of a task in ORDER BY created
  codes,     \* OtpBroker._codes
  seen,      \* OtpBroker._seen, with the attempt whose window it outlives
  worker,    \* where the worker thread is
  sender,    \* where each delivering thread is
  discarding,\* resends committed whose handler has yet to discard old codes
  typed      \* codes of the broker typed for the current attempt of a task

vars == <<mode, status, leased, returned, open, attempts, codes, seen,
          worker, sender, typed, discarding>>
rowVars == <<status, leased, returned, open>>
brokerVars == <<codes, seen>>
serviceVars == <<discarding, typed, mode>>

STOPPED == {"ready", "cancelled"}
STATUS == STOPPED \cup {"runnable", "otp_waiting", "action", "paused", "unverified"}
SENT == {"SEND_UNKNOWN", "CLICK_OBSERVED"}
WAITING == SENT \cup {"EXTERNAL_OBSERVED"}

AuthAttempt == [outcome : {"PREPARED", "AUTHENTICATED"} \cup WAITING, current : BOOLEAN,
                resend : BOOLEAN, cooled : BOOLEAN, expired : BOOLEAN,
                clicks : Nat]   \* what the site saw: no column of the table
Prepared(resend) == [outcome |-> "PREPARED", current |-> TRUE, resend |-> resend,
                     cooled |-> FALSE, expired |-> FALSE, clicks |-> 0]
Slot == [task : Task, attempt : Nat, code : Code]
STEPS == {"idle", "gate", "auth", "prepare", "click", "result", "page",
          "consume", "relay", "enter", "typed", "confirmed", "release", "finish",
          "after", "wake"}
Idle == [step |-> "idle", task |-> NoTask, attempt |-> 0, code |-> NoCode,
         relayed |-> FALSE, result |-> "action"]
NoMessage == [step |-> "idle", task |-> NoTask, attempt |-> 0, code |-> NoCode]

RowsOK ==
  /\ status \in [Task -> STATUS] /\ leased \in [Task -> BOOLEAN]
  /\ returned \in [Task -> 0 .. 2] /\ open \in [Task -> BOOLEAN]
OneCurrent ==   \* one_current_auth_attempt
  \A t \in Task : \A n \in DOMAIN attempts[t] : attempts[t][n].current => n = Len(attempts[t])
JournalOK == attempts \in [Task -> Seq(AuthAttempt)] /\ OneCurrent
BrokerOK == codes \subseteq Slot /\ seen \subseteq Slot /\ typed \subseteq Slot
WorkerOK ==
  worker \in [step : STEPS, task : Task \cup {NoTask}, attempt : Nat,
              code : Code \cup {NoCode}, relayed : BOOLEAN, result : STATUS]
SenderOK ==
  sender \in [Sender -> [step : {"idle", "store", "look", "wake"},
                        task : Task \cup {NoTask}, attempt : Nat, code : Code \cup {NoCode}]]
ServiceOK == mode \in Modes /\ discarding \subseteq Task

TypeOK == RowsOK /\ JournalOK /\ BrokerOK /\ WorkerOK /\ SenderOK /\ ServiceOK

Init ==
  /\ mode \in Modes
  /\ status = [t \in Task |-> "runnable"]
  /\ leased = [t \in Task |-> FALSE]
  /\ returned = [t \in Task |-> 0]
  /\ open = [t \in Task |-> FALSE]
  /\ attempts = [t \in Task |-> <<>>]
  /\ codes = {} /\ seen = {} /\ typed = {}
  /\ worker = Idle
  /\ sender = [s \in Sender |-> NoMessage]
  /\ discarding = {}

-----------------------------------------------------------------------------
(* The attempt journal, the broker and what the queue lets through.        *)

CurrentIs(t, n) == n \in DOMAIN attempts[t] /\ attempts[t][n].current
HasRequest(t) ==   \* faulty
  \E n \in DOMAIN attempts[t] : attempts[t][n].current /\ attempts[t][n].outcome \in WAITING
HasCurrent(t) == \E n \in DOMAIN attempts[t] : attempts[t][n].current
ValidWait(t, n) ==
  /\ CurrentIs(t, n)
  /\ attempts[t][n].outcome \in WAITING
  /\ ~attempts[t][n].expired
NotAuthenticated(t, n) == attempts[t][n].outcome # "AUTHENTICATED"   \* faulty
Unsent(t, n) == attempts[t][n].outcome = "PREPARED"
PendingOf(t, n) == \E k \in codes : k.task = t /\ k.attempt = n
Pending(t) == \E n \in DOMAIN attempts[t] : ValidWait(t, n) /\ PendingOf(t, n)
Without(slots, t) == {k \in slots : k.task # t}

PurgeAtInsert(t) == seen' \in {seen, Without(seen, t)}

Resumable(t) == ~leased[t] /\ ~open[t] /\ status[t] \notin STOPPED \cup {"unverified"}
ResumeInTx(t) == Resumable(t) /\ status' = [status EXCEPT ![t] = "runnable"]
\* A resume that the queue refuses raises in its caller and changes nothing.
ResumeOrRaise(t) == IF Resumable(t) THEN ResumeInTx(t) ELSE UNCHANGED status

-----------------------------------------------------------------------------
(* The worker claims a task and decides whether it may run it.             *)

At(step) == worker.step = step
GoTo(step) == worker' = [worker EXCEPT !.step = step]
Stop(result) == worker' = [Idle EXCEPT !.step = "release", !.result = result,
                                       !.task = worker.task]

\* claim() blocks a runnable task whose last run is unresolved.
Claim(t) ==
  /\ At("idle") /\ status[t] = "runnable"
  /\ IF open[t]
     THEN /\ status' = [status EXCEPT ![t] = "unverified"]
          /\ UNCHANGED <<leased, worker>>
     ELSE /\ leased' = [leased EXCEPT ![t] = TRUE]
          /\ worker' = [Idle EXCEPT !.step = "gate", !.task = t]
          /\ UNCHANGED status
  /\ UNCHANGED <<returned, open, attempts, codes, seen, sender>> /\ UNCHANGED serviceVars

\* In live mode a task that ran before goes on only with a code for the one
\* SMS its first run asked for.
MayContinue(t) ==
  /\ returned[t] = 1
  /\ \E n \in DOMAIN attempts[t] : /\ ValidWait(t, n) /\ PendingOf(t, n)
                                   /\ attempts[t][n].outcome \in SENT
GateOpen(t) == mode = "isolated" \/ returned[t] = 0 \/ MayContinue(t)

BeginRun(t) ==
  /\ At("gate") /\ worker.task = t /\ leased[t] /\ GateOpen(t)
  /\ open' = [open EXCEPT ![t] = TRUE]
  /\ GoTo("auth")
  /\ UNCHANGED <<status, leased, returned, attempts, codes, seen, sender>>
  /\ UNCHANGED serviceVars

\* The gate also refuses when the bound page cannot be observed any more.
GateRefuses(t) ==
  /\ At("gate") /\ worker.task = t /\ leased[t]
  /\ mode = "live" /\ returned[t] > 0
  /\ status' = [status EXCEPT ![t] = "unverified"]
  /\ leased' = [leased EXCEPT ![t] = FALSE]
  /\ worker' = Idle
  /\ UNCHANGED <<returned, open, attempts, codes, seen, sender>> /\ UNCHANGED serviceVars

\* The lease is gone, or the runner cannot be built and a retry is scheduled.
SetupFails(t) ==
  /\ At("gate") /\ worker.task = t
  /\ leased' = [leased EXCEPT ![t] = FALSE]
  /\ worker' = Idle
  /\ UNCHANGED <<status, returned, open, attempts, codes, seen, sender>>
  /\ UNCHANGED serviceVars

-----------------------------------------------------------------------------
(* The run meets the challenge.  t is the task of the run throughout.      *)

BeginAttempt(t) ==
  /\ At("auth") /\ worker.task = t /\ leased[t]
  /\ \/ \E n \in DOMAIN attempts[t] :
          /\ CurrentIs(t, n)
          /\ worker' = [worker EXCEPT !.step = "prepare", !.attempt = n]
          /\ UNCHANGED <<attempts, seen, typed>>
     \/ /\ ~HasCurrent(t) /\ Len(attempts[t]) < MaxAttempts
        /\ attempts[t] # <<>> =>
             attempts[t][Len(attempts[t])].outcome \in {"PREPARED", "AUTHENTICATED"}
        /\ attempts' = [attempts EXCEPT ![t] = Append(@, Prepared(FALSE))]
        /\ worker' = [worker EXCEPT !.step = "prepare", !.attempt = Len(attempts[t]) + 1]
        /\ PurgeAtInsert(t) /\ typed' = Without(typed, t)
  /\ UNCHANGED rowVars /\ UNCHANGED <<codes, sender, discarding, mode>>

EndRun(t, results) ==
  /\ worker.task = t
  /\ \E r \in results : Stop(r)
  /\ UNCHANGED rowVars /\ UNCHANGED brokerVars
  /\ UNCHANGED <<attempts, sender, serviceVars>>

\* The page shows no challenge, or one that is no unique SMS form: a password,
\* a captcha, a QR code.  What the rest of the run comes to is anybody's guess.
NoSmsChallenge(t) == At("auth") /\ EndRun(t, {"ready", "action", "unverified"})

\* The page is not on the host of the target, or the attempt is refused.
AttemptRefused(t) == At("auth") /\ EndRun(t, {"otp_waiting"})

\* Not exactly one visible field takes the code.
FieldUnavailable(t) == At("prepare") /\ EndRun(t, {"otp_waiting"})

\* Phone, terms or the one send control cannot be proved, or the intent cannot
\* be recorded: the run stops before the click, its attempt still PREPARED.
ControlsUnproven(t) ==
  At("prepare") /\ Unsent(t, worker.attempt) /\ EndRun(t, {"action"})

\* After the preparation the page asks for something else.
OtherChallenge(t) == At("page") /\ EndRun(t, {"action"})

\* The journal says that the SMS may have been sent: never infer from the page
\* that a second click is safe.
AlreadyRequested(t) ==
  /\ At("prepare") /\ worker.task = t /\ ~Unsent(t, worker.attempt)
  /\ GoTo("page")
  /\ UNCHANGED rowVars /\ UNCHANGED brokerVars
  /\ UNCHANGED <<attempts, sender, serviceVars>>

\* The page offers a resend but no first send, and nobody authorised one: the
\* attempt stays PREPARED, so no wait of it will be valid.
RequestShown(t) ==
  /\ At("prepare") /\ worker.task = t
  /\ Unsent(t, worker.attempt) /\ ~attempts[t][worker.attempt].resend
  /\ GoTo("page")
  /\ UNCHANGED rowVars /\ UNCHANGED brokerVars
  /\ UNCHANGED <<attempts, sender, serviceVars>>

\* The unknown-effect marker is committed before the click.
RecordSendIntent(t) ==
  /\ At("prepare") /\ worker.task = t /\ leased[t]
  /\ CurrentIs(t, worker.attempt) /\ Unsent(t, worker.attempt)
  /\ attempts' = [attempts EXCEPT ![t][worker.attempt].outcome = "SEND_UNKNOWN"]
  /\ GoTo("click")
  /\ UNCHANGED rowVars /\ UNCHANGED brokerVars /\ UNCHANGED <<sender, serviceVars>>

\* An isolated fixture shows an OTP control without any send control.
ObserveExternalWait(t) ==
  /\ At("prepare") /\ worker.task = t /\ leased[t] /\ mode = "isolated"
  /\ Unsent(t, worker.attempt)
  /\ attempts' = [attempts EXCEPT ![t][worker.attempt].outcome = "EXTERNAL_OBSERVED"]
  /\ GoTo("page")
  /\ UNCHANGED rowVars /\ UNCHANGED brokerVars /\ UNCHANGED <<sender, serviceVars>>

\* The guard ran before the marker: the click itself asks nobody.
Click(t) ==
  /\ At("click") /\ worker.task = t
  /\ attempts' = [attempts EXCEPT ![t][worker.attempt].clicks = @ + 1]
  /\ GoTo("result")
  /\ UNCHANGED rowVars /\ UNCHANGED brokerVars /\ UNCHANGED <<sender, serviceVars>>

RecordSendResult(t) ==
  /\ At("result") /\ worker.task = t
  /\ attempts[t][worker.attempt].outcome \in SENT
  /\ attempts' = [attempts EXCEPT ![t][worker.attempt].outcome = "CLICK_OBSERVED"]
  /\ GoTo("page")
  /\ UNCHANGED rowVars /\ UNCHANGED brokerVars /\ UNCHANGED <<sender, serviceVars>>

\* The wait is checkpointed under the lease, for senders to see.
WaitForCode(t) ==
  /\ At("page") /\ worker.task = t /\ leased[t]
  /\ status' = [status EXCEPT ![t] = "otp_waiting"]
  /\ GoTo("consume")
  /\ UNCHANGED <<leased, returned, open, attempts, codes, seen, sender>>
  /\ UNCHANGED serviceVars

AnyCode(t, n) == {k \in codes : k.task = t}   \* faulty
CodesFor(t, n) == {k \in codes : k.task = t /\ k.attempt = n}

\* Only the guard before it asks for the lease, so the code may be taken by
\* a run that just lost it.  A live run without a code asks the relay.
Consume(t) ==
  LET n == worker.attempt IN
  /\ At("consume") /\ worker.task = t
  /\ IF ValidWait(t, n) /\ CodesFor(t, n) # {}
     THEN \E k \in CodesFor(t, n) :
            /\ codes' = codes \ {k}
            /\ worker' = [worker EXCEPT !.step = "enter", !.code = k.code,
                                        !.attempt = k.attempt]
     ELSE /\ IF ValidWait(t, n) /\ mode = "live" THEN GoTo("relay")
             ELSE Stop("otp_waiting")
          /\ UNCHANGED codes
  /\ UNCHANGED rowVars /\ UNCHANGED <<attempts, seen, sender, serviceVars>>

\* The relay answers for the attempt it was asked for.  The broker learns
\* nothing of the code, so the same message may come again through Push.
RelayAnswers(t) ==
  /\ At("relay") /\ worker.task = t
  /\ \E c \in Code :
       worker' = [worker EXCEPT !.step = "enter", !.code = c, !.relayed = TRUE]
  /\ UNCHANGED rowVars /\ UNCHANGED brokerVars
  /\ UNCHANGED <<attempts, sender, serviceVars>>

\* Nothing for two seconds, an error, or an answer for another attempt.
RelaySilent(t) == At("relay") /\ EndRun(t, {"otp_waiting"})

InHand == [task |-> worker.task, attempt |-> worker.attempt, code |-> worker.code]

EnterCode(t) ==
  /\ At("enter") /\ worker.task = t /\ leased[t]
  /\ typed' = IF worker.relayed THEN typed ELSE typed \cup {InHand}
  /\ worker' = [worker EXCEPT !.step = "typed", !.code = NoCode, !.relayed = FALSE]
  /\ UNCHANGED rowVars /\ UNCHANGED brokerVars
  /\ UNCHANGED <<attempts, sender, discarding, mode>>

\* The challenge is still there: the one control that confirms the login.
ConfirmCode(t) ==
  /\ At("typed") /\ worker.task = t /\ leased[t]
  /\ GoTo("confirmed")
  /\ UNCHANGED rowVars /\ UNCHANGED brokerVars
  /\ UNCHANGED <<attempts, sender, serviceVars>>

\* The field is gone or ambiguous before the code is typed.
FieldGone(t) == At("enter") /\ EndRun(t, {"otp_waiting"})

\* No control confirms it, or a challenge is there all the same.
ChallengeRemains(t) ==
  worker.step \in {"typed", "confirmed"} /\ EndRun(t, {"otp_waiting", "action"})

\* The challenge is gone but the page is not the exact target.
LoginOver == worker.step \in {"page", "typed", "confirmed"}
ReturnUnverified(t) == LoginOver /\ EndRun(t, {"unverified"})

\* complete_attempt() closes the attempt, then discards what the broker holds.
CompleteAttempt(t) ==
  /\ LoginOver /\ worker.task = t
  /\ attempts' = IF CurrentIs(t, worker.attempt)
                 THEN [attempts EXCEPT ![t][worker.attempt].current = FALSE,
                                       ![t][worker.attempt].outcome = "AUTHENTICATED"]
                 ELSE attempts
  /\ codes' = Without(codes, t)
  /\ \E r \in {"ready", "action", "unverified"} : Stop(r)
  /\ UNCHANGED rowVars /\ UNCHANGED <<seen, sender, serviceVars>>

\* The click raises, with or without effect.
ClickFails(t) ==
  /\ At("click") /\ worker.task = t
  /\ attempts' \in {attempts, [attempts EXCEPT ![t][worker.attempt].clicks = @ + 1]}

\* The run loses its lease, or an effect on the page has an unknown outcome.
RunFails(t) ==
  /\ worker.step \in STEPS \ {"idle", "gate", "finish", "after", "wake"}
  /\ worker.task = t
  /\ ClickFails(t) \/ (~At("click") /\ UNCHANGED attempts)
  /\ status' = IF leased[t] THEN [status EXCEPT ![t] = "unverified"] ELSE status
  /\ leased' = [leased EXCEPT ![t] = FALSE]
  /\ worker' = Idle
  /\ UNCHANGED <<returned, open, codes, seen, sender>> /\ UNCHANGED serviceVars

-----------------------------------------------------------------------------
(* The run is over: release the lease, record the return, look for a code. *)

Release(t) ==
  /\ At("release") /\ worker.task = t /\ leased[t]
  /\ status' = [status EXCEPT ![t] = worker.result]
  /\ leased' = [leased EXCEPT ![t] = FALSE]
  /\ GoTo("finish")
  /\ UNCHANGED <<returned, open, attempts, codes, seen, sender>>
  /\ UNCHANGED serviceVars

\* Runs are counted up to two, and in live mode, where the gate tells none,
\* one and more apart.
FinishRun(t) ==
  /\ At("finish") /\ worker.task = t
  /\ open' = [open EXCEPT ![t] = FALSE]
  /\ returned' = [returned EXCEPT ![t] =
       IF mode = "isolated" \/ @ = 2 THEN @ ELSE @ + 1]
  /\ GoTo("after")
  /\ UNCHANGED <<status, leased, attempts, codes, seen, sender>>
  /\ UNCHANGED serviceVars

NeverLooks(t) == FALSE   \* faulty
CodeArrived(t) == worker.result = "otp_waiting" /\ Pending(t)

AfterRun(t) ==
  /\ At("after") /\ worker.task = t
  /\ IF CodeArrived(t) THEN GoTo("wake") ELSE worker' = Idle
  /\ codes' = IF worker.result = "ready" THEN Without(codes, t) ELSE codes
  /\ UNCHANGED rowVars /\ UNCHANGED <<attempts, seen, sender>> /\ UNCHANGED serviceVars

Wake(t) ==
  /\ At("wake") /\ worker.task = t
  /\ ResumeOrRaise(t)
  /\ worker' = Idle
  /\ UNCHANGED <<leased, returned, open, attempts, codes, seen, sender>>
  /\ UNCHANGED serviceVars

-----------------------------------------------------------------------------
(* A sender brings code c for attempt n of task t: OtpBroker.push, then the *)
(* resume.  The attempt id is what the client was once shown, so it may be  *)
(* an old one.                                                              *)

Push(s, t, n, c) ==
  /\ sender[s].step = "idle"
  /\ status[t] = "otp_waiting" /\ ValidWait(t, n)
  /\ sender' = [sender EXCEPT ![s] = [step |-> "store", task |-> t,
                                      attempt |-> n, code |-> c]]
  /\ UNCHANGED rowVars /\ UNCHANGED brokerVars
  /\ UNCHANGED <<attempts, worker, serviceVars>>

Carried(s) == [task |-> sender[s].task, attempt |-> sender[s].attempt,
               code |-> sender[s].code]
StillPending(k) == k \in codes   \* faulty
Duplicate(k) == \E old \in seen : old.task = k.task /\ old.code = k.code

\* Two unconsumed codes for one attempt are ambiguous: neither is kept.
Store(s) ==
  LET k == Carried(s) IN
  /\ sender[s].step = "store"
  /\ IF Duplicate(k)
     THEN UNCHANGED brokerVars /\ sender' = [sender EXCEPT ![s] = NoMessage]
     ELSE /\ seen' = seen \cup {k}
          /\ IF PendingOf(k.task, k.attempt)
             THEN /\ codes' = codes \ CodesFor(k.task, k.attempt)
                  /\ sender' = [sender EXCEPT ![s] = NoMessage]
             ELSE /\ codes' = codes \cup {k}
                  /\ sender' = [sender EXCEPT ![s] = [NoMessage EXCEPT !.step = "look", !.task = k.task]]
  /\ UNCHANGED rowVars /\ UNCHANGED <<attempts, worker>> /\ UNCHANGED serviceVars

\* A late thread is a watcher, any other an HTTP handler: a watcher resumes only
\* a task that still waits for its user.
Look(s, late) ==
  LET t == sender[s].task IN
  /\ sender[s].step = "look"
  /\ IF ~leased[t] /\ (late => status[t] \in {"otp_waiting", "action"})
     THEN sender' = [sender EXCEPT ![s].step = "wake"]
     ELSE sender' = [sender EXCEPT ![s] = NoMessage]
  /\ UNCHANGED rowVars /\ UNCHANGED brokerVars
  /\ UNCHANGED <<attempts, worker>> /\ UNCHANGED serviceVars

WakeTask(s) ==
  /\ sender[s].step = "wake"
  /\ ResumeOrRaise(sender[s].task)
  /\ sender' = [sender EXCEPT ![s] = NoMessage]
  /\ UNCHANGED <<leased, returned, open, attempts, codes, seen, worker>>
  /\ UNCHANGED serviceVars

-----------------------------------------------------------------------------
(* The user, the clock and the service.                                    *)

AuthorizeResend(t) ==
  /\ status[t] = "otp_waiting" /\ Resumable(t) /\ Len(attempts[t]) < MaxAttempts
  /\ \E n \in DOMAIN attempts[t] :
       /\ CurrentIs(t, n)
       /\ attempts[t][n].outcome \in SENT /\ attempts[t][n].cooled
       /\ attempts' = [attempts EXCEPT
            ![t] = Append([@ EXCEPT ![n].current = FALSE], Prepared(TRUE))]
  /\ ResumeInTx(t)
  /\ discarding' = discarding \cup {t}
  /\ PurgeAtInsert(t) /\ typed' = Without(typed, t)
  /\ UNCHANGED <<leased, returned, open, codes, worker, sender, mode>>

\* The handler discards what the broker holds after its transaction.
DiscardOldCodes(t) ==
  /\ t \in discarding
  /\ discarding' = discarding \ {t}
  /\ codes' = Without(codes, t)
  /\ UNCHANGED rowVars /\ UNCHANGED <<attempts, seen, worker, sender>>
  /\ UNCHANGED <<typed, mode>>

Resume(t) ==
  /\ ResumeInTx(t)
  /\ UNCHANGED <<leased, returned, open, attempts, codes, seen, worker, sender>>
  /\ UNCHANGED serviceVars

\* A pause keeps a blocker that asks for a reconciliation.
Pause(t) ==
  /\ status[t] \notin STOPPED
  /\ status' = IF status[t] = "unverified" THEN status
               ELSE [status EXCEPT ![t] = "paused"]
  /\ leased' = [leased EXCEPT ![t] = FALSE]
  /\ UNCHANGED <<returned, open, attempts, codes, seen, worker, sender>>
  /\ UNCHANGED serviceVars

Cancel(t) ==
  /\ status' = [status EXCEPT ![t] = "cancelled"]
  /\ leased' = [leased EXCEPT ![t] = FALSE]
  /\ codes' = Without(codes, t)
  /\ UNCHANGED <<returned, open, attempts, seen, worker, sender>>
  /\ UNCHANGED serviceVars

\* A cooldown lasts 60 seconds, a wait and an entry of the broker 300.  Nobody
\* can take a code after the deadline, so the entries of an attempt are purged
\* with it; those of an attempt no longer current may be gone, or not, when the
\* next one is inserted.
CooldownEnds(t, n) ==
  /\ CurrentIs(t, n) /\ attempts[t][n].outcome \in SENT
  /\ attempts' = [attempts EXCEPT ![t][n].cooled = TRUE]
  /\ UNCHANGED rowVars /\ UNCHANGED brokerVars
  /\ UNCHANGED <<worker, sender>> /\ UNCHANGED serviceVars

DeadlinePasses(t, n) ==
  /\ CurrentIs(t, n) /\ attempts[t][n].outcome # "PREPARED"
  /\ attempts[t][n].outcome \in SENT => attempts[t][n].cooled
  /\ attempts' = [attempts EXCEPT ![t][n].expired = TRUE]
  /\ codes' = codes \ CodesFor(t, n)
  /\ seen' = {k \in seen : k.task # t \/ k.attempt # n}
  /\ UNCHANGED rowVars /\ UNCHANGED <<worker, sender>> /\ UNCHANGED serviceVars

\* What was in memory is gone; the lease of the dead worker runs out.
Restart ==
  /\ mode' \in Modes
  /\ leased' = [t \in Task |-> FALSE]
  /\ codes' = {} /\ seen' = {} /\ typed' = {} /\ discarding' = {}
  /\ worker' = Idle
  /\ sender' = [s \in Sender |-> NoMessage]
  /\ UNCHANGED <<status, returned, open, attempts>>

WorkerStep(t) ==
  \/ Claim(t) \/ BeginRun(t) \/ GateRefuses(t) \/ SetupFails(t)
  \/ NoSmsChallenge(t) \/ BeginAttempt(t) \/ AttemptRefused(t)
  \/ FieldUnavailable(t) \/ ControlsUnproven(t) \/ OtherChallenge(t)
  \/ AlreadyRequested(t) \/ RequestShown(t)
  \/ RecordSendIntent(t) \/ ObserveExternalWait(t) \/ Click(t)
  \/ RecordSendResult(t) \/ WaitForCode(t) \/ Consume(t) \/ RelayAnswers(t)
  \/ RelaySilent(t) \/ EnterCode(t) \/ ConfirmCode(t) \/ FieldGone(t)
  \/ ChallengeRemains(t) \/ ReturnUnverified(t) \/ CompleteAttempt(t)
  \/ RunFails(t) \/ Release(t) \/ FinishRun(t) \/ AfterRun(t) \/ Wake(t)
SenderStep(s) ==
  \/ \E t \in Task, c \in Code : \E n \in DOMAIN attempts[t] : Push(s, t, n, c)
  \/ Store(s) \/ (\E late \in BOOLEAN : Look(s, late)) \/ WakeTask(s)
UserStep(t) ==
  AuthorizeResend(t) \/ DiscardOldCodes(t) \/ Resume(t) \/ Pause(t) \/ Cancel(t)
ClockStep(t) ==
  \E n \in DOMAIN attempts[t] : CooldownEnds(t, n) \/ DeadlinePasses(t, n)

Next ==
  \/ \E t \in Task : WorkerStep(t) \/ UserStep(t) \/ ClockStep(t)
  \/ \E s \in Sender : SenderStep(s)
  \/ Restart

Spec == Init /\ [][Next]_vars

-----------------------------------------------------------------------------
(* Properties.                                                             *)

\* One SMS needs one consent: every attempt is clicked at most once, whatever
\* crashes, races or repeats, and an attempt after the first is clicked only
\* because the user authorised a resend or the one before it had logged in.
OneSmsPerConsent ==
  \A t \in Task : \A n \in DOMAIN attempts[t] :
    /\ attempts[t][n].clicks <= 1
    /\ attempts[t][n].clicks = 1 /\ n > 1 =>
         attempts[t][n].resend \/ attempts[t][n - 1].outcome = "AUTHENTICATED"

\* The code a run with its lease is about to type was sent for the attempt
\* that is still current: a resend never lets a code of the old SMS through,
\* however late the thread that brought it stored it.
CodeOfCurrentAttempt ==
  At("enter") /\ leased[worker.task] => CurrentIs(worker.task, worker.attempt)

\* A code the broker accepted is used once: a run never takes one out of the
\* broker that it took and typed for the attempt before, whichever threads
\* deliver it again.  Codes of the relay never pass the broker's table.
CodeIsFresh == At("enter") /\ ~worker.relayed => InHand \notin typed

\* No lost wakeup: a task whose code lies in the broker does not sleep in its
\* wait unless somebody who will wake it is on the way, be it the worker that
\* ends its run or the thread that stored the code.
CodeIsNoticed ==
  \A t \in Task :
    Pending(t) /\ status[t] = "otp_waiting" /\ ~leased[t] /\ ~open[t] =>
      \/ worker.task = t /\ worker.step \in {"after", "wake"}
      \/ \E s \in Sender : sender[s].task = t /\ sender[s].step \in {"look", "wake"}

ResendAuthorized(t) ==
  \E n \in DOMAIN attempts[t] :
    CurrentIs(t, n) /\ Unsent(t, n) /\ attempts[t][n].resend

\* As the person with the phone sees it, the journal and the broker are a login
\* in rounds: a round needs consent while another is under way, it asks for one
\* message, and codes are typed in it only.
Sight(a) == [consented |-> a.resend, messages |-> a.clicks,
             stage |-> IF a.outcome = "AUTHENTICATED" THEN "over" ELSE "open"]
Rounds(s) == [n \in DOMAIN s |-> Sight(s[n])]
TypedNow(t) == {k.code : k \in {j \in typed : j.task = t}}
Login == INSTANCE SmsLogin WITH
  rounds <- [t \in Task |-> Rounds(attempts[t])], typed <- [t \in Task |-> TypedNow(t)]
ImplementsSmsLogin == Login!Spec

\* README.md promises that a user may authorise one resend: the worker does
\* not refuse to run a task for which the user just did.  It does, in live
\* mode: the new attempt is no valid wait and no code is pending.
AuthorizedResendProceeds ==
  [][\A t \in Task : At("gate") /\ worker.task = t /\ ResendAuthorized(t)
                        => status'[t] # "unverified"]_vars
=============================================================================
