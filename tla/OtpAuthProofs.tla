--------------------------- MODULE OtpAuthProofs ---------------------------
(***************************************************************************)
(* Proofs about OtpAuth, for every set of applications, codes and threads  *)
(* and any number of attempts.                                             *)
(*                                                                         *)
(* The argument.  From its first look at a challenge to the end of the run *)
(* the task is open, and resend authorisation asks for a task that is not; *)
(* so the attempt a run works on stays the current one (WorkerInv), and a  *)
(* click is the first of its attempt (JournalInv).  A code that was typed  *)
(* is still remembered by the broker, or its attempt is over: what the     *)
(* broker accepts again can then be of no use to a run (BrokerInv).  A     *)
(* task in its wait was put there by a worker that has yet to look for a   *)
(* code, and whoever stores a code has yet to look for the task.           *)
(* Since the current attempt is the last one and is current until its      *)
(* login is over (LoginInv), each event of a login concerns its last       *)
(* round, and the whole is what SmsLogin promises.                         *)
(***************************************************************************)
EXTENDS OtpAuth, SequenceTheorems, TLAPS

RUN_STEPS == {"prepare", "click", "result", "page", "consume", "relay", "enter", "typed", "confirmed"}
OPEN_STEPS == RUN_STEPS \cup {"auth", "release", "finish"}

WorkerInv ==
  /\ worker.step # "idle" => worker.task \in Task
  /\ worker.step \in OPEN_STEPS => open[worker.task]
  /\ worker.step \in RUN_STEPS => CurrentIs(worker.task, worker.attempt)
  /\ At("enter") => worker.code \in Code

SenderInv ==
  \A s \in Sender : sender[s].step # "idle" =>
    /\ sender[s].task \in Task
    /\ sender[s].step = "store" =>
         sender[s].code \in Code /\ sender[s].attempt \in DOMAIN attempts[sender[s].task]

\* A wait was entered by a run, and that run has yet to look for a code.
WaitInv ==
  /\ At("gate") => status[worker.task] # "otp_waiting"
  /\ worker.step \in {"finish", "after", "wake"} /\ status[worker.task] = "otp_waiting" =>
       worker.result = "otp_waiting"

JournalInv ==
  /\ \A t \in Task : \A n \in DOMAIN attempts[t] :
       /\ attempts[t][n].current \/ attempts[t][n].outcome \in SENT \cup {"AUTHENTICATED"}
       /\ attempts[t][n].clicks \in 0 .. 1
       /\ attempts[t][n].outcome = "PREPARED" => attempts[t][n].clicks = 0
       /\ n > 1 => attempts[t][n].resend \/ attempts[t][n - 1].outcome = "AUTHENTICATED"
  /\ At("click") => /\ attempts[worker.task][worker.attempt].clicks = 0
                    /\ attempts[worker.task][worker.attempt].outcome # "PREPARED"

\* A code of an attempt that nobody can wait for any more.
Over(k) == ~CurrentIs(k.task, k.attempt) \/ attempts[k.task][k.attempt].expired
Hand == IF At("enter") /\ ~worker.relayed THEN {InHand} ELSE {}
BrokerInv ==
  /\ \A k \in codes \cup typed \cup Hand :
       k.attempt \in DOMAIN attempts[k.task] /\ (k \in seen \/ Over(k))
  /\ \A k \in codes \cap (typed \cup Hand) : Over(k)
  /\ Hand \cap typed = {}

IInv == TypeOK /\ WorkerInv /\ SenderInv /\ WaitInv /\ JournalInv /\ BrokerInv /\ CodeIsNoticed

-----------------------------------------------------------------------------
(* Lemmas about the journal.                                                 *)

\* A row of the journal is replaced, the others stay.
LEMMA Amend ==
  ASSUME JournalOK, NEW t \in Task, NEW n \in DOMAIN attempts[t], NEW r \in AuthAttempt,
         attempts' = [attempts EXCEPT ![t] = [attempts[t] EXCEPT ![n] = r]]
  PROVE  /\ attempts' \in [Task -> Seq(AuthAttempt)]
         /\ \A u \in Task : DOMAIN attempts'[u] = DOMAIN attempts[u] /\ Len(attempts'[u]) = Len(attempts[u])
         /\ \A u \in Task : \A m \in DOMAIN attempts[u] :
              attempts'[u][m] = IF u = t /\ m = n THEN r ELSE attempts[u][m]
<1>1. attempts[t] \in Seq(AuthAttempt)
  BY DEF JournalOK
<1>2. PICK q : q = [attempts[t] EXCEPT ![n] = r]
  OBVIOUS
<1>3. /\ q \in Seq(AuthAttempt) /\ DOMAIN q = DOMAIN attempts[t] /\ Len(q) = Len(attempts[t])
      /\ \A m \in DOMAIN attempts[t] : q[m] = IF m = n THEN r ELSE attempts[t][m]
  BY <1>1, <1>2
<1>4. attempts' = [attempts EXCEPT ![t] = q]
  BY <1>2
<1> QED
  BY <1>3, <1>4 DEF JournalOK

\* The attempt of a run is a row of the journal, the last one.
LEMMA InRun ==
  ASSUME TypeOK, WorkerInv, worker.step \in RUN_STEPS
  PROVE  /\ worker.task \in Task /\ open[worker.task]
         /\ worker.attempt \in DOMAIN attempts[worker.task]
         /\ attempts[worker.task][worker.attempt].current
         /\ attempts[worker.task][worker.attempt] \in AuthAttempt
<1>1. worker.task \in Task /\ open[worker.task] /\ CurrentIs(worker.task, worker.attempt)
  BY DEF WorkerInv, RUN_STEPS, OPEN_STEPS
<1>2. attempts[worker.task] \in Seq(AuthAttempt)
  BY <1>1 DEF TypeOK, JournalOK
<1> QED
  BY <1>1, <1>2 DEF CurrentIs

\* Rows of the journal have their type.
LEMMA CurrentTyped ==
  ASSUME JournalOK, NEW t \in Task, NEW n \in DOMAIN attempts[t]
  PROVE  n \in Nat /\ attempts[t][n] \in AuthAttempt
BY DEF JournalOK

-----------------------------------------------------------------------------
(* Frames: the parts of the invariant that a step leaves alone.              *)

\* What the sender knows stays true while no attempt is removed.
LEMMA SenderFrame ==
  ASSUME SenderInv, sender' = sender,
         \A t \in Task : DOMAIN attempts[t] \subseteq DOMAIN attempts'[t]
  PROVE  SenderInv'
BY DEF SenderInv

\* A step that writes no attempt and clicks nothing keeps the journal in order.
LEMMA JournalFrame ==
  ASSUME JournalInv, attempts' = attempts, worker'.step # "click"
  PROVE  JournalInv'
BY DEF JournalInv, At

\* Slots only leave the broker, the hand is empty or as it was.
LEMMA BrokerFrame ==
  ASSUME BrokerInv, codes' \subseteq codes, seen' = seen, typed' = typed, attempts' = attempts,
         Hand' \subseteq Hand
  PROVE  BrokerInv'
BY DEF BrokerInv, Over, CurrentIs

\* Only a worker that enters a code has one in its hand.
LEMMA EmptyHand ==
  ASSUME worker'.step # "enter"
  PROVE  Hand' = {}
BY DEF Hand, At

\* A code that is pending after a step that adds none was pending before.
LEMMA PendingShrinks ==
  ASSUME NEW t \in Task, attempts'[t] = attempts[t], \A k \in codes' : k.task = t => k \in codes, Pending(t)'
  PROVE  Pending(t)
BY DEF Pending, ValidWait, CurrentIs, PendingOf

\* A run wakes nobody and keeps nobody asleep: its own task is open.
LEMMA RunFrame ==
  ASSUME TypeOK, WorkerInv, CodeIsNoticed, worker.step \in OPEN_STEPS \ {"finish"}, open' = open, sender' = sender,
         codes' \subseteq codes,
         \A u \in Task \ {worker.task} :
           attempts'[u] = attempts[u] /\ status'[u] = status[u] /\ leased'[u] = leased[u]
  PROVE  CodeIsNoticed'
<1> SUFFICES ASSUME NEW u \in Task, (Pending(u) /\ status[u] = "otp_waiting" /\ ~leased[u] /\ ~open[u])'
             PROVE  \E s \in Sender : sender'[s].task = u /\ sender'[s].step \in {"look", "wake"}
  BY DEF CodeIsNoticed
<1>1. u # worker.task
  BY DEF WorkerInv
<1>2. Pending(u)
  BY <1>1, PendingShrinks
<1> QED
  BY <1>1, <1>2 DEF CodeIsNoticed

-----------------------------------------------------------------------------
(* The start of the program.                                                 *)

\* No attempt, no code, no message.
LEMMA InitInv == Init => IInv
<1> SUFFICES ASSUME Init PROVE IInv
  OBVIOUS
<1>1. RowsOK /\ ServiceOK
  BY OtpAssumption DEF Init, RowsOK, ServiceOK, STATUS
<1>2. \A t \in Task : attempts[t] = << >> /\ DOMAIN attempts[t] = {}
  BY DEF Init
<1>3. JournalOK /\ BrokerOK
  BY <1>2 DEF Init, JournalOK, OneCurrent, BrokerOK
<1>4. WorkerOK
  BY DEF Init, WorkerOK, Idle, STEPS, STATUS
<1>5. SenderOK
  BY DEF Init, SenderOK, NoMessage
<1>6. worker.step = "idle" /\ \A s \in Sender : sender[s].step = "idle"
  BY DEF Init, Idle, NoMessage
<1>7. WorkerInv /\ SenderInv /\ WaitInv
  BY <1>6 DEF WorkerInv, SenderInv, WaitInv, OPEN_STEPS, RUN_STEPS, At
<1>8. JournalInv
  BY <1>2, <1>6 DEF JournalInv, At
<1>9. BrokerInv
  BY <1>6 DEF Init, BrokerInv, Hand, At
<1>10. CodeIsNoticed
  BY <1>2 DEF CodeIsNoticed, Pending
<1> QED
  BY <1>1, <1>3, <1>4, <1>5, <1>7, <1>8, <1>9, <1>10 DEF IInv, TypeOK

-----------------------------------------------------------------------------
(* The steps of a run.                                                       *)

\* A run that ends puts its result down and still holds what it held.
LEMMA EndRunStep ==
  ASSUME IInv, NEW t \in Task, NEW results \in SUBSET STATUS,
         worker.step \in RUN_STEPS \cup {"auth"}, EndRun(t, results)
  PROVE  IInv'
<1>1. PICK r \in results : worker' = [Idle EXCEPT !.step = "release", !.result = r, !.task = worker.task]
  BY DEF EndRun, Stop
<1>2. worker'.step = "release" /\ worker'.task = t
  BY <1>1 DEF EndRun, Idle
<1>3. TypeOK'
  BY <1>1 DEF IInv, TypeOK, RowsOK, JournalOK, OneCurrent, BrokerOK, WorkerOK, SenderOK, ServiceOK, EndRun,
              Idle, STEPS, rowVars, brokerVars, serviceVars
<1>4. WorkerInv'
  BY <1>2 DEF IInv, WorkerInv, EndRun, At, RUN_STEPS, OPEN_STEPS, rowVars
<1>5. SenderInv'
  BY SenderFrame DEF IInv, EndRun
<1>6. WaitInv'
  BY <1>2 DEF WaitInv, At
<1>7. JournalInv'
  BY <1>2, JournalFrame DEF IInv, EndRun
<1>8. BrokerInv'
  BY <1>2, EmptyHand, BrokerFrame DEF IInv, EndRun, brokerVars, serviceVars
<1>9. CodeIsNoticed'
  BY RunFrame DEF IInv, EndRun, rowVars, brokerVars, OPEN_STEPS, RUN_STEPS
<1> QED
  BY <1>3, <1>4, <1>5, <1>6, <1>7, <1>8, <1>9 DEF IInv

\* A run goes on to its next step with nothing else changed.
LEMMA GoOnStep ==
  ASSUME IInv, NEW step \in RUN_STEPS \ {"click", "enter"}, worker.step \in RUN_STEPS, GoTo(step),
         UNCHANGED rowVars, UNCHANGED brokerVars, UNCHANGED <<attempts, sender, serviceVars>>
  PROVE  IInv'
<1>1. worker' = [worker EXCEPT !.step = step] /\ worker'.step = step /\ worker'.task = worker.task
      /\ worker'.attempt = worker.attempt
  BY DEF GoTo, IInv, TypeOK, WorkerOK
<1>2. TypeOK'
  BY <1>1 DEF IInv, TypeOK, RowsOK, JournalOK, OneCurrent, BrokerOK, WorkerOK, SenderOK, ServiceOK,
              STEPS, RUN_STEPS, rowVars, brokerVars, serviceVars
<1>3. WorkerInv'
  BY <1>1 DEF IInv, WorkerInv, At, CurrentIs, RUN_STEPS, OPEN_STEPS, rowVars
<1>4. SenderInv'
  BY SenderFrame DEF IInv
<1>5. WaitInv'
  BY <1>1 DEF WaitInv, At, RUN_STEPS
<1>6. JournalInv'
  BY <1>1, JournalFrame DEF IInv
<1>7. BrokerInv'
  BY <1>1, EmptyHand, BrokerFrame DEF IInv, brokerVars, serviceVars
<1>8. CodeIsNoticed'
  BY RunFrame DEF IInv, rowVars, brokerVars, OPEN_STEPS, RUN_STEPS
<1> QED
  BY <1>2, <1>3, <1>4, <1>5, <1>6, <1>7, <1>8 DEF IInv

\* The row of the run's attempt becomes r, which keeps its consent and is of a
\* single click.
Amends(r) ==
  LET t == worker.task
      n == worker.attempt
  IN /\ attempts' = [attempts EXCEPT ![t] = [attempts[t] EXCEPT ![n] = r]]
     /\ r \in AuthAttempt
     /\ r.current \/ r.outcome \in SENT \cup {"AUTHENTICATED"}
     /\ r.resend = attempts[t][n].resend
     /\ r.current => r.expired = attempts[t][n].expired
     /\ r.clicks \in 0 .. 1 /\ (r.outcome = "PREPARED" => r.clicks = 0)

\* The attempt of a run is amended: the journal stays one of single clicks,
\* and what is over stays over.
LEMMA AmendFrame ==
  ASSUME IInv, worker.step \in RUN_STEPS, NEW r, Amends(r),
         worker'.step = "click" =>
           /\ worker'.task = worker.task /\ worker'.attempt = worker.attempt
           /\ r.clicks = 0 /\ r.outcome # "PREPARED",
         worker'.step # "enter", codes' \subseteq codes, seen' = seen, typed' = typed
  PROVE  /\ JournalOK' /\ JournalInv' /\ BrokerInv'
         /\ \A u \in Task \ {worker.task} : attempts'[u] = attempts[u]
         /\ \A u \in Task : DOMAIN attempts[u] \subseteq DOMAIN attempts'[u]
         /\ worker.attempt \in DOMAIN attempts'[worker.task] /\ attempts'[worker.task][worker.attempt] = r
<1> DEFINE t == worker.task
           n == worker.attempt
<1>1. t \in Task /\ n \in DOMAIN attempts[t] /\ attempts[t][n].current
  BY InRun DEF IInv
<1>2. /\ attempts' \in [Task -> Seq(AuthAttempt)]
      /\ \A u \in Task : DOMAIN attempts'[u] = DOMAIN attempts[u] /\ Len(attempts'[u]) = Len(attempts[u])
      /\ \A u \in Task : \A m \in DOMAIN attempts[u] :
           attempts'[u][m] = IF u = t /\ m = n THEN r ELSE attempts[u][m]
  BY <1>1, Amend DEF IInv, TypeOK, Amends
<1>3. JournalOK'
  BY <1>1, <1>2 DEF IInv, TypeOK, JournalOK, OneCurrent, Amends
<1>4. JournalInv'
  <2>1. \A u \in Task : \A m \in DOMAIN attempts'[u] :
          /\ attempts'[u][m].current \/ attempts'[u][m].outcome \in SENT \cup {"AUTHENTICATED"}
          /\ attempts'[u][m].clicks \in 0 .. 1
          /\ attempts'[u][m].outcome = "PREPARED" => attempts'[u][m].clicks = 0
    BY <1>2 DEF IInv, JournalInv, Amends
  <2>2. \A u \in Task : \A m \in DOMAIN attempts'[u] :
          m > 1 => attempts'[u][m].resend \/ attempts'[u][m - 1].outcome = "AUTHENTICATED"
    <3>1. SUFFICES ASSUME NEW u \in Task, NEW m \in DOMAIN attempts[u], m > 1
                   PROVE  attempts'[u][m].resend \/ attempts'[u][m - 1].outcome = "AUTHENTICATED"
      BY <1>2
    <3>2. attempts[u] \in Seq(AuthAttempt) /\ m \in Nat /\ m - 1 \in DOMAIN attempts[u] /\ m # m - 1
      BY <3>1 DEF IInv, TypeOK, JournalOK
    <3>3. m <= Len(attempts[u]) /\ (u = t => n = Len(attempts[u]))
      BY <1>1, <3>2 DEF IInv, TypeOK, JournalOK, OneCurrent
    <3>4. ~(u = t /\ m - 1 = n)
      BY <3>2, <3>3
    <3>5. attempts[u][m].resend \/ attempts[u][m - 1].outcome = "AUTHENTICATED"
      BY <3>1 DEF IInv, JournalInv
    <3> QED
      BY <1>2, <3>2, <3>4, <3>5 DEF Amends
  <2> QED
    BY <1>1, <1>2, <2>1, <2>2 DEF JournalInv, At, Amends
<1>5. BrokerInv'
  <2>1. \A k \in Slot : Over(k) /\ k.attempt \in DOMAIN attempts[k.task] => Over(k)'
    BY <1>1, <1>2 DEF Over, CurrentIs, Slot, Amends
  <2>2. codes \cup typed \cup Hand \subseteq Slot
    BY DEF IInv, TypeOK, BrokerOK, WorkerOK, WorkerInv, Hand, InHand, Slot, At
  <2>3. Hand' = {}
    BY EmptyHand
  <2> QED
    BY <1>2, <2>1, <2>2, <2>3 DEF IInv, TypeOK, BrokerOK, BrokerInv, Slot
<1>6. \A u \in Task \ {t} : attempts'[u] = attempts[u]
  BY DEF IInv, TypeOK, JournalOK, Amends
<1> QED
  BY <1>1, <1>2, <1>3, <1>4, <1>5, <1>6

\* A run amends its attempt, which stays current and keeps its consent.
LEMMA AmendStep ==
  ASSUME IInv, worker.step \in RUN_STEPS, NEW step \in RUN_STEPS \ {"enter"}, GoTo(step),
         NEW r, Amends(r), r.current, step = "click" => r.clicks = 0 /\ r.outcome # "PREPARED",
         UNCHANGED rowVars, UNCHANGED brokerVars, UNCHANGED <<sender, serviceVars>>
  PROVE  IInv'
<1> DEFINE t == worker.task
           n == worker.attempt
<1>1. t \in Task
  BY InRun DEF IInv
<1>2. worker' = [worker EXCEPT !.step = step] /\ worker'.step = step /\ worker'.task = t /\ worker'.attempt = n
  BY DEF GoTo, IInv, TypeOK, WorkerOK
<1>3. codes' \subseteq codes /\ seen' = seen /\ typed' = typed
  BY DEF brokerVars, serviceVars
<1>4. /\ JournalOK' /\ JournalInv' /\ BrokerInv'
      /\ \A u \in Task \ {t} : attempts'[u] = attempts[u]
      /\ \A u \in Task : DOMAIN attempts[u] \subseteq DOMAIN attempts'[u]
      /\ n \in DOMAIN attempts'[t] /\ attempts'[t][n] = r
  BY <1>2, <1>3, AmendFrame
<1>5. TypeOK'
  BY <1>2, <1>4 DEF IInv, TypeOK, RowsOK, BrokerOK, WorkerOK, SenderOK, ServiceOK,
                    STEPS, RUN_STEPS, rowVars, brokerVars, serviceVars
<1>6. WorkerInv'
  BY <1>1, <1>2, <1>4 DEF IInv, WorkerInv, At, CurrentIs, RUN_STEPS, OPEN_STEPS, rowVars
<1>7. SenderInv'
  BY <1>4, SenderFrame DEF IInv
<1>8. WaitInv'
  BY <1>2 DEF WaitInv, At, RUN_STEPS
<1>9. CodeIsNoticed'
  BY <1>1, <1>3, <1>4, RunFrame DEF IInv, rowVars, OPEN_STEPS, RUN_STEPS
<1> QED
  BY <1>4, <1>5, <1>6, <1>7, <1>8, <1>9 DEF IInv

\* The ways a run ends without an error.
LEMMA EndSteps ==
  ASSUME IInv, NEW t \in Task,
         \/ NoSmsChallenge(t) \/ AttemptRefused(t) \/ FieldUnavailable(t) \/ ControlsUnproven(t)
         \/ OtherChallenge(t) \/ RelaySilent(t) \/ FieldGone(t) \/ ChallengeRemains(t) \/ ReturnUnverified(t)
  PROVE  IInv'
<1>1. CASE NoSmsChallenge(t)
  BY <1>1, EndRunStep DEF NoSmsChallenge, At, STATUS, STOPPED
<1>2. CASE AttemptRefused(t)
  BY <1>2, EndRunStep DEF AttemptRefused, At, STATUS
<1>3. CASE FieldUnavailable(t)
  BY <1>3, EndRunStep DEF FieldUnavailable, At, STATUS, RUN_STEPS
<1>4. CASE ControlsUnproven(t)
  BY <1>4, EndRunStep DEF ControlsUnproven, At, STATUS, RUN_STEPS
<1>5. CASE OtherChallenge(t)
  BY <1>5, EndRunStep DEF OtherChallenge, At, STATUS, RUN_STEPS
<1>6. CASE RelaySilent(t)
  BY <1>6, EndRunStep DEF RelaySilent, At, STATUS, RUN_STEPS
<1>7. CASE FieldGone(t)
  BY <1>7, EndRunStep DEF FieldGone, At, STATUS, RUN_STEPS
<1>8. CASE ChallengeRemains(t)
  BY <1>8, EndRunStep DEF ChallengeRemains, At, STATUS, RUN_STEPS
<1>9. CASE ReturnUnverified(t)
  BY <1>9, EndRunStep DEF ReturnUnverified, LoginOver, At, STATUS, RUN_STEPS
<1> QED
  BY <1>1, <1>2, <1>3, <1>4, <1>5, <1>6, <1>7, <1>8, <1>9

\* The steps of a run that only look at the page.
LEMMA GoOnSteps ==
  ASSUME IInv, NEW t \in Task, AlreadyRequested(t) \/ RequestShown(t) \/ ConfirmCode(t)
  PROVE  IInv'
<1>1. CASE AlreadyRequested(t)
  BY <1>1, GoOnStep DEF AlreadyRequested, At, RUN_STEPS
<1>2. CASE RequestShown(t)
  BY <1>2, GoOnStep DEF RequestShown, At, RUN_STEPS
<1>3. CASE ConfirmCode(t)
  BY <1>3, GoOnStep DEF ConfirmCode, At, RUN_STEPS
<1> QED
  BY <1>1, <1>2, <1>3

\* The run marks the send, clicks and records what it saw: in the journal the
\* click of an attempt comes after its marker and is the first.
LEMMA AmendSteps ==
  ASSUME IInv, NEW t \in Task,
         RecordSendIntent(t) \/ ObserveExternalWait(t) \/ Click(t) \/ RecordSendResult(t)
  PROVE  IInv'
<1> DEFINE n == worker.attempt
           a == attempts[t][n]
<1>1. worker.task = t /\ worker.step \in RUN_STEPS
  BY DEF RecordSendIntent, ObserveExternalWait, Click, RecordSendResult, At, RUN_STEPS
<1>2. a \in AuthAttempt /\ a.current /\ n \in DOMAIN attempts[t]
  BY <1>1, InRun DEF IInv
<1>3. /\ a.clicks \in 0 .. 1 /\ (a.outcome = "PREPARED" => a.clicks = 0)
      /\ (At("click") => a.clicks = 0 /\ a.outcome # "PREPARED")
  BY <1>1, <1>2 DEF IInv, JournalInv
<1>4. CASE RecordSendIntent(t)
  <2>1. PICK r : r = [a EXCEPT !.outcome = "SEND_UNKNOWN"]
    OBVIOUS
  <2>2. /\ r \in AuthAttempt /\ r.current /\ r.resend = a.resend /\ r.expired = a.expired
        /\ r.clicks = a.clicks /\ r.outcome = "SEND_UNKNOWN"
    BY <1>2, <2>1 DEF AuthAttempt, WAITING, SENT
  <2>3. Amends(r)
    BY <1>1, <1>3, <1>4, <2>1, <2>2 DEF RecordSendIntent, Amends
  <2>4. "click" \in RUN_STEPS \ {"enter"} /\ a.clicks = 0
    BY <1>3, <1>4 DEF RUN_STEPS, RecordSendIntent, Unsent
  <2> QED
    BY <1>1, <1>4, <2>2, <2>3, <2>4, AmendStep DEF RecordSendIntent
<1>5. CASE ObserveExternalWait(t)
  <2>1. PICK r : r = [a EXCEPT !.outcome = "EXTERNAL_OBSERVED"]
    OBVIOUS
  <2>2. /\ r \in AuthAttempt /\ r.current /\ r.resend = a.resend /\ r.expired = a.expired
        /\ r.clicks = a.clicks /\ r.outcome = "EXTERNAL_OBSERVED"
    BY <1>2, <2>1 DEF AuthAttempt, WAITING, SENT
  <2>3. Amends(r)
    BY <1>1, <1>3, <1>5, <2>1, <2>2 DEF ObserveExternalWait, Amends
  <2>4. "page" \in RUN_STEPS \ {"enter"} /\ "page" # "click"
    BY <1>3, <1>5 DEF RUN_STEPS, ObserveExternalWait
  <2> QED
    BY <1>1, <1>5, <2>2, <2>3, <2>4, AmendStep DEF ObserveExternalWait
<1>6. CASE Click(t)
  <2>1. PICK r : r = [a EXCEPT !.clicks = @ + 1]
    OBVIOUS
  <2>2. /\ r \in AuthAttempt /\ r.current /\ r.resend = a.resend /\ r.expired = a.expired
        /\ r.clicks = 1 /\ r.outcome # "PREPARED"
    BY <1>1, <1>2, <1>3, <1>6, <2>1 DEF AuthAttempt, Click
  <2>3. Amends(r)
    BY <1>1, <1>3, <1>6, <2>1, <2>2 DEF Click, Amends
  <2>4. "result" \in RUN_STEPS \ {"enter"} /\ "result" # "click"
    BY <1>3, <1>6 DEF RUN_STEPS, Click
  <2> QED
    BY <1>1, <1>6, <2>2, <2>3, <2>4, AmendStep DEF Click
<1>7. CASE RecordSendResult(t)
  <2>1. PICK r : r = [a EXCEPT !.outcome = "CLICK_OBSERVED"]
    OBVIOUS
  <2>2. /\ r \in AuthAttempt /\ r.current /\ r.resend = a.resend /\ r.expired = a.expired
        /\ r.clicks = a.clicks /\ r.outcome = "CLICK_OBSERVED"
    BY <1>2, <2>1 DEF AuthAttempt, WAITING, SENT
  <2>3. Amends(r)
    BY <1>1, <1>3, <1>7, <2>1, <2>2 DEF RecordSendResult, Amends
  <2>4. "page" \in RUN_STEPS \ {"enter"} /\ "page" # "click"
    BY <1>3, <1>7 DEF RUN_STEPS, RecordSendResult
  <2> QED
    BY <1>1, <1>7, <2>2, <2>3, <2>4, AmendStep DEF RecordSendResult
<1> QED
  BY <1>4, <1>5, <1>6, <1>7

-----------------------------------------------------------------------------
(* Before the run, and its way through the challenge.                        *)

\* Nothing of the journal changes, no code is added and the worker goes where
\* it neither clicks nor holds a code.
LEMMA QuietFrame ==
  ASSUME IInv, attempts' = attempts, sender' = sender, codes' \subseteq codes, seen' = seen, typed' = typed,
         worker'.step \notin {"enter", "click"}
  PROVE  SenderInv' /\ JournalInv' /\ BrokerInv'
<1>1. SenderInv'
  BY SenderFrame DEF IInv
<1>2. JournalInv'
  BY JournalFrame DEF IInv
<1>3. BrokerInv'
  BY EmptyHand, BrokerFrame DEF IInv
<1> QED
  BY <1>1, <1>2, <1>3

\* Before a run the task of the worker is no waiting one.
LEMMA GateSteps ==
  ASSUME IInv, NEW t \in Task, Claim(t) \/ BeginRun(t) \/ GateRefuses(t) \/ SetupFails(t)
  PROVE  IInv'
<1>1. /\ attempts' = attempts /\ sender' = sender /\ codes' = codes /\ seen' = seen /\ typed' = typed
      /\ mode' = mode /\ discarding' = discarding /\ returned' = returned
      /\ worker.step \in {"idle", "gate"}
  BY DEF Claim, BeginRun, GateRefuses, SetupFails, serviceVars, At
<1>2. /\ WorkerOK' /\ worker'.step \in {"idle", "gate", "auth"}
      /\ worker'.step # "idle" => worker'.task = t
      /\ worker'.step = "auth" => open'[t]
  <2>1. CASE Claim(t)
    <3>1. (worker' = worker /\ worker.step = "idle") \/ worker' = [Idle EXCEPT !.step = "gate", !.task = t]
      BY <2>1 DEF Claim, At
    <3>2. CASE worker' = worker /\ worker.step = "idle"
      BY <3>2 DEF IInv, TypeOK, WorkerOK
    <3>3. CASE worker' = [Idle EXCEPT !.step = "gate", !.task = t]
      BY <3>3 DEF WorkerOK, Idle, STEPS, STATUS
    <3> QED
      BY <3>1, <3>2, <3>3
  <2>2. CASE BeginRun(t)
    BY <2>2 DEF IInv, TypeOK, RowsOK, WorkerOK, BeginRun, GoTo, STEPS, At
  <2>3. CASE GateRefuses(t) \/ SetupFails(t)
    <3>1. worker' = Idle
      BY <2>3 DEF GateRefuses, SetupFails
    <3> QED
      BY <3>1 DEF WorkerOK, Idle, STEPS, STATUS
  <2> QED
    BY <2>1, <2>2, <2>3
<1>3. RowsOK'
  BY <1>1 DEF IInv, TypeOK, RowsOK, Claim, BeginRun, GateRefuses, SetupFails, STATUS
<1>4. TypeOK'
  BY <1>1, <1>2, <1>3 DEF IInv, TypeOK, JournalOK, OneCurrent, BrokerOK, SenderOK, ServiceOK
<1>5. WorkerInv'
  BY <1>2 DEF WorkerInv, At, OPEN_STEPS, RUN_STEPS
<1>6. WaitInv'
  <2>1. worker'.step = "gate" => status'[t] # "otp_waiting"
    BY DEF IInv, TypeOK, RowsOK, WorkerOK, WaitInv, Claim, BeginRun, GateRefuses, SetupFails, GoTo, Idle, At
  <2> QED
    BY <1>2, <2>1 DEF WaitInv, At
<1>7. SenderInv' /\ JournalInv' /\ BrokerInv'
  BY <1>1, <1>2, QuietFrame
<1>8. CodeIsNoticed'
  <2> SUFFICES ASSUME NEW u \in Task, (Pending(u) /\ status[u] = "otp_waiting" /\ ~leased[u] /\ ~open[u])'
               PROVE  \E s \in Sender : sender'[s].task = u /\ sender'[s].step \in {"look", "wake"}
    BY DEF CodeIsNoticed
  <2>1. Pending(u)
    BY <1>1 DEF Pending, ValidWait, CurrentIs, PendingOf
  <2>2. status[u] = "otp_waiting" /\ ~leased[u] /\ ~open[u]
    BY DEF IInv, TypeOK, RowsOK, WorkerInv, WaitInv, Claim, BeginRun, GateRefuses, SetupFails, At
  <2> QED
    BY <1>1, <2>1, <2>2 DEF IInv, CodeIsNoticed
<1> QED
  BY <1>4, <1>5, <1>6, <1>7, <1>8 DEF IInv

\* The wait of a run is entered in the middle of the run.
LEMMA WaitStep ==
  ASSUME IInv, NEW t \in Task, WaitForCode(t)
  PROVE  IInv'
<1>1. /\ worker' = [worker EXCEPT !.step = "consume"] /\ worker'.step = "consume" /\ worker'.task = t
      /\ worker'.attempt = worker.attempt /\ worker.step = "page" /\ worker.task = t
      /\ UNCHANGED <<leased, returned, open, attempts, codes, seen, sender, discarding, typed, mode>>
      /\ \A u \in Task \ {t} : status'[u] = status[u]
  BY DEF WaitForCode, GoTo, IInv, TypeOK, WorkerOK, At, serviceVars, RowsOK
<1>2. TypeOK'
  BY <1>1 DEF IInv, TypeOK, RowsOK, JournalOK, OneCurrent, BrokerOK, WorkerOK, SenderOK, ServiceOK, WaitForCode,
              STEPS, STATUS
<1>3. WorkerInv'
  BY <1>1 DEF IInv, WorkerInv, At, CurrentIs, RUN_STEPS, OPEN_STEPS
<1>4. WaitInv'
  BY <1>1 DEF WaitInv, At
<1>5. SenderInv' /\ JournalInv' /\ BrokerInv'
  BY <1>1, QuietFrame
<1>6. CodeIsNoticed'
  BY <1>1, RunFrame DEF IInv, OPEN_STEPS, RUN_STEPS
<1> QED
  BY <1>2, <1>3, <1>4, <1>5, <1>6 DEF IInv

\* A run goes on with a code, or without one, and the journal stays.
LEMMA HoldStep ==
  ASSUME IInv, worker.step \in RUN_STEPS, WorkerOK', worker'.step \in {"enter", "typed"},
         worker'.task = worker.task, worker'.attempt = worker.attempt, At("enter")' => worker'.code \in Code,
         codes' \subseteq codes, seen' = seen, typed' \subseteq Slot, BrokerInv',
         UNCHANGED rowVars, UNCHANGED <<attempts, sender, discarding, mode>>
  PROVE  IInv'
<1>1. TypeOK'
  BY DEF IInv, TypeOK, RowsOK, JournalOK, OneCurrent, BrokerOK, SenderOK, ServiceOK, rowVars
<1>2. WorkerInv'
  BY DEF IInv, WorkerInv, At, CurrentIs, RUN_STEPS, OPEN_STEPS, rowVars
<1>3. SenderInv'
  BY SenderFrame DEF IInv
<1>4. WaitInv'
  BY DEF WaitInv, At
<1>5. JournalInv'
  BY JournalFrame DEF IInv
<1>6. CodeIsNoticed'
  BY RunFrame DEF IInv, rowVars, OPEN_STEPS, RUN_STEPS
<1> QED
  BY <1>1, <1>2, <1>3, <1>4, <1>5, <1>6 DEF IInv

\* The code a run takes was not typed before: the broker held it, so it would
\* be of an attempt that is over, and the wait of the run is valid.
LEMMA ConsumeStep ==
  ASSUME IInv, NEW t \in Task, Consume(t)
  PROVE  IInv'
<1> DEFINE n == worker.attempt
<1>1. At("consume") /\ worker.task = t /\ worker.step \in RUN_STEPS /\ Hand = {}
  BY DEF Consume, At, RUN_STEPS, Hand
<1>2. CASE ValidWait(t, n) /\ CodesFor(t, n) # {}
  <2>1. PICK k \in CodesFor(t, n) :
          /\ codes' = codes \ {k}
          /\ worker' = [worker EXCEPT !.step = "enter", !.code = k.code, !.attempt = k.attempt]
    BY <1>2 DEF Consume
  <2>2. k \in codes /\ k \in Slot /\ k.task = t /\ k.attempt = n /\ k.code \in Code
    BY DEF CodesFor, IInv, TypeOK, BrokerOK, Slot
  <2>3. /\ WorkerOK' /\ worker'.step = "enter" /\ worker'.task = t /\ worker'.attempt = n
        /\ worker'.code = k.code /\ worker'.relayed = worker.relayed
    BY <1>1, <2>1, <2>2 DEF IInv, TypeOK, WorkerOK, STEPS
  <2>4. Hand' \subseteq {k}
    BY <2>2, <2>3 DEF Hand, InHand, Slot
  <2>5. ~Over(k) /\ k.attempt \in DOMAIN attempts[k.task] /\ k \in seen /\ k \notin typed
    <3>1. ~Over(k)
      BY <1>2, <2>2 DEF Over, ValidWait
    <3> QED
      BY <2>2, <3>1 DEF IInv, BrokerInv
  <2>6. /\ attempts' = attempts /\ seen' = seen /\ typed' = typed
        /\ \A j \in Slot : Over(j)' <=> Over(j)
    BY DEF Consume, serviceVars, Over, CurrentIs
  <2>7. BrokerInv'
    <3>1. \A j \in codes' \cup typed' \cup Hand' :
            j.attempt \in DOMAIN attempts'[j.task] /\ (j \in seen' \/ Over(j)')
      BY <2>1, <2>2, <2>4, <2>5, <2>6 DEF IInv, BrokerInv, TypeOK, BrokerOK
    <3>2. \A j \in codes' \cap (typed' \cup Hand') : Over(j)'
      BY <2>1, <2>2, <2>4, <2>6 DEF IInv, BrokerInv, TypeOK, BrokerOK
    <3>3. Hand' \cap typed' = {}
      BY <2>4, <2>5, <2>6
    <3> QED
      BY <3>1, <3>2, <3>3 DEF BrokerInv
  <2> QED
    BY <1>1, <2>1, <2>2, <2>3, <2>7, HoldStep DEF Consume, serviceVars, IInv, TypeOK, BrokerOK
<1>3. CASE ~(ValidWait(t, n) /\ CodesFor(t, n) # {}) /\ ValidWait(t, n) /\ mode = "live"
  <2>1. GoTo("relay") /\ codes' = codes
    BY <1>3 DEF Consume
  <2>2. worker' = [worker EXCEPT !.step = "relay"] /\ worker'.step = "relay" /\ worker'.task = t /\ worker'.attempt = n
    BY <1>1, <2>1 DEF GoTo, IInv, TypeOK, WorkerOK
  <2>3. TypeOK'
    BY <2>1, <2>2 DEF IInv, TypeOK, RowsOK, JournalOK, OneCurrent, BrokerOK, WorkerOK, SenderOK, ServiceOK, Consume,
                STEPS, rowVars, serviceVars
  <2>4. SenderInv' /\ JournalInv' /\ BrokerInv'
    BY <2>1, <2>2, QuietFrame DEF Consume, serviceVars
  <2>5. CodeIsNoticed'
    BY <1>1, <2>1, RunFrame DEF IInv, Consume, rowVars, OPEN_STEPS, RUN_STEPS
  <2>6. WorkerInv' /\ WaitInv'
    BY <1>1, <2>2 DEF IInv, WorkerInv, WaitInv, Consume, At, CurrentIs, RUN_STEPS, OPEN_STEPS, rowVars
  <2> QED
    BY <2>3, <2>4, <2>5, <2>6 DEF IInv
<1>4. CASE ~(ValidWait(t, n) /\ CodesFor(t, n) # {}) /\ ~(ValidWait(t, n) /\ mode = "live")
  <2>1. EndRun(t, {"otp_waiting"})
    BY <1>4 DEF Consume, EndRun, brokerVars
  <2> QED
    BY <1>1, <2>1, EndRunStep DEF STATUS
<1> QED
  BY <1>2, <1>3, <1>4

\* The relay answers for the attempt of the run, past the broker's table.
LEMMA RelayStep ==
  ASSUME IInv, NEW t \in Task, RelayAnswers(t)
  PROVE  IInv'
<1>1. worker.step \in RUN_STEPS /\ UNCHANGED <<attempts, sender, codes, seen, typed, discarding, mode>>
      /\ UNCHANGED rowVars
  BY DEF RelayAnswers, At, RUN_STEPS, brokerVars, serviceVars
<1>2. PICK c \in Code : worker' = [worker EXCEPT !.step = "enter", !.code = c, !.relayed = TRUE]
  BY DEF RelayAnswers
<1>3. /\ WorkerOK' /\ worker'.step = "enter" /\ worker'.task = worker.task /\ worker'.attempt = worker.attempt
      /\ worker'.code = c /\ worker'.relayed
  BY <1>2 DEF IInv, TypeOK, WorkerOK, STEPS
<1>4. Hand' = {}
  BY <1>3 DEF Hand
<1>5. BrokerInv'
  BY <1>1, <1>4, BrokerFrame DEF IInv
<1> QED
  BY <1>1, <1>3, <1>5, HoldStep DEF IInv, TypeOK, BrokerOK

\* A code that is typed leaves the hand for the codes that were typed.
LEMMA EnterStep ==
  ASSUME IInv, NEW t \in Task, EnterCode(t)
  PROVE  IInv'
<1>1. /\ worker.step = "enter" /\ worker.step \in RUN_STEPS /\ worker.task = t
      /\ UNCHANGED <<attempts, sender, codes, seen, discarding, mode>> /\ UNCHANGED rowVars
      /\ typed' = typed \cup Hand
      /\ worker' = [worker EXCEPT !.step = "typed", !.code = NoCode, !.relayed = FALSE]
  BY DEF EnterCode, At, RUN_STEPS, brokerVars, Hand
<1>2. /\ WorkerOK' /\ worker'.step = "typed" /\ worker'.task = worker.task /\ worker'.attempt = worker.attempt
  BY <1>1 DEF IInv, TypeOK, WorkerOK, STEPS
<1>3. Hand \subseteq Slot
  BY <1>1 DEF IInv, TypeOK, WorkerInv, WorkerOK, Hand, InHand, Slot, At
<1>4. Hand' = {}
  BY <1>2, EmptyHand
<1>5. BrokerInv'
  BY <1>1, <1>4 DEF IInv, BrokerInv, Over, CurrentIs
<1>6. typed' \subseteq Slot
  BY <1>1, <1>3 DEF IInv, TypeOK, BrokerOK
<1> QED
  BY <1>1, <1>2, <1>5, <1>6, HoldStep DEF At

-----------------------------------------------------------------------------
(* A new attempt.                                                            *)

\* The journal of t grows by an attempt; the older ones keep their clicks and
\* are no longer current, and the new one has its consent.
LEMMA NewAttempt ==
  ASSUME IInv, NEW t \in Task, NEW len \in Nat, len = Len(attempts[t]),
         NEW q \in Seq(AuthAttempt), Len(q) = len, NEW resend \in BOOLEAN,
         attempts' = [attempts EXCEPT ![t] = Append(q, Prepared(resend))],
         \A m \in DOMAIN attempts[t] :
           /\ ~q[m].current /\ q[m].outcome = attempts[t][m].outcome /\ q[m].clicks = attempts[t][m].clicks
           /\ q[m].resend = attempts[t][m].resend /\ q[m].outcome \in SENT \cup {"AUTHENTICATED"},
         resend \/ (attempts[t] # << >> => attempts[t][len].outcome = "AUTHENTICATED"),
         PurgeAtInsert(t), typed' = Without(typed, t), codes' = codes,
         \/ worker.step \notin {"click", "enter"} /\ worker'.step \notin {"click", "enter"}
         \/ worker' = worker /\ (worker.step \in {"click", "enter"} => worker.task # t)
  PROVE  /\ JournalOK' /\ JournalInv' /\ BrokerInv'
         /\ CurrentIs(t, len + 1)'
         /\ ~Pending(t)'
         /\ \A u \in Task : u # t => attempts'[u] = attempts[u]
         /\ \A u \in Task : DOMAIN attempts[u] \subseteq DOMAIN attempts'[u]
<1>1. PICK r : r = Prepared(resend) /\ attempts' = [attempts EXCEPT ![t] = Append(q, r)]
  OBVIOUS
<1>2. /\ r \in AuthAttempt /\ r.outcome = "PREPARED" /\ r.current /\ r.clicks = 0 /\ r.resend = resend
  BY <1>1 DEF Prepared, AuthAttempt
<1>3. /\ attempts' \in [Task -> Seq(AuthAttempt)]
      /\ \A u \in Task \ {t} : attempts'[u] = attempts[u]
      /\ Len(attempts'[t]) = len + 1 /\ DOMAIN attempts'[t] = 1 .. len + 1
      /\ DOMAIN attempts[t] = 1 .. len /\ len \in Nat
      /\ attempts'[t][len + 1] = r
      /\ \A m \in DOMAIN attempts[t] : attempts'[t][m] = q[m]
  <2>1. attempts[t] \in Seq(AuthAttempt) /\ attempts \in [Task -> Seq(AuthAttempt)]
    BY DEF IInv, TypeOK, JournalOK
  <2>2. PICK s : s = Append(q, r)
    OBVIOUS
  <2>3. /\ s \in Seq(AuthAttempt) /\ Len(s) = len + 1 /\ DOMAIN s = 1 .. len + 1
        /\ DOMAIN attempts[t] = 1 .. len
        /\ s[len + 1] = r /\ \A m \in 1 .. len : s[m] = q[m]
    BY <1>2, <2>1, <2>2
  <2>4. attempts' = [attempts EXCEPT ![t] = s]
    BY <1>1, <2>2
  <2> QED
    BY <2>1, <2>3, <2>4
<1>4. \A m \in 1 .. len + 1 : m = len + 1 \/ m \in 1 .. len
  BY <1>3
<1>5. JournalOK'
  BY <1>3, <1>4 DEF IInv, TypeOK, JournalOK, OneCurrent
<1>6. CurrentIs(t, len + 1)'
  BY <1>2, <1>3 DEF CurrentIs
<1>7. ~Pending(t)'
  BY <1>2, <1>3, <1>4 DEF Pending, ValidWait, CurrentIs, WAITING, SENT
<1>8. JournalInv'
  <2>1. SUFFICES ASSUME NEW u \in Task, NEW m \in DOMAIN attempts'[u]
                 PROVE  /\ attempts'[u][m].current \/ attempts'[u][m].outcome \in SENT \cup {"AUTHENTICATED"}
                        /\ attempts'[u][m].clicks \in 0 .. 1
                        /\ attempts'[u][m].outcome = "PREPARED" => attempts'[u][m].clicks = 0
                        /\ m > 1 => attempts'[u][m].resend \/ attempts'[u][m - 1].outcome = "AUTHENTICATED"
    <3>1. At("click")' => worker' = worker /\ At("click") /\ worker.task \in Task \ {t}
      BY DEF IInv, WorkerInv, At
    <3>2. At("click")' => /\ attempts'[worker'.task][worker'.attempt].clicks = 0
                          /\ attempts'[worker'.task][worker'.attempt].outcome # "PREPARED"
      BY <1>3, <3>1 DEF IInv, JournalInv
    <3> QED
      BY <3>2 DEF JournalInv
  <2>2. CASE u # t
    BY <1>3, <2>2 DEF IInv, JournalInv
  <2>3. CASE u = t /\ m = len + 1
    <3>1. len # 0 => attempts[t] # << >> /\ len \in DOMAIN attempts[t]
      BY <1>3
    <3>2. m > 1 => resend \/ attempts'[t][m - 1].outcome = "AUTHENTICATED"
      BY <1>3, <2>3, <3>1
    <3> QED
      BY <1>2, <1>3, <2>3, <3>2
  <2>4. CASE u = t /\ m \in 1 .. len
    <3>1. /\ attempts[t][m].clicks \in 0 .. 1
          /\ attempts[t][m].outcome = "PREPARED" => attempts[t][m].clicks = 0
          /\ m > 1 => attempts[t][m].resend \/ attempts[t][m - 1].outcome = "AUTHENTICATED"
      BY <1>3, <2>4 DEF IInv, JournalInv
    <3>2. m > 1 => m - 1 \in 1 .. len
      BY <1>3, <2>4
    <3> QED
      BY <1>3, <2>4, <3>1, <3>2
  <2> QED
    BY <1>3, <1>4, <2>2, <2>3, <2>4
<1>9. BrokerInv'
  <2>1. Hand' = Hand /\ \A k \in Hand : k \in Slot /\ k.task # t
    <3>1. CASE worker.step \notin {"click", "enter"} /\ worker'.step \notin {"click", "enter"}
      BY <3>1 DEF Hand, At
    <3>2. CASE worker' = worker /\ (worker.step \in {"click", "enter"} => worker.task # t)
      <4>1. Hand' = Hand
        BY <3>2 DEF Hand, InHand, At
      <4>2. Hand \subseteq {InHand} /\ (Hand # {} => At("enter"))
        BY DEF Hand
      <4>3. At("enter") => InHand \in Slot /\ InHand.task # t
        BY <3>2 DEF IInv, TypeOK, WorkerOK, WorkerInv, InHand, Slot, At
      <4> QED
        BY <4>1, <4>2, <4>3
    <3> QED
      BY <3>1, <3>2
  <2>2. \A k \in Slot : k.attempt \in DOMAIN attempts[k.task] => k.attempt \in DOMAIN attempts'[k.task]
    BY <1>3 DEF Slot
  <2>3. \A k \in Slot : k.task = t /\ k.attempt \in DOMAIN attempts[k.task] => Over(k)'
    BY <1>3 DEF Slot, Over, CurrentIs
  <2>4. \A k \in Slot : k.task # t => (Over(k) <=> Over(k)') /\ (k \in seen <=> k \in seen')
    BY <1>3 DEF Slot, Over, CurrentIs, PurgeAtInsert, Without
  <2>5. \A k \in typed' : k \in typed /\ k.task # t
    BY DEF Without
  <2> QED
    BY <2>1, <2>2, <2>3, <2>4, <2>5 DEF IInv, TypeOK, BrokerOK, BrokerInv
<1> QED
  BY <1>3, <1>5, <1>6, <1>7, <1>8, <1>9

\* An attempt is begun, or the current one taken up again.
LEMMA BeginStep ==
  ASSUME IInv, NEW t \in Task, BeginAttempt(t)
  PROVE  IInv'
<1>1. /\ worker.step = "auth" /\ worker.task = t
      /\ UNCHANGED rowVars /\ UNCHANGED <<codes, sender, discarding, mode>>
  BY DEF BeginAttempt, At
<1>2. CASE \E n \in DOMAIN attempts[t] :
             /\ CurrentIs(t, n)
             /\ worker' = [worker EXCEPT !.step = "prepare", !.attempt = n]
             /\ UNCHANGED <<attempts, seen, typed>>
  <2>1. PICK n \in DOMAIN attempts[t] :
          /\ CurrentIs(t, n)
          /\ worker' = [worker EXCEPT !.step = "prepare", !.attempt = n]
          /\ UNCHANGED <<attempts, seen, typed>>
    BY <1>2
  <2>2. n \in Nat
    BY CurrentTyped DEF IInv, TypeOK
  <2>3. WorkerOK' /\ worker'.step = "prepare" /\ worker'.task = t /\ worker'.attempt = n
    BY <1>1, <2>1, <2>2 DEF IInv, TypeOK, WorkerOK, STEPS
  <2>4. TypeOK'
    BY <1>1, <2>1, <2>3 DEF IInv, TypeOK, RowsOK, JournalOK, OneCurrent, BrokerOK, SenderOK, ServiceOK, rowVars
  <2>5. WorkerInv' /\ WaitInv'
    BY <1>1, <2>1, <2>3 DEF IInv, WorkerInv, WaitInv, At, CurrentIs, RUN_STEPS, OPEN_STEPS, rowVars
  <2>6. SenderInv' /\ JournalInv' /\ BrokerInv'
    BY <1>1, <2>1, <2>3, QuietFrame
  <2>7. CodeIsNoticed'
    BY <1>1, <2>1, RunFrame DEF IInv, rowVars, OPEN_STEPS, RUN_STEPS
  <2> QED
    BY <2>4, <2>5, <2>6, <2>7 DEF IInv
<1>3. CASE /\ ~HasCurrent(t)
           /\ attempts[t] # << >> => attempts[t][Len(attempts[t])].outcome \in {"PREPARED", "AUTHENTICATED"}
           /\ attempts' = [attempts EXCEPT ![t] = Append(@, Prepared(FALSE))]
           /\ worker' = [worker EXCEPT !.step = "prepare", !.attempt = Len(attempts[t]) + 1]
           /\ PurgeAtInsert(t) /\ typed' = Without(typed, t)
  <2>1. PICK q \in Seq(AuthAttempt), len \in Nat : q = attempts[t] /\ len = Len(attempts[t]) /\ DOMAIN q = 1 .. len
    BY DEF IInv, TypeOK, JournalOK
  <2>2. \A m \in DOMAIN attempts[t] : ~q[m].current /\ q[m].outcome \in SENT \cup {"AUTHENTICATED"}
    BY <1>3, <2>1 DEF HasCurrent, IInv, JournalInv
  <2>3. attempts[t] # << >> => attempts[t][len].outcome = "AUTHENTICATED"
    <3>1. attempts[t] # << >> => len \in DOMAIN attempts[t]
      BY <2>1
    <3> QED
      BY <1>3, <2>1, <2>2, <3>1 DEF SENT
  <2>4. attempts' = [attempts EXCEPT ![t] = Append(q, Prepared(FALSE))]
    BY <1>3, <2>1
  <2>5. WorkerOK' /\ worker'.step = "prepare" /\ worker'.task = t /\ worker'.attempt = len + 1
    <3>1. PICK n \in Nat : n = len + 1
      OBVIOUS
    <3>2. worker' = [worker EXCEPT !.step = "prepare", !.attempt = n]
      BY <1>3, <2>1, <3>1
    <3> QED
      BY <1>1, <3>1, <3>2 DEF IInv, TypeOK, WorkerOK, STEPS
  <2>6. /\ JournalOK' /\ JournalInv' /\ BrokerInv' /\ CurrentIs(t, len + 1)'
        /\ \A u \in Task : u # t => attempts'[u] = attempts[u]
        /\ \A u \in Task : DOMAIN attempts[u] \subseteq DOMAIN attempts'[u]
    BY ZenonT(40), <1>1, <1>3, <2>1, <2>2, <2>3, <2>4, <2>5, NewAttempt
  <2>7. BrokerOK'
    BY <1>1, <1>3 DEF IInv, TypeOK, BrokerOK, PurgeAtInsert, Without
  <2>8. TypeOK'
    BY <1>1, <2>5, <2>6, <2>7 DEF IInv, TypeOK, RowsOK, SenderOK, ServiceOK, rowVars
  <2>9. WorkerInv' /\ WaitInv'
    BY <1>1, <2>5, <2>6 DEF IInv, WorkerInv, WaitInv, At, RUN_STEPS, OPEN_STEPS, rowVars
  <2>10. SenderInv'
    BY <1>1, <2>6, SenderFrame DEF IInv
  <2>11. CodeIsNoticed'
    BY <1>1, <2>6, RunFrame DEF IInv, rowVars, OPEN_STEPS, RUN_STEPS
  <2> QED
    BY <2>6, <2>8, <2>9, <2>10, <2>11 DEF IInv
<1> QED
  BY <1>2, <1>3 DEF BeginAttempt

\* The attempt of a run is still current when its login is over.
LEMMA CompleteStep ==
  ASSUME IInv, NEW t \in Task, CompleteAttempt(t)
  PROVE  IInv'
<1> DEFINE n == worker.attempt
<1>1. worker.step \in RUN_STEPS /\ worker.task = t
  BY DEF CompleteAttempt, LoginOver, RUN_STEPS
<1>2. /\ n \in DOMAIN attempts[t] /\ attempts[t][n].current /\ attempts[t][n] \in AuthAttempt
      /\ attempts[t][n].clicks \in 0 .. 1 /\ CurrentIs(t, n)
  BY <1>1, InRun DEF IInv, JournalInv, CurrentIs
<1>3. PICK r : r = [attempts[t][n] EXCEPT !.current = FALSE, !.outcome = "AUTHENTICATED"]
  OBVIOUS
<1>4. Amends(r)
  <2>1. attempts' = [attempts EXCEPT ![t] = [attempts[t] EXCEPT ![n] = r]]
    BY <1>2, <1>3 DEF CompleteAttempt, IInv, TypeOK, JournalOK
  <2>2. /\ r \in AuthAttempt /\ ~r.current /\ r.outcome = "AUTHENTICATED" /\ r.resend = attempts[t][n].resend
        /\ r.clicks = attempts[t][n].clicks
    BY <1>2, <1>3 DEF AuthAttempt
  <2> QED
    BY <1>1, <1>2, <2>1, <2>2 DEF Amends
<1>5. PICK result \in {"ready", "action", "unverified"} :
        worker' = [Idle EXCEPT !.step = "release", !.result = result, !.task = worker.task]
  BY DEF CompleteAttempt, Stop
<1>6. WorkerOK' /\ worker'.step = "release" /\ worker'.task = t
  BY <1>1, <1>5 DEF WorkerOK, Idle, STEPS, STATUS, STOPPED
<1>7. codes' \subseteq codes /\ UNCHANGED <<seen, typed, sender, discarding, mode>> /\ UNCHANGED rowVars
  BY DEF CompleteAttempt, Without, serviceVars
<1>8. /\ JournalOK' /\ JournalInv' /\ BrokerInv'
      /\ \A u \in Task \ {worker.task} : attempts'[u] = attempts[u]
      /\ \A u \in Task : DOMAIN attempts[u] \subseteq DOMAIN attempts'[u]
  BY <1>1, <1>4, <1>6, <1>7, AmendFrame
<1>9. TypeOK'
  BY <1>6, <1>7, <1>8 DEF IInv, TypeOK, RowsOK, BrokerOK, SenderOK, ServiceOK, rowVars
<1>10. WorkerInv' /\ WaitInv'
  BY <1>1, <1>6, <1>7 DEF IInv, WorkerInv, WaitInv, At, RUN_STEPS, OPEN_STEPS, rowVars
<1>11. SenderInv'
  BY <1>7, <1>8, SenderFrame DEF IInv
<1>12. CodeIsNoticed'
  BY <1>1, <1>7, <1>8, RunFrame DEF IInv, rowVars, OPEN_STEPS, RUN_STEPS
<1> QED
  BY <1>8, <1>9, <1>10, <1>11, <1>12 DEF IInv

\* A run that fails leaves its task open; a click that raises was the first.
LEMMA FailStep ==
  ASSUME IInv, NEW t \in Task, RunFails(t)
  PROVE  IInv'
<1> DEFINE n == worker.attempt
<1>1. /\ worker.step \in OPEN_STEPS \ {"finish"} /\ worker.task = t
      /\ UNCHANGED <<returned, open, codes, seen, sender, typed, discarding, mode>>
      /\ worker' = Idle
  BY DEF RunFails, STEPS, OPEN_STEPS, RUN_STEPS, serviceVars
<1>2. WorkerOK' /\ worker'.step = "idle"
  BY <1>1 DEF WorkerOK, Idle, STEPS, STATUS
<1>3. /\ JournalOK' /\ JournalInv' /\ BrokerInv'
      /\ \A u \in Task \ {worker.task} : attempts'[u] = attempts[u]
      /\ \A u \in Task : DOMAIN attempts[u] \subseteq DOMAIN attempts'[u]
  <2>1. CASE attempts' = attempts
    BY <1>1, <1>2, <2>1, QuietFrame DEF IInv, TypeOK, JournalOK, OneCurrent
  <2>2. CASE attempts' # attempts
    <3>1. /\ worker.step = "click" /\ worker.step \in RUN_STEPS
          /\ attempts' = [attempts EXCEPT ![t][n].clicks = @ + 1]
      BY <2>2 DEF RunFails, ClickFails, At, RUN_STEPS
    <3>2. /\ attempts[t][n] \in AuthAttempt /\ attempts[t][n].current
          /\ attempts[t][n].clicks = 0 /\ attempts[t][n].outcome # "PREPARED"
      BY <1>1, <3>1, InRun DEF IInv, JournalInv, At
    <3>3. PICK r : r = [attempts[t][n] EXCEPT !.clicks = @ + 1]
      OBVIOUS
    <3>4. /\ r \in AuthAttempt /\ r.current /\ r.outcome # "PREPARED" /\ r.resend = attempts[t][n].resend
          /\ r.expired = attempts[t][n].expired /\ r.clicks = 1
      BY <3>2, <3>3 DEF AuthAttempt
    <3>5. Amends(r)
      BY <1>1, <3>1, <3>3, <3>4 DEF Amends
    <3> QED
      BY <1>1, <1>2, <3>1, <3>5, AmendFrame
  <2> QED
    BY <2>1, <2>2
<1>4. RowsOK' /\ \A u \in Task \ {worker.task} : status'[u] = status[u] /\ leased'[u] = leased[u]
  BY <1>1 DEF RunFails, IInv, TypeOK, RowsOK, STATUS
<1>5. TypeOK'
  BY <1>1, <1>2, <1>3, <1>4 DEF IInv, TypeOK, BrokerOK, SenderOK, ServiceOK
<1>6. WorkerInv' /\ WaitInv'
  BY <1>2 DEF WorkerInv, WaitInv, At, RUN_STEPS, OPEN_STEPS
<1>7. SenderInv'
  BY <1>1, <1>3, SenderFrame DEF IInv
<1>8. CodeIsNoticed'
  BY <1>1, <1>3, <1>4, RunFrame DEF IInv
<1> QED
  BY <1>3, <1>5, <1>6, <1>7, <1>8 DEF IInv

-----------------------------------------------------------------------------
(* After the run: the lease is released, the run recorded, a code looked for. *)

\* The result of a run stays with the worker until it has looked for a code.
LEMMA ReleaseStep ==
  ASSUME IInv, NEW t \in Task, Release(t)
  PROVE  IInv'
<1>1. /\ worker' = [worker EXCEPT !.step = "finish"] /\ worker.step = "release" /\ worker.task = t
      /\ worker'.step = "finish" /\ worker'.task = t /\ worker'.result = worker.result /\ worker.result \in STATUS
      /\ status' = [status EXCEPT ![t] = worker.result] /\ leased' = [leased EXCEPT ![t] = FALSE]
      /\ UNCHANGED <<returned, open, attempts, codes, seen, sender, typed, discarding, mode>>
  BY DEF Release, At, GoTo, IInv, TypeOK, WorkerOK, serviceVars
<1>2. RowsOK' /\ status'[t] = worker.result
      /\ \A u \in Task \ {t} : status'[u] = status[u] /\ leased'[u] = leased[u]
  BY <1>1 DEF IInv, TypeOK, RowsOK
<1>3. TypeOK'
  BY <1>1, <1>2 DEF IInv, TypeOK, JournalOK, OneCurrent, BrokerOK, WorkerOK, SenderOK, ServiceOK, STEPS
<1>4. WorkerInv' /\ WaitInv'
  BY <1>1, <1>2 DEF IInv, WorkerInv, WaitInv, At, RUN_STEPS, OPEN_STEPS
<1>5. SenderInv' /\ JournalInv' /\ BrokerInv'
  BY <1>1, QuietFrame
<1>6. CodeIsNoticed'
  BY <1>1, <1>2, RunFrame DEF IInv, OPEN_STEPS
<1> QED
  BY <1>3, <1>4, <1>5, <1>6 DEF IInv

\* The run is closed by a worker that then looks for a code of its task.
LEMMA FinishStep ==
  ASSUME IInv, NEW t \in Task, FinishRun(t)
  PROVE  IInv'
<1>1. /\ worker' = [worker EXCEPT !.step = "after"] /\ worker.step = "finish" /\ worker.task = t
      /\ worker'.step = "after" /\ worker'.task = t /\ worker'.result = worker.result
      /\ open' = [open EXCEPT ![t] = FALSE]
      /\ UNCHANGED <<status, leased, attempts, codes, seen, sender, typed, discarding, mode>>
  BY DEF FinishRun, At, GoTo, IInv, TypeOK, WorkerOK, serviceVars
<1>2. RowsOK' /\ \A u \in Task \ {t} : open'[u] = open[u]
  BY <1>1 DEF FinishRun, IInv, TypeOK, RowsOK
<1>3. TypeOK'
  BY <1>1, <1>2 DEF IInv, TypeOK, JournalOK, OneCurrent, BrokerOK, WorkerOK, SenderOK, ServiceOK, STEPS
<1>4. WorkerInv' /\ WaitInv'
  BY <1>1, <1>2 DEF IInv, WorkerInv, WaitInv, At, RUN_STEPS, OPEN_STEPS
<1>5. SenderInv' /\ JournalInv' /\ BrokerInv'
  BY <1>1, QuietFrame
<1>6. CodeIsNoticed'
  <2> SUFFICES ASSUME NEW u \in Task, (Pending(u) /\ status[u] = "otp_waiting" /\ ~leased[u] /\ ~open[u])', u # t
               PROVE  \E s \in Sender : sender'[s].task = u /\ sender'[s].step \in {"look", "wake"}
    BY <1>1 DEF CodeIsNoticed
  <2>1. Pending(u)
    BY <1>1, PendingShrinks
  <2> QED
    BY <1>1, <1>2, <2>1 DEF IInv, CodeIsNoticed
<1> QED
  BY <1>3, <1>4, <1>5, <1>6 DEF IInv

\* The worker that finds a code goes on to wake its task.
LEMMA AfterStep ==
  ASSUME IInv, NEW t \in Task, AfterRun(t)
  PROVE  IInv'
<1>1. /\ worker.step = "after" /\ worker.task = t /\ codes' \subseteq codes
      /\ UNCHANGED <<attempts, seen, sender, typed, discarding, mode>> /\ UNCHANGED rowVars
  BY DEF AfterRun, At, serviceVars, Without
<1>2. CASE CodeArrived(t)
  <2>1. worker' = [worker EXCEPT !.step = "wake"] /\ worker'.step = "wake" /\ worker'.task = t
        /\ worker'.result = worker.result
    BY <1>1, <1>2 DEF AfterRun, GoTo, IInv, TypeOK, WorkerOK
  <2>2. TypeOK'
    BY <1>1, <2>1 DEF IInv, TypeOK, RowsOK, JournalOK, OneCurrent, BrokerOK, WorkerOK, SenderOK, ServiceOK, STEPS, rowVars
  <2>3. WorkerInv' /\ WaitInv'
    BY <1>1, <2>1 DEF IInv, WorkerInv, WaitInv, At, RUN_STEPS, OPEN_STEPS, rowVars
  <2>4. SenderInv' /\ JournalInv' /\ BrokerInv'
    BY <1>1, <2>1, QuietFrame
  <2>5. CodeIsNoticed'
    BY <1>1, <2>1, PendingShrinks DEF IInv, CodeIsNoticed, rowVars
  <2> QED
    BY <2>2, <2>3, <2>4, <2>5 DEF IInv
<1>3. CASE ~CodeArrived(t)
  <2>1. worker' = Idle
    BY <1>3 DEF AfterRun
  <2>2. WorkerOK' /\ worker'.step = "idle"
    BY <2>1 DEF WorkerOK, Idle, STEPS, STATUS
  <2>3. TypeOK'
    BY <1>1, <2>2 DEF IInv, TypeOK, RowsOK, JournalOK, OneCurrent, BrokerOK, SenderOK, ServiceOK, rowVars
  <2>4. WorkerInv' /\ WaitInv'
    BY <2>2 DEF WorkerInv, WaitInv, At, RUN_STEPS, OPEN_STEPS
  <2>5. SenderInv' /\ JournalInv' /\ BrokerInv'
    BY <1>1, <2>2, QuietFrame
  <2>6. CodeIsNoticed'
    <3> SUFFICES ASSUME NEW u \in Task, (Pending(u) /\ status[u] = "otp_waiting" /\ ~leased[u] /\ ~open[u])'
                 PROVE  \E s \in Sender : sender'[s].task = u /\ sender'[s].step \in {"look", "wake"}
      BY DEF CodeIsNoticed
    <3>1. Pending(u) /\ status[u] = "otp_waiting" /\ ~leased[u] /\ ~open[u]
      BY <1>1, PendingShrinks DEF rowVars
    <3>2. u # t
      BY <1>1, <1>3, <3>1 DEF IInv, WaitInv, CodeArrived
    <3> QED
      BY <1>1, <3>1, <3>2 DEF IInv, CodeIsNoticed
  <2> QED
    BY <2>3, <2>4, <2>5, <2>6 DEF IInv
<1> QED
  BY <1>2, <1>3

\* What a resume does to the rows, be it allowed or refused.
LEMMA ResumeFrame ==
  ASSUME RowsOK, NEW t \in Task, ResumeOrRaise(t) \/ ResumeInTx(t)
  PROVE  /\ status' \in [Task -> STATUS]
         /\ \A u \in Task : status'[u] # status[u] => u = t /\ ~leased[t] /\ ~open[t] /\ status'[t] = "runnable"
         /\ status'[t] = "otp_waiting" => leased[t] \/ open[t]
BY DEF RowsOK, ResumeOrRaise, ResumeInTx, Resumable, STATUS, STOPPED

\* The worker wakes its task, unless it was overtaken.
LEMMA WakeStep ==
  ASSUME IInv, NEW t \in Task, Wake(t)
  PROVE  IInv'
<1>1. /\ worker.step = "wake" /\ worker.task = t /\ worker' = Idle
      /\ UNCHANGED <<leased, returned, open, attempts, codes, seen, sender, typed, discarding, mode>>
  BY DEF Wake, At, serviceVars
<1>2. WorkerOK' /\ worker'.step = "idle"
  BY <1>1 DEF WorkerOK, Idle, STEPS, STATUS
<1>3. /\ status' \in [Task -> STATUS]
      /\ \A u \in Task : status'[u] # status[u] => u = t
      /\ status'[t] = "otp_waiting" => leased[t] \/ open[t]
  BY ResumeFrame DEF Wake, IInv, TypeOK
<1>4. TypeOK'
  BY <1>1, <1>2, <1>3 DEF IInv, TypeOK, RowsOK, JournalOK, OneCurrent, BrokerOK, SenderOK, ServiceOK
<1>5. WorkerInv' /\ WaitInv'
  BY <1>2 DEF WorkerInv, WaitInv, At, RUN_STEPS, OPEN_STEPS
<1>6. SenderInv' /\ JournalInv' /\ BrokerInv'
  BY <1>1, <1>2, QuietFrame
<1>7. CodeIsNoticed'
  <2> SUFFICES ASSUME NEW u \in Task, (Pending(u) /\ status[u] = "otp_waiting" /\ ~leased[u] /\ ~open[u])', u # t
               PROVE  \E s \in Sender : sender'[s].task = u /\ sender'[s].step \in {"look", "wake"}
    BY <1>1, <1>3 DEF CodeIsNoticed
  <2>1. Pending(u)
    BY <1>1, PendingShrinks
  <2> QED
    BY <1>1, <1>3, <2>1 DEF IInv, CodeIsNoticed
<1> QED
  BY <1>4, <1>5, <1>6, <1>7 DEF IInv

-----------------------------------------------------------------------------
(* The threads that bring codes.                                             *)

\* The worker stands where it stood, and the rows it relies on too.
LEMMA StandFrame ==
  ASSUME IInv, worker' = worker, open' = open,
         \A u \in Task : status'[u] = "otp_waiting" => status[u] = "otp_waiting"
  PROVE  /\ attempts' = attempts => WorkerInv' /\ JournalInv'
         /\ WaitInv' /\ Hand' = Hand
<1>1. attempts' = attempts => WorkerInv' /\ JournalInv'
  BY DEF IInv, WorkerInv, JournalInv, CurrentIs, At
<1>2. WaitInv'
  BY DEF IInv, WorkerInv, WaitInv, At
<1>3. Hand' = Hand
  BY DEF Hand, InHand, At
<1> QED
  BY <1>1, <1>2, <1>3

\* A message is accepted for an attempt the journal knows.
LEMMA PushStep ==
  ASSUME IInv, NEW s \in Sender, NEW t \in Task, NEW c \in Code,
         NEW n \in DOMAIN attempts[t], Push(s, t, n, c)
  PROVE  IInv'
<1>1. /\ sender[s].step = "idle"
      /\ sender' = [sender EXCEPT ![s] = [step |-> "store", task |-> t, attempt |-> n, code |-> c]]
      /\ UNCHANGED <<status, leased, returned, open, codes, seen, attempts, worker, discarding, typed, mode>>
  BY DEF Push, rowVars, brokerVars, serviceVars
<1>2. n \in Nat
  BY CurrentTyped DEF IInv, TypeOK
<1>3. SenderOK' /\ SenderInv' /\ \A x \in Sender \ {s} : sender'[x] = sender[x]
  BY <1>1, <1>2 DEF IInv, TypeOK, SenderOK, SenderInv
<1>4. TypeOK'
  BY <1>1, <1>3 DEF IInv, TypeOK, RowsOK, JournalOK, OneCurrent, BrokerOK, WorkerOK, ServiceOK
<1>5. WorkerInv' /\ WaitInv' /\ JournalInv' /\ Hand' = Hand
  BY <1>1, StandFrame
<1>6. BrokerInv'
  BY <1>1, <1>5, BrokerFrame DEF IInv
<1>7. CodeIsNoticed'
  <2>1. \A u \in Task : Pending(u)' => Pending(u)
    BY <1>1, PendingShrinks
  <2>2. \A x \in Sender : sender[x].step \in {"look", "wake"} => sender'[x] = sender[x]
    BY <1>1, <1>3
  <2> QED
    BY <1>1, <2>1, <2>2 DEF IInv, CodeIsNoticed
<1> QED
  BY <1>3, <1>4, <1>5, <1>6, <1>7 DEF IInv

\* A code enters the broker only if it was not seen before, so one that was
\* typed is over; whoever stored it has yet to look for the task.
LEMMA StoreStep ==
  ASSUME IInv, NEW s \in Sender, Store(s)
  PROVE  IInv'
<1> DEFINE k == Carried(s)
<1>1. /\ sender[s].step = "store"
      /\ UNCHANGED <<status, leased, returned, open, attempts, worker, discarding, typed, mode>>
  BY DEF Store, rowVars, serviceVars
<1>2. /\ k \in Slot /\ k.task = sender[s].task /\ k.attempt \in DOMAIN attempts[k.task]
      /\ sender[s].task \in Task
  BY <1>1 DEF IInv, TypeOK, SenderOK, SenderInv, Carried, Slot
<1>3. WorkerInv' /\ WaitInv' /\ JournalInv' /\ Hand' = Hand
  BY <1>1, StandFrame
<1>4. CASE codes' \subseteq codes /\ seen' \in {seen, seen \cup {k}} /\ sender' = [sender EXCEPT ![s] = NoMessage]
  <2>1. SenderOK' /\ SenderInv' /\ \A x \in Sender \ {s} : sender'[x] = sender[x]
    BY <1>1, <1>4 DEF IInv, TypeOK, SenderOK, SenderInv, NoMessage
  <2>2. TypeOK'
    BY <1>1, <1>2, <1>4, <2>1 DEF IInv, TypeOK, RowsOK, JournalOK, OneCurrent, BrokerOK, WorkerOK, ServiceOK
  <2>3. BrokerInv'
    BY <1>1, <1>3, <1>4 DEF IInv, BrokerInv, Over, CurrentIs
  <2>4. CodeIsNoticed'
    <3>1. \A u \in Task : Pending(u)' => Pending(u)
      BY <1>1, <1>4, PendingShrinks
    <3>2. \A x \in Sender : sender[x].step \in {"look", "wake"} => sender'[x] = sender[x]
      BY <1>1, <2>1
    <3> QED
      BY <1>1, <3>1, <3>2 DEF IInv, CodeIsNoticed
  <2> QED
    BY <1>3, <2>1, <2>2, <2>3, <2>4 DEF IInv
<1>5. CASE /\ ~Duplicate(k) /\ seen' = seen \cup {k} /\ codes' = codes \cup {k}
           /\ sender' = [sender EXCEPT ![s] = [NoMessage EXCEPT !.step = "look", !.task = k.task]]
  <2>1. /\ SenderOK' /\ SenderInv' /\ \A x \in Sender \ {s} : sender'[x] = sender[x]
        /\ sender'[s].step = "look" /\ sender'[s].task = k.task
    BY <1>1, <1>2, <1>5 DEF IInv, TypeOK, SenderOK, SenderInv, NoMessage
  <2>2. TypeOK'
    BY <1>1, <1>2, <1>5, <2>1 DEF IInv, TypeOK, RowsOK, JournalOK, OneCurrent, BrokerOK, WorkerOK, ServiceOK
  <2>3. BrokerInv'
    <3>1. k \notin seen
      BY <1>5 DEF Duplicate
    <3>2. k \in typed \cup Hand => Over(k)
      BY <3>1 DEF IInv, BrokerInv
    <3>3. \A j : Over(j)' <=> Over(j)
      BY <1>1 DEF Over, CurrentIs
    <3> QED
      BY <1>1, <1>2, <1>3, <1>5, <3>2, <3>3 DEF IInv, BrokerInv
  <2>4. CodeIsNoticed'
    <3> SUFFICES ASSUME NEW u \in Task, (Pending(u) /\ status[u] = "otp_waiting" /\ ~leased[u] /\ ~open[u])',
                        u # k.task
                 PROVE  \/ worker'.task = u /\ worker'.step \in {"after", "wake"}
                        \/ \E x \in Sender : sender'[x].task = u /\ sender'[x].step \in {"look", "wake"}
      BY <2>1 DEF CodeIsNoticed
    <3>1. Pending(u)
      BY <1>1, <1>5, PendingShrinks
    <3>2. \A x \in Sender : sender[x].step \in {"look", "wake"} => sender'[x] = sender[x]
      BY <1>1, <2>1
    <3> QED
      BY <1>1, <3>1, <3>2 DEF IInv, CodeIsNoticed
  <2> QED
    BY <1>3, <2>1, <2>2, <2>3, <2>4 DEF IInv
<1> QED
  BY <1>4, <1>5 DEF Store, brokerVars

\* A thread forgets its message only if somebody else has the task, or if the
\* task does not wait.
LEMMA LookStep ==
  ASSUME IInv, NEW s \in Sender, NEW late \in BOOLEAN, Look(s, late)
  PROVE  IInv'
<1>1. /\ sender[s].step = "look" /\ sender[s].task \in Task
      /\ UNCHANGED <<status, leased, returned, open, codes, seen, attempts, worker, discarding, typed, mode>>
  BY DEF Look, rowVars, brokerVars, serviceVars, IInv, SenderInv
<1>2. /\ SenderOK' /\ SenderInv' /\ \A x \in Sender \ {s} : sender'[x] = sender[x]
      /\ \/ sender'[s].task = sender[s].task /\ sender'[s].step = "wake"
         \/ leased[sender[s].task] \/ status[sender[s].task] # "otp_waiting"
  <2>1. CASE sender' = [sender EXCEPT ![s].step = "wake"]
    BY <1>1, <2>1 DEF IInv, TypeOK, SenderOK, SenderInv
  <2>2. CASE /\ sender' = [sender EXCEPT ![s] = NoMessage]
             /\ leased[sender[s].task] \/ status[sender[s].task] # "otp_waiting"
    BY <1>1, <2>2 DEF IInv, TypeOK, SenderOK, SenderInv, NoMessage
  <2> QED
    BY <2>1, <2>2 DEF Look
<1>3. TypeOK'
  BY <1>1, <1>2 DEF IInv, TypeOK, RowsOK, JournalOK, OneCurrent, BrokerOK, WorkerOK, ServiceOK
<1>4. WorkerInv' /\ WaitInv' /\ JournalInv' /\ Hand' = Hand
  BY <1>1, StandFrame
<1>5. BrokerInv'
  BY <1>1, <1>4, BrokerFrame DEF IInv
<1>6. CodeIsNoticed'
  <2> SUFFICES ASSUME NEW u \in Task, (Pending(u) /\ status[u] = "otp_waiting" /\ ~leased[u] /\ ~open[u])'
               PROVE  \/ worker'.task = u /\ worker'.step \in {"after", "wake"}
                      \/ \E x \in Sender : sender'[x].task = u /\ sender'[x].step \in {"look", "wake"}
    BY DEF CodeIsNoticed
  <2>1. Pending(u)
    BY <1>1, PendingShrinks
  <2>2. CASE u = sender[s].task
    BY <1>1, <1>2, <2>2
  <2>3. CASE u # sender[s].task
    BY <1>1, <1>2, <2>1, <2>3 DEF IInv, CodeIsNoticed
  <2> QED
    BY <2>2, <2>3
<1> QED
  BY <1>2, <1>3, <1>4, <1>5, <1>6 DEF IInv

\* A refused resume leaves a task that somebody else has.
LEMMA WakeTaskStep ==
  ASSUME IInv, NEW s \in Sender, WakeTask(s)
  PROVE  IInv'
<1> DEFINE t == sender[s].task
<1>1. /\ sender[s].step = "wake" /\ t \in Task /\ sender' = [sender EXCEPT ![s] = NoMessage]
      /\ UNCHANGED <<leased, returned, open, codes, seen, attempts, worker, discarding, typed, mode>>
  BY DEF WakeTask, serviceVars, IInv, SenderInv
<1>2. /\ status' \in [Task -> STATUS]
      /\ \A u \in Task : status'[u] # status[u] => u = t /\ status'[u] = "runnable"
      /\ status'[t] = "otp_waiting" => leased[t] \/ open[t]
  BY <1>1, ResumeFrame DEF WakeTask, IInv, TypeOK
<1>3. SenderOK' /\ SenderInv' /\ \A x \in Sender \ {s} : sender'[x] = sender[x]
  BY <1>1 DEF IInv, TypeOK, SenderOK, SenderInv, NoMessage
<1>4. TypeOK'
  BY <1>1, <1>2, <1>3 DEF IInv, TypeOK, RowsOK, JournalOK, OneCurrent, BrokerOK, WorkerOK, ServiceOK
<1>5. WorkerInv' /\ WaitInv' /\ JournalInv' /\ Hand' = Hand
  BY <1>1, <1>2, StandFrame
<1>6. BrokerInv'
  BY <1>1, <1>5, BrokerFrame DEF IInv
<1>7. CodeIsNoticed'
  <2> SUFFICES ASSUME NEW u \in Task, (Pending(u) /\ status[u] = "otp_waiting" /\ ~leased[u] /\ ~open[u])', u # t
               PROVE  \/ worker'.task = u /\ worker'.step \in {"after", "wake"}
                      \/ \E x \in Sender : sender'[x].task = u /\ sender'[x].step \in {"look", "wake"}
    BY <1>1, <1>2 DEF CodeIsNoticed
  <2>1. Pending(u)
    BY <1>1, PendingShrinks
  <2> QED
    BY <1>1, <1>2, <1>3, <2>1 DEF IInv, CodeIsNoticed
<1> QED
  BY <1>3, <1>4, <1>5, <1>6, <1>7 DEF IInv

-----------------------------------------------------------------------------
(* The user, the clock and the service.                                      *)

\* The user's handlers on the rows: none of them puts a task to its wait.
LEMMA RowStep ==
  ASSUME IInv, NEW t \in Task, DiscardOldCodes(t) \/ Resume(t) \/ Pause(t) \/ Cancel(t)
  PROVE  IInv'
<1>1. /\ codes' \subseteq codes /\ discarding' \subseteq discarding
      /\ UNCHANGED <<returned, open, seen, attempts, sender, worker, typed, mode>>
  BY DEF DiscardOldCodes, Resume, Pause, Cancel, Without, rowVars, serviceVars
<1>2. /\ RowsOK'
      /\ \A u \in Task : status'[u] = "otp_waiting" => status[u] = "otp_waiting" /\ leased'[u] = leased[u]
  <2>1. CASE DiscardOldCodes(t)
    BY <2>1 DEF DiscardOldCodes, rowVars, IInv, TypeOK, RowsOK
  <2>2. CASE Resume(t)
    BY <2>2 DEF Resume, ResumeInTx, IInv, TypeOK, RowsOK, STATUS
  <2>3. CASE Pause(t)
    BY <2>3 DEF Pause, IInv, TypeOK, RowsOK, STATUS, STOPPED
  <2>4. CASE Cancel(t)
    BY <2>4 DEF Cancel, IInv, TypeOK, RowsOK, STATUS, STOPPED
  <2> QED
    BY <2>1, <2>2, <2>3, <2>4
<1>3. TypeOK'
  BY <1>1, <1>2 DEF IInv, TypeOK, JournalOK, OneCurrent, BrokerOK, WorkerOK, SenderOK, ServiceOK
<1>4. WorkerInv' /\ WaitInv' /\ JournalInv' /\ Hand' = Hand
  BY <1>1, <1>2, StandFrame
<1>5. SenderInv' /\ BrokerInv'
  BY <1>1, <1>4, BrokerFrame, SenderFrame DEF IInv
<1>6. CodeIsNoticed'
  BY <1>1, <1>2, PendingShrinks DEF IInv, CodeIsNoticed
<1> QED
  BY <1>3, <1>4, <1>5, <1>6 DEF IInv

\* A resend supersedes an attempt whose send was marked, of a task that no run
\* has open: never the attempt the worker is at.
LEMMA ResendStep ==
  ASSUME IInv, NEW t \in Task, AuthorizeResend(t)
  PROVE  IInv'
<1>1. PICK n \in DOMAIN attempts[t] :
        /\ CurrentIs(t, n) /\ attempts[t][n].outcome \in SENT
        /\ attempts' = [attempts EXCEPT ![t] = Append([@ EXCEPT ![n].current = FALSE], Prepared(TRUE))]
  BY DEF AuthorizeResend
<1>2. /\ ~open[t] /\ status' = [status EXCEPT ![t] = "runnable"] /\ PurgeAtInsert(t) /\ typed' = Without(typed, t)
      /\ discarding' \subseteq Task
      /\ UNCHANGED <<leased, returned, open, codes, worker, sender, mode>>
  BY DEF AuthorizeResend, ResumeInTx, Resumable, IInv, TypeOK, ServiceOK
<1>3. RowsOK' /\ \A u \in Task : status'[u] = "otp_waiting" => u # t /\ status[u] = "otp_waiting"
  BY <1>2 DEF IInv, TypeOK, RowsOK, STATUS
<1>4. worker.step \in OPEN_STEPS => worker.task # t
  BY <1>2 DEF IInv, WorkerInv
<1>5. PICK r : r = [attempts[t][n] EXCEPT !.current = FALSE]
  OBVIOUS
<1>6. /\ r \in AuthAttempt /\ ~r.current /\ r.outcome = attempts[t][n].outcome
      /\ r.clicks = attempts[t][n].clicks /\ r.resend = attempts[t][n].resend
  BY ZenonT(40), <1>5, CurrentTyped DEF IInv, TypeOK, AuthAttempt
<1>7. PICK q : q = [attempts[t] EXCEPT ![n] = r]
  OBVIOUS
<1>8. PICK len \in Nat : len = Len(attempts[t])
  BY DEF IInv, TypeOK, JournalOK
<1>9. /\ q \in Seq(AuthAttempt) /\ Len(q) = len
      /\ \A m \in DOMAIN attempts[t] : q[m] = IF m = n THEN r ELSE attempts[t][m]
  BY <1>6, <1>7, <1>8 DEF IInv, TypeOK, JournalOK
<1>10. \A m \in DOMAIN attempts[t] : m # n => ~attempts[t][m].current
  BY <1>1 DEF CurrentIs, IInv, TypeOK, JournalOK, OneCurrent
<1>11. \A m \in DOMAIN attempts[t] :
         /\ ~q[m].current /\ q[m].outcome = attempts[t][m].outcome /\ q[m].clicks = attempts[t][m].clicks
         /\ q[m].resend = attempts[t][m].resend /\ q[m].outcome \in SENT \cup {"AUTHENTICATED"}
  BY <1>1, <1>6, <1>9, <1>10 DEF IInv, JournalInv
<1>12. attempts' = [attempts EXCEPT ![t] = Append(q, Prepared(TRUE))]
  BY <1>1, <1>5, <1>7
<1>13. /\ JournalOK' /\ JournalInv' /\ BrokerInv'
       /\ \A u \in Task : u # t => attempts'[u] = attempts[u]
       /\ \A u \in Task : DOMAIN attempts[u] \subseteq DOMAIN attempts'[u]
  <2>1. worker' = worker /\ (worker.step \in {"click", "enter"} => worker.task # t)
    BY <1>2, <1>4 DEF OPEN_STEPS, RUN_STEPS
  <2>2. PICK resend \in BOOLEAN : resend /\ attempts' = [attempts EXCEPT ![t] = Append(q, Prepared(resend))]
    BY <1>12
  <2> QED
    BY <1>2, <1>8, <1>9, <1>11, <2>1, <2>2, NewAttempt, ZenonT(90)
<1>14. BrokerOK'
  BY <1>2 DEF IInv, TypeOK, BrokerOK, PurgeAtInsert, Without
<1>15. TypeOK'
  BY <1>2, <1>3, <1>13, <1>14 DEF IInv, TypeOK, WorkerOK, SenderOK, ServiceOK
<1>16. WorkerInv'
  BY <1>2, <1>4, <1>13 DEF IInv, WorkerInv, At, CurrentIs, OPEN_STEPS, RUN_STEPS
<1>17. WaitInv'
  BY <1>2, <1>3, StandFrame
<1>18. SenderInv'
  BY <1>2, <1>13, SenderFrame DEF IInv
<1>19. CodeIsNoticed'
  BY <1>2, <1>3, <1>13, PendingShrinks DEF IInv, CodeIsNoticed
<1> QED
  BY <1>13, <1>15, <1>16, <1>17, <1>18, <1>19 DEF IInv

\* Time only ends cooldowns and waits.
LEMMA ClockSteps ==
  ASSUME IInv, NEW t \in Task, NEW n \in DOMAIN attempts[t], CooldownEnds(t, n) \/ DeadlinePasses(t, n)
  PROVE  IInv'
<1> DEFINE a == attempts[t][n]
<1>1. a \in AuthAttempt /\ n \in Nat
  BY CurrentTyped DEF IInv, TypeOK
<1>2. PICK r \in AuthAttempt :
        /\ attempts' = [attempts EXCEPT ![t] = [attempts[t] EXCEPT ![n] = r]]
        /\ r.current = a.current /\ r.outcome = a.outcome /\ r.resend = a.resend /\ r.clicks = a.clicks
        /\ a.expired => r.expired
        /\ codes' \subseteq codes /\ seen' \subseteq seen
        /\ \A k \in seen \ seen' : k.task = t /\ k.attempt = n /\ r.expired
  <2>1. CASE CooldownEnds(t, n)
    <3>1. PICK r : r = [a EXCEPT !.cooled = TRUE]
      OBVIOUS
    <3>2. /\ r \in AuthAttempt /\ r.current = a.current /\ r.outcome = a.outcome /\ r.resend = a.resend
          /\ r.clicks = a.clicks /\ r.expired = a.expired
      BY <1>1, <3>1 DEF AuthAttempt
    <3>3. attempts' = [attempts EXCEPT ![t] = [attempts[t] EXCEPT ![n] = r]]
      BY <2>1, <3>1 DEF CooldownEnds
    <3> QED
      BY <2>1, <3>2, <3>3 DEF CooldownEnds, brokerVars
  <2>2. CASE DeadlinePasses(t, n)
    <3>1. PICK r : r = [a EXCEPT !.expired = TRUE]
      OBVIOUS
    <3>2. /\ r \in AuthAttempt /\ r.current = a.current /\ r.outcome = a.outcome /\ r.resend = a.resend
          /\ r.clicks = a.clicks /\ r.expired
      BY <1>1, <3>1 DEF AuthAttempt
    <3>3. attempts' = [attempts EXCEPT ![t] = [attempts[t] EXCEPT ![n] = r]]
      BY <2>2, <3>1 DEF DeadlinePasses
    <3> QED
      BY <2>2, <3>2, <3>3 DEF DeadlinePasses
  <2> QED
    BY <2>1, <2>2
<1>3. UNCHANGED <<status, leased, returned, open, worker, sender, discarding, typed, mode>>
  BY DEF CooldownEnds, DeadlinePasses, rowVars, serviceVars
<1>4. /\ attempts' \in [Task -> Seq(AuthAttempt)]
      /\ \A u \in Task : DOMAIN attempts'[u] = DOMAIN attempts[u] /\ Len(attempts'[u]) = Len(attempts[u])
      /\ \A u \in Task : \A m \in DOMAIN attempts[u] :
           attempts'[u][m] = IF u = t /\ m = n THEN r ELSE attempts[u][m]
  BY <1>2, Amend DEF IInv, TypeOK
<1>5. \A u \in Task : \A m \in DOMAIN attempts[u] :
        /\ attempts'[u][m].current = attempts[u][m].current /\ attempts'[u][m].outcome = attempts[u][m].outcome
        /\ attempts'[u][m].resend = attempts[u][m].resend /\ attempts'[u][m].clicks = attempts[u][m].clicks
        /\ attempts[u][m].expired => attempts'[u][m].expired
  BY <1>2, <1>4
<1>6. JournalOK'
  BY <1>4, <1>5 DEF IInv, TypeOK, JournalOK, OneCurrent
<1>7. TypeOK'
  BY <1>2, <1>3, <1>6 DEF IInv, TypeOK, RowsOK, BrokerOK, WorkerOK, SenderOK, ServiceOK
<1>8. WorkerInv'
  BY <1>3, <1>4, <1>5 DEF IInv, WorkerInv, At, CurrentIs, OPEN_STEPS, RUN_STEPS
<1>9. WaitInv' /\ Hand' = Hand
  BY <1>3, StandFrame
<1>10. SenderInv'
  BY <1>3, <1>4, SenderFrame DEF IInv
<1>11. JournalInv'
  <2>1. \A u \in Task : \A m \in DOMAIN attempts[u] : m > 1 => m - 1 \in DOMAIN attempts[u]
    BY DEF IInv, TypeOK, JournalOK
  <2>2. \A u \in Task : \A m \in DOMAIN attempts'[u] :
          /\ attempts'[u][m].current \/ attempts'[u][m].outcome \in SENT \cup {"AUTHENTICATED"}
          /\ attempts'[u][m].clicks \in 0 .. 1
          /\ attempts'[u][m].outcome = "PREPARED" => attempts'[u][m].clicks = 0
    BY <1>4, <1>5 DEF IInv, JournalInv
  <2>3. \A u \in Task : \A m \in DOMAIN attempts'[u] :
          m > 1 => attempts'[u][m].resend \/ attempts'[u][m - 1].outcome = "AUTHENTICATED"
    BY <1>4, <1>5, <2>1 DEF IInv, JournalInv
  <2>4. At("click") => worker.task \in Task /\ worker.attempt \in DOMAIN attempts[worker.task]
    BY DEF IInv, WorkerInv, At, CurrentIs, RUN_STEPS
  <2> QED
    BY <1>3, <1>5, <2>2, <2>3, <2>4 DEF IInv, JournalInv, At
<1>12. BrokerInv'
  <2>1. \A k \in codes \cup typed \cup Hand : k \in Slot
    BY DEF IInv, TypeOK, BrokerOK, WorkerOK, WorkerInv, Hand, InHand, Slot, At
  <2>2. \A k \in Slot : Over(k) /\ k.attempt \in DOMAIN attempts[k.task] => Over(k)'
    BY <1>4, <1>5 DEF Over, CurrentIs, Slot
  <2>3. \A k \in seen \ seen' : Over(k)'
    BY <1>2, <1>4 DEF Over
  <2> QED
    BY <1>2, <1>3, <1>4, <1>9, <2>1, <2>2, <2>3 DEF IInv, BrokerInv, Slot
<1>13. CodeIsNoticed'
  <2>1. \A u \in Task : Pending(u)' => Pending(u)
    BY <1>2, <1>4, <1>5 DEF Pending, ValidWait, CurrentIs, PendingOf
  <2> QED
    BY <1>3, <2>1 DEF IInv, CodeIsNoticed
<1> QED
  BY <1>7, <1>8, <1>9, <1>10, <1>11, <1>12, <1>13 DEF IInv

\* What a restart forgets no run misses: the codes, the messages, the worker.
LEMMA RestartStep ==
  ASSUME IInv, Restart
  PROVE  IInv'
<1>1. /\ worker' = Idle /\ sender' = [s \in Sender |-> NoMessage] /\ codes' = {} /\ seen' = {} /\ typed' = {}
      /\ leased' = [t \in Task |-> FALSE] /\ discarding' = {} /\ UNCHANGED <<status, returned, open, attempts>>
      /\ mode' \in Modes
  BY DEF Restart
<1>2. WorkerOK' /\ worker'.step = "idle"
  BY <1>1 DEF WorkerOK, Idle, STEPS, STATUS
<1>3. SenderOK' /\ SenderInv'
  BY <1>1 DEF SenderOK, SenderInv, NoMessage
<1>4. ServiceOK'
  BY <1>1, OtpAssumption DEF IInv, TypeOK, ServiceOK
<1>5. TypeOK'
  BY <1>1, <1>2, <1>3, <1>4 DEF IInv, TypeOK, RowsOK, JournalOK, OneCurrent, BrokerOK
<1>6. WorkerInv' /\ WaitInv'
  BY <1>2 DEF WorkerInv, WaitInv, At, RUN_STEPS, OPEN_STEPS
<1>7. JournalInv'
  BY <1>1, <1>2, JournalFrame DEF IInv
<1>8. BrokerInv'
  BY <1>1, <1>2, EmptyHand DEF BrokerInv
<1>9. CodeIsNoticed'
  BY <1>1 DEF CodeIsNoticed, Pending, PendingOf
<1> QED
  BY <1>3, <1>5, <1>6, <1>7, <1>8, <1>9 DEF IInv

\* Nothing happens.
LEMMA StutterStep ==
  ASSUME IInv, UNCHANGED vars
  PROVE  IInv'
<1>1. UNCHANGED <<mode, status, leased, returned, open, attempts, codes, seen, worker, sender, typed, discarding>>
  BY DEF vars
<1>2. TypeOK'
  BY <1>1 DEF IInv, TypeOK, RowsOK, JournalOK, OneCurrent, BrokerOK, WorkerOK, SenderOK, ServiceOK
<1>3. WorkerInv' /\ WaitInv' /\ JournalInv' /\ Hand' = Hand
  BY <1>1, StandFrame
<1>4. SenderInv' /\ BrokerInv'
  BY <1>1, <1>3, BrokerFrame, SenderFrame DEF IInv
<1>5. CodeIsNoticed'
  BY <1>1, PendingShrinks DEF IInv, CodeIsNoticed
<1> QED
  BY <1>2, <1>3, <1>4, <1>5 DEF IInv

-----------------------------------------------------------------------------
(* The theorems.                                                             *)

\* Every step preserves the invariant.
LEMMA NextInv == IInv /\ [Next]_vars => IInv'
<1> SUFFICES ASSUME IInv, [Next]_vars PROVE IInv'
  OBVIOUS
<1>1. ASSUME NEW t \in Task, WorkerStep(t) PROVE IInv'
  BY <1>1, GateSteps, EndSteps, GoOnSteps, AmendSteps, BeginStep, WaitStep, ConsumeStep, RelayStep, EnterStep,
     CompleteStep, FailStep, ReleaseStep, FinishStep, AfterStep, WakeStep DEF WorkerStep
<1>2. ASSUME NEW s \in Sender, SenderStep(s) PROVE IInv'
  <2>1. CASE \E t \in Task, c \in Code : \E n \in DOMAIN attempts[t] : Push(s, t, n, c)
    BY <2>1, PushStep
  <2>2. CASE Store(s) \/ (\E late \in BOOLEAN : Look(s, late)) \/ WakeTask(s)
    BY <2>2, StoreStep, LookStep, WakeTaskStep
  <2> QED
    BY <1>2, <2>1, <2>2 DEF SenderStep
<1>3. ASSUME NEW t \in Task, UserStep(t) PROVE IInv'
  BY <1>3, ResendStep, RowStep DEF UserStep
<1>4. ASSUME NEW t \in Task, ClockStep(t) PROVE IInv'
  BY <1>4, ClockSteps DEF ClockStep
<1>5. CASE UNCHANGED vars
  BY <1>5, StutterStep
<1> QED
  BY <1>1, <1>2, <1>3, <1>4, <1>5, RestartStep DEF Next

\* The invariant holds of every behaviour of the protocol.
THEOREM Invariance == Spec => []IInv
BY InitInv, NextInv, PTL DEF Spec

\* Every row, code and thread of the protocol is what it is taken for, and of
\* the attempts of a task at most one is current, the last: the unique index
\* one_current_auth_attempt of auth/attempts.py is never violated.
THEOREM Typing == Spec => []TypeOK
BY Invariance, PTL DEF IInv

\* One SMS needs one consent: no attempt is clicked twice, whatever crashes or
\* races, and one after the first is clicked only upon an authorised resend or
\* a completed login (prepare_attempt, mark_send_intent and authorize_resend).
THEOREM OneClick == Spec => []OneSmsPerConsent
<1>1. IInv => OneSmsPerConsent
  BY DEF IInv, JournalInv, OneSmsPerConsent
<1> QED
  BY <1>1, Invariance, PTL

\* A code about to be typed under a lease is of the attempt still current,
\* however late it was stored (OtpBroker.consume and complete_attempt).
THEOREM CurrentCode == Spec => []CodeOfCurrentAttempt
<1>1. IInv => CodeOfCurrentAttempt
  BY DEF IInv, WorkerInv, CodeOfCurrentAttempt, At, RUN_STEPS
<1> QED
  BY <1>1, Invariance, PTL

\* A code is taken out of the broker and typed once per attempt, whichever
\* threads deliver it again (OtpBroker.push and its table of seen codes).
THEOREM FreshCode == Spec => []CodeIsFresh
<1>1. IInv => CodeIsFresh
  BY DEF IInv, BrokerInv, CodeIsFresh, Hand
<1> QED
  BY <1>1, Invariance, PTL

\* A task does not sleep over a code that lies in the broker: the worker that
\* ends its run, or the thread that stored the code, is on its way to wake it.
THEOREM NoticedCode == Spec => []CodeIsNoticed
BY Invariance, PTL DEF IInv

-----------------------------------------------------------------------------
(* The login keeps the promise of SmsLogin.                                  *)

\* The last attempt of a task is the current one until its login is over, and
\* only codes of the last attempt are remembered as typed.
LoginInv ==
  /\ \A t \in Task : \A n \in DOMAIN attempts[t] :
       /\ attempts[t][n].current => attempts[t][n].outcome # "AUTHENTICATED"
       /\ n = Len(attempts[t]) => attempts[t][n].current \/ attempts[t][n].outcome = "AUTHENTICATED"
  /\ \A k \in typed : k.attempt = Len(attempts[k.task])

\* The current attempt n of t becomes r.
Becomes(t, n, r) ==
  /\ CurrentIs(t, n) /\ r \in AuthAttempt
  /\ attempts' = [attempts EXCEPT ![t] = [attempts[t] EXCEPT ![n] = r]]
  /\ typed' = typed
GoesOn(a, r) ==
  /\ r.current /\ r.outcome # "AUTHENTICATED" /\ r.resend = a.resend
  /\ r.clicks = a.clicks \/ (a.clicks = 0 /\ r.clicks = 1)
IsOver(a, r) == ~r.current /\ r.outcome = "AUTHENTICATED" /\ r.resend = a.resend /\ r.clicks = a.clicks

\* The attempts of t are q now, and one that just began.
Grows(t, q, resend) ==
  /\ q \in Seq(AuthAttempt) /\ Len(q) = Len(attempts[t])
  /\ \A m \in DOMAIN attempts[t] : ~q[m].current /\ Sight(q[m]) = Sight(attempts[t][m])
  /\ attempts' = [attempts EXCEPT ![t] = Append(q, Prepared(resend))]
  /\ typed' = Without(typed, t)

\* What an attempt shows is a round with a count of messages.
LEMMA SightOf ==
  ASSUME NEW a \in AuthAttempt
  PROVE  Sight(a) \in [consented : BOOLEAN, messages : Nat, stage : {"open", "over"}]
BY DEF Sight, AuthAttempt

\* The rounds of a login are a sequence, one round for every attempt.
LEMMA RoundsOf ==
  ASSUME NEW s \in Seq(AuthAttempt)
  PROVE  /\ Rounds(s) \in Seq([consented : BOOLEAN, messages : Nat, stage : {"open", "over"}])
         /\ Len(Rounds(s)) = Len(s) /\ DOMAIN Rounds(s) = DOMAIN s
         /\ \A n \in DOMAIN s : Rounds(s)[n] = Sight(s[n])
<1> DEFINE R == [consented : BOOLEAN, messages : Nat, stage : {"open", "over"}]
<1>1. PICK len \in Nat : len = Len(s) /\ DOMAIN s = 1 .. len
  OBVIOUS
<1>2. ASSUME NEW n \in 1 .. len PROVE Sight(s[n]) \in R
  <2>1. s[n] \in AuthAttempt
    BY <1>1
  <2> QED
    BY <2>1, SightOf
<1>3. Rounds(s) \in [1 .. len -> R]
  BY <1>1, <1>2 DEF Rounds
<1>4. PICK p : p = Rounds(s)
  OBVIOUS
<1>5. p \in Seq(R) /\ DOMAIN p = 1 .. len
  <2>1. PICK T : T = R
    OBVIOUS
  <2>2. p \in [1 .. len -> T]
    BY <1>3, <1>4, <2>1
  <2>3. p \in Seq(T) /\ DOMAIN p = 1 .. len
    BY <2>2, SeqDef
  <2> QED
    BY <2>1, <2>3
<1>6. Len(p) = len
  BY <1>5
<1>7. \A n \in DOMAIN s : p[n] = Sight(s[n])
  BY <1>4 DEF Rounds
<1> QED
  BY <1>1, <1>4, <1>5, <1>6, <1>7

\* An amended attempt amends its round, and a new attempt begins one.
LEMMA RoundsAmended ==
  ASSUME NEW s \in Seq(AuthAttempt), NEW n \in DOMAIN s, NEW r \in AuthAttempt
  PROVE  Rounds([s EXCEPT ![n] = r]) = [Rounds(s) EXCEPT ![n] = Sight(r)]
BY DEF Rounds

LEMMA RoundsGrown ==
  ASSUME NEW s \in Seq(AuthAttempt), NEW q \in Seq(AuthAttempt), NEW r \in AuthAttempt,
         Len(q) = Len(s), \A m \in DOMAIN s : Sight(q[m]) = Sight(s[m])
  PROVE  Rounds(Append(q, r)) = Append(Rounds(s), Sight(r))
<1>1. PICK len \in Nat : len = Len(s) /\ DOMAIN s = 1 .. len /\ DOMAIN q = 1 .. len
  OBVIOUS
<1>2. PICK a : a = Append(q, r)
  OBVIOUS
<1>3. /\ a \in Seq(AuthAttempt) /\ DOMAIN a = 1 .. len + 1 /\ a[len + 1] = r
      /\ \A m \in 1 .. len : a[m] = q[m]
  BY <1>1, <1>2
<1>4. PICK b : b = Append(Rounds(s), Sight(r))
  OBVIOUS
<1>5. /\ DOMAIN b = 1 .. len + 1 /\ b[len + 1] = Sight(r) /\ b = [m \in 1 .. len + 1 |-> b[m]]
      /\ \A m \in 1 .. len : b[m] = Sight(s[m])
  <2>1. PICK p \in Seq([consented : BOOLEAN, messages : Nat, stage : {"open", "over"}]) :
          p = Rounds(s) /\ Len(p) = len /\ \A n \in 1 .. len : p[n] = Sight(s[n])
    BY <1>1, RoundsOf
  <2>2. Sight(r) \in [consented : BOOLEAN, messages : Nat, stage : {"open", "over"}]
    BY SightOf
  <2>3. PICK T : T = [consented : BOOLEAN, messages : Nat, stage : {"open", "over"}]
    OBVIOUS
  <2>4. /\ b \in Seq(T) /\ Len(b) = len + 1 /\ b[len + 1] = Sight(r)
        /\ \A m \in 1 .. len : b[m] = Sight(s[m])
    BY <1>4, <2>1, <2>2, <2>3, AppendProperties
  <2>5. b \in [1 .. len + 1 -> T]
    BY <2>4
  <2> QED
    BY <2>4, <2>5
<1>6. ASSUME NEW m \in 1 .. len + 1 PROVE Sight(a[m]) = b[m]
  <2>1. CASE m = len + 1
    BY <1>3, <1>5, <2>1
  <2>2. CASE m \in 1 .. len
    <3>1. a[m] = q[m] /\ b[m] = Sight(s[m]) /\ Sight(q[m]) = Sight(s[m])
      BY <1>1, <1>3, <1>5, <2>2
    <3> QED
      BY <3>1
  <2> QED
    BY <2>1, <2>2
<1>7. Rounds(a) = [m \in 1 .. len + 1 |-> Sight(a[m])]
  BY <1>3 DEF Rounds
<1> QED
  BY <1>2, <1>4, <1>5, <1>6, <1>7

\* Where a login stands is read off its last attempt, and that is the current
\* one if there is any.
LEMMA LastRound ==
  ASSUME IInv, LoginInv, NEW t \in Task
  PROVE  /\ attempts[t] \in Seq(AuthAttempt)
         /\ Login!UnderWay(t) <=> \E n \in DOMAIN attempts[t] : attempts[t][n].current
         /\ \A n \in DOMAIN attempts[t] : attempts[t][n].current =>
              /\ n = Len(attempts[t]) /\ n = Len(Rounds(attempts[t]))
              /\ Rounds(attempts[t])[n] = Sight(attempts[t][n])
              /\ attempts[t][n].outcome # "AUTHENTICATED"
<1>1. PICK s \in Seq(AuthAttempt) : s = attempts[t]
  BY DEF IInv, TypeOK, JournalOK
<1>2. PICK p : p = Rounds(s)
  OBVIOUS
<1>3. /\ Len(p) = Len(s) /\ DOMAIN p = DOMAIN s /\ p \in Seq([consented : BOOLEAN, messages : Nat, stage : {"open", "over"}])
      /\ \A n \in DOMAIN s : p[n] = Sight(s[n])
  BY <1>2, RoundsOf
<1>4. Login!UnderWay(t) <=> p # << >> /\ p[Len(p)].stage = "open"
  BY <1>1, <1>2 DEF Login!UnderWay, Login!Last
<1>5. \A n \in DOMAIN s : s[n].current => n = Len(s) /\ s[n].outcome # "AUTHENTICATED"
  BY <1>1 DEF LoginInv, IInv, TypeOK, JournalOK, OneCurrent
<1>6. \A n \in DOMAIN s : n = Len(s) => (s[n].current <=> s[n].outcome # "AUTHENTICATED")
  BY <1>1 DEF LoginInv
<1>7. p # << >> <=> Len(s) \in DOMAIN s
  BY <1>3
<1>8. Login!UnderWay(t) <=> Len(s) \in DOMAIN s /\ s[Len(s)].outcome # "AUTHENTICATED"
  BY <1>3, <1>4, <1>7 DEF Sight
<1> QED
  BY <1>1, <1>2, <1>3, <1>5, <1>6, <1>8

\* An amended attempt: its round goes on, asks for its message or is over.
LEMMA BecomesRound ==
  ASSUME IInv, LoginInv, NEW t \in Task, NEW n, NEW r, Becomes(t, n, r),
         GoesOn(attempts[t][n], r) \/ IsOver(attempts[t][n], r)
  PROVE  /\ LoginInv' /\ \A u \in Task \ {t} : attempts'[u] = attempts[u]
         /\ Login!UnderWay(t) /\ n = Len(Rounds(attempts[t]))
         /\ Rounds(attempts[t])[n] = Sight(attempts[t][n])
         /\ Rounds(attempts'[t]) = [Rounds(attempts[t]) EXCEPT ![n] = Sight(r)]
<1>1. n \in DOMAIN attempts[t] /\ attempts[t][n].current
  BY DEF Becomes, CurrentIs
<1>2. /\ attempts[t] \in Seq(AuthAttempt) /\ n = Len(attempts[t]) /\ n = Len(Rounds(attempts[t]))
      /\ Login!UnderWay(t) /\ Rounds(attempts[t])[n] = Sight(attempts[t][n])
  BY <1>1, LastRound
<1>3. /\ \A u \in Task : DOMAIN attempts'[u] = DOMAIN attempts[u] /\ Len(attempts'[u]) = Len(attempts[u])
      /\ \A u \in Task : \A m \in DOMAIN attempts[u] :
           attempts'[u][m] = IF u = t /\ m = n THEN r ELSE attempts[u][m]
  BY <1>1, Amend DEF IInv, TypeOK, Becomes
<1>4. /\ \A u \in Task \ {t} : attempts'[u] = attempts[u]
      /\ attempts'[t] = [attempts[t] EXCEPT ![n] = r]
  BY DEF Becomes, IInv, TypeOK, JournalOK
<1>5. LoginInv'
  <2>1. \A u \in Task : \A m \in DOMAIN attempts'[u] :
          /\ attempts'[u][m].current => attempts'[u][m].outcome # "AUTHENTICATED"
          /\ m = Len(attempts'[u]) => attempts'[u][m].current \/ attempts'[u][m].outcome = "AUTHENTICATED"
    BY <1>3 DEF LoginInv, GoesOn, IsOver
  <2>2. \A k \in typed' : k.attempt = Len(attempts'[k.task])
    BY <1>3 DEF LoginInv, Becomes, IInv, TypeOK, BrokerOK, Slot
  <2> QED
    BY <2>1, <2>2 DEF LoginInv
<1>6. Rounds(attempts'[t]) = [Rounds(attempts[t]) EXCEPT ![n] = Sight(r)]
  BY <1>1, <1>2, <1>4, RoundsAmended DEF Becomes
<1> QED
  BY <1>2, <1>4, <1>5, <1>6

\* A new attempt begins a round of its own.
LEMMA GrowsRound ==
  ASSUME IInv, LoginInv, NEW t \in Task, NEW q, NEW resend \in BOOLEAN, Grows(t, q, resend)
  PROVE  /\ LoginInv' /\ \A u \in Task \ {t} : attempts'[u] = attempts[u]
         /\ Rounds(attempts'[t]) = Append(Rounds(attempts[t]), Sight(Prepared(resend)))
<1>1. PICK r : /\ r \in AuthAttempt /\ r.current /\ r.outcome = "PREPARED" /\ r = Prepared(resend)
               /\ attempts' = [attempts EXCEPT ![t] = Append(q, r)]
  BY DEF Grows, Prepared, AuthAttempt
<1>2. PICK len \in Nat : len = Len(attempts[t]) /\ DOMAIN attempts[t] = 1 .. len
  BY DEF IInv, TypeOK, JournalOK
<1>3. PICK s : s = Append(q, r)
  OBVIOUS
<1>4. /\ s \in Seq(AuthAttempt) /\ Len(s) = len + 1 /\ DOMAIN s = 1 .. len + 1
      /\ s[len + 1] = r /\ \A m \in 1 .. len : s[m] = q[m]
  BY <1>1, <1>2, <1>3 DEF Grows
<1>5. attempts'[t] = s /\ \A u \in Task \ {t} : attempts'[u] = attempts[u]
  BY <1>1, <1>3 DEF IInv, TypeOK, JournalOK
<1>6. ASSUME NEW m \in 1 .. len + 1
      PROVE  /\ s[m].current => s[m].outcome # "AUTHENTICATED"
             /\ m = len + 1 => s[m].current
  <2>1. CASE m = len + 1
    BY <1>1, <1>4, <2>1
  <2>2. CASE m \in 1 .. len
    BY <1>2, <1>4, <2>2 DEF Grows
  <2> QED
    BY <2>1, <2>2
<1>7. \A k \in typed' : k \in typed /\ k.task \in Task \ {t}
  BY DEF Grows, Without, IInv, TypeOK, BrokerOK, Slot
<1>8. LoginInv'
  BY <1>4, <1>5, <1>6, <1>7 DEF LoginInv
<1>9. Rounds(s) = Append(Rounds(attempts[t]), Sight(r))
  <2>1. attempts[t] \in Seq(AuthAttempt)
    BY DEF IInv, TypeOK, JournalOK
  <2> QED
    BY <1>1, <1>3, <2>1, RoundsGrown DEF Grows
<1> QED
  BY <1>1, <1>5, <1>8, <1>9

\* What a step of the login is to the person with the phone.
Unnoticed == UNCHANGED <<attempts, typed>>
Amended(t) == \E n, r : Becomes(t, n, r) /\ (GoesOn(attempts[t][n], r) \/ IsOver(attempts[t][n], r))
Renewed(t, resend) == \E q : Grows(t, q, resend)

\* The worker and the clock amend the current attempt only, and begin a new one
\* only when there is none.
LEMMA RunEvents ==
  ASSUME IInv, LoginInv, NEW t \in Task,
         RecordSendIntent(t) \/ ObserveExternalWait(t) \/ Click(t) \/ RecordSendResult(t) \/ RunFails(t)
  PROVE  Unnoticed \/ Amended(t)
<1> DEFINE n == worker.attempt
           a == attempts[t][n]
<1>1. typed' = typed
  BY DEF RecordSendIntent, ObserveExternalWait, Click, RecordSendResult, RunFails, serviceVars
<1>2. CASE RunFails(t) /\ attempts' = attempts
  BY <1>1, <1>2 DEF Unnoticed
<1>3. CASE ~(RunFails(t) /\ attempts' = attempts)
  <2>1. worker.task = t /\ worker.step \in RUN_STEPS
    BY <1>3 DEF RecordSendIntent, ObserveExternalWait, Click, RecordSendResult, RunFails, ClickFails, At, RUN_STEPS
  <2>2. /\ a \in AuthAttempt /\ a.current /\ n \in DOMAIN attempts[t] /\ CurrentIs(t, n)
        /\ a.outcome # "AUTHENTICATED"
    BY <2>1, InRun DEF IInv, LoginInv, CurrentIs
  <2>3. At("click") => a.clicks = 0
    BY <2>1 DEF IInv, JournalInv
  <2>4. ASSUME NEW r, r \in AuthAttempt, GoesOn(a, r), attempts' = [attempts EXCEPT ![t] = [attempts[t] EXCEPT ![n] = r]]
        PROVE  Amended(t)
    BY <1>1, <2>2, <2>4 DEF Amended, Becomes
  <2>5. CASE Click(t) \/ RunFails(t)
    <3>1. At("click") /\ attempts' = [attempts EXCEPT ![t][n].clicks = @ + 1]
      BY <1>3, <2>5 DEF Click, RunFails, ClickFails
    <3>2. PICK r : r = [a EXCEPT !.clicks = @ + 1]
      OBVIOUS
    <3>3. r \in AuthAttempt /\ GoesOn(a, r)
      BY <2>2, <2>3, <3>1, <3>2 DEF AuthAttempt, GoesOn
    <3>4. attempts' = [attempts EXCEPT ![t] = [attempts[t] EXCEPT ![n] = r]]
      BY <3>1, <3>2
    <3> QED
      BY <2>4, <3>3, <3>4
  <2>6. CASE RecordSendIntent(t) \/ ObserveExternalWait(t) \/ RecordSendResult(t)
    <3>1. PICK o \in WAITING : attempts' = [attempts EXCEPT ![t][n].outcome = o]
      BY <2>6 DEF RecordSendIntent, ObserveExternalWait, RecordSendResult, WAITING, SENT
    <3>2. PICK r : r = [a EXCEPT !.outcome = o]
      OBVIOUS
    <3>3. r \in AuthAttempt /\ GoesOn(a, r)
      BY <2>2, <3>1, <3>2 DEF AuthAttempt, GoesOn, WAITING, SENT
    <3>4. attempts' = [attempts EXCEPT ![t] = [attempts[t] EXCEPT ![n] = r]]
      BY <3>1, <3>2
    <3> QED
      BY <2>4, <3>3, <3>4
  <2> QED
    BY <2>5, <2>6
<1> QED
  BY <1>2, <1>3

\* The clock marks the current attempt and leaves the rest of it as it is.
LEMMA ClockEvents ==
  ASSUME IInv, LoginInv, NEW t \in Task, ClockStep(t)
  PROVE  Amended(t)
<1>1. PICK n \in DOMAIN attempts[t] : CooldownEnds(t, n) \/ DeadlinePasses(t, n)
  BY DEF ClockStep
<1> DEFINE a == attempts[t][n]
<1>2. typed' = typed /\ CurrentIs(t, n) /\ a \in AuthAttempt /\ a.current /\ a.outcome # "AUTHENTICATED"
  BY <1>1, CurrentTyped DEF CooldownEnds, DeadlinePasses, serviceVars, CurrentIs, LoginInv, IInv, TypeOK
<1>3. PICK r : /\ r \in {[a EXCEPT !.cooled = TRUE], [a EXCEPT !.expired = TRUE]}
               /\ attempts' = [attempts EXCEPT ![t] = [attempts[t] EXCEPT ![n] = r]]
  <2>1. CASE CooldownEnds(t, n)
    <3>1. attempts' = [attempts EXCEPT ![t] = [attempts[t] EXCEPT ![n] = [a EXCEPT !.cooled = TRUE]]]
      BY <2>1 DEF CooldownEnds
    <3> QED
      BY <3>1
  <2>2. CASE DeadlinePasses(t, n)
    <3>1. attempts' = [attempts EXCEPT ![t] = [attempts[t] EXCEPT ![n] = [a EXCEPT !.expired = TRUE]]]
      BY <2>2 DEF DeadlinePasses
    <3> QED
      BY <3>1
  <2> QED
    BY <1>1, <2>1, <2>2
<1>4. PICK b \in AuthAttempt : b = a /\ b.current /\ b.outcome # "AUTHENTICATED"
  BY <1>2
<1>5. r \in {[b EXCEPT !.cooled = TRUE], [b EXCEPT !.expired = TRUE]}
  BY <1>3, <1>4
<1>6. r \in AuthAttempt /\ r.current /\ r.outcome = b.outcome /\ r.resend = b.resend /\ r.clicks = b.clicks
  BY <1>4, <1>5 DEF AuthAttempt
<1>7. GoesOn(a, r)
  BY <1>4, <1>6 DEF GoesOn
<1> QED
  BY <1>2, <1>3, <1>6, <1>7 DEF Amended, Becomes

\* The login is over: the attempt is closed with it.
LEMMA CompleteEvents ==
  ASSUME IInv, LoginInv, NEW t \in Task, CompleteAttempt(t)
  PROVE  Unnoticed \/ Amended(t)
<1> DEFINE n == worker.attempt
           a == attempts[t][n]
<1>1. typed' = typed /\ worker.task = t /\ worker.step \in RUN_STEPS
  BY DEF CompleteAttempt, LoginOver, RUN_STEPS, serviceVars
<1>2. a \in AuthAttempt /\ CurrentIs(t, n)
  BY <1>1, InRun DEF IInv, CurrentIs
<1>3. PICK r : r = [[a EXCEPT !.current = FALSE] EXCEPT !.outcome = "AUTHENTICATED"]
  OBVIOUS
<1>4. r \in AuthAttempt /\ IsOver(a, r)
  BY <1>2, <1>3 DEF AuthAttempt, IsOver
<1>5. attempts' = [attempts EXCEPT ![t] = [attempts[t] EXCEPT ![n] = r]]
  BY <1>2, <1>3 DEF CompleteAttempt
<1> QED
  BY <1>1, <1>2, <1>4, <1>5 DEF Amended, Becomes

\* A run begins a round only if none is under way.
LEMMA BeginEvents ==
  ASSUME IInv, LoginInv, NEW t \in Task, BeginAttempt(t)
  PROVE  Unnoticed \/ (Renewed(t, FALSE) /\ ~Login!UnderWay(t))
<1>1. CASE UNCHANGED <<attempts, seen, typed>>
  BY <1>1 DEF Unnoticed
<1>2. CASE /\ ~HasCurrent(t) /\ attempts' = [attempts EXCEPT ![t] = Append(@, Prepared(FALSE))]
           /\ typed' = Without(typed, t)
  <2>1. attempts[t] \in Seq(AuthAttempt) /\ \A m \in DOMAIN attempts[t] : ~attempts[t][m].current
    BY <1>2 DEF IInv, TypeOK, JournalOK, HasCurrent
  <2>2. Grows(t, attempts[t], FALSE)
    BY <1>2, <2>1 DEF Grows
  <2> QED
    BY <2>1, <2>2, LastRound DEF Renewed
<1> QED
  BY <1>1, <1>2 DEF BeginAttempt

\* A resend begins another while one is under way: that is the consent.
LEMMA ResendEvents ==
  ASSUME IInv, LoginInv, NEW t \in Task, AuthorizeResend(t)
  PROVE  Renewed(t, TRUE) /\ Login!UnderWay(t)
<1>1. PICK n \in DOMAIN attempts[t] :
        /\ CurrentIs(t, n)
        /\ attempts' = [attempts EXCEPT ![t] = Append([@ EXCEPT ![n].current = FALSE], Prepared(TRUE))]
  BY DEF AuthorizeResend
<1>2. typed' = Without(typed, t)
  BY DEF AuthorizeResend
<1>3. attempts[t] \in Seq(AuthAttempt) /\ attempts[t][n] \in AuthAttempt
  BY CurrentTyped DEF IInv, TypeOK, JournalOK
<1>4. PICK r : r = [attempts[t][n] EXCEPT !.current = FALSE]
  OBVIOUS
<1>5. r \in AuthAttempt /\ ~r.current /\ Sight(r) = Sight(attempts[t][n])
  BY <1>3, <1>4 DEF AuthAttempt, Sight
<1>6. PICK q : q = [attempts[t] EXCEPT ![n] = r]
  OBVIOUS
<1>7. /\ q \in Seq(AuthAttempt) /\ Len(q) = Len(attempts[t])
      /\ \A m \in DOMAIN attempts[t] : q[m] = IF m = n THEN r ELSE attempts[t][m]
  BY <1>3, <1>5, <1>6
<1>8. \A m \in DOMAIN attempts[t] : attempts[t][m].current => m = n
  BY <1>1 DEF CurrentIs, IInv, TypeOK, JournalOK, OneCurrent
<1>9. attempts' = [attempts EXCEPT ![t] = Append(q, Prepared(TRUE))]
  BY <1>1, <1>4, <1>6
<1>10. Grows(t, q, TRUE)
  BY <1>2, <1>5, <1>7, <1>8, <1>9 DEF Grows
<1>11. Login!UnderWay(t)
  BY <1>1, LastRound DEF CurrentIs
<1> QED
  BY <1>10, <1>11 DEF Renewed

\* A code that a run enters is typed in the round that is under way.
LEMMA EnterEvents ==
  ASSUME IInv, LoginInv, NEW t \in Task, EnterCode(t)
  PROVE  /\ attempts' = attempts /\ Login!UnderWay(t)
         /\ \/ typed' = typed
            \/ /\ typed' = typed \cup {InHand} /\ InHand \in Slot /\ InHand.task = t
               /\ InHand.attempt = Len(attempts[t])
<1>1. worker.step = "enter" /\ worker.task = t /\ attempts' = attempts
  BY DEF EnterCode, At
<1>2. worker.attempt \in DOMAIN attempts[t] /\ attempts[t][worker.attempt].current
  BY <1>1, InRun DEF IInv, RUN_STEPS
<1>3. worker.attempt = Len(attempts[t]) /\ Login!UnderWay(t)
  BY <1>2, LastRound
<1>4. CASE worker.relayed
  BY <1>1, <1>3, <1>4 DEF EnterCode
<1>5. CASE ~worker.relayed
  <2>1. typed' = typed \cup {InHand}
    BY <1>5 DEF EnterCode
  <2>2. InHand \in Slot /\ InHand.task = t /\ InHand.attempt = Len(attempts[t])
    BY <1>1, <1>3 DEF IInv, TypeOK, WorkerOK, WorkerInv, InHand, Slot, At
  <2> QED
    BY <1>1, <1>3, <2>1, <2>2
<1> QED
  BY <1>4, <1>5

\* All the rest leaves the journal and what was typed alone.
LEMMA OtherEvents ==
  ASSUME [Next]_vars
  PROVE  \/ Unnoticed \/ Restart
         \/ \E t \in Task :
              \/ RecordSendIntent(t) \/ ObserveExternalWait(t) \/ Click(t) \/ RecordSendResult(t) \/ RunFails(t)
              \/ BeginAttempt(t) \/ EnterCode(t) \/ CompleteAttempt(t) \/ AuthorizeResend(t) \/ ClockStep(t)
<1>1. CASE UNCHANGED vars
  BY <1>1 DEF vars, Unnoticed
<1>2. ASSUME NEW t \in Task,
             \/ Claim(t) \/ BeginRun(t) \/ GateRefuses(t) \/ SetupFails(t) \/ NoSmsChallenge(t) \/ AttemptRefused(t)
             \/ FieldUnavailable(t) \/ ControlsUnproven(t) \/ OtherChallenge(t) \/ AlreadyRequested(t) \/ RequestShown(t)
      PROVE  Unnoticed
  BY <1>2 DEF Unnoticed, Claim, BeginRun, GateRefuses, SetupFails, NoSmsChallenge, AttemptRefused, FieldUnavailable,
              ControlsUnproven, OtherChallenge, AlreadyRequested, RequestShown, EndRun, serviceVars
<1>3. ASSUME NEW t \in Task,
             \/ WaitForCode(t) \/ Consume(t) \/ RelayAnswers(t) \/ RelaySilent(t) \/ ConfirmCode(t) \/ FieldGone(t)
             \/ ChallengeRemains(t) \/ ReturnUnverified(t) \/ Release(t) \/ FinishRun(t) \/ AfterRun(t) \/ Wake(t)
      PROVE  Unnoticed
  BY <1>3 DEF Unnoticed, WaitForCode, Consume, RelayAnswers, RelaySilent, ConfirmCode, FieldGone, ChallengeRemains,
              ReturnUnverified, Release, FinishRun, AfterRun, Wake, EndRun, serviceVars
<1>4. ASSUME NEW t \in Task, DiscardOldCodes(t) \/ Resume(t) \/ Pause(t) \/ Cancel(t)
      PROVE  Unnoticed
  BY <1>4 DEF Unnoticed, DiscardOldCodes, Resume, Pause, Cancel, serviceVars
<1>5. ASSUME NEW s \in Sender, SenderStep(s)
      PROVE  Unnoticed
  BY <1>5 DEF Unnoticed, SenderStep, Push, Store, Look, WakeTask, serviceVars
<1> QED
  BY <1>1, <1>2, <1>3, <1>4, <1>5 DEF Next, WorkerStep, UserStep

\* Where a login stands and what was typed for it changes by its own events.
LEMMA LoginSteps ==
  ASSUME IInv, LoginInv, [Next]_vars
  PROVE  LoginInv' /\ (Login!Next \/ UNCHANGED Login!vars)
<1>1. CASE Unnoticed
  <2>1. LoginInv'
    BY <1>1 DEF Unnoticed, LoginInv
  <2>2. \A u \in Task : TypedNow(u)' = TypedNow(u)
    BY <1>1 DEF Unnoticed, TypedNow
  <2> QED
    BY <1>1, <2>1, <2>2 DEF Unnoticed, Login!vars
<1>2. CASE Restart
  <2>1. attempts' = attempts /\ typed' = {}
    BY <1>2 DEF Restart
  <2>2. \A u \in Task : TypedNow(u)' = {}
    BY <2>1 DEF TypedNow
  <2>3. Login!Forget
    BY <2>1, <2>2 DEF Login!Forget
  <2>4. LoginInv'
    BY <2>1 DEF LoginInv
  <2> QED
    BY <2>3, <2>4 DEF Login!Next
<1>3. ASSUME NEW t \in Task, Amended(t)
      PROVE  LoginInv' /\ (Login!Next \/ UNCHANGED Login!vars)
  <2>1. PICK n, r : Becomes(t, n, r) /\ (GoesOn(attempts[t][n], r) \/ IsOver(attempts[t][n], r))
    BY <1>3 DEF Amended
  <2> DEFINE a == attempts[t][n]
             p == Rounds(attempts[t])
  <2>2. /\ LoginInv' /\ \A u \in Task \ {t} : attempts'[u] = attempts[u]
        /\ Login!UnderWay(t) /\ n = Len(p) /\ p[n] = Sight(a)
        /\ Rounds(attempts'[t]) = [p EXCEPT ![n] = Sight(r)]
    BY <2>1, BecomesRound, ZenonT(40)
  <2>3. \A u \in Task : TypedNow(u)' = TypedNow(u)
    BY <2>1 DEF Becomes, TypedNow
  <2>4. a.outcome # "AUTHENTICATED"
    BY <2>1 DEF Becomes, CurrentIs, LoginInv
  <2>5. \/ Sight(r) = p[n]
        \/ p[n].messages = 0 /\ Sight(r) = [p[n] EXCEPT !.messages = 1]
        \/ Sight(r) = [p[n] EXCEPT !.stage = "over"]
    BY <2>1, <2>2, <2>4 DEF GoesOn, IsOver, Sight
  <2>6. CASE Sight(r) = p[n]
    <3>1. Rounds(attempts'[t]) = p
      BY <2>2, <2>6 DEF Rounds
    <3>2. \A u \in Task : Rounds(attempts'[u]) = Rounds(attempts[u])
      BY <2>2, <3>1
    <3> QED
      BY <2>2, <2>3, <3>2 DEF Login!vars
  <2>7. CASE p[n].messages = 0 /\ Sight(r) = [p[n] EXCEPT !.messages = 1]
    <3>1. Login!Ask(t)
      BY <2>2, <2>3, <2>7 DEF Login!Ask, Login!Last
    <3> QED
      BY <2>2, <3>1 DEF Login!Next
  <2>8. CASE Sight(r) = [p[n] EXCEPT !.stage = "over"]
    <3>1. Login!LogIn(t)
      BY <2>2, <2>3, <2>8 DEF Login!LogIn
    <3> QED
      BY <2>2, <3>1 DEF Login!Next
  <2> QED
    BY <2>5, <2>6, <2>7, <2>8
<1>4. ASSUME NEW t \in Task, NEW resend \in BOOLEAN, Renewed(t, resend)
      PROVE  LoginInv' /\ Login!NewRound(t, resend)
  <2>1. PICK q : Grows(t, q, resend)
    BY <1>4 DEF Renewed
  <2>2. /\ LoginInv' /\ \A u \in Task \ {t} : attempts'[u] = attempts[u]
        /\ Rounds(attempts'[t]) = Append(Rounds(attempts[t]), Sight(Prepared(resend)))
    BY <2>1, GrowsRound
  <2>3. TypedNow(t)' = {} /\ \A u \in Task \ {t} : TypedNow(u)' = TypedNow(u)
    BY <2>1 DEF Grows, Without, TypedNow
  <2>4. Sight(Prepared(resend)) = [consented |-> resend, messages |-> 0, stage |-> "open"]
    BY DEF Sight, Prepared
  <2> QED
    BY <2>2, <2>3, <2>4 DEF Login!NewRound
<1>5. ASSUME NEW t \in Task, EnterCode(t)
      PROVE  LoginInv' /\ (Login!Next \/ UNCHANGED Login!vars)
  <2>1. /\ attempts' = attempts /\ Login!UnderWay(t)
        /\ \/ typed' = typed
           \/ /\ typed' = typed \cup {InHand} /\ InHand \in Slot /\ InHand.task = t
              /\ InHand.attempt = Len(attempts[t])
    BY <1>5, EnterEvents
  <2>2. LoginInv'
    BY <2>1 DEF LoginInv
  <2>3. CASE typed' = typed
    BY <1>1, <2>1, <2>3 DEF Unnoticed
  <2>4. CASE typed' = typed \cup {InHand} /\ InHand \in Slot /\ InHand.task = t
    <3>1. /\ TypedNow(t)' = TypedNow(t) \cup {InHand.code}
          /\ \A u \in Task \ {t} : TypedNow(u)' = TypedNow(u)
      BY <2>4 DEF TypedNow
    <3>2. InHand.code \in Code
      BY <2>4 DEF Slot
    <3>3. Login!TypeIn(t, InHand.code)
      BY <2>1, <3>1 DEF Login!TypeIn
    <3> QED
      BY <2>2, <3>2, <3>3 DEF Login!Next
  <2> QED
    BY <2>1, <2>3, <2>4
<1>6. ASSUME NEW t \in Task,
             \/ RecordSendIntent(t) \/ ObserveExternalWait(t) \/ Click(t) \/ RecordSendResult(t) \/ RunFails(t)
             \/ CompleteAttempt(t) \/ ClockStep(t)
      PROVE  LoginInv' /\ (Login!Next \/ UNCHANGED Login!vars)
  BY <1>1, <1>3, <1>6, RunEvents, CompleteEvents, ClockEvents
<1>7. ASSUME NEW t \in Task, BeginAttempt(t)
      PROVE  LoginInv' /\ (Login!Next \/ UNCHANGED Login!vars)
  BY <1>1, <1>4, <1>7, BeginEvents DEF Login!Next, Login!Begin
<1>8. ASSUME NEW t \in Task, AuthorizeResend(t)
      PROVE  LoginInv' /\ Login!Next
  BY <1>4, <1>8, ResendEvents DEF Login!Next, Login!Consent
<1> QED
  BY <1>1, <1>2, <1>5, <1>6, <1>7, <1>8, OtherEvents

\* The journal and the broker are a login that begins a round only if none is
\* under way or with a consent, asks for one message in it, types codes in it
\* only and never changes the account of earlier rounds (auth/attempts.py,
\* OtpBroker), whatever crashes, races or is delivered late.
THEOREM LoginAsPromised == Spec => ImplementsSmsLogin
<1>1. Init => LoginInv /\ Login!Init
  <2> SUFFICES ASSUME Init PROVE LoginInv /\ Login!Init
    OBVIOUS
  <2>1. \A t \in Task : attempts[t] = << >> /\ DOMAIN attempts[t] = {} /\ typed = {}
    BY DEF Init
  <2>2. Rounds(<< >>) = << >>
    <3>1. << >> \in Seq(AuthAttempt) /\ Len(<< >>) = 0
      BY EmptySeq
    <3>2. PICK p \in Seq([consented : BOOLEAN, messages : Nat, stage : {"open", "over"}]) :
            p = Rounds(<< >>) /\ Len(p) = 0
      BY <3>1, RoundsOf
    <3> QED
      BY <3>2, EmptySeq, SeqEqual
  <2>3. \A t \in Task : Rounds(attempts[t]) = << >> /\ TypedNow(t) = {}
    BY <2>1, <2>2 DEF TypedNow
  <2> QED
    BY <2>1, <2>3 DEF Init, LoginInv, Login!Init
<1>2. IInv /\ LoginInv /\ [Next]_vars => LoginInv' /\ [Login!Next]_(Login!vars)
  BY LoginSteps
<1> QED
  BY <1>1, <1>2, Invariance, PTL DEF Spec, ImplementsSmsLogin, Login!Spec
=============================================================================
