------------------------- MODULE PreparationSession -------------------------
(***************************************************************************)
(* One private preparation per approval: the service (one active session,  *)
(* autonomy/preparation_session.py), the child process it talks to through *)
(* pipes (preparation/private_child.py), and the child's owner thread that *)
(* drives the browser (controller.py, flow.py, runner.py, resume_flow.py,  *)
(* human_review.py, human_request.py) and writes the journals of           *)
(* PreparationAuthority.                                                   *)
(*                                                                         *)
(* The owner thread asks the service before each step whether it is still  *)
(* authorized, and acts after the answer: a cancellation can fall between. *)
(***************************************************************************)
EXTENDS PreparationAuthority

CONSTANT MaxMishaps   \* bound: crashes, and changes of a task by its user

ASSUME MishapsAssumption == MaxMishaps \in Nat

VARIABLES
  active,     \* the session the service holds, or NoNonce
  cancelled,  \* the requests whose cancellation arrived
  proxy,      \* the service's end of the child of an approval
  pc,         \* where the owner thread of the child is
  k,          \* the field or the upload stage it is at
  started,    \* consumption_started
  proven,     \* the owner's close() returned True
  closed,     \* the child's state is CLOSED, not UNKNOWN_OUTCOME
  confirmed,  \* a person confirmed the held request
  edited,     \* the form changed after the request was held: before or
              \* after that person's confirmation
  late,       \* effects that happened after the session was revoked
  mishaps

service == <<active, cancelled, proxy, mishaps>>
thread == <<k, started, proven, closed>>
person == <<confirmed, edited, late>>
vars == <<durable, held, browser, done, service, pc, thread, person>>

\* The owner thread by what an exception does to the journals.
FieldSteps == {"field", "fenced", "write", "readback", "complete", "finish"}
UploadSteps == {"select", "stage", "post", "record", "uploaded"}
HumanSteps == {"captcha", "armed", "captured", "presented", "dialog", "agreed", "intent",
               "forward", "sent", "result", "invalid"}
OtherSteps == {"opening", "launching", "entered", "checked", "discovered", "sealed",
               "offered", "consume", "journal", "idle", "upload_offered"}
Working == FieldSteps \cup UploadSteps \cup HumanSteps \cup OtherSteps
Ended == {"none", "exited", "dead"}

Init ==
  /\ AuthorityInit
  /\ active = NoNonce /\ cancelled = {} /\ mishaps = 0
  /\ proxy = [n \in Nonce |-> "none"]
  /\ pc = [n \in Nonce |-> "none"]
  /\ k = [n \in Nonce |-> 0]
  /\ started = [n \in Nonce |-> FALSE]
  /\ proven = [n \in Nonce |-> FALSE]
  /\ closed = [n \in Nonce |-> FALSE]
  /\ confirmed = [n \in Nonce |-> FALSE]
  /\ edited = [n \in Nonce |-> "no"]
  /\ late = [n \in Nonce |-> 0]

\* _still_authorized, answered by the service over the guard pipe.
Alive(n) == proxy[n] = "open"

Goto(n, there) == pc' = [pc EXCEPT ![n] = there]

\* Mutant: a step that does not ask the service.
StepUnasked(n, here, there) == pc[n] = here /\ Goto(n, there)

Step(n, here, there) == pc[n] = here /\ Alive(n) /\ Goto(n, there)

Outside == UNCHANGED <<target, worker, receipts, tombstone, service>>
Inside == UNCHANGED <<durable, held, done, started, proven, closed>>

-----------------------------------------------------------------------------
(* The service.                                                            *)

\* A second session waits until the first is known to be closed.
Open(n) ==
  /\ n \notin cancelled /\ proxy[n] = "none"
  /\ active # NoNonce => proxy[active] = "closed"
  /\ Preparable(n)
  /\ active' = n
  /\ proxy' = [proxy EXCEPT ![n] = "open"]
  /\ Goto(n, "opening")
  /\ UNCHANGED <<durable, held, browser, done, cancelled, mishaps, thread, person>>

\* The cancellation may arrive before the request it cancels: it is kept.  An
\* open session it revokes, as does an answer of the child that is late or
\* wrong, the end of the page's session and the end of the service.
Cancel(n) ==
  /\ \/ /\ proxy[n] = "none" /\ n \notin cancelled
        /\ cancelled' = cancelled \cup {n} /\ UNCHANGED proxy
     \/ /\ proxy[n] = "open"
        /\ proxy' = [proxy EXCEPT ![n] = "revoked"] /\ UNCHANGED cancelled
  /\ UNCHANGED <<durable, held, browser, done, active, mishaps, pc, thread, person>>

\* The commands of the page; each finds the thread waiting for one.
Command(n, here, there) ==
  /\ active = n
  /\ Step(n, here, there)
  /\ UNCHANGED <<durable, held, browser, done, service, thread, person>>

ApproveFill(n) == Command(n, "offered", "consume")

\* Bound: the person goes on, to the resume and the final request, in the
\* first session only; by then a second one is independent of it.
GoesOn(n) == \A m \in Nonce \ {n} : proxy[m] = "none"

ReviewResume(n) ==
  /\ GoesOn(n) /\ HasResume /\ PreparedTask(n)
  /\ journal[n].upload = "none" /\ journal[n].final = "none"
  /\ Command(n, "idle", "upload_offered")

BeginHumanReview(n) ==
  /\ GoesOn(n) /\ PreparedTask(n) /\ Material(n) /\ journal[n].final = "none"
  /\ Command(n, "idle", "captcha")

\* Mutant: a child that exited counts as closed.
ReceiptOfExit(n) ==
  /\ pc[n] = "exited" /\ proxy[n] \in {"open", "revoked"}
  /\ proxy' = [proxy EXCEPT ![n] = "closed"]
  /\ UNCHANGED <<durable, held, browser, done, active, cancelled, mishaps, pc, thread, person>>

\* shutdown(): the child is CLOSED and gone.
Receipt(n) ==
  /\ pc[n] = "exited" /\ closed[n] /\ proxy[n] \in {"open", "revoked"}
  /\ proxy' = [proxy EXCEPT ![n] = "closed"]
  /\ UNCHANGED <<durable, held, browser, done, active, cancelled, mishaps, pc, thread, person>>

ServiceRestarts ==
  /\ mishaps < MaxMishaps /\ mishaps' = mishaps + 1
  /\ active' = NoNonce
  /\ proxy' = [n \in Nonce |-> IF proxy[n] = "none" THEN "none" ELSE "lost"]
  /\ UNCHANGED <<durable, held, browser, done, cancelled, pc, thread, person>>

-----------------------------------------------------------------------------
(* The owner thread: opening the form and filling it in.                   *)

BeginLaunch(n) ==
  /\ Step(n, "opening", "launching")
  /\ Inside /\ UNCHANGED <<browser, service, k, person>>

Launch(n) ==
  /\ pc[n] = "launching" /\ Goto(n, "entered")
  /\ browser' = [browser EXCEPT ![n] = "alive"]
  /\ Inside /\ UNCHANGED <<service, k, person>>

\* Four canaries show that the browser reaches nothing but the deny-only proxy.
CheckNative(n) ==
  /\ Owned(n) /\ Step(n, "entered", "checked")
  /\ Inside /\ UNCHANGED <<browser, service, k, person>>

\* The page is opened with the public reads it needs, each allowed once, ...
Discover(n) ==
  /\ Owned(n) /\ Step(n, "checked", "discovered")
  /\ Inside /\ UNCHANGED <<browser, service, k, person>>

\* ... whose receipt is certified before the transport is sealed for good.
Seal(n) ==
  /\ Owned(n) /\ Step(n, "discovered", "sealed")
  /\ Inside /\ UNCHANGED <<browser, service, k, person>>

Offer(n) ==
  /\ Owned(n) /\ Step(n, "sealed", "offered")
  /\ Issue(n)
  /\ UNCHANGED <<durable, browser, done, service, thread, person>>

\* The marker, the row and the permit in memory can part: a transaction that
\* is not committed, a commit nobody hears of.
Consume(n) ==
  /\ pc[n] = "consume"
  /\ started' = [started EXCEPT ![n] = TRUE]
  /\ IF Alive(n) /\ Owned(n) /\ Admissible(n)
     THEN /\ ConsumeMarker(n)
          /\ \/ /\ ConsumeRow(n) /\ Goto(n, "journal")
                /\ hold' = [hold EXCEPT ![n] = "active"]
             \/ ConsumeRow(n) /\ Goto(n, "closing") /\ UNCHANGED hold
             \/ Goto(n, "closing") /\ UNCHANGED <<approval, task, hold>>
     ELSE Goto(n, "closing") /\ UNCHANGED <<marker, approval, task, hold>>
  /\ UNCHANGED <<journal, seen, browser, done, k, proven, closed, person>>
  /\ Outside

\* A step that writes one journal entry.
Journals(n, here, there) ==
  /\ Owned(n) /\ Step(n, here, there)
  /\ UNCHANGED <<task, approval, marker, held, browser, done, started, proven, closed, person>>
  /\ Outside

OpenJournal(n) ==
  /\ BeginRun(n) /\ Journals(n, "journal", "field")
  /\ k' = [k EXCEPT ![n] = 1]

BeforeField(n) ==
  /\ Journals(n, "field", "fenced") /\ BeginField(n, Plan[k[n]])
  /\ UNCHANGED k

\* The kernel's _fence() between the durable intent and the primitive.
Fence(n) ==
  /\ Owned(n) /\ Permitted(n) /\ Step(n, "fenced", "write")
  /\ Inside /\ UNCHANGED <<browser, service, k, person>>

\* Something reaches the website; nothing is asked any more.
Happens(n, here, there, e) ==
  /\ pc[n] = here /\ Owned(n) /\ Goto(n, there)
  /\ done' = [done EXCEPT ![n][e] = @ + 1]
  /\ late' = [late EXCEPT ![n] = IF Alive(n) THEN @ ELSE @ + 1]
  /\ UNCHANGED <<durable, held, browser, service, thread, confirmed, edited>>

Write(n) == Happens(n, "write", "readback", Plan[k[n]])

AfterField(n) ==
  LET last == k[n] = Len(Plan)
  IN /\ Journals(n, "readback", IF last THEN "complete" ELSE "field")
     /\ Permitted(n) /\ FinishField(n, Plan[k[n]])
     /\ k' = [k EXCEPT ![n] = IF last THEN 0 ELSE @ + 1]

Complete(n) ==
  /\ CompleteRun(n) /\ Journals(n, "complete", "finish")
  /\ UNCHANGED k

Finish(n) ==
  LET prepared == Alive(n) /\ Permitted(n) /\ AllReadBack(n)
  IN /\ pc[n] = "finish" /\ Goto(n, IF prepared THEN "idle" ELSE "closing")
     /\ FinishOpen(n, IF prepared THEN "PREPARED" ELSE "UNKNOWN")
     /\ UNCHANGED <<target, worker, held, browser, done, service, thread, person>>

-----------------------------------------------------------------------------
(* The resume: one selection, three requests.                              *)

ApproveResume(n) ==
  /\ active = n
  /\ ApproveUpload(n) /\ Journals(n, "upload_offered", "select")
  /\ UNCHANGED k

Select(n) ==
  /\ BeginSelection(n) /\ Journals(n, "select", "stage")
  /\ k' = [k EXCEPT ![n] = 1]

Stage(n) ==
  /\ Journals(n, "stage", "post") /\ BeginStage(n, k[n])
  /\ UNCHANGED k

Post(n) == Happens(n, "post", "record", STAGES[k[n]])

Record(n) ==
  LET returned == Alive(n) /\ UploadRows(n)
      last == k[n] = Len(STAGES)
  IN /\ pc[n] = "record"
     /\ RecordStage(n, k[n])
     /\ Goto(n, IF ~returned THEN "closing" ELSE IF last THEN "uploaded" ELSE "stage")
     /\ k' = [k EXCEPT ![n] = IF last THEN 0 ELSE @ + 1]
     /\ UNCHANGED <<task, approval, marker, held, browser, done, started, proven, closed, person>>
     /\ Outside

Uploaded(n) ==
  /\ UploadRows(n) /\ FinishUpload(n)
  /\ Journals(n, "uploaded", IF journal'[n].upload = "RETURNED" THEN "idle" ELSE "closing")
  /\ UNCHANGED k

-----------------------------------------------------------------------------
(* The person completes the form and sends it; the request is held until   *)
(* that person confirmed it in a dialog of the browser.                    *)

Person(n, here, there) ==
  /\ pc[n] \in here /\ Owned(n) /\ Goto(n, there)
  /\ Inside /\ UNCHANGED <<browser, service, k, late>>

\* The one request for the captcha's image; then the classifier is armed.
ShowCaptcha(n) ==
  /\ Owned(n) /\ PreparedTask(n) /\ Material(n) /\ Step(n, "captcha", "armed")
  /\ Inside /\ UNCHANGED <<browser, service, k, person>>

\* The armed document sends the one request that is parked.
Submits(n) ==
  /\ Person(n, {"armed"}, "captured") /\ UNCHANGED <<confirmed, edited>>

SubmitsAgain(n) ==
  /\ Person(n, {"captured", "presented", "dialog", "agreed"}, "invalid")
  /\ UNCHANGED <<confirmed, edited>>

\* The change epoch of the document moves.
Edits(n) ==
  /\ pc[n] \in {"captured", "presented", "agreed", "intent", "forward"}
  /\ edited[n] = "no"
  /\ Person(n, {pc[n]}, pc[n])
  /\ edited' = [edited EXCEPT ![n] = IF confirmed[n] THEN "after" ELSE "before"]
  /\ UNCHANGED confirmed

\* Mutant: the epoch of the document is not compared.
UnchangedAlways(n) == TRUE

\* require_exact(): the request held is the one the document sent, and no
\* input or setter has changed the document since.
Unchanged(n) == edited[n] = "no"
ExactRequest(n) == pc[n] # "invalid" /\ Unchanged(n)

Present(n) ==
  /\ FinalRows(n) /\ Material(n) /\ journal[n].final = "none" /\ ExactRequest(n)
  /\ Owned(n) /\ Step(n, "captured", "presented")
  /\ Inside /\ UNCHANGED <<browser, service, k, person>>

DialogOpens(n) ==
  /\ Person(n, {"presented"}, "dialog") /\ UNCHANGED <<confirmed, edited>>

DialogCloses(n) ==
  \/ /\ Person(n, {"dialog"}, "agreed")
     /\ confirmed' = [confirmed EXCEPT ![n] = TRUE] /\ UNCHANGED edited
  \/ Person(n, {"dialog"}, "invalid") /\ UNCHANGED <<confirmed, edited>>

\* drain(): check, take the only slot, check again, forward.
TakeSlot(n) ==
  /\ ExactRequest(n) /\ ConsumeFinal(n) /\ Journals(n, "agreed", "intent")
  /\ UNCHANGED k

CheckForward(n) ==
  /\ FinalRows(n) /\ Material(n) /\ ExactRequest(n) /\ journal[n].final = "ATTEMPTED"
  /\ Owned(n) /\ Step(n, "intent", "forward")
  /\ Inside /\ UNCHANGED <<browser, service, k, person>>

Forward(n) == Happens(n, "forward", "sent", "final")

\* ... and record; a refused check after the slot was taken records UNKNOWN.
RecordSend(n) ==
  /\ pc[n] \in {"intent", "forward", "sent"} /\ Goto(n, "result")
  /\ \E returned \in {pc[n] = "sent" /\ Alive(n) /\ Unchanged(n), FALSE} : RecordFinal(n, returned)
  /\ UNCHANGED <<task, approval, marker, held, browser, done, thread, person>>
  /\ Outside

-----------------------------------------------------------------------------
(* The end of the owner thread, which every exception leads to, as does a  *)
(* revocation, a deadline, or a page that is no longer alone.              *)

Fail(n) ==
  /\ pc[n] \in Working /\ Goto(n, "closing")
  /\ journal' \in {journal} \cup
       IF pc[n] \in FieldSteps THEN {[journal EXCEPT ![n] = InvalidatedRun(@)]}
       ELSE IF pc[n] \in UploadSteps THEN {[journal EXCEPT ![n] = LostUpload(@)]}
       ELSE {}
  /\ started' = [started EXCEPT ![n] = @ \/ pc[n] = "consume"]
  \* launch() may raise after it started the browser
  /\ browser' \in {browser} \cup
       IF pc[n] = "launching" THEN {[browser EXCEPT ![n] = "alive"]} ELSE {}
  /\ UNCHANGED <<task, approval, marker, held, done, k, proven, closed, person>>
  /\ Outside

CloseBrowser(n) ==
  /\ pc[n] = "closing" /\ Goto(n, "settle")
  /\ \/ /\ browser' = [browser EXCEPT ![n] = IF @ = "alive" THEN "gone" ELSE @]
        /\ \E p \in BOOLEAN : proven' = [proven EXCEPT ![n] = p]
     \/ UNCHANGED <<browser, proven>>
  /\ UNCHANGED <<durable, held, done, service, k, started, closed, person>>

\* flow.close(): finish() the approval, and say CLOSED only when nothing is open.
Settle(n) ==
  LET permit == hold[n] = "active"
      Exits(recorded) ==
        closed' = [closed EXCEPT ![n] = proven[n] /\ recorded /\ (started[n] => permit)]
  IN /\ pc[n] = "settle" /\ Goto(n, "exited")
     /\ \/ /\ permit /\ proven[n] /\ FinishClosed(n)
           /\ Exits(approval'[n].context_closed)
        \/ permit /\ ~proven[n] /\ FinishOpen(n, "UNKNOWN") /\ Exits(TRUE)
        \* the transaction failed, or there is none to make
        \/ /\ Exits(~permit)
           /\ UNCHANGED <<approval, journal, task, marker, receipts, tombstone>>
     /\ hold' = [hold EXCEPT ![n] = "none"]
     /\ k' = [k EXCEPT ![n] = 0]
     /\ started' = [started EXCEPT ![n] = FALSE]
     /\ proven' = [proven EXCEPT ![n] = FALSE]
     /\ UNCHANGED <<target, worker, seen, browser, done, service, person>>

\* The child is killed; its browser may live on.
ChildDies(n) ==
  /\ pc[n] \notin Ended /\ Goto(n, "dead")
  /\ mishaps < MaxMishaps /\ mishaps' = mishaps + 1
  /\ hold' = [hold EXCEPT ![n] = "none"]
  /\ proxy' = [proxy EXCEPT ![n] = IF @ = "open" THEN "revoked" ELSE @]
  /\ browser' \in {browser} \cup
       IF pc[n] = "launching" THEN {[browser EXCEPT ![n] = "alive"]} ELSE {}
  /\ UNCHANGED <<durable, seen, done, active, cancelled, thread, person>>

BrowserDies(n) ==
  /\ browser[n] = "alive"
  /\ IF pc[n] = "dead" THEN UNCHANGED mishaps
     ELSE mishaps < MaxMishaps /\ mishaps' = mishaps + 1
  /\ browser' = [browser EXCEPT ![n] = "gone"]
  /\ Inside /\ UNCHANGED <<active, cancelled, proxy, pc, k, person>>

-----------------------------------------------------------------------------
OwnerThread(n) ==
  \/ BeginLaunch(n) \/ Launch(n) \/ CheckNative(n) \/ Discover(n) \/ Seal(n) \/ Offer(n) \/ Consume(n) \/ OpenJournal(n)
  \/ BeforeField(n) \/ Fence(n) \/ Write(n) \/ AfterField(n) \/ Complete(n)
  \/ Finish(n) \/ Select(n) \/ Stage(n) \/ Post(n) \/ Record(n) \/ Uploaded(n)
  \/ ShowCaptcha(n) \/ Present(n) \/ TakeSlot(n) \/ CheckForward(n) \/ Forward(n) \/ RecordSend(n)
  \/ Fail(n) \/ CloseBrowser(n) \/ Settle(n)

Queue ==
  /\ \/ WorkerClaims /\ UNCHANGED mishaps
     \/ WorkerReturns /\ UNCHANGED mishaps
     \/ \E n \in Nonce : TaskChanges(target[n]) /\ mishaps < MaxMishaps /\ mishaps' = mishaps + 1
     \/ \E n \in Nonce : ReconcileClosedContext(n) /\ UNCHANGED mishaps
  /\ UNCHANGED <<active, cancelled, proxy, pc, thread, person>>

Next ==
  \/ \E n \in Nonce :
       \/ Open(n) \/ Cancel(n) \/ ApproveFill(n) \/ ReviewResume(n)
       \/ ApproveResume(n) \/ BeginHumanReview(n) \/ Receipt(n)
       \/ Submits(n) \/ SubmitsAgain(n) \/ Edits(n) \/ DialogOpens(n) \/ DialogCloses(n)
       \/ OwnerThread(n) \/ ChildDies(n) \/ BrowserDies(n)
  \/ ServiceRestarts \/ Queue

Spec == Init /\ [][Next]_vars

-----------------------------------------------------------------------------
(* Properties.                                                             *)

\* The shape of the state.
Entry ==
  [run : Outcome, field : [Range(Plan) -> {"none", "ATTEMPTED", "READBACK", "UNKNOWN"}], upload : Outcome,
   selected : BOOLEAN, stage : [Range(STAGES) -> Outcome], final : Outcome]
RowsOK ==
  /\ target \in [Nonce -> Task] /\ worker \in BOOLEAN
  /\ task \in [Task -> [owner : Nonce \cup {NoNonce}, stage : {"OPEN", "PREPARATION", "STOPPED"},
                        version : 0..MaxVersion]]
  /\ approval \in [Nonce -> [outcome : {"none", "ATTEMPTED", "PREPARED", "UNKNOWN"}, context_closed : BOOLEAN]]
  /\ journal \in [Nonce -> Entry]
  /\ marker \in Nonce \cup {NoNonce, Foreign} /\ receipts \cup tombstone \subseteq Nonce
ProcessOK ==
  /\ hold \in [Nonce -> {"none", "pending", "active"}] /\ seen \in [Nonce -> 0..MaxVersion]
  /\ browser \in [Nonce -> {"none", "alive", "gone"}] /\ done \in [Nonce -> [Effects -> 0..1]]
ServiceOK ==
  /\ active \in Nonce \cup {NoNonce} /\ cancelled \subseteq Nonce /\ mishaps \in 0..MaxMishaps
  /\ proxy \in [Nonce -> {"none", "open", "revoked", "closed", "lost"}]
ThreadOK ==
  /\ pc \in [Nonce -> Working \cup Ended \cup {"closing", "settle"}]
  /\ k \in [Nonce -> 0..(Len(Plan) + Len(STAGES))]
  /\ started \in [Nonce -> BOOLEAN] /\ proven \in [Nonce -> BOOLEAN] /\ closed \in [Nonce -> BOOLEAN]
  /\ confirmed \in [Nonce -> BOOLEAN] /\ edited \in [Nonce -> {"no", "before", "after"}]
  /\ late \in [Nonce -> Nat]

TypeOK == RowsOK /\ ProcessOK /\ ServiceOK /\ ThreadOK

\* What the marker, the rows and the receipts say together of an approval.
Phase(n) ==
  IF marker = n \/ OpenRow(n) THEN "admitted"
  ELSE IF approval[n].outcome # "none" \/ n \in tombstone \cup receipts THEN "spent"
  ELSE "unused"

Promise == INSTANCE OneShotApproval WITH
  Approval <- Nonce, Effect <- Effects, Form <- Task, form <- target, count <- done,
  phase <- [n \in Nonce |-> Phase(n)],
  alive <- [n \in Nonce |-> browser[n] = "alive"]

\* Whatever crashes, and whichever of the marker, the transaction and the
\* rename of the marker was lost, an approval is used once and alone, for a
\* fresh form, and keeps every other preparation and every worker out until
\* its browser is gone (consume, finish, reconcile_closed_context, claim).
ImplementsOneShot == Promise!Spec

\* An effect has its durable intent, and what the rows call prepared, uploaded
\* or sent has happened, once each (the kernel, the broker and the bridge
\* against the three journals).
JournalsTellTheTruth ==
  \A n \in Nonce :
    LET j == journal[n]
    IN /\ \A f \in Range(Plan) :
            /\ done[n][f] > 0 => j.field[f] # "none"
            /\ j.field[f] = "READBACK" \/ approval[n].outcome = "PREPARED" => done[n][f] = 1
       /\ \A i \in DOMAIN STAGES :
            /\ done[n][STAGES[i]] > 0 => j.stage[STAGES[i]] # "none" /\ j.selected
            /\ j.stage[STAGES[i]] = "RETURNED" \/ j.upload = "RETURNED"
                 => done[n][STAGES[i]] = 1
       /\ done[n]["final"] > 0 => j.final # "none"
       /\ j.final = "RETURNED" => done[n]["final"] = 1

\* After a cancellation, a timeout or the end of the service a preparation
\* puts at most the one primitive on the website that had passed its fence.
OneLateEffect == \A n \in Nonce : late[n] <= 1

\* The final request is sent only after a person confirmed it with the form as
\* it was when the request was held, the fields prepared, and the resume, if
\* there is one, uploaded (drain and the final journal).
SendIsConfirmed ==
  \A n \in Nonce :
    done[n]["final"] > 0 =>
      /\ confirmed[n] /\ edited[n] # "before"
      /\ \A f \in Range(Plan) : done[n][f] = 1
      /\ HasResume => \A s \in Range(STAGES) : done[n][s] = 1

\* The service calls a session closed, and lets the next one open, only when
\* its browser is gone and no barrier of it is left (shutdown's receipt).
ClosedIsSettled ==
  \A n \in Nonce :
    proxy[n] = "closed" => browser[n] # "alive" /\ marker # n /\ ~OpenRow(n)
=============================================================================
