----------------------------- MODULE ReviewDesk -----------------------------
(***************************************************************************)
(* From READY_TO_SUBMIT to the person's own click.  The worker keeps the   *)
(* certified review in memory (worker.py); the supervisor's handlers show  *)
(* its values after a fresh readback and record the person's word that the *)
(* application was sent (supervisor.py, browser.py, queue.py).             *)
(*                                                                         *)
(* The website, the person, other tasks' promotions of the profile, the    *)
(* clock of the lease and restarts of the service move in between.         *)
(***************************************************************************)
EXTENDS FormRun

VARIABLES
  review,    \* review_cache: the certificate of the cached row, or none
  handler,   \* the one request of the local interface that is in flight
  submitted, \* the draft the person submitted on the website, or none
  level      \* how the submission was recorded: "none", "user" or "server"

desk == <<review, handler, submitted, level>>
vars == <<live, durable, binding, site, w, mishaps, ghosts, desk>>

NoHandler == [pc |-> "none", paired |-> FALSE, moved |-> FALSE, expects |-> 0, proof |-> FALSE]

Init ==
  /\ FormInit
  /\ review = NoCertificate /\ handler = NoHandler
  /\ submitted = NoDraft /\ level = "none"

RunnerStep == Runner /\ UNCHANGED desk

Cached == review # NoCertificate /\ review.profile = profile.version
Empty == review' = NoCertificate
Unpaired == handler' = [handler EXCEPT !.paired = FALSE]

\* _remember_private_review() of a READY run, of the task's revision at that
\* moment; any other run discards what was cached.
Remember ==
  /\ At("remember")
  /\ w' = Resting
  /\ IF w.verdict[1] = "READY_TO_SUBMIT" /\ w.certificate.profile = profile.version
     THEN /\ review' = w.certificate
          /\ current' = current \cup {"cache"}
          /\ handler' = [handler EXCEPT !.paired = "handler" \in current]
     ELSE Empty /\ Unpaired /\ current' = current \ {"cache"}
  /\ UNCHANGED <<given, task, run, action, manifest, certified, binding, site, ghosts, mishaps, submitted, level>>

-----------------------------------------------------------------------------
(* What else happens to the task.                                          *)

Elsewhere == UNCHANGED <<live, run, action, manifest, binding, site, w, ghosts, desk>>
Mishap == mishaps < MaxMishaps /\ mishaps' = mishaps + 1

\* renew() comes too late; no event, the revision stays.
LeaseExpires ==
  /\ task.leased /\ Mishap
  /\ task' = [task EXCEPT !.leased = FALSE]
  /\ UNCHANGED <<current, certified, profile, known>> /\ Elsewhere

\* pause() and cancel()
Stop ==
  /\ Mishap
  /\ \/ /\ task.stage \in {"DISCOVERED", "NEEDS_USER_INPUT"}
        /\ task' = [stage |-> "BLOCKED", blocker |-> "user_paused", leased |-> FALSE]
     \/ /\ task.stage # "SUBMITTED"
        /\ task' = [stage |-> "CANCELLED", blocker |-> "none", leased |-> FALSE]
  /\ current' = {}
  /\ UNCHANGED <<certified, profile, known>> /\ Elsewhere

\* begin_profile_write() of another task; the file is replaced later.
BeginProfileWrite ==
  /\ ~profile.barred /\ Mishap
  /\ profile' = [profile EXCEPT !.barred = TRUE]
  /\ IF task.stage \in {"SUBMITTED", "CANCELLED"} THEN UNCHANGED <<task, current>>
     ELSE /\ task' = [stage |-> "BLOCKED", blocker |-> "profile_changed", leased |-> FALSE]
          /\ current' = {}
  /\ UNCHANGED <<certified, known>> /\ Elsewhere

ProfileWritten ==
  /\ profile.barred
  /\ profile' \in {[version |-> profile.version + 1, barred |-> FALSE],
                   [profile EXCEPT !.barred = FALSE]}
  /\ UNCHANGED <<task, current, certified, known, mishaps>> /\ Elsewhere

\* resume() by the person, after the blocker that asks for a reconciliation
\* and the unsettled run were excluded; and the answer to an open question.
Resume ==
  /\ ~task.leased /\ Unsettled = {}
  /\ \/ task.stage = "BLOCKED" /\ task.blocker \notin RECONCILIATION_REQUIRED
     \/ task.stage = "NEEDS_USER_INPUT"
  /\ task' = [stage |-> "DISCOVERED", blocker |-> "none", leased |-> FALSE]
  /\ known' = IF task.stage = "NEEDS_USER_INPUT" THEN Field ELSE known
  /\ current' = {}
  /\ UNCHANGED <<certified, profile, mishaps>> /\ Elsewhere

\* The service dies and starts again: what was in memory is lost, and the
\* lease with it.
Restart ==
  /\ w.pc # "idle" \/ review # NoCertificate \/ handler # NoHandler
  /\ Mishap
  /\ w' = Resting /\ review' = NoCertificate /\ handler' = NoHandler
  /\ task' = [task EXCEPT !.leased = FALSE]
  /\ current' = current \cap {"user"}
  /\ UNCHANGED <<given, run, action, manifest, certified, binding, site, ghosts, submitted, level>>

-----------------------------------------------------------------------------
(* The website and the person at it.                                       *)

Moves == handler' = [handler EXCEPT !.moved = handler.pc # "none"]
Site == UNCHANGED <<live, durable, binding, w, ghosts, review, submitted, level>>

\* Autosave: what the page shows goes into the draft.
SiteSaves ==
  /\ draft.rev < MaxRevision
  /\ draft' = [draft EXCEPT !.rev = @ + 1,
                            !.value = [f \in Field |-> IF dom[f] = "hidden" THEN draft.value[f] ELSE dom[f]]]
  /\ draft'.value # draft.value
  /\ Moves /\ Site /\ UNCHANGED <<tab, dom, mishaps>>

\* The site rewrites a field of the draft, or starts another draft.
DraftChanges ==
  /\ Mishap
  /\ \/ /\ draft.rev < MaxRevision
        /\ \E f \in Field, v \in Value : v # draft.value[f] /\
             draft' = [draft EXCEPT !.rev = @ + 1, !.value[f] = v]
     \/ draft.id = 1 /\ draft' = [draft EXCEPT !.id = 2]
  /\ Moves /\ Site /\ UNCHANGED <<tab, dom>>

\* The page rewrites, hides or shows a control; it is loaded again; the person
\* edits it, or Chrome is replaced by another process.
PageChanges ==
  /\ Mishap
  /\ \/ /\ \E f \in FieldsOf(tab.page), v \in Value \cup {"hidden"} : v # dom[f] /\
             dom' = [dom EXCEPT ![f] = v]
        /\ UNCHANGED tab
     \/ tab' = [tab EXCEPT !.document = @ + 1] /\ dom' = Loaded(tab.page, draft)
     \/ live /\ tab.ours /\ tab' = [tab EXCEPT !.ours = FALSE] /\ UNCHANGED dom
  /\ tab.document # 0
  /\ Moves /\ Site /\ UNCHANGED draft

\* The person's own click on the website's final control.
Submit ==
  /\ live /\ task.stage = "READY_TO_SUBMIT" /\ submitted = NoDraft
  /\ submitted' = DraftId
  /\ tab' = [tab EXCEPT !.document = @ + 1]
  /\ handler' = [handler EXCEPT !.moved = handler.pc # "none"]
  /\ UNCHANGED <<live, durable, binding, w, dom, draft, ghosts, mishaps, review, level>>

-----------------------------------------------------------------------------
(* The handlers, in the steps between which the state can change.          *)

HandlerStep == UNCHANGED <<live, task, run, action, manifest, profile, certified, known,
                           binding, site, w, mishaps, ghosts, submitted>>
Idle(pc) == handler.pc = pc
To(pc) == handler' = [handler EXCEPT !.pc = pc]
Close == handler' = NoHandler
AtBoundary == task.stage = "READY_TO_SUBMIT" /\ ~task.leased

\* The person looks at the task: the page remembers its revision.
Look ==
  /\ AtBoundary /\ "user" \notin current
  /\ current' = current \cup {"user"}
  /\ HandlerStep /\ UNCHANGED <<review, handler, level>>

\* review_values(): the task is read.
OpenReview ==
  /\ Idle("none") /\ AtBoundary
  /\ handler' = [NoHandler EXCEPT !.pc = IF live THEN "document" ELSE "private",
                                  !.paired = "cache" \in current]
  /\ current' = current \cup {"handler"}
  /\ HandlerStep /\ UNCHANGED <<review, level>>

Forget == current' = current \ {"handler"}
Discard == Empty /\ Close /\ current' = current \ {"handler", "cache"}
BoundDocument == tab.ours /\ binding # 0 /\ tab.document = binding

\* observe_bound_draft()
SeeDocument ==
  /\ Idle("document")
  /\ IF BoundDocument THEN To("lookup") /\ UNCHANGED <<review, current>> ELSE Discard
  /\ HandlerStep /\ UNCHANGED level

\* recheck_private_review(): the row of that revision and of this profile.
LookUp ==
  /\ Idle("lookup")
  /\ IF handler.paired /\ Cached THEN To("readback") /\ UNCHANGED <<review, current>> ELSE Discard
  /\ HandlerStep /\ UNCHANGED level

\* observe_bound_review() and recheck_review()
ReadDraft ==
  /\ Idle("readback")
  /\ IF BoundDocument /\ Unmoved(review) THEN To("publish") /\ UNCHANGED <<review, current>>
     ELSE Discard
  /\ HandlerStep /\ UNCHANGED level

\* The values go out only of the row that was rechecked, still as it was.
Show ==
  /\ Idle("publish") \/ Idle("private")
  /\ IF handler.paired /\ Cached
     THEN /\ To("shown") /\ UNCHANGED review
     ELSE Close /\ Empty
  /\ Forget
  /\ HandlerStep /\ UNCHANGED level

Reply ==
  /\ Idle("shown") /\ Close
  /\ HandlerStep /\ UNCHANGED <<review, current, level>>

\* confirm_human_submission(): the private review must still be there.
BeginConfirm ==
  /\ Idle("none") /\ "cache" \in current /\ Cached
  /\ handler' = [NoHandler EXCEPT !.pc = "observe"]
  /\ HandlerStep /\ UNCHANGED <<review, current, level>>

\* private_review_expectations(): the draft of the row, if it is current.
Expectations == IF "cache" \in current /\ Cached THEN review.id ELSE 0

\* observe_submission(): the page, then the cached draft's expectations.
ObserveSubmission ==
  /\ Idle("observe")
  /\ IF AtBoundary
     THEN handler' = [handler EXCEPT !.pc = "receipt",
                        !.expects = Expectations]
     ELSE Close
  /\ HandlerStep /\ UNCHANGED <<review, current, level>>

\* Mutant: a receipt of any draft is taken for this one.
AnyReceipt == submitted # NoDraft

\* observe_bound_submission_receipt(): of the same tab and the same draft.
Receipt == submitted.id = handler.expects

ReadReceipt ==
  /\ Idle("receipt")
  /\ handler' = [handler EXCEPT !.pc = "record",
                   !.proof = live /\ tab.ours /\ handler.expects # 0 /\ Receipt]
  /\ HandlerStep /\ UNCHANGED <<review, current, level>>

\* The transaction, under the revision the person's page had.
Record ==
  /\ Idle("record")
  /\ IF AtBoundary /\ "user" \in current
     THEN /\ task' = [stage |-> "SUBMITTED", blocker |-> "none", leased |-> FALSE]
          /\ level' = IF handler.proof THEN "server" ELSE "user"
          /\ current' = {} /\ Empty
     ELSE UNCHANGED <<task, level, current, review>>
  /\ Close
  /\ UNCHANGED <<given, run, action, manifest, certified, binding, site, w, mishaps, ghosts, submitted>>

-----------------------------------------------------------------------------

Task == LeaseExpires \/ Stop \/ BeginProfileWrite \/ ProfileWritten \/ Resume \/ Restart
Website == SiteSaves \/ DraftChanges \/ PageChanges \/ Submit
Handlers ==
  \/ Look \/ OpenReview \/ SeeDocument \/ LookUp \/ ReadDraft \/ Show \/ Reply
  \/ BeginConfirm \/ ObserveSubmission \/ ReadReceipt \/ Record

Next == RunnerStep \/ Remember \/ Task \/ Website \/ Handlers

Spec == Init /\ [][Next]_vars

-----------------------------------------------------------------------------

\* What the records hold.
Stage == {"none", "DISCOVERED", "NEEDS_USER_INPUT", "BLOCKED", "READY_TO_SUBMIT", "SUBMITTED", "CANCELLED"}
Blocker == RECONCILIATION_REQUIRED \cup {"none", "user_paused", "profile_changed", "unknown_facts", "validation", "lost"}
Revision == [id : Nat, rev : Nat]
Review == [id : Nat, rev : Nat, profile : Nat, document : Nat]
Memory ==
  [pc : {"idle", "claimed", "open", "observe", "apply", "check", "write", "readback", "filled", "validate", "advance",
         "certify", "recheck", "report", "finish", "remember", "raised", "blocking"},
   page : DOMAIN Form, document : Nat, todo : SUBSET Field, retained : SUBSET Field, planned : SUBSET Field,
   asked : SUBSET Field, failed : BOOLEAN, file : Revision, certificate : Review, verdict : Stage \X Blocker]
Request ==
  [pc : {"none", "document", "private", "lookup", "readback", "publish", "shown", "observe", "receipt", "record"},
   paired : BOOLEAN, moved : BOOLEAN, expects : Nat, proof : BOOLEAN]

\* The state of the run, of the task and of the handlers stays well formed, and
\* a task that waits for the person, or is done, is not leased.
DurableOK ==
  /\ task \in [stage : Stage \ {"none"}, blocker : Blocker, leased : BOOLEAN]
  /\ task.stage \in {"READY_TO_SUBMIT", "SUBMITTED", "CANCELLED"} => ~task.leased
  /\ current \subseteq {"cache", "user", "handler"}
  /\ run \in [Run -> {"none", "ATTEMPTED", "RETURNED", "UNKNOWN"}]
  /\ action \in [Run -> [Field -> {"none", "ATTEMPTED", "READBACK", "UNKNOWN"}]]
  /\ manifest \in Revision /\ certified \in Review /\ known \subseteq Field
  /\ profile \in [version : Nat, barred : BOOLEAN]
SiteOK ==
  /\ tab \in [page : DOMAIN Form, document : Nat, ours : BOOLEAN] /\ binding \in Nat
  /\ dom \in [Field -> Value \cup {"hidden"}]
  /\ draft \in [id : 1..2, rev : Nat, value : [Field -> Value]]
  /\ mishaps \in 0..MaxMishaps /\ writes \in [Field -> Nat] /\ stray \subseteq Run
MemoryOK ==
  /\ live \in BOOLEAN /\ w \in Memory /\ w.retained \cup w.todo \subseteq w.planned
  /\ review \in Review /\ handler \in Request /\ submitted \in Revision /\ level \in {"none", "user", "server"}
TypeOK == DurableOK /\ SiteOK /\ MemoryOK

\* After a write whose effect is not known - it raised, or it reached another
\* document than the one the task owns - nothing is written any more, by this
\* run or by a later one; and in the applicant's Chrome no field is ever
\* written a second time (the replay fence of run_attempts and field_actions).
NoWriteAfterDoubt ==
  [][\A f \in Field : writes'[f] > writes[f] => stray = {} /\ (live => writes[f] = 0)]_vars

\* A run that is recorded as RETURNED_UNVERIFIED, and so lets the task be
\* resumed, has read back every field it wrote, and no write of it is in doubt
\* (finish_run_attempt and require_field_action_readbacks).
ReturnedIsObserved ==
  \A r \in Run : run[r] = "RETURNED" =>
    /\ r \notin stray
    /\ \A f \in Field : action[r][f] \in {"none", "READBACK"}

\* Every question that the form asks has the profile's answer in the draft.
Complete ==
  \A f \in Field : draft.value[f] = "right" \/ (f \in Child /\ draft.value[f] = "empty")

\* A task that waits for the person's click was certified for the profile as it
\* is and for a draft in which every field, those a choice revealed included,
\* has the value of that profile; only a later change of the draft, which
\* gives it another revision or another identity, can make that untrue
\* (certify_review and recheck_review before READY_TO_SUBMIT).
ReadyIsTheDraft ==
  task.stage = "READY_TO_SUBMIT" =>
    /\ certified.profile = profile.version
    /\ certified.id = draft.id =>
         /\ draft.rev >= certified.rev
         /\ draft.rev = certified.rev => Complete

\* In the applicant's Chrome the values that are shown are those of the draft
\* as it was during the request, and the document is the one that was
\* certified: a draft, page or process that moved since the certificate shows
\* nothing (review_values and recheck_private_review).
HumanSeesTheDraft ==
  live /\ handler.pc = "shown" /\ ~handler.moved =>
    /\ tab.ours /\ review.id = draft.id /\ review.rev = draft.rev
    /\ tab.document = review.document /\ Complete

\* A submission is recorded as server-verified only when the person submitted
\* the certified draft and no other (observe_submission and
\* confirm_human_submission).
VerifiedIsTheReviewed ==
  level = "server" => submitted.id = certified.id

\* As the person sees it: who has the form, and what is offered to be sent.
Phase ==
  IF task.leased THEN "filling"
  ELSE CASE task.stage = "READY_TO_SUBMIT" -> "offered"
         [] task.stage = "SUBMITTED" -> "sent"
         [] task.stage = "CANCELLED" -> "cancelled"
         [] OTHER -> "resting"
Offered == IF task.stage \in {"READY_TO_SUBMIT", "SUBMITTED"} THEN certified ELSE NoCertificate
DraftSeen == [id |-> draft.id, rev |-> draft.rev, complete |-> Complete]
Promise == INSTANCE HumanReview WITH
  phase <- Phase, armed <- At("write"), doubt <- stray # {}, profile <- profile.version,
  draft <- DraftSeen, offer <- Offered, posted <- submitted.id
ImplementsHumanReview == Promise!Spec

=============================================================================
