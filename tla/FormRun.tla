------------------------------- MODULE FormRun -------------------------------
(***************************************************************************)
(* One task fills in a website's form: the run of the application engine   *)
(* (application.py), the adapter's batches of field writes                 *)
(* (adapters/generic_web.py), the journal of these writes and of the run   *)
(* (autonomy/queue.py), and the worker around them (autonomy/worker.py).   *)
(*                                                                         *)
(* The form is a sequence of pages, a page a sequence of fields.  A field  *)
(* shows the value the profile asks for, another one, or none; a child is  *)
(* hidden until a field of its page is written.  The server keeps a draft  *)
(* with a revision of its own; a certified site driver, which the engine   *)
(* asks, uploads the file and reads the draft back truthfully.  The page   *)
(* may do anything to a field at any time.  The authentication on the way  *)
(* to the form is in OtpAuth, the rows in RowJournal, the queue in         *)
(* TaskQueue.                                                              *)
(***************************************************************************)
EXTENDS Naturals, Sequences, FiniteSets

CONSTANTS Form,        \* the pages, each a sequence of fields
          Child,       \* the fields that another one reveals
          File,        \* the field that takes the resume
          Open,        \* the fields the profile may have no answer for
          MaxRuns,     \* bound: runs of the task
          MaxRevision, \* bound: revisions of the draft
          MaxMishaps   \* bound: what goes wrong in the environment

FieldsOf(p) == {Form[p][i] : i \in DOMAIN Form[p]}
Field == UNION {FieldsOf(p) : p \in DOMAIN Form}
Run == 1..MaxRuns
Value == {"empty", "right", "wrong"}

ASSUME FormAssumption ==
  /\ Form \in Seq(Seq(Field)) /\ Form # <<>> /\ \A p \in DOMAIN Form : Form[p] # <<>>
  /\ \A p, q \in DOMAIN Form : p # q => FieldsOf(p) \cap FieldsOf(q) = {}
  /\ \A p \in DOMAIN Form : Form[p][1] \notin Child
  /\ Child \cup Open \cup {File} \subseteq Field /\ File \notin Child \cup Open
  /\ MaxRuns \in Nat \ {0} /\ MaxRevision \in Nat /\ MaxMishaps \in Nat

VARIABLES
  live,      \* the applicant's own Chrome, or an isolated browser of a test?
  task,      \* stage, blocker and lease
  current,   \* who remembers the task's revision as it is now
  run,       \* run_attempts
  action,    \* field_actions
  manifest,  \* the attachment manifest: the draft it belongs to
  profile,   \* the version of the profile file, and is it being written?
  certified, \* details: the certificate of the last READY checkpoint
  known,     \* fields the profile and the answers have a value for
  tab,       \* the page the browser shows, its document, and is it still ours?
  binding,   \* browser_bindings: the recorded document
  dom,       \* what the controls of the page show
  draft,     \* the server's draft
  w,         \* what the runner has in memory
  mishaps,
  writes,    \* how often a field was written
  stray      \* runs of which a write failed, or hit another document

durable == <<task, current, run, action, manifest, profile, certified, known>>
site == <<tab, dom, draft>>
ghosts == <<writes, stray>>
given == <<live, known, profile>>

NoDraft == [id |-> 0, rev |-> 0]
NoCertificate == [id |-> 0, rev |-> 0, profile |-> 0, document |-> 0]
Resting ==
  [pc |-> "idle", page |-> 1, document |-> 0, todo |-> {}, retained |-> {},
   planned |-> {}, asked |-> {}, failed |-> FALSE, file |-> NoDraft,
   certificate |-> NoCertificate, verdict |-> <<"none", "none">>]

\* The document that is loaded for a page shows what the draft holds.
Loaded(p, d) ==
  [f \in Field |-> IF f \notin FieldsOf(p) \/ (f \in Child /\ d.value[f] = "empty")
                   THEN "hidden" ELSE d.value[f]]

EmptyDraft == [id |-> 1, rev |-> 1, value |-> [f \in Field |-> "empty"]]

FormInit ==
  /\ live \in BOOLEAN
  /\ task = [stage |-> "DISCOVERED", blocker |-> "none", leased |-> FALSE]
  /\ current = {}
  /\ run = [r \in Run |-> "none"]
  /\ action = [r \in Run |-> [f \in Field |-> "none"]]
  /\ manifest = NoDraft /\ certified = NoCertificate
  /\ profile = [version |-> 1, barred |-> FALSE]
  /\ known \in {Field, Field \ Open}
  /\ tab = [page |-> 1, document |-> 0, ours |-> TRUE]
  /\ binding = 0
  /\ dom = [f \in Field |-> "hidden"]
  /\ draft = EmptyDraft
  /\ w = Resting
  /\ mishaps = 0
  /\ writes = [f \in Field |-> 0] /\ stray = {}

-----------------------------------------------------------------------------
(* The queue.                                                              *)

Started == {r \in Run : run[r] # "none"}
This == Cardinality(Started)
Unsettled == {r \in Run : run[r] \in {"ATTEMPTED", "UNKNOWN"}}
Runnable == task.stage = "DISCOVERED" /\ ~task.leased

RECONCILIATION_REQUIRED ==
  {"browser_ownership_unknown", "unknown_outcome", "draft_persistence_unverified",
   "attachment_persistence_unverified", "form_observation_unavailable"}

\* Mutant: the last checkpoint of a run does not give the lease back.
CheckpointHolding(stage, blocker, release) ==
  /\ task.leased
  /\ task' = [stage |-> stage, blocker |-> blocker, leased |-> TRUE]
  /\ current' = {}

\* checkpoint(), refused without the lease; every event makes a new revision.
Checkpoint(stage, blocker, release) ==
  /\ task.leased
  /\ task' = [stage |-> stage, blocker |-> blocker, leased |-> ~release]
  /\ current' = {}

\* claim(): an unsettled run turns the task away, for good.
Claim ==
  /\ w.pc = "idle" /\ Runnable /\ ~profile.barred
  /\ current' = {}
  /\ IF Unsettled # {}
     THEN /\ task' = [stage |-> "BLOCKED", blocker |-> "unknown_outcome", leased |-> FALSE]
          /\ run' = [r \in Run |-> IF r \in Unsettled THEN "UNKNOWN" ELSE run[r]]
          /\ UNCHANGED w
     ELSE /\ task' = [task EXCEPT !.leased = TRUE]
          /\ w' = [Resting EXCEPT !.pc = "claimed"]
          /\ UNCHANGED run
  /\ UNCHANGED <<given, action, manifest, certified, binding, site, ghosts, mishaps>>

\* Mutant: the earlier runs of a live task are not looked at.
GateOpen == TRUE

\* In the applicant's Chrome a task is run once; the only continuation, a code
\* on the page of the SMS request, comes before any form.
Gate == live => Started = {}

\* The gate of run_once(), then begin_run_attempt().
BeginAttempt ==
  /\ w.pc = "claimed"
  /\ CASE ~task.leased \/ This = MaxRuns -> w' = Resting /\ UNCHANGED <<task, current, run>>
       [] task.leased /\ This # MaxRuns /\ ~Gate ->
            /\ Checkpoint("BLOCKED", "browser_ownership_unknown", TRUE)
            /\ w' = Resting /\ UNCHANGED run
       [] OTHER ->
            /\ run' = [run EXCEPT ![This + 1] = "ATTEMPTED"]
            /\ w' = [w EXCEPT !.pc = "open"] /\ UNCHANGED <<task, current>>
  /\ UNCHANGED <<given, action, manifest, certified, binding, site, ghosts, mishaps>>

-----------------------------------------------------------------------------
(* Steps of the run.                                                       *)

\* guard(): the lease, and the process the run began with.
Guard == task.leased /\ (live => tab.ours)

\* verify_document(), which an isolated browser has no binding for.
verify_document == live => tab.document = binding

At(pc) == w.pc = pc
Goto(pc) == w' = [w EXCEPT !.pc = pc]

\* Every exception of a step leads here; what it was decides the blocker.
Raise(why) == w' = [w EXCEPT !.pc = "raised", !.verdict = <<"BLOCKED", why>>]
Unowned == Raise(IF task.leased THEN "browser_ownership_unknown" ELSE "lost")

\* outcome(): an open question wins over the general blocker.
Verdict(reason, asked) ==
  IF reason = "validation" /\ asked # {} THEN <<"NEEDS_USER_INPUT", "unknown_facts">>
  ELSE <<"BLOCKED", reason>>

\* save_plan() of a plan that is BLOCKED keeps the lease until the report.
Refuse(reason, memory) ==
  LET v == Verdict(reason, memory.asked)
  IN IF task.leased
     THEN /\ Checkpoint(v[1], v[2], FALSE)
          /\ w' = [memory EXCEPT !.pc = "report", !.verdict = v]
     ELSE Raise("lost") /\ UNCHANGED <<task, current>>

\* bind_browser_page() and record_browser_document()
RecordDocument == binding' = IF live THEN tab'.document ELSE 0

\* connect(): a tab of our own; a resumed plan goes to the page it was at.
OpenPage ==
  /\ At("open")
  /\ IF ~Guard THEN Unowned /\ UNCHANGED <<tab, dom, binding>>
     ELSE \E p \in 1..tab.page :
            /\ tab' = [tab EXCEPT !.page = p, !.document = @ + 1]
            /\ dom' = Loaded(p, draft)
            /\ RecordDocument
            /\ w' = [w EXCEPT !.pc = "observe", !.page = p, !.file = manifest]
  /\ UNCHANGED <<live, durable, draft, ghosts, mishaps>>

Visible == {f \in FieldsOf(w.page) : dom[f] # "hidden"}

\* FillPlan.bind() and _resolve_page() of the fields that came into view; a
\* batch writes those that have a value, in the order of the page.
Planned(memory, new) ==
  [memory EXCEPT !.pc = "apply", !.document = tab.document, !.retained = {},
                 !.planned = @ \cup new, !.asked = @ \cup (new \ known),
                 !.todo = new \cap known]

\* observe_form() may fail, or find a form it does not support; a page that
\* took a file in an earlier run is left to a person.
Observe ==
  /\ At("observe")
  /\ IF ~Guard THEN Unowned /\ UNCHANGED <<task, current>>
     ELSE \/ Refuse("form_observation_unavailable", w)
          \/ Refuse("validation", w)
          \/ /\ File \in Visible /\ w.file # NoDraft
             /\ Refuse("attachment_persistence_unverified", w)
          \/ /\ ~(File \in Visible /\ w.file # NoDraft)
             /\ w' = Planned(w, Visible) /\ UNCHANGED <<task, current>>
  /\ UNCHANGED <<given, run, action, manifest, certified, binding, site, ghosts, mishaps>>

Same == tab.document = w.document

\* verify_retained(): the readbacks of this batch still hold, in this document.
Kept == w.retained = {} \/ (Same /\ \A g \in w.retained : dom[g] = "right")

\* invalidate_field_readbacks() needs the lease; without it the exception of
\* the call leaves the journal as it is.
Invalidated ==
  IF task.leased /\ w.retained # {}
  THEN [action EXCEPT ![This] = [f \in Field |->
          IF action[This][f] = "READBACK" THEN "UNKNOWN" ELSE action[This][f]]]
  ELSE action

Doubt == Unowned /\ action' = Invalidated

\* The control of the batch that comes next on the page.
Front ==
  LET left == {i \in DOMAIN Form[w.page] : Form[w.page][i] \in w.todo}
  IN Form[w.page][CHOOSE i \in left : \A j \in left : i <= j]

\* One field of a batch: what is not there to be written fails without an
\* intent; begin_field_action() commits the intent of any other.
BeginField ==
  /\ At("apply") /\ w.todo # {}
  /\ LET f == Front
     IN CASE ~Guard \/ ~verify_document -> Unowned /\ UNCHANGED action
          [] Guard /\ verify_document /\ Kept /\ dom[f] = "hidden" ->
               /\ w' = [w EXCEPT !.todo = @ \ {f}, !.failed = TRUE]
               /\ UNCHANGED action
          [] OTHER ->
               IF Kept /\ Same /\ \A g \in Field : action[This][g] \notin {"ATTEMPTED", "UNKNOWN"}
               THEN action' = [action EXCEPT ![This][f] = "ATTEMPTED"] /\ Goto("check")
               ELSE Doubt
  /\ UNCHANGED <<given, task, current, run, manifest, certified, binding, site, ghosts, mishaps>>

\* What an exception after the intent leaves in the journal.
UnknownField(f) ==
  action' = IF w.retained # {} /\ ~task.leased THEN action
            ELSE [Invalidated EXCEPT ![This][f] = "UNKNOWN"]

\* The guard and the contract of the control, once more before the primitive.
CheckField ==
  /\ At("check")
  /\ LET f == Front
     IN IF Guard /\ verify_document /\ Same /\ dom[f] # "hidden"
        THEN Goto(IF dom[f] = "right" THEN "readback" ELSE "write") /\ UNCHANGED action
        ELSE Unowned /\ UnknownField(f)
  /\ UNCHANGED <<given, task, current, run, manifest, certified, binding, site, ghosts, mishaps>>

Revealed(d) ==
  [f \in Field |-> IF f \in Child \cap FieldsOf(tab.page) /\ d[f] = "hidden" THEN "empty" ELSE d[f]]

\* What a primitive may do to the page: its field takes the value or another
\* one, what depends on it appears, and the page may rewrite a second field.
Effects(f) ==
  {dom} \cup
  {Revealed([dom EXCEPT ![f] = v]) : v \in {"right", "wrong"}} \cup
  {Revealed([dom EXCEPT ![f] = "right", ![g] = "wrong"]) : g \in w.retained}

\* The primitive: fill(), click() or a choice in a list; it may raise with or
\* without an effect.  A resume goes to the server at once.
Write ==
  /\ At("write")
  /\ LET f == Front
     IN /\ dom' \in IF dom[f] = "hidden" THEN {dom} ELSE Effects(f)
        /\ writes' = [writes EXCEPT ![f] = @ + 1]
        /\ draft' = IF f = File /\ dom'[f] = "right" /\ dom[f] # "right" /\ draft.rev < MaxRevision
                    THEN [draft EXCEPT !.rev = @ + 1, !.value[f] = "right"] ELSE draft
        /\ \/ /\ Goto("readback")
              /\ stray' = IF live /\ ~Same THEN stray \cup {This} ELSE stray
              /\ UNCHANGED action
           \/ /\ Unowned /\ UnknownField(f)
              /\ stray' = stray \cup {This}
  /\ UNCHANGED <<given, task, current, run, manifest, certified, binding, tab, mishaps>>

ReadBack ==
  /\ At("readback")
  /\ LET f == Front
     IN IF Guard /\ verify_document /\ dom[f] = "right" /\ Kept
        THEN /\ action' = [action EXCEPT ![This][f] = "READBACK"]
             /\ w' = [w EXCEPT !.pc = "apply", !.todo = @ \ {f}, !.retained = @ \cup {f}]
        ELSE Unowned /\ UnknownField(f)
  /\ UNCHANGED <<given, task, current, run, manifest, certified, binding, site, ghosts, mishaps>>

\* The end of a batch: what it wrote is read once more, then a control that
\* was revealed gets a batch of its own.
EndBatch ==
  /\ At("apply") /\ w.todo = {}
  /\ IF w.retained # {} /\ ~(Guard /\ verify_document /\ Kept)
     THEN Doubt /\ UNCHANGED <<task, current>>
     ELSE /\ IF w.failed THEN Refuse("validation", w)
             ELSE /\ w' = LET new == Visible \ w.planned
                          IN IF new = {} THEN [w EXCEPT !.pc = "filled"] ELSE Planned(w, new)
                  /\ UNCHANGED <<task, current>>
          /\ UNCHANGED action
  /\ UNCHANGED <<given, run, manifest, certified, binding, site, ghosts, mishaps>>

-----------------------------------------------------------------------------
(* What the site driver reads from the server.                             *)

DraftId == [id |-> draft.id, rev |-> draft.rev]
SameDraft(d) == d = NoDraft \/ (d.id = draft.id /\ d.rev <= draft.rev)
Retained(f) == draft.value[f] = "right"

\* verify_attachment_readback() after an upload on this page, and the manifest.
Attach ==
  /\ At("filled")
  /\ CASE File \notin Visible \cap known ->
            Goto("validate") /\ UNCHANGED <<task, current, manifest>>
       [] File \in Visible \cap known /\ ~(Retained(File) /\ SameDraft(w.file)) ->
            Refuse("attachment_persistence_unverified", w) /\ UNCHANGED manifest
       [] OTHER ->
            /\ IF Guard
               THEN /\ manifest' = DraftId
                    /\ w' = [w EXCEPT !.pc = "validate", !.file = DraftId]
               ELSE Unowned /\ UNCHANGED manifest
            /\ UNCHANGED <<task, current>>
  /\ UNCHANGED <<given, run, action, certified, binding, site, ghosts, mishaps>>

\* _blocking_unresolved() and validate(): every control in view is one the
\* plan knows, and shows the planned value.
Valid ==
  /\ w.asked = {} /\ Visible = w.planned \cap FieldsOf(w.page)
  /\ \A f \in Visible : dom[f] = "right"

\* verify_draft_persistence(): the page, as it is, is in the draft.
Persisted == SameDraft(w.file) /\ \A f \in Visible : draft.value[f] = dom[f]

\* Before READY the file is read back again: a later page may discard it.
LastPage == w.page = Len(Form)
FileLost == LastPage /\ w.file # NoDraft /\ ~(Retained(File) /\ w.file.id = draft.id)

Validate ==
  /\ At("validate")
  /\ IF Valid /\ ~FileLost /\ Persisted
     THEN /\ Goto(IF LastPage THEN "certify" ELSE "advance")
          /\ UNCHANGED <<task, current>>
     ELSE Refuse(IF ~Valid THEN "validation"
                 ELSE IF FileLost THEN "attachment_persistence_unverified"
                 ELSE "draft_persistence_unverified", w)
  /\ UNCHANGED <<given, run, action, manifest, certified, binding, site, ghosts, mishaps>>

\* advance() with the fresh receipt; the new document is recorded.
Advance ==
  /\ At("advance")
  /\ IF ~Guard \/ ~verify_document THEN Unowned /\ UNCHANGED <<tab, dom, binding>>
     ELSE /\ tab' = [tab EXCEPT !.page = w.page + 1, !.document = @ + 1]
          /\ dom' = Loaded(w.page + 1, draft)
          /\ RecordDocument
          /\ w' = [w EXCEPT !.pc = "observe", !.page = @ + 1]
  /\ UNCHANGED <<live, durable, draft, ghosts, mishaps>>

Certificate ==
  [id |-> draft.id, rev |-> draft.rev, profile |-> profile.version, document |-> tab.document]

\* Mutant: only the fields that the plan knows are looked for in the draft.
InventoryOfPlan == w.planned

\* The fields of the draft that a form as the page has it now asks for.
Inventory == {f \in Field : f \in Child => draft.value[f] # "empty"}

\* certify_review(): the whole inventory of the server against the whole plan.
Certifiable ==
  /\ w.asked = {} /\ w.planned = Inventory
  /\ SameDraft(w.file) /\ \A f \in Inventory : Retained(f)

Certify ==
  /\ At("certify")
  /\ IF Certifiable
     THEN /\ w' = [w EXCEPT !.pc = "recheck", !.certificate = Certificate]
          /\ UNCHANGED <<task, current>>
     ELSE Refuse("validation", w)
  /\ UNCHANGED <<given, run, action, manifest, certified, binding, site, ghosts, mishaps>>

\* Mutant: the second observation is compared with the profile alone.
SameProfile(c) == c.profile = profile.version

\* recheck_review(): nothing that the certificate rests on has moved.
Unmoved(c) == c = Certificate /\ \A f \in Inventory : Retained(f)

\* The second observation, just before the plan is READY.
Recheck ==
  /\ At("recheck")
  /\ IF Unmoved(w.certificate)
     THEN /\ IF task.leased
             THEN w' = [w EXCEPT !.pc = "report", !.verdict = <<"READY_TO_SUBMIT", "none">>]
             ELSE Raise("lost")
          /\ UNCHANGED <<task, current>>
     ELSE Refuse("validation", w)
  /\ UNCHANGED <<given, run, action, manifest, certified, binding, site, ghosts, mishaps>>

-----------------------------------------------------------------------------
(* The end of a run: the checkpoint, the run's outcome, the review cache   *)
(* (Remember, in ReviewDesk).                                              *)

\* require_field_action_readbacks(); finish_run_attempt() looks once more.
Readbacks == \A f \in Field : action[This][f] \notin {"ATTEMPTED", "UNKNOWN"}

Report ==
  /\ At("report")
  /\ IF Readbacks /\ task.leased
     THEN /\ Checkpoint(w.verdict[1], w.verdict[2], TRUE)
          /\ certified' = w.certificate
          /\ Goto("finish")
     ELSE /\ Raise(IF task.leased THEN "unknown_outcome" ELSE "lost")
          /\ UNCHANGED <<task, current, certified>>
  /\ UNCHANGED <<given, run, action, manifest, binding, site, ghosts, mishaps>>

FinishRun ==
  /\ At("finish")
  /\ IF Readbacks
     THEN run' = [run EXCEPT ![This] = "RETURNED"] /\ Goto("remember")
     ELSE Raise("unknown_outcome") /\ UNCHANGED run
  /\ UNCHANGED <<given, task, current, action, manifest, certified, binding, site, ghosts, mishaps>>

\* Mutant: a run that raised is closed like one that came back.
FailRunReturned ==
  /\ At("raised")
  /\ run' = [run EXCEPT ![This] = "RETURNED"]
  /\ Goto("blocking")
  /\ UNCHANGED <<given, task, current, action, manifest, certified, binding, site, ghosts, mishaps>>

\* The handlers of run_once(): the outcome first, then the blocker.
FailRun ==
  /\ At("raised")
  /\ run' = [run EXCEPT ![This] = "UNKNOWN"]
  /\ Goto("blocking")
  /\ UNCHANGED <<given, task, current, action, manifest, certified, binding, site, ghosts, mishaps>>

BlockTask ==
  /\ At("blocking")
  /\ w' = Resting
  /\ IF task.leased
     THEN Checkpoint("BLOCKED", IF w.verdict[2] = "lost" THEN "unknown_outcome" ELSE w.verdict[2], TRUE)
     ELSE UNCHANGED <<task, current>>
  /\ UNCHANGED <<given, run, action, manifest, certified, binding, site, ghosts, mishaps>>

Runner ==
  \/ Claim \/ BeginAttempt \/ OpenPage \/ Observe
  \/ BeginField \/ CheckField \/ Write \/ ReadBack \/ EndBatch
  \/ Attach \/ Validate \/ Advance \/ Certify \/ Recheck
  \/ Report \/ FinishRun \/ FailRun \/ BlockTask

=============================================================================
