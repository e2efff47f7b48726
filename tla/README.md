# A verification development for the Application Executor

TLA+ models of the Application Executor (`src/executor/`), TLC configurations
that check them on small instances, and TLAPS proofs of what matters most for
every size. The program fills job applications in a browser on the user's own
machine. It must never submit by itself, never repeat a write whose outcome it
does not know, never ask a site for a text message nobody consented to, and
never work from a profile that has just changed. Those promises live in a
SQLite queue, a handful of journals and several threads, and they are what is
modelled here.

Run a check with `tlc -workers 2 -config X.cfg M`, a proof with `tlapm M.tla`.
`PROJECT.json` lists components, runs, findings, hazards, theorems, and for each
definition the lines of code it stands for.

## 1. Inventory

| Component | State | Operations | Talks to | Hard part | Correct when |
|---|---|---|---|---|---|
| Task queue, `autonomy/queue.py` | `tasks.sqlite3`: tasks, events, commands, run_attempts, field_actions, browser_bindings, profile_write_barriers, preparation_approvals; the protected-target file | enqueue, retarget, claim, renew, checkpoint, begin/finish run attempt and field action, confirm, pause, resume, cancel, control, begin/finish profile write | everything | leases that expire in a worker's hands, several processes, crash between two transactions | access to a site is exclusive; no replay; human boundary; no silent change |
| Worker, `autonomy/worker.py` | the current run, lease keeper, question contexts, private review cache | run_once, user_input, late OTP watcher, promotion loop | queue, answers, broker, engine | run threads versus HTTP threads; ends of a run in several transactions | an attempt is settled exactly by what happened; caches match revisions |
| Answers and profile, `facts/answers.py`, `evidence.py` | task_answer_events, the canonical profile file | save, save_and_resume, pending_reuse, mark_reuse_applied, set_user_confirmed_field | queue (barrier) | two promoters, file and database not atomic | applied means written; newest answer wins; no stale reader |
| SMS attempts, `auth/attempts.py` | auth_attempts | begin, intent, result, external wait, resend, close, valid_wait | queue (lease, revision) | effect between two commits | one SMS per consent |
| OTP broker, `autonomy/otp.py`, `otp/` | codes and fingerprints in memory | push, consume, discard, pending, purge | attempts, queue, worker | late, duplicate and crossed codes; wake-ups | the right code, once, and noticed |
| Engine and adapter, `application.py`, `adapters/generic_web.py`, `review_certificate.py`, `forms/` | plan and browser page of a run, field journal, manifest, certificate | challenge, fill, rebind, upload, validate, certify, stop before submit | queue, broker, browser, audit | unknown effects, pages that change | READY only with a certificate of the draft as it is; no write after a doubt |
| Preparation, `preparation/*`, `autonomy/*preparation*` | approvals, marker file and receipts, three journals, private child process, offers in memory | open, issue, consume, guard, field/upload/final journal, finish, reconcile, human review, cancel | queue, a child browser, a person | context outlives its lease, child may die, cancellation between two primitives | workers excluded until the context is closed; one approval, one use; the journals are true; sent only as confirmed |
| Row journal, `forms/repeated_rows.py` | row_actions | begin, observed, settle pending | page driver | crash between intent and observation | no row twice |
| Supervisor, manager, `autonomy/supervisor.py`, `manager.py`, `commands.py` | two locks, the stop fence, the binding of future tasks, tickets, sessions | HTTP routes, chat, commands, stop | all of the above | handler threads, stale views, a slow model and a slow lookup | a late decision undoes nothing; a stop is final; new tasks bind the selected profile |
| Update state, `autonomy/updater.py` | update.lock, state file | safe_to_update, reconciled_update_state | queue, supervisor | stale state of a dead holder | no request is admitted under an update |
| Installation and first use, `autonomy/consumer.py`, `consumer_installer.py`, `first_*.py`, `state_compatibility.py`, `cli.py` | directories of releases, the fence, four lock files, keys, databases, `service.json` | first install, install, update, restore, first start, serve, stop | windows, services, other programs | crash between renames and files, foreign directories | the proved journal is the one displaced; one initialization; reports are true |
| Profile editor and import, `autonomy/profile_editor.py`, `profile_setup.py`, `settings.py` | versions of the profile, the selection in settings.json | view, save, import, reconcile | profile file, manager, promotions | a fault between file and selection, a promotion in between | no lost fact; the selection is known or fenced |
| Resolver, typed values, discovery | a run's data | text and DOM work | engine | pages | mostly data, see section 7 |

How they interact. The worker thread claims a task, runs the engine under the
lease, checkpoints, settles its attempt and looks for the next task; a keeper
thread renews the lease. HTTP handler threads of the same process change rows at
any time between two of the worker's transactions: they pause, resume, cancel,
answer questions (and promote answers), bring codes, authorise resends and
approve preparations. Other processes open the same database. Everybody meets
only in SQLite (`BEGIN IMMEDIATE`), in two files beside it, in the broker's
lock, in the supervisor's two locks, and in the profile file's lock. A private
preparation runs in a child process of its own; windows, services and
transactions of the installed application meet in lock files and renames. So an interleaving of whole transactions,
locked sections and single effects on files and pages is the right grain.

## 2. Modules

| Module | Stands for |
|---|---|
| `TaskQueue` | every transaction of the queue that changes rows, attempts, approvals, barriers or the protected registry |
| `SiteAccess` | what the queue promises to a job site; abstract, no tables, tokens or clock |
| `TaskQueueMC` | values of the constants for TLC |
| `TaskQueueReconciliation` | TaskQueue with a history variable, for the first finding |
| `TaskQueueProofs` | theorems about TaskQueue, among them that it implements SiteAccess, and its action properties |
| `ProfilePromotion`, `ProfilePromotionMC` | answers that become facts of the profile: two kinds of promoting threads, the file, the barrier, runners that read |
| `ProfilePromotionProofs` | theorems about it |
| `RowJournal`, `RowJournalMC` | repeated rows of one draft: the durable intents, processes that reconcile, calls that land late, a user in the same draft |
| `SharedDraft` | what the row journal promises to the person who shares the draft; abstract |
| `RowJournalProofs` | theorems about RowJournal, among them that it implements SharedDraft |
| `OtpAuth`, `OtpAuthMC` | SMS login of a task: attempt journal, broker, relay, worker, senders, user, clock, restart |
| `SmsLogin` | what a login promises to the person whose phone it uses; abstract |
| `OtpAuthProofs` | theorems about OtpAuth, among them that it implements SmsLogin |
| `PreparationAuthority` | the durable side of a private preparation: approval row, marker file, receipts, journals |
| `PreparationSession`, `PreparationMC` | the service's session, the child and its owner thread, the person, composed with the authority |
| `OneShotApproval` | what an approval promises to a person and to the workers; abstract |
| `PreparationProofs` | theorems about PreparationSession, among them that it implements OneShotApproval |
| `FormRun` | one run of the engine on a form: pages, batches of writes, journal, upload, certificate |
| `ReviewDesk`, `FormRunMC` | FormRun composed with the review cache, the person's views, the website, promotions and restarts, up to the confirmed submission |
| `HumanReview` | what the program promises to the person whose form it fills in; abstract |
| `FormRunProofs` | theorems about ReviewDesk, and so about FormRun under it, among them that it implements HumanReview |
| `Service` | lock files, task root, registry and the life of a service of an installed application |
| `AppTransaction` | install, update, first install and restoration, composed with Service |
| `FirstUse`, `FirstUseMC` | windows and the first start under the fence, composed with AppTransaction |
| `FirstUseProofs` | theorems about FirstUse, and so about both modules under it |
| `ControlDesk`, `ControlDeskMC` | the supervisor's requests: profile saves and imports, binding of tasks, commands, chat, stop, update fence |
| `ControlDeskProofs` | theorems about it |

**TaskQueue.** `row[t]` is the row of `tasks`: stage, checkpoint, blocker,
attempts, owner; `live` is "lease_until > now" and `due` is "next_run <= now",
the only facts the code derives from the clock, so a lease may expire and a
backoff may end at any step (`LeaseExpires`, `BackoffElapses`). `runs`,
`barrier`, `prep`, `protected` are the tables and file of those names. A
revision is modelled by who still holds it: `known[c] = t` until the next event
of `t`. One action per method; a call that raises changes nothing and is no
action. `claim()` is three actions (somebody is live, nothing claimable, a task
is claimed), each with its whole scan: the freed waits, the uncertain and the
exhausted rows it passes on its way. `Checkpoint` takes any of the reports that
the worker can produce; `FinishRunAttempt` asks for no lease, as in the code, so a
stale worker reports late. `ConfirmHumanSubmission` has the file written and the
commit possibly lost. `control()` adds no behaviour to the unfenced calls, which
the HTTP routes use as well, so only its reader side (`ReadTask`) is an action.

**ProfilePromotion.** Follows `_promote_pending_facts` step by step per thread:
collect the answers, raise the barrier, write the file, mark. `turn` is where
`run_once` is: promoting, loading the profile, beginning the attempt, working,
checkpointing, settling. A write may fail, a thread may end, the service may
restart.

**OtpAuth.** `status[t]` abstracts stage and blocker, `attempts[t]` is the table
in order of creation with a ghost count of clicks the site saw. The worker's
steps are those of a run that meets the challenge, each transaction of the
journal and each critical section of the broker separately, and the end of the
run in its three transactions. Senders push, store, look and wake in separate
steps as the code does.

**RowJournal.** The draft on the site is the sequence `history` of its
inventories, so that a revision is a position in it and the preimage that
`begin()` stores is the inventory of the entry's `before`. A process goes through
`reconcile()` (or `verify_rows_read_only()`, which takes the same first steps) one
read, transaction or call at a time: `Read`, `CheckLatest`, `ListPending`,
`Settle`, `Begin`, `Call`, `Reread`, `Observe`, `Finish`, and may `Stop` at every
point, which stands for a refusal, a lost lease and the death of the process. A
call that was sent stays in `calls` until it `Lands` or is `Lost`, with no limit on
how late; what it does to the rows (`After`) is the site's part and external. A row's id is
the revision it came with. The user may delete, change or reorder rows and put
foreign ones there (`UserEdits`).

**PreparationAuthority, PreparationSession.** The authority's operators are the
conditions of one transaction and the transactions; `Consume` has the marker file
created and the row, its commit or both lost, `ClearMarker` a rename that may fail.
The session is the service's side (`Open`, `Cancel`, the commands), the proxy of the
child, and the owner thread as a program counter `pc`: launch, native check,
discovery, the network fence, offer, consume, then per field fence, intent, write,
readback; then the three stages of the upload; then captcha, held request, dialog,
confirmation and the one forward. The thread asks the service before each step and
acts after the answer, so a cancellation falls in between. `Fail` is any refusal,
time limit or exception, and is followed by `CloseBrowser` and `Settle`; children,
browsers and the service die at any step. `version` stands for the task's revision
and its profile and resume files.

**FormRun, ReviewDesk.** `w` is what the runner has in memory, `dom` what the controls
show, `draft` what the server has. A run observes a page, writes field by field
(intent, check of the document and of the retained fields, write, readback), observes
again when a choice revealed a question, uploads, validates, turns the page, certifies
the draft and looks again before its checkpoint. ReviewDesk adds the end of the run
(`Remember`), the person who looks at the private review or confirms the submission,
and all that moves meanwhile. `current` is who still holds the task's current
revision: the review cache, the person's page, a handler. Ghosts count the writes of a
field and remember the runs with a stray one.

**Service, AppTransaction, FirstUse.** A release's directory is in one of four slots;
a bundle is a number, a later copy a higher one. Install and restoration are one
protocol over different slots (`From`, `Park`, `Reject`): guard, stage, prove health,
back up, bind the proof to the journal, move the old one, move the new one, confirm,
compensate or quarantine. `store` is how many initial objects the task root has, the key
and a count of the journal's writes. FirstUse has the windows, the fence and the strict
child that verifies its record again at every boundary. Any process may die between two
steps, any rename may fail, and a foreign directory may appear in a slot.

**ControlDesk.** `desk[c]` is where handler thread `c` is in its request and what its
user saw. `mutation` and `command` are the two locks, taken in that order. Profile versions are
on the `shelf`, a version is the set of facts in it; `selected` is settings.json,
`bound` the manager's copy. `known` has the revisions that are still current. `landing`
has the tasks that are queued at a campus site's landing page instead of at a job, `started`
those of them that a run has begun. Such a task comes from the bearer route only
(`EnqueueGiven`); when a conversation resumes it, the job is looked up over the network and the
task is retargeted (`Retarget`), which compares no revision. The worker claims, begins attempts,
checkpoints and promotes beside all that, without either lock.

## 3. Runs

| Run | Question | Instance | States |
|---|---|---|---|
| `queue` | do boundaries, reconciliation and revisions hold with forms, profile writes and clients? | 2 tasks, 1 profile, 2 tokens, 1 attempt, 1 client, budget 1 | 1.4 M, 100 s |
| `queue_preparation` | do attempts hold with preparations, OTP waits, retries and a landing page, and is SiteAccess implemented? | 2 tasks, 2 tokens, 2 attempts, budget 2 | 0.72 M, 70 s |
| `reconciliation` | is a task that needs a reconciliation refused until there is one? (violated) | as `queue` | |
| `promotion` | is the profile right whatever two promoters, failures and a restart do, and does every answer arrive? | 2 tasks, 2 promoters, 2 answers, 1 restart, fair worker | 0.56 M, 70 s |
| `promotion_barrier` | is the barrier always somebody's? (violated) | as `promotion` | |
| `otp` | is the SMS login right whatever senders, relay, user, clock and restarts do? | 1 task, 2 codes, 1 sender at a time, both modes, 2 attempts, any number of restarts | 1.8 M, 60 s |
| `otp_resend` | does an authorised resend go ahead? (violated) | 1 task, live | |
| `rows` | does every row happen once whatever processes, late calls and the user do? | 2 processes, 2 records, 2 wishes, 3 entries, 4 revisions | 0.55 M, 20 s |
| `preparation` | is an approval used once, alone and truthfully whatever dies, is cancelled or is edited? | 2 approvals of 1 or 2 tasks, 2 fields, 3 stages, 1 mishap | 0.57 M, 55 s |
| `form_run` | is what was written, certified, shown and confirmed the same draft? | 1 task, 2 pages, 3 fields, 2 runs, 4 revisions, 2 mishaps, both browsers | 1.2 M, 30 s |
| `installation` | is the proved journal the displaced one, the first start the only one, every report true? | 1 transaction at a time, 2 windows, 2 services, 2 bundles, 2 keys, 1 mishap | 1.0 M, 60 s |
| `control_desk` | what may requests do to profile and tasks when they overlap, fail, come late or after a stop? | 2 clients, 1 task that may be queued at a landing page, 3 profile versions, 2 update states, a resume of version 2 that goes missing, any number of restarts | 4.9 M, 120 s |

What the properties say:

* `NoReplay`: while a task has an unsettled attempt only the token of that attempt is
  let near the site. `ImplementsSiteAccess` says more, as a protocol: access is granted
  only to a settled task when nobody has it, and a doubt is never taken back.
* `ProtectedNeverRuns`: what fences a worker fences it although the fenced row itself
  is paused, retargeted, resumed or lost in a crash.
* `HumanBoundaryHolds`, `ReconciliationSticks`, `NoSilentChange`: action
  properties over every method. READY_TO_SUBMIT is left by a human act or a
  changed profile only; a required reconciliation survives pauses; what a client
  saw cannot change under its revision.
* `NoStaleReader`, `AppliedIsWritten`, `NewestAnswerWins`,
  `AnswerReachesProfile`: the promotion's safety and its one liveness property.
* `OneSmsPerConsent`, `CodeOfCurrentAttempt`, `CodeIsFresh`, `CodeIsNoticed`: at
  most one click per attempt, a new attempt only by consent or after a login; a
  late code never enters the page of a newer SMS; a code is typed once; no lost
  wake-up.
* `ImplementsSharedDraft`: RowJournal implements SharedDraft. Adding is not idempotent at the site and
  a call may land after its process died, yet the program owes one change at a time, adds only a
  record that has no row, once and while the addition is owed, and calls a change done only if
  it was made. So no record gets a second row.
* `ImplementsOneShot`: PreparationSession implements OneShotApproval. An approval is
  admitted once, alone and for a form nobody typed into, each effect happens at most once
  while it is admitted, and neither another one nor a worker gets in before its browser is gone.
  `JournalsTellTheTruth`: no effect without its durable intent, and what the rows call
  done was done. `OneLateEffect`: after a cancellation at most the primitive that had
  passed its fence. `SendIsConfirmed`: the request goes out only as a person confirmed
  it. `ClosedIsSettled`: a session the service calls closed has no browser, marker or open row.
* `NoWriteAfterDoubt`: after a write whose effect is not known nothing is written again, by
  no later run either. `ReturnedIsObserved`: a run recorded as returned read back all
  it wrote. `ReadyIsTheDraft`, `HumanSeesTheDraft`: the certificate and the values a person is
  shown are of one draft. `ImplementsHumanReview`: ReviewDesk implements HumanReview. Fields are typed in a
  turn of the task, and at most once after it was lost; a draft is offered complete, for the
  profile as it is and with no write in doubt; from then on only the website and the person move it, the profile
  changes only after the offer was taken back, and only a posting of the offered draft is called
  server-verified.
* `ProvenJournal`: from the proof that a candidate can keep the journal to the report nobody
  writes to it. `OneInitialization`: one key, one set of objects, across crashes and repeated
  first starts. `ReportsAreTrue`: what a transaction says is in place, kept or restored is.
* `TasksBindTheSelected`, `NoFactLost`: a new task never gets a managed profile that is no
  longer selected, whatever publication failed before; a save keeps what a promotion wrote
  since its user looked. `StopIsFinal`: an accepted stop ends the requests admitted before it
  too. `LateDecisionsUndoNoRun`: a decision about a task that moved while the model was asked, or while its
  job was looked up, changes it in one way only: a task at a landing page that no run has begun, and
  that is not running, in review or cancelled, is made runnable at its job (section 4).

Every property of a passing run has a mutant in `PROJECT.json`: a definition
marked "faulty" stands in the module before the one it would replace, and TLC
then finds the property violated.

### Bounds, and why they are enough

Two tasks on one profile and two tokens give every pair of rows that can compete
for the lease, the barrier, the preparation or a scan. One attempt in `queue` and
two in `queue_preparation` let an attempt of a task stay unsettled while another
task, or a preparation, wants one. The two queue runs share the report set of the
worker between them (`FormReports`, `SessionReports`): the members are the classes
that some method tells apart. Two answers of two tasks (or of one) and one
restart in a promotion give each pair of promoters every overlap. In `otp` two
attempts are one resend or one login after the other, and two codes are needed for
an ambiguous delivery; two senders at once are out of TLC's reach. In `rows` three entries let an
add that was given up be followed by a delete and an add of the same record, and four
revisions leave room for a user's edit between them; one pending entry keeps every
other away, so a third process repeats what the second does. In `preparation` two approvals, of one
task or of two, are what admission has to keep apart; two fields make a first and a later
one, and one mishap already leaves each of marker, row, child and browser without the
others. In `form_run` the second page makes an upload and a page turn follow a batch, the
revealed field a rebinding, and two runs a continuation; two mishaps are one to start a doubt
and one to profit from it. Both runs
also pass with one mishap more (3.3 M states, 10.8 M), as do `installation` (3.2 M) and `rows` with
a fifth revision (4.9 M). In `installation` a second bundle is the other release, and
two windows and two services are what a transaction and a first start have to keep out; the journal's writes count modulo
two, since a proof only asks whether it changed. In `control_desk` two clients overlap in every
pair of requests, and three versions allow a save after a failed one; a resume can go missing (`Fragile`) from one version, which is
enough for a selection that has to be repaired; one task cannot show a promotion that
stops another reader, which is `promotion`'s subject. its one task comes to
the queue at a landing page or at its job, the two kinds `_apply()` tells apart. The proofs bound none of this. `returned` in OtpAuth counts up to two because
the gate tells none, one and more apart. Symmetry is used over tokens and attempts,
codes, approvals and tasks (preparation), windows, services, keys and clients, which no
definition tells apart, and only in runs without a liveness property. `CHECK_DEADLOCK FALSE` in the queue's runs: with every
task submitted or cancelled the queue stops; in `rows`, where the entries and the
revisions run out; in `preparation`, `form_run` and `installation`, where every approval is
spent, the application sent or the bounds reached.

### Fairness

Only `promotion` needs any, for `AnswerReachesProfile`. `WF_vars(Working)` and
`WF_vars(Promoting(Worker))`: `run_forever` loops until the service is stopped.
`SF_vars(WriteProfile(Worker))`: a profile file that can be written again and
again is in the end written. Handlers, users and the clock are owed nothing. The
property says which answers may be left out: those fenced out for ever by the barrier of
another task, one that a second promoter leaked (finding 2) or one whose task cannot be
resumed because its run is unsettled. The other properties are about safety and use no
fairness.

## 4. Findings

1. **`reconciliation`** A task that stopped with a draft or a page to reconcile is made
   resumable by another task's profile write: `begin_profile_write()` puts
   `profile_changed` over its blocker (queue.py:987), and `_resume_in_tx()`
   accepts that one. `JCR-02-WIP-001.md:15` says resume is refused until a
   reconciliation mechanism exists. The run attempt, if one is unsettled, still
   protects the task; after a returned run nothing does.
2. **`promotion_barrier`** A second thread that collected the same answers raises the
   profile barrier again after the first one has marked the last answer. Its own
   mark is refused and nobody takes the barrier down: `claim()` skips the profile's
   tasks from then on.
3. **`otp_resend`** In live mode the worker refuses to run the task for which the user
   just authorised a resend, because the new attempt is no valid wait and has no
   code. README.md:140 promises one resend.

A fourth disagreement has no run of its own; it is the exception that `LateDecisionsUndoNoRun`
makes, and without it TLC finds that property violated in nine states. `_apply()` gives the revision
the model was told to every command but one. To resume a task at a campus landing page it looks
up the job over the network and calls `retarget_same_origin_landing()`, which takes no revision
(manager.py:634-657, queue.py:384). A task that was blocked, or paused by its user, since the model
was told of it is put back to DISCOVERED, its blocker and budget forgotten, although
`JCR-01-WIP-001.md:14` says that a stale proposal is refused after the task changes. A lease, a final
stage or a begun run still protects the task, which is what the property and its theorem show.

## 5. Proofs

All are TLAPS proofs for every value of the constants. Every property of a passing run is
stated by a theorem, but for the one liveness property. The inductive invariants of the
last five components also hold, as invariants, in all states of the runs of section 3.

### What they assume

Only the named assumptions on constants, which TLC evaluates in every run. Most say that
sentinels are no members, that bounds are numbers and that sets have their type. Four say
something of the code:

* `ReportsAssumption` (TaskQueue): what the worker reports with a blocker that asks for
  reconciliation has the stage BLOCKED. `outcome()` (worker.py:71-101) and the handlers of
  `run_once` (worker.py:596, 661, 675) pair them so; `checkpoint()` does not ask for it.
* `PlanAssumption` (PreparationAuthority): an approval has at least one field, and no field has the name of
  an upload stage or of the final request.
* `FormAssumption` (FormRun): a form is a sequence of pages that are not empty and share no field, and
  the first control of a page is not one that an earlier choice on it reveals.
* `ServiceAssumption` (Service): there is a bundle to install; hands, windows and services are
  different processes.

### The queue

* `Typing`: type correctness, one step per method.
* `LeasesAreExclusive`: NoReplay, and with it that two tasks are never leased
  together (OneLease), that a task has one unsettled attempt (OneUnresolved), and that an open
  preparation keeps every worker out (PreparationExcludesWorkers). None is inductive alone: a preparation may write down
  an attempt only because no other of its task is unsettled, so `LeaseInv` adds that
  the attempt a preparation names is its own (`AttemptOfPreparation`) and that an open
  preparation has no other one (`OpenPreparation`). Most methods only end leases and
  settle attempts (`Quiet`); five need an argument.
* `BoundariesHold`: ProtectedNeverRuns, and that no task of a profile under a
  write barrier is leased, but the promoting one's own (BarrierFencesReaders). The
  strengthening `BoundaryInv` says that no live row is at a stage which
  `begin_profile_write()` skips, and that no protected target is still a landing
  page. `RowKinds` classifies what a step may do to a row.
* `Refinement`: TaskQueue implements SiteAccess, the holder being the
  live task and the trust of a task read off its unsettled attempts.
* `HumanBoundary`, `ReconciliationIsOwed`, `RevisionsTell`: the action properties. All
  three say what may happen to one row, so one lemma (`RowsLawful`) goes through the methods once. It
  needs `OwingRowsStand`: only a stopped or cancelled row owes a reconciliation, so neither a claim nor
  a saved answer meets one. That is inductive under `ReportsAssumption` only.

### Promotion and rows

* `ProfilePromotionProofs!Typing`, `!AnswersAreServed` (AppliedIsWritten,
  NewestAnswerWins) and `!ReadersAreFenced` (NoStaleReader): for any number of handlers,
  tasks, answers and restarts. `AnswerInv` says that a thread holds its own answers,
  oldest first, and marks what is written; `FenceInv` that whoever is about to write
  holds the barrier or finds the note in the file.
* `RowJournalProofs!Typing` and `!RowsHappenOnce`: NoRowTwice, and with it that an add about to be
  sent finds its record absent however old the plan is (AddIsFresh) and that a call which can
  still change which rows there are has a pending entry (LateCallsAreUncertain), for any number of processes, entries, records and revisions.
  The argument: rows that are gone do not come back (`HistoryInv`), so a record that an inventory
  lacks can be there later only by a call that landed since; such a call has an entry
  (`BirthInv`), and `begin()` lets nobody through while one is pending or observed
  after the plan's inventory. Hence a record whose add is outstanding has been absent
  ever since it was planned (`AddInv`), and nothing can take that add for done.
* `RowJournalProofs!ChangesAsPromised`: RowJournal implements SharedDraft. The rows with their ids,
  the pending entry and the fate of an addition are read off the draft's history and the journal.
  `LedgerInv` (no entry was observed later than the inventory a pending one is planned on) is needed
  for deletions: what is settled as deleted has no row now. One lemma is about steps
  that send no new call (an addition can only fade), one about revisions that add no
  record (a row can only go).

### SMS login

`OtpAuthProofs`: `Typing`, `OneClick`, `CurrentCode`, `FreshCode`, `NoticedCode`, `LoginAsPromised`, for any
number of tasks, codes, senders and attempts (TLC has one sender at a time and two attempts).

* From its first look at a challenge to the end of its run a task is open, and a resend is
  authorised for a task that is not. So the attempt a run works on stays the current one
  (`WorkerInv`) and its click is the first of it (`JournalInv`).
* CodeIsFresh is not inductive: the broker forgets what it has seen when a code
  expires. A code that was typed is still remembered, or its attempt is over (`BrokerInv`), so
  what the broker then accepts again is of no use to a run.
* `LoginAsPromised` (ImplementsSmsLogin): OtpAuth implements SmsLogin, each round being read off the attempt
  of its number. `LoginInv` says that only the last attempt of a task can be current, that it is until its
  login is over, and that only its codes are remembered as typed; so a step of the worker, the clock or
  the user amends the last round (`BecomesRound`), begins one (`GrowsRound`) or is not seen. No run lists
  this property; TLC finds it to hold on the instance of `otp`, too. That a code is not typed twice in a round is FreshCode, since
  SmsLogin's set of typed codes would not show it.
* CodeIsNoticed holds because a task in its wait was put there by a run that has yet to look
  for a code (`WaitInv`), and who stores a code has yet to look for the task.

### Preparation

`PreparationProofs`: `Typing`, `ClosedForGood`, `LateEffects`, `TrueJournals`, `ConfirmedSend` and
`Implementation`, for any number of approvals, tasks and mishaps and any plan of fields.

* All that can be said of an approval is local to it, but for the marker, so the invariant is
  one conjunct per approval. `Life` says which parts of the durable state the owner
  thread can have touched where it stands: an approval is unused until its thread
  consumes it, and the row of a thread with a permit stays open while its browser runs, because
  whoever closes a row has proved the browser absent. `Truth` relates journals to effects, `Place` the
  effects to the step of the thread, `Consent` the sending to a person's confirmation.
* Only the thread writes intents. Everybody else (crash, reconciliation, cancellation) only
  forgets outcomes (`Fades`), which disturbs neither Truth nor Place.
* The refinement reads the phase of an approval off its row, the marker and its receipts. A step of
  the session launches, admits, makes one effect, loses the browser, releases or stutters.

### Form run and review

`FormRunProofs`: `Typing`, `ReturnedRuns`, `ReadyTasks`, `ShownValues`, `VerifiedSubmissions`,
`WritesAreFenced`, `ReviewAsPromised`, for every form, every set of unanswered questions and every bound, and
for both browsers.

* A run under way has the only unsettled row of run_attempts (`RunInv`). A write of it that went
  astray is under its readback, in a document other than the recorded one, or the run has raised: so
  a run that returns has nothing in doubt, and no run begins after one that did not return.
* In the applicant's Chrome there is one run; what it wrote is in batches it
  planned, on pages it left or is on (`BatchInv`, `WriteInv`). Pages share no field, hence
  none is written twice.
* A certificate says what its draft holds until the draft has another revision or identity
  (`Certifies`), and a task with a lease has the profile its certificate names, since a promotion
  takes leases away (`TaskInv`).
* `DeskInv`: nothing runs after the one run of the applicant's Chrome, so what a request read from
  the cached certificate stays about the certificate of the task, however late it is used.
* `ReviewAsPromised` (ImplementsHumanReview): who has the form is read off the row of the task (a lease:
  filling; READY_TO_SUBMIT: offered, with the row's certificate), and a worker is armed between its
  last look at the lease and the primitive. A worker that loses its lease there still types that one field
  (`Rest`, then `TypeInto`), and no other. The invariant above gives the guards: nothing in
  doubt and no second write (`RunInv`, `WriteInv`), completeness (`Certifies`), no offer while the profile is
  written (`TaskInv`), the receipt (`DeskInv`). Besides, `VerdictInv` says that a run reports one of
  three stages. Of the other steps a person sees the row of the task at most, and not even that
  while it stays leased or asleep (`Unseen`). `VerifiedSubmissions` states a consequence by itself.

### Installation

`FirstUseProofs`: `Typing`, `JournalIsProven`, `InitializedOnce`, `TrueReports`, for any number of
transactions, windows, services, bundles, keys and mishaps. TLC has one transaction at a time.

* Who holds a lock file keeps it until it releases it (`Others`). A transaction with all locks is
  alone with directories, journal and services, as a service that writes holds the worker's
  lock (`HandInv`, `DaemonInv`): the proof it took stays the journal's.
* A first install takes the locks of a root without state, which has neither a window nor a
  service (`Fresh`); from its fence on only the record of the admitted root opens a
  window or spawns a service, until the strict child completes the fence (`FenceInv`, `WindowInv`).
* No release that was in use leaves its three places but into another of them or by
  somebody outside (`Kept`): that is the half of ReportsAreTrue about what is not lost.

### Requests of the supervisor

`ControlDeskProofs`: `Typing`, `BoundToTheSelected`, `SavesLoseNoFact`, `LateDecisions`,
`StoppedForGood`, for any number of clients, tasks and versions.

* The locks follow from what the clients do (`LocksOK`), so one client at a time publishes a
  profile or creates a task.
* While a save has published, its base is still the selected version and the new file
  has all its facts (`EditInv`): the command lock keeps other savers away, the lock of the
  file keeps promotions off the base.
* What a binding read is still so when the row is inserted (`BindingInv`), as a switch of the
  selection needs the mutation lock too. `StopInv`: an accepted stop leaves nobody in a lock.
* `LateDecisions` rests on no more than that `started` is part of `landing` and a task in
  either exists (`TaskInv`): `Apply` is the only step of a conversation that decides, and its two branches
  are the fenced command and the retarget.

### Only model-checked

* `AnswerReachesProfile`, and every use of fairness: liveness and ENABLED are out of the provers' reach.
* The three violated properties of section 4: their counterexamples are TLC's, and finding 1
  is about the history variable of TaskQueueReconciliation.
* Nothing is recursive over data in the modules proved about, so no induction is missing: forms and plans are
  sequences that the invariants speak of by index.

## 6. Plan

What a run checks is proved but for liveness, and five components implement an abstract
specification. Left, in this order:

1. An abstract specification for promoted answers (an answer is in the file or is asked for
   again); ProfilePromotionProofs has the invariants already.
2. The four hazards without a property in `PROJECT.json`, each of which needs a model change first:
   the blocker a refused consumption leaves (authority.py:301), the code that is stored, looked up
   and resumed in three steps without a revision (supervisor.py:602) as far as NoticedCode does not cover it, the worker
   that resumes itself for an ambiguous code (worker.py:651), an intent no inventory can settle
   (repeated_rows.py:290).

## 7. Not modelled, and why

* What a page says or does: DOM scripts, form typing, resolver text
  matching, the classification of requests. A page's effect appears as a nondeterministic
  result, a check of its contents as one that passes or fails.
* Encryption, formats, URL and identity normalisation, signatures, manifests, bundle copies:
  their outcome is good or bad. `checkpoint()`'s validation of a certificate is
  taken as given in TaskQueue, and is FormRun's subject.
* In TaskQueue: the field-action check of `finish_run_attempt` and of `consume()`
  (a superset of behaviours; FormRun has it), browser bindings, the marker file apart from its
  approval row (PreparationAuthority has it), and `renew()`, which is a stuttering step.
* In OtpAuth: the retry budget, the revision a resend carries, and exact times. A lease that
  ran out in the hands of a dead worker counts
  as none, since its run is unresolved and every call that would look at it refuses. Codes of
  the relay bypass the broker's table of duplicates, as in the code, so CodeIsFresh is
  about the broker's codes.
* In RowJournal: the scope check when a journal is opened (one draft, one collection),
  rows of a journal from before preimages were stored, the receipt's counts, and
  drivers that report a revision the site did not have.
* In the preparation: the headless read-only preflight is the same lifecycle without the fill
  approval and has no actions of its own. `reconcile_closed_context()` has no caller in the
  service; the model lets an operator call it. Time limits are refusals at any step. A refused
  consumption leaves an unknown outcome, so the service admits no session until a restart.
* In the form run: `src/` has the generic adapter only; certified drivers and the upload
  are an extension point, so the driver is external and truthful. A live second run exists for SMS
  continuations only, which are OtpAuth's. Only promotions change a profile in place.
* In the installation: the engineering commands (`serve`, `start`, `launch`, `native-launch`,
  `install-app`) do not look at the fence and are outside, as is a person who deletes the application
  by hand. Checks adjacent to a move are one step with it, a guard's three state locks are
  taken in one step, and the task-answer key and the access token are one object. A foreign directory appears
  only while a transaction is under way. The service does not clear failed, previous or staging
  directories, and a root prepared in part is refused for ever: both are so in the model. Services from before the locks are
  outside; the code calls them not certified.
* In ControlDesk: tickets and sessions, the provider's own settings, and observation of a task.
  Of the lookup behind a landing page only the outcome counts, and it takes its time between `Consider` and `Apply`, or
  `ReadTasks` and `ResumeWaiting`; that two targets turn out to be the same job is one of
  the refusals. `stop_service()` takes both locks in one step; the parts of
  `safe_to_update()` about codes, preparations and the worker are left out. The plain continue of
  the chat and the bearer routes have no revision check, in the code as in the model. Profile
  version 1 is one configured outside the private directory, which is not read again when a
  task is bound. A promotion writes into the version its task was bound to, so a later save that started
  from another version does not have it. The settings command line (`cli.py`) is outside. Of the tasks
  that a bearer caller creates with a profile of its own choice only those at a landing page and with the
  profile outside are in the model; a caller who names a managed version is not fenced by the code.
* Dashboard pages, AppKit host, build, signing and continuous integration.
