---------------------------- MODULE ControlDesk ----------------------------
(***************************************************************************)
(* The local control plane of the service: Supervisor (supervisor.py) with *)
(* its mutation and command locks and its stop and update fences, the      *)
(* manager's conversation and the binding of a new task to a profile       *)
(* (manager.py), the profile editor and import (profile_editor.py,         *)
(* profile_setup.py) over settings.json, and the update state file         *)
(* (updater.py).  HTTP handler threads are the clients; the worker runs    *)
(* beside them and takes none of the locks.                                *)
(*                                                                         *)
(* Every save or import makes a new profile version and then switches      *)
(* settings.json to it.  Version 1 is a profile configured outside the     *)
(* private directory; all others are managed, and only those are read again *)
(* when a task is bound.  The content of a version is the set of facts in  *)
(* it: fact c is the edit of client c, fact t the remembered answer of     *)
(* task t.  settings.json is as far as it is modelled the selection.       *)
(*                                                                         *)
(* A task is seen as far as this desk tells it apart; TaskQueue has the    *)
(* whole row, ProfilePromotion the steps of a promotion.  "waiting" is a   *)
(* human action that is no code, "blocked" any BLOCKED row.  known holds   *)
(* <<c, t>> while the revision of t that client c read is the current one. *)
(* A task may stand at the landing page of a campus site instead of at its *)
(* job; a conversation that resumes it looks the job up over the network.  *)
(***************************************************************************)
EXTENDS Naturals, Sequences, FiniteSets

CONSTANTS
  Client,       \* HTTP handler threads
  Task,         \* application targets, the deduplication key of a task
  Landing,      \* those that may be queued at their site's landing page
  MaxVersions,  \* bound: profile versions in a behaviour
  Fragile,      \* bound: the versions whose resume somebody damages
  UpdateLeft,   \* what an updater of the past may have left in update-state.json
  NoClient

UPDATES == {"idle", "checking", "updating", "failed", "restart_required"}

ASSUME ConstantsAssumption ==
  /\ UpdateLeft \subseteq UPDATES
  /\ NoClient \notin Client
  /\ MaxVersions \in Nat \ {0}
  /\ Fragile \subseteq Nat
  /\ Landing \subseteq Task

NoProfile == 0
OUTSIDE == 1
Managed(v) == v > OUTSIDE
Fact == Client \cup Task
STAGES == {"absent", "runnable", "running", "asking", "waiting", "blocked", "ready", "cancelled"}
VIEWS == {"editor", "row"}
OPERATIONS == {"save", "import", "reconcile", "form", "chat", "dispatch",
               "command", "fact", "stop"}
STEPS == {"idle", "ready", "admitted", "serving", "published", "replaced",
          "binding", "enqueue", "ordering", "reading", "deciding", "acting", "resuming", "stopped"}

VARIABLES
  selected,   \* profile_path in settings.json
  shelf,      \* the profile files: the facts in each version
  damaged,    \* the editor-owned resume of the selection is missing or changed
  bound,      \* manager.settings: the profile of future tasks
  uncertain,  \* manager._profile_selection_uncertain
  mutation,   \* holder of _mutation_lock
  command,    \* holder of _command_lock
  stopping,   \* _service_stop_requested
  halted,     \* worker.stop_event
  update,     \* status in update-state.json
  desk,       \* what a client is doing, and what it saw
  stage, profile, pending, known,  \* the tasks; pending: answers to promote
  landing,    \* the tasks whose target is a landing page
  started     \* those of them for which a run attempt was recorded

shelfVars == <<selected, shelf, damaged>>
bindVars == <<bound, uncertain>>
lockVars == <<mutation, command>>
fenceVars == <<stopping, halted, update>>
targetVars == <<landing, started>>
taskVars == <<stage, profile, pending, known, targetVars>>
vars == <<shelfVars, bindVars, lockVars, fenceVars, desk, taskVars>>

Version == 1 .. Len(shelf)
AtRest == [op |-> "none", step |-> "idle", base |-> NoProfile, facts |-> {},
           repair |-> FALSE, task |-> "none"]

Init ==
  /\ selected \in {NoProfile, OUTSIDE}
  /\ shelf = << {} >>
  /\ damaged = FALSE
  /\ bound = selected /\ uncertain = FALSE
  /\ mutation = NoClient /\ command = NoClient
  /\ stopping = FALSE /\ halted = FALSE
  /\ update \in UpdateLeft
  /\ desk = [c \in Client |-> AtRest]
  /\ stage = [t \in Task |-> "absent"]
  /\ profile = [t \in Task |-> NoProfile]
  /\ pending = {} /\ known = {}
  /\ landing = {} /\ started = {}

-----------------------------------------------------------------------------
At(c, op, step) == desk[c].op = op /\ desk[c].step = step
GoTo(c, step) == desk' = [desk EXCEPT ![c].step = step]
Without(holder, c) == IF holder = c THEN NoClient ELSE holder

\* The locks are context managers: a return and an exception release them.
HeldAnswer(c) == desk' = [desk EXCEPT ![c] = AtRest] /\ UNCHANGED lockVars   \* faulty
Answer(c) ==
  /\ desk' = [desk EXCEPT ![c] = AtRest]
  /\ mutation' = Without(mutation, c) /\ command' = Without(command, c)

\* mutation_fenced() reads the update state through reconciled_update_state():
\* the lock of a dead updater is free, and its state is recovered on the way.
Recovered(status) ==
  CASE status = "checking" -> "failed"
    [] status = "updating" -> "restart_required"
    [] OTHER -> status
Fenced == stopping \/ Recovered(update) = "restart_required"
ReadFence == update' = IF stopping THEN update ELSE Recovered(update)

Contents(v) == IF v = NoProfile THEN {} ELSE shelf[v]
Forget(S) == known' = {k \in known : k[2] \notin S}
ForgetDone(c, S) == known' = {k \in known : k[1] # c /\ k[2] \notin S}
Changed == {t \in Task : stage'[t] # stage[t]}
Made == {t \in Task : stage[t] # "absent"}

-----------------------------------------------------------------------------
(* A client opens a view, without a lock, and sends a request with what it saw. *)

OpenEditor(c) ==
  /\ desk[c] = AtRest
  /\ desk' = [desk EXCEPT ![c] =
       [AtRest EXCEPT !.op = "editor", !.step = "ready", !.base = selected,
                      !.facts = Contents(selected), !.repair = damaged]]
  /\ UNCHANGED <<shelfVars, bindVars, lockVars, fenceVars, taskVars>>

SeeTask(c, t) ==
  /\ desk[c] = AtRest /\ t \in Made
  /\ desk' = [desk EXCEPT ![c] = [AtRest EXCEPT !.op = "row", !.step = "ready", !.task = t]]
  /\ known' = known \cup {<<c, t>>}
  /\ UNCHANGED <<shelfVars, bindVars, lockVars, fenceVars, stage, profile, pending, targetVars>>

\* run_mutation(): the fence is looked at under the mutation lock.
Entrance(op) ==
  CASE op = "form" -> "binding"
    [] op = "chat" -> "reading"
    [] op = "dispatch" -> "ordering"
    [] OTHER -> "admitted"
\* Of what the view showed, an import sends the revision of the settings only.
Admitted(view, op) ==
  [view EXCEPT !.op = op, !.step = Entrance(op),
               !.facts = IF op = "save" THEN @ ELSE {}, !.repair = @ /\ op = "save"]
RunMutation(c, op) ==
  /\ \/ op \in {"save", "import"} /\ At(c, "editor", "ready")
     \/ op \in {"reconcile", "form", "chat", "dispatch"} /\ desk[c] = AtRest
  /\ mutation = NoClient
  /\ ReadFence
  /\ IF Fenced
     THEN Answer(c)
     ELSE /\ mutation' = c /\ UNCHANGED command
          /\ desk' = [desk EXCEPT ![c] = Admitted(@, op)]
  /\ UNCHANGED <<shelfVars, bindVars, stopping, halted, taskVars>>

\* The second lock of the calls that replace the configuration.
TakeCommandLock(c) ==
  /\ desk[c].step = "admitted" /\ command = NoClient
  /\ command' = c
  /\ GoTo(c, "serving")
  /\ UNCHANGED <<shelfVars, bindVars, mutation, fenceVars, taskVars>>

\* run_local_command() and run_local_fact() take the command lock only.
RunLocal(c) ==
  /\ At(c, "row", "ready")
  /\ command = NoClient
  /\ ReadFence
  /\ IF Fenced
     THEN Answer(c) /\ ForgetDone(c, {})
     ELSE /\ command' = c /\ UNCHANGED <<mutation, known>>
          /\ \E op \in {"command", "fact"} :
               desk' = [desk EXCEPT ![c].op = op, ![c].step = "serving"]
  /\ UNCHANGED <<shelfVars, bindVars, stopping, halted, stage, profile, pending, targetVars>>

-----------------------------------------------------------------------------
(* The editor and the import: a new version, then the switch to it. *)

SeesSelection(c) == desk[c].base = selected
SeesWhatIsThere(c) ==
  /\ SeesSelection(c)
  /\ desk[c].facts = Contents(selected)
  /\ desk[c].repair = damaged
Publish(c, facts) ==
  /\ Len(shelf) < MaxVersions
  /\ shelf' = Append(shelf, facts)
  /\ desk' = [desk EXCEPT ![c].step = "published", ![c].facts = {}, ![c].repair = FALSE]

\* save_profile(), up to the new file: compare what the user saw, and patch.
PublishEdit(c) ==
  /\ At(c, "save", "serving") /\ ~uncertain /\ SeesWhatIsThere(c)
  /\ Publish(c, Contents(selected) \cup {c})
  /\ UNCHANGED <<selected, damaged, bindVars, lockVars, fenceVars, taskVars>>

\* select_profile() compares the settings only: the file it imports replaces
\* the facts of the version before.
PublishImport(c) ==
  /\ At(c, "import", "serving") /\ SeesSelection(c)
  /\ Publish(c, {})
  /\ UNCHANGED <<selected, damaged, bindVars, lockVars, fenceVars, taskVars>>

ReplaceSettings(c) ==
  /\ desk[c].step = "published"
  /\ selected' = Len(shelf) /\ damaged' = FALSE
  /\ GoTo(c, "replaced")
  /\ UNCHANGED <<shelf, bindVars, lockVars, fenceVars, taskVars>>

\* A conflict, or a fault before the settings were replaced: a version nobody
\* selected may stay on the disk.
SaveRefused(c) ==
  /\ desk[c].op \in {"save", "import"} /\ desk[c].step \in {"serving", "published"}
  /\ Answer(c)
  /\ UNCHANGED <<shelfVars, bindVars, fenceVars, taskVars>>

\* The new selection was read back, with or without a fault after the switch.
ConfirmSelection(c) ==
  /\ desk[c].step = "replaced"
  /\ At(c, "save", "replaced") => ~damaged
  /\ bound' = selected
  /\ uncertain' = IF desk[c].op = "save" THEN FALSE ELSE uncertain
  /\ Answer(c)
  /\ UNCHANGED <<shelfVars, fenceVars, taskVars>>

\* Neither the old nor the new selection could be proven.
PublicationUncertain(c) ==
  /\ desk[c].op = "save" /\ desk[c].step \in {"published", "replaced"}
  /\ uncertain' = TRUE
  /\ Answer(c)
  /\ UNCHANGED <<shelfVars, bound, fenceVars, taskVars>>

\* change_settings() raises after the switch: nobody notes the uncertainty, and
\* the next binding has to find out.
ImportFault(c) ==
  /\ At(c, "import", "replaced")
  /\ Answer(c)
  /\ UNCHANGED <<shelfVars, bindVars, fenceVars, taskVars>>

ReconcileProfileEditor(c) ==
  /\ At(c, "reconcile", "serving")
  /\ \/ bound' = selected /\ uncertain' = FALSE
     \/ uncertain' = TRUE /\ UNCHANGED bound
  /\ Answer(c)
  /\ UNCHANGED <<shelfVars, fenceVars, taskVars>>

-----------------------------------------------------------------------------
(* A new task: _profile_ref(), then enqueue(), in a form or in a chat. *)

Configured(v) == v # NoProfile   \* faulty: the selection is not read again
Provable(v) == v # NoProfile /\ (Managed(v) => selected = v /\ ~damaged)

EndBinding(c) ==
  IF desk[c].op = "chat"
  THEN /\ desk' = [desk EXCEPT ![c].step = "deciding", ![c].base = NoProfile]
       /\ UNCHANGED lockVars
  ELSE Answer(c)

ProfileRef(c) ==
  /\ desk[c].step = "binding"
  /\ \/ /\ ~uncertain /\ Provable(bound)
        /\ desk' = [desk EXCEPT ![c].step = "enqueue", ![c].base = bound]
        /\ UNCHANGED <<uncertain, lockVars>>
     \/ /\ uncertain \/ bound = NoProfile
        /\ EndBinding(c) /\ UNCHANGED uncertain
     \/ /\ ~uncertain /\ Managed(bound)   \* the reading failed or disagreed
        /\ uncertain' = TRUE /\ EndBinding(c)
  /\ UNCHANGED <<shelfVars, bound, fenceVars, taskVars>>

\* A target that is queued keeps its task and its profile.
Enqueue(c, t) ==
  /\ desk[c].step = "enqueue"
  /\ IF t \in Made
     THEN UNCHANGED <<stage, profile>>
     ELSE /\ stage' = [stage EXCEPT ![t] = "runnable"]
          /\ profile' = [profile EXCEPT ![t] = desk[c].base]
  /\ EndBinding(c)
  /\ UNCHANGED <<shelfVars, bindVars, fenceVars, pending, known, targetVars>>

-----------------------------------------------------------------------------
(* Commands to existing tasks. *)

\* control(): what PAUSE, RESUME and CANCEL make of a stage.
Controlled(s) ==
  {to \in {"blocked", "runnable", "cancelled"} :
     CASE to = "blocked" -> s \notin {"absent", "ready", "cancelled"}
       [] to = "runnable" -> s \in {"asking", "waiting", "blocked"}
       [] to = "cancelled" -> s \notin {"absent", "cancelled"}}
SetStage(t, to) == stage' = [stage EXCEPT ![t] = to]

Current(c, t) == <<c, t>> \in known
Obey(c) ==
  LET t == desk[c].task IN
  /\ At(c, "command", "serving")
  /\ \/ Current(c, t) /\ \E to \in Controlled(stage[t]) : SetStage(t, to)
     \/ UNCHANGED stage   \* stale, or refused by the row
  /\ ForgetDone(c, Changed) /\ Answer(c)
  /\ UNCHANGED <<shelfVars, bindVars, fenceVars, profile, pending, targetVars>>

\* The bearer routes of dispatch(): pause, resume, cancel and otp change the task
\* as it is, without a revision.  A new task comes with a target and a profile
\* of the caller's own, here a landing page and the profile that is not managed.
EnqueueGiven(t) ==
  /\ t \notin Made
  /\ SetStage(t, "runnable")
  /\ profile' = [profile EXCEPT ![t] = OUTSIDE]
  /\ landing' = landing \cup {t}
Dispatch(c) ==
  /\ At(c, "dispatch", "ordering")
  /\ \/ /\ \E t \in Task : \E to \in Controlled(stage[t]) : SetStage(t, to)
        /\ UNCHANGED <<profile, landing>>
     \/ \E t \in Landing : EnqueueGiven(t)
     \/ UNCHANGED <<stage, profile, landing>>
  /\ Forget(Changed) /\ Answer(c)
  /\ UNCHANGED <<shelfVars, bindVars, fenceVars, pending, started>>

\* run_local_fact(): an answer to remember waits for its promotion.
AcceptFact(c) ==
  LET t == desk[c].task IN
  /\ At(c, "fact", "serving")
  /\ \/ /\ Current(c, t) /\ stage[t] = "asking"
        /\ \E remember \in BOOLEAN :
             /\ SetStage(t, IF remember THEN "blocked" ELSE "runnable")
             /\ pending' = IF remember THEN pending \cup {t} ELSE pending
     \/ UNCHANGED <<stage, pending>>
  /\ ForgetDone(c, Changed) /\ Answer(c)
  /\ UNCHANGED <<shelfVars, bindVars, fenceVars, profile, targetVars>>

-----------------------------------------------------------------------------
(* The conversation: the mutation lock is held while the model is asked, the *)
(* command lock is not.                                                      *)

\* A plain "continue" for the one task that waits is served without the model.
ReadTasks(c) ==
  LET waiting == {t \in Task : stage[t] = "waiting"} IN
  /\ At(c, "chat", "reading")
  /\ known' = known \cup ({c} \X Made)
  /\ \/ /\ Cardinality(waiting) = 1
        /\ \E t \in waiting :
             desk' = [desk EXCEPT ![c].step = "resuming", ![c].task = t]
     \/ GoTo(c, "deciding")
  /\ UNCHANGED <<shelfVars, bindVars, lockVars, fenceVars, stage, profile, pending, targetVars>>

\* retarget_same_origin_landing(): once its job was found, a task that no run
\* has begun starts over there.  Nobody compares the revision that was read
\* before the network lookup.
AtLanding(t) ==   \* faulty: the recorded attempts are not looked at
  t \in landing /\ stage[t] \notin {"absent", "running", "ready", "cancelled"}
Retargetable(t) == AtLanding(t) /\ t \notin started
Retarget(t) ==
  /\ Retargetable(t)
  /\ SetStage(t, "runnable") /\ landing' = landing \ {t}
Retargeted == landing \ landing'

\* A lookup that finds no job, or a row that refuses, changes nothing.
ResumeWaiting(c) ==
  LET t == desk[c].task IN
  /\ At(c, "chat", "resuming")
  /\ \/ /\ t \notin landing /\ "runnable" \in Controlled(stage[t])
        /\ SetStage(t, "runnable") /\ UNCHANGED landing
     \/ Retarget(t)
     \/ UNCHANGED <<stage, landing>>
  /\ ForgetDone(c, Changed \cup Retargeted) /\ Answer(c)
  /\ UNCHANGED <<shelfVars, bindVars, fenceVars, profile, pending, started>>

\* A decision about a task is looked at first, and is carried out in a
\* transaction of its own that compares the revision again.  To resume a task
\* at a landing page is a retarget instead.
Consider(c, t) ==
  /\ At(c, "chat", "deciding") /\ t \in Made /\ Current(c, t)
  /\ desk' = [desk EXCEPT ![c].step = "acting", ![c].task = t]
  /\ UNCHANGED <<shelfVars, bindVars, lockVars, fenceVars, taskVars>>

Decided(t) ==
  (Controlled(stage[t]) \ (IF t \in landing THEN {"runnable"} ELSE {}))
    \cup (IF stage[t] = "asking" THEN {"runnable"} ELSE {})
Apply(c) ==
  LET t == desk[c].task IN
  /\ At(c, "chat", "acting")
  /\ \/ /\ Current(c, t)
        /\ \E to \in Decided(t) : SetStage(t, to)
        /\ UNCHANGED landing
     \/ Retarget(t)
     \/ UNCHANGED <<stage, landing>>
  /\ Forget(Changed \cup Retargeted)
  /\ desk' = [desk EXCEPT ![c].step = "deciding", ![c].task = "none"]
  /\ UNCHANGED <<shelfVars, bindVars, lockVars, fenceVars, profile, pending, started>>

\* A task is only created in the context that the model saw.
ConsiderCreate(c) ==
  /\ At(c, "chat", "deciding")
  /\ \A t \in Made : Current(c, t)
  /\ GoTo(c, "binding")
  /\ UNCHANGED <<shelfVars, bindVars, lockVars, fenceVars, taskVars>>

EndChat(c) ==
  /\ At(c, "chat", "deciding")
  /\ ForgetDone(c, {}) /\ Answer(c)
  /\ UNCHANGED <<shelfVars, bindVars, fenceVars, stage, profile, pending, targetVars>>

-----------------------------------------------------------------------------
(* Stopping the service. *)

SafeToUpdate == \A t \in Task : stage[t] \notin {"runnable", "running"}

MutationOnly == mutation = NoClient   \* faulty: commands do not wait for it
BothLocks == mutation = NoClient /\ command = NoClient

\* stop_service() takes and releases both locks; a stop that is refused, or was
\* already accepted, changes nothing.  retire_for_shutdown() raises the same
\* fence whatever the tasks do.
Acknowledge(c) == desk' = [desk EXCEPT ![c].op = "stop", ![c].step = "stopped"]
StopService(c) ==
  /\ desk[c] = AtRest /\ BothLocks
  /\ \/ /\ ~stopping /\ ReadFence
        /\ IF ~Fenced /\ SafeToUpdate
           THEN stopping' = TRUE /\ Acknowledge(c)
           ELSE UNCHANGED <<stopping, desk>>
        /\ UNCHANGED halted
     \/ /\ stopping
        /\ Acknowledge(c)
        /\ UNCHANGED fenceVars
  /\ UNCHANGED <<shelfVars, bindVars, lockVars, taskVars>>

RetireForShutdown ==
  /\ BothLocks /\ ~stopping
  /\ stopping' = TRUE
  /\ UNCHANGED <<shelfVars, bindVars, lockVars, halted, update, desk, taskVars>>

\* The worker is told after the response was sent.
SendStopResponse(c) ==
  /\ At(c, "stop", "stopped")
  /\ halted' = TRUE
  /\ Answer(c)
  /\ UNCHANGED <<shelfVars, bindVars, stopping, update, taskVars>>

-----------------------------------------------------------------------------
(* The worker, the file system and the end of the process. *)

Claim(t) ==
  /\ ~halted /\ stage[t] = "runnable" /\ \A u \in Task : stage[u] # "running"
  /\ SetStage(t, "running") /\ Forget({t})
  /\ UNCHANGED <<shelfVars, bindVars, lockVars, fenceVars, desk, profile, pending, targetVars>>

BeginRunAttempt(t) ==
  /\ stage[t] = "running" /\ t \in landing \ started
  /\ started' = started \cup {t}
  /\ UNCHANGED <<shelfVars, bindVars, lockVars, fenceVars, desk, stage, profile, pending, known, landing>>

\* A task may be blocked without a run; all else is the report of one.
Checkpoint(t) ==
  /\ stage[t] = "running"
  /\ \E report \in {"asking", "waiting", "blocked", "ready"} :
       /\ report # "blocked" => t \notin landing \ started
       /\ SetStage(t, report)
  /\ Forget({t})
  /\ UNCHANGED <<shelfVars, bindVars, lockVars, fenceVars, desk, profile, pending, targetVars>>

Unlocked(v) == TRUE   \* faulty: the editor does not lock the file it copies
FileIsFree(v) ==
  \A c \in Client : ~(desk[c].op = "save" /\ desk[c].step \in {"published", "replaced"}
                      /\ desk[c].base = v)

\* A promotion writes the remembered answer into the profile of the task, in
\* place and under that file's lock, resumes the task and stops the readers.
Promote(t) ==
  LET v == profile[t]
      readers == {u \in Made \ {t} : profile[u] = v /\ stage[u] # "cancelled"} IN
  /\ t \in pending /\ FileIsFree(v)
  /\ shelf' = [shelf EXCEPT ![v] = @ \cup {t}]
  /\ pending' = pending \ {t}
  /\ \E resumed \in {stage[t], "runnable"} :
       /\ resumed # stage[t] => stage[t] = "blocked"
       /\ stage' = [u \in Task |-> IF u \in readers THEN "blocked"
                                   ELSE IF u = t THEN resumed ELSE stage[u]]
  /\ Forget({t} \cup readers)
  /\ UNCHANGED <<selected, damaged, bindVars, lockVars, fenceVars, desk, profile, targetVars>>

\* Somebody removes or changes the resume file of the selected version.
DamageResume ==
  /\ Managed(selected) /\ selected \in Fragile /\ ~damaged
  /\ damaged' = TRUE
  /\ UNCHANGED <<selected, shelf, bindVars, lockVars, fenceVars, desk, taskVars>>

\* The memory goes: the fence of an uncertain selection with it.  A task that ran
\* is blocked if an attempt of it is open, and claimed again if none was begun.
Restart ==
  /\ bound' = selected /\ uncertain' = FALSE
  /\ mutation' = NoClient /\ command' = NoClient
  /\ stopping' = FALSE /\ halted' = FALSE
  /\ desk' = [c \in Client |-> AtRest]
  /\ \E left \in {"blocked", "runnable"} :
       /\ left = "blocked" => \A t \in landing \ started : stage[t] # "running"
       /\ stage' = [t \in Task |-> IF stage[t] = "running" THEN left ELSE stage[t]]
  /\ known' = {}
  /\ UNCHANGED <<shelfVars, update, profile, pending, targetVars>>

-----------------------------------------------------------------------------
Requesting(c) ==
  \/ OpenEditor(c)
  \/ \E t \in Task : SeeTask(c, t)
Configuring(c) ==
  \/ PublishEdit(c) \/ PublishImport(c) \/ ReplaceSettings(c) \/ SaveRefused(c)
  \/ ConfirmSelection(c) \/ PublicationUncertain(c) \/ ImportFault(c)
  \/ ReconcileProfileEditor(c)
Conversing(c) ==
  \/ ReadTasks(c) \/ ResumeWaiting(c) \/ Apply(c) \/ ConsiderCreate(c) \/ EndChat(c)
  \/ \E t \in Task : Consider(c, t)
Serving(c) ==
  \/ \E op \in OPERATIONS : RunMutation(c, op)
  \/ TakeCommandLock(c) \/ RunLocal(c)
  \/ Configuring(c) \/ Conversing(c)
  \/ ProfileRef(c) \/ \E t \in Task : Enqueue(c, t)
  \/ Obey(c) \/ Dispatch(c) \/ AcceptFact(c)
  \/ StopService(c) \/ SendStopResponse(c)
Beside ==
  \/ \E t \in Task : Claim(t) \/ BeginRunAttempt(t) \/ Checkpoint(t) \/ Promote(t)
  \/ DamageResume \/ RetireForShutdown \/ Restart

Next == Beside \/ \E c \in Client : Requesting(c) \/ Serving(c)

Spec == Init /\ [][Next]_vars

-----------------------------------------------------------------------------
Request == [op : OPERATIONS \cup VIEWS \cup {"none"}, step : STEPS, base : {NoProfile} \cup Version,
            facts : SUBSET Fact, repair : BOOLEAN, task : Task \cup {"none"}]
ShelfOK ==
  /\ selected \in {NoProfile} \cup Version /\ bound \in {NoProfile} \cup Version
  /\ shelf \in Seq(SUBSET Fact) /\ Len(shelf) \in 1 .. MaxVersions
  /\ damaged \in BOOLEAN /\ uncertain \in BOOLEAN
FencesOK == stopping \in BOOLEAN /\ halted \in BOOLEAN /\ update \in UPDATES
DeskOK == desk \in [Client -> Request]
TasksOK ==
  /\ stage \in [Task -> STAGES] /\ profile \in [Task -> {NoProfile} \cup Version]
  /\ pending \subseteq Made /\ known \subseteq Client \X Made
  /\ landing \subseteq Made /\ started \subseteq landing
NeedsMutation(r) == r.step \notin {"idle", "ready", "stopped"} /\ r.op \notin {"command", "fact"}
NeedsCommand(r) == r.step \in {"serving", "published", "replaced"}
LocksOK ==
  /\ mutation \in Client \cup {NoClient} /\ command \in Client \cup {NoClient}
  /\ \A c \in Client : /\ mutation = c <=> NeedsMutation(desk[c])
                       /\ command = c <=> NeedsCommand(desk[c])

\* Every variable is well typed, and a lock is held by a client that is being
\* served and needs it: no return, refusal or exception leaves one behind.
TypeOK == ShelfOK /\ FencesOK /\ DeskOK /\ TasksOK /\ LocksOK

\* "Managed selections ... are revalidated when binding each future task,
\* including after a service restart" (docs/CONSUMER_ENTRY.md): whatever save,
\* import or restart went wrong before, a new task is never bound to a managed
\* version that is not the selected one any more.
TasksBindTheSelected ==
  [][\A t \in Task : profile'[t] # profile[t] /\ Managed(profile'[t]) =>
       profile'[t] = selected]_vars

\* A save loses nothing: the version it switches to holds every fact of the one
\* it replaces, those that a promotion added since the user looked included.
NoFactLost ==
  [][\A c \in Client :
       At(c, "save", "published") /\ desk'[c].step = "replaced" =>
         Contents(selected) \cup {c} \subseteq Contents(selected)']_vars

\* "Serialize against all task/fact/config admission" (supervisor.py): once a
\* stop was accepted, no request changes a task or the profile, not even one
\* that was admitted before.
StopIsFinal ==
  [][stopping /\ stopping' /\ desk' # desk =>
       UNCHANGED <<selected, shelf, bound, stage, profile, pending>>]_vars

Decides(c) == At(c, "chat", "acting") /\ desk'[c].step = "deciding"
Touched == Changed \cup Retargeted

\* "A stale model proposal is refused after the task changes"
\* (docs/consumer-readiness-v1/receipts/JCR-01-WIP-001.md) holds of every decision
\* but one: _apply() hands no revision to retarget_same_origin_landing(), so a
\* landing task that commands or the worker changed while the model was asked, or
\* its job looked up, may still be sent to its job and made runnable.  Even that
\* takes back no run, review or cancellation.
LateDecisionsUndoNoRun ==
  [][\A c \in Client : Decides(c) => \A t \in Touched :
       \/ <<c, t>> \in known
       \/ /\ t \in Retargeted \ started /\ stage'[t] = "runnable"
          /\ stage[t] \notin {"running", "ready", "cancelled"}]_vars

=============================================================================
