---------------------------- MODULE AppTransaction ----------------------------
(***************************************************************************)
(* The transactions that put another release where the application is      *)
(* (autonomy/consumer.py, autonomy/consumer_installer.py): the first       *)
(* install, the install of a delivered bundle, the update from Finder, and *)
(* the restoration of the previous release.  Each takes the locks, proves  *)
(* the candidate healthy and able to keep the journal, moves directories   *)
(* with single renames, proves health again at the final path, and moves   *)
(* back when that fails.  A crash leaves every directory where it is.      *)
(*                                                                         *)
(* Install and restoration are one protocol over different directories.    *)
(* Manifests, signatures, copies and health checks are an outcome that is  *)
(* good or bad; an outside actor may put something of his own in a slot at *)
(* any time between two steps.  The checks that follow one another without *)
(* waiting for another process are one step with the move they admit.      *)
(***************************************************************************)
EXTENDS Service

Slot == {"app", "staging", "previous", "failed"}
NoStore == NoRecord.store

\* Where the new release comes from, where the displaced one is kept, and
\* where a release goes that proved unhealthy in place.
From(h) == IF hand[h].op = "restore" THEN "previous" ELSE "staging"
Park(h) == IF hand[h].op = "restore" THEN "failed" ELSE "previous"
Reject(h) == IF hand[h].op = "restore" THEN "previous" ELSE "failed"

Cand(h) == hand[h].cand
Was(h) == hand[h].was
Replaces(h) == Was(h) # Empty

At(h, s) == hand[h].step = s
HandGoes(h, s) == hand' = [hand EXCEPT ![h].step = s]
Resting(said) ==
  [op |-> "none", step |-> "idle", cand |-> Empty, was |-> Empty, capsule |-> NoStore,
   seen |-> NoStore, said |-> said]

\* The end of a transaction: what it says, and its locks are gone.
Reports(h, said) == hand' = [hand EXCEPT ![h] = Resting(said)] /\ lock' = Release(h)

Move(from, to) == [slot EXCEPT ![to] = slot[from], ![from] = Empty]
\* rename(2) also replaces a directory that is empty; the first activation
\* asks for RENAME_EXCL.
Lands(h, s) == slot[s] = Empty \/ (slot[s] = Foreign /\ hand[h].op # "first")
Retained(h) == slot[Park(h)] = Was(h)

-----------------------------------------------------------------------------
(* Admission.                                                               *)

Begins(h, op) ==
  /\ At(h, "idle")
  /\ hand' = [hand EXCEPT ![h] =
       [Resting("nothing") EXCEPT !.op = op, !.step = "begun", !.was = slot["app"]]]
  /\ UNCHANGED <<slot, fence, lock, store, registry, daemon, window, rest>>

\* A downloaded release is opened, and there is no application.
BeginFirst(h) == slot["app"] = Empty /\ copies < MaxBundle /\ Begins(h, "first")

\* A downloaded release is opened next to an installed one that is in use.
BeginUpdate(h) ==
  slot["app"] \in Bundle /\ ~Pending /\ copies < MaxBundle /\ Begins(h, "update")

\* In the installed application a delivery is chosen, or the release before.
BeginInstall(h) == slot["app"] \in Bundle /\ copies < MaxBundle /\ Begins(h, "install")
BeginRestore(h) == slot["app"] \in Bundle /\ Begins(h, "restore")

\* The registered service is asked to end, by the application it belongs to
\* or by the installer, which then waits for it under its own locks.
AskService(h) ==
  /\ \E d \in Daemon : Stopped(d)
  /\ UNCHANGED <<slot, fence, lock, store, registry, hand, window, rest>>
HandOff(h) == At(h, "begun") /\ hand[h].op \in {"install", "restore"} /\ AskService(h)
Retire(h) == At(h, "retiring") /\ AskService(h)

\* Mutant: the task's locks are left to the service.
GuardOfTheApp == {"app", "native"}
\* The application and task locks of an install or a rollback.
GuardLocks == Lock

FirstAdmissible == slot["app"] = Empty /\ fence.status = "none" /\ ~HasState
InstallAdmissible == slot["app"] \in Bundle
RestoreAdmissible ==
  slot["app"] \in Bundle /\ slot["previous"] \in Bundle /\ slot["failed"] = Empty

\* All locks or nothing, and which release is displaced.
Guard(h, admissible, step, cand) ==
  /\ At(h, "begun")
  /\ IF AllFree(GuardLocks) /\ registry \notin Daemon /\ admissible
       THEN /\ lock' = Acquire(h, GuardLocks)
            /\ hand' = [hand EXCEPT ![h].step = step, ![h].was = slot["app"], ![h].cand = cand]
       ELSE Reports(h, "kept")
  /\ UNCHANGED <<slot, fence, store, registry, daemon, window, rest>>

\* install_macos_bundle() refuses a candidate it cannot verify, before any
\* lock; install_macos_app() takes them.
GuardInstall(h) ==
  \/ hand[h].op = "first" /\ Guard(h, FirstAdmissible, "guarded", Empty)
  \/ hand[h].op = "install" /\ Guard(h, InstallAdmissible, "guarded", Empty)
\* A restoration has its candidate already.
GuardRestore(h) ==
  hand[h].op = "restore" /\ Guard(h, RestoreAdmissible, "staged", slot["previous"])

\* run_downloaded_installer(): after the prompt everything is as captured; the
\* window's lock comes first, the task's locks when the service is gone.
Snatch(h) ==
  /\ At(h, "begun") /\ hand[h].op = "update"
  /\ IF slot["app"] = Was(h) /\ ~Pending /\ AllFree({"app", "native"})
       THEN lock' = Acquire(h, {"app", "native"}) /\ HandGoes(h, "retiring")
       ELSE Reports(h, "kept")
  /\ UNCHANGED <<slot, fence, store, registry, daemon, window, rest>>

AcquireTaskLocks(h) ==
  /\ At(h, "retiring")
  /\ \/ /\ registry = Nobody /\ AllFree({"worker", "migration"})
        /\ slot["app"] = Was(h)
        /\ lock' = Acquire(h, {"worker", "migration"}) /\ HandGoes(h, "guarded")
     \/ Reports(h, "kept")     \* busy, or not gone within ten seconds
  /\ UNCHANGED <<slot, fence, store, registry, daemon, window, rest>>

-----------------------------------------------------------------------------
(* Before the first move: _install_macos_app_unlocked() up to the check of  *)
(* both identities, and the same part of _rollback_macos_app_unlocked().    *)

\* What is left of the candidate's copy when it is refused.
Dropped(h) == IF hand[h].op = "restore" THEN {slot} ELSE {slot, [slot EXCEPT !["staging"] = Empty]}

Stage(h) ==
  /\ At(h, "guarded")
  /\ \/ /\ slot["staging"] = Empty /\ slot["app"] = Was(h)
        /\ copies' = copies + 1
        /\ slot' = [slot EXCEPT !["staging"] = copies + 1]
        /\ hand' = [hand EXCEPT ![h].step = "staged", ![h].cand = copies + 1]
        /\ UNCHANGED lock
     \/ Reports(h, "kept") /\ UNCHANGED <<slot, copies>>
  /\ copies < MaxBundle
  /\ UNCHANGED <<fence, store, registry, daemon, window, mishaps, meddled>>

\* A refusal before the first move.
Refuses(h) == slot' \in Dropped(h) /\ Reports(h, "kept")

\* The candidate starts on an empty task root of its own.
Starts(h) ==
  /\ At(h, "staged")
  /\ \/ HandGoes(h, "healthy") /\ UNCHANGED <<slot, lock>>
     \/ Refuses(h)
  /\ UNCHANGED <<fence, store, registry, daemon, window, rest>>

\* A capsule with a copy of the journal and its key, kept whatever follows;
\* its receipt is written last, when the journal is still the one copied.
BackUp(h) ==
  /\ At(h, "healthy")
  /\ \/ /\ hand[h].op # "restore" => slot["previous"] = Empty
        /\ slot["failed"] = Empty
        /\ hand[h].op = "first" => ~HasState
        /\ hand' = [hand EXCEPT ![h].step = "backed",
                      ![h].capsule = IF HasState THEN store ELSE NoStore]
        /\ UNCHANGED <<slot, lock>>
     \/ Refuses(h)
  /\ UNCHANGED <<fence, store, registry, daemon, window, rest>>

\* The capsule is the one of the receipt, and the candidate keeps every row
\* and answer of a copy of it; the journal did not change meanwhile.
Keeps(h) ==
  /\ At(h, "backed")
  /\ \/ /\ HasState => hand[h].capsule = store
        /\ hand' = [hand EXCEPT ![h].step = "proved", ![h].seen = store]
        /\ UNCHANGED <<slot, lock>>
     \/ Refuses(h)
  /\ UNCHANGED <<fence, store, registry, daemon, window, rest>>

\* The checks may have taken time: both identities and the free slots again.
Unchanged(h) ==
  /\ slot[From(h)] = Cand(h) /\ slot["app"] = Was(h)
  /\ hand[h].op # "restore" => slot["previous"] = Empty
  /\ slot["failed"] = Empty

Bind(h) ==
  /\ At(h, "proved")
  /\ IF Unchanged(h) /\ (hand[h].op = "first" => ~HasState)
       THEN HandGoes(h, "bound") /\ UNCHANGED lock
       ELSE Reports(h, "kept")
  /\ UNCHANGED <<slot, fence, store, registry, daemon, window, rest>>

\* _create_first_fence(): durable before the first activation.
CreateFence(h) ==
  /\ At(h, "bound") /\ hand[h].op = "first"
  /\ IF fence.status = "none"
       THEN /\ fence' = [status |-> "pending", tag |-> Cand(h)]
            /\ HandGoes(h, "parked") /\ UNCHANGED lock
       ELSE Reports(h, "kept") /\ UNCHANGED fence
  /\ UNCHANGED <<slot, store, registry, daemon, window, rest>>

-----------------------------------------------------------------------------
(* The moves.                                                               *)

MoveOld(h) ==
  /\ At(h, "bound") /\ hand[h].op # "first"
  /\ \/ /\ Lands(h, Park(h))
        /\ slot' = Move("app", Park(h)) /\ HandGoes(h, "parked")
        /\ UNCHANGED <<lock, mishaps>>
     \/ /\ slot[Park(h)] # Empty \/ mishaps < MaxMishaps
        /\ mishaps' = (IF slot[Park(h)] = Empty THEN mishaps + 1 ELSE mishaps)
        /\ IF hand[h].op = "restore" THEN Reports(h, "kept")
                                     ELSE HandGoes(h, "stuck") /\ UNCHANGED lock
        /\ UNCHANGED slot
  /\ UNCHANGED <<fence, store, registry, daemon, window, copies, meddled>>

MoveNew(h) ==
  /\ At(h, "parked")
  /\ \/ /\ Lands(h, "app")
        /\ slot' = Move(From(h), "app") /\ HandGoes(h, "active")
        /\ UNCHANGED mishaps
     \/ /\ slot["app"] # Empty \/ mishaps < MaxMishaps
        /\ mishaps' = (IF slot["app"] = Empty THEN mishaps + 1 ELSE mishaps)
        /\ HandGoes(h, "stuck") /\ UNCHANGED slot
  /\ UNCHANGED <<fence, lock, store, registry, daemon, window, copies, meddled>>

\* A rename failed: nothing is assumed about what is where.
Unmoved(h) ==
  /\ slot[Park(h)] = Empty /\ slot["app"] = Was(h)
  /\ slot["failed"] = Empty /\ slot[From(h)] = Cand(h)
Moved(h) ==
  /\ Replaces(h) /\ slot["app"] = Empty /\ Retained(h) /\ slot[From(h)] = Cand(h)
  /\ hand[h].op # "restore" => slot["failed"] = Empty

Compensate(h) ==
  /\ At(h, "stuck")
  /\ \/ Unmoved(h) /\ slot' \in Dropped(h) /\ Reports(h, "restored")
     \/ Moved(h) /\ slot' = Move(Park(h), "app") /\ HandGoes(h, "unparked") /\ UNCHANGED lock
     \/ ~Unmoved(h) /\ Reports(h, "recovery") /\ UNCHANGED slot
  /\ UNCHANGED <<fence, store, registry, daemon, window, rest>>

\* The move back is proved at the final path before it is reported.
Compensated(h) ==
  /\ At(h, "unparked")
  /\ \/ Unmoved(h) /\ slot' \in Dropped(h) /\ Reports(h, "restored")
     \/ Reports(h, "recovery") /\ UNCHANGED slot
  /\ UNCHANGED <<fence, store, registry, daemon, window, rest>>

\* Mutant: health in place is taken for success.
ConfirmedByHealth(h) == slot["app"] = Cand(h)
\* The new release is healthy at the final path, and the old one is kept.
Confirmed(h) ==
  /\ slot["app"] = Cand(h) /\ Retained(h) /\ slot[Reject(h)] = Empty
  /\ hand[h].op = "first" => ~HasState

Confirm(h) ==
  /\ At(h, "active")
  /\ Reports(h, IF Confirmed(h) THEN "installed" ELSE "recovery")
  /\ UNCHANGED <<slot, fence, store, registry, daemon, window, rest>>

\* It is not healthy: only a directory of this transaction is moved away, and
\* a first install moves nothing.
Quarantine(h) ==
  /\ At(h, "active")
  /\ \/ /\ hand[h].op # "first"
        /\ slot["app"] = Cand(h) /\ Retained(h) /\ slot[Reject(h)] = Empty
        /\ slot' = Move("app", Reject(h)) /\ HandGoes(h, "rejected")
        /\ UNCHANGED lock
     \/ Reports(h, "recovery") /\ UNCHANGED slot
  /\ UNCHANGED <<fence, store, registry, daemon, window, rest>>

\* The old release goes back; when that fails an install tries to put the new
\* one back where it was.
Reinstate(h) ==
  /\ At(h, "rejected")
  /\ \/ /\ slot["app"] = Empty /\ slot[Reject(h)] = Cand(h) /\ Retained(h)
        /\ slot' = Move(Park(h), "app") /\ HandGoes(h, "reinstated")
        /\ UNCHANGED <<lock, mishaps>>
     \/ /\ slot["app"] = Empty /\ slot[Reject(h)] = Cand(h) /\ Retained(h)
        /\ mishaps < MaxMishaps /\ mishaps' = mishaps + 1
        /\ slot' \in IF hand[h].op = "restore" THEN {slot} ELSE {slot, Move(Reject(h), "app")}
        /\ Reports(h, "recovery")
     \/ /\ ~(slot["app"] = Empty /\ slot[Reject(h)] = Cand(h) /\ Retained(h))
        /\ Reports(h, "recovery") /\ UNCHANGED <<slot, mishaps>>
  /\ UNCHANGED <<fence, store, registry, daemon, window, copies, meddled>>

Reviewed(h) ==
  /\ At(h, "reinstated")
  /\ \/ /\ slot["app"] = Was(h) /\ slot[Reject(h)] = Cand(h) /\ slot[Park(h)] = Empty
        /\ Reports(h, "unhealthy")
     \/ Reports(h, "recovery")
  /\ UNCHANGED <<slot, fence, store, registry, daemon, window, rest>>

HandStep(h) ==
  \/ BeginFirst(h) \/ BeginUpdate(h) \/ BeginInstall(h) \/ BeginRestore(h)
  \/ HandOff(h) \/ Retire(h) \/ GuardInstall(h) \/ GuardRestore(h)
  \/ Snatch(h) \/ AcquireTaskLocks(h)
  \/ Stage(h) \/ Starts(h) \/ BackUp(h) \/ Keeps(h) \/ Bind(h) \/ CreateFence(h)
  \/ MoveOld(h) \/ MoveNew(h) \/ Compensate(h) \/ Compensated(h)
  \/ Confirm(h) \/ Quarantine(h) \/ Reinstate(h) \/ Reviewed(h)

=============================================================================
