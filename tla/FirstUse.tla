------------------------------- MODULE FirstUse -------------------------------
(***************************************************************************)
(* The windows of an installed application and the first start after a     *)
(* first install (autonomy/first_install.py, autonomy/first_use_recovery   *)
(* .py, autonomy/first_use_prepared.py, autonomy/cli.py), composed with    *)
(* the transactions of AppTransaction and the daemons of Service.          *)
(*                                                                         *)
(* While the fence of the first install is pending no ordinary service is  *)
(* started: a window admits the empty or prepared root, a strict child     *)
(* verifies that record again at ten boundaries, writes the three initial  *)
(* objects and a receipt, completes the fence and only then is a service.  *)
(* Any process may die between two steps.                                  *)
(***************************************************************************)
EXTENDS AppTransaction

\* child: the strict child whose pipe this window reads.
Closed == [step |-> "idle", bundle |-> Empty, seen |-> NoRecord, child |-> Nobody]
In(w, s) == window[w].step = s
WindowGoes(w, s) == window' = [window EXCEPT ![w].step = s]
Leaves(w) == window' = [window EXCEPT ![w] = Closed] /\ lock' = Release(w)

-----------------------------------------------------------------------------
(* Admission of the root under a pending fence.                             *)

\* ROLES, and the receipt, which is created and then written.
Whole == 5
\* _inspect(): the root holds lock files only, or exactly the objects of a
\* whole receipt; a partial preparation is refused for ever.
Inspectable == store.made \in {0, Whole} /\ store.writes = 0 /\ registry = Nobody
\* _prepared_admission(): the application, its fence and its root together.
Record == [tag |-> fence.tag, store |-> store]
Admits(b, record) ==
  /\ slot["app"] = b /\ Pending /\ fence.tag = b
  /\ Inspectable /\ record = Record

\* native-entry from the installed place, with the fence as it is.
LaunchPending(w) ==
  /\ In(w, "idle") /\ slot["app"] \in Bundle
  /\ Admits(slot["app"], Record)
  /\ window' = [window EXCEPT ![w].step = "asked", ![w].bundle = slot["app"], ![w].seen = Record]
  /\ UNCHANGED <<slot, fence, lock, store, registry, daemon, hand, rest>>

\* Mutant: a start without a record is an ordinary one.
LaunchAnyway(w) ==
  /\ In(w, "idle") /\ slot["app"] \in Bundle
  /\ window' = [window EXCEPT ![w].step = "ordinary", ![w].bundle = slot["app"]]
  /\ UNCHANGED <<slot, fence, lock, store, registry, daemon, hand, rest>>
LaunchOrdinary(w) ==
  /\ In(w, "idle") /\ slot["app"] \in Bundle /\ ~Pending
  /\ window' = [window EXCEPT ![w].step = "ordinary", ![w].bundle = slot["app"]]
  /\ UNCHANGED <<slot, fence, lock, store, registry, daemon, hand, rest>>

\* _admitted_state_guard() and the application's lock: the root that was
\* admitted, and nobody else in it.
Guarded(w) == Admits(window[w].bundle, window[w].seen) /\ AllFree(Lock)

\* prepare_recovery(): after the person's consent the same record must hold
\* under all four locks while the application proves its health.
Probe(w) ==
  /\ In(w, "asked")
  /\ \/ /\ Guarded(w)
        /\ lock' = Acquire(w, Lock) /\ WindowGoes(w, "probing")
     \/ Leaves(w)     \* cancelled, busy or changed
  /\ UNCHANGED <<slot, fence, store, registry, daemon, hand, rest>>

\* capture_startup_record(); the locks end with prepare_recovery().
Admit(w) ==
  /\ In(w, "probing")
  /\ \/ Admits(window[w].bundle, window[w].seen) /\ WindowGoes(w, "admitted") /\ lock' = Release(w)
     \/ Leaves(w)
  /\ UNCHANGED <<slot, fence, store, registry, daemon, hand, rest>>

\* One window at a time holds the native lock; the first start's is the
\* inode that was admitted, and the record is checked on both sides of it.
BindNative(w) ==
  /\ In(w, "admitted")
  /\ \/ Leaves(w)
     \/ /\ Admits(window[w].bundle, window[w].seen) /\ lock["native"] = Nobody
        /\ lock' = Acquire(w, {"native"}) /\ WindowGoes(w, "bound")
  /\ UNCHANGED <<slot, fence, store, registry, daemon, hand, rest>>

OwnNative(w) ==
  /\ In(w, "ordinary")
  /\ \/ Leaves(w)
     \/ /\ lock["native"] = Nobody
        /\ lock' = Acquire(w, {"native"}) /\ WindowGoes(w, "starting")
  /\ UNCHANGED <<slot, fence, store, registry, daemon, hand, rest>>

-----------------------------------------------------------------------------
(* The window and its service.                                              *)

\* start_first_use(): the strict child of this release, with the record.
SpawnFirst(w) ==
  /\ In(w, "bound")
  /\ \E d \in Daemon :
       /\ daemon[d] = Down
       /\ daemon' = [daemon EXCEPT ![d] = Spawned(window[w].bundle, window[w].seen)]
       /\ window' = [window EXCEPT ![w].step = "awaiting", ![w].child = d]
  /\ UNCHANGED <<slot, fence, lock, store, registry, hand, rest>>

\* lifecycle("start"): nobody answers, so a service of this release.
SpawnService(w) ==
  /\ In(w, "starting") /\ ~\E d \in Daemon : daemon[d].step = "serving"
  /\ \E d \in Daemon :
       /\ daemon[d] = Down
       /\ daemon' = [daemon EXCEPT ![d] = Spawned(window[w].bundle, NoRecord)]
       /\ WindowGoes(w, "waiting")
  /\ UNCHANGED <<slot, fence, lock, store, registry, hand, rest>>

\* _start_consumer_service(): a service of another release is asked to end.
Restart(w) ==
  /\ In(w, "starting") \/ In(w, "waiting")
  /\ \E d \in Daemon : daemon[d].bundle # window[w].bundle /\ Stopped(d)
  /\ WindowGoes(w, "starting")
  /\ UNCHANGED <<slot, fence, lock, store, registry, hand, rest>>

\* The service shows this release, and the application is still the one that
\* was launched.
Serves(d, w) ==
  /\ registry = d /\ daemon[d].step = "serving" /\ daemon[d].bundle = window[w].bundle
  /\ slot["app"] = window[w].bundle

Opens(w) ==
  /\ window' = [window EXCEPT ![w].step = "open", ![w].seen = NoRecord, ![w].child = Nobody]
  /\ UNCHANGED <<slot, fence, lock, store, registry, daemon, hand, rest>>

\* After a first start only the child that acknowledged, never another one.
OpenFirst(w) == In(w, "heard") /\ Serves(window[w].child, w) /\ Opens(w)
OpenWindow(w) ==
  (In(w, "starting") \/ In(w, "waiting")) /\ (\E d \in Daemon : Serves(d, w)) /\ Opens(w)

\* A deadline, an unverified reply or a person who closes the window. The
\* reader of the child's progress goes with it; the child is not signalled.
CloseWindow(w) ==
  /\ window[w].step \in {"bound", "awaiting", "heard", "starting", "waiting", "open", "orphan"}
  /\ Leaves(w)
  /\ UNCHANGED <<slot, fence, store, registry, daemon, hand, rest>>

-----------------------------------------------------------------------------
(* The strict child: serve_first_use().                                     *)

\* Does the parent still read?
Listens(d) == \E w \in Window : window[w].child = d /\ In(w, "awaiting")

\* verify(): the record, and then the progress message.
Verified(d) == Admits(daemon[d].bundle, daemon[d].seen) /\ Listens(d)

Admitted(d, s) == Strict(d) /\ daemon[d].step = s

\* The application's lock, then the worker's and the migration's: one step
\* each, with a verification before and after.
Before == [app |-> "spawned", worker |-> "app", migration |-> "worker"]
TakeLock(d, l) ==
  /\ Admitted(d, Before[l])
  /\ \/ /\ Verified(d) /\ lock[l] = Nobody
        /\ lock' = Acquire(d, {l}) /\ Goes(d, l)
     \/ (~Verified(d) \/ lock[l] # Nobody) /\ Exits(d)
  /\ UNCHANGED <<slot, fence, store, registry, hand, window, rest>>

\* before_queue(): the key of the receipt, or a new one; the journal is made
\* in memory with it.
BeforeQueue(d) ==
  /\ Admitted(d, "migration")
  /\ IF Verified(d)
       THEN /\ \E k \in IF store.made = 0 THEN Key ELSE {store.key} :
                 daemon' = [daemon EXCEPT ![d].step = "queued", ![d].key = k]
            /\ UNCHANGED lock
       ELSE Exits(d)
  /\ UNCHANGED <<slot, fence, store, registry, hand, window, rest>>

\* after_queue(): prepare() starts on an empty root; a whole receipt must hold
\* the same payloads.
AfterQueue(d) ==
  /\ Admitted(d, "queued")
  /\ IF Verified(d) /\ (store.made = Whole => store.key = daemon[d].key)
       THEN Goes(d, IF store.made = Whole THEN "prepared" ELSE "preparing") /\ UNCHANGED lock
       ELSE Exits(d)
  /\ UNCHANGED <<slot, fence, store, registry, hand, window, rest>>

\* Mutant: the objects are written again over a whole receipt.
PrepareAgain(d) ==
  /\ Admitted(d, "preparing")
  /\ store' = [store EXCEPT !.made = @ + 1,
               !.key = IF store.made = 1 THEN daemon[d].key ELSE @]
  /\ UNCHANGED <<slot, fence, lock, registry, daemon, hand, window, rest>>
\* prepare(): one object after the other, each created, written and synced;
\* nobody is asked in between.
Prepare(d) ==
  /\ Admitted(d, "preparing")
  /\ \/ /\ store.made < Whole
        /\ store' = [store EXCEPT !.made = @ + 1,
                       !.key = IF store.made = 1 THEN daemon[d].key ELSE @]
        /\ UNCHANGED <<daemon, lock>>
     \/ /\ store.made = Whole
        /\ daemon' = [daemon EXCEPT ![d].step = "prepared", ![d].seen.store = store]
        /\ UNCHANGED <<store, lock>>
     \/ Exits(d) /\ UNCHANGED store     \* a write was short
  /\ UNCHANGED <<slot, fence, registry, hand, window, rest>>

\* after_prepare and before_commit, the server's port between them; then the
\* completion record is appended to the fence.
CompleteFence(d) ==
  /\ Admitted(d, "prepared")
  /\ \/ /\ Verified(d)
        /\ fence' = [fence EXCEPT !.status = "complete"]
        /\ Goes(d, "committed") /\ UNCHANGED lock
     \/ /\ Verified(d)                \* the append was short
        /\ fence' = [fence EXCEPT !.status = "torn"] /\ Exits(d)
     \/ Exits(d) /\ UNCHANGED fence   \* no port, or not verified
  /\ UNCHANGED <<slot, store, registry, hand, window, rest>>

\* TaskQueue() returns, and the service registers.
PublishFirst(d) ==
  /\ Admitted(d, "committed")
  /\ lock' = [lock EXCEPT !["migration"] = Nobody]
  /\ registry' = d /\ Goes(d, "acking")
  /\ UNCHANGED <<slot, fence, store, hand, window, rest>>

\* acknowledge(): without a reader this service ends, and the fence stays
\* complete.
Acknowledge(d) ==
  /\ Admitted(d, "acking")
  /\ IF Listens(d)
       THEN /\ Goes(d, "serving") /\ lock' = [lock EXCEPT !["app"] = Nobody]
            /\ \E w \in Window : window[w].child = d /\ WindowGoes(w, "heard")
       ELSE Goes(d, "retired") /\ lock' = Release(d) /\ UNCHANGED window
  /\ UNCHANGED <<slot, fence, store, registry, hand, rest>>

-----------------------------------------------------------------------------
(* The environment.                                                         *)

Mishap == mishaps < MaxMishaps /\ mishaps' = mishaps + 1

\* A process dies; its lock files are free, its directories stay.
KillHand(h) ==
  /\ Mishap /\ ~At(h, "idle") /\ Reports(h, "nothing")
  /\ UNCHANGED <<slot, fence, store, registry, daemon, window, copies, meddled>>

\* The presenter holds the native lock as well: it outlives its launcher.
KillWindow(w) ==
  /\ Mishap /\ window[w].step \notin {"idle", "orphan"}
  /\ IF In(w, "open") THEN WindowGoes(w, "orphan") /\ UNCHANGED lock ELSE Leaves(w)
  /\ UNCHANGED <<slot, fence, store, registry, daemon, hand, copies, meddled>>

KillDaemon(d) ==
  /\ Mishap /\ daemon[d] # Down /\ Exits(d)
  /\ registry' = (IF registry = d THEN Stale ELSE registry)
  /\ UNCHANGED <<slot, fence, store, hand, window, copies, meddled>>

\* Somebody outside puts a directory of his own where a release is or goes,
\* while a transaction is under way.
Meddle(s) ==
  /\ Mishap /\ slot[s] # Foreign /\ \E h \in Hand : ~At(h, "idle")
  /\ slot' = [slot EXCEPT ![s] = Foreign]
  /\ meddled' = meddled \cup ({slot[s]} \ {Empty})
  /\ UNCHANGED <<fence, lock, store, registry, daemon, hand, window, copies>>

-----------------------------------------------------------------------------

\* A machine without the application, or with a release that was installed by
\* hand, without a fence, and is in use.
Init ==
  /\ fence = [status |-> "none", tag |-> Empty]
  /\ \/ slot = [s \in Slot |-> Empty] /\ copies = 0 /\ store = NoStore
     \/ /\ slot = [s \in Slot |-> IF s = "app" THEN 1 ELSE Empty] /\ copies = 1
        /\ \E k \in Key : store = [made |-> 0, key |-> k, writes |-> 1]
  /\ lock = [l \in Lock |-> Nobody]
  /\ registry = Nobody
  /\ daemon = [d \in Daemon |-> Down]
  /\ hand = [h \in Hand |-> Resting("nothing")]
  /\ window = [w \in Window |-> Closed]
  /\ mishaps = 0 /\ meddled = {}

WindowStep(w) ==
  \/ LaunchPending(w) \/ LaunchOrdinary(w) \/ Probe(w) \/ Admit(w)
  \/ BindNative(w) \/ OwnNative(w) \/ SpawnFirst(w) \/ SpawnService(w)
  \/ Restart(w) \/ OpenFirst(w) \/ OpenWindow(w) \/ CloseWindow(w)

ChildStep(d) ==
  \/ \E l \in DOMAIN Before : TakeLock(d, l)
  \/ BeforeQueue(d) \/ AfterQueue(d) \/ Prepare(d) \/ CompleteFence(d)
  \/ PublishFirst(d) \/ Acknowledge(d)

Next ==
  \/ \E h \in Hand : HandStep(h) \/ KillHand(h)
  \/ \E w \in Window : WindowStep(w) \/ KillWindow(w)
  \/ \E d \in Daemon : ServiceStep(d) \/ ChildStep(d) \/ KillDaemon(d)
  \/ \E s \in Slot : Meddle(s)

Spec == Init /\ [][Next]_vars

-----------------------------------------------------------------------------

\* The records of the files and of the processes.
Store == [made : 0..Whole, key : Key \cup {NoKey}, writes : 0..MaxWrites]
Seen == [tag : Bundle \cup {Empty}, store : Store]
Transaction ==
  [op : {"none", "first", "update", "install", "restore"},
   step : {"idle", "begun", "retiring", "guarded", "staged", "healthy", "backed", "proved", "bound",
           "parked", "active", "stuck", "unparked", "rejected", "reinstated"},
   cand : Bundle \cup {Empty}, was : Bundle \cup {Empty}, capsule : Store, seen : Store,
   said : {"nothing", "kept", "restored", "recovery", "installed", "unhealthy"}]
Served ==
  [step : {"down", "spawned", "owned", "built", "app", "worker", "migration", "queued", "preparing", "prepared",
           "committed", "acking", "serving", "stopping", "retired"},
   bundle : Bundle \cup {Empty}, key : Key \cup {NoKey}, seen : Seen]
Shown ==
  [step : {"idle", "asked", "ordinary", "probing", "admitted", "bound", "starting", "awaiting", "waiting", "heard",
           "open", "orphan"},
   bundle : Bundle \cup {Empty}, seen : Seen, child : Daemon \cup {Nobody}]

\* The state of the processes, the directories and the files is well formed.
FilesOK ==
  /\ slot \in [Slot -> Bundle \cup {Empty, Foreign}]
  /\ fence \in [status : {"none", "pending", "torn", "complete"}, tag : Bundle \cup {Empty}]
  /\ lock \in [Lock -> Hand \cup Window \cup Daemon \cup {Nobody}]
  /\ store \in Store /\ registry \in Daemon \cup {Nobody, Stale}
  /\ mishaps \in 0..MaxMishaps /\ copies \in 0..MaxBundle /\ meddled \subseteq Bundle
ProcessesOK ==
  /\ hand \in [Hand -> Transaction] /\ daemon \in [Daemon -> Served] /\ window \in [Window -> Shown]
TypeOK == FilesOK /\ ProcessesOK

\* From the proof that the candidate can keep the journal until the
\* transaction reports, the journal is the one that was proved: no service,
\* no first start and no second transaction writes meanwhile (task_state_guard,
\* _UpdateAuthority, serve).
ProvenJournal ==
  \A h \in Hand : hand[h].step \notin {"idle", "begun", "retiring", "guarded", "staged", "healthy", "backed"} =>
    /\ store = hand[h].seen
    /\ \A d \in Daemon : daemon[d].step \in {"down", "spawned", "retired"}

\* One initialization: under a pending fence nothing but the initial objects
\* is ever written, a complete fence has all of them, and every service that
\* may write to the journal has the key that is on disk - across crashes,
\* lost acknowledgements and repeated first starts (first_use_prepared).
OneInitialization ==
  /\ Pending => store.writes = 0
  /\ fence.status = "complete" => store.made = Whole
  /\ \A d \in Daemon :
       daemon[d].step \in {"built", "committed", "acking", "serving", "stopping"} =>
         daemon[d].key = store.key

\* What a transaction says is so: a success put the candidate in place, kept
\* the old release and has the journal as it now is in its capsule; a refusal did not put it there; a compensation has the old
\* release back, and whatever the end no release that was in use is lost -
\* with renames that fail and directories that others put in the way
\* (_install_macos_app_unlocked and _rollback_macos_app_unlocked).
Truthful(h, said) ==
  /\ said = "installed" => /\ slot'["app"] = Cand(h) /\ slot'[Park(h)] = Was(h)
                           /\ HasState => hand[h].capsule = store
  /\ said = "kept" => Cand(h) = Empty \/ slot'["app"] # Cand(h)
  /\ said \in {"restored", "unhealthy"} => slot'["app"] = Was(h)
  /\ said = "unhealthy" => slot'[Reject(h)] = Cand(h)
  /\ Was(h) \in {slot'[s] : s \in Slot} \cup meddled \cup {Empty}

ReportsAreTrue ==
  [][\A h \in Hand : ~At(h, "idle") /\ At(h, "idle")' => Truthful(h, hand[h].said')]_vars

=============================================================================
