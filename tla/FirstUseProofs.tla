---------------------------- MODULE FirstUseProofs ----------------------------
(***************************************************************************)
(* Proofs about FirstUse, for every number of transactions, windows and    *)
(* services, and for every bound on what goes wrong.                       *)
(*                                                                         *)
(* The argument.  Who holds a lock file keeps it until it releases it      *)
(* (Others), so a transaction that took all of them is alone with the      *)
(* directories, the journal and the services: a service that writes holds  *)
(* the worker's lock.  A first install takes the locks of a root with no   *)
(* state in it, and such a root has neither a window nor a service (Fresh); *)
(* from its fence on a window is opened, and a service is spawned, only    *)
(* with the record of the admitted root, until the strict child has written *)
(* the whole receipt and completes the fence.  No release leaves the three  *)
(* places that were ever in use but into another of them, or because       *)
(* somebody outside took it (Kept).                                        *)
(***************************************************************************)
EXTENDS FirstUse, TLAPS

\* The steps of a transaction that has all locks, of one whose candidate is
\* not in place yet, and of one that has proved the journal.
GUARDED == {"guarded", "staged", "healthy", "backed", "proved", "bound", "parked", "active", "stuck", "unparked",
            "rejected", "reinstated"}
KEEPING == {"staged", "healthy", "backed", "proved", "bound"}
PROVEN == {"proved", "bound", "parked", "active", "stuck", "unparked", "rejected", "reinstated"}
\* The steps of a strict child before it completes the fence.
STRICT == {"app", "worker", "migration", "queued", "preparing", "prepared"}

HandInv(h) ==
  /\ hand[h].step = "idle" => hand[h].was = Empty
  /\ hand[h].step # "idle" => hand[h].op # "none"
  /\ hand[h].step \in {"idle", "begun", "retiring", "guarded"} => hand[h].cand = Empty
  /\ hand[h].step = "retiring" => lock["app"] = h /\ lock["native"] = h
  /\ hand[h].step \in GUARDED => \A l \in Lock : lock[l] = h
  /\ hand[h].step \in KEEPING => hand[h].cand \in Bundle /\ slot["app"] # hand[h].cand
  /\ hand[h].step \in PROVEN => store = hand[h].seen /\ (HasState => hand[h].capsule = store)
  /\ hand[h].step = "bound" /\ hand[h].op = "first" => ~HasState

DaemonInv(d) ==
  /\ daemon[d].step \notin {"down", "spawned", "app", "retired"} => lock["worker"] = d
  /\ daemon[d].step \in STRICT \cup {"committed", "acking"} => lock["app"] = d
  /\ daemon[d].step \in {"migration", "queued", "preparing", "prepared", "committed"} => lock["migration"] = d
  /\ Strict(d) => daemon[d].seen.tag # Empty
  /\ daemon[d].step \in STRICT \cup {"committed", "acking"} => Strict(d)
  /\ daemon[d].step = "preparing" /\ store.made > 1 => daemon[d].key = store.key
  /\ daemon[d].step = "prepared" => daemon[d].seen.store.made = Whole /\ daemon[d].key = store.key
  /\ daemon[d].step \in {"built", "committed", "acking", "serving", "stopping"} => daemon[d].key = store.key

WindowInv(w) == window[w].step \in {"asked", "probing", "admitted", "bound"} => window[w].seen.tag # Empty

\* A machine on which no release was ever in use.
Fresh ==
  /\ store = NoStore /\ registry = Nobody /\ slot["app"] \notin Bundle
  /\ \A h \in Hand : hand[h].op \in {"none", "first"} /\ hand[h].step \in {"idle", "begun", "guarded"} \cup KEEPING
  /\ \A d \in Daemon : daemon[d] = Down
  /\ \A w \in Window : window[w] = Closed

FenceInv ==
  /\ fence.status = "none" => store.writes > 0 \/ Fresh
  /\ Pending => /\ store.writes = 0 /\ registry = Nobody
                /\ \A d \in Daemon : daemon[d].step = "down" \/ (Strict(d) /\ daemon[d].step \in STRICT \cup {"spawned"})
                /\ \A w \in Window : window[w].step \notin {"ordinary", "starting", "waiting"}
  /\ fence.status = "complete" => store.made = Whole

\* Where a release that was in use can be.
Kept == {slot["app"], slot["previous"], slot["failed"], Empty} \cup meddled

SlotInv ==
  /\ \A h \in Hand : hand[h].was \in Kept
  /\ \A s, t \in Slot : s # t /\ slot[s] \in Bundle => slot[t] # slot[s]
  /\ \A s \in Slot : slot[s] \in Bundle => slot[s] <= copies

IInv ==
  /\ TypeOK /\ FenceInv /\ SlotInv
  /\ \A h \in Hand : HandInv(h)
  /\ \A d \in Daemon : DaemonInv(d)
  /\ \A w \in Window : WindowInv(w)

-----------------------------------------------------------------------------
(* The records and the locks.                                                *)

\* The records of processes that are not there have their shape.
LEMMA Shapes ==
  /\ NoStore \in Store /\ NoStore.made = 0 /\ NoStore.writes = 0
  /\ NoRecord \in Seen /\ NoRecord.tag = Empty /\ NoRecord.store = NoStore
  /\ Down \in Served /\ Down.step = "down" /\ Down.seen = NoRecord
  /\ Closed \in Shown /\ Closed.step = "idle"
  /\ \A said \in {"nothing", "kept", "restored", "recovery", "installed", "unhealthy"} :
       /\ Resting(said) \in Transaction /\ Resting(said).step = "idle" /\ Resting(said).op = "none"
       /\ Resting(said).was = Empty /\ Resting(said).cand = Empty /\ Resting(said).said = said
<1>1. NoStore \in Store /\ NoStore.made = 0 /\ NoStore.writes = 0
  BY ServiceAssumption DEF NoStore, NoRecord, Store, Whole
<1>2. NoRecord \in Seen /\ NoRecord.tag = Empty /\ NoRecord.store = NoStore
  BY <1>1 DEF NoStore, NoRecord, Seen
<1>3. Down \in Served /\ Down.step = "down" /\ Down.seen = NoRecord
  BY <1>2 DEF Down, Served
<1>4. Closed \in Shown /\ Closed.step = "idle"
  BY <1>2 DEF Closed, Shown
<1>5. ASSUME NEW said \in {"nothing", "kept", "restored", "recovery", "installed", "unhealthy"}
      PROVE  /\ Resting(said) \in Transaction /\ Resting(said).step = "idle" /\ Resting(said).op = "none"
             /\ Resting(said).was = Empty /\ Resting(said).cand = Empty /\ Resting(said).said = said
  BY <1>1 DEF Resting, Transaction
<1> QED
  BY <1>1, <1>2, <1>3, <1>4, <1>5

\* The processes differ from each other and from nobody.
LEMMA Processes ==
  /\ \A h \in Hand : h \notin Window /\ h \notin Daemon /\ h # Nobody
  /\ \A w \in Window : w \notin Hand /\ w \notin Daemon /\ w # Nobody
  /\ \A d \in Daemon : d \notin Hand /\ d \notin Window /\ d # Nobody /\ d # Stale
  /\ Empty \notin Bundle /\ Foreign \notin Bundle /\ Empty # Foreign
BY ServiceAssumption

\* Whoever else holds a lock keeps it.
Others(p) ==
  /\ lock' \in [Lock -> Hand \cup Window \cup Daemon \cup {Nobody}]
  /\ \A q \in (Hand \cup Window \cup Daemon) \ {p}, l \in Lock : lock[l] = q => lock'[l] = q

\* A process that takes free locks, or releases its own, leaves the others'.
LEMMA Locks ==
  ASSUME TypeOK, NEW p \in Hand \cup Window \cup Daemon
  PROVE  /\ UNCHANGED lock => Others(p)
         /\ lock' = Release(p) => Others(p)
         /\ \A wanted \in SUBSET Lock :
              AllFree(wanted) /\ lock' = Acquire(p, wanted) =>
                /\ Others(p) /\ \A l \in wanted : lock'[l] = p
                /\ \A l \in Lock : lock[l] = p => lock'[l] = p
         /\ \A l \in Lock : lock[l] = p /\ lock' = [lock EXCEPT ![l] = Nobody] => Others(p)
<1>1. lock \in [Lock -> Hand \cup Window \cup Daemon \cup {Nobody}] /\ p # Nobody
  BY Processes DEF TypeOK, FilesOK
<1>2. UNCHANGED lock => Others(p)
  BY <1>1 DEF Others
<1>3. lock' = Release(p) => Others(p)
  BY <1>1, Processes DEF Others, Release
<1>4. ASSUME NEW wanted \in SUBSET Lock, AllFree(wanted), lock' = Acquire(p, wanted)
      PROVE  /\ Others(p) /\ \A l \in wanted : lock'[l] = p
             /\ \A l \in Lock : lock[l] = p => lock'[l] = p
  <2>1. \A l \in Lock : lock'[l] = (IF l \in wanted THEN p ELSE lock[l])
    BY <1>4 DEF Acquire
  <2>2. lock' \in [Lock -> Hand \cup Window \cup Daemon \cup {Nobody}]
    BY <1>1, <1>4 DEF Acquire
  <2>3. \A l \in wanted : lock[l] = Nobody
    BY <1>4 DEF AllFree
  <2> QED
    BY <1>1, <2>1, <2>2, <2>3, Processes DEF Others
<1>5. ASSUME NEW l \in Lock, lock[l] = p, lock' = [lock EXCEPT ![l] = Nobody]
      PROVE  Others(p)
  BY <1>1, <1>5 DEF Others
<1> QED
  BY <1>2, <1>3, <1>4, <1>5

-----------------------------------------------------------------------------
(* The directories.                                                          *)

\* A step of the directories keeps every release that was in use.
Stays ==
  /\ slot' \in [Slot -> Bundle \cup {Empty, Foreign}]
  /\ \A s, t \in Slot : s # t /\ slot'[s] \in Bundle => slot'[t] # slot'[s]
  /\ \A s \in Slot : slot'[s] \in Bundle => slot'[s] <= copies'
  /\ \A x \in Bundle \cup {Empty} : x \in Kept => x \in Kept'

\* Where the directories of a transaction are.
LEMMA Places ==
  ASSUME NEW h \in Hand
  PROVE  /\ From(h) \in {"previous", "staging"} /\ Park(h) \in {"previous", "failed"}
         /\ Reject(h) \in {"previous", "failed"} /\ Slot = {"app", "staging", "previous", "failed"}
         /\ From(h) # Park(h) /\ Park(h) # Reject(h)
BY DEF From, Park, Reject, Slot

\* A rename to a place that holds no release, the removal of a candidate, and
\* a copy of a new one.
LEMMA Moves ==
  ASSUME IInv, UNCHANGED meddled
  PROVE  /\ UNCHANGED <<slot, copies>> => Stays
         /\ UNCHANGED copies /\ slot' = [slot EXCEPT !["staging"] = Empty] => Stays /\ slot'["app"] = slot["app"]
         /\ \A from \in Slot, to \in {"app", "previous", "failed"} :
              /\ UNCHANGED copies /\ from # to /\ slot[to] \notin Bundle /\ slot' = Move(from, to)
              => /\ Stays /\ slot'[to] = slot[from] /\ slot'[from] = Empty
                 /\ \A s \in Slot \ {from, to} : slot'[s] = slot[s]
         /\ /\ copies < MaxBundle /\ copies' = copies + 1 /\ slot["staging"] = Empty
            /\ slot' = [slot EXCEPT !["staging"] = copies + 1]
            => Stays /\ slot'["app"] = slot["app"] /\ copies + 1 \in Bundle /\ slot["app"] # copies + 1
<1>1. /\ slot \in [Slot -> Bundle \cup {Empty, Foreign}] /\ copies \in Nat /\ copies <= MaxBundle
      /\ Slot = {"app", "staging", "previous", "failed"}
      /\ Empty \notin Bundle /\ Foreign \notin Bundle
      /\ \A s, t \in Slot : s # t /\ slot[s] \in Bundle => slot[t] # slot[s]
      /\ \A s \in Slot : slot[s] \in Bundle => slot[s] <= copies
  BY Processes, ServiceAssumption DEF IInv, TypeOK, FilesOK, SlotInv, Slot
<1>2. UNCHANGED <<slot, copies>> => Stays
  BY <1>1 DEF Stays, Kept
<1>3. UNCHANGED copies /\ slot' = [slot EXCEPT !["staging"] = Empty] => Stays /\ slot'["app"] = slot["app"]
  BY <1>1 DEF Stays, Kept
<1>4. ASSUME NEW from \in Slot, NEW to \in {"app", "previous", "failed"}, UNCHANGED copies, from # to,
             slot[to] \notin Bundle, slot' = Move(from, to)
      PROVE  /\ Stays /\ slot'[to] = slot[from] /\ slot'[from] = Empty
             /\ \A s \in Slot \ {from, to} : slot'[s] = slot[s]
  <2>1. /\ slot' \in [Slot -> Bundle \cup {Empty, Foreign}]
        /\ slot'[to] = slot[from] /\ slot'[from] = Empty
        /\ \A s \in Slot \ {from, to} : slot'[s] = slot[s]
    BY <1>1, <1>4 DEF Move
  <2>2. \A s, t \in Slot : s # t /\ slot'[s] \in Bundle => slot'[t] # slot'[s]
    BY <1>1, <1>4, <2>1
  <2>3. \A s \in Slot : slot'[s] \in Bundle => slot'[s] <= copies'
    BY <1>1, <1>4, <2>1
  <2>4. \A x \in Bundle \cup {Empty} : x \in Kept => x \in Kept'
    BY <1>1, <1>4, <2>1 DEF Kept
  <2> QED
    BY <2>1, <2>2, <2>3, <2>4 DEF Stays
<1>5. ASSUME copies < MaxBundle, copies' = copies + 1, slot["staging"] = Empty,
             slot' = [slot EXCEPT !["staging"] = copies + 1]
      PROVE  Stays /\ slot'["app"] = slot["app"] /\ copies + 1 \in Bundle /\ slot["app"] # copies + 1
  <2>1. copies + 1 \in Bundle /\ MaxBundle \in Nat
    BY <1>1, <1>5, ServiceAssumption DEF Bundle
  <2>2. \A s \in Slot : slot[s] # copies + 1
    BY <1>1, <2>1
  <2>3. /\ slot' \in [Slot -> Bundle \cup {Empty, Foreign}] /\ slot'["staging"] = copies + 1
        /\ \A s \in Slot \ {"staging"} : slot'[s] = slot[s]
    BY <1>1, <1>5, <2>1
  <2>4. \A s \in Slot : slot'[s] \in Bundle => slot'[s] <= copies'
    <3>1. \A b \in Bundle : b <= copies => b <= copies + 1
      BY <1>1 DEF Bundle
    <3> QED
      BY <1>1, <1>5, <2>3, <3>1
  <2>5. \A x \in Bundle \cup {Empty} : x \in Kept => x \in Kept'
    BY <1>1, <1>5, <2>3 DEF Kept
  <2> QED
    BY <1>1, <2>1, <2>2, <2>3, <2>4, <2>5 DEF Stays
<1> QED
  BY <1>2, <1>3, <1>4, <1>5

-----------------------------------------------------------------------------
(* The steps of a transaction.                                               *)

\* A step of a transaction, which has all locks if it moves the application.
Advances(h, r) ==
  /\ UNCHANGED <<store, registry, daemon, window, meddled>>
  /\ hand' = [hand EXCEPT ![h] = r] /\ r \in Transaction
  /\ Others(h) /\ Stays
  /\ fence' \in [status : {"none", "pending", "torn", "complete"}, tag : Bundle \cup {Empty}]
  /\ mishaps' \in 0..MaxMishaps /\ copies' \in 0..MaxBundle
  /\ slot'["app"] = slot["app"] \/ hand[h].step \in GUARDED
  /\ r.was \in Kept'

\* Such a step leaves the other transactions, the services and the windows alone.
LEMMA AdvanceStep ==
  ASSUME IInv, NEW h \in Hand, NEW r, Advances(h, r), HandInv(h)', FenceInv'
  PROVE  IInv'
<1>1. hand \in [Hand -> Transaction]
  BY DEF IInv, TypeOK, ProcessesOK
<1>2. hand' \in [Hand -> Transaction] /\ hand'[h] = r /\ \A g \in Hand \ {h} : hand'[g] = hand[g]
  BY <1>1 DEF Advances
<1>3. TypeOK'
  BY <1>2 DEF IInv, TypeOK, FilesOK, ProcessesOK, Advances, Others, Stays
<1>4. SlotInv'
  <2>1. ASSUME NEW g \in Hand PROVE hand'[g].was \in Kept'
    <3>1. CASE g = h
      BY <1>2, <3>1 DEF Advances
    <3>2. CASE g # h
      <4>1. hand'[g] = hand[g] /\ hand[g].was \in Bundle \cup {Empty} /\ hand[g].was \in Kept
        BY <1>1, <1>2, <3>2 DEF IInv, SlotInv, Transaction
      <4> QED
        BY <4>1 DEF Advances, Stays
    <3> QED
      BY <3>1, <3>2
  <2> QED
    BY <2>1 DEF SlotInv, Advances, Stays
<1>5. ASSUME NEW g \in Hand \ {h} PROVE HandInv(g)'
  <2>1. HandInv(g) /\ hand'[g] = hand[g] /\ UNCHANGED <<store, registry>>
    BY <1>2 DEF IInv, Advances
  <2>2. \A l \in Lock : lock[l] = g => lock'[l] = g
    BY DEF Advances, Others
  <2>3. hand[g].step \in KEEPING => slot'["app"] = slot["app"]
    <3>1. CASE hand[h].step \in GUARDED /\ hand[g].step \in KEEPING
      <4>1. lock["app"] = h /\ lock["app"] = g
        BY <2>1, <3>1 DEF IInv, HandInv, GUARDED, KEEPING, Lock
      <4> QED
        BY <4>1
    <3> QED
      BY <3>1 DEF Advances
  <2>4. "app" \in Lock /\ "native" \in Lock
    BY DEF Lock
  <2> QED
    BY <2>1, <2>2, <2>3, <2>4 DEF HandInv, HasState
<1>6. ASSUME NEW d \in Daemon PROVE DaemonInv(d)'
  <2>1. DaemonInv(d) /\ UNCHANGED <<daemon, store>>
    BY DEF IInv, Advances
  <2>2. \A l \in Lock : lock[l] = d => lock'[l] = d
    BY Processes DEF Advances, Others
  <2> QED
    BY <2>1, <2>2 DEF DaemonInv, Strict, Lock
<1>7. ASSUME NEW w \in Window PROVE WindowInv(w)'
  BY <1>7 DEF IInv, WindowInv, Advances
<1> QED
  BY <1>2, <1>3, <1>4, <1>5, <1>6, <1>7 DEF IInv

\* The fence stands as it was; a machine that was never used stays one if the
\* transaction is a first install that has not made its fence yet.
LEMMA FenceStays ==
  ASSUME IInv, NEW h \in Hand, NEW r, Advances(h, r), UNCHANGED fence,
         Fresh => /\ slot'["app"] \notin Bundle /\ r.op \in {"none", "first"}
                  /\ r.step \in {"idle", "begun", "guarded"} \cup KEEPING
  PROVE  FenceInv'
<1>1. FenceInv /\ UNCHANGED <<store, registry, daemon, window, fence>>
  BY DEF IInv, Advances
<1>2. hand'[h] = r /\ \A g \in Hand \ {h} : hand'[g] = hand[g]
  BY DEF IInv, TypeOK, ProcessesOK, Advances
<1>3. Fresh => Fresh'
  BY <1>1, <1>2 DEF Fresh
<1> QED
  BY <1>1, <1>3 DEF FenceInv, Pending, Strict

\* A transaction that ends leaves the machine as it stands.
LEMMA Ending ==
  ASSUME IInv, NEW h \in Hand, hand[h].step # "idle",
         NEW said \in {"nothing", "kept", "restored", "recovery", "installed", "unhealthy"}, Reports(h, said),
         UNCHANGED <<fence, store, registry, daemon, window, copies, meddled>>, mishaps' \in 0..MaxMishaps, Stays,
         slot'["app"] = slot["app"] \/ hand[h].step \in GUARDED \ (KEEPING \cup {"guarded"})
  PROVE  IInv'
<1>1. Others(h)
  BY Locks DEF IInv, Reports
<1>2. /\ Resting(said) \in Transaction /\ Resting(said).step = "idle" /\ Resting(said).op = "none"
      /\ Resting(said).was = Empty /\ Resting(said).cand = Empty
  BY Shapes
<1>3. Advances(h, Resting(said))
  BY <1>1, <1>2 DEF Advances, Reports, Kept, IInv, TypeOK, FilesOK
<1>4. hand'[h] = Resting(said)
  BY DEF Reports, IInv, TypeOK, ProcessesOK
<1>5. HandInv(h)'
  BY <1>2, <1>4 DEF HandInv, GUARDED, KEEPING, PROVEN
<1>6. Fresh => slot'["app"] \notin Bundle
  BY DEF Fresh, GUARDED, KEEPING
<1>7. FenceInv'
  BY <1>2, <1>3, <1>6, FenceStays
<1> QED
  BY <1>3, <1>5, <1>7, AdvanceStep

\* A transaction begins with what the application's place holds.
LEMMA BeginStep ==
  ASSUME IInv, NEW h \in Hand, BeginFirst(h) \/ BeginUpdate(h) \/ BeginInstall(h) \/ BeginRestore(h)
  PROVE  IInv'
<1>1. PICK op \in {"first", "update", "install", "restore"} :
        Begins(h, op) /\ (op = "first" => slot["app"] = Empty) /\ (op # "first" => slot["app"] \in Bundle)
  BY DEF BeginFirst, BeginUpdate, BeginInstall, BeginRestore
<1>2. PICK r : r = [Resting("nothing") EXCEPT !.op = op, !.step = "begun", !.was = slot["app"]]
  OBVIOUS
<1>3. Resting("nothing") \in Transaction /\ Resting("nothing").cand = Empty
  BY Shapes
<1>4. /\ r \in Transaction /\ r.op = op /\ r.step = "begun" /\ r.was = slot["app"] /\ r.cand = Empty
  BY <1>1, <1>2, <1>3 DEF Transaction
<1>5. /\ UNCHANGED <<slot, fence, lock, store, registry, daemon, window, mishaps, copies, meddled>>
      /\ hand' = [hand EXCEPT ![h] = r]
  BY <1>1, <1>2 DEF Begins, rest
<1>6. Others(h) /\ Stays
  BY <1>5, Locks, Moves DEF IInv
<1>7. Advances(h, r)
  BY <1>4, <1>5, <1>6 DEF Advances, IInv, TypeOK, FilesOK, Kept
<1>8. hand'[h] = r
  BY <1>5 DEF IInv, TypeOK, ProcessesOK
<1>9. HandInv(h)'
  BY <1>1, <1>4, <1>8 DEF HandInv, GUARDED, KEEPING, PROVEN
<1>10. Fresh => op = "first" /\ slot'["app"] \notin Bundle
  BY <1>1, <1>5 DEF Fresh
<1>11. FenceInv'
  BY <1>4, <1>5, <1>7, <1>10, FenceStays
<1> QED
  BY <1>7, <1>9, <1>11, AdvanceStep

\* All locks or nothing.
LEMMA GuardStep ==
  ASSUME IInv, NEW h \in Hand, GuardInstall(h) \/ GuardRestore(h)
  PROVE  IInv'
<1>1. hand[h].step = "begun" /\ UNCHANGED <<slot, fence, store, registry, daemon, window, mishaps, copies, meddled>>
  BY DEF GuardInstall, GuardRestore, Guard, At, rest
<1>2. Stays /\ mishaps' \in 0..MaxMishaps
  BY <1>1, Moves DEF IInv, TypeOK, FilesOK
<1>3. \/ Reports(h, "kept")
      \/ \E step, cand :
           /\ AllFree(Lock) /\ lock' = Acquire(h, Lock)
           /\ hand' = [hand EXCEPT ![h].step = step, ![h].was = slot["app"], ![h].cand = cand]
           /\ \/ step = "guarded" /\ cand = Empty /\ hand[h].op = "first" /\ slot["app"] = Empty
              \/ step = "guarded" /\ cand = Empty /\ hand[h].op = "install" /\ slot["app"] \in Bundle
              \/ /\ step = "staged" /\ cand = slot["previous"] /\ hand[h].op = "restore"
                 /\ slot["app"] \in Bundle /\ slot["previous"] \in Bundle
  BY DEF GuardInstall, GuardRestore, Guard, GuardLocks, FirstAdmissible, InstallAdmissible, RestoreAdmissible
<1>4. CASE Reports(h, "kept")
  BY <1>1, <1>2, <1>4, Ending
<1>5. ASSUME NEW step, NEW cand,
             AllFree(Lock), lock' = Acquire(h, Lock),
             hand' = [hand EXCEPT ![h].step = step, ![h].was = slot["app"], ![h].cand = cand],
             \/ step = "guarded" /\ cand = Empty /\ hand[h].op = "first" /\ slot["app"] = Empty
             \/ step = "guarded" /\ cand = Empty /\ hand[h].op = "install" /\ slot["app"] \in Bundle
             \/ /\ step = "staged" /\ cand = slot["previous"] /\ hand[h].op = "restore"
                /\ slot["app"] \in Bundle /\ slot["previous"] \in Bundle
      PROVE  IInv'
  <2>1. PICK r : r = [hand[h] EXCEPT !.step = step, !.was = slot["app"], !.cand = cand]
    OBVIOUS
  <2>2. hand' = [hand EXCEPT ![h] = r]
    BY <1>5, <2>1 DEF IInv, TypeOK, ProcessesOK
  <2>3. /\ r \in Transaction /\ r.op = hand[h].op /\ r.step = step /\ r.was = slot["app"] /\ r.cand = cand
    BY ZenonT(40), <1>5, <2>1 DEF IInv, TypeOK, ProcessesOK, Transaction
  <2>4. Others(h) /\ \A l \in Lock : lock'[l] = h
    BY <1>5, Locks DEF IInv
  <2>5. Advances(h, r)
    BY <1>1, <1>2, <2>2, <2>3, <2>4 DEF Advances, IInv, TypeOK, FilesOK, Kept
  <2>6. hand'[h] = r
    BY <2>2 DEF IInv, TypeOK, ProcessesOK
  <2>7. step = "staged" => cand \in Bundle /\ slot["app"] # cand
    BY <1>5 DEF IInv, SlotInv, Slot
  <2>8. HandInv(h)'
    BY <1>1, <1>5, <2>3, <2>4, <2>6, <2>7 DEF HandInv, GUARDED, KEEPING, PROVEN
  <2>9. Fresh => slot'["app"] \notin Bundle /\ r.op = "first" /\ step = "guarded"
    BY <1>1, <1>5, <2>3 DEF Fresh
  <2>10. FenceInv'
    BY <1>1, <2>3, <2>5, <2>9, FenceStays
  <2> QED
    BY <2>5, <2>8, <2>10, AdvanceStep
<1> QED
  BY <1>3, <1>4, <1>5

\* The record of a transaction after a step that keeps its kind and the
\* displaced release.
LEMMA NextRecord ==
  ASSUME IInv, NEW h \in Hand,
         NEW step \in {"retiring"} \cup GUARDED, hand' = [hand EXCEPT ![h].step = step]
  PROVE  \E r \in Transaction :
           /\ hand' = [hand EXCEPT ![h] = r] /\ hand'[h] = r /\ r.step = step
           /\ r.op = hand[h].op /\ r.was = hand[h].was /\ r.cand = hand[h].cand
           /\ r.capsule = hand[h].capsule /\ r.seen = hand[h].seen
<1>1. hand \in [Hand -> Transaction] /\ hand[h] \in Transaction
  BY DEF IInv, TypeOK, ProcessesOK
<1>2. PICK r : r = [hand[h] EXCEPT !.step = step]
  OBVIOUS
<1>3. /\ r \in Transaction /\ r.step = step
      /\ r.op = hand[h].op /\ r.was = hand[h].was /\ r.cand = hand[h].cand
      /\ r.capsule = hand[h].capsule /\ r.seen = hand[h].seen
  BY <1>1, <1>2 DEF Transaction, GUARDED
<1>4. hand' = [hand EXCEPT ![h] = r] /\ hand'[h] = r
  BY <1>1, <1>2
<1> QED
  BY <1>3, <1>4

\* A transaction with all locks goes on.
LEMMA GuardedStep ==
  ASSUME IInv, NEW h \in Hand, hand[h].step \in GUARDED,
         NEW r \in Transaction, hand' = [hand EXCEPT ![h] = r],
         r.op = hand[h].op, r.was = hand[h].was, r.step \in GUARDED,
         r.step \in KEEPING => r.cand \in Bundle /\ slot'["app"] # r.cand,
         r.step = "guarded" => r.cand = Empty,
         r.step \in PROVEN => store = r.seen /\ (HasState => r.capsule = store),
         r.step = "bound" /\ r.op = "first" => ~HasState,
         UNCHANGED <<fence, lock, store, registry, daemon, window, meddled>>,
         mishaps' \in 0..MaxMishaps, copies' \in 0..MaxBundle, Stays,
         Fresh => slot'["app"] \notin Bundle /\ r.step \in KEEPING
  PROVE  IInv'
<1>1. HandInv(h) /\ hand[h].was \in Kept /\ hand[h] \in Transaction
  BY DEF IInv, SlotInv, TypeOK, ProcessesOK
<1>2. r.was \in Kept'
  BY <1>1 DEF Stays, Transaction
<1>3. Others(h)
  BY Locks DEF IInv
<1>4. Advances(h, r)
  BY <1>2, <1>3 DEF Advances, IInv, TypeOK, FilesOK
<1>5. hand'[h] = r
  BY DEF IInv, TypeOK, ProcessesOK
<1>6. r.step \notin {"idle", "begun", "retiring"} /\ hand[h].step \notin {"idle"}
  BY DEF GUARDED
<1>7. HandInv(h)'
  BY <1>1, <1>5, <1>6 DEF HandInv, HasState
<1>8. Fresh => r.op \in {"none", "first"}
  BY DEF Fresh
<1>9. FenceInv'
  BY <1>4, <1>8, FenceStays
<1> QED
  BY <1>4, <1>7, <1>9, AdvanceStep

\* The directory of a refused candidate goes, or stays.
LEMMA DroppedStep ==
  ASSUME IInv, NEW h \in Hand, hand[h].step \in GUARDED, slot' \in Dropped(h),
         NEW said \in {"kept", "restored"}, Reports(h, said),
         UNCHANGED <<fence, store, registry, daemon, window, rest>>
  PROVE  IInv'
<1>1. slot' = slot \/ slot' = [slot EXCEPT !["staging"] = Empty]
  BY DEF Dropped
<1>2. Stays /\ slot'["app"] = slot["app"]
  BY <1>1, Moves DEF rest
<1>3. hand[h].step # "idle" /\ mishaps' \in 0..MaxMishaps
  BY DEF GUARDED, IInv, TypeOK, FilesOK, rest
<1> QED
  BY <1>2, <1>3, Ending DEF rest

\* A transaction reports, and the directories are as they were.
LEMMA ReportStep ==
  ASSUME IInv, NEW h \in Hand, hand[h].step # "idle", UNCHANGED <<slot, copies, meddled>>,
         NEW said \in {"nothing", "kept", "restored", "recovery", "installed", "unhealthy"}, Reports(h, said),
         UNCHANGED <<fence, store, registry, daemon, window>>, mishaps' \in 0..MaxMishaps
  PROVE  IInv'
<1>1. Stays
  BY Moves
<1> QED
  BY <1>1, Ending

\* run_downloaded_installer() takes the window's locks, then the task's.
LEMMA UpdateLockStep ==
  ASSUME IInv, NEW h \in Hand, Snatch(h) \/ AcquireTaskLocks(h)
  PROVE  IInv'
<1>1. UNCHANGED <<slot, fence, store, registry, daemon, window, mishaps, copies, meddled>>
  BY DEF Snatch, AcquireTaskLocks, rest
<1>2. mishaps' \in 0..MaxMishaps /\ Stays /\ copies' \in 0..MaxBundle
  BY <1>1, Moves DEF IInv, TypeOK, FilesOK
<1>3. hand[h].step \in {"begun", "retiring"}
  BY DEF Snatch, AcquireTaskLocks, At
<1>4. CASE Reports(h, "kept")
  BY <1>1, <1>2, <1>3, <1>4, ReportStep
<1>5. ASSUME NEW wanted \in SUBSET Lock, NEW step \in {"retiring", "guarded"},
             AllFree(wanted), lock' = Acquire(h, wanted), HandGoes(h, step),
             step = "retiring" => wanted = {"app", "native"} /\ hand[h].step = "begun" /\ hand[h].op = "update",
             step = "guarded" => wanted = {"worker", "migration"} /\ hand[h].step = "retiring"
      PROVE  IInv'
  <2>1. step \in {"retiring"} \cup GUARDED /\ hand' = [hand EXCEPT ![h].step = step]
    BY <1>5 DEF GUARDED, HandGoes
  <2>2. PICK r \in Transaction :
           /\ hand' = [hand EXCEPT ![h] = r] /\ hand'[h] = r /\ r.step = step
           /\ r.op = hand[h].op /\ r.was = hand[h].was /\ r.cand = hand[h].cand
           /\ r.capsule = hand[h].capsule /\ r.seen = hand[h].seen
    BY <2>1, NextRecord
  <2>3. HandInv(h) /\ hand[h].was \in Kept /\ hand[h].was \in Bundle \cup {Empty}
    BY DEF IInv, SlotInv, TypeOK, ProcessesOK, Transaction
  <2>4. Others(h) /\ (\A l \in wanted : lock'[l] = h) /\ \A l \in Lock : lock[l] = h => lock'[l] = h
    BY <1>5, Locks DEF IInv
  <2>5. Advances(h, r)
    BY <1>1, <1>2, <2>2, <2>3, <2>4 DEF Advances, IInv, TypeOK, FilesOK, Stays
  <2>6. r.step \in {"retiring", "guarded"} /\ r.cand = Empty /\ r.op # "none"
    BY <1>3, <2>2, <2>3 DEF HandInv
  <2>7. step = "retiring" => lock'["app"] = h /\ lock'["native"] = h
    BY <1>5, <2>4
  <2>8. step = "guarded" => \A l \in Lock : lock'[l] = h
    BY <1>5, <2>3, <2>4 DEF HandInv, Lock
  <2>9. HandInv(h)'
    BY <2>2, <2>6, <2>7, <2>8 DEF HandInv, GUARDED, KEEPING, PROVEN
  <2>10. ~Fresh
    BY <1>5 DEF Fresh, KEEPING
  <2>11. FenceInv'
    BY <1>1, <2>5, <2>10, FenceStays
  <2> QED
    BY <2>5, <2>9, <2>11, AdvanceStep
<1>6. \/ Reports(h, "kept")
      \/ /\ AllFree({"app", "native"}) /\ lock' = Acquire(h, {"app", "native"}) /\ HandGoes(h, "retiring")
         /\ hand[h].step = "begun" /\ hand[h].op = "update"
      \/ /\ AllFree({"worker", "migration"}) /\ lock' = Acquire(h, {"worker", "migration"})
         /\ HandGoes(h, "guarded") /\ hand[h].step = "retiring"
  BY DEF Snatch, AcquireTaskLocks, At
<1>7. {"app", "native"} \in SUBSET Lock /\ {"worker", "migration"} \in SUBSET Lock
  BY DEF Lock
<1> QED
  BY <1>4, <1>5, <1>6, <1>7

\* The candidate of an install or of an update is staged.
LEMMA StageStep ==
  ASSUME IInv, NEW h \in Hand, Stage(h)
  PROVE  IInv'
<1>1. hand[h].step = "guarded" /\ UNCHANGED <<fence, store, registry, daemon, window, mishaps, meddled>>
  BY DEF Stage, At
<1>2. mishaps' \in 0..MaxMishaps
  BY <1>1 DEF IInv, TypeOK, FilesOK
<1>3. CASE Reports(h, "kept") /\ UNCHANGED <<slot, copies>>
  BY <1>1, <1>2, <1>3, ReportStep
<1>4. CASE /\ slot["staging"] = Empty /\ copies' = copies + 1 /\ copies < MaxBundle
           /\ slot' = [slot EXCEPT !["staging"] = copies + 1]
           /\ hand' = [hand EXCEPT ![h].step = "staged", ![h].cand = copies + 1]
           /\ UNCHANGED lock
  <2>1. Stays /\ slot'["app"] = slot["app"] /\ copies + 1 \in Bundle /\ slot["app"] # copies + 1
    BY <1>1, <1>4, Moves
  <2>2. copies' \in 0..MaxBundle
    BY <1>4, ServiceAssumption DEF IInv, TypeOK, FilesOK
  <2>3. PICK r : r = [hand[h] EXCEPT !.step = "staged", !.cand = copies + 1]
    OBVIOUS
  <2>4. /\ r \in Transaction /\ r.op = hand[h].op /\ r.was = hand[h].was /\ r.step = "staged"
        /\ r.cand = copies + 1
    BY <2>1, <2>3 DEF IInv, TypeOK, ProcessesOK, Transaction
  <2>5. hand' = [hand EXCEPT ![h] = r]
    BY <1>4, <2>3 DEF IInv, TypeOK, ProcessesOK
  <2>6. r.step \in GUARDED /\ r.step \in KEEPING /\ r.step \notin PROVEN /\ hand[h].step \in GUARDED
    BY <1>1, <2>4 DEF GUARDED, KEEPING, PROVEN
  <2>7. Fresh => slot'["app"] \notin Bundle
    BY <2>1 DEF Fresh
  <2> QED
    BY <1>1, <1>2, <1>4, <2>1, <2>2, <2>4, <2>5, <2>6, <2>7, GuardedStep
<1> QED
  BY <1>3, <1>4 DEF Stage

\* The proofs before the first move: the candidate starts, the capsule is
\* written, the candidate keeps the journal, both identities hold.
LEMMA CheckStep ==
  ASSUME IInv, NEW h \in Hand, Starts(h) \/ BackUp(h) \/ Keeps(h) \/ Bind(h)
  PROVE  IInv'
<1>1. /\ hand[h].step \in {"staged", "healthy", "backed", "proved"}
      /\ UNCHANGED <<fence, store, registry, daemon, window, mishaps, copies, meddled>>
  BY DEF Starts, BackUp, Keeps, Bind, At, rest
<1>2. mishaps' \in 0..MaxMishaps /\ copies' \in 0..MaxBundle /\ hand[h].step \in KEEPING /\ hand[h].step \in GUARDED
  BY <1>1 DEF IInv, TypeOK, FilesOK, KEEPING, GUARDED
<1>3. CASE Refuses(h)
  BY <1>1, <1>2, <1>3, DroppedStep DEF Refuses, rest
<1>4. CASE Bind(h) /\ Reports(h, "kept")
  BY <1>1, <1>2, <1>4, ReportStep DEF Bind, GUARDED
<1>5. ASSUME NEW step \in {"healthy", "backed", "proved", "bound"}, NEW capsule \in Store, NEW seen \in Store,
             hand' = [hand EXCEPT ![h].step = step, ![h].capsule = capsule, ![h].seen = seen],
             UNCHANGED <<slot, lock>>,
             step \in {"proved", "bound"} => seen = store /\ (HasState => capsule = store),
             step = "bound" /\ hand[h].op = "first" => ~HasState
      PROVE  IInv'
  <2>1. Stays /\ slot'["app"] = slot["app"]
    BY <1>1, <1>5, Moves
  <2>2. PICK r : r = [hand[h] EXCEPT !.step = step, !.capsule = capsule, !.seen = seen]
    OBVIOUS
  <2>3. /\ r \in Transaction /\ r.op = hand[h].op /\ r.was = hand[h].was /\ r.step = step
        /\ r.cand = hand[h].cand /\ r.capsule = capsule /\ r.seen = seen
    BY <1>5, <2>2 DEF IInv, TypeOK, ProcessesOK, Transaction
  <2>4. hand' = [hand EXCEPT ![h] = r]
    BY <1>5, <2>2 DEF IInv, TypeOK, ProcessesOK
  <2>5. /\ r.step \in GUARDED /\ r.step \in KEEPING /\ r.step # "guarded"
        /\ r.step \in PROVEN => r.step \in {"proved", "bound"}
    BY <2>3 DEF GUARDED, KEEPING, PROVEN
  <2>6. r.cand \in Bundle /\ slot'["app"] # r.cand
    BY <1>2, <2>1, <2>3 DEF IInv, HandInv
  <2>7. Fresh => slot'["app"] \notin Bundle
    BY <2>1 DEF Fresh
  <2>8. r.step \in PROVEN => store = r.seen /\ (HasState => r.capsule = store)
    BY <1>5, <2>3, <2>5
  <2>9. r.step = "bound" /\ r.op = "first" => ~HasState
    BY <1>5, <2>3
  <2> QED
    BY <1>1, <1>2, <1>5, <2>1, <2>3, <2>4, <2>5, <2>6, <2>7, <2>8, <2>9, GuardedStep
<1>6. /\ hand \in [Hand -> Transaction] /\ hand[h].capsule \in Store /\ hand[h].seen \in Store
      /\ store \in Store /\ NoStore \in Store
  BY Shapes DEF IInv, TypeOK, FilesOK, ProcessesOK, Transaction
<1>7. CASE Starts(h) /\ ~Refuses(h)
  <2>1. hand' = [hand EXCEPT ![h].step = "healthy", ![h].capsule = hand[h].capsule, ![h].seen = hand[h].seen]
    BY <1>6, <1>7 DEF Starts, HandGoes, Transaction
  <2> QED
    BY <1>5, <1>6, <1>7, <2>1 DEF Starts
<1>8. CASE BackUp(h) /\ ~Refuses(h)
  <2>1. PICK capsule \in Store : hand' = [hand EXCEPT ![h].step = "backed", ![h].capsule = capsule]
    BY <1>6, <1>8 DEF BackUp
  <2>2. hand' = [hand EXCEPT ![h].step = "backed", ![h].capsule = capsule, ![h].seen = hand[h].seen]
    BY <1>6, <2>1 DEF Transaction
  <2> QED
    BY <1>5, <1>6, <1>8, <2>2 DEF BackUp
<1>9. CASE Keeps(h) /\ ~Refuses(h)
  <2>1. hand' = [hand EXCEPT ![h].step = "proved", ![h].seen = store]
    BY <1>9 DEF Keeps
  <2>2. hand' = [hand EXCEPT ![h].step = "proved", ![h].capsule = hand[h].capsule, ![h].seen = store]
    BY <1>6, <2>1 DEF Transaction
  <2> QED
    BY <1>5, <1>6, <1>9, <2>2 DEF Keeps
<1>10. CASE Bind(h) /\ ~Reports(h, "kept")
  <2>1. hand' = [hand EXCEPT ![h].step = "bound", ![h].capsule = hand[h].capsule, ![h].seen = hand[h].seen]
    BY <1>6, <1>10 DEF Bind, HandGoes, Transaction
  <2>2. hand[h].step \in PROVEN
    BY <1>10 DEF Bind, At, PROVEN
  <2>3. store = hand[h].seen /\ (HasState => hand[h].capsule = store)
    BY <2>2 DEF IInv, HandInv
  <2> QED
    BY <1>5, <1>6, <1>10, <2>1, <2>3 DEF Bind
<1> QED
  BY <1>3, <1>4, <1>7, <1>8, <1>9, <1>10

\* The fence of a first install is durable before the application is there:
\* from then on the machine is a fresh one, without a service or a window.
LEMMA CreateFenceStep ==
  ASSUME IInv, NEW h \in Hand, CreateFence(h)
  PROVE  IInv'
<1>1. /\ hand[h].step = "bound" /\ hand[h].op = "first"
      /\ UNCHANGED <<slot, store, registry, daemon, window, mishaps, copies, meddled>>
  BY DEF CreateFence, At, rest
<1>2. mishaps' \in 0..MaxMishaps /\ copies' \in 0..MaxBundle /\ Stays
  BY <1>1, Moves DEF IInv, TypeOK, FilesOK
<1>3. CASE Reports(h, "kept") /\ UNCHANGED fence
  BY <1>1, <1>2, <1>3, ReportStep
<1>4. CASE /\ fence.status = "none" /\ fence' = [status |-> "pending", tag |-> Cand(h)]
           /\ HandGoes(h, "parked") /\ UNCHANGED lock
  <2>1. HandInv(h) /\ ~HasState /\ hand[h].cand \in Bundle
    BY <1>1 DEF IInv, HandInv, KEEPING
  <2>2. Fresh
    BY <1>4, <2>1 DEF IInv, FenceInv, HasState, TypeOK, FilesOK, Store
  <2>3. fence' \in [status : {"none", "pending", "torn", "complete"}, tag : Bundle \cup {Empty}]
    BY <1>4, <2>1 DEF Cand
  <2>4. PICK r \in Transaction :
           /\ hand' = [hand EXCEPT ![h] = r] /\ hand'[h] = r /\ r.step = "parked"
           /\ r.op = hand[h].op /\ r.was = hand[h].was /\ r.cand = hand[h].cand
           /\ r.capsule = hand[h].capsule /\ r.seen = hand[h].seen
    <3>1. hand' = [hand EXCEPT ![h].step = "parked"] /\ "parked" \in {"retiring"} \cup GUARDED
      BY <1>4 DEF HandGoes, GUARDED
    <3> QED
      BY <3>1, NextRecord
  <2>5. Others(h)
    BY <1>4, Locks DEF IInv
  <2>6. hand[h].was \in Kept /\ hand[h].was \in Bundle \cup {Empty}
    BY DEF IInv, SlotInv, TypeOK, ProcessesOK, Transaction
  <2>7. Advances(h, r)
    BY <1>1, <1>2, <2>3, <2>4, <2>5, <2>6 DEF Advances, Stays
  <2>8. HandInv(h)'
    BY <1>1, <1>4, <2>1, <2>4 DEF HandInv, HasState, GUARDED, KEEPING, PROVEN
  <2>9. FenceInv'
    BY <1>1, <1>4, <2>2, Shapes DEF Fresh, FenceInv, Pending
  <2> QED
    BY <2>7, <2>8, <2>9, AdvanceStep
<1> QED
  BY <1>3, <1>4 DEF CreateFence

\* From the first move on nothing is fresh: a fence was made, or there was a
\* release before.
LEMMA NotFresh ==
  ASSUME IInv, NEW h \in Hand,
         hand[h].step \in (GUARDED \ KEEPING) \ {"guarded"} \/ (hand[h].step = "bound" /\ hand[h].op # "first")
  PROVE  ~Fresh
<1>1. hand[h].op # "none"
  BY DEF IInv, HandInv, GUARDED, KEEPING
<1> QED
  BY <1>1 DEF Fresh, GUARDED, KEEPING

\* A transaction with its proofs makes a move or notes that it failed.
LEMMA MovedStep ==
  ASSUME IInv, NEW h \in Hand,
         hand[h].step \in (GUARDED \ KEEPING) \ {"guarded"} \/ (hand[h].step = "bound" /\ hand[h].op # "first"),
         NEW step \in {"parked", "active", "stuck", "unparked", "rejected", "reinstated"}, HandGoes(h, step),
         UNCHANGED <<fence, lock, store, registry, daemon, window, copies, meddled>>,
         mishaps' \in 0..MaxMishaps, Stays
  PROVE  IInv'
<1>1. hand' = [hand EXCEPT ![h].step = step] /\ step \in {"retiring"} \cup GUARDED
  BY DEF HandGoes, GUARDED
<1>2. PICK r \in Transaction :
         /\ hand' = [hand EXCEPT ![h] = r] /\ hand'[h] = r /\ r.step = step
         /\ r.op = hand[h].op /\ r.was = hand[h].was /\ r.cand = hand[h].cand
         /\ r.capsule = hand[h].capsule /\ r.seen = hand[h].seen
  BY <1>1, NextRecord
<1>3. HandInv(h) /\ hand[h].step \in PROVEN /\ hand[h].step \in GUARDED /\ copies' \in 0..MaxBundle
  BY DEF IInv, TypeOK, FilesOK, PROVEN, GUARDED, KEEPING
<1>4. store = r.seen /\ (HasState => r.capsule = store)
  BY <1>2, <1>3 DEF HandInv
<1>5. r.step \in GUARDED /\ r.step \notin KEEPING /\ r.step \notin {"guarded", "bound"}
  BY <1>2 DEF GUARDED, KEEPING
<1>6. ~Fresh
  BY NotFresh
<1> QED
  BY <1>2, <1>3, <1>4, <1>5, <1>6, GuardedStep

\* The renames of the directories go to places that hold no release.
LEMMA MoveStep ==
  ASSUME IInv, NEW h \in Hand,
         MoveOld(h) \/ MoveNew(h) \/ Compensate(h) \/ Compensated(h) \/ Quarantine(h) \/ Reinstate(h)
  PROVE  IInv'
<1>1. /\ hand[h].step \in (GUARDED \ KEEPING) \ {"guarded"} \/ (hand[h].step = "bound" /\ hand[h].op # "first")
      /\ UNCHANGED <<fence, store, registry, daemon, window, copies, meddled>>
  BY DEF MoveOld, MoveNew, Compensate, Compensated, Quarantine, Reinstate, At, GUARDED, KEEPING, rest
<1>2. mishaps' \in 0..MaxMishaps
  <2>1. mishaps \in 0..MaxMishaps /\ MaxMishaps \in Nat
    BY ServiceAssumption DEF IInv, TypeOK, FilesOK
  <2>2. mishaps' = mishaps \/ (mishaps' = mishaps + 1 /\ (mishaps < MaxMishaps))
    <3>1. CASE MoveOld(h)
      BY <3>1, Places DEF MoveOld, Lands
    <3>2. CASE MoveNew(h)
      BY <3>2 DEF MoveNew
    <3>3. CASE Compensate(h) \/ Compensated(h) \/ Quarantine(h)
      BY <3>3 DEF Compensate, Compensated, Quarantine, rest
    <3>4. CASE Reinstate(h)
      BY <3>4 DEF Reinstate
    <3> QED
      BY <3>1, <3>2, <3>3, <3>4
  <2> QED
    BY <2>1, <2>2
<1>3. hand[h].step # "idle" /\ hand[h].step \in GUARDED
  BY <1>1 DEF GUARDED
<1>4. ASSUME NEW said \in {"kept", "restored", "recovery"}, Reports(h, said), UNCHANGED slot PROVE IInv'
  BY <1>1, <1>2, <1>3, <1>4, ReportStep
<1>5. ASSUME NEW said \in {"kept", "restored"}, Reports(h, said), slot' \in Dropped(h), UNCHANGED mishaps PROVE IInv'
  BY <1>1, <1>3, <1>5, DroppedStep DEF rest
<1>6. ASSUME NEW step \in {"parked", "active", "stuck", "unparked", "rejected", "reinstated"}, HandGoes(h, step),
             UNCHANGED lock, Stays
      PROVE  IInv'
  BY <1>1, <1>2, <1>6, MovedStep
<1>7. UNCHANGED slot => Stays
  BY <1>1, Moves
<1>8. ASSUME NEW from \in Slot, NEW to \in {"app", "previous", "failed"}, from # to, slot[to] \notin Bundle,
             slot' = Move(from, to)
      PROVE  Stays
  BY <1>1, <1>8, Moves
<1>9. /\ From(h) \in {"previous", "staging"} /\ Park(h) \in {"previous", "failed"}
      /\ Reject(h) \in {"previous", "failed"} /\ Slot = {"app", "staging", "previous", "failed"}
      /\ Empty \notin Bundle /\ Foreign \notin Bundle
  BY Places, Processes
<1>10. CASE MoveOld(h)
  <2>1. CASE Lands(h, Park(h)) /\ slot' = Move("app", Park(h)) /\ HandGoes(h, "parked") /\ UNCHANGED lock
    <3>1. Stays
      BY <1>8, <1>9, <2>1 DEF Lands
    <3> QED
      BY <1>6, <2>1, <3>1
  <2>2. CASE UNCHANGED slot /\ (Reports(h, "kept") \/ (HandGoes(h, "stuck") /\ UNCHANGED lock))
    BY <1>4, <1>6, <1>7, <2>2
  <2> QED
    BY <1>10, <2>1, <2>2 DEF MoveOld
<1>11. CASE MoveNew(h)
  <2>1. CASE Lands(h, "app") /\ slot' = Move(From(h), "app") /\ HandGoes(h, "active")
    <3>1. Stays
      BY <1>8, <1>9, <2>1 DEF Lands
    <3> QED
      BY <1>6, <1>11, <2>1, <3>1 DEF MoveNew
  <2>2. CASE UNCHANGED slot /\ HandGoes(h, "stuck")
    BY <1>6, <1>7, <1>11, <2>2 DEF MoveNew
  <2> QED
    BY <1>11, <2>1, <2>2 DEF MoveNew
<1>12. CASE Compensate(h) \/ Compensated(h)
  <2>1. CASE slot' \in Dropped(h) /\ Reports(h, "restored")
    BY <1>5, <1>12, <2>1 DEF Compensate, Compensated, rest
  <2>2. CASE Moved(h) /\ slot' = Move(Park(h), "app") /\ HandGoes(h, "unparked") /\ UNCHANGED lock
    <3>1. Stays
      BY <1>8, <1>9, <2>2 DEF Moved
    <3> QED
      BY <1>6, <2>2, <3>1
  <2>3. CASE Reports(h, "recovery") /\ UNCHANGED slot
    BY <1>4, <2>3
  <2> QED
    BY <1>12, <2>1, <2>2, <2>3 DEF Compensate, Compensated
<1>13. CASE Quarantine(h)
  <2>1. CASE slot[Reject(h)] = Empty /\ slot' = Move("app", Reject(h)) /\ HandGoes(h, "rejected") /\ UNCHANGED lock
    <3>1. Stays
      BY <1>8, <1>9, <2>1
    <3> QED
      BY <1>6, <2>1, <3>1
  <2>2. CASE Reports(h, "recovery") /\ UNCHANGED slot
    BY <1>4, <2>2
  <2> QED
    BY <1>13, <2>1, <2>2 DEF Quarantine
<1>14. CASE Reinstate(h)
  <2>1. CASE slot["app"] = Empty /\ slot' = Move(Park(h), "app") /\ HandGoes(h, "reinstated") /\ UNCHANGED lock
    <3>1. Stays
      BY <1>8, <1>9, <2>1
    <3> QED
      BY <1>6, <2>1, <3>1
  <2>2. CASE slot["app"] = Empty /\ slot' = Move(Reject(h), "app") /\ Reports(h, "recovery")
    <3>1. Stays
      BY <1>8, <1>9, <2>2
    <3>2. hand[h].step \in GUARDED \ (KEEPING \cup {"guarded"})
      BY <1>14 DEF Reinstate, At, GUARDED, KEEPING
    <3> QED
      BY <1>1, <1>2, <1>3, <2>2, <3>1, <3>2, Ending
  <2>3. CASE Reports(h, "recovery") /\ UNCHANGED slot
    BY <1>4, <2>3
  <2> QED
    BY <1>14, <2>1, <2>2, <2>3 DEF Reinstate
<1> QED
  BY <1>10, <1>11, <1>12, <1>13, <1>14

\* The verdicts at the final path, and the death of a transaction.
LEMMA VerdictStep ==
  ASSUME IInv, NEW h \in Hand, Confirm(h) \/ Reviewed(h) \/ KillHand(h)
  PROVE  IInv'
<1>1. hand[h].step # "idle" /\ UNCHANGED <<slot, fence, store, registry, daemon, window, copies, meddled>>
  BY DEF Confirm, Reviewed, KillHand, At, rest
<1>2. mishaps' \in 0..MaxMishaps
  <2>1. mishaps \in 0..MaxMishaps /\ MaxMishaps \in Nat
    BY ServiceAssumption DEF IInv, TypeOK, FilesOK
  <2>2. mishaps' = mishaps \/ (mishaps' = mishaps + 1 /\ (mishaps < MaxMishaps))
    BY DEF Confirm, Reviewed, KillHand, Mishap, rest
  <2> QED
    BY <2>1, <2>2
<1>3. \E said \in {"nothing", "recovery", "installed", "unhealthy"} : Reports(h, said)
  BY DEF Confirm, Reviewed, KillHand
<1> QED
  BY <1>1, <1>2, <1>3, ReportStep

-----------------------------------------------------------------------------
(* The steps of a service.                                                   *)

\* A step of a service, which holds the worker's lock if it writes.
Acts(d, r) ==
  /\ UNCHANGED <<slot, hand, copies, meddled>>
  /\ daemon' = [daemon EXCEPT ![d] = r] /\ r \in Served /\ daemon[d] # Down
  /\ Others(d) /\ store' \in Store /\ registry' \in Daemon \cup {Nobody, Stale}
  /\ fence' \in [status : {"none", "pending", "torn", "complete"}, tag : Bundle \cup {Empty}]
  /\ mishaps' \in 0..MaxMishaps /\ window' \in [Window -> Shown]
  /\ \A w \in Window : window'[w] = window[w] \/ window'[w].step = "heard"
  /\ \/ lock["worker"] = d
     \/ UNCHANGED store /\ (registry' # Nobody => registry # Nobody)

\* Such a step leaves the transactions, the other services and the windows alone.
LEMMA ActStep ==
  ASSUME IInv, NEW d \in Daemon, NEW r, Acts(d, r), DaemonInv(d)', FenceInv'
  PROVE  IInv'
<1>1. daemon' \in [Daemon -> Served] /\ daemon'[d] = r /\ \A e \in Daemon \ {d} : daemon'[e] = daemon[e]
  BY DEF IInv, TypeOK, ProcessesOK, Acts
<1>2. TypeOK'
  BY <1>1 DEF IInv, TypeOK, FilesOK, ProcessesOK, Acts, Others
<1>3. SlotInv'
  BY DEF IInv, SlotInv, Acts, Kept
<1>4. ASSUME NEW g \in Hand PROVE HandInv(g)'
  <2>1. HandInv(g) /\ hand'[g] = hand[g] /\ UNCHANGED slot
    BY DEF IInv, Acts
  <2>2. \A l \in Lock : lock[l] = g => lock'[l] = g
    BY Processes DEF Acts, Others
  <2>3. hand[g].step \in GUARDED => UNCHANGED store /\ (registry' # Nobody => registry # Nobody)
    <3>1. hand[g].step \in GUARDED => lock["worker"] = g
      BY <2>1 DEF HandInv, Lock
    <3>2. g # d
      BY Processes
    <3> QED
      BY <3>1, <3>2 DEF Acts
  <2>4. hand[g].step \in PROVEN => hand[g].step \in GUARDED
    BY DEF PROVEN, GUARDED
  <2>5. hand[g].step = "bound" => hand[g].step \in GUARDED
    BY DEF GUARDED
  <2>6. "app" \in Lock /\ "native" \in Lock
    BY DEF Lock
  <2>7. hand[g].step \in PROVEN => store' = hand[g].seen /\ (HasState' => hand[g].capsule = store')
    BY <2>1, <2>3, <2>4 DEF HandInv, HasState
  <2>8. hand[g].step = "bound" /\ hand[g].op = "first" => ~HasState'
    BY <2>1, <2>3, <2>5 DEF HandInv, HasState
  <2> QED
    BY <2>1, <2>2, <2>6, <2>7, <2>8 DEF HandInv
<1>5. ASSUME NEW e \in Daemon \ {d} PROVE DaemonInv(e)'
  <2>1. DaemonInv(e) /\ daemon'[e] = daemon[e]
    BY <1>1 DEF IInv
  <2>2. \A l \in Lock : lock[l] = e => lock'[l] = e
    BY DEF Acts, Others
  <2>3. lock["worker"] = e => UNCHANGED store
    BY DEF Acts
  <2> QED
    BY <2>1, <2>2, <2>3 DEF DaemonInv, Strict, Lock
<1>6. ASSUME NEW w \in Window PROVE WindowInv(w)'
  BY DEF IInv, WindowInv, Acts
<1> QED
  BY <1>2, <1>3, <1>4, <1>5, <1>6 DEF IInv

\* The fence stands as it was: a service only adds to the store, and under a
\* pending fence it is a strict child that has not completed it.
LEMMA FenceActs ==
  ASSUME IInv, NEW d \in Daemon, NEW r, Acts(d, r),
         fence' = fence \/ (Pending /\ Pending'),
         store'.writes > 0 \/ store'.writes = store.writes,
         store'.made = store.made \/ store.made # Whole,
         Pending => /\ UNCHANGED <<registry, window>> /\ store'.writes = store.writes
                    /\ r.step = "down" \/ (r.seen # NoRecord /\ r.step \in STRICT \cup {"spawned"})
  PROVE  FenceInv'
<1>1. FenceInv /\ daemon'[d] = r /\ \A e \in Daemon \ {d} : daemon'[e] = daemon[e]
  BY DEF IInv, TypeOK, ProcessesOK, Acts
<1>2. ~Fresh
  BY DEF Acts, Fresh
<1>3. fence'.status = "none" => store'.writes > 0
  BY <1>1, <1>2 DEF FenceInv, Pending, IInv, TypeOK, FilesOK, Store
<1>4. fence'.status = "complete" => store'.made = Whole
  BY <1>1 DEF FenceInv, Pending
<1>5. Pending' => Pending
  BY DEF Pending
<1>6. ASSUME Pending
      PROVE  /\ store'.writes = 0 /\ registry' = Nobody
             /\ \A e \in Daemon : daemon'[e].step = "down" \/ (Strict(e)' /\ daemon'[e].step \in STRICT \cup {"spawned"})
             /\ \A w \in Window : window'[w].step \notin {"ordinary", "starting", "waiting"}
  BY <1>1, <1>6 DEF FenceInv, Strict
<1> QED
  BY <1>3, <1>4, <1>5, <1>6 DEF FenceInv

\* The record of a service after a step that changes only where it is.
LEMMA NextService ==
  ASSUME IInv, NEW d \in Daemon, NEW step, Goes(d, step),
         step \in {"owned", "app", "worker", "migration", "preparing", "prepared", "committed", "acking", "serving",
                   "stopping", "retired"}
  PROVE  \E r \in Served :
           /\ daemon' = [daemon EXCEPT ![d] = r] /\ daemon'[d] = r /\ r.step = step
           /\ r.bundle = daemon[d].bundle /\ r.key = daemon[d].key /\ r.seen = daemon[d].seen
<1>1. daemon \in [Daemon -> Served] /\ daemon[d] \in Served
  BY DEF IInv, TypeOK, ProcessesOK
<1>2. PICK r : r = [daemon[d] EXCEPT !.step = step]
  OBVIOUS
<1>3. /\ r \in Served /\ r.step = step
      /\ r.bundle = daemon[d].bundle /\ r.key = daemon[d].key /\ r.seen = daemon[d].seen
  BY <1>1, <1>2 DEF Served
<1>4. daemon' = [daemon EXCEPT ![d] = r] /\ daemon'[d] = r
  BY <1>1, <1>2 DEF Goes
<1> QED
  BY <1>3, <1>4

\* A service ends: its locks are free, and what it wrote stays.
LEMMA ExitStep ==
  ASSUME IInv, NEW d \in Daemon, daemon[d] # Down, Exits(d),
         UNCHANGED <<slot, store, hand, window, copies, meddled>>, mishaps' \in 0..MaxMishaps,
         fence' = fence \/ (Pending /\ fence' = [fence EXCEPT !.status = "torn"]),
         registry' = registry \/ (registry = d /\ registry' = Stale)
  PROVE  IInv'
<1>1. Others(d)
  BY Locks DEF IInv, Exits
<1>2. daemon' = [daemon EXCEPT ![d] = Down] /\ Down \in Served /\ Down.step = "down" /\ Down.seen = NoRecord
  BY Shapes DEF Exits
<1>3. registry' # Nobody => registry # Nobody
  BY Processes
<1>4. Acts(d, Down)
  BY <1>1, <1>2, <1>3 DEF Acts, IInv, TypeOK, FilesOK, ProcessesOK
<1>5. daemon'[d] = Down
  BY <1>2 DEF IInv, TypeOK, ProcessesOK
<1>6. DaemonInv(d)'
  BY <1>2, <1>5 DEF DaemonInv, Strict, STRICT
<1>7. Pending => registry' = registry
  BY Processes DEF IInv, FenceInv
<1>8. fence' = fence \/ (Pending /\ Pending')
  BY DEF Pending, IInv, TypeOK, FilesOK
<1>9. FenceInv'
  BY <1>2, <1>4, <1>7, <1>8, FenceActs
<1> QED
  BY <1>4, <1>6, <1>9, ActStep

\* The journal's writes are counted, and keep what the store has.
LEMMA Writes ==
  ASSUME TypeOK, NEW k \in Key \cup {NoKey}
  PROVE  Wrote(k) \in Store /\ Wrote(k).made = store.made /\ Wrote(k).key = k /\ Wrote(k).writes > 0
<1>1. store \in Store /\ MaxWrites \in Nat \ {0, 1}
  BY ServiceAssumption DEF TypeOK, FilesOK
<1>2. PICK n : n = IF store.writes < MaxWrites THEN store.writes + 1 ELSE 1
  OBVIOUS
<1>3. n \in 0..MaxWrites /\ n > 0
  BY <1>1, <1>2 DEF Store
<1>4. Wrote(k) = [store EXCEPT !.key = k, !.writes = n]
  BY <1>1, <1>2 DEF Wrote, Store
<1> QED
  BY <1>1, <1>3, <1>4 DEF Store

\* An ordinary service takes the worker's lock, writes its schema, registers
\* and works until it is asked to end and lets its locks go.
LEMMA ServiceSteps ==
  ASSUME IInv, NEW d \in Daemon, ServiceStep(d)
  PROVE  IInv'
<1>1. /\ TypeOK /\ DaemonInv(d) /\ FenceInv /\ daemon[d] \in Served
      /\ mishaps \in 0..MaxMishaps /\ daemon \in [Daemon -> Served] /\ store \in Store
      /\ window \in [Window -> Shown] /\ registry \in Daemon \cup {Nobody, Stale}
      /\ fence \in [status : {"none", "pending", "torn", "complete"}, tag : Bundle \cup {Empty}]
  BY DEF IInv, TypeOK, FilesOK, ProcessesOK
<1>2. /\ UNCHANGED <<slot, fence, hand, window, mishaps, copies, meddled>> /\ daemon[d].step # "down"
      /\ daemon[d] # Down
  BY Shapes DEF ServiceStep, Own, Construct, Publish, Work, CloseLocks, Unregister, rest
<1>3. ~Pending
  <2>1. CASE ~Strict(d)
    BY <1>1, <1>2, <2>1 DEF FenceInv
  <2>2. CASE daemon[d].step \in {"built", "serving", "stopping", "retired"}
    BY <1>1, <2>2 DEF FenceInv, STRICT
  <2> QED
    BY <2>1, <2>2 DEF ServiceStep, Own, Construct, Publish, Work, CloseLocks, Unregister
<1>4. UNCHANGED lock => Others(d)
  BY <1>1, Locks
<1>5. CASE Own(d) /\ Exits(d)
  BY <1>1, <1>2, <1>5, ExitStep DEF Own
<1>6. CASE Own(d) /\ ~Exits(d)
  <2>1. lock["worker"] = Nobody /\ lock' = Acquire(d, {"worker"}) /\ Goes(d, "owned") /\ UNCHANGED <<store, registry>>
        /\ daemon[d].step = "spawned" /\ ~Strict(d)
    BY <1>6 DEF Own
  <2>2. PICK r \in Served :
          /\ daemon' = [daemon EXCEPT ![d] = r] /\ daemon'[d] = r /\ r.step = "owned"
          /\ r.bundle = daemon[d].bundle /\ r.key = daemon[d].key /\ r.seen = daemon[d].seen
    BY <2>1, NextService
  <2>3. {"worker"} \in SUBSET Lock /\ AllFree({"worker"})
    BY <2>1 DEF Lock, AllFree
  <2>4. Others(d) /\ lock'["worker"] = d
    BY <1>1, <2>1, <2>3, Locks
  <2>5. Acts(d, r)
    BY <1>1, <1>2, <2>1, <2>2, <2>4 DEF Acts
  <2>6. DaemonInv(d)'
    BY <2>1, <2>2, <2>4 DEF DaemonInv, STRICT, Strict
  <2>7. FenceInv'
    BY <1>2, <1>3, <2>1, <2>5, FenceActs
  <2> QED
    BY <2>5, <2>6, <2>7, ActStep
<1>7. CASE Construct(d)
  <2>1. PICK k \in Key \cup {NoKey} :
          store' = Wrote(k) /\ daemon' = [daemon EXCEPT ![d].step = "built", ![d].key = k]
    BY <1>1, <1>7 DEF Construct, Store
  <2>2. PICK r : r = [daemon[d] EXCEPT !.step = "built", !.key = k]
    OBVIOUS
  <2>3. r \in Served /\ r.step = "built" /\ r.key = k /\ r.seen = daemon[d].seen
    BY <1>1, <2>2 DEF Served
  <2>4. daemon' = [daemon EXCEPT ![d] = r] /\ daemon'[d] = r
    BY <1>1, <2>1, <2>2
  <2>5. lock["worker"] = d /\ UNCHANGED <<lock, registry>> /\ ~Strict(d)
    BY <1>1, <1>7 DEF Construct, DaemonInv
  <2>6. store' \in Store /\ store'.made = store.made /\ store'.key = k /\ store'.writes > 0
    BY <1>1, <2>1, Writes
  <2>7. Acts(d, r)
    BY <1>1, <1>2, <1>4, <2>3, <2>4, <2>5, <2>6 DEF Acts
  <2>8. DaemonInv(d)'
    BY <2>3, <2>4, <2>5, <2>6 DEF DaemonInv, STRICT, Strict
  <2>9. FenceInv'
    BY <1>2, <1>3, <2>6, <2>7, FenceActs
  <2> QED
    BY <2>7, <2>8, <2>9, ActStep
<1>8. CASE Publish(d)
  <2>1. daemon[d].step = "built" /\ registry' = d /\ Goes(d, "serving") /\ UNCHANGED <<lock, store>>
    BY <1>8 DEF Publish
  <2>2. PICK r \in Served :
          /\ daemon' = [daemon EXCEPT ![d] = r] /\ daemon'[d] = r /\ r.step = "serving"
          /\ r.bundle = daemon[d].bundle /\ r.key = daemon[d].key /\ r.seen = daemon[d].seen
    BY <2>1, NextService
  <2>3. lock["worker"] = d /\ daemon[d].key = store.key
    BY <1>1, <2>1 DEF DaemonInv
  <2>4. Acts(d, r)
    BY <1>1, <1>2, <1>4, <2>1, <2>2, <2>3 DEF Acts
  <2>5. DaemonInv(d)'
    BY <1>1, <2>1, <2>2, <2>3 DEF DaemonInv, STRICT, Strict
  <2>6. FenceInv'
    BY <1>2, <1>3, <2>1, <2>4, FenceActs
  <2> QED
    BY <2>4, <2>5, <2>6, ActStep
<1>9. CASE Work(d)
  <2>1. daemon[d].step \in {"serving", "stopping"} /\ store' = Wrote(store.key) /\ UNCHANGED <<lock, registry, daemon>>
    BY <1>9 DEF Work
  <2>2. lock["worker"] = d /\ daemon[d].key = store.key
    BY <1>1, <2>1 DEF DaemonInv
  <2>3. store' \in Store /\ store'.made = store.made /\ store'.key = store.key /\ store'.writes > 0
    BY <1>1, <2>1, Writes DEF Store
  <2>4. daemon' = [daemon EXCEPT ![d] = daemon[d]]
    BY <1>1, <2>1
  <2>5. Acts(d, daemon[d])
    BY <1>1, <1>2, <1>4, <2>1, <2>2, <2>3, <2>4 DEF Acts
  <2>6. DaemonInv(d)'
    BY <1>1, <2>1, <2>3 DEF DaemonInv, STRICT, Strict
  <2>7. FenceInv'
    BY <1>2, <1>3, <2>1, <2>3, <2>5, FenceActs
  <2> QED
    BY <2>5, <2>6, <2>7, ActStep
<1>10. CASE CloseLocks(d)
  <2>1. lock' = Release(d) /\ Goes(d, "retired") /\ UNCHANGED <<store, registry>>
    BY <1>10 DEF CloseLocks
  <2>2. PICK r \in Served :
          /\ daemon' = [daemon EXCEPT ![d] = r] /\ daemon'[d] = r /\ r.step = "retired"
          /\ r.bundle = daemon[d].bundle /\ r.key = daemon[d].key /\ r.seen = daemon[d].seen
    BY <2>1, NextService
  <2>3. Others(d)
    BY <1>1, <2>1, Locks
  <2>4. Acts(d, r)
    BY <1>1, <1>2, <2>1, <2>2, <2>3 DEF Acts
  <2>5. DaemonInv(d)'
    BY <1>1, <2>2 DEF DaemonInv, STRICT, Strict
  <2>6. FenceInv'
    BY <1>2, <1>3, <2>1, <2>4, FenceActs
  <2> QED
    BY <2>4, <2>5, <2>6, ActStep
<1>11. CASE Unregister(d)
  <2>1. daemon' = [daemon EXCEPT ![d] = Down] /\ UNCHANGED <<lock, store>> /\ (registry' = registry \/ registry' = Nobody)
    BY <1>11 DEF Unregister
  <2>2. Acts(d, Down)
    BY <1>1, <1>2, <1>4, <2>1, Shapes DEF Acts
  <2>3. daemon'[d] = Down
    BY <1>1, <2>1
  <2>4. DaemonInv(d)'
    BY <2>3, Shapes DEF DaemonInv, STRICT, Strict
  <2>5. FenceInv'
    BY <1>2, <1>3, <2>1, <2>2, FenceActs
  <2> QED
    BY <2>2, <2>4, <2>5, ActStep
<1> QED
  BY <1>5, <1>6, <1>7, <1>8, <1>9, <1>10, <1>11 DEF ServiceStep

\* The registered service is asked to end.
LEMMA StopStep ==
  ASSUME IInv, NEW d \in Daemon, Stopped(d), UNCHANGED <<slot, fence, lock, store, registry, hand, window, rest>>
  PROVE  IInv'
<1>1. /\ TypeOK /\ DaemonInv(d) /\ FenceInv /\ registry = d /\ daemon[d].step = "serving" /\ Goes(d, "stopping")
  BY DEF IInv, Stopped
<1>2. PICK r \in Served :
        /\ daemon' = [daemon EXCEPT ![d] = r] /\ daemon'[d] = r /\ r.step = "stopping"
        /\ r.bundle = daemon[d].bundle /\ r.key = daemon[d].key /\ r.seen = daemon[d].seen
  BY <1>1, NextService
<1>3. Others(d)
  BY <1>1, Locks
<1>4. daemon[d] # Down
  BY <1>1, Shapes
<1>5. Acts(d, r)
  BY <1>1, <1>2, <1>3, <1>4 DEF Acts, TypeOK, FilesOK, ProcessesOK, rest
<1>6. DaemonInv(d)'
  BY <1>1, <1>2 DEF DaemonInv, STRICT, Strict
<1>7. ~Pending
  BY <1>1, Processes DEF FenceInv
<1>8. FenceInv'
  BY <1>5, <1>7, FenceActs
<1> QED
  BY <1>5, <1>6, <1>8, ActStep

-----------------------------------------------------------------------------
(* The steps of the strict child.                                            *)

\* A child that verified its record has an empty root or a whole one, which is
\* the one of the record.
LEMMA VerifiedRoot ==
  ASSUME NEW d \in Daemon, Verified(d)
  PROVE  Pending /\ store.made \in {0, Whole} /\ daemon[d].seen.store = store
BY DEF Verified, Admits, Inspectable, Record

\* The application's lock, the worker's and the migration's.
LEMMA TakeLockStep ==
  ASSUME IInv, NEW d \in Daemon, NEW l \in DOMAIN Before, TakeLock(d, l)
  PROVE  IInv'
<1>1. /\ TypeOK /\ DaemonInv(d) /\ FenceInv /\ l \in {"app", "worker", "migration"}
      /\ Before["app"] = "spawned" /\ Before["worker"] = "app" /\ Before["migration"] = "worker"
  BY DEF IInv, Before
<1>2. /\ UNCHANGED <<slot, fence, store, registry, hand, window, mishaps, copies, meddled>>
      /\ Strict(d) /\ daemon[d].step = Before[l]
  BY DEF TakeLock, Admitted, rest
<1>3. daemon[d] # Down
  BY <1>1, <1>2, Shapes
<1>4. CASE Exits(d)
  BY <1>1, <1>2, <1>3, <1>4, ExitStep DEF TypeOK, FilesOK
<1>5. CASE lock[l] = Nobody /\ lock' = Acquire(d, {l}) /\ Goes(d, l)
  <2>1. PICK r \in Served :
          /\ daemon' = [daemon EXCEPT ![d] = r] /\ daemon'[d] = r /\ r.step = l
          /\ r.bundle = daemon[d].bundle /\ r.key = daemon[d].key /\ r.seen = daemon[d].seen
    BY <1>1, <1>5, NextService
  <2>2. {l} \in SUBSET Lock /\ AllFree({l})
    BY <1>1, <1>5 DEF Lock, AllFree
  <2>3. Others(d) /\ lock'[l] = d /\ \A m \in Lock : lock[m] = d => lock'[m] = d
    BY <1>1, <1>5, <2>2, Locks
  <2>4. Acts(d, r)
    BY <1>2, <1>3, <2>1, <2>3 DEF Acts, IInv, TypeOK, FilesOK, ProcessesOK
  <2>5. /\ l # "app" => lock["app"] = d
        /\ l = "migration" => lock["worker"] = d
    BY <1>1, <1>2 DEF DaemonInv, STRICT
  <2>6. lock'["app"] = d /\ (l # "app" => lock'["worker"] = d) /\ (l = "migration" => lock'["migration"] = d)
    BY <1>1, <2>3, <2>5 DEF Lock
  <2>7. DaemonInv(d)'
    BY <1>1, <1>2, <2>1, <2>6 DEF DaemonInv, STRICT, Strict
  <2>8. r.seen # NoRecord /\ r.step \in STRICT
    BY <1>1, <1>2, <2>1 DEF Strict, STRICT
  <2>9. FenceInv'
    BY <1>2, <2>4, <2>8, FenceActs
  <2> QED
    BY <2>4, <2>7, <2>9, ActStep
<1> QED
  BY <1>4, <1>5 DEF TakeLock

\* The key is chosen, and a whole receipt is compared with it.
LEMMA QueueStep ==
  ASSUME IInv, NEW d \in Daemon, BeforeQueue(d) \/ AfterQueue(d)
  PROVE  IInv'
<1>1. /\ TypeOK /\ DaemonInv(d) /\ FenceInv /\ daemon[d] \in Served /\ store \in Store /\ daemon \in [Daemon -> Served]
  BY DEF IInv, TypeOK, FilesOK, ProcessesOK
<1>2. /\ UNCHANGED <<slot, fence, store, registry, hand, window, mishaps, copies, meddled>>
      /\ Strict(d) /\ daemon[d].step \in {"migration", "queued"}
  BY DEF BeforeQueue, AfterQueue, Admitted, rest
<1>3. daemon[d] # Down
  BY <1>1, <1>2, Shapes
<1>4. CASE Exits(d)
  BY <1>1, <1>2, <1>3, <1>4, ExitStep DEF TypeOK, FilesOK
<1>5. ASSUME NEW k \in Key \cup {NoKey}, NEW step \in {"queued", "preparing", "prepared"},
             daemon' = [daemon EXCEPT ![d].step = step, ![d].key = k], UNCHANGED lock, Verified(d),
             step = "preparing" => store.made # Whole,
             step = "prepared" => store.made = Whole /\ k = store.key
      PROVE  IInv'
  <2>1. PICK r : r = [daemon[d] EXCEPT !.step = step, !.key = k]
    OBVIOUS
  <2>2. r \in Served /\ r.step = step /\ r.key = k /\ r.seen = daemon[d].seen
    BY <1>1, <2>1 DEF Served
  <2>3. daemon' = [daemon EXCEPT ![d] = r] /\ daemon'[d] = r
    BY <1>1, <1>5, <2>1
  <2>4. Others(d)
    BY <1>1, <1>5, Locks
  <2>5. Acts(d, r)
    BY <1>2, <1>3, <2>2, <2>3, <2>4 DEF Acts, IInv, TypeOK, FilesOK, ProcessesOK
  <2>6. store.made \in {0, Whole} /\ daemon[d].seen.store = store
    BY <1>5, VerifiedRoot
  <2>7. lock["app"] = d /\ lock["worker"] = d /\ lock["migration"] = d
    BY <1>1, <1>2 DEF DaemonInv, STRICT
  <2>8. DaemonInv(d)'
    BY <1>1, <1>2, <1>5, <2>2, <2>3, <2>6, <2>7 DEF DaemonInv, STRICT, Strict
  <2>9. r.seen # NoRecord /\ r.step \in STRICT
    BY <1>2, <2>2 DEF Strict, STRICT
  <2>10. FenceInv'
    BY <1>2, <2>5, <2>9, FenceActs
  <2> QED
    BY <2>5, <2>8, <2>10, ActStep
<1>6. CASE BeforeQueue(d) /\ ~Exits(d)
  <2>1. PICK k \in Key \cup {NoKey} :
          daemon' = [daemon EXCEPT ![d].step = "queued", ![d].key = k] /\ UNCHANGED lock /\ Verified(d)
    BY <1>1, <1>6 DEF BeforeQueue, Store
  <2> QED
    BY <1>5, <2>1
<1>7. CASE AfterQueue(d) /\ ~Exits(d)
  <2>1. /\ Verified(d) /\ UNCHANGED lock /\ (store.made = Whole => store.key = daemon[d].key)
        /\ Goes(d, IF store.made = Whole THEN "prepared" ELSE "preparing")
    BY <1>7 DEF AfterQueue
  <2>2. daemon[d].key \in Key \cup {NoKey}
    BY <1>1 DEF Served
  <2>3. CASE store.made = Whole
    <3>1. daemon' = [daemon EXCEPT ![d].step = "prepared", ![d].key = daemon[d].key]
      BY <1>1, <2>1, <2>3 DEF Goes, Served
    <3> QED
      BY <1>5, <2>1, <2>2, <2>3, <3>1
  <2>4. CASE store.made # Whole
    <3>1. daemon' = [daemon EXCEPT ![d].step = "preparing", ![d].key = daemon[d].key]
      BY <1>1, <2>1, <2>4 DEF Goes, Served
    <3> QED
      BY <1>5, <2>1, <2>2, <2>4, <3>1
  <2> QED
    BY <2>3, <2>4
<1> QED
  BY <1>4, <1>6, <1>7

\* The objects of the receipt are written one after the other, with one key.
LEMMA PrepareStep ==
  ASSUME IInv, NEW d \in Daemon, Prepare(d)
  PROVE  IInv'
<1>1. /\ TypeOK /\ DaemonInv(d) /\ FenceInv /\ daemon[d] \in Served /\ store \in Store /\ daemon \in [Daemon -> Served]
  BY DEF IInv, TypeOK, FilesOK, ProcessesOK
<1>2. /\ UNCHANGED <<slot, fence, registry, hand, window, mishaps, copies, meddled>>
      /\ Strict(d) /\ daemon[d].step = "preparing"
  BY DEF Prepare, Admitted, rest
<1>3. daemon[d] # Down /\ lock["app"] = d /\ lock["worker"] = d /\ lock["migration"] = d
  BY <1>1, <1>2, Shapes DEF DaemonInv, STRICT
<1>4. UNCHANGED lock => Others(d)
  BY <1>1, Locks
<1>5. CASE Exits(d) /\ UNCHANGED store
  BY <1>1, <1>2, <1>3, <1>5, ExitStep DEF TypeOK, FilesOK
<1>6. CASE /\ store.made < Whole /\ UNCHANGED <<daemon, lock>>
           /\ store' = [store EXCEPT !.made = @ + 1, !.key = IF store.made = 1 THEN daemon[d].key ELSE @]
  <2>1. daemon[d].key \in Key \cup {NoKey}
    BY <1>1 DEF Served
  <2>2. /\ store' \in Store /\ store'.made = store.made + 1 /\ store'.writes = store.writes
        /\ store'.key = IF store.made = 1 THEN daemon[d].key ELSE store.key
    <3>1. PICK k : k = IF store.made = 1 THEN daemon[d].key ELSE store.key
      OBVIOUS
    <3>2. PICK n : n = store.made + 1
      OBVIOUS
    <3>3. k \in Key \cup {NoKey} /\ n \in 0..Whole
      BY <1>1, <1>6, <2>1, <3>1, <3>2 DEF Store, Whole
    <3>4. store' = [store EXCEPT !.made = n, !.key = k]
      BY <1>1, <1>6, <3>1, <3>2 DEF Store
    <3> QED
      BY <1>1, <3>1, <3>2, <3>3, <3>4 DEF Store
  <2>3. daemon' = [daemon EXCEPT ![d] = daemon[d]]
    BY <1>1, <1>6
  <2>4. Acts(d, daemon[d])
    BY <1>1, <1>2, <1>3, <1>4, <1>6, <2>2, <2>3 DEF Acts, TypeOK, FilesOK, ProcessesOK
  <2>5. store'.made > 1 => daemon[d].key = store'.key
    BY <1>1, <1>2, <2>2 DEF DaemonInv, Store
  <2>6. DaemonInv(d)'
    BY <1>1, <1>2, <1>6, <2>5 DEF DaemonInv, STRICT, Strict
  <2>7. FenceInv'
    BY <1>2, <1>6, <2>2, <2>4, FenceActs DEF Strict, STRICT, Whole
  <2> QED
    BY <2>4, <2>6, <2>7, ActStep
<1>7. CASE /\ store.made = Whole /\ UNCHANGED <<store, lock>>
           /\ daemon' = [daemon EXCEPT ![d].step = "prepared", ![d].seen.store = store]
  <2>1. PICK r : r = [daemon[d] EXCEPT !.step = "prepared", !.seen.store = store]
    OBVIOUS
  <2>2. /\ r \in Served /\ r.step = "prepared" /\ r.key = daemon[d].key /\ r.seen.store = store
        /\ r.seen.tag = daemon[d].seen.tag
    BY <1>1, <2>1 DEF Served, Seen
  <2>3. daemon' = [daemon EXCEPT ![d] = r] /\ daemon'[d] = r
    BY <1>1, <1>7, <2>1
  <2>4. Acts(d, r)
    BY <1>2, <1>3, <1>4, <1>7, <2>2, <2>3 DEF Acts, IInv, TypeOK, FilesOK, ProcessesOK
  <2>5. r.seen.tag # Empty /\ r.seen # NoRecord
    BY <1>1, <1>2, <2>2, Shapes DEF DaemonInv
  <2>6. daemon[d].key = store.key
    BY <1>1, <1>2, <1>7 DEF DaemonInv, Whole
  <2>7. DaemonInv(d)'
    BY <1>3, <1>7, <2>2, <2>3, <2>5, <2>6 DEF DaemonInv, STRICT, Strict
  <2>8. FenceInv'
    BY <1>2, <1>7, <2>2, <2>4, <2>5, FenceActs DEF STRICT
  <2> QED
    BY <2>4, <2>7, <2>8, ActStep
<1> QED
  BY <1>5, <1>6, <1>7 DEF Prepare

\* The fence is completed when the whole receipt is there.
LEMMA CompleteStep ==
  ASSUME IInv, NEW d \in Daemon, CompleteFence(d)
  PROVE  IInv'
<1>1. /\ TypeOK /\ DaemonInv(d) /\ FenceInv /\ daemon[d] \in Served /\ daemon \in [Daemon -> Served]
  BY DEF IInv, TypeOK, FilesOK, ProcessesOK
<1>2. /\ UNCHANGED <<slot, store, registry, hand, window, mishaps, copies, meddled>>
      /\ Strict(d) /\ daemon[d].step = "prepared"
  BY DEF CompleteFence, Admitted, rest
<1>3. daemon[d] # Down /\ lock["app"] = d /\ lock["worker"] = d /\ lock["migration"] = d
  BY <1>1, <1>2, Shapes DEF DaemonInv, STRICT
<1>4. CASE Exits(d) /\ UNCHANGED fence
  BY <1>1, <1>2, <1>3, <1>4, ExitStep DEF TypeOK, FilesOK
<1>5. CASE Verified(d) /\ fence' = [fence EXCEPT !.status = "torn"] /\ Exits(d)
  <2>1. Pending
    BY <1>5, VerifiedRoot
  <2> QED
    BY <1>1, <1>2, <1>3, <1>5, <2>1, ExitStep DEF TypeOK, FilesOK
<1>6. CASE Verified(d) /\ fence' = [fence EXCEPT !.status = "complete"] /\ Goes(d, "committed") /\ UNCHANGED lock
  <2>1. PICK r \in Served :
          /\ daemon' = [daemon EXCEPT ![d] = r] /\ daemon'[d] = r /\ r.step = "committed"
          /\ r.bundle = daemon[d].bundle /\ r.key = daemon[d].key /\ r.seen = daemon[d].seen
    BY <1>6, NextService
  <2>2. fence' \in [status : {"none", "pending", "torn", "complete"}, tag : Bundle \cup {Empty}]
        /\ fence'.status = "complete"
    BY <1>1, <1>6 DEF TypeOK, FilesOK
  <2>3. Others(d)
    BY <1>1, <1>6, Locks
  <2>4. Acts(d, r)
    BY <1>2, <1>3, <2>1, <2>2, <2>3 DEF Acts, IInv, TypeOK, FilesOK, ProcessesOK
  <2>5. store.made = Whole /\ daemon[d].key = store.key
    BY <1>1, <1>2, <1>6, VerifiedRoot DEF DaemonInv
  <2>6. DaemonInv(d)'
    BY <1>1, <1>2, <1>3, <1>6, <2>1, <2>5 DEF DaemonInv, STRICT, Strict
  <2>7. FenceInv'
    BY <1>2, <2>2, <2>5 DEF FenceInv, Pending
  <2> QED
    BY <2>4, <2>6, <2>7, ActStep
<1> QED
  BY <1>4, <1>5, <1>6 DEF CompleteFence

\* The child registers; then it serves if its parent heard it.
LEMMA AnnounceStep ==
  ASSUME IInv, NEW d \in Daemon, PublishFirst(d) \/ Acknowledge(d)
  PROVE  IInv'
<1>1. /\ TypeOK /\ DaemonInv(d) /\ FenceInv /\ daemon[d] \in Served /\ daemon \in [Daemon -> Served]
      /\ window \in [Window -> Shown]
  BY DEF IInv, TypeOK, FilesOK, ProcessesOK
<1>2. /\ UNCHANGED <<slot, fence, store, hand, mishaps, copies, meddled>>
      /\ Strict(d) /\ daemon[d].step \in {"committed", "acking"}
  BY DEF PublishFirst, Acknowledge, Admitted, rest
<1>3. /\ daemon[d] # Down /\ lock["app"] = d /\ lock["worker"] = d /\ daemon[d].key = store.key
      /\ daemon[d].step = "committed" => lock["migration"] = d
  BY <1>1, <1>2, Shapes DEF DaemonInv, STRICT
<1>4. ~Pending
  BY <1>1, <1>2 DEF FenceInv, STRICT
<1>5. ASSUME NEW step \in {"acking", "serving", "retired"}, Goes(d, step), Others(d),
             registry' \in Daemon \cup {Nobody, Stale}, window' \in [Window -> Shown],
             \A w \in Window : window'[w] = window[w] \/ window'[w].step = "heard",
             step # "retired" => lock'["worker"] = d, step = "acking" => lock'["app"] = d
      PROVE  IInv'
  <2>1. PICK r \in Served :
          /\ daemon' = [daemon EXCEPT ![d] = r] /\ daemon'[d] = r /\ r.step = step
          /\ r.bundle = daemon[d].bundle /\ r.key = daemon[d].key /\ r.seen = daemon[d].seen
    BY <1>5, NextService
  <2>2. Acts(d, r)
    BY <1>2, <1>3, <1>5, <2>1 DEF Acts, IInv, TypeOK, FilesOK, ProcessesOK
  <2>3. DaemonInv(d)'
    BY <1>1, <1>2, <1>3, <1>5, <2>1 DEF DaemonInv, STRICT, Strict
  <2>4. FenceInv'
    BY <1>2, <1>4, <2>2, FenceActs
  <2> QED
    BY <2>2, <2>3, <2>4, ActStep
<1>6. lock \in [Lock -> Hand \cup Window \cup Daemon \cup {Nobody}] /\ registry \in Daemon \cup {Nobody, Stale}
      /\ Lock = {"app", "native", "worker", "migration"}
  BY <1>1 DEF TypeOK, FilesOK, Lock
<1>7. CASE PublishFirst(d)
  <2>1. /\ lock' = [lock EXCEPT !["migration"] = Nobody] /\ lock["migration"] = d /\ registry' = d
        /\ Goes(d, "acking") /\ UNCHANGED window
    BY <1>3, <1>7 DEF PublishFirst, Admitted
  <2>2. Others(d) /\ lock'["worker"] = d /\ lock'["app"] = d
    BY <1>1, <1>3, <1>6, <2>1, Locks
  <2> QED
    BY <1>1, <1>5, <2>1, <2>2
<1>8. CASE Acknowledge(d)
  <2>1. UNCHANGED registry
    BY <1>8 DEF Acknowledge
  <2>2. CASE /\ Goes(d, "serving") /\ lock' = [lock EXCEPT !["app"] = Nobody]
             /\ \E w \in Window : window[w].child = d /\ WindowGoes(w, "heard")
    <3>1. Others(d) /\ lock'["worker"] = d
      BY <1>1, <1>3, <1>6, <2>2, Locks
    <3>2. PICK w \in Window : window' = [window EXCEPT ![w].step = "heard"]
      BY <2>2 DEF WindowGoes
    <3>3. window' \in [Window -> Shown] /\ \A v \in Window : window'[v] = window[v] \/ window'[v].step = "heard"
      BY <1>1, <3>2 DEF Shown
    <3> QED
      BY <1>5, <1>6, <2>1, <2>2, <3>1, <3>3
  <2>3. CASE Goes(d, "retired") /\ lock' = Release(d) /\ UNCHANGED window
    <3>1. Others(d)
      BY <1>1, <2>3, Locks
    <3> QED
      BY <1>1, <1>5, <1>6, <2>1, <2>3, <3>1
  <2> QED
    BY <1>8, <2>2, <2>3 DEF Acknowledge
<1> QED
  BY <1>7, <1>8 DEF PublishFirst, Acknowledge

\* A service is killed.
LEMMA KillDaemonStep ==
  ASSUME IInv, NEW d \in Daemon, KillDaemon(d)
  PROVE  IInv'
<1>1. mishaps' \in 0..MaxMishaps
  BY ServiceAssumption DEF KillDaemon, Mishap, IInv, TypeOK, FilesOK
<1> QED
  BY <1>1, ExitStep DEF KillDaemon

-----------------------------------------------------------------------------
(* The steps of a window.                                                    *)

\* A step of a window, which may spawn a service or ask one to end.
Shows(w) ==
  /\ UNCHANGED <<slot, fence, store, registry, hand, copies, meddled>>
  /\ window' \in [Window -> Shown] /\ \A v \in Window \ {w} : window'[v] = window[v]
  /\ daemon' \in [Daemon -> Served] /\ mishaps' \in 0..MaxMishaps /\ Others(w)
  /\ \A d \in Daemon : \/ daemon'[d] = daemon[d]
                       \/ /\ daemon'[d].step = "spawned"
                          /\ Strict(d)' => daemon'[d].seen.tag # Empty
                          /\ Pending => Strict(d)'
                       \/ /\ registry = d /\ daemon[d].step = "serving" /\ daemon'[d].step = "stopping"
                          /\ daemon'[d].key = daemon[d].key /\ daemon'[d].seen = daemon[d].seen

\* Such a step leaves everybody else alone; under a pending fence it opens no
\* ordinary window, and there is none without a release.
LEMMA ShowStep ==
  ASSUME IInv, NEW w \in Window, Shows(w), WindowInv(w)',
         slot["app"] \in Bundle \/ window[w] # Closed,
         Pending => window'[w].step \notin {"ordinary", "starting", "waiting"}
  PROVE  IInv'
<1>1. TypeOK'
  BY DEF IInv, TypeOK, FilesOK, ProcessesOK, Shows, Others
<1>2. SlotInv'
  BY DEF IInv, SlotInv, Shows, Kept
<1>3. ASSUME NEW h \in Hand PROVE HandInv(h)'
  <2>1. HandInv(h) /\ UNCHANGED <<slot, store, registry, hand>>
    BY DEF IInv, Shows
  <2>2. \A l \in Lock : lock[l] = h => lock'[l] = h
    BY Processes DEF Shows, Others
  <2>3. "app" \in Lock /\ "native" \in Lock
    BY DEF Lock
  <2> QED
    BY <2>1, <2>2, <2>3 DEF HandInv, HasState
<1>4. ASSUME NEW d \in Daemon PROVE DaemonInv(d)'
  <2>1. DaemonInv(d) /\ UNCHANGED store
    BY DEF IInv, Shows
  <2>2. \A l \in Lock : lock[l] = d => lock'[l] = d
    BY Processes DEF Shows, Others
  <2>3. CASE daemon'[d] = daemon[d]
    BY <2>1, <2>2, <2>3 DEF DaemonInv, Strict, Lock
  <2>4. CASE daemon'[d].step = "spawned" /\ (Strict(d)' => daemon'[d].seen.tag # Empty)
    BY <2>4 DEF DaemonInv, STRICT
  <2>5. CASE /\ daemon[d].step = "serving" /\ daemon'[d].step = "stopping"
             /\ daemon'[d].key = daemon[d].key /\ daemon'[d].seen = daemon[d].seen
    BY <2>1, <2>2, <2>5 DEF DaemonInv, Strict, STRICT, Lock
  <2> QED
    BY <2>3, <2>4, <2>5 DEF Shows
<1>5. ASSUME NEW v \in Window PROVE WindowInv(v)'
  BY DEF IInv, WindowInv, Shows
<1>6. FenceInv'
  <2>1. ~Fresh
    BY DEF Fresh
  <2>2. FenceInv /\ UNCHANGED <<fence, store, registry>>
    BY DEF IInv, Shows
  <2>3. ASSUME Pending, NEW d \in Daemon
        PROVE  daemon'[d].step = "down" \/ (Strict(d)' /\ daemon'[d].step \in STRICT \cup {"spawned"})
    <3>1. registry # d
      BY <2>2, <2>3, Processes DEF FenceInv
    <3> QED
      BY <2>2, <2>3, <3>1 DEF Shows, FenceInv, Strict
  <2>4. ASSUME Pending, NEW v \in Window PROVE window'[v].step \notin {"ordinary", "starting", "waiting"}
    BY <2>2, <2>4 DEF Shows, FenceInv
  <2> QED
    BY <2>1, <2>2, <2>3, <2>4 DEF FenceInv, Pending
<1> QED
  BY <1>1, <1>2, <1>3, <1>4, <1>5, <1>6 DEF IInv

\* A window that leaves lets its locks go.
LEMMA LeaveStep ==
  ASSUME IInv, NEW w \in Window, window[w] # Closed, Leaves(w),
         UNCHANGED <<slot, fence, store, registry, daemon, hand, copies, meddled>>, mishaps' \in 0..MaxMishaps
  PROVE  IInv'
<1>1. window \in [Window -> Shown] /\ daemon \in [Daemon -> Served]
  BY DEF IInv, TypeOK, ProcessesOK
<1>2. Others(w)
  BY Locks DEF IInv, Leaves
<1>3. window'[w] = Closed /\ window' \in [Window -> Shown] /\ \A v \in Window \ {w} : window'[v] = window[v]
  BY <1>1, Shapes DEF Leaves
<1>4. Shows(w)
  BY <1>1, <1>2, <1>3 DEF Shows
<1>5. WindowInv(w)'
  BY <1>3, Shapes DEF WindowInv
<1> QED
  BY <1>3, <1>4, <1>5, Shapes, ShowStep

\* A window goes on with the record it has.
LEMMA GoStep ==
  ASSUME IInv, NEW w \in Window, window[w].step # "idle",
         NEW step \in {"probing", "admitted", "bound", "starting", "waiting", "orphan"}, WindowGoes(w, step),
         window[w].step \in {"asked", "probing", "admitted"} \/ step \notin {"probing", "admitted", "bound"},
         Pending => step \notin {"starting", "waiting"},
         Shows(w)
  PROVE  IInv'
<1>1. WindowInv(w) /\ window \in [Window -> Shown]
  BY DEF IInv, TypeOK, ProcessesOK
<1>2. window'[w] = [window[w] EXCEPT !.step = step]
  BY <1>1 DEF WindowGoes
<1>3. window'[w].step = step /\ window'[w].seen = window[w].seen
  BY <1>1, <1>2 DEF Shown
<1>4. WindowInv(w)'
  BY <1>1, <1>3 DEF WindowInv
<1>5. window[w] # Closed
  BY Shapes
<1> QED
  BY <1>3, <1>4, <1>5, ShowStep

\* The window's step is typed, and the other windows stay.
LEMMA Goes1 ==
  ASSUME IInv, NEW w \in Window, NEW step \in {"probing", "admitted", "bound", "starting", "waiting", "orphan"},
         WindowGoes(w, step), UNCHANGED <<slot, fence, store, registry, hand, copies, meddled>>,
         daemon' \in [Daemon -> Served], mishaps' \in 0..MaxMishaps, Others(w),
         \A d \in Daemon : \/ daemon'[d] = daemon[d]
                           \/ /\ daemon'[d].step = "spawned"
                              /\ Strict(d)' => daemon'[d].seen.tag # Empty
                              /\ Pending => Strict(d)'
                           \/ /\ registry = d /\ daemon[d].step = "serving" /\ daemon'[d].step = "stopping"
                              /\ daemon'[d].key = daemon[d].key /\ daemon'[d].seen = daemon[d].seen
  PROVE  Shows(w)
<1>1. window' \in [Window -> Shown] /\ \A v \in Window \ {w} : window'[v] = window[v]
  BY DEF IInv, TypeOK, ProcessesOK, WindowGoes, Shown
<1> QED
  BY <1>1 DEF Shows

\* A launch, with the record of the admitted root or without a fence.
LEMMA LaunchStep ==
  ASSUME IInv, NEW w \in Window, LaunchPending(w) \/ LaunchOrdinary(w)
  PROVE  IInv'
<1>1. /\ slot["app"] \in Bundle /\ UNCHANGED <<slot, fence, lock, store, registry, daemon, hand, mishaps, copies, meddled>>
      /\ window \in [Window -> Shown] /\ daemon \in [Daemon -> Served] /\ mishaps \in 0..MaxMishaps
  BY DEF LaunchPending, LaunchOrdinary, rest, IInv, TypeOK, ProcessesOK, FilesOK
<1>2. Others(w)
  BY <1>1, Locks DEF IInv
<1>3. Record \in Seen /\ Record.tag = fence.tag
  BY DEF Record, Seen, IInv, TypeOK, FilesOK
<1>4. \E v \in Shown : /\ window' = [window EXCEPT ![w] = v]
                       /\ \/ v.step = "asked" /\ v.seen.tag # Empty
                          \/ v.step = "ordinary" /\ ~Pending
  <2>1. CASE LaunchPending(w)
    <3>1. PICK v : v = [window[w] EXCEPT !.step = "asked", !.bundle = slot["app"], !.seen = Record]
      OBVIOUS
    <3>2. v \in Shown /\ v.step = "asked" /\ v.seen = Record
      BY <1>1, <1>3, <3>1 DEF Shown
    <3>3. window' = [window EXCEPT ![w] = v]
      BY <1>1, <2>1, <3>1 DEF LaunchPending
    <3>4. Record.tag # Empty
      BY <1>1, <1>3, <2>1, Processes DEF LaunchPending, Admits
    <3> QED
      BY <3>2, <3>3, <3>4
  <2>2. CASE LaunchOrdinary(w)
    <3>1. PICK v : v = [window[w] EXCEPT !.step = "ordinary", !.bundle = slot["app"]]
      OBVIOUS
    <3>2. v \in Shown /\ v.step = "ordinary"
      BY <1>1, <3>1 DEF Shown
    <3>3. window' = [window EXCEPT ![w] = v]
      BY <1>1, <2>2, <3>1 DEF LaunchOrdinary
    <3> QED
      BY <2>2, <3>2, <3>3 DEF LaunchOrdinary
  <2> QED
    BY <2>1, <2>2
<1>5. PICK v \in Shown : /\ window' = [window EXCEPT ![w] = v]
                         /\ \/ v.step = "asked" /\ v.seen.tag # Empty
                            \/ v.step = "ordinary" /\ ~Pending
  BY <1>4
<1>6. window'[w] = v /\ window' \in [Window -> Shown] /\ \A u \in Window \ {w} : window'[u] = window[u]
  BY <1>1, <1>5
<1>7. Shows(w)
  BY <1>1, <1>2, <1>6 DEF Shows
<1>8. WindowInv(w)'
  BY <1>5, <1>6 DEF WindowInv
<1> QED
  BY <1>1, <1>5, <1>6, <1>7, <1>8, ShowStep

\* The admission under all locks, and the native lock.
LEMMA AdmitStep ==
  ASSUME IInv, NEW w \in Window, Probe(w) \/ Admit(w) \/ BindNative(w) \/ OwnNative(w)
  PROVE  IInv'
<1>1. /\ UNCHANGED <<slot, fence, store, registry, daemon, hand, mishaps, copies, meddled>>
      /\ window[w].step \in {"asked", "probing", "admitted", "ordinary"}
      /\ daemon \in [Daemon -> Served] /\ mishaps \in 0..MaxMishaps
  BY DEF Probe, Admit, BindNative, OwnNative, In, rest, IInv, TypeOK, ProcessesOK, FilesOK
<1>2. window[w] # Closed /\ window[w].step # "idle"
  BY <1>1, Shapes
<1>3. CASE Leaves(w)
  BY <1>1, <1>2, <1>3, LeaveStep
<1>4. ASSUME NEW step \in {"probing", "admitted", "bound", "starting"}, WindowGoes(w, step), Others(w),
             window[w].step \in {"asked", "probing", "admitted"} \/ step = "starting",
             Pending => step # "starting"
      PROVE  IInv'
  <2>1. Shows(w)
    BY <1>1, <1>4, Goes1
  <2> QED
    BY <1>1, <1>2, <1>4, <2>1, GoStep
<1>5. Lock \in SUBSET Lock /\ {"native"} \in SUBSET Lock
  BY DEF Lock
<1>6. CASE Probe(w) /\ ~Leaves(w)
  <2>1. AllFree(Lock) /\ lock' = Acquire(w, Lock) /\ WindowGoes(w, "probing") /\ window[w].step = "asked"
    BY <1>6 DEF Probe, Guarded, In
  <2>2. Others(w)
    BY <1>5, <2>1, Locks DEF IInv
  <2> QED
    BY <1>4, <2>1, <2>2
<1>7. CASE Admit(w) /\ ~Leaves(w)
  <2>1. lock' = Release(w) /\ WindowGoes(w, "admitted") /\ window[w].step = "probing"
    BY <1>7 DEF Admit, In
  <2>2. Others(w)
    BY <2>1, Locks DEF IInv
  <2> QED
    BY <1>4, <2>1, <2>2
<1>8. CASE BindNative(w) /\ ~Leaves(w)
  <2>1. lock["native"] = Nobody /\ lock' = Acquire(w, {"native"}) /\ WindowGoes(w, "bound") /\ window[w].step = "admitted"
    BY <1>8 DEF BindNative, In
  <2>2. AllFree({"native"})
    BY <2>1 DEF AllFree
  <2>3. Others(w)
    BY <1>5, <2>1, <2>2, Locks DEF IInv
  <2> QED
    BY <1>4, <2>1, <2>3
<1>9. CASE OwnNative(w) /\ ~Leaves(w)
  <2>1. lock["native"] = Nobody /\ lock' = Acquire(w, {"native"}) /\ WindowGoes(w, "starting")
        /\ window[w].step = "ordinary"
    BY <1>9 DEF OwnNative, In
  <2>2. AllFree({"native"})
    BY <2>1 DEF AllFree
  <2>3. Others(w)
    BY <1>5, <2>1, <2>2, Locks DEF IInv
  <2>4. ~Pending
    BY <2>1 DEF IInv, FenceInv
  <2> QED
    BY <1>4, <2>1, <2>3, <2>4
<1> QED
  BY <1>3, <1>6, <1>7, <1>8, <1>9

\* A service is spawned with the bundle of the window, and with its record
\* while the fence is pending; or one of another release is asked to end.
LEMMA SpawnStep ==
  ASSUME IInv, NEW w \in Window, SpawnFirst(w) \/ SpawnService(w) \/ Restart(w)
  PROVE  IInv'
<1>1. /\ UNCHANGED <<slot, fence, lock, store, registry, hand, mishaps, copies, meddled>>
      /\ window[w].step \in {"bound", "starting", "waiting"}
      /\ daemon \in [Daemon -> Served] /\ window \in [Window -> Shown] /\ mishaps \in 0..MaxMishaps
      /\ WindowInv(w) /\ window[w].bundle \in Bundle \cup {Empty} /\ window[w].seen \in Seen
  BY DEF SpawnFirst, SpawnService, Restart, In, rest, IInv, TypeOK, ProcessesOK, FilesOK, Shown
<1>2. window[w] # Closed /\ window[w].step # "idle"
  BY <1>1, Shapes
<1>3. Others(w)
  BY <1>1, Locks DEF IInv
<1>4. ASSUME NEW d \in Daemon, NEW b \in Bundle \cup {Empty}, NEW seen \in Seen,
             daemon' = [daemon EXCEPT ![d] = Spawned(b, seen)]
      PROVE  /\ daemon' \in [Daemon -> Served] /\ \A e \in Daemon \ {d} : daemon'[e] = daemon[e]
             /\ daemon'[d].step = "spawned" /\ daemon'[d].seen = seen
  <2>1. PICK r : r = Spawned(b, seen)
    OBVIOUS
  <2>2. r \in Served /\ r.step = "spawned" /\ r.seen = seen
    BY <2>1, Shapes DEF Spawned, Served
  <2>3. daemon' = [daemon EXCEPT ![d] = r]
    BY <1>4, <2>1
  <2>4. daemon' \in [Daemon -> Served] /\ daemon'[d] = r /\ \A e \in Daemon \ {d} : daemon'[e] = daemon[e]
    BY <1>1, <2>2, <2>3
  <2> QED
    BY <2>2, <2>4
<1>5. CASE SpawnFirst(w)
  <2>1. window[w].step = "bound" /\ window[w].seen.tag # Empty
    BY <1>1, <1>5 DEF SpawnFirst, In, WindowInv
  <2>2. PICK d \in Daemon : /\ daemon' = [daemon EXCEPT ![d] = Spawned(window[w].bundle, window[w].seen)]
                            /\ window' = [window EXCEPT ![w].step = "awaiting", ![w].child = d]
    BY <1>5 DEF SpawnFirst
  <2>3. /\ daemon' \in [Daemon -> Served] /\ \A e \in Daemon \ {d} : daemon'[e] = daemon[e]
        /\ daemon'[d].step = "spawned" /\ daemon'[d].seen = window[w].seen
    <3>1. PICK b \in Bundle \cup {Empty} : b = window[w].bundle
      BY <1>1
    <3>2. PICK seen \in Seen : seen = window[w].seen
      BY <1>1
    <3>3. daemon' = [daemon EXCEPT ![d] = Spawned(b, seen)]
      BY <2>2, <3>1, <3>2
    <3> QED
      BY ZenonT(40), <1>4, <3>2, <3>3
  <2>4. PICK v : v = [window[w] EXCEPT !.step = "awaiting", !.child = d]
    OBVIOUS
  <2>5. v \in Shown /\ v.step = "awaiting"
    BY <1>1, <2>4 DEF Shown
  <2>6. window'[w] = v /\ window' \in [Window -> Shown] /\ \A u \in Window \ {w} : window'[u] = window[u]
    BY <1>1, <2>2, <2>4, <2>5
  <2>7. window[w].seen # NoRecord
    BY <2>1, Shapes
  <2>8. Shows(w)
    BY <1>1, <1>3, <2>1, <2>3, <2>6, <2>7 DEF Shows, Strict
  <2>9. WindowInv(w)'
    BY <2>5, <2>6 DEF WindowInv
  <2> QED
    BY <1>2, <2>5, <2>6, <2>8, <2>9, ShowStep
<1>6. CASE SpawnService(w)
  <2>1. ~Pending
    BY <1>6 DEF IInv, FenceInv, SpawnService, In
  <2>2. PICK d \in Daemon : daemon' = [daemon EXCEPT ![d] = Spawned(window[w].bundle, NoRecord)] /\ WindowGoes(w, "waiting")
    BY <1>6 DEF SpawnService
  <2>3. /\ daemon' \in [Daemon -> Served] /\ \A e \in Daemon \ {d} : daemon'[e] = daemon[e]
        /\ daemon'[d].step = "spawned" /\ daemon'[d].seen = NoRecord
    BY ZenonT(40), <1>1, <1>4, <2>2, Shapes
  <2>4. \A e \in Daemon : daemon'[e] = daemon[e] \/ (daemon'[e].step = "spawned" /\ ~Strict(e)')
    BY <2>3 DEF Strict
  <2>5. Shows(w)
    BY <1>1, <1>3, <2>1, <2>2, <2>3, <2>4, Goes1
  <2> QED
    BY <1>2, <2>1, <2>2, <2>5, GoStep
<1>7. CASE Restart(w)
  <2>1. ~Pending
    BY <1>7 DEF IInv, FenceInv, Restart, In
  <2>2. PICK d \in Daemon : registry = d /\ daemon[d].step = "serving" /\ Goes(d, "stopping")
    BY <1>7 DEF Restart, Stopped
  <2>3. PICK r \in Served :
          /\ daemon' = [daemon EXCEPT ![d] = r] /\ daemon'[d] = r /\ r.step = "stopping"
          /\ r.bundle = daemon[d].bundle /\ r.key = daemon[d].key /\ r.seen = daemon[d].seen
    BY <2>2, NextService
  <2>4. daemon' \in [Daemon -> Served] /\ \A e \in Daemon \ {d} : daemon'[e] = daemon[e]
    BY <1>1, <2>3
  <2>5. WindowGoes(w, "starting")
    BY <1>7 DEF Restart
  <2>6. Shows(w)
    BY <1>1, <1>3, <2>2, <2>3, <2>4, <2>5, Goes1
  <2> QED
    BY <1>2, <2>1, <2>5, <2>6, GoStep
<1> QED
  BY <1>5, <1>6, <1>7

\* A window opens, closes or dies; its presenter may outlive it.
LEMMA OpenStep ==
  ASSUME IInv, NEW w \in Window, OpenFirst(w) \/ OpenWindow(w) \/ CloseWindow(w) \/ KillWindow(w)
  PROVE  IInv'
<1>1. /\ UNCHANGED <<slot, fence, store, registry, daemon, hand, copies, meddled>>
      /\ daemon \in [Daemon -> Served] /\ window \in [Window -> Shown] /\ mishaps \in 0..MaxMishaps
  BY DEF OpenFirst, OpenWindow, CloseWindow, KillWindow, Opens, rest, IInv, TypeOK, ProcessesOK, FilesOK
<1>2. window[w].step # "idle" /\ window[w] # Closed
  BY Shapes DEF OpenFirst, OpenWindow, CloseWindow, KillWindow, In
<1>3. mishaps' \in 0..MaxMishaps
  <2>1. mishaps' = mishaps \/ (mishaps' = mishaps + 1 /\ (mishaps < MaxMishaps))
    BY DEF OpenFirst, OpenWindow, CloseWindow, KillWindow, Opens, Mishap, rest
  <2> QED
    BY <1>1, <2>1, ServiceAssumption
<1>4. CASE Leaves(w)
  BY <1>1, <1>2, <1>3, <1>4, LeaveStep
<1>5. CASE Opens(w)
  <2>1. PICK v : v = [window[w] EXCEPT !.step = "open", !.seen = NoRecord, !.child = Nobody]
    OBVIOUS
  <2>2. v \in Shown /\ v.step = "open"
    BY <1>1, <2>1, Shapes DEF Shown
  <2>3. window'[w] = v /\ window' \in [Window -> Shown] /\ \A u \in Window \ {w} : window'[u] = window[u]
    BY <1>1, <1>5, <2>1, <2>2 DEF Opens
  <2>4. Others(w)
    BY <1>5, Locks DEF IInv, Opens
  <2>5. Shows(w)
    BY <1>1, <1>3, <2>3, <2>4 DEF Shows
  <2>6. WindowInv(w)'
    BY <2>2, <2>3 DEF WindowInv
  <2> QED
    BY <1>2, <2>2, <2>3, <2>5, <2>6, ShowStep
<1>6. CASE WindowGoes(w, "orphan") /\ UNCHANGED lock
  <2>1. Others(w)
    BY <1>6, Locks DEF IInv
  <2>2. Shows(w)
    BY <1>1, <1>3, <1>6, <2>1, Goes1
  <2> QED
    BY <1>2, <1>6, <2>2, GoStep
<1> QED
  BY <1>4, <1>5, <1>6 DEF OpenFirst, OpenWindow, CloseWindow, KillWindow

-----------------------------------------------------------------------------
(* The environment, the initial states, and every step.                      *)

\* A directory that somebody outside puts in a slot takes a release away, and
\* never brings one.
LEMMA MeddleStep ==
  ASSUME IInv, NEW s \in Slot, Meddle(s)
  PROVE  IInv'
<1>1. /\ slot \in [Slot -> Bundle \cup {Empty, Foreign}] /\ Foreign \notin Bundle /\ Empty \notin Bundle
      /\ Foreign # Empty /\ slot' = [slot EXCEPT ![s] = Foreign]
      /\ meddled' = meddled \cup ({slot[s]} \ {Empty}) /\ slot[s] # Foreign /\ meddled \subseteq Bundle
      /\ UNCHANGED <<fence, lock, store, registry, daemon, hand, window, copies>>
      /\ Slot = {"app", "staging", "previous", "failed"}
  BY Processes DEF Meddle, IInv, TypeOK, FilesOK, Slot
<1>2. mishaps' \in 0..MaxMishaps
  BY ServiceAssumption DEF Meddle, Mishap, IInv, TypeOK, FilesOK
<1>3. /\ slot' \in [Slot -> Bundle \cup {Empty, Foreign}] /\ meddled' \subseteq Bundle
      /\ \A t \in Slot : slot'[t] = slot[t] \/ slot'[t] = Foreign
  BY <1>1
<1>4. TypeOK'
  BY <1>1, <1>2, <1>3 DEF IInv, TypeOK, FilesOK, ProcessesOK
<1>5. \A x \in Kept : x \in Bundle \cup {Empty} => x \in Kept'
  BY <1>1 DEF Kept
<1>6. SlotInv'
  <2>1. \A h \in Hand : hand[h].was \in Kept /\ hand[h].was \in Bundle \cup {Empty}
    BY DEF IInv, SlotInv, TypeOK, ProcessesOK, Transaction
  <2>2. \A h \in Hand : hand'[h].was \in Kept'
    BY <1>1, <1>5, <2>1
  <2>3. /\ \A t, u \in Slot : t # u /\ slot'[t] \in Bundle => slot'[u] # slot'[t]
        /\ \A t \in Slot : slot'[t] \in Bundle => slot'[t] <= copies'
    BY <1>1, <1>3 DEF IInv, SlotInv
  <2> QED
    BY <2>2, <2>3 DEF SlotInv
<1>7. ASSUME NEW h \in Hand PROVE HandInv(h)'
  <2>1. HandInv(h) /\ UNCHANGED <<hand, lock, store, registry>>
    BY <1>1 DEF IInv
  <2>2. slot'["app"] = slot["app"] \/ slot'["app"] = Foreign
    BY <1>1, <1>3
  <2>3. hand[h].step \in KEEPING => slot'["app"] # hand[h].cand
    BY <1>1, <2>1, <2>2 DEF HandInv
  <2> QED
    BY <2>1, <2>3 DEF HandInv, HasState
<1>8. FenceInv'
  <2>1. Fresh => Fresh'
    BY <1>1, <1>3 DEF Fresh
  <2> QED
    BY <1>1, <2>1 DEF IInv, FenceInv, Pending, Strict
<1>9. (\A d \in Daemon : DaemonInv(d)') /\ \A w \in Window : WindowInv(w)'
  BY <1>1 DEF IInv, DaemonInv, WindowInv, Strict
<1> QED
  BY <1>4, <1>6, <1>7, <1>8, <1>9 DEF IInv

\* A machine without the application, or with a release that is in use.
LEMMA InitInv == Init => IInv
<1> SUFFICES ASSUME Init PROVE IInv
  OBVIOUS
<1>1. /\ fence = [status |-> "none", tag |-> Empty] /\ lock = [l \in Lock |-> Nobody] /\ registry = Nobody
      /\ daemon = [d \in Daemon |-> Down] /\ hand = [h \in Hand |-> Resting("nothing")]
      /\ window = [w \in Window |-> Closed] /\ mishaps = 0 /\ meddled = {}
      /\ Slot = {"app", "staging", "previous", "failed"} /\ Empty \notin Bundle
  BY Processes DEF Init, Slot
<1>2. /\ Resting("nothing") \in Transaction /\ Resting("nothing").step = "idle" /\ Resting("nothing").op = "none"
      /\ Resting("nothing").was = Empty /\ Resting("nothing").cand = Empty
  BY Shapes
<1>3. ProcessesOK
  BY <1>1, <1>2, Shapes DEF ProcessesOK
<1>4. (\A h \in Hand : HandInv(h)) /\ (\A d \in Daemon : DaemonInv(d)) /\ \A w \in Window : WindowInv(w)
  BY <1>1, <1>2, Shapes DEF HandInv, DaemonInv, WindowInv, Strict, STRICT, GUARDED, KEEPING, PROVEN
<1>5. \A h \in Hand : hand[h].was \in Kept
  BY <1>1, <1>2 DEF Kept
<1>6. CASE slot = [s \in Slot |-> Empty] /\ copies = 0 /\ store = NoStore
  <2>1. FilesOK
    BY <1>1, <1>6, Shapes, ServiceAssumption DEF FilesOK
  <2>2. SlotInv
    BY <1>1, <1>5, <1>6 DEF SlotInv
  <2>3. Fresh
    BY <1>1, <1>2, <1>6 DEF Fresh
  <2>4. FenceInv
    BY <1>1, <2>3 DEF FenceInv, Pending
  <2> QED
    BY <1>3, <1>4, <2>1, <2>2, <2>4 DEF IInv, TypeOK
<1>7. CASE /\ slot = [s \in Slot |-> IF s = "app" THEN 1 ELSE Empty] /\ copies = 1
           /\ \E k \in Key : store = [made |-> 0, key |-> k, writes |-> 1]
  <2>1. store \in Store /\ store.writes > 0 /\ MaxWrites \in Nat /\ MaxMishaps \in Nat
    BY <1>7, ServiceAssumption DEF Store, Whole
  <2>2. 1 \in Bundle /\ copies \in 0..MaxBundle
    BY <1>7, ServiceAssumption DEF Bundle
  <2>3. FilesOK
    BY <1>1, <1>7, <2>1, <2>2 DEF FilesOK
  <2>4. SlotInv
    BY <1>1, <1>5, <1>7, <2>2 DEF SlotInv
  <2>5. FenceInv
    BY <1>1, <2>1 DEF FenceInv, Pending
  <2> QED
    BY <1>3, <1>4, <2>3, <2>4, <2>5 DEF IInv, TypeOK
<1> QED
  BY <1>6, <1>7 DEF Init

\* Every step keeps the invariant.
LEMMA NextInv == IInv /\ [Next]_vars => IInv'
<1> SUFFICES ASSUME IInv, [Next]_vars PROVE IInv'
  OBVIOUS
<1>1. CASE UNCHANGED vars
  BY <1>1 DEF vars, rest, IInv, TypeOK, FilesOK, ProcessesOK, FenceInv, SlotInv, HandInv, DaemonInv, WindowInv, Fresh,
              Kept, Strict, HasState, Pending
<1>2. ASSUME NEW h \in Hand, HandStep(h) PROVE IInv'
  <2>1. CASE HandOff(h) \/ Retire(h)
    BY <2>1, StopStep DEF HandOff, Retire, AskService
  <2>2. CASE BeginFirst(h) \/ BeginUpdate(h) \/ BeginInstall(h) \/ BeginRestore(h)
    BY <2>2, BeginStep
  <2>3. CASE GuardInstall(h) \/ GuardRestore(h)
    BY <2>3, GuardStep
  <2>4. CASE Snatch(h) \/ AcquireTaskLocks(h)
    BY <2>4, UpdateLockStep
  <2>5. CASE Stage(h)
    BY <2>5, StageStep
  <2>6. CASE Starts(h) \/ BackUp(h) \/ Keeps(h) \/ Bind(h)
    BY <2>6, CheckStep
  <2>7. CASE CreateFence(h)
    BY <2>7, CreateFenceStep
  <2>8. CASE MoveOld(h) \/ MoveNew(h) \/ Compensate(h) \/ Compensated(h) \/ Quarantine(h) \/ Reinstate(h)
    BY <2>8, MoveStep
  <2>9. CASE Confirm(h) \/ Reviewed(h)
    BY <2>9, VerdictStep
  <2> QED
    BY <1>2, <2>1, <2>2, <2>3, <2>4, <2>5, <2>6, <2>7, <2>8, <2>9 DEF HandStep
<1>3. ASSUME NEW w \in Window, WindowStep(w) PROVE IInv'
  BY <1>3, LaunchStep, AdmitStep, SpawnStep, OpenStep DEF WindowStep
<1>4. ASSUME NEW d \in Daemon, ServiceStep(d) \/ ChildStep(d) PROVE IInv'
  BY <1>4, ServiceSteps, TakeLockStep, QueueStep, PrepareStep, CompleteStep, AnnounceStep DEF ChildStep
<1>5. ASSUME NEW h \in Hand, KillHand(h) PROVE IInv'
  BY <1>5, VerdictStep
<1>6. ASSUME NEW w \in Window, KillWindow(w) PROVE IInv'
  BY <1>6, OpenStep
<1>7. ASSUME NEW d \in Daemon, KillDaemon(d) PROVE IInv'
  BY <1>7, KillDaemonStep
<1>8. ASSUME NEW s \in Slot, Meddle(s) PROVE IInv'
  BY <1>8, MeddleStep
<1> QED
  BY <1>1, <1>2, <1>3, <1>4, <1>5, <1>6, <1>7, <1>8 DEF Next

\* The inductive invariant of the installation.
THEOREM Invariance == Spec => []IInv
BY InitInv, NextInv, PTL DEF Spec

\* The state of the files and of the processes is well formed.
THEOREM Typing == Spec => []TypeOK
<1>1. IInv => TypeOK
  BY DEF IInv
<1> QED
  BY <1>1, Invariance, PTL

\* From its proof on the journal is the one the candidate keeps, and no
\* service writes: a transaction past it has all locks, and a service that
\* could write has the worker's (task_state_guard, ProcessLock of serve).
THEOREM JournalIsProven == Spec => []ProvenJournal
<1>1. IInv => ProvenJournal
  <2> SUFFICES ASSUME IInv, NEW h \in Hand,
                      hand[h].step \notin {"idle", "begun", "retiring", "guarded", "staged", "healthy", "backed"}
               PROVE  store = hand[h].seen /\ \A d \in Daemon : daemon[d].step \in {"down", "spawned", "retired"}
    BY DEF ProvenJournal
  <2>1. hand[h] \in Transaction /\ HandInv(h)
    BY DEF IInv, TypeOK, ProcessesOK
  <2>2. hand[h].step \in PROVEN /\ hand[h].step \in GUARDED
    BY <2>1 DEF Transaction, PROVEN, GUARDED
  <2>3. store = hand[h].seen /\ lock["worker"] = h /\ lock["app"] = h
    BY <2>1, <2>2 DEF HandInv, Lock
  <2>4. ASSUME NEW d \in Daemon PROVE daemon[d].step \in {"down", "spawned", "retired"}
    <3>1. DaemonInv(d) /\ lock["worker"] # d /\ lock["app"] # d
      BY <2>3, Processes DEF IInv
    <3> QED
      BY <3>1 DEF DaemonInv, STRICT
  <2> QED
    BY <2>3, <2>4
<1> QED
  BY <1>1, Invariance, PTL

\* A first use initializes once: before the fence is complete nothing but the
\* initial objects is written, a complete fence has all of them, and a service
\* that writes has the key that is on disk (prepare, serve_first_use).
THEOREM InitializedOnce == Spec => []OneInitialization
<1>1. IInv => OneInitialization
  BY DEF IInv, FenceInv, DaemonInv, OneInitialization
<1> QED
  BY <1>1, Invariance, PTL

-----------------------------------------------------------------------------
(* What a transaction reports.                                               *)

\* A transaction ends by a step of its own or by its death.
LEMMA OwnEnd ==
  ASSUME IInv, [Next]_vars, NEW h \in Hand, hand[h].step # "idle", hand'[h].step = "idle"
  PROVE  HandStep(h) \/ KillHand(h)
<1>1. hand \in [Hand -> Transaction] /\ ~UNCHANGED hand
  BY DEF IInv, TypeOK, ProcessesOK
<1>2. ASSUME NEW g \in Hand, HandStep(g) \/ KillHand(g) PROVE g = h
  <2>1. UNCHANGED hand \/ \E r : hand' = [hand EXCEPT ![g] = r]
    <3>1. CASE HandOff(g) \/ Retire(g)
      BY <3>1 DEF HandOff, Retire, AskService
    <3>2. CASE BeginFirst(g) \/ BeginUpdate(g) \/ BeginInstall(g) \/ BeginRestore(g)
      BY <3>2 DEF BeginFirst, BeginUpdate, BeginInstall, BeginRestore, Begins
    <3>3. CASE GuardInstall(g) \/ GuardRestore(g) \/ Snatch(g) \/ AcquireTaskLocks(g)
      BY <1>1, <3>3 DEF GuardInstall, GuardRestore, Guard, Snatch, AcquireTaskLocks, Reports, HandGoes
    <3>4. CASE Stage(g) \/ Starts(g) \/ BackUp(g) \/ Keeps(g) \/ Bind(g) \/ CreateFence(g)
      BY <1>1, <3>4 DEF Stage, Starts, BackUp, Keeps, Bind, CreateFence, Refuses, Reports, HandGoes
    <3>5. CASE MoveOld(g) \/ MoveNew(g) \/ Compensate(g) \/ Compensated(g)
      BY <1>1, <3>5 DEF MoveOld, MoveNew, Compensate, Compensated, Reports, HandGoes
    <3>6. CASE Confirm(g) \/ Quarantine(g) \/ Reinstate(g) \/ Reviewed(g) \/ KillHand(g)
      BY <1>1, <3>6 DEF Confirm, Quarantine, Reinstate, Reviewed, KillHand, Reports, HandGoes
    <3> QED
      BY <1>2, <3>1, <3>2, <3>3, <3>4, <3>5, <3>6 DEF HandStep
  <2> QED
    BY <1>1, <2>1
<1>3. ~\E w \in Window : WindowStep(w) \/ KillWindow(w)
  BY <1>1 DEF WindowStep, LaunchPending, LaunchOrdinary, Probe, Admit, BindNative, OwnNative, SpawnFirst, SpawnService,
              Restart, OpenFirst, OpenWindow, CloseWindow, KillWindow, Opens
<1>4. ~\E d \in Daemon : ServiceStep(d) \/ ChildStep(d) \/ KillDaemon(d)
  BY <1>1 DEF ServiceStep, Own, Construct, Publish, Work, CloseLocks, Unregister, ChildStep, TakeLock, BeforeQueue,
              AfterQueue, Prepare, CompleteFence, PublishFirst, Acknowledge, KillDaemon
<1>5. ~\E s \in Slot : Meddle(s)
  BY <1>1 DEF Meddle
<1>6. ~UNCHANGED vars
  BY <1>1 DEF vars
<1> QED
  BY <1>2, <1>3, <1>4, <1>5, <1>6 DEF Next

\* The ends of a transaction, with what each says and where it leaves the
\* directories.
Ends(h, said) ==
  /\ hand'[h].said = said
  /\ UNCHANGED <<meddled, copies>>
  /\ \/ said = "nothing" /\ UNCHANGED slot
     \/ said = "kept" /\ UNCHANGED slot /\ hand[h].step \in {"begun", "retiring", "guarded"} \cup KEEPING
     \/ said = "kept" /\ slot' \in Dropped(h) /\ hand[h].step \in KEEPING
     \/ said = "restored" /\ slot' \in Dropped(h) /\ slot["app"] = Was(h)
     \/ said = "recovery" /\ (UNCHANGED slot \/ (slot["app"] = Empty /\ slot' = Move(Reject(h), "app")))
     \/ said = "installed" /\ UNCHANGED slot /\ Confirmed(h) /\ hand[h].step = "active"
     \/ said = "unhealthy" /\ UNCHANGED slot /\ slot["app"] = Was(h) /\ slot[Reject(h)] = Cand(h)

\* A transaction ends in one of these ways.
LEMMA EndsSo ==
  ASSUME IInv, NEW h \in Hand, hand[h].step # "idle", hand'[h].step = "idle", HandStep(h) \/ KillHand(h)
  PROVE  \E said : Ends(h, said)
<1>1. hand \in [Hand -> Transaction]
  BY DEF IInv, TypeOK, ProcessesOK
<1>2. ASSUME NEW said \in {"nothing", "kept", "restored", "recovery", "installed", "unhealthy"}, Reports(h, said)
      PROVE  hand'[h].said = said
  <2>1. hand'[h] = Resting(said)
    BY <1>1, <1>2 DEF Reports
  <2> QED
    BY <1>2, <2>1, Shapes
<1>3. ~UNCHANGED hand /\ \A step : step # "idle" => ~HandGoes(h, step)
  BY <1>1 DEF HandGoes, Transaction
<1>4. ~(BeginFirst(h) \/ BeginUpdate(h) \/ BeginInstall(h) \/ BeginRestore(h) \/ HandOff(h) \/ Retire(h))
  BY <1>3 DEF BeginFirst, BeginUpdate, BeginInstall, BeginRestore, Begins, At, HandOff, Retire, AskService
<1>5. CASE GuardInstall(h) \/ GuardRestore(h) \/ Snatch(h) \/ AcquireTaskLocks(h)
  <2>1. Reports(h, "kept")
    <3>1. \A step, cand : hand' = [hand EXCEPT ![h].step = step, ![h].was = slot["app"], ![h].cand = cand] => step = "idle"
      BY <1>1 DEF Transaction
    <3> QED
      BY <1>3, <1>5, <3>1 DEF GuardInstall, GuardRestore, Guard, Snatch, AcquireTaskLocks
  <2>2. UNCHANGED <<slot, meddled, copies>> /\ hand[h].step \in {"begun", "retiring"}
    BY <1>5 DEF GuardInstall, GuardRestore, Guard, Snatch, AcquireTaskLocks, At, rest
  <2>3. Ends(h, "kept")
    BY <1>2, <2>1, <2>2 DEF Ends
  <2> QED
    BY <2>3
<1>6. CASE Stage(h) \/ Starts(h) \/ BackUp(h) \/ Keeps(h) \/ Bind(h) \/ CreateFence(h)
  <2>1. \A cand : hand' # [hand EXCEPT ![h].step = "staged", ![h].cand = cand]
    BY <1>1 DEF Transaction
  <2>2. \A capsule : hand' # [hand EXCEPT ![h].step = "backed", ![h].capsule = capsule]
    BY <1>1 DEF Transaction
  <2>3. \A seen : hand' # [hand EXCEPT ![h].step = "proved", ![h].seen = seen]
    BY <1>1 DEF Transaction
  <2>4. /\ hand[h].step \in {"guarded"} \cup KEEPING /\ UNCHANGED meddled
        /\ Reports(h, "kept") /\ UNCHANGED copies
        /\ UNCHANGED slot \/ (slot' \in Dropped(h) /\ hand[h].step \in KEEPING)
    BY <1>3, <1>6, <2>1, <2>2, <2>3
       DEF Stage, Starts, BackUp, Keeps, Bind, CreateFence, Refuses, At, KEEPING, rest
  <2>5. Ends(h, "kept")
    BY <1>2, <2>4 DEF Ends
  <2> QED
    BY <2>5
<1>7. CASE MoveOld(h) \/ MoveNew(h) \/ Compensate(h) \/ Compensated(h) \/ Quarantine(h) \/ Reinstate(h)
  <2>1. UNCHANGED <<meddled, copies>>
    BY <1>7 DEF MoveOld, MoveNew, Compensate, Compensated, Quarantine, Reinstate, rest
  <2>2. \/ Reports(h, "kept") /\ UNCHANGED slot /\ hand[h].step = "bound"
        \/ Reports(h, "restored") /\ slot' \in Dropped(h) /\ slot["app"] = Was(h)
        \/ Reports(h, "recovery") /\ UNCHANGED slot
        \/ Reports(h, "recovery") /\ slot["app"] = Empty /\ slot' = Move(Reject(h), "app")
    BY <1>3, <1>7 DEF MoveOld, MoveNew, Compensate, Compensated, Quarantine, Reinstate, At, Unmoved
  <2> QED
    BY <1>2, <2>1, <2>2 DEF Ends, KEEPING
<1>8. CASE Confirm(h) \/ Reviewed(h) \/ KillHand(h)
  <2>1. UNCHANGED <<slot, meddled, copies>>
    BY <1>8 DEF Confirm, Reviewed, KillHand, rest
  <2>2. \/ Reports(h, "nothing")
        \/ Reports(h, "recovery")
        \/ Reports(h, "installed") /\ Confirmed(h) /\ hand[h].step = "active"
        \/ Reports(h, "unhealthy") /\ slot["app"] = Was(h) /\ slot[Reject(h)] = Cand(h)
    BY <1>8 DEF Confirm, Reviewed, KillHand, At
  <2> QED
    BY <1>2, <2>1, <2>2 DEF Ends
<1> QED
  BY <1>4, <1>5, <1>6, <1>7, <1>8 DEF HandStep

\* What a transaction says is so (_install_macos_app_unlocked and
\* _rollback_macos_app_unlocked): the success, the refusal and the
\* compensation are about the directories as they are, and no release that
\* was in use is lost.
THEOREM TrueReports == Spec => ReportsAreTrue
<1>1. ASSUME IInv, [Next]_vars, NEW h \in Hand, hand[h].step # "idle", hand'[h].step = "idle"
      PROVE  Truthful(h, hand'[h].said)
  <2>1. PICK said : Ends(h, said)
    BY <1>1, OwnEnd, EndsSo
  <2>2. said = hand'[h].said /\ UNCHANGED <<meddled, copies>>
    BY <2>1 DEF Ends
  <2>3. Stays /\ (slot' \in Dropped(h) => slot'["app"] = slot["app"])
    <3>1. slot' \in Dropped(h) => Stays /\ slot'["app"] = slot["app"]
      BY <1>1, <2>2, Moves DEF Dropped
    <3>2. UNCHANGED slot => Stays
      BY <1>1, <2>2, Moves
    <3>3. slot["app"] = Empty /\ slot' = Move(Reject(h), "app") => Stays
      <4>1. Reject(h) \in Slot /\ Reject(h) # "app" /\ Empty \notin Bundle
        BY Places, Processes
      <4> QED
        BY <1>1, <2>2, <4>1, Moves
    <3> QED
      BY <2>1, <3>1, <3>2, <3>3 DEF Ends
  <2>4. HandInv(h) /\ hand[h].was \in Kept /\ hand[h].was \in Bundle \cup {Empty}
    BY <1>1 DEF IInv, SlotInv, TypeOK, ProcessesOK, Transaction
  <2>5. Was(h) \in {slot'[s] : s \in Slot} \cup meddled \cup {Empty}
    <3>1. hand[h].was \in Kept'
      BY <2>3, <2>4 DEF Stays
    <3> QED
      BY <2>2, <3>1 DEF Kept, Was, Slot
  <2>6. said = "kept" => Cand(h) = Empty \/ slot'["app"] # Cand(h)
    BY <2>1, <2>3, <2>4 DEF Ends, HandInv, Cand
  <2>7. said \in {"restored", "unhealthy"} => slot'["app"] = Was(h)
    BY <2>1, <2>3 DEF Ends
  <2>8. said = "unhealthy" => slot'[Reject(h)] = Cand(h)
    BY <2>1 DEF Ends
  <2>9. said = "installed" => /\ slot'["app"] = Cand(h) /\ slot'[Park(h)] = Was(h)
                              /\ HasState => hand[h].capsule = store
    BY <2>1, <2>4 DEF Ends, Confirmed, Retained, HandInv, PROVEN
  <2> QED
    BY <2>2, <2>5, <2>6, <2>7, <2>8, <2>9 DEF Truthful
<1>2. IInv /\ [Next]_vars
      => [\A h \in Hand : ~At(h, "idle") /\ At(h, "idle")' => Truthful(h, hand[h].said')]_vars
  BY <1>1 DEF At
<1> QED
  BY <1>2, Invariance, PTL DEF Spec, ReportsAreTrue
=============================================================================
