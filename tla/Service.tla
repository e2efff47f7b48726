------------------------------- MODULE Service -------------------------------
(***************************************************************************)
(* The local service of an installed application: the files of its task    *)
(* root, the lock files that its processes share, the registry record and  *)
(* the life of one daemon (autonomy/cli.py, autonomy/state_compatibility   *)
(* .py).  AppTransaction adds the transactions that replace the            *)
(* application, FirstUse the windows and the first start.                  *)
(*                                                                         *)
(* A bundle - a directory with one release in it - is a number; a later    *)
(* copy has a higher one, also of the same release, as its inode differs.  *)
(* The task root is how far the initial objects were written, the key the  *)
(* answers are encrypted with, and a count of the writes to the journal.   *)
(***************************************************************************)
EXTENDS Naturals, FiniteSets

CONSTANTS Hand, Window, Daemon, \* processes: transactions, windows, services
          Key, NoKey,           \* keys of the encrypted answers
          Nobody,
          Empty, Foreign,       \* a free slot; a directory that is not ours
          MaxBundle,            \* bound: bundles
          MaxWrites,            \* bound: what the journal's writes are counted to
          MaxMishaps            \* bound: what goes wrong in the environment

Bundle == 1..MaxBundle
Lock == {"app", "native", "worker", "migration"}
StateLock == {"native", "worker", "migration"}
Stale == "stale"                \* the registered process is dead

ASSUME ServiceAssumption ==
  /\ Nobody \notin Hand \cup Window \cup Daemon /\ NoKey \notin Key
  /\ Stale \notin Daemon
  /\ Hand \cap Window = {} /\ Hand \cap Daemon = {} /\ Window \cap Daemon = {}
  /\ {Empty, Foreign} \cap Bundle = {} /\ Empty # Foreign
  /\ MaxBundle \in Nat \ {0} /\ MaxWrites \in Nat \ {0, 1} /\ MaxMishaps \in Nat

VARIABLES
  slot,      \* the application's directory and its three neighbours
  fence,     \* .jae-first-install-state.json
  lock,      \* who holds the lock files
  store,     \* the task root: initial objects written, key, journal
  registry,  \* service.json
  daemon,
  hand,      \* transactions
  window,
  mishaps,
  copies,    \* how many bundles were ever staged
  meddled    \* bundles that somebody outside took away

rest == <<mishaps, copies, meddled>>
vars == <<slot, fence, lock, store, registry, daemon, hand, window, rest>>

\* _fence_record(): a completion that was cut off is still pending.
Pending == fence.status \in {"pending", "torn"}

\* Nothing but lock files may be in a root that counts as new.
HasState == store.made > 0 \/ store.writes > 0 \/ registry # Nobody

Release(p) == [l \in Lock |-> IF lock[l] = p THEN Nobody ELSE lock[l]]
Acquire(p, wanted) == [l \in Lock |-> IF l \in wanted THEN p ELSE lock[l]]
AllFree(wanted) == \A l \in wanted : lock[l] = Nobody

\* A write to the journal; the count starts again, but every write changes it.
Wrote(k) == [store EXCEPT !.key = k, !.writes = IF @ < MaxWrites THEN @ + 1 ELSE 1]

NoRecord == [tag |-> Empty, store |-> [made |-> 0, key |-> NoKey, writes |-> 0]]
Down == [step |-> "down", bundle |-> Empty, key |-> NoKey, seen |-> NoRecord]
Strict(d) == daemon[d].seen # NoRecord

Spawned(b, seen) == [Down EXCEPT !.step = "spawned", !.bundle = b, !.seen = seen]
Goes(d, s) == daemon' = [daemon EXCEPT ![d].step = s]
Exits(d) == daemon' = [daemon EXCEPT ![d] = Down] /\ lock' = Release(d)

-----------------------------------------------------------------------------
(* serve(), when it is not the first start.                                 *)

\* ProcessLock and _refuse_live_service, or the process ends.
Own(d) ==
  /\ daemon[d].step = "spawned" /\ ~Strict(d)
  /\ \/ /\ lock["worker"] = Nobody /\ registry \notin Daemon
        /\ lock' = Acquire(d, {"worker"}) /\ Goes(d, "owned")
     \/ /\ lock["worker"] # Nobody \/ registry \in Daemon
        /\ Exits(d)
  /\ UNCHANGED <<slot, fence, store, registry, hand, window, rest>>

\* TaskQueue() under migration.lock: the schema, and a key if there is none.
Construct(d) ==
  /\ daemon[d].step = "owned" /\ ~Strict(d) /\ lock["migration"] = Nobody
  /\ \E k \in IF store.key = NoKey THEN Key ELSE {store.key} :
       /\ store' = Wrote(k)
       /\ daemon' = [daemon EXCEPT ![d].step = "built", ![d].key = k]
  /\ UNCHANGED <<slot, fence, lock, registry, hand, window, rest>>

\* service.json is replaced by a rename.
Publish(d) ==
  /\ daemon[d].step = "built"
  /\ registry' = d /\ Goes(d, "serving")
  /\ UNCHANGED <<slot, fence, lock, store, hand, window, rest>>

Work(d) ==
  /\ daemon[d].step \in {"serving", "stopping"}
  /\ store' = Wrote(store.key)
  /\ UNCHANGED <<slot, fence, lock, registry, daemon, hand, window, rest>>

\* The worker guards are released first: no service.json, no service.
CloseLocks(d) ==
  /\ daemon[d].step = "stopping"
  /\ lock' = Release(d) /\ Goes(d, "retired")
  /\ UNCHANGED <<slot, fence, store, registry, hand, window, rest>>

Unregister(d) ==
  /\ daemon[d].step = "retired"
  /\ registry' = (IF registry = d THEN Nobody ELSE registry)
  /\ daemon' = [daemon EXCEPT ![d] = Down]
  /\ UNCHANGED <<slot, fence, lock, store, hand, window, rest>>

\* stop_service(), for a client that showed the identity in service.json;
\* with work under way it refuses, and then nothing has happened.
Stopped(d) == registry = d /\ daemon[d].step = "serving" /\ Goes(d, "stopping")

ServiceStep(d) ==
  Own(d) \/ Construct(d) \/ Publish(d) \/ Work(d) \/ CloseLocks(d) \/ Unregister(d)

=============================================================================
