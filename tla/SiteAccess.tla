----------------------------- MODULE SiteAccess -----------------------------
(***************************************************************************)
(* What the task queue promises to the job sites, without tables, tokens,  *)
(* stages or clocks: one task at a time may be worked on, and a task whose *)
(* last write has no settled outcome is not worked on again.  TaskQueue is *)
(* shown to implement this specification.                                  *)
(***************************************************************************)
CONSTANTS Task, Nobody

VARIABLES
  holder,   \* the task that may be worked on now
  trust     \* what is known of the writes made for a task

vars == <<holder, trust>>

Init ==
  /\ holder = Nobody
  /\ trust = [t \in Task |-> "settled"]

\* Access is granted when nobody has it, and only to a task without a doubt.
\* In the same step the grantor may give up on other tasks.
Grant(t, doubted) ==
  /\ holder = Nobody /\ trust[t] = "settled" /\ t \notin doubted
  /\ holder' = t
  /\ trust' = [u \in Task |-> IF u \in doubted THEN "unknown" ELSE trust[u]]

\* The holder starts to write.
Act(t) ==
  /\ holder = t /\ trust[t] = "settled"
  /\ trust' = [trust EXCEPT ![t] = "open"]
  /\ UNCHANGED holder

\* The outcome of the write is reported, perhaps after access was lost.
Report(t) ==
  /\ trust[t] = "open"
  /\ trust' = [trust EXCEPT ![t] = "settled"]
  /\ UNCHANGED holder

\* Access ends at any moment, and tasks may become doubtful at any moment.
Revoke(doubted) ==
  /\ holder' \in {holder, Nobody}
  /\ trust' = [u \in Task |-> IF u \in doubted THEN "unknown" ELSE trust[u]]

Next ==
  \/ \E t \in Task : Act(t) \/ Report(t)
  \/ \E doubted \in SUBSET Task : Revoke(doubted) \/ \E t \in Task : Grant(t, doubted)

Spec == Init /\ [][Next]_vars

=============================================================================
