----------------------- MODULE TaskQueueReconciliation -----------------------
(***************************************************************************)
(* TaskQueue with a history variable: the tasks that stopped because a     *)
(* browser page or a draft must first be reconciled by a read-only path.   *)
(* The code has no such path yet, so nothing removes a task from owed.     *)
(***************************************************************************)
EXTENDS TaskQueueMC

VARIABLE owed

NeedsReconciliation(t) == row[t].blocker \in RECONCILIATION_REQUIRED /\ ~Live(t)

HistoryInit == Init /\ owed = {}
HistoryNext ==
  /\ Next
  /\ owed' = owed \cup {t \in Task : NeedsReconciliation(t)'}
HistorySpec == HistoryInit /\ [][HistoryNext]_<<vars, owed>>

\* "Local resume is refused even after a subsequent pause until a read-only
\* reconciliation mechanism exists" (docs/.../receipts/JCR-02-WIP-001.md:15).
\* begin_profile_write() of another task on the same profile replaces the
\* blocker by profile_changed, and _resume_in_tx() accepts that one.
ResumeIsRefused == \A t \in owed : ~Runnable(row[t])

=============================================================================
