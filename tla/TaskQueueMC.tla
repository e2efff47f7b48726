---------------------------- MODULE TaskQueueMC ----------------------------
(***************************************************************************)
(* Model checking TaskQueue: two tasks that share one profile, the second  *)
(* of them, in one of the runs, enqueued at a landing page.                *)
(***************************************************************************)
EXTENDS TaskQueue, TLC

CONSTANTS t1, t2, p1

MCProfileRef == (t1 :> p1) @@ (t2 :> p1)

\* Reports that the queue treats differently, half of them in each run.
FormReports ==
  {<<"FORM_FILLED", "none">>, <<"READY_TO_SUBMIT", "none">>,
   <<"NEEDS_USER_INPUT", "unknown_facts">>,
   <<"BLOCKED", "draft_persistence_unverified">>}
SessionReports ==
  {<<"READY_TO_SUBMIT", "none">>, <<"NEEDS_USER_ACTION", "otp_waiting">>,
   <<"BLOCKED", "session_unavailable">>, <<"ERROR", "retry_pending">>}

Symmetric == Permutations(Owner) \cup Permutations(Attempt)

=============================================================================
