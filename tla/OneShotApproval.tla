-------------------------- MODULE OneShotApproval --------------------------
(***************************************************************************)
(* What private preparations promise the person who approves them, and the *)
(* workers of the queue: an approval is admitted once, alone, and for a    *)
(* form that no approval has typed into; it is given up only when the      *)
(* browser it was given to is gone; while it is admitted each of its       *)
(* effects on the website happens at most once, and none happens before or *)
(* after; and no worker starts as long as an approval is admitted.         *)
(***************************************************************************)
EXTENDS Naturals

CONSTANTS Approval, Effect, Form

VARIABLES form,    \* the form an approval is for
          phase,   \* what became of an approval
          alive,   \* is the browser of an approval running?
          count,   \* how often an effect of an approval happened
          worker   \* is a worker at work?

vars == <<form, phase, alive, count, worker>>

Init ==
  /\ form \in [Approval -> Form]
  /\ phase = [a \in Approval |-> "unused"]
  /\ alive = [a \in Approval |-> FALSE]
  /\ count = [a \in Approval |-> [e \in Effect |-> 0]]
  /\ worker = FALSE

Launch(a) ==
  /\ phase[a] = "unused" /\ ~alive[a]
  /\ alive' = [alive EXCEPT ![a] = TRUE]
  /\ UNCHANGED <<form, phase, count, worker>>

Die(a) ==
  /\ alive[a]
  /\ alive' = [alive EXCEPT ![a] = FALSE]
  /\ UNCHANGED <<form, phase, count, worker>>

Admit(a) ==
  /\ phase[a] = "unused" /\ ~worker
  /\ \A b \in Approval : phase[b] # "admitted"
  /\ \A b \in Approval : form[b] = form[a] => \A e \in Effect : count[b][e] = 0
  /\ phase' = [phase EXCEPT ![a] = "admitted"]
  /\ UNCHANGED <<form, alive, count, worker>>

Happen(a, e) ==
  /\ phase[a] = "admitted" /\ alive[a] /\ count[a][e] = 0
  /\ count' = [count EXCEPT ![a][e] = 1]
  /\ UNCHANGED <<form, phase, alive, worker>>

Release(a) ==
  /\ phase[a] = "admitted" /\ ~alive[a]
  /\ phase' = [phase EXCEPT ![a] = "spent"]
  /\ UNCHANGED <<form, alive, count, worker>>

WorkerStarts ==
  /\ ~worker /\ \A a \in Approval : phase[a] # "admitted"
  /\ worker' = TRUE
  /\ UNCHANGED <<form, phase, alive, count>>

WorkerStops ==
  /\ worker /\ worker' = FALSE
  /\ UNCHANGED <<form, phase, alive, count>>

Next ==
  \/ \E a \in Approval :
       \/ Launch(a) \/ Die(a) \/ Admit(a) \/ Release(a)
       \/ \E e \in Effect : Happen(a, e)
  \/ WorkerStarts \/ WorkerStops

Spec == Init /\ [][Next]_vars

=============================================================================
