------------------------------ MODULE SmsLogin ------------------------------
(***************************************************************************)
(* What the login of an application promises to the person whose phone it  *)
(* uses.  It goes in rounds.  A round begins if none is under way, or with *)
(* this person's consent; the site is asked for at most one message in it; *)
(* and codes are typed while it is under way, and remembered no longer.    *)
(* The account of the earlier rounds is never changed.                     *)
(***************************************************************************)
EXTENDS Naturals, Sequences

CONSTANTS Task, Code

VARIABLES rounds,   \* the rounds of a task's login, the last one last
          typed     \* the codes remembered as typed in its last round

vars == <<rounds, typed>>

LoginRound == [consented : BOOLEAN, messages : 0 .. 1, stage : {"open", "over"}]
TypeOK == rounds \in [Task -> Seq(LoginRound)] /\ typed \in [Task -> SUBSET Code]

Init ==
  /\ rounds = [t \in Task |-> <<>>]
  /\ typed = [t \in Task |-> {}]

Last(t) == rounds[t][Len(rounds[t])]
UnderWay(t) == rounds[t] # <<>> /\ Last(t).stage = "open"

NewRound(t, consent) ==
  /\ rounds' = [rounds EXCEPT ![t] =
                  Append(@, [consented |-> consent, messages |-> 0, stage |-> "open"])]
  /\ typed' = [typed EXCEPT ![t] = {}]

Begin(t) == ~UnderWay(t) /\ NewRound(t, FALSE)
Consent(t) == UnderWay(t) /\ NewRound(t, TRUE)

Ask(t) ==
  /\ UnderWay(t) /\ Last(t).messages = 0
  /\ rounds' = [rounds EXCEPT ![t][Len(rounds[t])].messages = 1]
  /\ UNCHANGED typed

TypeIn(t, c) ==
  /\ UnderWay(t)
  /\ typed' = [typed EXCEPT ![t] = @ \cup {c}]
  /\ UNCHANGED rounds

LogIn(t) ==
  /\ UnderWay(t)
  /\ rounds' = [rounds EXCEPT ![t][Len(rounds[t])].stage = "over"]
  /\ UNCHANGED typed

\* The service starts again: what was typed is not remembered.
Forget ==
  /\ typed' = [t \in Task |-> {}]
  /\ UNCHANGED rounds

Next ==
  \/ \E t \in Task : Begin(t) \/ Consent(t) \/ Ask(t) \/ LogIn(t) \/ \E c \in Code : TypeIn(t, c)
  \/ Forget

Spec == Init /\ [][Next]_vars

=============================================================================
