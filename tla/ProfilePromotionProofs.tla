----------------------- MODULE ProfilePromotionProofs -----------------------
(***************************************************************************)
(* Proofs about ProfilePromotion, for every set of tasks and handlers and  *)
(* for every number of answers and restarts.                               *)
(***************************************************************************)
EXTENDS ProfilePromotion, FiniteSetTheorems, TLAPS

\* The answers of a promotion are served oldest first.
LEMMA LeastIsLeast ==
  ASSUME NEW S \in SUBSET Answer, S # {}
  PROVE  Least(S) \in S /\ \A b \in S : Least(S) <= b
<1> DEFINE below(a) == {x \in S : x < a}
           segments == {below(a) : a \in S}
<1>1. S \subseteq Nat
  BY ConstantsAssumption DEF Answer
<1>2. IsFiniteSet(Answer)
  BY FS_Interval, ConstantsAssumption DEF Answer
<1>3. IsWellFoundedOn(StrictSubsetOrdering(Answer), SUBSET Answer)
  BY <1>2, FS_StrictSubsetOrderingWellFounded, FS_FiniteSubsetsOfFinite
<1>4. segments \subseteq SUBSET Answer /\ segments # {}
  OBVIOUS
<1>5. PICK least \in segments :
        \A other \in segments : ~(<<other, least>> \in StrictSubsetOrdering(Answer))
  BY <1>3, <1>4, WFMin
<1>6. PICK a \in S : least = below(a)
  BY <1>5
<1>7. ASSUME NEW b \in S, b < a PROVE FALSE
  <2>0. b \in Nat /\ \A x \in S : x \in Nat /\ (x < b => x < a)
    BY <1>1, <1>7
  <2>1. below(b) \subseteq below(a) /\ b \in below(a) /\ b \notin below(b)
    <3> HIDE DEF segments
    <3>1. \A x \in below(b) : x \in below(a)
      BY <2>0
    <3>2. b \in below(a)
      BY <1>7
    <3>3. ~(b < b)
      BY <2>0
    <3> QED
      BY <3>1, <3>2, <3>3
  <2>2. <<below(b), least>> \in StrictSubsetOrdering(Answer)
    BY <2>1, <1>4, <1>6 DEF StrictSubsetOrdering
  <2> QED
    BY <2>2, <1>5
<1>8. \A b \in S : a <= b
  BY <1>1, <1>7
<1> QED
  BY <1>8 DEF Least

\* Writing an answer adds it to the file and nothing else, or leaves a file
\* that has it as it is.
LEMMA WriteAdds ==
  ASSUME profile \in Seq(Answer), NEW a \in Answer, profile' = ProfileWith(a)
  PROVE  /\ profile' \in Seq(Answer)
         /\ Written' = Written \cup {a}
         /\ a \in Written => profile' = profile
         /\ a \notin Written => profile' = Append(profile, a)
<1>1. CASE a \in Written
  BY <1>1 DEF ProfileWith, Written
<1>2. CASE a \notin Written
  <2>1. profile' = Append(profile, a)
    BY <1>2 DEF ProfileWith
  <2>2. Len(profile') = Len(profile) + 1 /\ Len(profile) \in Nat
    BY <2>1
  <2>3. \A i \in 1 .. Len(profile) : profile'[i] = profile[i]
    BY <2>1
  <2>4. profile'[Len(profile) + 1] = a
    BY <2>1
  <2>5. Written' = {profile'[i] : i \in 1 .. Len(profile')}
    BY DEF Written
  <2>6. 1 .. Len(profile') = (1 .. Len(profile)) \cup {Len(profile) + 1}
    BY <2>2
  <2>7. Written' = Written \cup {a}
    BY <2>3, <2>4, <2>5, <2>6 DEF Written
  <2> QED
    BY <1>2, <2>1, <2>7
<1> QED
  BY <1>1, <1>2

\* The file holds answers.
LEMMA WrittenTyped ==
  ASSUME TypeOK
  PROVE  Written \subseteq Answer
BY DEF TypeOK, Written

-----------------------------------------------------------------------------
PromoterTyped ==
  /\ promoter \in [Promoter -> Promotion]
  /\ \A w \in Promoter : promoter[w].pc \in {"write", "mark"} => promoter[w].todo # {}

\* A thread that moves on, or that gives up, stays well typed.
LEMMA MoveTyped ==
  ASSUME TypeOK, NEW w \in Promoter, NEW r \in Promotion,
         r.pc \in {"write", "mark"} => r.todo # {},
         promoter' = [promoter EXCEPT ![w] = r]
  PROVE  PromoterTyped'
BY DEF TypeOK, PromoterTyped

\* An idle thread is well typed.
LEMMA IdleTyped == Idle \in Promotion /\ Idle.pc = "idle"
BY DEF Idle, Promotion

\* Every step keeps the tables, the file and the threads well typed.
LEMMA NextTyped == TypeOK /\ [Next]_vars => TypeOK'
<1> SUFFICES ASSUME TypeOK, [Next]_vars PROVE TypeOK'
  OBVIOUS
<1>t. {"runnable", "asking", "promoting", "changed", "paused", "unknown",
      "unknown_paused", "ready", "cancelled"} = STATES
  BY DEF STATES
<1>p. \A w \in Promoter : /\ promoter[w].task \in Task \cup {NoTask}
                         /\ promoter[w].todo \subseteq Answer
  BY DEF TypeOK, Promotion
<1>q. PromoterTyped
  BY DEF TypeOK, PromoterTyped
<1>w. Worker \in Promoter /\ Handler \subseteq Promoter
  BY DEF Promoter
<1>1. ASSUME NEW h \in Handler, NEW t \in Task, SaveReusableAnswer(h, t) PROVE TypeOK'
  <2>1. [Idle EXCEPT !.pc = "collect", !.task = t] \in Promotion
    BY DEF Idle, Promotion
  <2>2. PromoterTyped'
    BY <1>1, <1>w, <2>1, MoveTyped DEF SaveReusableAnswer, Idle
  <2>3. state' \in [Task -> STATES] /\ asked' \in [Answer -> Task \cup {NoTask}]
    BY <1>1, <1>t DEF SaveReusableAnswer, TypeOK
  <2> QED
    BY <1>1, <2>2, <2>3 DEF SaveReusableAnswer, PromoterTyped, TypeOK
<1>2. ASSUME NEW w \in Promoter, Collect(w) PROVE TypeOK'
  <2>1. Pending(promoter[w].task) \subseteq Answer
    BY DEF Pending, Asked
  <2>2. PromoterTyped'
    <3>1. [promoter[w] EXCEPT !.pc = "begin", !.todo = Pending(promoter[w].task)] \in Promotion
      BY <2>1, <1>2 DEF TypeOK, Promotion, Collect
    <3>2. promoter' = [promoter EXCEPT ![w] =
            [promoter[w] EXCEPT !.pc = "begin", !.todo = Pending(promoter[w].task)]]
      BY <1>2 DEF Collect, TypeOK
    <3> QED
      BY <3>1, <3>2, MoveTyped DEF TypeOK, Promotion
  <2> QED
    BY <1>2, <2>2 DEF Collect, PromoterTyped, TypeOK
<1>3. ASSUME NEW w \in Promoter, BeginProfileWrite(w) PROVE TypeOK'
  <2>1. state' \in [Task -> STATES] /\ lease' \in Task \cup {NoTask}
    BY <1>3, <1>t DEF BeginProfileWrite, StopReaders, LeaseWithout, TypeOK
  <2>2. PromoterTyped'
    <3>1. [promoter[w] EXCEPT !.pc = "write"] \in Promotion
      BY DEF TypeOK, Promotion
    <3>2. CASE promoter' = [promoter EXCEPT ![w].pc = "write"]
      <4>1. promoter' = [promoter EXCEPT ![w] = [promoter[w] EXCEPT !.pc = "write"]]
        BY <3>2 DEF TypeOK
      <4> QED
        BY <1>3, <3>1, <4>1, MoveTyped DEF BeginProfileWrite, HasWork, TypeOK, Promotion
    <3>3. CASE Fail(w)
      BY <3>3, IdleTyped, MoveTyped DEF Fail
    <3> QED
      BY <1>3, <3>2, <3>3 DEF BeginProfileWrite
  <2>3. barrier' \in Task \cup {NoTask}
    BY <1>3, <1>p DEF BeginProfileWrite, TypeOK
  <2> QED
    BY <1>3, <2>1, <2>2, <2>3 DEF BeginProfileWrite, PromoterTyped, TypeOK
<1>4. ASSUME NEW w \in Promoter, WriteProfile(w) PROVE TypeOK'
  <2>1. Least(promoter[w].todo) \in Answer
    BY <1>4, <1>p, LeastIsLeast DEF WriteProfile, TypeOK
  <2>2. profile' \in Seq(Answer)
    BY <1>4, <2>1, WriteAdds DEF WriteProfile, TypeOK
  <2>3. PromoterTyped'
    <3>1. promoter' = [promoter EXCEPT ![w] = [promoter[w] EXCEPT !.pc = "mark"]]
      BY <1>4 DEF WriteProfile, TypeOK
    <3> QED
      BY <1>4, <3>1, MoveTyped DEF WriteProfile, TypeOK, Promotion
  <2> QED
    BY <1>4, <2>2, <2>3 DEF WriteProfile, PromoterTyped, TypeOK
<1>5. ASSUME NEW w \in Promoter, WriteFails(w) PROVE TypeOK'
  <2>1. PromoterTyped'
    BY <1>5, IdleTyped, MoveTyped DEF WriteFails, Fail
  <2> QED
    BY <1>5, <2>1 DEF WriteFails, PromoterTyped, TypeOK
<1>6. ASSUME NEW w \in Promoter, MarkApplied(w) PROVE TypeOK'
  <2>1. Least(promoter[w].todo) \in Answer
    BY <1>6, <1>p, LeastIsLeast DEF MarkApplied, TypeOK
  <2>2. state' \in [Task -> STATES]
    BY <1>6, <1>t DEF MarkApplied, TypeOK
  <2>3. applied' \subseteq Answer
    BY <1>6, <2>1 DEF MarkApplied, TypeOK
  <2>4. barrier' \in Task \cup {NoTask}
    BY <1>6 DEF MarkApplied, TypeOK
  <2>5. PromoterTyped'
    BY <1>6, IdleTyped, MoveTyped DEF MarkApplied, Fail, Promotion, TypeOK
  <2>6. UNCHANGED <<lease, unsettled, asked, profile, turn, seen, crashes>>
    BY <1>6 DEF MarkApplied
  <2> QED
    BY <2>2, <2>3, <2>4, <2>5, <2>6 DEF PromoterTyped, TypeOK
<1>7. ASSUME NEW w \in Promoter, FinishPendingTask(w) PROVE TypeOK'
  <2>1. state' \in [Task -> STATES]
    BY <1>7, <1>t DEF FinishPendingTask, TypeOK
  <2>2. PromoterTyped'
    BY <1>7, IdleTyped, MoveTyped DEF FinishPendingTask, Fail
  <2>3. barrier' \in Task \cup {NoTask}
    BY <1>7 DEF FinishPendingTask, TypeOK
  <2>4. UNCHANGED <<lease, unsettled, asked, applied, profile, turn, seen, crashes>>
    BY <1>7 DEF FinishPendingTask
  <2> QED
    BY <2>1, <2>2, <2>3, <2>4 DEF PromoterTyped, TypeOK
<1>8. CASE Scan
  BY <1>8 DEF Scan, PendingTasks, TypeOK
<1>9. ASSUME NEW t \in Task, PromoteNext(t) PROVE TypeOK'
  <2>1. [Idle EXCEPT !.pc = "collect", !.task = t] \in Promotion
    BY DEF Idle, Promotion
  <2>2. PromoterTyped'
    BY <1>9, <1>w, <2>1, MoveTyped DEF PromoteNext, Idle
  <2> QED
    BY <1>9, <2>2 DEF PromoteNext, PromoterTyped, TypeOK
<1>10. ASSUME NEW t \in Task, Claim(t) PROVE TypeOK'
  BY <1>10, <1>t, ConstantsAssumption DEF Claim, Blocked, NewTurn, TypeOK
<1>11. CASE ClaimNothing
  BY <1>11, <1>t DEF ClaimNothing, Blocked, NewTurn, TypeOK
<1>12. CASE LoadProfile
  <2>1. Written \cup Asked(turn.task) \subseteq Answer
    BY WrittenTyped DEF Asked
  <2> QED
    BY <1>12, <2>1 DEF LoadProfile, TypeOK
<1>13. CASE BeginRunAttempt
  BY <1>13 DEF BeginRunAttempt, NewTurn, TypeOK
<1>14. ASSUME NEW r \in {"asking", "ready"}, Checkpoint(r) PROVE TypeOK'
  BY <1>14, <1>t DEF Checkpoint, TypeOK
<1>15. CASE RunFails
  BY <1>15, <1>t DEF RunFails, Blocked, NewTurn, TypeOK
<1>16. CASE FinishRunAttempt
  BY <1>16 DEF FinishRunAttempt, NewTurn, TypeOK
<1>17. ASSUME NEW t \in Task, Pause(t) \/ Resume(t) \/ Cancel(t) PROVE TypeOK'
  BY <1>17, <1>t DEF Pause, Resume, Cancel, LeaseWithout, TypeOK
<1>18. CASE Restart
  <2>1. PromoterTyped'
    BY <1>18, IdleTyped DEF Restart, PromoterTyped
  <2> QED
    BY <1>18, <2>1, ConstantsAssumption DEF Restart, NewTurn, PromoterTyped, TypeOK
<1>19. CASE UNCHANGED vars
  BY <1>19 DEF vars, TypeOK, Written
<1> QED
  BY <1>1, <1>2, <1>3, <1>4, <1>5, <1>6, <1>7, <1>8, <1>9, <1>10, <1>11, <1>12, <1>13,
     <1>14, <1>15, <1>16, <1>17, <1>18, <1>19
     DEF Next, Working, Commanding, Promoting

\* Whatever the threads do in whatever order, the promotion's tables stay well
\* typed, and no thread writes or marks without an answer in hand.
THEOREM Typing == Spec => []TypeOK
<1>1. Init => TypeOK
  <2>1. Init => PromoterTyped
    BY IdleTyped DEF Init, PromoterTyped
  <2> QED
    BY <2>1, ConstantsAssumption DEF Init, PromoterTyped, TypeOK, STATES, NewTurn
<1> QED
  BY <1>1, NextTyped, PTL DEF Spec

-----------------------------------------------------------------------------
Holding(w) == promoter[w].pc \in {"begin", "write", "mark"}

\* A promotion serves answers of its own task, oldest first: whatever older
\* answer of the task it does not hold is applied already.
OwnAnswers ==
  \A w \in Promoter : promoter[w].pc # "idle" =>
    promoter[w].task \in Task /\ promoter[w].todo \subseteq Asked(promoter[w].task)
OldestFirst ==
  \A w \in Promoter : Holding(w) =>
    \A a \in Asked(promoter[w].task) \ promoter[w].todo :
      (\E d \in promoter[w].todo : a < d) => a \in applied

\* A promotion marks what is written.
MarksWritten ==
  \A w \in Promoter : promoter[w].pc = "mark" => Least(promoter[w].todo) \in Written

\* Sequence numbers are given out in order, and the answers of a task reach the
\* profile in that order.
AskedInOrder ==
  \A a, b \in Answer : asked[a] # NoTask /\ b < a => asked[b] # NoTask
WrittenInOrder ==
  \A a \in Written :
    /\ asked[a] # NoTask
    /\ \A b \in Answer : asked[b] = asked[a] /\ b < a => b \in Written

AnswerInv ==
  /\ AppliedIsWritten /\ OwnAnswers /\ OldestFirst /\ MarksWritten
  /\ AskedInOrder /\ WrittenInOrder /\ NewestAnswerWins

\* A thread that keeps still, gives up, picks a task, or passes from the barrier
\* to the write.
CalmMove(w) ==
  \/ promoter'[w] = promoter[w]
  \/ promoter'[w] = Idle
  \/ promoter'[w].pc = "collect" /\ promoter'[w].todo = {} /\ promoter'[w].task \in Task
  \/ /\ promoter[w].pc = "begin" /\ promoter'[w].pc = "write"
     /\ promoter'[w].task = promoter[w].task /\ promoter'[w].todo = promoter[w].todo
Calm == UNCHANGED <<asked, applied, profile>> /\ \A w \in Promoter : CalmMove(w)

Advance(w) ==
  /\ promoter[w].pc = "mark"
  /\ applied' = applied \cup {Least(promoter[w].todo)}
  /\ promoter' = [promoter EXCEPT ![w].pc = "begin",
                                  ![w].todo = @ \ {Least(promoter[w].todo)}]
  /\ UNCHANGED <<asked, profile>>

\* Only four actions touch what AnswerInv speaks about in any other way.
LEMMA AnswerSteps ==
  ASSUME TypeOK, [Next]_vars
  PROVE  \/ Calm
         \/ \E h \in Handler, t \in Task : SaveReusableAnswer(h, t)
         \/ \E w \in Promoter : Collect(w) \/ WriteProfile(w) \/ Advance(w)
<1>1. ASSUME NEW w \in Promoter, Fail(w), UNCHANGED <<asked, applied, profile>> PROVE Calm
  BY <1>1 DEF Calm, CalmMove, Fail, TypeOK
<1>2. ASSUME UNCHANGED <<asked, applied, profile, promoter>> PROVE Calm
  BY <1>2 DEF Calm, CalmMove
<1>3. ASSUME NEW w \in Promoter, BeginProfileWrite(w) PROVE Calm
  <2>1. CASE Fail(w)
    BY <1>1, <1>3, <2>1 DEF BeginProfileWrite
  <2>2. CASE promoter' = [promoter EXCEPT ![w].pc = "write"]
    BY <1>3, <2>2 DEF BeginProfileWrite, Calm, CalmMove, TypeOK, Promotion
  <2> QED
    BY <1>3, <2>1, <2>2 DEF BeginProfileWrite
<1>4. ASSUME NEW w \in Promoter, WriteFails(w) \/ FinishPendingTask(w) PROVE Calm
  BY <1>1, <1>4 DEF WriteFails, FinishPendingTask
<1>5. ASSUME NEW w \in Promoter, MarkApplied(w) PROVE Calm \/ Advance(w)
  <2>1. CASE Fail(w) /\ UNCHANGED applied
    BY <1>1, <1>5, <2>1 DEF MarkApplied
  <2>2. CASE ~(Fail(w) /\ UNCHANGED applied)
    BY <1>5, <2>2 DEF MarkApplied, Advance
  <2> QED
    BY <2>1, <2>2
<1>6. ASSUME NEW t \in Task, PromoteNext(t) PROVE Calm
  BY <1>6 DEF PromoteNext, Calm, CalmMove, Idle, TypeOK, Promoter
<1>7. CASE Restart
  BY <1>7 DEF Restart, Calm, CalmMove
<1>8. CASE Scan \/ ClaimNothing \/ LoadProfile \/ BeginRunAttempt \/ RunFails \/ FinishRunAttempt
  BY <1>2, <1>8 DEF Scan, ClaimNothing, LoadProfile, BeginRunAttempt, RunFails, FinishRunAttempt
<1>9. ASSUME NEW t \in Task, Claim(t) \/ Pause(t) \/ Resume(t) \/ Cancel(t) PROVE Calm
  BY <1>2, <1>9 DEF Claim, Pause, Resume, Cancel
<1>10. ASSUME NEW r \in {"asking", "ready"}, Checkpoint(r) PROVE Calm
  BY <1>2, <1>10 DEF Checkpoint
<1>11. CASE UNCHANGED vars
  BY <1>2, <1>11 DEF vars
<1> QED
  BY <1>3, <1>4, <1>5, <1>6, <1>7, <1>8, <1>9, <1>10, <1>11
     DEF Next, Working, Commanding, Promoting

\* Steps that leave the tables and the file alone keep AnswerInv.
LEMMA CalmAnswers ==
  ASSUME TypeOK, AnswerInv, Calm
  PROVE  AnswerInv'
<1>1. Written' = Written /\ \A t : Asked(t)' = Asked(t)
  BY DEF Calm, Written, Asked
<1>2. AppliedIsWritten' /\ AskedInOrder' /\ WrittenInOrder' /\ NewestAnswerWins'
  BY <1>1 DEF Calm, AnswerInv, AppliedIsWritten, AskedInOrder, WrittenInOrder, NewestAnswerWins
<1>3. OwnAnswers'
  BY <1>1 DEF Calm, CalmMove, Idle, AnswerInv, OwnAnswers
<1>4. OldestFirst'
  BY <1>1 DEF Calm, CalmMove, Idle, AnswerInv, OldestFirst, Holding
<1>5. MarksWritten'
  BY <1>1 DEF Calm, CalmMove, Idle, AnswerInv, MarksWritten
<1> QED
  BY <1>2, <1>3, <1>4, <1>5 DEF AnswerInv

\* A new answer is newer than all others, so it disturbs no order.
LEMMA SavedAnswers ==
  ASSUME TypeOK, AnswerInv, NEW h \in Handler, NEW t \in Task, SaveReusableAnswer(h, t)
  PROVE  AnswerInv'
<1> PICK n \in Answer : /\ asked[n] = NoTask /\ \A b \in Answer : b < n => asked[b] # NoTask
                        /\ asked' = [asked EXCEPT ![n] = t]
  BY DEF SaveReusableAnswer
<1>0. Answer \subseteq Nat /\ Written \subseteq Answer /\ t # NoTask
  BY ConstantsAssumption, WrittenTyped DEF Answer
<1>1. Written' = Written /\ UNCHANGED <<applied, profile>>
  BY DEF SaveReusableAnswer, Written
<1>2. \A a \in Answer : asked[a] # NoTask => asked'[a] = asked[a]
  BY DEF TypeOK
<1>3. \A w \in Promoter : \/ promoter'[w] = promoter[w]
                          \/ promoter'[w].pc = "collect" /\ promoter'[w].todo = {}
                             /\ promoter'[w].task = t
  BY DEF SaveReusableAnswer, Idle, Promoter, TypeOK
<1>4. \A u \in Task : Asked(u) \subseteq Asked(u)' /\ Asked(u)' \subseteq Asked(u) \cup {n}
  BY ConstantsAssumption DEF Asked, TypeOK
<1>5. AppliedIsWritten'
  BY <1>1 DEF AnswerInv, AppliedIsWritten
<1>6. OwnAnswers'
  BY <1>3, <1>4 DEF AnswerInv, OwnAnswers
<1>7. MarksWritten'
  BY <1>1, <1>3 DEF AnswerInv, MarksWritten
<1>8. AskedInOrder'
  BY <1>0 DEF AnswerInv, AskedInOrder, TypeOK
<1>9. \A a \in Answer : asked[a] # NoTask => a < n
  BY <1>0 DEF AnswerInv, AskedInOrder
<1>10. OldestFirst'
  <2> SUFFICES ASSUME NEW w \in Promoter, Holding(w)',
                      NEW a \in (Asked(promoter[w].task) \ promoter[w].todo)',
                      NEW d \in promoter'[w].todo, a < d
               PROVE  a \in applied
    BY <1>1 DEF OldestFirst
  <2>1. promoter'[w] = promoter[w] /\ Holding(w)
    BY <1>3 DEF Holding
  <2>2. promoter[w].task \in Task /\ d \in Asked(promoter[w].task)
    BY <2>1 DEF Holding, AnswerInv, OwnAnswers
  <2>3. d \in Answer /\ d < n /\ a \in Answer /\ a # n
    <3>1. d \in Answer /\ asked[d] # NoTask
      BY <2>2, ConstantsAssumption DEF Asked
    <3>2. d < n
      BY <3>1, <1>9
    <3>3. a \in Answer
      BY DEF Asked
    <3>4. a \in Nat /\ d \in Nat /\ n \in Nat
      BY <3>1, <3>3, <1>0
    <3> QED
      BY <3>1, <3>2, <3>3, <3>4
  <2>4. a \in Asked(promoter[w].task)
    BY <2>1, <2>3, <1>4, <2>2 DEF Asked, TypeOK
  <2> QED
    BY <2>1, <2>4 DEF AnswerInv, OldestFirst
<1>11. WrittenInOrder'
  <2> SUFFICES ASSUME NEW a \in Written
               PROVE  /\ asked'[a] # NoTask
                      /\ \A b \in Answer : asked'[b] = asked'[a] /\ b < a => b \in Written
    BY <1>1 DEF WrittenInOrder
  <2>1. asked[a] # NoTask /\ asked'[a] = asked[a] /\ a < n /\ a \in Answer
    BY <1>0, <1>2, <1>9 DEF AnswerInv, WrittenInOrder
  <2>2. ASSUME NEW b \in Answer, b < a PROVE asked'[b] = asked[b]
    <3>1. b # n
      BY <1>0, <2>1, <2>2
    <3> QED
      BY <3>1 DEF TypeOK
  <2> QED
    BY <2>1, <2>2 DEF AnswerInv, WrittenInOrder
<1>12. NewestAnswerWins'
  <2>1. \A i \in 1 .. Len(profile) : asked'[profile[i]] = asked[profile[i]]
    BY <1>0, <1>2 DEF AnswerInv, WrittenInOrder, Written
  <2> QED
    BY <1>1, <2>1 DEF AnswerInv, NewestAnswerWins
<1> QED
  BY <1>5, <1>6, <1>7, <1>8, <1>10, <1>11, <1>12 DEF AnswerInv

\* A promotion starts with every answer of its task that is not applied.
LEMMA CollectedAnswers ==
  ASSUME TypeOK, AnswerInv, NEW w \in Promoter, Collect(w)
  PROVE  AnswerInv'
<1> DEFINE t == promoter[w].task
<1>1. /\ Written' = Written /\ UNCHANGED <<asked, applied, profile>>
      /\ \A u : Asked(u)' = Asked(u)
  BY DEF Collect, Written, Asked
<1>2. /\ \A v \in Promoter \ {w} : promoter'[v] = promoter[v]
      /\ promoter'[w].pc = "begin" /\ promoter'[w].task = t
      /\ promoter'[w].todo = Asked(t) \ applied
  BY DEF Collect, Pending, TypeOK, Promotion
<1>3. t \in Task
  BY DEF Collect, AnswerInv, OwnAnswers
<1>4. AppliedIsWritten' /\ AskedInOrder' /\ WrittenInOrder' /\ NewestAnswerWins'
  BY <1>1 DEF AnswerInv, AppliedIsWritten, AskedInOrder, WrittenInOrder, NewestAnswerWins
<1>5. OwnAnswers'
  BY <1>1, <1>2, <1>3 DEF AnswerInv, OwnAnswers
<1>6. OldestFirst'
  BY <1>1, <1>2 DEF AnswerInv, OldestFirst, Holding
<1>7. MarksWritten'
  BY <1>1, <1>2 DEF AnswerInv, MarksWritten
<1> QED
  BY <1>4, <1>5, <1>6, <1>7 DEF AnswerInv

\* What is written is the oldest answer of the task that is not yet written.
LEMMA WrittenAnswers ==
  ASSUME TypeOK, AnswerInv, NEW w \in Promoter, WriteProfile(w)
  PROVE  AnswerInv'
<1> DEFINE t == promoter[w].task
           a == Least(promoter[w].todo)
<1>0. Answer \subseteq Nat /\ Written \subseteq Answer
  BY ConstantsAssumption, WrittenTyped DEF Answer
<1>1. promoter[w].todo # {} /\ promoter[w].todo \subseteq Answer
  BY DEF WriteProfile, TypeOK, Promotion
<1>2. a \in promoter[w].todo /\ \A b \in promoter[w].todo : a <= b
  BY <1>1, LeastIsLeast
<1>3. t \in Task /\ a \in Asked(t) /\ a \in Answer
  BY <1>1, <1>2 DEF WriteProfile, AnswerInv, OwnAnswers
<1>4. /\ profile \in Seq(Answer) /\ profile' = ProfileWith(a)
  BY DEF WriteProfile, TypeOK
<1> HIDE DEF a
<1>5. /\ Written' = Written \cup {a}
      /\ a \in Written => profile' = profile
      /\ a \notin Written => profile' = Append(profile, a)
  BY <1>3, <1>4, WriteAdds
<1>6. UNCHANGED <<asked, applied>> /\ \A u : Asked(u)' = Asked(u)
  BY DEF WriteProfile, Asked
<1>7. /\ \A v \in Promoter \ {w} : promoter'[v] = promoter[v]
      /\ promoter'[w].pc = "mark" /\ promoter'[w].task = t
      /\ promoter'[w].todo = promoter[w].todo
  BY DEF WriteProfile, TypeOK, Promotion
<1>8. asked[a] = t /\ t # NoTask
  BY <1>3, ConstantsAssumption DEF Asked
<1>9. ASSUME NEW b \in Answer, asked[b] = t, b < a PROVE b \in Written
  <2>1. b \in Asked(t) \ promoter[w].todo
    BY <1>0, <1>2, <1>3, <1>9 DEF Asked
  <2>2. b \in applied
    BY <1>2, <1>9, <2>1 DEF WriteProfile, AnswerInv, OldestFirst, Holding
  <2> QED
    BY <2>2 DEF AnswerInv, AppliedIsWritten
<1>10. AppliedIsWritten' /\ AskedInOrder'
  BY <1>5, <1>6 DEF AnswerInv, AppliedIsWritten, AskedInOrder
<1>11. OwnAnswers' /\ OldestFirst'
  <2>1. OwnAnswers'
    BY <1>3, <1>6, <1>7 DEF WriteProfile, AnswerInv, OwnAnswers
  <2>2. \A v \in Promoter : Holding(v)' => Holding(v)
    BY <1>7 DEF Holding, WriteProfile
  <2>3. \A v \in Promoter : promoter'[v].task = promoter[v].task
                          /\ promoter'[v].todo = promoter[v].todo
    BY <1>7
  <2> QED
    BY <1>6, <2>1, <2>2, <2>3 DEF AnswerInv, OldestFirst
<1>12. MarksWritten'
  BY <1>5, <1>7 DEF AnswerInv, MarksWritten, a
<1>13. WrittenInOrder'
  BY <1>5, <1>6, <1>8, <1>9 DEF AnswerInv, WrittenInOrder
<1>14. NewestAnswerWins'
  <2>1. CASE a \in Written
    BY <1>5, <1>6, <2>1 DEF AnswerInv, NewestAnswerWins
  <2>2. CASE a \notin Written
    <3>1. /\ Len(profile) \in Nat /\ Len(profile') = Len(profile) + 1
          /\ profile'[Len(profile) + 1] = a
          /\ \A i \in 1 .. Len(profile) : profile'[i] = profile[i] /\ profile[i] \in Written
      BY <1>4, <1>5, <2>2 DEF Written
    <3>2. ASSUME NEW i \in 1 .. Len(profile), asked[profile[i]] = t PROVE profile[i] < a
      <4>1. profile[i] \in Written /\ profile[i] # a /\ profile[i] \in Nat /\ a \in Nat
        BY <1>0, <1>3, <2>2, <3>1
      <4>2. ~(a < profile[i])
        BY <1>3, <1>8, <2>2, <3>2, <4>1 DEF AnswerInv, WrittenInOrder
      <4> QED
        BY <4>1, <4>2
    <3>3. SUFFICES ASSUME NEW i \in 1 .. Len(profile'), NEW j \in 1 .. Len(profile'), i < j,
                          asked[profile'[i]] = asked[profile'[j]]
                   PROVE  profile'[i] < profile'[j]
      BY <1>6 DEF NewestAnswerWins
    <3>4. CASE j = Len(profile) + 1
      <4>1. i \in 1 .. Len(profile)
        BY <3>1, <3>3, <3>4
      <4> QED
        BY <1>8, <3>1, <3>2, <3>3, <3>4, <4>1
    <3>5. CASE j # Len(profile) + 1
      <4>1. i \in 1 .. Len(profile) /\ j \in 1 .. Len(profile)
        BY <3>1, <3>3, <3>5
      <4> QED
        BY <3>1, <3>3, <4>1 DEF AnswerInv, NewestAnswerWins
    <3> QED
      BY <3>4, <3>5
  <2> QED
    BY <2>1, <2>2
<1> QED
  BY <1>10, <1>11, <1>12, <1>13, <1>14 DEF AnswerInv

\* What is marked was written before.
LEMMA MarkedAnswers ==
  ASSUME TypeOK, AnswerInv, NEW w \in Promoter, Advance(w)
  PROVE  AnswerInv'
<1> DEFINE a == Least(promoter[w].todo)
<1>1. promoter[w].todo # {} /\ promoter[w].todo \subseteq Answer
  BY DEF Advance, TypeOK, Promotion
<1>2. a \in promoter[w].todo /\ a \in Written
  BY <1>1, LeastIsLeast DEF Advance, AnswerInv, MarksWritten
<1>3. /\ \A v \in Promoter \ {w} : promoter'[v] = promoter[v]
      /\ promoter'[w].pc = "begin" /\ promoter'[w].task = promoter[w].task
      /\ promoter'[w].todo = promoter[w].todo \ {a}
  BY DEF Advance, TypeOK, Promotion
<1> HIDE DEF a
<1>4. /\ Written' = Written /\ UNCHANGED <<asked, profile>>
      /\ applied' = applied \cup {a} /\ \A u : Asked(u)' = Asked(u)
  BY DEF Advance, Written, Asked, a
<1>5. AppliedIsWritten' /\ AskedInOrder' /\ WrittenInOrder' /\ NewestAnswerWins'
  BY <1>2, <1>4 DEF AnswerInv, AppliedIsWritten, AskedInOrder, WrittenInOrder, NewestAnswerWins
<1>6. OwnAnswers'
  BY <1>3, <1>4 DEF Advance, AnswerInv, OwnAnswers
<1>7. OldestFirst'
  <2>1. ASSUME NEW v \in Promoter \ {w}, Holding(v)',
               NEW b \in Asked(promoter[v].task) \ promoter[v].todo,
               NEW d \in promoter[v].todo, b < d
        PROVE  b \in applied'
    BY <1>3, <1>4, <2>1 DEF AnswerInv, OldestFirst, Holding
  <2>2. ASSUME NEW b \in Asked(promoter[w].task) \ (promoter[w].todo \ {a}),
               NEW d \in promoter[w].todo \ {a}, b < d
        PROVE  b \in applied'
    BY <1>4, <2>2 DEF Advance, AnswerInv, OldestFirst, Holding
  <2> QED
    BY <1>3, <1>4, <2>1, <2>2 DEF OldestFirst
<1>8. MarksWritten'
  BY <1>3, <1>4 DEF AnswerInv, MarksWritten
<1> QED
  BY <1>5, <1>6, <1>7, <1>8 DEF AnswerInv

\* Whoever promotes and however often it is retried or interrupted, an answer
\* is marked as applied only when the profile file has it, and the file has
\* every answer once and the answers of a task in the order they were given.
THEOREM AnswersAreServed == Spec => [](AppliedIsWritten /\ NewestAnswerWins)
<1>1. Init => AnswerInv
  BY ConstantsAssumption
     DEF Init, Idle, AnswerInv, AppliedIsWritten, OwnAnswers, OldestFirst, MarksWritten,
         AskedInOrder, WrittenInOrder, NewestAnswerWins, Written, Holding, Asked
<1>2. TypeOK /\ AnswerInv /\ [Next]_vars => AnswerInv'
  BY AnswerSteps, CalmAnswers, SavedAnswers, CollectedAnswers, WrittenAnswers, MarkedAnswers
<1>3. AnswerInv => AppliedIsWritten /\ NewestAnswerWins
  BY DEF AnswerInv
<1> QED
  BY <1>1, <1>2, <1>3, Typing, PTL DEF Spec

-----------------------------------------------------------------------------
\* The lease is the worker's own, on the task of its turn.
LeaseOfTurn ==
  lease # NoTask =>
    /\ turn.task = lease /\ turn.pc \in {"load", "start", "work"}
    /\ state[lease] # "cancelled"

\* A runner that has read the profile knows it, and the answers of its task.
ReaderKnows ==
  lease # NoTask /\ turn.pc \in {"start", "work"} =>
    Written \cup Asked(lease) \subseteq seen[lease]

\* Whoever is about to write either writes what is there, because another
\* thread was faster and may have released the barrier, or has the barrier up
\* and nobody else's lease before it.
WriteFenced ==
  \A w \in Promoter : promoter[w].pc = "write" =>
    \/ Least(promoter[w].todo) \in Written
    \/ barrier = promoter[w].task /\ lease \in {NoTask, promoter[w].task}

FenceInv == LeaseOfTurn /\ ReaderKnows /\ WriteFenced

\* The lease follows the worker's turn.
LEMMA LeaseStep ==
  ASSUME TypeOK, LeaseOfTurn, [Next]_vars
  PROVE  LeaseOfTurn'
<1>t. lease \in Task \cup {NoTask} /\ state \in [Task -> STATES] /\ NoTask \notin Task
  BY ConstantsAssumption DEF TypeOK
<1>1. ASSUME lease' = NoTask PROVE LeaseOfTurn'
  BY <1>1 DEF LeaseOfTurn
<1>2. ASSUME lease' = lease, turn' = turn,
             \A t \in Task : state'[t] = "cancelled" => state[t] = "cancelled"
      PROVE  LeaseOfTurn'
  BY <1>2, <1>t DEF LeaseOfTurn
<1>3. ASSUME UNCHANGED <<lease, state>>, turn.pc \in {"scan", "promote", "settle"} PROVE LeaseOfTurn'
  BY <1>3 DEF LeaseOfTurn
<1>4. ASSUME NEW h \in Handler, NEW t \in Task, SaveReusableAnswer(h, t) PROVE LeaseOfTurn'
  BY <1>2, <1>4, <1>t DEF SaveReusableAnswer
<1>5. ASSUME NEW w \in Promoter, Collect(w) \/ WriteProfile(w) \/ WriteFails(w) PROVE LeaseOfTurn'
  BY <1>2, <1>5 DEF Collect, WriteProfile, WriteFails
<1>6. ASSUME NEW w \in Promoter, BeginProfileWrite(w) PROVE LeaseOfTurn'
  <2>1. lease' \in {lease, NoTask}
    BY <1>6 DEF BeginProfileWrite, StopReaders, LeaseWithout
  <2>2. \A t \in Task : state'[t] = "cancelled" => state[t] = "cancelled"
    BY <1>6, <1>t DEF BeginProfileWrite, StopReaders
  <2> QED
    BY <1>1, <1>2, <1>6, <2>1, <2>2 DEF BeginProfileWrite
<1>7. ASSUME NEW w \in Promoter, MarkApplied(w) \/ FinishPendingTask(w) PROVE LeaseOfTurn'
  <2>1. \A t \in Task : state'[t] = "cancelled" => state[t] = "cancelled"
    BY <1>7, <1>t DEF MarkApplied, FinishPendingTask
  <2> QED
    BY <1>2, <1>7, <2>1 DEF MarkApplied, FinishPendingTask
<1>8. CASE Scan \/ FinishRunAttempt
  BY <1>3, <1>8 DEF Scan, FinishRunAttempt
<1>9. ASSUME NEW t \in Task, PromoteNext(t) PROVE LeaseOfTurn'
  BY <1>3, <1>9 DEF PromoteNext
<1>10. ASSUME NEW t \in Task, Claim(t) PROVE LeaseOfTurn'
  BY <1>10, <1>t DEF Claim, Claimable, Blocked, NewTurn, LeaseOfTurn
<1>11. CASE ClaimNothing
  BY <1>11, <1>1 DEF ClaimNothing, ReadyToClaim, LeaseOfTurn
<1>12. CASE LoadProfile \/ BeginRunAttempt
  BY <1>12, <1>t DEF LoadProfile, BeginRunAttempt, NewTurn, LeaseOfTurn, TypeOK
<1>13. ASSUME NEW r \in {"asking", "ready"}, Checkpoint(r) PROVE LeaseOfTurn'
  BY <1>1, <1>13 DEF Checkpoint
<1>14. CASE RunFails \/ Restart
  BY <1>1, <1>14 DEF RunFails, Restart
<1>15. ASSUME NEW t \in Task, Pause(t) \/ Resume(t) \/ Cancel(t) PROVE LeaseOfTurn'
  <2>1. lease' \in {lease, NoTask} /\ turn' = turn
    BY <1>15 DEF Pause, Resume, Cancel, LeaseWithout
  <2>2. CASE Pause(t) \/ Resume(t)
    <3>1. \A u \in Task : state'[u] = "cancelled" => state[u] = "cancelled"
      BY <2>2, <1>t DEF Pause, Resume
    <3> QED
      BY <1>1, <1>2, <2>1, <3>1
  <2>3. CASE Cancel(t)
    BY <1>1, <1>t, <2>1, <2>3 DEF Cancel, LeaseWithout, LeaseOfTurn
  <2> QED
    BY <1>15, <2>2, <2>3
<1>16. CASE UNCHANGED vars
  BY <1>2, <1>16 DEF vars
<1> QED
  BY <1>4, <1>5, <1>6, <1>7, <1>8, <1>9, <1>10, <1>11, <1>12, <1>13, <1>14, <1>15, <1>16
     DEF Next, Working, Commanding, Promoting

\* Only a fenced write, or a write of the reader's own task, meets a reader.
LEMMA ReaderStep ==
  ASSUME TypeOK, AnswerInv, FenceInv, [Next]_vars
  PROVE  ReaderKnows'
<1>t. lease \in Task \cup {NoTask} /\ seen \in [Task -> SUBSET Answer] /\ NoTask \notin Task
  BY ConstantsAssumption DEF TypeOK
<1>1. ASSUME lease' \in {lease, NoTask}, UNCHANGED <<profile, asked, seen>>,
             turn'.pc \in {"start", "work"} => turn.pc \in {"start", "work"}
      PROVE  ReaderKnows'
  BY <1>1 DEF FenceInv, ReaderKnows, Written, Asked
<1>2. ASSUME NEW h \in Handler, NEW t \in Task, SaveReusableAnswer(h, t) PROVE ReaderKnows'
  <2>1. PICK n \in Answer : asked' = [asked EXCEPT ![n] = t]
    BY <1>2 DEF SaveReusableAnswer
  <2>2. lease # NoTask => Asked(lease)' \subseteq Asked(lease)
    BY <1>2, <2>1, <1>t DEF SaveReusableAnswer, Asked, TypeOK
  <2> QED
    BY <1>2, <2>2 DEF SaveReusableAnswer, FenceInv, ReaderKnows, Written, Asked
<1>3. ASSUME NEW w \in Promoter, WriteProfile(w) PROVE ReaderKnows'
  <2> DEFINE t == promoter[w].task
             a == Least(promoter[w].todo)
  <2>1. promoter[w].todo # {} /\ promoter[w].todo \subseteq Answer /\ t \in Task
        /\ promoter[w].todo \subseteq Asked(t)
    BY <1>3 DEF WriteProfile, TypeOK, Promotion, AnswerInv, OwnAnswers
  <2>2. a \in Asked(t) /\ a \in Answer
    BY <2>1, LeastIsLeast
  <2>3. profile \in Seq(Answer) /\ profile' = ProfileWith(a)
    BY <1>3 DEF WriteProfile, TypeOK
  <2>4. a \in Written \/ lease \in {NoTask, t}
    BY <1>3 DEF WriteProfile, FenceInv, WriteFenced
  <2> HIDE DEF a
  <2>5. Written' = Written \cup {a}
    BY <2>2, <2>3, WriteAdds
  <2>6. UNCHANGED <<lease, turn, seen, asked>> /\ \A u : Asked(u)' = Asked(u)
    BY <1>3 DEF WriteProfile, Asked
  <2> QED
    BY <2>2, <2>4, <2>5, <2>6 DEF FenceInv, ReaderKnows
<1>4. ASSUME NEW w \in Promoter, Collect(w) \/ WriteFails(w) \/ MarkApplied(w) \/ FinishPendingTask(w)
      PROVE  ReaderKnows'
  BY <1>1, <1>4 DEF Collect, WriteFails, MarkApplied, FinishPendingTask
<1>5. ASSUME NEW w \in Promoter, BeginProfileWrite(w) PROVE ReaderKnows'
  BY <1>1, <1>5 DEF BeginProfileWrite, StopReaders, LeaseWithout
<1>6. CASE Scan \/ ClaimNothing \/ FinishRunAttempt
  <2>1. turn'.pc \in {"scan", "promote"}
    <3>1. turn = [turn EXCEPT !.pc = turn.pc] /\ DOMAIN turn = {"pc", "task", "agenda"}
      BY DEF TypeOK
    <3>2. CASE Scan
      BY <3>1, <3>2 DEF Scan
    <3>3. CASE ClaimNothing \/ FinishRunAttempt
      BY <3>3 DEF ClaimNothing, FinishRunAttempt, NewTurn
    <3> QED
      BY <1>6, <3>2, <3>3
  <2> QED
    BY <2>1 DEF ReaderKnows
<1>7. ASSUME NEW t \in Task, PromoteNext(t) PROVE ReaderKnows'
  BY <1>1, <1>7 DEF PromoteNext, TypeOK
<1>8. ASSUME NEW t \in Task, Claim(t) PROVE ReaderKnows'
  BY <1>8 DEF Claim, NewTurn, ReaderKnows
<1>9. CASE LoadProfile
  <2>1. lease # NoTask => lease = turn.task
    BY DEF FenceInv, LeaseOfTurn
  <2>2. Written' = Written /\ \A u : Asked(u)' = Asked(u)
    BY <1>9 DEF LoadProfile, Written, Asked
  <2>3. lease' = lease /\ seen' = [seen EXCEPT ![turn.task] = Written \cup Asked(turn.task)]
    BY <1>9 DEF LoadProfile
  <2> QED
    BY <1>t, <2>1, <2>2, <2>3 DEF ReaderKnows
<1>10. CASE BeginRunAttempt
  BY <1>1, <1>10 DEF BeginRunAttempt, NewTurn, TypeOK
<1>11. ASSUME NEW r \in {"asking", "ready"}, Checkpoint(r) PROVE ReaderKnows'
  BY <1>11 DEF Checkpoint, ReaderKnows
<1>12. CASE RunFails \/ Restart
  BY <1>12 DEF RunFails, Restart, ReaderKnows
<1>13. ASSUME NEW t \in Task, Pause(t) \/ Resume(t) \/ Cancel(t) PROVE ReaderKnows'
  BY <1>1, <1>13 DEF Pause, Resume, Cancel, LeaseWithout
<1>14. CASE UNCHANGED vars
  BY <1>1, <1>14 DEF vars
<1> QED
  BY <1>2, <1>3, <1>4, <1>5, <1>6, <1>7, <1>8, <1>9, <1>10, <1>11, <1>12, <1>13, <1>14
     DEF Next, Working, Commanding, Promoting

\* A last marker, or finish_pending_task(), releases the barrier: then every
\* answer of the task is in the file.
LEMMA ReleasedIsWritten ==
  ASSUME TypeOK, AnswerInv, NEW w \in Promoter, MarkApplied(w) \/ FinishPendingTask(w),
         barrier' # barrier
  PROVE  /\ barrier \in {NoTask, promoter[w].task}
         /\ Asked(promoter[w].task) \subseteq Written
<1>1. CASE MarkApplied(w)
  <2> DEFINE a == Least(promoter[w].todo)
  <2>1. a \in Written /\ applied \subseteq Written
    BY <1>1 DEF MarkApplied, AnswerInv, MarksWritten, AppliedIsWritten
  <2>2. /\ Asked(promoter[w].task) \ (applied \cup {a}) = {}
        /\ LastMarkAccepted(promoter[w].task)
    BY <1>1 DEF MarkApplied
  <2> QED
    BY <2>1, <2>2 DEF LastMarkAccepted
<1>2. CASE FinishPendingTask(w)
  BY <1>2 DEF FinishPendingTask, Pending, AnswerInv, AppliedIsWritten
<1> QED
  BY <1>1, <1>2

\* The barrier stays up, or what was to be written is written.
LEMMA FenceStep ==
  ASSUME TypeOK, AnswerInv, FenceInv, [Next]_vars
  PROVE  WriteFenced'
<1>t. lease \in Task \cup {NoTask} /\ NoTask \notin Task /\ promoter \in [Promoter -> Promotion]
  BY ConstantsAssumption DEF TypeOK
<1> DEFINE Unmoved(w) == promoter'[w].pc = "write" => promoter'[w] = promoter[w]
<1>1. ASSUME lease' \in {lease, NoTask}, UNCHANGED <<profile, barrier>>,
             \A w \in Promoter : Unmoved(w)
      PROVE  WriteFenced'
  BY <1>1 DEF FenceInv, WriteFenced, Written
<1>2. ASSUME NEW h \in Handler, NEW t \in Task, SaveReusableAnswer(h, t) PROVE WriteFenced'
  <2>1. \A w \in Promoter : Unmoved(w)
    BY <1>2 DEF SaveReusableAnswer, Idle, Promoter, TypeOK
  <2> QED
    BY <1>1, <1>2, <2>1 DEF SaveReusableAnswer
<1>3. ASSUME NEW w \in Promoter, Collect(w) \/ WriteFails(w) PROVE WriteFenced'
  <2>1. \A v \in Promoter : Unmoved(v)
    BY <1>3, <1>t DEF Collect, WriteFails, Fail, Idle, Promotion
  <2> QED
    BY <1>1, <1>3, <2>1 DEF Collect, WriteFails
<1>4. ASSUME NEW w \in Promoter, BeginProfileWrite(w) PROVE WriteFenced'
  <2> DEFINE t == promoter[w].task
  <2>1. Written' = Written
    BY <1>4 DEF BeginProfileWrite, Written
  <2>2. CASE barrier \notin {NoTask, t}
    <3>1. \A v \in Promoter : Unmoved(v)
      BY <1>4, <2>2, <1>t DEF BeginProfileWrite, Fail, Idle
    <3> QED
      BY <1>1, <1>4, <2>2, <3>1 DEF BeginProfileWrite
  <2>3. CASE barrier \in {NoTask, t}
    <3>1. barrier' = t /\ lease' \in {NoTask, lease} /\ lease' \in {NoTask, t}
      <4>1. lease' = LeaseWithout(Fenced(t)) /\ barrier' = t
        BY <1>4, <2>3 DEF BeginProfileWrite, StopReaders
      <4>2. lease \in Fenced(t) \cup {NoTask, t}
        BY <1>t DEF FenceInv, LeaseOfTurn, Fenced
      <4> QED
        BY <4>1, <4>2 DEF LeaseWithout
    <3>2. /\ \A v \in Promoter \ {w} : promoter'[v] = promoter[v]
          /\ promoter'[w].task = t
      BY <1>4, <2>3, <1>t DEF BeginProfileWrite, Promotion
    <3>3. t # NoTask
      BY <1>4, <1>t DEF BeginProfileWrite, AnswerInv, OwnAnswers
    <3>4. ASSUME NEW v \in Promoter \ {w}, promoter[v].pc = "write"
          PROVE  Least(promoter[v].todo) \in Written \/ promoter[v].task = t
      <4>1. promoter[v].task \in Task
        BY <3>4 DEF AnswerInv, OwnAnswers
      <4> QED
        BY <2>3, <3>4, <4>1, <1>t DEF FenceInv, WriteFenced
    <3> QED
      BY <2>1, <3>1, <3>2, <3>4 DEF WriteFenced
  <2> QED
    BY <2>2, <2>3
<1>5. ASSUME NEW w \in Promoter, WriteProfile(w) PROVE WriteFenced'
  <2>1. Written \subseteq Written'
    <3>1. Least(promoter[w].todo) \in Answer
      BY <1>5, <1>t, LeastIsLeast DEF WriteProfile, TypeOK, Promotion
    <3> QED
      BY <1>5, <3>1, WriteAdds DEF WriteProfile, TypeOK
  <2>2. \A v \in Promoter : Unmoved(v)
    BY <1>5, <1>t DEF WriteProfile, Promotion
  <2> QED
    BY <1>5, <2>1, <2>2 DEF WriteProfile, FenceInv, WriteFenced
<1>6. ASSUME NEW w \in Promoter, MarkApplied(w) \/ FinishPendingTask(w) PROVE WriteFenced'
  <2>1. lease' = lease /\ profile' = profile /\ Written' = Written
    BY <1>6 DEF MarkApplied, FinishPendingTask, Written
  <2>2. \A v \in Promoter : Unmoved(v)
    BY <1>6, <1>t DEF MarkApplied, FinishPendingTask, Fail, Idle, Promotion
  <2>3. CASE barrier' = barrier
    BY <1>1, <2>1, <2>2, <2>3
  <2>4. CASE barrier' # barrier
    <3>1. /\ barrier \in {NoTask, promoter[w].task}
          /\ Asked(promoter[w].task) \subseteq Written
      BY <1>6, <2>4, ReleasedIsWritten
    <3>2. ASSUME NEW v \in Promoter, promoter[v].pc = "write"
          PROVE  Least(promoter[v].todo) \in Written
      <4>1. CASE barrier = promoter[v].task
        <5>1. promoter[v].task \in Task /\ promoter[v].todo \subseteq Asked(promoter[v].task)
          BY <3>2 DEF AnswerInv, OwnAnswers
        <5>2. Least(promoter[v].todo) \in promoter[v].todo
          BY <3>2, <1>t, LeastIsLeast DEF TypeOK, Promotion
        <5> QED
          BY <3>1, <4>1, <5>1, <5>2, <1>t
      <4>2. CASE barrier # promoter[v].task
        BY <3>2, <4>2 DEF FenceInv, WriteFenced
      <4> QED
        BY <4>1, <4>2
    <3> QED
      BY <2>1, <2>2, <3>2 DEF WriteFenced
  <2> QED
    BY <2>3, <2>4
<1>7. CASE Scan \/ ClaimNothing \/ LoadProfile \/ BeginRunAttempt \/ RunFails \/ FinishRunAttempt
  <2>1. lease' \in {lease, NoTask} /\ UNCHANGED <<profile, barrier, promoter>>
    BY <1>7 DEF Scan, ClaimNothing, LoadProfile, BeginRunAttempt, RunFails, FinishRunAttempt
  <2> QED
    BY <1>1, <2>1
<1>8. ASSUME NEW t \in Task, PromoteNext(t) PROVE WriteFenced'
  <2>1. \A w \in Promoter : Unmoved(w)
    BY <1>8, <1>t DEF PromoteNext, Idle
  <2> QED
    BY <1>1, <1>8, <2>1 DEF PromoteNext
<1>9. ASSUME NEW t \in Task, Claim(t) PROVE WriteFenced'
  <2>1. \A w \in Promoter : promoter[w].pc = "write" => Least(promoter[w].todo) \in Written
    BY <1>9, <1>t DEF Claim, Claimable, FenceInv, WriteFenced, AnswerInv, OwnAnswers
  <2> QED
    BY <1>9, <2>1 DEF Claim, WriteFenced, Written
<1>10. ASSUME NEW r \in {"asking", "ready"}, Checkpoint(r) PROVE WriteFenced'
  BY <1>1, <1>10 DEF Checkpoint
<1>11. CASE Restart
  <2>1. \A w \in Promoter : Unmoved(w)
    BY <1>11 DEF Restart, Idle
  <2> QED
    BY <1>1, <1>11, <2>1 DEF Restart
<1>12. ASSUME NEW t \in Task, Pause(t) \/ Resume(t) \/ Cancel(t) PROVE WriteFenced'
  BY <1>1, <1>12 DEF Pause, Resume, Cancel, LeaseWithout
<1>13. CASE UNCHANGED vars
  BY <1>1, <1>13 DEF vars
<1> QED
  BY <1>2, <1>3, <1>4, <1>5, <1>6, <1>7, <1>8, <1>9, <1>10, <1>11, <1>12, <1>13
     DEF Next, Working, Commanding, Promoting

\* A runner that holds its lease never works from an old profile, with any
\* number of threads promoting at once, retrying, failing or being restarted.
THEOREM ReadersAreFenced == Spec => []NoStaleReader
<1>1. Init => AnswerInv
  BY ConstantsAssumption
     DEF Init, Idle, AnswerInv, AppliedIsWritten, OwnAnswers, OldestFirst, MarksWritten,
         AskedInOrder, WrittenInOrder, NewestAnswerWins, Written, Holding, Asked
<1>2. Init => FenceInv
  BY DEF Init, FenceInv, LeaseOfTurn, ReaderKnows, WriteFenced, Idle
<1>3. TypeOK /\ AnswerInv /\ [Next]_vars => AnswerInv'
  BY AnswerSteps, CalmAnswers, SavedAnswers, CollectedAnswers, WrittenAnswers, MarkedAnswers
<1>4. TypeOK /\ AnswerInv /\ FenceInv /\ [Next]_vars => FenceInv'
  BY LeaseStep, ReaderStep, FenceStep DEF FenceInv
<1>5. FenceInv => NoStaleReader
  BY DEF FenceInv, ReaderKnows, NoStaleReader
<1> QED
  BY <1>1, <1>2, <1>3, <1>4, <1>5, Typing, PTL DEF Spec

=============================================================================
