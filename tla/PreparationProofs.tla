------------------------- MODULE PreparationProofs -------------------------
(***************************************************************************)
(* Proofs about PreparationSession, for every set of approvals and tasks,  *)
(* every plan of fields and any number of mishaps.                         *)
(*                                                                         *)
(* The argument.  What can be said of an approval is local to it, but for  *)
(* the marker.  Life says which parts of the durable state the owner       *)
(* thread can have touched where it stands: an approval is unused until    *)
(* its thread consumes it, and a thread that holds the permit finds its row *)
(* open as long as its browser runs, because whoever closes the row has    *)
(* proved the browser absent.  Truth relates the journals to the effects,  *)
(* Place the effects to the step of the thread that makes them.  No one    *)
(* but the thread writes an intent; everybody else only forgets outcomes   *)
(* (Fades), which leaves Truth and Place as they were.  From these the     *)
(* steps map to those of OneShotApproval.                                  *)
(***************************************************************************)
EXTENDS PreparationSession, TLAPS

PRE == {"none", "opening", "launching", "entered", "checked", "discovered", "sealed", "offered", "consume"}
AFTER == {"journal", "idle", "upload_offered"} \cup FieldSteps \cup UploadSteps \cup HumanSteps

Used(n) == marker = n \/ approval[n].outcome # "none" \/ n \in receipts \cup tombstone

Life(n) ==
  /\ proxy[n] = "none" <=> pc[n] = "none"
  /\ pc[n] \in PRE \/ (pc[n] \notin Ended /\ ~started[n]) => ~Used(n)
  /\ pc[n] \in {"none", "opening", "launching"} => browser[n] # "alive"
  /\ proven[n] => pc[n] \in {"settle", "dead"} /\ browser[n] # "alive"
  /\ closed[n] => pc[n] = "exited" /\ browser[n] # "alive" /\ marker # n /\ ~OpenRow(n)
  /\ proxy[n] = "closed" => closed[n]
  /\ approval[n].context_closed => approval[n].outcome # "none"
  /\ pc[n] \in AFTER => hold[n] = "active"
  /\ hold[n] = "active" => pc[n] \notin PRE /\ (OpenRow(n) \/ browser[n] # "alive")

Truth(n) ==
  LET j == journal[n]
  IN /\ \A f \in Range(Plan) :
          /\ j.field[f] = "none" => done[n][f] = 0
          /\ j.field[f] = "READBACK" \/ approval[n].outcome = "PREPARED" => done[n][f] = 1
          /\ j.selected \/ j.final # "none" => done[n][f] = 1
     /\ \A s \in Range(STAGES) :
          /\ j.stage[s] = "none" => done[n][s] = 0
          /\ j.stage[s] = "RETURNED" \/ j.upload = "RETURNED" => done[n][s] = 1
          /\ j.stage[s] # "none" => j.selected
          /\ HasResume /\ j.final # "none" => done[n][s] = 1
     /\ j.final = "none" => done[n]["final"] = 0
     /\ j.final = "RETURNED" => done[n]["final"] = 1

Place(n) ==
  LET j == journal[n]
  IN /\ pc[n] \in {"field", "fenced", "write", "readback"} => k[n] \in 1 .. Len(Plan)
     /\ pc[n] \in {"fenced", "write"} => j.field[Plan[k[n]]] # "none" /\ done[n][Plan[k[n]]] = 0
     /\ pc[n] = "readback" => j.field[Plan[k[n]]] # "none" /\ done[n][Plan[k[n]]] = 1
     /\ pc[n] \in {"stage", "post", "record"} => k[n] \in 1 .. 3
     /\ pc[n] = "post" => j.stage[STAGES[k[n]]] # "none" /\ done[n][STAGES[k[n]]] = 0
     /\ pc[n] = "record" => j.stage[STAGES[k[n]]] # "none" /\ done[n][STAGES[k[n]]] = 1
     /\ pc[n] \in {"intent", "forward"} => j.final # "none" /\ done[n]["final"] = 0
     /\ pc[n] = "sent" => j.final # "none" /\ done[n]["final"] = 1

Consent(n) ==
  /\ pc[n] \in {"agreed", "intent", "forward", "sent"} => confirmed[n]
  /\ pc[n] \in {"intent", "forward", "sent"} \/ done[n]["final"] > 0 => confirmed[n] /\ edited[n] # "before"
  /\ late[n] <= 1
  /\ late[n] = 1 => proxy[n] \notin {"none", "open"} /\ pc[n] \notin {"write", "post", "forward"}

NonceInv(n) == Life(n) /\ Truth(n) /\ Place(n) /\ Consent(n)
IInv == TypeOK /\ \A n \in Nonce : NonceInv(n)

-----------------------------------------------------------------------------
(* The names of the effects, and what a step leaves alone.                   *)

\* The fields, the upload stages and the final request are different effects.
LEMMA Names ==
  /\ Len(Plan) \in Nat \ {0} /\ DOMAIN Plan = 1 .. Len(Plan)
  /\ \A i \in 1 .. Len(Plan) : Plan[i] \in Range(Plan)
  /\ Len(STAGES) = 3 /\ DOMAIN STAGES = 1 .. 3
  /\ \A i \in 1 .. 3 : STAGES[i] \in Range(STAGES)
  /\ \A s \in Range(STAGES) : \E i \in 1 .. 3 : s = STAGES[i]
  /\ \A i, j \in 1 .. 3 : STAGES[i] = STAGES[j] => i = j
  /\ Range(Plan) \subseteq Effects /\ Range(STAGES) \subseteq Effects /\ "final" \in Effects
  /\ \A f \in Range(Plan) : f # "final" /\ f \notin Range(STAGES)
  /\ "final" \notin Range(STAGES)
<1>1. Len(Plan) \in Nat \ {0} /\ DOMAIN Plan = 1 .. Len(Plan)
  BY PlanAssumption
<1>2. \A i \in 1 .. Len(Plan) : Plan[i] \in Range(Plan)
  BY <1>1 DEF Range
<1>3. Len(STAGES) = 3 /\ DOMAIN STAGES = 1 .. 3
  BY DEF STAGES
<1>4. STAGES[1] = "selection_lookup" /\ STAGES[2] = "start_lookup" /\ STAGES[3] = "upload"
  BY DEF STAGES
<1>5. \A i \in 1 .. 3 : i = 1 \/ i = 2 \/ i = 3
  OBVIOUS
<1>6. \A s \in Range(STAGES) : \E i \in 1 .. 3 : s = STAGES[i]
  BY <1>3 DEF Range
<1>7. \A i \in 1 .. 3 : STAGES[i] \in Range(STAGES)
  BY <1>3 DEF Range
<1>8. \A i, j \in 1 .. 3 : STAGES[i] = STAGES[j] => i = j
  BY <1>4, <1>5
<1>9. "final" \notin Range(STAGES)
  BY <1>4, <1>5, <1>6
<1>10. Range(Plan) \subseteq Effects /\ Range(STAGES) \subseteq Effects /\ "final" \in Effects
  BY DEF Effects
<1>11. \A f \in Range(Plan) : f # "final" /\ f \notin Range(STAGES)
  BY PlanAssumption
<1> QED
  BY <1>1, <1>2, <1>3, <1>6, <1>7, <1>8, <1>9, <1>10, <1>11

\* Nothing of an approval changes, except that it may become less used.
Same(m) ==
  /\ pc'[m] = pc[m] /\ k'[m] = k[m] /\ started'[m] = started[m] /\ proven'[m] = proven[m]
  /\ closed'[m] = closed[m] /\ hold'[m] = hold[m] /\ browser'[m] = browser[m] /\ done'[m] = done[m]
  /\ late'[m] = late[m] /\ confirmed'[m] = confirmed[m] /\ edited'[m] = edited[m] /\ proxy'[m] = proxy[m]
  /\ approval'[m] = approval[m] /\ journal'[m] = journal[m]
  /\ marker' = m => marker = m
  /\ m \in receipts' \cup tombstone' => m \in receipts \cup tombstone

\* What a step leaves alone keeps its invariant.
LEMMA SameNonce ==
  ASSUME NEW m \in Nonce, NonceInv(m), Same(m)
  PROVE  NonceInv(m)'
<1>1. Life(m)'
  BY DEF NonceInv, Same, Life, Used, OpenRow
<1>2. Truth(m)'
  BY DEF NonceInv, Same, Truth
<1>3. Place(m)'
  BY DEF NonceInv, Same, Place
<1>4. Consent(m)'
  BY DEF NonceInv, Same, Consent
<1> QED
  BY <1>1, <1>2, <1>3, <1>4 DEF NonceInv

\* A step of one approval leaves the others alone.
LEMMA Local ==
  ASSUME IInv, NEW n \in Nonce, TypeOK', \A m \in Nonce \ {n} : Same(m), NonceInv(n)'
  PROVE  IInv'
BY SameNonce DEF IInv

\* An entry forgets outcomes and keeps its intents.
Fades(j, i) ==
  /\ i \in Entry
  /\ \A f \in Range(Plan) : (j.field[f] = "none" <=> i.field[f] = "none")
                            /\ (i.field[f] = "READBACK" => j.field[f] = "READBACK")
  /\ \A s \in Range(STAGES) : (j.stage[s] = "none" <=> i.stage[s] = "none")
                              /\ (i.stage[s] = "RETURNED" => j.stage[s] = "RETURNED")
  /\ i.upload = "RETURNED" => j.upload = "RETURNED"
  /\ i.selected = j.selected
  /\ i.final = "none" <=> j.final = "none"
  /\ i.final = "RETURNED" => j.final = "RETURNED"

\* Whoever retires the journal of an interrupted preparation forgets outcomes.
LEMMA Retiring ==
  ASSUME NEW j \in Entry
  PROVE  /\ Fades(j, j) /\ Fades(j, RetiredJournal(j)) /\ Fades(j, [RetiredJournal(j) EXCEPT !.final = Retired(@)])
         /\ Fades(j, InvalidatedRun(j)) /\ Fades(j, LostUpload(j))
<1>1. Fades(j, j)
  BY DEF Fades
<1>2. PICK i : i = RetiredJournal(j)
  OBVIOUS
<1>3. /\ i = [run |-> i.run, field |-> i.field, upload |-> Retired(j.upload), selected |-> j.selected,
              stage |-> [s \in DOMAIN j.stage |-> Retired(j.stage[s])], final |-> j.final]
      /\ i.field = [f \in DOMAIN j.field |-> IF j.field[f] = "none" THEN "none" ELSE "UNKNOWN"]
      /\ i.run = IF j.run = "none" THEN "none" ELSE "UNKNOWN"
  BY <1>2 DEF RetiredJournal, Entry
<1>4. /\ i \in Entry /\ i.upload = Retired(j.upload) /\ i.selected = j.selected /\ i.final = j.final
      /\ \A s \in Range(STAGES) : i.stage[s] = Retired(j.stage[s])
      /\ \A f \in Range(Plan) : i.field[f] = IF j.field[f] = "none" THEN "none" ELSE "UNKNOWN"
  BY <1>3 DEF Entry, Retired, Outcome
<1>5. Fades(j, i)
  <2>1. \A s \in Range(STAGES) : (j.stage[s] = "none" <=> i.stage[s] = "none")
                                  /\ (i.stage[s] = "RETURNED" => j.stage[s] = "RETURNED")
    BY <1>4 DEF Retired
  <2>2. i.upload = "RETURNED" => j.upload = "RETURNED"
    BY <1>4 DEF Retired
  <2> QED
    BY <1>4, <2>1, <2>2 DEF Fades
<1>6. PICK h : h = [i EXCEPT !.final = Retired(@)]
  OBVIOUS
<1>7. /\ h \in Entry /\ h.final = Retired(i.final) /\ h.field = i.field /\ h.stage = i.stage /\ h.upload = i.upload
      /\ h.selected = i.selected
  BY <1>4, <1>6 DEF Entry, Retired, Outcome
<1>8. Fades(j, h)
  <2>1. (i.final = "none" <=> h.final = "none") /\ (h.final = "RETURNED" => i.final = "RETURNED")
    BY <1>7 DEF Retired
  <2> QED
    BY <1>4, <1>5, <1>7, <2>1 DEF Fades
<1>9. Fades(j, InvalidatedRun(j))
  <2>1. PICK g : g = InvalidatedRun(j)
    OBVIOUS
  <2>2. /\ g \in Entry /\ g.stage = j.stage /\ g.upload = j.upload /\ g.selected = j.selected /\ g.final = j.final
        /\ \A f \in Range(Plan) : g.field[f] = IF j.field[f] = "none" THEN "none" ELSE "UNKNOWN"
    BY <2>1 DEF InvalidatedRun, Entry, Outcome
  <2> QED
    BY <2>1, <2>2 DEF Fades
<1>10. Fades(j, LostUpload(j))
  <2>1. PICK g : g = LostUpload(j)
    OBVIOUS
  <2>2. /\ g \in Entry /\ g.field = j.field /\ g.upload = "UNKNOWN" /\ g.selected = j.selected /\ g.final = j.final
        /\ \A s \in Range(STAGES) : g.stage[s] = Retired(j.stage[s])
    BY <2>1 DEF LostUpload, Entry, Outcome, Retired
  <2> QED
    BY <2>1, <2>2 DEF Fades, Retired
<1> QED
  BY <1>1, <1>2, <1>5, <1>6, <1>8, <1>9, <1>10

\* Forgotten outcomes leave what the journals say true.
LEMMA TruthFades ==
  ASSUME NEW n \in Nonce, Truth(n), Fades(journal[n], journal'[n]), done'[n] = done[n],
         approval'[n].outcome = "PREPARED" => approval[n].outcome = "PREPARED"
  PROVE  Truth(n)'
BY DEF Truth, Fades

\* ... and the thread where it was, or somewhere no effect is due.
LEMMA PlaceFades ==
  ASSUME NEW n \in Nonce, Place(n), Fades(journal[n], journal'[n]), done'[n] = done[n],
         \/ pc'[n] = pc[n] /\ k'[n] = k[n]
         \/ pc'[n] \notin {"field", "fenced", "write", "readback", "stage", "post", "record", "intent", "forward", "sent"}
  PROVE  Place(n)'
BY Names DEF Place, Fades

\* Where the thread of an approval may go without its barriers changing.
Leads(here, there) ==
  /\ here \notin Ended \cup {"settle"} /\ there \notin Ended
  /\ there \in PRE => here \in PRE
  /\ there \in {"opening", "launching"} => here \in {"opening", "launching"}
  /\ there \in AFTER => here \in AFTER

\* The barriers stand as the thread goes on; its browser starts only while it
\* is launched, before the approval is used.
LEMMA LifeStep ==
  ASSUME NEW n \in Nonce, Life(n), Leads(pc[n], pc'[n]),
         proxy'[n] = proxy[n], proven'[n] = proven[n], closed'[n] = closed[n], hold'[n] = hold[n],
         started[n] => started'[n], Used(n)' => Used(n), OpenRow(n)' <=> OpenRow(n),
         approval'[n].context_closed => approval'[n].outcome # "none",
         \/ browser'[n] = browser[n]
         \/ browser'[n] # "alive"
         \/ pc[n] = "launching" /\ pc'[n] \notin {"none", "opening", "launching"}
  PROVE  Life(n)'
<1>1. pc[n] # "none" /\ pc'[n] # "none" /\ proxy[n] # "none"
  BY DEF Leads, Ended, Life
<1>2. ~proven[n] /\ ~closed[n] /\ proxy[n] # "closed"
  BY DEF Leads, Ended, Life
<1>3. pc[n] = "launching" => hold[n] # "active"
  BY DEF Life, PRE
<1> QED
  BY <1>1, <1>2, <1>3 DEF Leads, Life, Ended, PRE

\* The consent stands as the thread goes on.
LEMMA ConsentStep ==
  ASSUME NEW n \in Nonce, Consent(n), done'[n]["final"] = done[n]["final"], confirmed'[n] = confirmed[n],
         edited'[n] = edited[n], late'[n] = late[n], proxy'[n] = proxy[n],
         pc'[n] \in {"agreed", "intent", "forward", "sent"} => pc[n] \in {"agreed", "intent", "forward", "sent"},
         pc'[n] \in {"intent", "forward", "sent"} => pc[n] \in {"intent", "forward", "sent"},
         pc'[n] \in {"write", "post", "forward"} => pc[n] = pc'[n] \/ Alive(n)
  PROVE  Consent(n)'
BY DEF Consent, Alive

-----------------------------------------------------------------------------
(* The start, and the steps that leave the books and the website alone.      *)

\* No approval was asked for yet.
LEMMA InitInv == Init => IInv
<1> SUFFICES ASSUME Init PROVE IInv
  OBVIOUS
<1>1. EmptyJournal \in Entry
  BY DEF EmptyJournal, Entry, Outcome
<1>2. RowsOK
  <2>1. task \in [Task -> [owner : Nonce \cup {NoNonce}, stage : {"OPEN", "PREPARATION", "STOPPED"},
                          version : 0..MaxVersion]]
    BY PlanAssumption DEF Init, AuthorityInit
  <2>2. approval \in [Nonce -> [outcome : {"none", "ATTEMPTED", "PREPARED", "UNKNOWN"}, context_closed : BOOLEAN]]
    BY DEF Init, AuthorityInit
  <2> QED
    BY <1>1, <2>1, <2>2 DEF Init, AuthorityInit, RowsOK
<1>3. ProcessOK
  BY PlanAssumption DEF Init, AuthorityInit, ProcessOK
<1>4. ServiceOK
  BY MishapsAssumption DEF Init, ServiceOK
<1>5. ThreadOK
  BY Names DEF Init, ThreadOK, Ended
<1>6. ASSUME NEW n \in Nonce PROVE NonceInv(n)
  <2>1. /\ pc[n] = "none" /\ proxy[n] = "none" /\ hold[n] = "none" /\ browser[n] = "none" /\ ~proven[n] /\ ~closed[n]
        /\ late[n] = 0 /\ done[n] = [e \in Effects |-> 0] /\ approval[n] = [outcome |-> "none", context_closed |-> FALSE]
        /\ journal[n] = EmptyJournal /\ marker # n /\ receipts = {} /\ tombstone = {}
    BY PlanAssumption DEF Init, AuthorityInit
  <2>2. Life(n)
    BY <2>1 DEF Life, Used, OpenRow, PRE, AFTER, Ended, FieldSteps, UploadSteps, HumanSteps
  <2>3. Truth(n)
    BY <2>1, Names DEF Truth, EmptyJournal
  <2>4. Place(n)
    BY <2>1 DEF Place
  <2>5. Consent(n)
    BY <2>1, Names DEF Consent
  <2> QED
    BY <2>2, <2>3, <2>4, <2>5 DEF NonceInv
<1> QED
  BY <1>2, <1>3, <1>4, <1>5, <1>6 DEF IInv, TypeOK

\* What no move of an owner thread touches.
Rests ==
  UNCHANGED <<target, task, worker, approval, marker, receipts, tombstone, journal, done, active, cancelled, proxy,
              mishaps, k, proven, closed, late>>

\* Where a thread may go without an effect, an intent or a consent.
Walks(here, there) ==
  /\ Leads(here, there)
  /\ there \in Working \cup {"closing"}
  /\ there \in {"field", "fenced", "write", "readback", "stage", "post", "record", "sent"} =>
       here = "fenced" /\ there = "write"
  /\ there \in {"agreed", "intent", "forward"} => here = "intent" /\ there = "forward"

\* A move of the owner thread from one place to another, maybe with a browser
\* started or gone, or with an offer put down before the approval is used.
LEMMA MoveStep ==
  ASSUME IInv, NEW n \in Nonce, NEW here, NEW there, pc[n] = here, Goto(n, there), Walks(here, there),
         Rests, UNCHANGED <<confirmed, edited>>, started' \in [Nonce -> BOOLEAN], started[n] => started'[n],
         there \in {"write", "forward"} => Alive(n),
         \A m \in Nonce \ {n} : browser'[m] = browser[m] /\ hold'[m] = hold[m] /\ started'[m] = started[m],
         ProcessOK', hold'[n] = hold[n] \/ (here \in PRE /\ hold'[n] = "pending"),
         \/ browser'[n] = browser[n]
         \/ browser'[n] # "alive"
         \/ here = "launching" /\ there \notin {"none", "opening", "launching"}
  PROVE  IInv'
<1>1. /\ pc' \in [Nonce -> Working \cup Ended \cup {"closing", "settle"}] /\ pc'[n] = there
      /\ \A m \in Nonce \ {n} : pc'[m] = pc[m]
  BY DEF Goto, IInv, TypeOK, ThreadOK, Walks
<1>2. TypeOK'
  BY <1>1 DEF IInv, TypeOK, RowsOK, ServiceOK, ThreadOK, Rests
<1>3. \A m \in Nonce \ {n} : Same(m)
  BY <1>1 DEF Same, Rests
<1>4. NonceInv(n)
  BY DEF IInv
<1>5. Life(n)'
  <2>1. CASE hold'[n] = hold[n]
    <3>1. approval'[n].context_closed => approval'[n].outcome # "none"
      BY <1>4 DEF NonceInv, Life, Rests
    <3> QED
      BY <1>1, <1>4, <2>1, <3>1, LifeStep DEF NonceInv, Rests, Walks, Used, OpenRow
  <2>2. CASE here \in PRE /\ hold'[n] = "pending"
    <3>1. there \notin AFTER
      BY <2>2 DEF Walks, Leads, PRE, AFTER, FieldSteps, UploadSteps, HumanSteps
    <3> QED
      BY <1>1, <1>4, <2>2, <3>1 DEF NonceInv, Rests, Walks, Leads, Life, Used, OpenRow, PRE, Ended
  <2> QED
    BY <2>1, <2>2
<1>6. Truth(n)'
  BY <1>4, TruthFades, Retiring DEF NonceInv, Rests, IInv, TypeOK, RowsOK
<1>7. Place(n)'
  BY <1>1, <1>4 DEF NonceInv, Rests, Place, Walks
<1>8. Consent(n)'
  BY <1>1, <1>4, ConsentStep DEF NonceInv, Rests, Walks
<1> QED
  BY <1>2, <1>3, <1>5, <1>6, <1>7, <1>8, Local DEF NonceInv

\* The thread goes on and nothing else changes.
LEMMA PlainMove ==
  ASSUME IInv, NEW n \in Nonce, NEW here, NEW there, pc[n] = here, Goto(n, there), Walks(here, there),
         there \in {"write", "forward"} => Alive(n),
         UNCHANGED <<durable, held, browser, done, service, thread, person>>
  PROVE  IInv'
<1>1. UNCHANGED <<target, task, worker, approval, marker, receipts, tombstone, journal, hold, seen, browser, done,
                  active, cancelled, proxy, mishaps, k, started, proven, closed, confirmed, edited, late>>
  BY DEF durable, held, service, thread, person
<1>2. ProcessOK'
  BY <1>1 DEF IInv, TypeOK, ProcessOK
<1>3. started' \in [Nonce -> BOOLEAN]
  BY <1>1 DEF IInv, TypeOK, ThreadOK
<1> QED
  BY <1>1, <1>2, <1>3, MoveStep DEF Rests

\* The steps up to the offer, and the checks of the later ones.
LEMMA MoveSteps ==
  ASSUME IInv, NEW n \in Nonce,
         \/ BeginLaunch(n) \/ CheckNative(n) \/ Discover(n) \/ Seal(n) \/ ApproveFill(n)
         \/ ReviewResume(n) \/ BeginHumanReview(n) \/ Fence(n) \/ ShowCaptcha(n) \/ Present(n) \/ CheckForward(n)
         \/ Submits(n) \/ SubmitsAgain(n) \/ DialogOpens(n)
  PROVE  IInv'
<1> USE DEF Walks, Leads, PRE, AFTER, Ended, Working, FieldSteps, UploadSteps, HumanSteps, OtherSteps
<1>1. UNCHANGED <<durable, held, browser, done, service, thread, person>>
  BY DEF BeginLaunch, CheckNative, Discover, Seal, ApproveFill, ReviewResume, BeginHumanReview, Fence, ShowCaptcha,
         Present, CheckForward, Submits, SubmitsAgain, DialogOpens, Person, Command, Inside, service, thread, person
<1>2. CASE BeginLaunch(n)
  BY <1>1, <1>2, PlainMove DEF BeginLaunch, Step
<1>3. CASE CheckNative(n)
  BY <1>1, <1>3, PlainMove DEF CheckNative, Step
<1>4. CASE Discover(n)
  BY <1>1, <1>4, PlainMove DEF Discover, Step
<1>5. CASE Seal(n)
  BY <1>1, <1>5, PlainMove DEF Seal, Step
<1>6. CASE ApproveFill(n)
  BY <1>1, <1>6, PlainMove DEF ApproveFill, Command, Step
<1>7. CASE ReviewResume(n)
  BY <1>1, <1>7, PlainMove DEF ReviewResume, Command, Step
<1>8. CASE BeginHumanReview(n)
  BY <1>1, <1>8, PlainMove DEF BeginHumanReview, Command, Step
<1>9. CASE Fence(n)
  BY <1>1, <1>9, PlainMove DEF Fence, Step
<1>10. CASE ShowCaptcha(n)
  BY <1>1, <1>10, PlainMove DEF ShowCaptcha, Step
<1>11. CASE Present(n)
  BY <1>1, <1>11, PlainMove DEF Present, Step
<1>12. CASE CheckForward(n)
  BY <1>1, <1>12, PlainMove DEF CheckForward, Step
<1>13. CASE Submits(n)
  BY <1>1, <1>13, PlainMove DEF Submits, Person
<1>14. CASE SubmitsAgain(n)
  <2>1. Walks(pc[n], "invalid") /\ Goto(n, "invalid")
    BY <1>14 DEF SubmitsAgain, Person
  <2> QED
    BY <1>1, <2>1, PlainMove
<1>15. CASE DialogOpens(n)
  BY <1>1, <1>15, PlainMove DEF DialogOpens, Person
<1> QED
  BY <1>2, <1>3, <1>4, <1>5, <1>6, <1>7, <1>8, <1>9, <1>10, <1>11, <1>12, <1>13, <1>14, <1>15

\* The browser is launched and the offer issued before the approval is used.
LEMMA LaunchSteps ==
  ASSUME IInv, NEW n \in Nonce, Launch(n) \/ Offer(n)
  PROVE  IInv'
<1> USE DEF Walks, Leads, PRE, AFTER, Ended, Working, FieldSteps, UploadSteps, HumanSteps, OtherSteps
<1>1. CASE Launch(n)
  <2>1. Rests /\ UNCHANGED <<confirmed, edited, hold, started, seen>>
    BY <1>1 DEF Launch, Rests, Inside, durable, held, service, person
  <2>2. ProcessOK' /\ \A m \in Nonce \ {n} : browser'[m] = browser[m]
    BY <1>1, <2>1 DEF Launch, Rests, IInv, TypeOK, ProcessOK
  <2>3. started' \in [Nonce -> BOOLEAN]
    BY <2>1 DEF IInv, TypeOK, ThreadOK
  <2>4. pc[n] = "launching" /\ Goto(n, "entered")
    BY <1>1 DEF Launch
  <2> QED
    BY <2>1, <2>2, <2>3, <2>4, MoveStep
<1>2. CASE Offer(n)
  <2>1. Rests /\ UNCHANGED <<confirmed, edited, browser, started>>
    BY <1>2 DEF Offer, Rests, durable, service, thread, person
  <2>2. target[n] \in Task /\ task[target[n]].version \in 0 .. MaxVersion
    BY DEF IInv, TypeOK, RowsOK
  <2>3. ProcessOK' /\ hold'[n] = "pending" /\ \A m \in Nonce \ {n} : hold'[m] = hold[m]
    BY <1>2, <2>1, <2>2 DEF Offer, Issue, Rests, IInv, TypeOK, ProcessOK
  <2>4. started' \in [Nonce -> BOOLEAN]
    BY <2>1 DEF IInv, TypeOK, ThreadOK
  <2>5. pc[n] = "sealed" /\ Goto(n, "offered")
    BY <1>2 DEF Offer, Step
  <2> QED
    BY <2>1, <2>3, <2>4, <2>5, MoveStep
<1> QED
  BY <1>1, <1>2

\* The person edits the form, or answers the dialog: after the confirmation an
\* edit is one after it.
LEMMA PersonSteps ==
  ASSUME IInv, NEW n \in Nonce, Edits(n) \/ DialogCloses(n)
  PROVE  IInv'
<1>1. Rests /\ UNCHANGED <<hold, seen, browser, started>>
  BY DEF Edits, DialogCloses, Person, Rests, Inside, durable, held, service
<1>2. /\ pc[n] \in HumanSteps /\ pc'[n] \in HumanSteps
      /\ pc' \in [Nonce -> Working \cup Ended \cup {"closing", "settle"}]
      /\ \A m \in Nonce \ {n} : pc'[m] = pc[m]
  BY DEF Edits, DialogCloses, Person, Goto, HumanSteps, Working, IInv, TypeOK, ThreadOK
<1>3. /\ pc'[n] \in {"intent", "forward", "sent"} => pc[n] = pc'[n]
      /\ pc'[n] = "agreed" => confirmed'[n]
      /\ pc'[n] # pc[n] => pc'[n] \in {"agreed", "invalid"}
      /\ confirmed[n] => confirmed'[n] /\ edited'[n] \in {edited[n], "after"}
  <2>1. CASE Edits(n)
    <3>1. pc'[n] = pc[n]
      BY <2>1 DEF Edits, Person, Goto, IInv, TypeOK, ThreadOK
    <3>2. pc[n] # "agreed" \/ confirmed[n]
      BY DEF IInv, NonceInv, Consent
    <3>3. confirmed[n] => confirmed'[n] /\ edited'[n] = "after"
      BY <2>1 DEF Edits, IInv, TypeOK, ThreadOK
    <3>4. confirmed'[n] = confirmed[n]
      BY <2>1 DEF Edits
    <3> QED
      BY <3>1, <3>2, <3>3, <3>4
  <2>2. CASE DialogCloses(n)
    BY <2>2 DEF DialogCloses, Person, Goto, IInv, TypeOK, ThreadOK
  <2> QED
    BY <2>1, <2>2
<1>4. /\ confirmed' \in [Nonce -> BOOLEAN] /\ edited' \in [Nonce -> {"no", "before", "after"}]
      /\ \A m \in Nonce \ {n} : confirmed'[m] = confirmed[m] /\ edited'[m] = edited[m]
  BY DEF Edits, DialogCloses, Person, IInv, TypeOK, ThreadOK
<1>5. TypeOK'
  BY <1>1, <1>2, <1>4 DEF IInv, TypeOK, RowsOK, ProcessOK, ServiceOK, ThreadOK, Rests
<1>6. \A m \in Nonce \ {n} : Same(m)
  BY <1>1, <1>2, <1>4 DEF Same, Rests
<1>7. NonceInv(n)
  BY DEF IInv
<1>8. Life(n)'
  <2>1. approval'[n].context_closed => approval'[n].outcome # "none"
    BY <1>1, <1>7 DEF NonceInv, Life, Rests
  <2>2. Leads(pc[n], pc'[n])
    BY <1>2 DEF Leads, PRE, AFTER, Ended, HumanSteps
  <2> QED
    BY <1>1, <1>7, <2>1, <2>2, LifeStep DEF NonceInv, Rests, Used, OpenRow
<1>9. Truth(n)'
  BY <1>1, <1>7, TruthFades, Retiring DEF NonceInv, Rests, IInv, TypeOK, RowsOK
<1>10. Place(n)'
  BY <1>1, <1>3, <1>7 DEF NonceInv, Rests, Place
<1>11. Consent(n)'
  BY <1>1, <1>3, <1>7 DEF NonceInv, Rests, Consent
<1> QED
  BY <1>5, <1>6, <1>8, <1>9, <1>10, <1>11, Local DEF NonceInv

-----------------------------------------------------------------------------
(* The service.                                                              *)

\* The service's end of a child is never opened again, and says closed only of
\* a child that is.
LEMMA ServiceSteps ==
  ASSUME IInv, \/ \E n \in Nonce : Cancel(n) \/ Receipt(n)
               \/ ServiceRestarts
  PROVE  IInv'
<1>1. UNCHANGED <<target, task, worker, approval, marker, receipts, tombstone, journal, hold, seen, browser, done,
                  pc, k, started, proven, closed, confirmed, edited, late>>
  BY DEF Cancel, Receipt, ServiceRestarts, durable, held, thread, person
<1>2. ServiceOK'
  BY MishapsAssumption DEF IInv, TypeOK, ServiceOK, Cancel, Receipt, ServiceRestarts
<1>3. TypeOK'
  BY <1>1, <1>2 DEF IInv, TypeOK, RowsOK, ProcessOK, ThreadOK
<1>4. ASSUME NEW m \in Nonce PROVE /\ proxy'[m] = "none" <=> proxy[m] = "none"
                                   /\ proxy'[m] = "open" => proxy[m] = "open"
                                   /\ proxy'[m] = "closed" => closed[m]
  <2>1. proxy[m] = "closed" => closed[m]
    BY DEF IInv, NonceInv, Life
  <2>2. CASE \E n \in Nonce : Cancel(n)
    BY <2>1, <2>2 DEF Cancel, IInv, TypeOK, ServiceOK
  <2>3. CASE \E n \in Nonce : Receipt(n)
    BY <2>1, <2>3 DEF Receipt, IInv, TypeOK, ServiceOK
  <2>4. CASE ServiceRestarts
    BY <2>4 DEF ServiceRestarts
  <2> QED
    BY <2>2, <2>3, <2>4
<1>5. ASSUME NEW m \in Nonce PROVE NonceInv(m)'
  <2>1. NonceInv(m)
    BY DEF IInv
  <2>2. Life(m)'
    BY <1>1, <1>4, <2>1 DEF NonceInv, Life, Used, OpenRow
  <2>3. Truth(m)' /\ Place(m)'
    BY <1>1, <2>1 DEF NonceInv, Truth, Place
  <2>4. Consent(m)'
    BY <1>1, <1>4, <2>1 DEF NonceInv, Consent
  <2> QED
    BY <2>2, <2>3, <2>4 DEF NonceInv
<1> QED
  BY <1>3, <1>5 DEF IInv

\* A session opens for an approval that nothing was done for.
LEMMA OpenStep ==
  ASSUME IInv, NEW n \in Nonce, Open(n)
  PROVE  IInv'
<1>1. /\ UNCHANGED <<target, task, worker, approval, marker, receipts, tombstone, journal, hold, seen, browser, done,
                     cancelled, mishaps, k, started, proven, closed, confirmed, edited, late>>
      /\ proxy[n] = "none" /\ proxy' = [proxy EXCEPT ![n] = "open"] /\ active' = n /\ Goto(n, "opening")
  BY DEF Open, durable, held, thread, person
<1>2. /\ pc' \in [Nonce -> Working \cup Ended \cup {"closing", "settle"}] /\ pc'[n] = "opening" /\ proxy'[n] = "open"
      /\ \A m \in Nonce \ {n} : pc'[m] = pc[m] /\ proxy'[m] = proxy[m]
  BY <1>1 DEF Goto, IInv, TypeOK, ThreadOK, ServiceOK, Working, OtherSteps
<1>3. TypeOK'
  BY <1>1, <1>2 DEF IInv, TypeOK, RowsOK, ProcessOK, ServiceOK, ThreadOK
<1>4. \A m \in Nonce \ {n} : Same(m)
  BY <1>1, <1>2 DEF Same
<1>5. NonceInv(n) /\ pc[n] = "none"
  BY <1>1 DEF IInv, NonceInv, Life
<1>6. Life(n)'
  BY <1>1, <1>2, <1>5 DEF NonceInv, Life, Used, OpenRow, PRE, AFTER, Ended, FieldSteps, UploadSteps, HumanSteps
<1>7. Truth(n)' /\ Place(n)' /\ Consent(n)'
  BY <1>1, <1>2, <1>5 DEF NonceInv, Truth, Place, Consent
<1> QED
  BY <1>3, <1>4, <1>6, <1>7, Local DEF NonceInv

-----------------------------------------------------------------------------
(* Consumption, and the entries of the journals.                             *)

\* The marker, the row and the permit in memory may part, but no thread holds
\* a permit whose row is not open.
LEMMA ConsumeStep ==
  ASSUME IInv, NEW n \in Nonce, Consume(n)
  PROVE  IInv'
<1>1. /\ UNCHANGED <<target, worker, receipts, tombstone, journal, seen, browser, done, k, proven, closed,
                     active, cancelled, proxy, mishaps, confirmed, edited, late>>
      /\ pc[n] = "consume" /\ started' = [started EXCEPT ![n] = TRUE]
  BY DEF Consume, Outside, service, person
<1>2. /\ started' \in [Nonce -> BOOLEAN] /\ started'[n] /\ \A m \in Nonce \ {n} : started'[m] = started[m]
  BY <1>1 DEF IInv, TypeOK, ThreadOK
<1>3. \/ /\ marker' \in {marker, n} /\ Goto(n, "closing") /\ UNCHANGED <<approval, task, hold>>
      \/ marker' = n /\ ConsumeRow(n) /\ Goto(n, "closing") /\ UNCHANGED hold
      \/ marker' = n /\ ConsumeRow(n) /\ Goto(n, "journal") /\ hold' = [hold EXCEPT ![n] = "active"]
  BY DEF Consume, ConsumeMarker
<1>4. /\ pc' \in [Nonce -> Working \cup Ended \cup {"closing", "settle"}] /\ pc'[n] \in {"closing", "journal"}
      /\ \A m \in Nonce \ {n} : pc'[m] = pc[m]
  BY <1>3 DEF Goto, IInv, TypeOK, ThreadOK, Working, OtherSteps
<1>5. NonceInv(n) /\ ~Used(n) /\ approval[n].outcome = "none" /\ hold[n] # "active"
  BY <1>1 DEF IInv, NonceInv, Life, PRE, Used
<1>6. /\ task' \in [Task -> [owner : Nonce \cup {NoNonce}, stage : {"OPEN", "PREPARATION", "STOPPED"},
                             version : 0..MaxVersion]]
      /\ approval' \in [Nonce -> [outcome : {"none", "ATTEMPTED", "PREPARED", "UNKNOWN"}, context_closed : BOOLEAN]]
      /\ \A m \in Nonce \ {n} : approval'[m] = approval[m]
      /\ approval'[n].outcome # "PREPARED" /\ approval'[n].context_closed = approval[n].context_closed
  <2>1. CASE UNCHANGED <<approval, task>>
    BY <1>5, <2>1 DEF IInv, TypeOK, RowsOK
  <2>2. CASE ConsumeRow(n)
    <3>1. PICK a : a = [approval[n] EXCEPT !.outcome = "ATTEMPTED"]
      OBVIOUS
    <3>2. approval' = [approval EXCEPT ![n] = a]
      BY <2>2, <3>1 DEF ConsumeRow
    <3>3. PICK r : r = [task[target[n]] EXCEPT !.owner = n, !.stage = "PREPARATION"]
      OBVIOUS
    <3>4. task' = [task EXCEPT ![target[n]] = r]
      BY <2>2, <3>3 DEF ConsumeRow, IInv, TypeOK, RowsOK
    <3>5. /\ a \in [outcome : {"none", "ATTEMPTED", "PREPARED", "UNKNOWN"}, context_closed : BOOLEAN]
          /\ a.outcome = "ATTEMPTED" /\ a.context_closed = approval[n].context_closed
      BY <3>1 DEF IInv, TypeOK, RowsOK
    <3>6. r \in [owner : Nonce \cup {NoNonce}, stage : {"OPEN", "PREPARATION", "STOPPED"}, version : 0..MaxVersion]
      <4>1. target[n] \in Task
        BY DEF IInv, TypeOK, RowsOK
      <4> QED
        BY ZenonT(40), <3>3, <4>1 DEF IInv, TypeOK, RowsOK
    <3> QED
      BY <3>2, <3>4, <3>5, <3>6 DEF IInv, TypeOK, RowsOK
  <2> QED
    BY <1>3, <2>1, <2>2
<1>7. hold' \in [Nonce -> {"none", "pending", "active"}] /\ \A m \in Nonce \ {n} : hold'[m] = hold[m]
  BY <1>3 DEF IInv, TypeOK, ProcessOK
<1>8. TypeOK'
  BY SMTT(30), <1>1, <1>2, <1>3, <1>4, <1>6, <1>7 DEF IInv, TypeOK, RowsOK, ProcessOK, ServiceOK, ThreadOK
<1>9. \A m \in Nonce \ {n} : Same(m)
  BY <1>1, <1>2, <1>3, <1>4, <1>6, <1>7 DEF Same
<1>10. Life(n)'
  <2>1. \/ pc'[n] = "closing" /\ hold'[n] = hold[n]
        \/ pc'[n] = "journal" /\ hold'[n] = "active" /\ OpenRow(n)'
    <3>1. ConsumeRow(n) => OpenRow(n)'
      <4>1. ~approval[n].context_closed
        BY <1>5 DEF NonceInv, Life
      <4>2. ConsumeRow(n) => approval'[n].outcome = "ATTEMPTED"
        BY DEF ConsumeRow, IInv, TypeOK, RowsOK
      <4> QED
        BY <1>6, <4>1, <4>2 DEF OpenRow
    <3>2. (Goto(n, "closing") => pc'[n] = "closing") /\ (Goto(n, "journal") => pc'[n] = "journal")
      BY DEF Goto, IInv, TypeOK, ThreadOK
    <3>3. hold' = [hold EXCEPT ![n] = "active"] => hold'[n] = "active"
      BY DEF IInv, TypeOK, ProcessOK
    <3>4. CASE Goto(n, "closing") /\ UNCHANGED hold
      BY <3>2, <3>4
    <3>5. CASE ConsumeRow(n) /\ Goto(n, "journal") /\ hold' = [hold EXCEPT ![n] = "active"]
      BY <3>1, <3>2, <3>3, <3>5
    <3> QED
      BY <1>3, <3>4, <3>5
  <2> QED
    BY <1>1, <1>2, <1>5, <1>6, <2>1 DEF NonceInv, Life, PRE, AFTER, Ended, FieldSteps, UploadSteps, HumanSteps
<1>11. Truth(n)'
  BY <1>1, <1>5, <1>6, TruthFades, Retiring DEF NonceInv, IInv, TypeOK, RowsOK
<1>12. Place(n)' /\ Consent(n)'
  BY <1>1, <1>4, <1>5 DEF NonceInv, Place, Consent
<1> QED
  BY <1>8, <1>9, <1>10, <1>11, <1>12, Local DEF NonceInv

\* One entry of one approval's journals is written, by its thread.
LEMMA JournalStep ==
  ASSUME IInv, NEW n \in Nonce, NEW j \in Entry, journal' = [journal EXCEPT ![n] = j],
         pc[n] \in AFTER, NEW there \in AFTER \cup {"closing"}, Goto(n, there),
         k' \in [Nonce -> 0..(Len(Plan) + Len(STAGES))], \A m \in Nonce \ {n} : k'[m] = k[m],
         UNCHANGED <<target, task, worker, approval, marker, receipts, tombstone, hold, seen, browser, done,
                     active, cancelled, proxy, mishaps, started, proven, closed, confirmed, edited, late>>,
         Truth(n)', Place(n)', Consent(n)'
  PROVE  IInv'
<1>1. there \in Working \cup {"closing"}
  BY DEF AFTER, Working, OtherSteps
<1>2. /\ pc' \in [Nonce -> Working \cup Ended \cup {"closing", "settle"}] /\ pc'[n] = there
      /\ \A m \in Nonce \ {n} : pc'[m] = pc[m]
  BY <1>1 DEF Goto, IInv, TypeOK, ThreadOK
<1>3. journal' \in [Nonce -> Entry] /\ \A m \in Nonce \ {n} : journal'[m] = journal[m]
  BY DEF IInv, TypeOK, RowsOK
<1>4. TypeOK'
  BY <1>2, <1>3 DEF IInv, TypeOK, RowsOK, ProcessOK, ServiceOK, ThreadOK
<1>5. \A m \in Nonce \ {n} : Same(m)
  BY <1>2, <1>3 DEF Same
<1>6. NonceInv(n)
  BY DEF IInv
<1>7. Life(n)'
  <2>1. Leads(pc[n], pc'[n])
    BY <1>2 DEF Leads, AFTER, PRE, Ended, FieldSteps, UploadSteps, HumanSteps
  <2>2. approval'[n].context_closed => approval'[n].outcome # "none"
    BY <1>6 DEF NonceInv, Life
  <2> QED
    BY <1>6, <2>1, <2>2, LifeStep DEF NonceInv, Used, OpenRow
<1> QED
  BY <1>4, <1>5, <1>7, Local DEF NonceInv

\* What a step that writes an entry leaves alone.
LEMMA JournalFrame ==
  ASSUME IInv, NEW n \in Nonce, NEW here, NEW there, Journals(n, here, there)
  PROVE  /\ UNCHANGED <<target, task, worker, approval, marker, receipts, tombstone, hold, seen, browser, done,
                        active, cancelled, proxy, mishaps, started, proven, closed, confirmed, edited, late>>
         /\ pc[n] = here /\ Alive(n) /\ Goto(n, there) /\ pc'[n] = there
         /\ NonceInv(n) /\ journal[n] \in Entry /\ journal \in [Nonce -> Entry] /\ k \in [Nonce -> 0..(Len(Plan) + Len(STAGES))]
<1>1. pc'[n] = there /\ pc[n] = here /\ Alive(n) /\ Goto(n, there)
  BY DEF Journals, Step, Goto, IInv, TypeOK, ThreadOK
<1> QED
  BY <1>1 DEF Journals, Outside, held, service, person, IInv, TypeOK, RowsOK, ThreadOK

\* A step that only opens or completes a journal makes no effect due.
LEMMA PlainEntry ==
  ASSUME IInv, NEW n \in Nonce, OpenJournal(n) \/ Complete(n) \/ ApproveResume(n)
  PROVE  IInv'
<1>1. PICK here, there : /\ Journals(n, here, there)
                         /\ here \in {"journal", "complete", "upload_offered"}
                         /\ \/ there \in {"finish", "select"} /\ k' = k
                            \/ there = "field" /\ k' = [k EXCEPT ![n] = 1]
  BY DEF OpenJournal, Complete, ApproveResume
<1>2. PICK j : /\ journal' = [journal EXCEPT ![n] = j]
               /\ \/ j = [journal[n] EXCEPT !.run = "ATTEMPTED"]
                  \/ j = [journal[n] EXCEPT !.run = "RETURNED"]
                  \/ j = [journal[n] EXCEPT !.upload = "ATTEMPTED"]
  BY DEF OpenJournal, Complete, ApproveResume, BeginRun, CompleteRun, ApproveUpload
<1>3. /\ UNCHANGED <<target, task, worker, approval, marker, receipts, tombstone, hold, seen, browser, done,
                     active, cancelled, proxy, mishaps, started, proven, closed, confirmed, edited, late>>
      /\ pc[n] = here /\ Goto(n, there) /\ pc'[n] = there
      /\ NonceInv(n) /\ journal[n] \in Entry /\ journal \in [Nonce -> Entry] /\ k \in [Nonce -> 0..(Len(Plan) + Len(STAGES))]
  BY <1>1, JournalFrame
<1>4. j \in Entry /\ Fades(journal[n], j) /\ journal'[n] = j
  BY <1>2, <1>3 DEF Entry, Outcome, Fades
<1>5. /\ k' \in [Nonce -> 0..(Len(Plan) + Len(STAGES))] /\ \A m \in Nonce \ {n} : k'[m] = k[m]
      /\ there = "field" => k'[n] \in 1 .. Len(Plan)
  BY <1>1, <1>3, Names
<1>6. Truth(n)'
  BY <1>3, <1>4, TruthFades DEF NonceInv
<1>7. Place(n)'
  BY <1>1, <1>3, <1>5 DEF Place
<1>8. Consent(n)'
  BY <1>1, <1>3, ConsentStep DEF NonceInv
<1>9. pc[n] \in AFTER /\ there \in AFTER \cup {"closing"}
  BY <1>1, <1>3 DEF AFTER, FieldSteps, UploadSteps
<1> QED
  BY <1>2, <1>3, <1>4, <1>5, <1>6, <1>7, <1>8, <1>9, JournalStep

\* A field has its intent before it is typed, and its readback after.
LEMMA FieldEntry ==
  ASSUME IInv, NEW n \in Nonce, BeforeField(n) \/ AfterField(n)
  PROVE  IInv'
<1> DEFINE f == Plan[k[n]]
           before == pc[n] = "field"
<1>1. PICK here, there : /\ Journals(n, here, there)
                         /\ \/ here = "field" /\ there = "fenced" /\ BeginField(n, f) /\ k' = k
                            \/ /\ here = "readback" /\ FinishField(n, f)
                               /\ \/ k[n] = Len(Plan) /\ there = "complete" /\ k' = [k EXCEPT ![n] = 0]
                                  \/ k[n] # Len(Plan) /\ there = "field" /\ k' = [k EXCEPT ![n] = @ + 1]
  BY DEF BeforeField, AfterField
<1>2. /\ UNCHANGED <<target, task, worker, approval, marker, receipts, tombstone, hold, seen, browser, done,
                     active, cancelled, proxy, mishaps, started, proven, closed, confirmed, edited, late>>
      /\ pc[n] = here /\ Goto(n, there) /\ pc'[n] = there
      /\ NonceInv(n) /\ journal[n] \in Entry /\ journal \in [Nonce -> Entry] /\ k \in [Nonce -> 0..(Len(Plan) + Len(STAGES))]
  BY <1>1, JournalFrame
<1>3. k[n] \in 1 .. Len(Plan) /\ f \in Range(Plan)
  BY <1>1, <1>2, Names DEF NonceInv, Place
<1>4. PICK o \in {"ATTEMPTED", "READBACK"} :
        /\ journal' = [journal EXCEPT ![n].field[f] = o]
        /\ here = "field" => o = "ATTEMPTED" /\ journal[n].field[f] = "none"
        /\ here = "readback" => o = "READBACK" /\ done[n][f] = 1
  BY <1>1, <1>2 DEF BeginField, FinishField, NonceInv, Place
<1>5. PICK j : j = [journal[n] EXCEPT !.field[f] = o]
  OBVIOUS
<1>6. journal' = [journal EXCEPT ![n] = j]
  BY <1>4, <1>5
<1>7. /\ j \in Entry /\ j.upload = journal[n].upload /\ j.selected = journal[n].selected
      /\ j.stage = journal[n].stage /\ j.final = journal[n].final /\ j.field[f] = o
      /\ \A g \in Range(Plan) : g # f => j.field[g] = journal[n].field[g]
  BY <1>2, <1>3, <1>5 DEF Entry
<1>8. journal'[n] = j
  BY <1>2, <1>6
<1>9. /\ k' \in [Nonce -> 0..(Len(Plan) + Len(STAGES))] /\ \A m \in Nonce \ {n} : k'[m] = k[m]
      /\ there = "field" => k'[n] \in 1 .. Len(Plan)
      /\ there = "fenced" => k'[n] = k[n]
  <2>1. Len(Plan) \in Nat /\ Len(STAGES) = 3
    BY Names
  <2> QED
    BY <1>1, <1>2, <1>3, <2>1
<1>10. Truth(n)'
  BY <1>1, <1>2, <1>4, <1>7, <1>8 DEF NonceInv, Truth
<1>11. Place(n)'
  <2>1. CASE here = "field"
    <3>1. done[n][f] = 0
      BY <1>2, <1>3, <1>4, <2>1 DEF NonceInv, Truth
    <3>2. there = "fenced"
      BY <1>1, <2>1
    <3> QED
      BY <1>2, <1>3, <1>4, <1>7, <1>8, <1>9, <2>1, <3>1, <3>2 DEF Place
  <2>2. CASE here = "readback"
    <3>1. there \in {"complete", "field"}
      BY <1>1, <2>2
    <3> QED
      BY <1>2, <1>9, <3>1 DEF Place
  <2> QED
    BY <1>1, <2>1, <2>2
<1>12. Consent(n)'
  BY <1>1, <1>2, ConsentStep DEF NonceInv
<1>13. pc[n] \in AFTER /\ there \in AFTER \cup {"closing"}
  BY <1>1, <1>2 DEF AFTER, FieldSteps
<1> HIDE DEF f
<1> QED
  BY <1>2, <1>6, <1>7, <1>9, <1>10, <1>11, <1>12, <1>13, JournalStep

\* The selection, and the intent of a stage, follow a prepared form whose
\* upload is under way.
LEMMA StageEntry ==
  ASSUME IInv, NEW n \in Nonce, Select(n) \/ Stage(n)
  PROVE  IInv'
<1>1. PICK here, there : /\ Journals(n, here, there)
                         /\ \/ here = "select" /\ there = "stage" /\ BeginSelection(n) /\ k' = [k EXCEPT ![n] = 1]
                            \/ here = "stage" /\ there = "post" /\ BeginStage(n, k[n]) /\ k' = k
  BY DEF Select, Stage
<1>2. /\ UNCHANGED <<target, task, worker, approval, marker, receipts, tombstone, hold, seen, browser, done,
                     active, cancelled, proxy, mishaps, started, proven, closed, confirmed, edited, late>>
      /\ pc[n] = here /\ Alive(n) /\ Goto(n, there) /\ pc'[n] = there
      /\ NonceInv(n) /\ journal[n] \in Entry /\ journal \in [Nonce -> Entry] /\ k \in [Nonce -> 0..(Len(Plan) + Len(STAGES))]
  BY <1>1, JournalFrame
<1>3. UploadRows(n) /\ journal[n].final = "none" /\ \A f \in Range(Plan) : done[n][f] = 1
  BY <1>1, <1>2 DEF BeginSelection, BeginStage, UploadRows, PreparedTask, NonceInv, Truth
<1>4. /\ k' \in [Nonce -> 0..(Len(Plan) + Len(STAGES))] /\ \A m \in Nonce \ {n} : k'[m] = k[m]
      /\ there = "stage" => k'[n] = 1
      /\ there = "post" => k'[n] = k[n] /\ k[n] \in 1 .. 3
  <2>1. Len(Plan) \in Nat /\ Len(STAGES) = 3
    BY Names
  <2> QED
    BY <1>1, <1>2, <2>1 DEF NonceInv, Place
<1>5. Consent(n)'
  BY <1>1, <1>2, ConsentStep DEF NonceInv
<1>6. pc[n] \in AFTER /\ there \in AFTER \cup {"closing"}
  BY <1>1, <1>2 DEF AFTER, UploadSteps
<1>7. CASE here = "select"
  <2>1. PICK j : j = [journal[n] EXCEPT !.selected = TRUE]
    OBVIOUS
  <2>2. journal' = [journal EXCEPT ![n] = j]
    BY <1>1, <1>7, <2>1 DEF BeginSelection
  <2>3. /\ j \in Entry /\ j.upload = journal[n].upload /\ j.stage = journal[n].stage /\ j.final = journal[n].final
        /\ j.field = journal[n].field /\ j.selected
    BY <1>2, <2>1 DEF Entry
  <2>4. journal'[n] = j
    BY <1>2, <2>2
  <2>5. Truth(n)'
    BY <1>2, <1>3, <2>3, <2>4 DEF NonceInv, Truth
  <2>6. Place(n)'
    BY <1>1, <1>2, <1>4, <1>7 DEF Place
  <2> QED
    BY <1>2, <1>4, <1>5, <1>6, <2>2, <2>3, <2>5, <2>6, JournalStep
<1>8. CASE here = "stage"
  <2>1. k[n] \in 1 .. 3 /\ there = "post"
    BY <1>1, <1>4, <1>8
  <2> DEFINE s == STAGES[k[n]]
  <2>2. /\ s \in Range(STAGES) /\ journal[n].stage[s] = "none" /\ journal[n].selected
        /\ journal' = [journal EXCEPT ![n].stage[s] = "ATTEMPTED"]
    <3>1. k[n] \in DOMAIN STAGES /\ ~(k[n] <= k[n] - 1)
      BY <2>1, Names
    <3> QED
      BY <1>1, <1>8, <2>1, <3>1, Names DEF BeginStage, StagesReturned
  <2> HIDE DEF s
  <2>3. PICK j : j = [journal[n] EXCEPT !.stage[s] = "ATTEMPTED"]
    OBVIOUS
  <2>4. journal' = [journal EXCEPT ![n] = j]
    BY <2>2, <2>3
  <2>5. /\ j \in Entry /\ j.upload = journal[n].upload /\ j.final = journal[n].final /\ j.field = journal[n].field
        /\ j.selected = journal[n].selected /\ j.stage[s] = "ATTEMPTED"
        /\ \A t \in Range(STAGES) : t # s => j.stage[t] = journal[n].stage[t]
    BY <1>2, <2>2, <2>3 DEF Entry, Outcome
  <2>6. journal'[n] = j
    BY <1>2, <2>4
  <2>7. Truth(n)'
    BY <1>2, <1>3, <2>2, <2>5, <2>6 DEF NonceInv, Truth
  <2>8. done[n][s] = 0
    BY <1>2, <2>2 DEF NonceInv, Truth
  <2>9. Place(n)'
    BY <1>2, <1>4, <2>1, <2>5, <2>6, <2>8 DEF Place, s
  <2> QED
    BY <1>2, <1>4, <1>5, <1>6, <2>4, <2>5, <2>7, <2>9, JournalStep
<1> QED
  BY <1>1, <1>7, <1>8

\* The outcome of a stage is recorded after its request, and the outcome of the
\* upload after the outcomes of its stages.
LEMMA RecordEntry ==
  ASSUME IInv, NEW n \in Nonce, Record(n)
  PROVE  IInv'
<1> DEFINE s == STAGES[k[n]]
<1>1. PICK there \in {"closing", "uploaded", "stage"} :
        /\ pc[n] = "record" /\ Goto(n, there)
        /\ there = "stage" => k[n] # Len(STAGES)
        /\ k' = [k EXCEPT ![n] = IF k[n] = Len(STAGES) THEN 0 ELSE @ + 1]
        /\ UNCHANGED <<target, task, worker, approval, marker, receipts, tombstone, hold, seen, browser, done,
                       active, cancelled, proxy, mishaps, started, proven, closed, confirmed, edited, late>>
  BY DEF Record, Outside, held, service, person
<1>2. /\ NonceInv(n) /\ journal[n] \in Entry /\ journal \in [Nonce -> Entry] /\ pc'[n] = there
      /\ k \in [Nonce -> 0..(Len(Plan) + Len(STAGES))]
  BY <1>1 DEF Goto, IInv, TypeOK, RowsOK, ThreadOK
<1>3. k[n] \in 1 .. 3 /\ s \in Range(STAGES) /\ done[n][s] = 1 /\ journal[n].stage[s] # "none"
  BY <1>1, <1>2, Names DEF NonceInv, Place
<1>4. /\ k' \in [Nonce -> 0..(Len(Plan) + Len(STAGES))] /\ \A m \in Nonce \ {n} : k'[m] = k[m]
      /\ there = "stage" => k'[n] \in 1 .. 3
  <2>1. Len(Plan) \in Nat /\ Len(STAGES) = 3
    BY Names
  <2> QED
    BY <1>1, <1>2, <1>3, <2>1
<1>5. RecordStage(n, k[n])
  BY DEF Record
<1> HIDE DEF s
<1>6. PICK j : /\ journal' = [journal EXCEPT ![n] = j]
               /\ \/ j = [journal[n] EXCEPT !.stage[s] = "RETURNED"]
                  \/ j = [journal[n] EXCEPT !.stage[s] = "UNKNOWN", !.upload = "UNKNOWN"]
  <2>1. journal' = [journal EXCEPT ![n] =
          IF UploadRows(n) /\ journal[n].stage[s] = "ATTEMPTED" THEN [journal[n] EXCEPT !.stage[s] = "RETURNED"]
          ELSE [journal[n] EXCEPT !.stage[s] = "UNKNOWN", !.upload = "UNKNOWN"]]
    BY <1>5 DEF RecordStage, s
  <2> QED
    BY <2>1
<1>7. /\ j \in Entry /\ j.upload \in {journal[n].upload, "UNKNOWN"} /\ j.final = journal[n].final
      /\ j.field = journal[n].field
      /\ j.selected = journal[n].selected /\ j.stage[s] \in {"RETURNED", "UNKNOWN"}
      /\ \A t \in Range(STAGES) : t # s => j.stage[t] = journal[n].stage[t]
  <2>1. CASE j = [journal[n] EXCEPT !.stage[s] = "RETURNED"]
    BY <1>2, <1>3, <2>1 DEF Entry, Outcome
  <2>2. CASE j = [journal[n] EXCEPT !.stage[s] = "UNKNOWN", !.upload = "UNKNOWN"]
    BY <1>2, <1>3, <2>2 DEF Entry, Outcome
  <2> QED
    BY <1>6, <2>1, <2>2
<1>8. journal'[n] = j
  BY <1>2, <1>6
<1>9. Truth(n)'
  BY <1>1, <1>2, <1>3, <1>7, <1>8 DEF NonceInv, Truth
<1>10. Place(n)'
  BY <1>1, <1>2, <1>4 DEF Place
<1>11. Consent(n)'
  BY <1>1, <1>2, ConsentStep DEF NonceInv
<1>12. pc[n] \in AFTER /\ there \in AFTER \cup {"closing"}
  BY <1>1 DEF AFTER, UploadSteps
<1> QED
  BY <1>1, <1>4, <1>6, <1>7, <1>9, <1>10, <1>11, <1>12, JournalStep

\* The upload is RETURNED when each of its stages is.
LEMMA UploadEntry ==
  ASSUME IInv, NEW n \in Nonce, Uploaded(n)
  PROVE  IInv'
<1>1. PICK there \in {"idle", "closing"} : Journals(n, "uploaded", there)
  BY DEF Uploaded
<1>2. /\ UNCHANGED <<target, task, worker, approval, marker, receipts, tombstone, hold, seen, browser, done,
                     active, cancelled, proxy, mishaps, started, proven, closed, confirmed, edited, late>>
      /\ pc[n] = "uploaded" /\ Goto(n, there) /\ pc'[n] = there
      /\ NonceInv(n) /\ journal[n] \in Entry /\ journal \in [Nonce -> Entry] /\ k \in [Nonce -> 0..(Len(Plan) + Len(STAGES))]
  BY <1>1, JournalFrame
<1>3. k' = k
  BY DEF Uploaded
<1>4. PICK o \in {"RETURNED", "UNKNOWN"} :
        /\ journal' = [journal EXCEPT ![n].upload = o]
        /\ o = "RETURNED" => StagesReturned(n, 3)
  <2>1. CASE UploadRows(n) /\ journal[n].selected /\ StagesReturned(n, 3)
    BY <2>1 DEF Uploaded, FinishUpload
  <2>2. CASE ~(UploadRows(n) /\ journal[n].selected /\ StagesReturned(n, 3))
    BY <2>2 DEF Uploaded, FinishUpload
  <2> QED
    BY <2>1, <2>2
<1>5. PICK j : j = [journal[n] EXCEPT !.upload = o]
  OBVIOUS
<1>6. journal' = [journal EXCEPT ![n] = j]
  BY <1>4, <1>5
<1>7. /\ j \in Entry /\ j.upload = o /\ j.final = journal[n].final /\ j.field = journal[n].field
      /\ j.selected = journal[n].selected /\ j.stage = journal[n].stage
  BY <1>2, <1>5 DEF Entry, Outcome
<1>8. journal'[n] = j
  BY <1>2, <1>6
<1>9. ASSUME o = "RETURNED", NEW s \in Range(STAGES) PROVE done[n][s] = 1
  <2>1. PICK i \in 1 .. 3 : s = STAGES[i]
    BY Names
  <2>2. journal[n].stage[s] = "RETURNED"
    BY <1>4, <1>9, <2>1, Names DEF StagesReturned
  <2> QED
    BY <1>2, <2>2 DEF NonceInv, Truth
<1>10. Truth(n)'
  BY <1>2, <1>7, <1>8, <1>9 DEF NonceInv, Truth
<1>11. Place(n)'
  BY <1>1, <1>2 DEF Place
<1>12. Consent(n)'
  BY <1>1, <1>2, ConsentStep DEF NonceInv
<1>13. pc[n] \in AFTER /\ there \in AFTER \cup {"closing"}
  BY <1>1, <1>2 DEF AFTER, UploadSteps
<1>14. \A m \in Nonce \ {n} : k'[m] = k[m]
  BY <1>3
<1> QED
  BY <1>2, <1>3, <1>6, <1>7, <1>10, <1>11, <1>12, <1>13, <1>14, JournalStep

\* The only slot is taken for a request that was confirmed, for a form that is
\* prepared and whose resume, if there is one, was uploaded.
LEMMA SlotEntry ==
  ASSUME IInv, NEW n \in Nonce, TakeSlot(n) \/ RecordSend(n)
  PROVE  IInv'
<1>1. PICK here, there :
        /\ pc[n] = here /\ Goto(n, there)
        /\ \/ here = "agreed" /\ there = "intent" /\ Alive(n) /\ edited[n] = "no" /\ ConsumeFinal(n)
           \/ here \in {"intent", "forward", "sent"} /\ there = "result"
        /\ UNCHANGED <<target, task, worker, approval, marker, receipts, tombstone, hold, seen, browser, done, k,
                       active, cancelled, proxy, mishaps, started, proven, closed, confirmed, edited, late>>
  BY DEF TakeSlot, RecordSend, Journals, Step, ExactRequest, Unchanged, Outside, held, service, thread, person
<1>2. /\ NonceInv(n) /\ journal[n] \in Entry /\ journal \in [Nonce -> Entry] /\ pc'[n] = there
      /\ k \in [Nonce -> 0..(Len(Plan) + Len(STAGES))]
  BY <1>1 DEF Goto, IInv, TypeOK, RowsOK, ThreadOK
<1>3. PICK o \in {"ATTEMPTED", "RETURNED", "UNKNOWN"} :
        /\ journal' = [journal EXCEPT ![n].final = o]
        /\ here = "agreed" => o = "ATTEMPTED"
        /\ o = "RETURNED" => here = "sent"
  <2>1. CASE TakeSlot(n)
    BY <1>1, <2>1 DEF TakeSlot, ConsumeFinal, Journals, Step
  <2>2. CASE RecordSend(n)
    <3>1. PICK returned \in {pc[n] = "sent" /\ Alive(n) /\ Unchanged(n), FALSE} : RecordFinal(n, returned)
      BY <2>2 DEF RecordSend
    <3>2. CASE returned /\ journal[n].final # "UNKNOWN" /\ FinalRows(n)
      BY <1>1, <2>2, <3>1, <3>2 DEF RecordFinal, RecordSend
    <3>3. CASE ~(returned /\ journal[n].final # "UNKNOWN" /\ FinalRows(n))
      BY <1>1, <2>2, <3>1, <3>3 DEF RecordFinal, RecordSend
    <3> QED
      BY <3>2, <3>3
  <2> QED
    BY <2>1, <2>2
<1>4. PICK j : j = [journal[n] EXCEPT !.final = o]
  OBVIOUS
<1>5. journal' = [journal EXCEPT ![n] = j]
  BY <1>3, <1>4
<1>6. /\ j \in Entry /\ j.upload = journal[n].upload /\ j.final = o /\ j.field = journal[n].field
      /\ j.selected = journal[n].selected /\ j.stage = journal[n].stage
  BY <1>2, <1>4 DEF Entry, Outcome
<1>7. journal'[n] = j
  BY <1>2, <1>5
<1>8. /\ \A f \in Range(Plan) : done[n][f] = 1
      /\ HasResume => \A s \in Range(STAGES) : done[n][s] = 1
      /\ here = "agreed" => journal[n].final = "none"
      /\ here # "agreed" => journal[n].final # "none"
  <2>1. CASE here = "agreed"
    BY <1>1, <1>2, <2>1 DEF ConsumeFinal, FinalRows, PreparedTask, NonceInv, Truth
  <2>2. CASE here # "agreed"
    BY <1>1, <1>2, <2>2 DEF NonceInv, Truth, Place
  <2> QED
    BY <2>1, <2>2
<1>9. here = "sent" => done[n]["final"] = 1
  BY <1>1, <1>2 DEF NonceInv, Place
<1>10. here = "agreed" => done[n]["final"] = 0
  BY <1>2, <1>8 DEF NonceInv, Truth
<1>11. Truth(n)'
  BY <1>1, <1>2, <1>3, <1>6, <1>7, <1>8, <1>9 DEF NonceInv, Truth
<1>12. Place(n)'
  BY <1>1, <1>2, <1>3, <1>6, <1>7, <1>10 DEF Place
<1>13. Consent(n)'
  BY <1>1, <1>2 DEF NonceInv, Consent
<1>14. pc[n] \in AFTER /\ there \in AFTER \cup {"closing"}
  BY <1>1 DEF AFTER, HumanSteps
<1>15. k' = k /\ \A m \in Nonce \ {n} : k'[m] = k[m]
  BY <1>1
<1> QED
  BY <1>1, <1>2, <1>5, <1>6, <1>11, <1>12, <1>13, <1>14, <1>15, JournalStep

-----------------------------------------------------------------------------
(* What reaches the website, and the end of a preparation.                   *)

\* An effect happens once; after a revocation it is the last of its thread.
LEMMA EffectStep ==
  ASSUME IInv, NEW n \in Nonce, NEW e \in Effects, NEW here \in {"write", "post", "forward"},
         NEW there \in {"readback", "record", "sent"}, Happens(n, here, there, e), done[n][e] = 0,
         e = "final" => here = "forward", there = "sent" => here = "forward", Truth(n)', Place(n)'
  PROVE  IInv'
<1>1. /\ UNCHANGED <<target, task, worker, approval, marker, receipts, tombstone, journal, hold, seen, browser, k,
                     active, cancelled, proxy, mishaps, started, proven, closed, confirmed, edited>>
      /\ pc[n] = here /\ done' = [done EXCEPT ![n][e] = @ + 1]
      /\ late' = [late EXCEPT ![n] = IF Alive(n) THEN @ ELSE @ + 1]
  BY DEF Happens, durable, held, service, thread
<1>2. /\ pc' \in [Nonce -> Working \cup Ended \cup {"closing", "settle"}] /\ pc'[n] = there
      /\ \A m \in Nonce \ {n} : pc'[m] = pc[m]
  BY DEF Happens, Goto, IInv, TypeOK, ThreadOK, Working, FieldSteps, UploadSteps, HumanSteps
<1>3. /\ done' \in [Nonce -> [Effects -> 0..1]] /\ \A m \in Nonce \ {n} : done'[m] = done[m]
      /\ e # "final" => done'[n]["final"] = done[n]["final"]
  BY <1>1, Names DEF IInv, TypeOK, ProcessOK
<1>4. NonceInv(n)
  BY DEF IInv
<1>5. /\ late' \in [Nonce -> Nat] /\ \A m \in Nonce \ {n} : late'[m] = late[m]
      /\ late'[n] <= 1
      /\ late'[n] = 1 => proxy[n] \notin {"none", "open"}
  <2>1. late[n] \in 0..1 /\ (late[n] = 1 => proxy[n] \notin {"none", "open"} /\ pc[n] \notin {"write", "post", "forward"})
    BY <1>4 DEF IInv, TypeOK, ThreadOK, NonceInv, Consent
  <2>2. late[n] = 0 /\ proxy[n] # "none"
    BY <1>1, <1>4, <2>1 DEF NonceInv, Life
  <2>3. late \in [Nonce -> Nat]
    BY DEF IInv, TypeOK, ThreadOK
  <2>4. late'[n] = IF Alive(n) THEN 0 ELSE 1
    BY <1>1, <2>2, <2>3
  <2> QED
    BY <1>1, <2>2, <2>3, <2>4 DEF Alive
<1>6. TypeOK'
  BY <1>1, <1>2, <1>3, <1>5 DEF IInv, TypeOK, RowsOK, ProcessOK, ServiceOK, ThreadOK
<1>7. \A m \in Nonce \ {n} : Same(m)
  BY <1>1, <1>2, <1>3, <1>5 DEF Same
<1>8. Life(n)'
  <2>1. approval'[n].context_closed => approval'[n].outcome # "none"
    BY <1>1, <1>4 DEF NonceInv, Life
  <2>2. Leads(pc[n], pc'[n])
    BY <1>1, <1>2 DEF Leads, PRE, AFTER, Ended, FieldSteps, UploadSteps, HumanSteps
  <2> QED
    BY <1>1, <1>4, <2>1, <2>2, LifeStep DEF NonceInv, Used, OpenRow
<1>9. Consent(n)'
  <2>1. pc'[n] = "sent" \/ done'[n]["final"] > 0 => confirmed[n] /\ edited[n] # "before"
    BY <1>1, <1>2, <1>3, <1>4 DEF NonceInv, Consent
  <2>2. pc'[n] = "sent" => confirmed[n]
    BY <2>1
  <2> QED
    BY <1>1, <1>2, <1>5, <2>1, <2>2 DEF Consent
<1> QED
  BY <1>6, <1>7, <1>8, <1>9, Local DEF NonceInv

\* A field is typed, a request of the upload is made, the final one is sent.
LEMMA EffectSteps ==
  ASSUME IInv, NEW n \in Nonce, Write(n) \/ Post(n) \/ Forward(n)
  PROVE  IInv'
<1>1. NonceInv(n)
  BY DEF IInv
<1>2. CASE Write(n)
  <2> DEFINE f == Plan[k[n]]
  <2>1. Happens(n, "write", "readback", f) /\ pc[n] = "write"
    BY <1>2 DEF Write, Happens
  <2>2. /\ f \in Range(Plan) /\ f \in Effects /\ f # "final" /\ f \notin Range(STAGES)
        /\ done[n][f] = 0 /\ journal[n].field[f] # "none"
    BY <1>1, <2>1, Names DEF NonceInv, Place
  <2>3. /\ journal'[n] = journal[n] /\ approval'[n] = approval[n] /\ k'[n] = k[n] /\ pc'[n] = "readback"
        /\ done'[n][f] = 1 /\ \A d \in Effects \ {f} : done'[n][d] = done[n][d]
    BY <2>1, <2>2 DEF Happens, durable, thread, Goto, IInv, TypeOK, ProcessOK, ThreadOK
  <2>4. Place(n)'
    BY <1>1, <2>1, <2>2, <2>3 DEF NonceInv, Place
  <2> HIDE DEF f
  <2>5. Truth(n)'
    <3>1. \A g \in Range(Plan) : done'[n][g] = IF g = f THEN 1 ELSE done[n][g]
      BY <2>3, Names
    <3>2. \A s \in Range(STAGES) : done'[n][s] = done[n][s]
      BY <2>2, <2>3, Names
    <3>3. done'[n]["final"] = done[n]["final"]
      BY <2>2, <2>3, Names
    <3> QED
      BY <1>1, <2>2, <2>3, <3>1, <3>2, <3>3 DEF NonceInv, Truth
  <2> QED
    BY <2>1, <2>2, <2>4, <2>5, EffectStep
<1>3. CASE Post(n)
  <2> DEFINE s == STAGES[k[n]]
  <2>1. Happens(n, "post", "record", s) /\ pc[n] = "post"
    BY <1>3 DEF Post, Happens
  <2>2. s \in Range(STAGES) /\ s \in Effects /\ s # "final" /\ done[n][s] = 0 /\ journal[n].stage[s] # "none"
    BY <1>1, <2>1, Names DEF NonceInv, Place
  <2>3. /\ journal'[n] = journal[n] /\ approval'[n] = approval[n] /\ k'[n] = k[n] /\ pc'[n] = "record"
        /\ done'[n][s] = 1 /\ \A d \in Effects \ {s} : done'[n][d] = done[n][d]
    BY <2>1, <2>2 DEF Happens, durable, thread, Goto, IInv, TypeOK, ProcessOK, ThreadOK
  <2>4. Place(n)'
    BY <1>1, <2>1, <2>2, <2>3 DEF NonceInv, Place
  <2> HIDE DEF s
  <2>5. Truth(n)'
    <3>1. \A t \in Range(STAGES) : done'[n][t] = IF t = s THEN 1 ELSE done[n][t]
      BY <2>3, Names
    <3>2. \A g \in Range(Plan) : done'[n][g] = done[n][g]
      BY <2>2, <2>3, Names
    <3>3. done'[n]["final"] = done[n]["final"]
      BY <2>2, <2>3, Names
    <3> QED
      BY <1>1, <2>2, <2>3, <3>1, <3>2, <3>3 DEF NonceInv, Truth
  <2> QED
    BY <2>1, <2>2, <2>4, <2>5, EffectStep
<1>4. CASE Forward(n)
  <2>1. Happens(n, "forward", "sent", "final") /\ pc[n] = "forward"
    BY <1>4 DEF Forward, Happens
  <2>2. done[n]["final"] = 0 /\ journal[n].final # "none" /\ "final" \in Effects
    BY <1>1, <2>1, Names DEF NonceInv, Place
  <2>3. /\ journal'[n] = journal[n] /\ approval'[n] = approval[n] /\ k'[n] = k[n] /\ pc'[n] = "sent"
        /\ done'[n]["final"] = 1 /\ \A d \in Effects \ {"final"} : done'[n][d] = done[n][d]
    BY <2>1, <2>2 DEF Happens, durable, thread, Goto, IInv, TypeOK, ProcessOK, ThreadOK
  <2>4. Place(n)'
    BY <1>1, <2>1, <2>2, <2>3 DEF NonceInv, Place
  <2>5. Truth(n)'
    <3>1. /\ \A g \in Range(Plan) : done'[n][g] = done[n][g]
          /\ \A s \in Range(STAGES) : done'[n][s] = done[n][s]
      BY <2>3, Names
    <3> QED
      BY <1>1, <2>2, <2>3, <3>1 DEF NonceInv, Truth
  <2> QED
    BY <2>1, <2>2, <2>4, <2>5, EffectStep
<1> QED
  BY <1>2, <1>3, <1>4

\* Says of an approval that its row stays open with another outcome: PREPARED
\* only when every field was read back.
Reports(n, outcome) ==
  /\ OpenRow(n) /\ outcome \in {"PREPARED", "UNKNOWN"}
  /\ approval' = [approval EXCEPT ![n].outcome = outcome]
  /\ journal' = [journal EXCEPT ![n] = IF outcome = "UNKNOWN" THEN RetiredJournal(@) ELSE @]
  /\ outcome = "PREPARED" => AllReadBack(n)

\* Such a report keeps the shape of the rows and what the journals say.
LEMMA ReportStep ==
  ASSUME IInv, NEW n \in Nonce, NEW outcome, Reports(n, outcome), done' = done
  PROVE  /\ journal' \in [Nonce -> Entry] /\ Fades(journal[n], journal'[n])
         /\ approval' \in [Nonce -> [outcome : {"none", "ATTEMPTED", "PREPARED", "UNKNOWN"}, context_closed : BOOLEAN]]
         /\ \A m \in Nonce \ {n} : journal'[m] = journal[m] /\ approval'[m] = approval[m]
         /\ OpenRow(n)' /\ Truth(n)'
<1>1. PICK a : a = [approval[n] EXCEPT !.outcome = outcome]
  OBVIOUS
<1>2. approval' = [approval EXCEPT ![n] = a]
  BY <1>1 DEF Reports
<1>3. /\ a \in [outcome : {"none", "ATTEMPTED", "PREPARED", "UNKNOWN"}, context_closed : BOOLEAN]
      /\ a.outcome = outcome /\ a.context_closed = approval[n].context_closed
  BY <1>1 DEF Reports, IInv, TypeOK, RowsOK
<1>4. approval \in [Nonce -> [outcome : {"none", "ATTEMPTED", "PREPARED", "UNKNOWN"}, context_closed : BOOLEAN]]
  BY DEF IInv, TypeOK, RowsOK
<1>5. /\ approval' \in [Nonce -> [outcome : {"none", "ATTEMPTED", "PREPARED", "UNKNOWN"}, context_closed : BOOLEAN]]
      /\ approval'[n] = a /\ \A m \in Nonce \ {n} : approval'[m] = approval[m]
  BY <1>2, <1>3, <1>4
<1>6. journal \in [Nonce -> Entry]
  BY DEF IInv, TypeOK, RowsOK
<1>7. PICK j : j = IF outcome = "UNKNOWN" THEN RetiredJournal(journal[n]) ELSE journal[n]
  OBVIOUS
<1>8. Fades(journal[n], j) /\ j \in Entry
  <2>1. journal[n] \in Entry
    BY <1>6
  <2>2. Fades(journal[n], journal[n]) /\ Fades(journal[n], RetiredJournal(journal[n]))
    BY <2>1, Retiring
  <2>3. Fades(journal[n], j)
    BY <1>7, <2>2
  <2> QED
    BY <2>3 DEF Fades
<1>9. journal' = [journal EXCEPT ![n] = j]
  BY <1>7 DEF Reports
<1>10. journal' \in [Nonce -> Entry] /\ journal'[n] = j /\ \A m \in Nonce \ {n} : journal'[m] = journal[m]
  BY <1>6, <1>8, <1>9
<1>11. OpenRow(n)'
  BY <1>3, <1>5 DEF OpenRow, Reports
<1>12. Truth(n)'
  <2>1. Truth(n)
    BY DEF IInv, NonceInv
  <2>2. outcome = "PREPARED" => \A f \in Range(Plan) : done[n][f] = 1
    BY <2>1 DEF Reports, AllReadBack, Truth
  <2> QED
    BY <1>3, <1>5, <1>8, <1>10, <2>1, <2>2 DEF Truth, Fades
<1> QED
  BY <1>5, <1>8, <1>10, <1>11, <1>12

\* The kernel reports the run.
LEMMA FinishStep ==
  ASSUME IInv, NEW n \in Nonce, Finish(n)
  PROVE  IInv'
<1>1. PICK there \in {"idle", "closing"} :
        /\ pc[n] = "finish" /\ Goto(n, there)
        /\ \E outcome : Reports(n, outcome)
        /\ UNCHANGED <<target, task, worker, marker, receipts, tombstone, hold, seen, browser, done, k,
                       active, cancelled, proxy, mishaps, started, proven, closed, confirmed, edited, late>>
  <2>1. /\ UNCHANGED <<target, task, worker, marker, receipts, tombstone, hold, seen, browser, done, k,
                     active, cancelled, proxy, mishaps, started, proven, closed, confirmed, edited, late>>
        /\ pc[n] = "finish"
    BY DEF Finish, FinishOpen, held, service, thread, person
  <2>2. CASE Alive(n) /\ Permitted(n) /\ AllReadBack(n)
    <3>1. Reports(n, "PREPARED") /\ Goto(n, "idle")
      BY <2>2 DEF Finish, FinishOpen, Reports
    <3> QED
      BY <2>1, <3>1
  <2>3. CASE ~(Alive(n) /\ Permitted(n) /\ AllReadBack(n))
    <3>1. Reports(n, "UNKNOWN") /\ Goto(n, "closing")
      BY <2>3 DEF Finish, FinishOpen, Reports
    <3> QED
      BY <2>1, <3>1
  <2> QED
    BY <2>2, <2>3
<1>2. PICK outcome : Reports(n, outcome)
  BY <1>1
<1>3. /\ journal' \in [Nonce -> Entry] /\ Fades(journal[n], journal'[n])
      /\ approval' \in [Nonce -> [outcome : {"none", "ATTEMPTED", "PREPARED", "UNKNOWN"}, context_closed : BOOLEAN]]
      /\ \A m \in Nonce \ {n} : journal'[m] = journal[m] /\ approval'[m] = approval[m]
      /\ OpenRow(n)' /\ Truth(n)'
  BY <1>1, <1>2, ReportStep
<1>4. /\ pc' \in [Nonce -> Working \cup Ended \cup {"closing", "settle"}] /\ pc'[n] = there
      /\ \A m \in Nonce \ {n} : pc'[m] = pc[m]
  BY <1>1 DEF Goto, IInv, TypeOK, ThreadOK, Working, OtherSteps
<1>5. TypeOK'
  BY <1>1, <1>3, <1>4 DEF IInv, TypeOK, RowsOK, ProcessOK, ServiceOK, ThreadOK
<1>6. \A m \in Nonce \ {n} : Same(m)
  BY <1>1, <1>3, <1>4 DEF Same
<1>7. NonceInv(n) /\ OpenRow(n)
  BY <1>2 DEF IInv, Reports
<1>8. Life(n)'
  <2>1. Leads(pc[n], pc'[n])
    BY <1>1, <1>4 DEF Leads, PRE, AFTER, Ended, FieldSteps
  <2>2. approval'[n].context_closed => approval'[n].outcome # "none"
    BY <1>3 DEF OpenRow
  <2>3. Used(n)
    BY <1>7 DEF Used, OpenRow
  <2> QED
    BY <1>1, <1>3, <1>7, <2>1, <2>2, <2>3, LifeStep DEF NonceInv
<1>9. Place(n)'
  BY <1>1, <1>3, <1>4, <1>7, PlaceFades DEF NonceInv
<1>10. Consent(n)'
  BY <1>1, <1>4, <1>7, ConsentStep DEF NonceInv
<1> QED
  BY <1>3, <1>5, <1>6, <1>8, <1>9, <1>10, Local DEF NonceInv

\* An exception ends the work of the thread, wherever it is.
LEMMA FailStep ==
  ASSUME IInv, NEW n \in Nonce, Fail(n)
  PROVE  IInv'
<1>1. /\ UNCHANGED <<target, task, worker, approval, marker, receipts, tombstone, hold, seen, done, k,
                     active, cancelled, proxy, mishaps, proven, closed, confirmed, edited, late>>
      /\ pc[n] \in Working /\ started' = [started EXCEPT ![n] = @ \/ pc[n] = "consume"]
  BY DEF Fail, Outside, held, service, person
<1>2. /\ pc' \in [Nonce -> Working \cup Ended \cup {"closing", "settle"}] /\ pc'[n] = "closing"
      /\ \A m \in Nonce \ {n} : pc'[m] = pc[m]
  BY DEF Fail, Goto, IInv, TypeOK, ThreadOK
<1>3. /\ started' \in [Nonce -> BOOLEAN] /\ (started[n] => started'[n])
      /\ \A m \in Nonce \ {n} : started'[m] = started[m]
  <2>1. started \in [Nonce -> BOOLEAN]
    BY DEF IInv, TypeOK, ThreadOK
  <2>2. PICK b \in BOOLEAN : b = (started[n] \/ pc[n] = "consume")
    BY <2>1
  <2>3. started' = [started EXCEPT ![n] = b]
    BY <1>1, <2>2
  <2> QED
    BY <2>1, <2>2, <2>3
<1>4. /\ browser' \in [Nonce -> {"none", "alive", "gone"}] /\ \A m \in Nonce \ {n} : browser'[m] = browser[m]
      /\ browser'[n] = browser[n] \/ pc[n] = "launching"
  BY DEF Fail, IInv, TypeOK, ProcessOK
<1>5. /\ journal' \in [Nonce -> Entry] /\ Fades(journal[n], journal'[n])
      /\ \A m \in Nonce \ {n} : journal'[m] = journal[m]
  <2>1. journal \in [Nonce -> Entry]
    BY DEF IInv, TypeOK, RowsOK
  <2>2. PICK j : Fades(journal[n], j) /\ journal' = [journal EXCEPT ![n] = j]
    <3>1. journal = [journal EXCEPT ![n] = journal[n]]
      BY <2>1
    <3>2. /\ Fades(journal[n], journal[n])
          /\ Fades(journal[n], InvalidatedRun(journal[n])) /\ Fades(journal[n], LostUpload(journal[n]))
      BY <2>1, Retiring
    <3>3. CASE journal' = journal
      BY <3>1, <3>2, <3>3
    <3>4. CASE journal' = [journal EXCEPT ![n] = InvalidatedRun(journal[n])]
      BY <3>2, <3>4
    <3>5. CASE journal' = [journal EXCEPT ![n] = LostUpload(journal[n])]
      BY <3>2, <3>5
    <3> QED
      BY <3>3, <3>4, <3>5 DEF Fail
  <2>3. j \in Entry
    BY <2>2 DEF Fades
  <2> QED
    BY <2>1, <2>2, <2>3
<1>6. TypeOK'
  BY <1>1, <1>2, <1>3, <1>4, <1>5 DEF IInv, TypeOK, RowsOK, ProcessOK, ServiceOK, ThreadOK
<1>7. \A m \in Nonce \ {n} : Same(m)
  BY <1>1, <1>2, <1>3, <1>4, <1>5 DEF Same
<1>8. NonceInv(n)
  BY DEF IInv
<1>9. Life(n)'
  <2>1. Leads(pc[n], pc'[n])
    BY <1>1, <1>2 DEF Leads, PRE, AFTER, Ended, Working, FieldSteps, UploadSteps, HumanSteps, OtherSteps
  <2>2. approval'[n].context_closed => approval'[n].outcome # "none"
    BY <1>1, <1>8 DEF NonceInv, Life
  <2> QED
    BY <1>1, <1>2, <1>3, <1>4, <1>8, <2>1, <2>2, LifeStep DEF NonceInv, Used, OpenRow
<1>10. Truth(n)'
  BY <1>1, <1>5, <1>8, TruthFades DEF NonceInv
<1>11. Place(n)'
  BY <1>1, <1>2, <1>5, <1>8, PlaceFades DEF NonceInv
<1>12. Consent(n)'
  BY <1>1, <1>2, <1>8, ConsentStep DEF NonceInv
<1> QED
  BY <1>6, <1>7, <1>9, <1>10, <1>11, <1>12, Local DEF NonceInv

\* The rows are closed: intents stay, outcomes are forgotten.
LEMMA CloseRowsStep ==
  ASSUME IInv, NEW n \in Nonce, CloseRows(n), done' = done
  PROVE  /\ journal' \in [Nonce -> Entry] /\ Fades(journal[n], journal'[n])
         /\ approval' \in [Nonce -> [outcome : {"none", "ATTEMPTED", "PREPARED", "UNKNOWN"}, context_closed : BOOLEAN]]
         /\ task' \in [Task -> [owner : Nonce \cup {NoNonce}, stage : {"OPEN", "PREPARATION", "STOPPED"},
                                version : 0..MaxVersion]]
         /\ \A m \in Nonce \ {n} : journal'[m] = journal[m] /\ approval'[m] = approval[m]
         /\ approval'[n].outcome = "UNKNOWN" /\ approval'[n].context_closed /\ Truth(n)'
<1>1. /\ approval' \in [Nonce -> [outcome : {"none", "ATTEMPTED", "PREPARED", "UNKNOWN"}, context_closed : BOOLEAN]]
      /\ approval'[n].outcome = "UNKNOWN" /\ approval'[n].context_closed
      /\ \A m \in Nonce \ {n} : approval'[m] = approval[m]
  BY DEF CloseRows, IInv, TypeOK, RowsOK
<1>2. /\ journal' \in [Nonce -> Entry] /\ Fades(journal[n], journal'[n])
      /\ \A m \in Nonce \ {n} : journal'[m] = journal[m]
  <2>1. journal \in [Nonce -> Entry]
    BY DEF IInv, TypeOK, RowsOK
  <2>2. PICK j : j = [RetiredJournal(journal[n]) EXCEPT !.final = Retired(@)]
    OBVIOUS
  <2>3. Fades(journal[n], j)
    BY <2>1, <2>2, Retiring
  <2>4. journal' = [journal EXCEPT ![n] = j]
    BY <2>2 DEF CloseRows
  <2>5. j \in Entry
    BY <2>3 DEF Fades
  <2> QED
    BY <2>1, <2>3, <2>4, <2>5
<1>3. task' \in [Task -> [owner : Nonce \cup {NoNonce}, stage : {"OPEN", "PREPARATION", "STOPPED"},
                          version : 0..MaxVersion]]
  <2>1. /\ task \in [Task -> [owner : Nonce \cup {NoNonce}, stage : {"OPEN", "PREPARATION", "STOPPED"},
                             version : 0..MaxVersion]]
        /\ target[n] \in Task
    BY DEF IInv, TypeOK, RowsOK
  <2>2. PICK r : r = [task[target[n]] EXCEPT !.owner = IF @ = n THEN NoNonce ELSE @]
    OBVIOUS
  <2>3. task' = [task EXCEPT ![target[n]] = r]
    BY <2>2 DEF CloseRows, FreedTask
  <2>4. r \in [owner : Nonce \cup {NoNonce}, stage : {"OPEN", "PREPARATION", "STOPPED"}, version : 0..MaxVersion]
    BY <2>1, <2>2
  <2> QED
    BY <2>1, <2>3, <2>4
<1>4. Truth(n)'
  BY <1>1, <1>2, TruthFades DEF IInv, NonceInv
<1> QED
  BY <1>1, <1>2, <1>3, <1>4

\* The browser is closed, and proved to be, or not.
LEMMA CloseBrowserStep ==
  ASSUME IInv, NEW n \in Nonce, CloseBrowser(n)
  PROVE  IInv'
<1>1. /\ UNCHANGED <<target, task, worker, approval, marker, receipts, tombstone, journal, hold, seen, done, k,
                     active, cancelled, proxy, mishaps, started, closed, confirmed, edited, late>>
      /\ pc[n] = "closing" /\ Goto(n, "settle")
  BY DEF CloseBrowser, durable, held, service, person
<1>2. /\ pc' \in [Nonce -> Working \cup Ended \cup {"closing", "settle"}] /\ pc'[n] = "settle"
      /\ \A m \in Nonce \ {n} : pc'[m] = pc[m]
  BY <1>1 DEF Goto, IInv, TypeOK, ThreadOK
<1>3. /\ browser' \in [Nonce -> {"none", "alive", "gone"}] /\ proven' \in [Nonce -> BOOLEAN]
      /\ \A m \in Nonce \ {n} : browser'[m] = browser[m] /\ proven'[m] = proven[m]
      /\ \/ browser'[n] # "alive"
         \/ browser'[n] = browser[n] /\ proven'[n] = proven[n]
  BY ZenonT(40) DEF CloseBrowser, IInv, TypeOK, ProcessOK, ThreadOK
<1>4. TypeOK'
  BY <1>1, <1>2, <1>3 DEF IInv, TypeOK, RowsOK, ProcessOK, ServiceOK, ThreadOK
<1>5. \A m \in Nonce \ {n} : Same(m)
  BY <1>1, <1>2, <1>3 DEF Same
<1>6. NonceInv(n) /\ ~proven[n] /\ ~closed[n] /\ proxy[n] # "closed" /\ proxy[n] # "none"
  BY <1>1 DEF IInv, NonceInv, Life
<1>7. Life(n)'
  BY <1>1, <1>2, <1>3, <1>6 DEF NonceInv, Life, Used, OpenRow, PRE, AFTER, Ended, FieldSteps, UploadSteps, HumanSteps
<1>8. Truth(n)' /\ Place(n)' /\ Consent(n)'
  BY <1>1, <1>2, <1>6 DEF NonceInv, Truth, Place, Consent
<1> QED
  BY <1>4, <1>5, <1>7, <1>8, Local DEF NonceInv

\* CLOSED is said of an approval whose browser is proved gone, and whose rows
\* and marker are cleared or were never there.
LEMMA SettleStep ==
  ASSUME IInv, NEW n \in Nonce, Settle(n)
  PROVE  IInv'
<1>1. /\ UNCHANGED <<target, worker, seen, browser, done, active, cancelled, proxy, mishaps, confirmed, edited, late>>
      /\ pc[n] = "settle" /\ Goto(n, "exited")
      /\ hold' = [hold EXCEPT ![n] = "none"] /\ k' = [k EXCEPT ![n] = 0]
      /\ started' = [started EXCEPT ![n] = FALSE] /\ proven' = [proven EXCEPT ![n] = FALSE]
  BY DEF Settle, service, person
<1>2. /\ pc' \in [Nonce -> Working \cup Ended \cup {"closing", "settle"}] /\ pc'[n] = "exited"
      /\ hold' \in [Nonce -> {"none", "pending", "active"}] /\ hold'[n] = "none"
      /\ started' \in [Nonce -> BOOLEAN] /\ proven' \in [Nonce -> BOOLEAN] /\ ~proven'[n]
      /\ \A m \in Nonce \ {n} : /\ pc'[m] = pc[m] /\ hold'[m] = hold[m] /\ started'[m] = started[m]
                                /\ proven'[m] = proven[m]
  BY <1>1 DEF Goto, IInv, TypeOK, ProcessOK, ThreadOK, Ended
<1>3. k' \in [Nonce -> 0..(Len(Plan) + Len(STAGES))] /\ \A m \in Nonce \ {n} : k'[m] = k[m]
  BY <1>1, Names DEF IInv, TypeOK, ThreadOK
<1>4. NonceInv(n) /\ ~closed[n] /\ proxy[n] # "closed" /\ proxy[n] # "none" /\ (proven[n] => browser[n] # "alive")
  BY <1>1 DEF IInv, NonceInv, Life
<1>5. /\ closed' \in [Nonce -> BOOLEAN] /\ \A m \in Nonce \ {n} : closed'[m] = closed[m]
      /\ journal' \in [Nonce -> Entry] /\ Fades(journal[n], journal'[n]) /\ Truth(n)'
      /\ approval' \in [Nonce -> [outcome : {"none", "ATTEMPTED", "PREPARED", "UNKNOWN"}, context_closed : BOOLEAN]]
      /\ task' \in [Task -> [owner : Nonce \cup {NoNonce}, stage : {"OPEN", "PREPARATION", "STOPPED"},
                              version : 0..MaxVersion]]
      /\ \A m \in Nonce \ {n} : journal'[m] = journal[m] /\ approval'[m] = approval[m]
      /\ approval'[n].context_closed => approval'[n].outcome # "none"
      /\ marker' \in {marker, NoNonce, Foreign} /\ tombstone' = tombstone
      /\ receipts' \in {receipts, receipts \cup {n}}
      /\ closed'[n] => browser[n] # "alive" /\ marker' # n /\ ~OpenRow(n)'
  <2> DEFINE permit == hold[n] = "active"
             Exits(recorded) ==
               closed' = [closed EXCEPT ![n] = proven[n] /\ recorded /\ (started[n] => permit)]
             Rows ==
               /\ journal' \in [Nonce -> Entry] /\ Fades(journal[n], journal'[n]) /\ Truth(n)'
               /\ approval' \in [Nonce -> [outcome : {"none", "ATTEMPTED", "PREPARED", "UNKNOWN"},
                                           context_closed : BOOLEAN]]
               /\ task' \in [Task -> [owner : Nonce \cup {NoNonce}, stage : {"OPEN", "PREPARATION", "STOPPED"},
                                       version : 0..MaxVersion]]
               /\ \A m \in Nonce \ {n} : journal'[m] = journal[m] /\ approval'[m] = approval[m]
               /\ approval'[n].context_closed => approval'[n].outcome # "none"
  <2>1. /\ closed \in [Nonce -> BOOLEAN] /\ started[n] \in BOOLEAN /\ proven[n] \in BOOLEAN
        /\ journal \in [Nonce -> Entry] /\ journal[n] \in Entry
        /\ approval \in [Nonce -> [outcome : {"none", "ATTEMPTED", "PREPARED", "UNKNOWN"}, context_closed : BOOLEAN]]
    BY DEF IInv, TypeOK, RowsOK, ThreadOK
  <2>2. ASSUME UNCHANGED <<approval, journal, task>> PROVE Rows
    <3>1. Fades(journal[n], journal[n])
      BY <2>1, Retiring
    <3>2. Truth(n)'
      BY <1>1, <1>4, <2>2, <3>1, TruthFades DEF NonceInv
    <3>3. approval'[n].context_closed => approval'[n].outcome # "none"
      BY <1>4, <2>2 DEF NonceInv, Life
    <3> QED
      BY <2>2, <3>1, <3>2, <3>3 DEF IInv, TypeOK, RowsOK
  <2>3. CASE permit /\ proven[n] /\ FinishClosed(n) /\ Exits(approval'[n].context_closed)
    <3>1. /\ marker = n /\ marker' \in {marker, NoNonce, Foreign} /\ tombstone' = tombstone
          /\ receipts' \in {receipts, receipts \cup {n}} /\ ~approval[n].context_closed
      BY <2>3 DEF FinishClosed, ClearMarker, ClearMarkerFails, OpenRow
    <3>2. CASE ClearMarker(n) /\ CloseRows(n)
      <4>1. Rows /\ approval'[n].context_closed
        BY <1>1, <3>2, CloseRowsStep DEF CloseRows
      <4>2. marker' # n
        BY <3>2, PlanAssumption DEF ClearMarker
      <4>3. ~OpenRow(n)'
        BY <4>1 DEF OpenRow
      <4>4. PICK c \in BOOLEAN : closed' = [closed EXCEPT ![n] = c]
        BY <2>1, <2>3, <4>1
      <4> QED
        BY <1>4, <2>1, <2>3, <3>1, <4>1, <4>2, <4>3, <4>4
    <3>3. CASE UNCHANGED <<approval, journal, task>>
      <4>1. Rows
        BY <2>2, <3>3
      <4>2. closed' = [closed EXCEPT ![n] = FALSE]
        BY <2>3, <3>1, <3>3
      <4> QED
        BY <2>1, <3>1, <4>1, <4>2
    <3> QED
      BY <2>3, <3>2, <3>3 DEF FinishClosed
  <2>4. CASE permit /\ ~proven[n] /\ FinishOpen(n, "UNKNOWN") /\ Exits(TRUE)
    <3>1. Reports(n, "UNKNOWN") /\ UNCHANGED <<task, marker, receipts, tombstone>>
      BY <2>4 DEF FinishOpen, Reports
    <3>2. /\ journal' \in [Nonce -> Entry] /\ Fades(journal[n], journal'[n]) /\ Truth(n)'
          /\ approval' \in [Nonce -> [outcome : {"none", "ATTEMPTED", "PREPARED", "UNKNOWN"},
                                      context_closed : BOOLEAN]]
          /\ \A m \in Nonce \ {n} : journal'[m] = journal[m] /\ approval'[m] = approval[m]
          /\ OpenRow(n)'
      BY <1>1, <3>1, ReportStep
    <3>3. task' \in [Task -> [owner : Nonce \cup {NoNonce}, stage : {"OPEN", "PREPARATION", "STOPPED"},
                              version : 0..MaxVersion]]
      BY <3>1 DEF IInv, TypeOK, RowsOK
    <3>4. approval'[n].context_closed => approval'[n].outcome # "none"
      BY <3>2 DEF OpenRow
    <3>5. closed' = [closed EXCEPT ![n] = FALSE]
      BY <2>4
    <3> QED
      BY <2>1, <3>1, <3>2, <3>3, <3>4, <3>5
  <2>5. CASE Exits(~permit) /\ UNCHANGED <<approval, journal, task, marker, receipts, tombstone>>
    <3>1. Rows
      BY <2>2, <2>5
    <3>2. PICK c \in BOOLEAN : /\ closed' = [closed EXCEPT ![n] = c]
                               /\ c => proven[n] /\ ~started[n]
      BY <2>1, <2>5
    <3>3. ~started[n] => marker # n /\ approval[n].outcome = "none"
      BY <1>1, <1>4 DEF NonceInv, Life, Used, Ended
    <3>4. c => browser[n] # "alive" /\ marker' # n /\ ~OpenRow(n)'
      BY <1>4, <2>5, <3>2, <3>3 DEF OpenRow
    <3> QED
      BY <2>1, <2>5, <3>1, <3>2, <3>4
  <2> QED
    BY <2>3, <2>4, <2>5 DEF Settle
<1>6. TypeOK'
  <2>1. marker' \in Nonce \cup {NoNonce, Foreign} /\ receipts' \cup tombstone' \subseteq Nonce
    BY <1>5 DEF IInv, TypeOK, RowsOK
  <2> QED
    BY <1>1, <1>2, <1>3, <1>5, <2>1 DEF IInv, TypeOK, RowsOK, ProcessOK, ServiceOK, ThreadOK
<1>7. \A m \in Nonce \ {n} : Same(m)
  BY <1>1, <1>2, <1>3, <1>5, PlanAssumption DEF Same
<1>8. Life(n)'
  BY <1>1, <1>2, <1>4, <1>5 DEF Life, PRE, AFTER, Ended, FieldSteps, UploadSteps, HumanSteps
<1>9. Place(n)'
  BY <1>2 DEF Place
<1>10. Consent(n)'
  BY <1>1, <1>2, <1>4 DEF NonceInv, Consent
<1> QED
  BY <1>5, <1>6, <1>7, <1>8, <1>9, <1>10, Local DEF NonceInv

\* A child that is killed leaves its browser, its row and its marker behind.
LEMMA ChildDiesStep ==
  ASSUME IInv, NEW n \in Nonce, ChildDies(n)
  PROVE  IInv'
<1>1. /\ UNCHANGED <<target, task, worker, approval, marker, receipts, tombstone, journal, seen, done, k,
                     active, cancelled, started, proven, closed, confirmed, edited, late>>
      /\ pc[n] \notin Ended /\ Goto(n, "dead")
  BY DEF ChildDies, durable, thread, person
<1>2. /\ pc' \in [Nonce -> Working \cup Ended \cup {"closing", "settle"}] /\ pc'[n] = "dead"
      /\ hold' \in [Nonce -> {"none", "pending", "active"}] /\ hold'[n] = "none"
      /\ \A m \in Nonce \ {n} : pc'[m] = pc[m] /\ hold'[m] = hold[m]
  BY <1>1 DEF ChildDies, Goto, IInv, TypeOK, ProcessOK, ThreadOK, Ended
<1>3. /\ proxy' \in [Nonce -> {"none", "open", "revoked", "closed", "lost"}] /\ mishaps' \in 0..MaxMishaps
      /\ proxy'[n] = (IF proxy[n] = "open" THEN "revoked" ELSE proxy[n])
      /\ \A m \in Nonce \ {n} : proxy'[m] = proxy[m]
  BY MishapsAssumption DEF ChildDies, IInv, TypeOK, ServiceOK
<1>4. /\ browser' \in [Nonce -> {"none", "alive", "gone"}] /\ \A m \in Nonce \ {n} : browser'[m] = browser[m]
      /\ browser'[n] = browser[n] \/ pc[n] = "launching"
  BY DEF ChildDies, IInv, TypeOK, ProcessOK
<1>5. TypeOK'
  BY <1>1, <1>2, <1>3, <1>4 DEF IInv, TypeOK, RowsOK, ProcessOK, ServiceOK, ThreadOK
<1>6. \A m \in Nonce \ {n} : Same(m)
  BY <1>1, <1>2, <1>3, <1>4 DEF Same
<1>7. NonceInv(n) /\ ~closed[n] /\ proxy[n] # "closed" /\ proxy[n] # "none"
  BY <1>1 DEF IInv, NonceInv, Life, Ended
<1>8. Life(n)'
  BY <1>1, <1>2, <1>3, <1>4, <1>7
     DEF NonceInv, Life, Used, OpenRow, PRE, AFTER, Ended, FieldSteps, UploadSteps, HumanSteps
<1>9. Truth(n)' /\ Place(n)'
  BY <1>1, <1>2, <1>7 DEF NonceInv, Truth, Place
<1>10. Consent(n)'
  BY <1>1, <1>2, <1>3, <1>7 DEF NonceInv, Consent
<1> QED
  BY <1>5, <1>6, <1>8, <1>9, <1>10, Local DEF NonceInv

\* A browser that goes away takes nothing with it.
LEMMA BrowserDiesStep ==
  ASSUME IInv, NEW n \in Nonce, BrowserDies(n)
  PROVE  IInv'
<1>1. UNCHANGED <<target, task, worker, approval, marker, receipts, tombstone, journal, hold, seen, done, k, pc,
                  active, cancelled, proxy, started, proven, closed, confirmed, edited, late>>
  BY DEF BrowserDies, Inside, durable, held, person
<1>2. /\ browser' \in [Nonce -> {"none", "alive", "gone"}] /\ browser'[n] = "gone"
      /\ \A m \in Nonce \ {n} : browser'[m] = browser[m]
  BY DEF BrowserDies, IInv, TypeOK, ProcessOK
<1>3. mishaps' \in 0..MaxMishaps
  BY MishapsAssumption DEF BrowserDies, IInv, TypeOK, ServiceOK
<1>4. TypeOK'
  BY <1>1, <1>2, <1>3 DEF IInv, TypeOK, RowsOK, ProcessOK, ServiceOK, ThreadOK
<1>5. \A m \in Nonce \ {n} : Same(m)
  BY <1>1, <1>2 DEF Same
<1>6. NonceInv(n)
  BY DEF IInv
<1>7. Life(n)'
  BY <1>1, <1>2, <1>6 DEF NonceInv, Life, Used, OpenRow
<1>8. Truth(n)' /\ Place(n)' /\ Consent(n)'
  BY <1>1, <1>6 DEF NonceInv, Truth, Place, Consent
<1> QED
  BY <1>4, <1>5, <1>7, <1>8, Local DEF NonceInv

\* Another process closes the books of an approval that was used, and whose
\* browser is gone.
LEMMA ReconcileStep ==
  ASSUME IInv, NEW n \in Nonce, ReconcileClosedContext(n),
         UNCHANGED <<active, cancelled, proxy, mishaps, pc, thread, person>>
  PROVE  IInv'
<1>1. /\ UNCHANGED <<target, worker, hold, seen, browser, done, k, pc, active, cancelled, proxy, mishaps, started,
                     proven, closed, confirmed, edited, late>>
      /\ browser[n] # "alive"
  BY DEF ReconcileClosedContext, Absent, held, thread, person
<1>2. /\ marker' \in {marker, NoNonce} /\ (marker = n => marker' = NoNonce)
      /\ receipts' \in {receipts, receipts \cup {n}} /\ tombstone' \in {tombstone, tombstone \cup {n}}
      /\ Used(n)
  BY DEF ReconcileClosedContext, ClearMarker, Used, OpenRow
<1>3. NonceInv(n)
  BY DEF IInv
<1>4. /\ journal' \in [Nonce -> Entry] /\ Fades(journal[n], journal'[n])
      /\ approval' \in [Nonce -> [outcome : {"none", "ATTEMPTED", "PREPARED", "UNKNOWN"}, context_closed : BOOLEAN]]
      /\ task' \in [Task -> [owner : Nonce \cup {NoNonce}, stage : {"OPEN", "PREPARATION", "STOPPED"},
                             version : 0..MaxVersion]]
      /\ \A m \in Nonce \ {n} : journal'[m] = journal[m] /\ approval'[m] = approval[m]
      /\ approval'[n].context_closed => approval'[n].outcome # "none"
      /\ Truth(n)' /\ (OpenRow(n)' => OpenRow(n))
  <2>1. CASE CloseRows(n)
    <3>1. done' = done
      BY <1>1
    <3> QED
      BY <2>1, <3>1, CloseRowsStep DEF OpenRow
  <2>2. CASE UNCHANGED <<approval, journal, task>>
    <3>1. journal[n] \in Entry
      BY DEF IInv, TypeOK, RowsOK
    <3>2. Fades(journal[n], journal'[n])
      BY <2>2, <3>1, Retiring
    <3>3. Truth(n)'
      BY <1>1, <1>3, <2>2, <3>2, TruthFades DEF NonceInv
    <3> QED
      BY <1>3, <2>2, <3>2, <3>3 DEF NonceInv, Life, OpenRow, IInv, TypeOK, RowsOK
  <2> QED
    BY <2>1, <2>2 DEF ReconcileClosedContext
<1>5. TypeOK'
  <2>1. marker' \in Nonce \cup {NoNonce, Foreign} /\ receipts' \cup tombstone' \subseteq Nonce
    BY <1>2 DEF IInv, TypeOK, RowsOK
  <2> QED
    BY <1>1, <1>4, <2>1 DEF IInv, TypeOK, RowsOK, ProcessOK, ServiceOK, ThreadOK
<1>6. \A m \in Nonce \ {n} : Same(m)
  BY <1>1, <1>2, <1>4, PlanAssumption DEF Same
<1>7. Life(n)'
  <2>1. marker' # n
    BY <1>2, PlanAssumption
  <2>2. ~(pc[n] \in PRE \/ (pc[n] \notin Ended /\ ~started[n]))
    BY <1>2, <1>3 DEF NonceInv, Life
  <2> QED
    BY <1>1, <1>3, <1>4, <2>1, <2>2 DEF NonceInv, Life
<1>8. Place(n)'
  BY <1>1, <1>3, <1>4, PlaceFades DEF NonceInv
<1>9. Consent(n)'
  BY <1>1, <1>3 DEF NonceInv, Consent
<1> QED
  BY <1>4, <1>5, <1>6, <1>7, <1>8, <1>9, Local DEF NonceInv

\* The rest of the queue, and the user, change what no invariant of an approval
\* is about.
LEMMA QueueStep ==
  ASSUME IInv, Queue
  PROVE  IInv'
<1>1. CASE \E n \in Nonce : ReconcileClosedContext(n) /\ UNCHANGED mishaps
  BY <1>1, ReconcileStep DEF Queue
<1>2. CASE \/ WorkerClaims /\ UNCHANGED mishaps
           \/ WorkerReturns /\ UNCHANGED mishaps
           \/ \E n \in Nonce : TaskChanges(target[n]) /\ mishaps < MaxMishaps /\ mishaps' = mishaps + 1
  <2>1. UNCHANGED <<target, approval, marker, receipts, tombstone, journal, hold, seen, browser, done, k, pc, active,
                    cancelled, proxy, started, proven, closed, confirmed, edited, late>>
    BY <1>2 DEF Queue, WorkerClaims, WorkerReturns, TaskChanges, held, thread, person
  <2>2. worker' \in BOOLEAN /\ mishaps' \in 0..MaxMishaps
    <3>1. worker \in BOOLEAN /\ mishaps \in 0..MaxMishaps
      BY DEF IInv, TypeOK, RowsOK, ServiceOK
    <3>2. worker' \in BOOLEAN
      BY <1>2, <3>1 DEF WorkerClaims, WorkerReturns, TaskChanges
    <3>3. mishaps' = mishaps \/ (mishaps < MaxMishaps /\ mishaps' = mishaps + 1)
      BY <1>2
    <3> QED
      BY <3>1, <3>2, <3>3, MishapsAssumption
  <2>3. task' \in [Task -> [owner : Nonce \cup {NoNonce}, stage : {"OPEN", "PREPARATION", "STOPPED"},
                            version : 0..MaxVersion]]
    <3>1. task \in [Task -> [owner : Nonce \cup {NoNonce}, stage : {"OPEN", "PREPARATION", "STOPPED"},
                             version : 0..MaxVersion]]
      BY DEF IInv, TypeOK, RowsOK
    <3>2. CASE UNCHANGED task
      BY <3>1, <3>2
    <3>3. CASE \E n \in Nonce : TaskChanges(target[n])
      <4>1. PICK n \in Nonce : TaskChanges(target[n])
        BY <3>3
      <4>2. PICK t \in Task : t = target[n]
        BY DEF IInv, TypeOK, RowsOK
      <4>3. task[t].version + 1 \in 0 .. MaxVersion
        BY <3>1, <4>1, <4>2, PlanAssumption DEF TaskChanges
      <4>4. PICK r : /\ task' = [task EXCEPT ![t] = r]
                     /\ \/ r = [task[t] EXCEPT !.version = @ + 1]
                        \/ r = [owner |-> NoNonce, stage |-> "STOPPED", version |-> task[t].version + 1]
        BY <4>1, <4>2 DEF TaskChanges
      <4>5. r \in [owner : Nonce \cup {NoNonce}, stage : {"OPEN", "PREPARATION", "STOPPED"}, version : 0..MaxVersion]
        BY <3>1, <4>3, <4>4
      <4> QED
        BY <3>1, <4>4, <4>5
    <3> QED
      BY <1>2, <3>2, <3>3 DEF WorkerClaims, WorkerReturns
  <2>4. TypeOK'
    BY <2>1, <2>2, <2>3 DEF IInv, TypeOK, RowsOK, ProcessOK, ServiceOK, ThreadOK
  <2>5. \A m \in Nonce : Same(m)
    BY <2>1 DEF Same
  <2> QED
    BY <2>4, <2>5, SameNonce DEF IInv
<1> QED
  BY <1>1, <1>2 DEF Queue

-----------------------------------------------------------------------------
(* The invariant, and what it says.                                          *)

\* Every step keeps the invariant.
LEMMA NextInv == IInv /\ [Next]_vars => IInv'
<1> SUFFICES ASSUME IInv, [Next]_vars PROVE IInv'
  OBVIOUS
<1>1. CASE UNCHANGED vars
  <2>1. UNCHANGED <<target, task, worker, approval, marker, receipts, tombstone, journal, hold, seen, browser, done,
                    k, pc, active, cancelled, proxy, mishaps, started, proven, closed, confirmed, edited, late>>
    BY <1>1 DEF vars, durable, held, service, thread, person
  <2>2. TypeOK'
    BY <2>1 DEF IInv, TypeOK, RowsOK, ProcessOK, ServiceOK, ThreadOK
  <2>3. \A m \in Nonce : Same(m)
    BY <2>1 DEF Same
  <2> QED
    BY <2>2, <2>3, SameNonce DEF IInv
<1>2. CASE ServiceRestarts
  BY <1>2, ServiceSteps
<1>3. CASE Queue
  BY <1>3, QueueStep
<1>4. ASSUME NEW n \in Nonce, Open(n) \/ Cancel(n) \/ Receipt(n) \/ ChildDies(n) \/ BrowserDies(n)
      PROVE  IInv'
  BY <1>4, OpenStep, ServiceSteps, ChildDiesStep, BrowserDiesStep
<1>5. ASSUME NEW n \in Nonce, \/ ApproveFill(n) \/ ReviewResume(n) \/ BeginHumanReview(n) \/ Submits(n)
                              \/ SubmitsAgain(n) \/ DialogOpens(n) \/ BeginLaunch(n) \/ CheckNative(n) \/ Discover(n)
                              \/ Seal(n) \/ Fence(n) \/ ShowCaptcha(n) \/ Present(n) \/ CheckForward(n)
      PROVE  IInv'
  BY <1>5, MoveSteps
<1>6. ASSUME NEW n \in Nonce, Edits(n) \/ DialogCloses(n) \/ Launch(n) \/ Offer(n) \/ Consume(n)
      PROVE  IInv'
  BY <1>6, PersonSteps, LaunchSteps, ConsumeStep
<1>7. ASSUME NEW n \in Nonce, \/ OpenJournal(n) \/ Complete(n) \/ ApproveResume(n) \/ BeforeField(n) \/ AfterField(n)
                              \/ Select(n) \/ Stage(n) \/ Record(n) \/ Uploaded(n) \/ TakeSlot(n) \/ RecordSend(n)
      PROVE  IInv'
  BY <1>7, PlainEntry, FieldEntry, StageEntry, RecordEntry, UploadEntry, SlotEntry
<1>8. ASSUME NEW n \in Nonce, \/ Write(n) \/ Post(n) \/ Forward(n) \/ Finish(n) \/ Fail(n) \/ CloseBrowser(n)
                              \/ Settle(n)
      PROVE  IInv'
  BY <1>8, EffectSteps, FinishStep, FailStep, CloseBrowserStep, SettleStep
<1> QED
  BY <1>1, <1>2, <1>3, <1>4, <1>5, <1>6, <1>7, <1>8 DEF Next, OwnerThread

\* The inductive invariant of the preparation sessions.
THEOREM Invariance == Spec => []IInv
BY InitInv, NextInv, PTL DEF Spec

\* Every reachable state has the shape that the rows, the pipes and the thread
\* have in the code.
THEOREM Typing == Spec => []TypeOK
<1>1. IInv => TypeOK
  BY DEF IInv
<1> QED
  BY <1>1, Invariance, PTL

\* A session is called closed, and the next one opens, only when its browser is
\* gone and no barrier of it is left (shutdown's receipt).
THEOREM ClosedForGood == Spec => []ClosedIsSettled
<1>1. IInv => ClosedIsSettled
  BY DEF IInv, NonceInv, Life, ClosedIsSettled
<1> QED
  BY <1>1, Invariance, PTL

\* At most the one primitive that had passed its fence reaches the website
\* after the session was revoked.
THEOREM LateEffects == Spec => []OneLateEffect
<1>1. IInv => OneLateEffect
  BY DEF IInv, NonceInv, Consent, OneLateEffect
<1> QED
  BY <1>1, Invariance, PTL

\* What the three journals call prepared, uploaded or sent has happened, once,
\* and no effect happened without its durable intent.
THEOREM TrueJournals == Spec => []JournalsTellTheTruth
<1>1. ASSUME IInv, NEW n \in Nonce
      PROVE  LET j == journal[n]
             IN /\ \A f \in Range(Plan) :
                     /\ done[n][f] > 0 => j.field[f] # "none"
                     /\ j.field[f] = "READBACK" \/ approval[n].outcome = "PREPARED" => done[n][f] = 1
                /\ \A i \in DOMAIN STAGES :
                     /\ done[n][STAGES[i]] > 0 => j.stage[STAGES[i]] # "none" /\ j.selected
                     /\ j.stage[STAGES[i]] = "RETURNED" \/ j.upload = "RETURNED" => done[n][STAGES[i]] = 1
                /\ done[n]["final"] > 0 => j.final # "none"
                /\ j.final = "RETURNED" => done[n]["final"] = 1
  <2>1. Truth(n)
    BY <1>1 DEF IInv, NonceInv
  <2>2. \A i \in DOMAIN STAGES : STAGES[i] \in Range(STAGES)
    BY Names
  <2> QED
    BY <2>1, <2>2 DEF Truth
<1>2. IInv => JournalsTellTheTruth
  BY <1>1 DEF JournalsTellTheTruth
<1> QED
  BY <1>2, Invariance, PTL

\* The final request is sent only after a person confirmed it, with the form as
\* it was, the fields prepared and the resume, if there is one, uploaded.
THEOREM ConfirmedSend == Spec => []SendIsConfirmed
<1>1. IInv => SendIsConfirmed
  <2> SUFFICES ASSUME IInv, NEW n \in Nonce, done[n]["final"] > 0
               PROVE  /\ confirmed[n] /\ edited[n] # "before"
                      /\ \A f \in Range(Plan) : done[n][f] = 1
                      /\ HasResume => \A s \in Range(STAGES) : done[n][s] = 1
    BY DEF SendIsConfirmed
  <2>1. Truth(n) /\ Consent(n)
    BY DEF IInv, NonceInv
  <2>2. journal[n].final # "none"
    BY <2>1 DEF Truth
  <2> QED
    BY <2>1, <2>2 DEF Truth, Consent
<1> QED
  BY <1>1, Invariance, PTL

-----------------------------------------------------------------------------
(* The sessions keep the promise of OneShotApproval.                         *)

\* A step that the promise does not see.
Quiet ==
  /\ UNCHANGED <<target, worker, done>>
  /\ \A m \in Nonce : Phase(m)' = Phase(m) /\ (browser'[m] = "alive" <=> browser[m] = "alive")

\* The browser of an approval is the only one that changes.
Turns(n) == \A m \in Nonce \ {n} : browser'[m] = browser[m]

\* Only the phase of one approval changes.
Moves(n) == \A m \in Nonce \ {n} : Phase(m)' = Phase(m)

\* What the promise does not see is a stutter.
LEMMA QuietStep == Quiet => UNCHANGED Promise!vars
BY DEF Quiet, Promise!vars

\* What an approval is in follows from the marker, its row and its receipts.
LEMMA SamePhase ==
  ASSUME NEW m \in Nonce, marker' = m <=> marker = m, OpenRow(m)' <=> OpenRow(m),
         approval'[m].outcome # "none" <=> approval[m].outcome # "none",
         m \in tombstone' \cup receipts' <=> m \in tombstone \cup receipts
  PROVE  Phase(m)' = Phase(m)
BY DEF Phase

\* A browser starts for an approval that is not used.
LEMMA LaunchImplements ==
  ASSUME IInv, NEW n \in Nonce, pc[n] = "launching", UNCHANGED <<target, worker, done>>,
         \A m \in Nonce : Phase(m)' = Phase(m), browser' = [browser EXCEPT ![n] = "alive"]
  PROVE  Promise!Next
<1>1. Phase(n) = "unused" /\ browser[n] # "alive"
  BY DEF IInv, NonceInv, Life, PRE, Used, Phase, OpenRow
<1>2. browser'[n] = "alive" /\ \A m \in Nonce \ {n} : browser'[m] = browser[m]
  BY DEF IInv, TypeOK, ProcessOK
<1>3. Promise!Launch(n)
  BY <1>1, <1>2 DEF Promise!Launch
<1> QED
  BY <1>3 DEF Promise!Next

\* A browser goes away.
LEMMA DieImplements ==
  ASSUME IInv, NEW n \in Nonce, browser[n] = "alive", UNCHANGED <<target, worker, done>>,
         \A m \in Nonce : Phase(m)' = Phase(m), browser' = [browser EXCEPT ![n] = "gone"]
  PROVE  Promise!Next
<1>1. browser'[n] = "gone" /\ \A m \in Nonce \ {n} : browser'[m] = browser[m]
  BY DEF IInv, TypeOK, ProcessOK
<1>2. Promise!Die(n)
  BY <1>1 DEF Promise!Die
<1> QED
  BY <1>2 DEF Promise!Next

\* An approval is given up when its browser is gone.
LEMMA ReleaseImplements ==
  ASSUME IInv, NEW n \in Nonce, Phase(n) = "admitted", Phase(n)' = "spent", Moves(n), browser[n] # "alive",
         UNCHANGED <<target, worker, done, browser>>
  PROVE  Promise!Next
<1>1. Promise!Release(n)
  BY DEF Promise!Release, Moves
<1> QED
  BY <1>1 DEF Promise!Next

\* An approval is admitted when its marker is there: alone, for a form that no
\* approval has typed into.
LEMMA ConsumeImplements ==
  ASSUME IInv, NEW n \in Nonce, Consume(n)
  PROVE  Promise!Next \/ UNCHANGED Promise!vars
<1>1. /\ UNCHANGED <<target, worker, receipts, tombstone, browser, done>>
      /\ \A m \in Nonce \ {n} : approval'[m] = approval[m]
      /\ approval'[n].context_closed = approval[n].context_closed
  <2>1. ConsumeRow(n) => /\ \A m \in Nonce \ {n} : approval'[m] = approval[m]
                         /\ approval'[n].context_closed = approval[n].context_closed
    BY DEF ConsumeRow, IInv, TypeOK, RowsOK
  <2> QED
    BY <2>1 DEF Consume, Outside
<1>2. ~Used(n) /\ Phase(n) = "unused" /\ n \notin receipts \cup tombstone
  BY DEF IInv, NonceInv, Life, PRE, Used, Phase, OpenRow, Consume
<1>3. CASE Alive(n) /\ Owned(n) /\ Admissible(n)
  <2>1. marker' = n /\ marker = NoNonce
    BY <1>3 DEF Consume, ConsumeMarker, Admissible
  <2>2. \A m \in Nonce : Phase(m) # "admitted"
    BY <1>3, <2>1, PlanAssumption DEF Admissible, Phase
  <2>3. Phase(n)' = "admitted"
    BY <2>1 DEF Phase
  <2>4. Moves(n)
    <3> SUFFICES ASSUME NEW m \in Nonce \ {n} PROVE Phase(m)' = Phase(m)
      BY DEF Moves
    <3>1. marker' # m /\ marker # m /\ approval'[m] = approval[m]
      BY <1>1, <2>1, PlanAssumption
    <3> QED
      BY <1>1, <3>1, SamePhase DEF OpenRow
  <2>5. ASSUME NEW m \in Nonce, target[m] = target[n], NEW e \in Effects PROVE done[m][e] = 0
    <3>1. \A f \in Range(Plan) : journal[m].field[f] = "none"
      BY <1>3, <2>5 DEF Admissible
    <3>2. Truth(m) /\ journal[m] \in Entry
      BY DEF IInv, NonceInv, TypeOK, RowsOK
    <3>3. \A f \in Range(Plan) : done[m][f] = 0
      BY <3>1, <3>2 DEF Truth
    <3>4. Plan[1] \in Range(Plan)
      BY Names
    <3>5. ~journal[m].selected /\ journal[m].final = "none"
      BY <3>2, <3>3, <3>4 DEF Truth
    <3>6. \A s \in Range(STAGES) : done[m][s] = 0
      BY <3>2, <3>5 DEF Truth
    <3>7. done[m]["final"] = 0
      BY <3>2, <3>5 DEF Truth
    <3> QED
      BY <3>3, <3>6, <3>7 DEF Effects
  <2>6. ~worker
    BY <1>3 DEF Admissible
  <2>7. Promise!Admit(n)
    BY <1>1, <1>2, <2>2, <2>3, <2>4, <2>5, <2>6 DEF Promise!Admit, Moves
  <2> QED
    BY <2>7 DEF Promise!Next
<1>4. CASE ~(Alive(n) /\ Owned(n) /\ Admissible(n))
  <2>1. UNCHANGED <<marker, approval>>
    BY <1>4 DEF Consume
  <2>2. \A m \in Nonce : Phase(m)' = Phase(m)
    BY <1>1, <2>1 DEF Phase, OpenRow
  <2> QED
    BY <1>1, <2>2, QuietStep DEF Quiet
<1> QED
  BY <1>3, <1>4

\* What reaches the website is an effect of an admitted approval whose browser
\* runs, and the first of its name.
LEMMA EffectImplements ==
  ASSUME IInv, NEW n \in Nonce, Write(n) \/ Post(n) \/ Forward(n)
  PROVE  Promise!Next
<1>1. NonceInv(n) /\ done \in [Nonce -> [Effects -> 0..1]]
  BY DEF IInv, TypeOK, ProcessOK
<1>2. PICK here \in {"write", "post", "forward"}, there \in {"readback", "record", "sent"}, e \in Effects :
        Happens(n, here, there, e) /\ done[n][e] = 0
  <2>1. CASE Write(n)
    <3>1. Happens(n, "write", "readback", Plan[k[n]]) /\ Plan[k[n]] \in Effects /\ done[n][Plan[k[n]]] = 0
      BY <1>1, <2>1, Names DEF Write, Happens, NonceInv, Place
    <3> QED
      BY <3>1
  <2>2. CASE Post(n)
    <3>1. Happens(n, "post", "record", STAGES[k[n]]) /\ STAGES[k[n]] \in Effects /\ done[n][STAGES[k[n]]] = 0
      BY <1>1, <2>2, Names DEF Post, Happens, NonceInv, Place
    <3> QED
      BY <3>1
  <2>3. CASE Forward(n)
    <3>1. Happens(n, "forward", "sent", "final") /\ "final" \in Effects /\ done[n]["final"] = 0
      BY <1>1, <2>3, Names DEF Forward, Happens, NonceInv, Place
    <3> QED
      BY <3>1
  <2> QED
    BY <2>1, <2>2, <2>3
<1>3. /\ UNCHANGED <<target, worker, marker, approval, receipts, tombstone, browser>>
      /\ pc[n] = here /\ browser[n] = "alive" /\ done' = [done EXCEPT ![n][e] = 1]
  <2>1. done' = [done EXCEPT ![n][e] = done[n][e] + 1]
    BY <1>2 DEF Happens
  <2> QED
    BY <1>2, <2>1 DEF Happens, durable, Owned
<1>4. Phase(n) = "admitted"
  BY <1>1, <1>2, <1>3 DEF NonceInv, Life, Phase, AFTER, FieldSteps, UploadSteps, HumanSteps
<1>5. \A m \in Nonce : Phase(m)' = Phase(m)
  BY <1>3 DEF Phase, OpenRow
<1>6. Promise!Happen(n, e)
  BY <1>2, <1>3, <1>4, <1>5 DEF Promise!Happen
<1> QED
  BY <1>6 DEF Promise!Next

\* Rows that are closed with the marker give the approval up.
LEMMA ClosedPhase ==
  ASSUME IInv, NEW n \in Nonce, CloseRows(n), ClearMarker(n) \/ (marker # n /\ UNCHANGED <<marker, receipts>>),
         tombstone' = tombstone
  PROVE  Phase(n)' = "spent" /\ Moves(n)
<1>1. /\ approval'[n].outcome = "UNKNOWN" /\ approval'[n].context_closed
      /\ \A m \in Nonce \ {n} : approval'[m] = approval[m]
  BY DEF CloseRows, IInv, TypeOK, RowsOK
<1>2. marker' # n /\ \A m \in Nonce \ {n} : marker' = m <=> marker = m
  BY PlanAssumption DEF ClearMarker
<1>3. \A m \in Nonce \ {n} : m \in tombstone' \cup receipts' <=> m \in tombstone \cup receipts
  BY DEF ClearMarker
<1>4. Phase(n)' = "spent"
  BY <1>1, <1>2 DEF Phase, OpenRow
<1>5. ASSUME NEW m \in Nonce \ {n} PROVE Phase(m)' = Phase(m)
  BY <1>1, <1>2, <1>3, <1>5, SamePhase DEF OpenRow
<1> QED
  BY <1>4, <1>5 DEF Moves

\* An outcome that is reported of an open row leaves it open.
LEMMA ReportQuiet ==
  ASSUME IInv, NEW n \in Nonce, NEW outcome, FinishOpen(n, outcome), outcome \in {"PREPARED", "UNKNOWN"},
         UNCHANGED <<target, worker, browser, done>>
  PROVE  Quiet
<1>1. /\ UNCHANGED <<marker, receipts, tombstone>> /\ OpenRow(n) /\ OpenRow(n)'
      /\ \A m \in Nonce \ {n} : approval'[m] = approval[m]
  BY DEF FinishOpen, OpenRow, IInv, TypeOK, RowsOK
<1>2. ASSUME NEW m \in Nonce PROVE Phase(m)' = Phase(m)
  BY <1>1 DEF Phase, OpenRow
<1> QED
  BY <1>2 DEF Quiet

\* The thread settles: the approval is given up with its rows, or stays.
LEMMA SettleImplements ==
  ASSUME IInv, NEW n \in Nonce, Settle(n)
  PROVE  Promise!Next \/ UNCHANGED Promise!vars
<1>1. UNCHANGED <<target, worker, browser, done>> /\ pc[n] = "settle"
  BY DEF Settle
<1>2. CASE proven[n] /\ FinishClosed(n)
  <2>1. browser[n] # "alive" /\ OpenRow(n) /\ tombstone' = tombstone /\ marker = n
    BY <1>2 DEF IInv, NonceInv, Life, FinishClosed, ClearMarker, ClearMarkerFails
  <2>2. CASE ClearMarker(n) /\ CloseRows(n)
    <3>1. Phase(n) = "admitted"
      BY <2>1 DEF Phase
    <3> QED
      BY <1>1, <2>1, <2>2, <3>1, ClosedPhase, ReleaseImplements
  <2>3. CASE /\ UNCHANGED <<approval, journal, task>>
             /\ ClearMarker(n) \/ ClearMarkerFails(n)
    <3>1. ASSUME NEW m \in Nonce PROVE Phase(m)' = Phase(m)
      <4>1. CASE m = n
        BY <2>1, <2>3, <4>1 DEF Phase, OpenRow
      <4>2. CASE m # n
        BY <2>1, <2>3, <4>2, PlanAssumption DEF Phase, OpenRow, ClearMarker, ClearMarkerFails
      <4> QED
        BY <4>1, <4>2
    <3> QED
      BY <1>1, <3>1, QuietStep DEF Quiet
  <2> QED
    BY <1>2, <2>2, <2>3 DEF FinishClosed
<1>3. CASE FinishOpen(n, "UNKNOWN")
  BY <1>1, <1>3, ReportQuiet, QuietStep
<1>4. CASE UNCHANGED <<approval, journal, task, marker, receipts, tombstone>>
  BY <1>1, <1>4, QuietStep DEF Quiet, Phase, OpenRow
<1> QED
  BY <1>2, <1>3, <1>4 DEF Settle

\* The workers of the queue, the reconciliation, and the user.
LEMMA QueueImplements ==
  ASSUME IInv, Queue
  PROVE  Promise!Next \/ UNCHANGED Promise!vars
<1>1. CASE WorkerClaims
  <2>1. UNCHANGED <<target, marker, approval, receipts, tombstone, browser, done>> /\ ~worker /\ worker' = TRUE
    BY <1>1 DEF WorkerClaims
  <2>2. \A m \in Nonce : Phase(m)' = Phase(m) /\ Phase(m) # "admitted"
    BY <1>1, <2>1, PlanAssumption DEF WorkerClaims, PreparationInFlight, Phase, OpenRow
  <2>3. Promise!WorkerStarts
    BY <2>1, <2>2 DEF Promise!WorkerStarts
  <2> QED
    BY <2>3 DEF Promise!Next
<1>2. CASE WorkerReturns
  <2>1. UNCHANGED <<target, marker, approval, receipts, tombstone, browser, done>> /\ worker /\ worker' = FALSE
    BY <1>2 DEF WorkerReturns
  <2>2. \A m \in Nonce : Phase(m)' = Phase(m)
    BY <2>1 DEF Phase, OpenRow
  <2>3. Promise!WorkerStops
    BY <2>1, <2>2 DEF Promise!WorkerStops
  <2> QED
    BY <2>3 DEF Promise!Next
<1>3. CASE \E n \in Nonce : TaskChanges(target[n])
  BY <1>3, QuietStep DEF TaskChanges, Quiet, Phase, OpenRow
<1>4. CASE \E n \in Nonce : ReconcileClosedContext(n)
  <2>1. PICK n \in Nonce : ReconcileClosedContext(n)
    BY <1>4
  <2>2. UNCHANGED <<target, worker, browser, done>> /\ browser[n] # "alive"
    BY <2>1 DEF ReconcileClosedContext, Absent
  <2>3. CASE OpenRow(n) /\ marker \in {n, NoNonce} /\ CloseRows(n) /\ UNCHANGED tombstone
    <3>1. Phase(n) = "admitted"
      BY <2>3 DEF Phase
    <3>2. ClearMarker(n) \/ (marker # n /\ UNCHANGED <<marker, receipts>>)
      BY <2>1 DEF ReconcileClosedContext
    <3> QED
      BY <2>2, <2>3, <3>1, <3>2, ClosedPhase, ReleaseImplements
  <2>4. CASE /\ approval[n].outcome = "none" /\ marker = n
             /\ tombstone' = tombstone \cup {n}
             /\ UNCHANGED <<approval, journal, task>>
    <3>1. marker' = NoNonce /\ receipts' = receipts \cup {n}
      BY <2>1, <2>4 DEF ReconcileClosedContext, ClearMarker
    <3>2. Phase(n) = "admitted" /\ Phase(n)' = "spent"
      BY <2>4, <3>1, PlanAssumption DEF Phase, OpenRow
    <3>3. ASSUME NEW m \in Nonce \ {n} PROVE Phase(m)' = Phase(m)
      BY <2>4, <3>1, <3>3, PlanAssumption DEF Phase, OpenRow
    <3> QED
      BY <2>2, <3>2, <3>3, ReleaseImplements DEF Moves
  <2> QED
    BY <2>1, <2>3, <2>4 DEF ReconcileClosedContext
<1> QED
  BY <1>1, <1>2, <1>3, <1>4 DEF Queue

\* The steps of the service, the person and the thread that touch neither the
\* barriers, nor the browser, nor the website.
LEMMA QuietSteps ==
  ASSUME NEW n \in Nonce,
         \/ Open(n) \/ Cancel(n) \/ Receipt(n) \/ ApproveFill(n) \/ ReviewResume(n) \/ BeginHumanReview(n) \/ Submits(n)
         \/ SubmitsAgain(n) \/ Edits(n) \/ DialogOpens(n) \/ DialogCloses(n) \/ BeginLaunch(n) \/ CheckNative(n)
         \/ Discover(n) \/ Seal(n) \/ Offer(n) \/ Fence(n) \/ ShowCaptcha(n) \/ Present(n) \/ CheckForward(n)
         \/ OpenJournal(n) \/ Complete(n) \/ ApproveResume(n) \/ BeforeField(n) \/ AfterField(n)
         \/ Select(n) \/ Stage(n) \/ Record(n) \/ Uploaded(n) \/ TakeSlot(n) \/ RecordSend(n) \/ ServiceRestarts
  PROVE  UNCHANGED Promise!vars
<1>1. UNCHANGED <<target, worker, marker, approval, receipts, tombstone, browser, done>>
  BY DEF Open, Cancel, Receipt, ApproveFill, ReviewResume, BeginHumanReview, Submits, SubmitsAgain, Edits, DialogOpens,
         DialogCloses, BeginLaunch, CheckNative, Discover, Seal, Offer, Fence, ShowCaptcha, Present, CheckForward,
         OpenJournal, Complete, ApproveResume, BeforeField, AfterField, Select, Stage, Record, Uploaded, TakeSlot,
         RecordSend, ServiceRestarts, Command, Person, Journals, Inside, Outside, durable
<1> QED
  BY <1>1, QuietStep DEF Quiet, Phase, OpenRow

\* Every step is one of the promise, or a stutter.
LEMMA NextImplements == IInv /\ [Next]_vars => [Promise!Next]_(Promise!vars)
<1> SUFFICES ASSUME IInv, [Next]_vars PROVE Promise!Next \/ UNCHANGED Promise!vars
  OBVIOUS
<1>1. CASE UNCHANGED vars
  <2>1. UNCHANGED <<target, worker, marker, approval, receipts, tombstone, browser, done>>
    BY <1>1 DEF vars, durable
  <2> QED
    BY <2>1, QuietStep DEF Quiet, Phase, OpenRow
<1>2. CASE ServiceRestarts
  <2>1. UNCHANGED <<target, worker, marker, approval, receipts, tombstone, browser, done>>
    BY <1>2 DEF ServiceRestarts, durable
  <2> QED
    BY <2>1, QuietStep DEF Quiet, Phase, OpenRow
<1>3. CASE Queue
  BY <1>3, QueueImplements
<1>4. ASSUME NEW n \in Nonce, Consume(n) \/ Write(n) \/ Post(n) \/ Forward(n) \/ Settle(n)
      PROVE  Promise!Next \/ UNCHANGED Promise!vars
  BY <1>4, ConsumeImplements, EffectImplements, SettleImplements
<1>5. ASSUME NEW n \in Nonce, Launch(n) \/ Fail(n) \/ ChildDies(n) \/ CloseBrowser(n) \/ BrowserDies(n)
      PROVE  Promise!Next \/ UNCHANGED Promise!vars
  <2>1. UNCHANGED <<target, worker, marker, approval, receipts, tombstone, done>>
    BY <1>5 DEF Launch, Fail, ChildDies, CloseBrowser, BrowserDies, Inside, Outside, durable
  <2>2. \A m \in Nonce : Phase(m)' = Phase(m)
    BY <2>1 DEF Phase, OpenRow
  <2>3. \/ UNCHANGED browser
        \/ pc[n] = "launching" /\ browser' = [browser EXCEPT ![n] = "alive"]
        \/ browser[n] = "alive" /\ browser' = [browser EXCEPT ![n] = "gone"]
    BY <1>5 DEF Launch, Fail, ChildDies, CloseBrowser, BrowserDies, IInv, TypeOK, ProcessOK
  <2> QED
    BY <2>1, <2>2, <2>3, QuietStep, LaunchImplements, DieImplements DEF Quiet
<1>6. ASSUME NEW n \in Nonce, Finish(n)
      PROVE  UNCHANGED Promise!vars
  <2>1. UNCHANGED <<target, worker, browser, done>> /\ \E o \in {"PREPARED", "UNKNOWN"} : FinishOpen(n, o)
    BY <1>6 DEF Finish
  <2> QED
    BY <2>1, ReportQuiet, QuietStep
<1>7. ASSUME NEW n \in Nonce,
             \/ Open(n) \/ Cancel(n) \/ Receipt(n) \/ ApproveFill(n) \/ ReviewResume(n) \/ BeginHumanReview(n)
             \/ Submits(n) \/ SubmitsAgain(n) \/ Edits(n) \/ DialogOpens(n) \/ DialogCloses(n) \/ BeginLaunch(n)
             \/ CheckNative(n) \/ Discover(n) \/ Seal(n) \/ Offer(n) \/ Fence(n) \/ ShowCaptcha(n) \/ Present(n)
             \/ CheckForward(n) \/ OpenJournal(n) \/ Complete(n) \/ ApproveResume(n) \/ BeforeField(n) \/ AfterField(n)
             \/ Select(n) \/ Stage(n) \/ Record(n) \/ Uploaded(n) \/ TakeSlot(n) \/ RecordSend(n)
      PROVE  UNCHANGED Promise!vars
  BY <1>7, QuietSteps
<1> QED
  BY <1>1, <1>2, <1>3, <1>4, <1>5, <1>6, <1>7 DEF Next, OwnerThread

\* Whatever crashes, and whichever of the marker, the transaction and the rename
\* of the marker was lost, an approval is used once and alone, for a fresh form,
\* and keeps every other preparation and every worker out until its browser is
\* gone (consume, finish, reconcile_closed_context, claim).
THEOREM Implementation == Spec => ImplementsOneShot
<1>1. Init => Promise!Init
  <2> SUFFICES ASSUME Init PROVE Promise!Init
    OBVIOUS
  <2>1. \A n \in Nonce : Phase(n) = "unused" /\ browser[n] # "alive"
    BY PlanAssumption DEF Init, AuthorityInit, Phase, OpenRow
  <2> QED
    BY <2>1 DEF Promise!Init, Init, AuthorityInit
<1> QED
  BY <1>1, NextImplements, Invariance, PTL DEF Spec, ImplementsOneShot, Promise!Spec
=============================================================================
