----------------------------- MODULE FormRunProofs -----------------------------
(***************************************************************************)
(* Proofs about ReviewDesk, and so about FormRun, for every form, every     *)
(* set of questions the profile cannot answer, and every bound on the runs, *)
(* on the revisions of the draft and on what goes wrong.                    *)
(*                                                                         *)
(* The argument.  A run that is under way has the only unsettled row of     *)
(* run_attempts, and a write of it that went astray is either under its     *)
(* readback, in a document that is not the recorded one and so refuses it,  *)
(* or has raised (RunInv): so a run that returns has nothing in doubt.  In  *)
(* the applicant's Chrome there is one run, and what it wrote is in the     *)
(* batches it planned, of pages that it left or is on (BatchInv, WriteInv). *)
(* A certificate says what its draft holds until the draft has another      *)
(* revision or identity (Certifies), and the profile it names is the one a  *)
(* task with a lease has (TaskInv).  In the applicant's Chrome nothing runs *)
(* after the one run: what a request of the local interface read of the     *)
(* cached certificate is about the certificate of the task (DeskInv).       *)
(* So each step is one that HumanReview allows, or one a person cannot tell  *)
(* from the task, the draft, the profile and what was typed (ByTask).       *)
(***************************************************************************)
EXTENDS ReviewDesk, FiniteSetTheorems, WellFoundedInduction, SequenceTheorems, TLAPS

\* The steps of a run that has its row of run_attempts, those up to the
\* certificate, and the steps after its checkpoint.
ACTIVE == {"open", "observe", "apply", "check", "write", "readback", "filled", "validate", "advance", "certify",
           "recheck", "report", "finish", "raised"}
FILLING == {"observe", "apply", "check", "write", "readback", "filled", "validate", "advance", "certify", "recheck"}
ENDED == {"idle", "finish", "remember", "raised", "blocking"}
\* A request that reviews the draft.
REVIEWING == {"document", "private", "lookup", "readback", "publish", "shown"}

RunInv ==
  /\ \E k \in 0..MaxRuns : Started = 1..k
  /\ w.pc \in ACTIVE =>
       /\ This \in Run /\ run[This] = "ATTEMPTED"
       /\ \A r \in Run \ {This} : run[r] \in {"none", "RETURNED"}
       /\ This \in stray /\ w.pc # "raised" => w.pc = "readback" /\ live /\ tab.document > binding
  /\ w.pc = "claimed" => \A r \in Run : run[r] \in {"none", "RETURNED"}
  /\ w.pc \in {"remember", "blocking"} => Started # {}
  /\ \A r \in Run : run[r] \in {"none", "RETURNED"} => r \notin stray
  /\ ReturnedIsObserved

BatchInv ==
  /\ w.pc \in {"check", "write", "readback"} => w.todo # {}
  /\ w.pc \in {"observe", "filled", "validate", "advance"} => w.todo = {}
  /\ w.todo \subseteq FieldsOf(w.page)
  /\ w.pc \in {"claimed", "open"} => w.planned = {}
  /\ w.pc \in FILLING => \A f \in w.planned : \E p \in 1..w.page : f \in FieldsOf(p) /\ (w.pc = "observe" => p < w.page)
  /\ w.pc = "advance" => w.page < Len(Form)
  /\ live => binding <= tab.document
  /\ live /\ w.pc \in {"write", "readback"} => w.document = binding

WriteInv ==
  live =>
    /\ Started = {} \/ w.pc = "open" => \A f \in Field : writes[f] = 0
    /\ w.pc \in FILLING => \A f \in Field \ w.planned : writes[f] = 0
    /\ w.pc \in {"apply", "check", "write"} => \A f \in w.todo : writes[f] = 0
    /\ w.pc = "readback" => \A f \in w.todo \ {Front} : writes[f] = 0

\* A certificate of a draft that has not changed since says what it holds.
Certifies(c) ==
  /\ c.id <= draft.id
  /\ c.id = draft.id => /\ draft.rev >= c.rev
                        /\ draft.rev = c.rev => Complete

TaskInv ==
  /\ profile.barred => ~task.leased /\ task.stage # "READY_TO_SUBMIT"
  /\ w.pc = "report" => w.verdict[1] # "none"
  /\ w.pc = "report" /\ w.verdict[1] = "READY_TO_SUBMIT" /\ task.leased => w.certificate.profile = profile.version
  /\ task.stage = "READY_TO_SUBMIT" => certified.profile = profile.version /\ w.pc \in ENDED /\ Started # {}
  /\ w.pc \in {"finish", "remember"} => certified = w.certificate
  /\ Certifies(certified) /\ Certifies(w.certificate) /\ Certifies(review)

DeskInv ==
  /\ live /\ review # NoCertificate => w.pc \in {"idle", "claimed"} /\ Started # {} /\ review = certified
  /\ live /\ handler.pc \in REVIEWING => w.pc \in ENDED \cup {"claimed"} /\ Started # {} /\ handler.pc # "private"
  /\ live /\ handler.pc \in {"publish", "shown"} /\ ~handler.moved =>
       /\ tab.ours /\ review.id = draft.id /\ review.rev = draft.rev
       /\ tab.document = review.document /\ Complete
  /\ live /\ handler.expects # 0 => w.pc \in {"idle", "claimed"} /\ Started # {} /\ handler.expects = certified.id
  /\ handler.proof => handler.pc = "record" /\ live /\ handler.expects # 0 /\ submitted.id = handler.expects
  /\ level = "server" => live /\ w.pc \in {"idle", "claimed"} /\ Started # {} /\ submitted # NoDraft
                         /\ submitted.id = certified.id

IInv == TypeOK /\ RunInv /\ BatchInv /\ WriteInv /\ TaskInv /\ DeskInv

-----------------------------------------------------------------------------
(* The runs and the form.                                                    *)

\* The runs are numbered, and This is the last one.
LEMMA Runs ==
  ASSUME RunInv
  PROVE  This \in 0..MaxRuns /\ Started = 1..This /\ (Started = {} <=> This = 0)
<1>1. PICK k \in 0..MaxRuns : Started = 1..k
  BY DEF RunInv
<1>2. k \in Nat /\ Cardinality(1..k) = k
  BY FS_Interval
<1>3. This = k
  BY <1>1, <1>2 DEF This
<1> QED
  BY <1>1, <1>2, <1>3

\* The pages of the form, and what Resting and NoHandler are.
LEMMA Pages ==
  /\ DOMAIN Form = 1..Len(Form) /\ Len(Form) \in Nat /\ 1 \in DOMAIN Form
  /\ \A p \in DOMAIN Form : FieldsOf(p) \subseteq Field
  /\ \A p, q \in DOMAIN Form : p # q => FieldsOf(p) \cap FieldsOf(q) = {}
  /\ File \in Field /\ Child \subseteq Field /\ Open \subseteq Field
  /\ NoDraft \in Revision /\ NoCertificate \in Review /\ NoHandler \in Request /\ Resting \in Memory
  /\ NoCertificate.id = 0 /\ NoDraft.id = 0
<1>1. Form \in Seq(Seq(Field)) /\ Form # <<>> /\ \A p, q \in DOMAIN Form : p # q => FieldsOf(p) \cap FieldsOf(q) = {}
  BY FormAssumption
<1>2. DOMAIN Form = 1..Len(Form) /\ Len(Form) \in Nat /\ 1 \in DOMAIN Form
  BY <1>1, EmptySeq, LenProperties
<1>3. \A p \in DOMAIN Form : FieldsOf(p) \subseteq Field
  BY DEF Field
<1>4. File \in Field /\ Child \subseteq Field /\ Open \subseteq Field
  BY FormAssumption
<1>5. NoDraft \in Revision /\ NoCertificate \in Review /\ NoHandler \in Request
      /\ NoCertificate.id = 0 /\ NoDraft.id = 0
  BY DEF NoDraft, Revision, NoCertificate, Review, NoHandler, Request
<1>6. Resting \in Memory
  BY <1>2, <1>5 DEF Resting, Memory, Stage, Blocker
<1> QED
  BY <1>1, <1>2, <1>3, <1>4, <1>5, <1>6

\* The control that comes next is one of the batch.
LEMMA FrontIsLeft ==
  ASSUME TypeOK, BatchInv, w.todo # {}
  PROVE  Front \in w.todo
<1>1. w.page \in DOMAIN Form /\ w.todo \subseteq FieldsOf(w.page)
  BY DEF TypeOK, MemoryOK, Memory, BatchInv
<1>2. PICK left : left = {i \in DOMAIN Form[w.page] : Form[w.page][i] \in w.todo}
  OBVIOUS
<1>3. Form[w.page] \in Seq(Field)
  BY <1>1, FormAssumption, ElementOfSeq, LenProperties
<1>4. left \subseteq Nat /\ left # {}
  <2>1. DOMAIN Form[w.page] \subseteq Nat
    BY <1>3, LenProperties
  <2>2. PICK f \in w.todo : TRUE
    OBVIOUS
  <2>3. PICK i \in DOMAIN Form[w.page] : Form[w.page][i] = f
    BY <1>1, <2>2 DEF FieldsOf
  <2> QED
    BY <1>2, <2>1, <2>2, <2>3
<1>5. PICK below \in [left -> SUBSET left] : \A i \in left : below[i] = {j \in left : j <= i}
  <2>1. PICK below : below = [i \in left |-> {j \in left : j <= i}]
    OBVIOUS
  <2> QED
    BY <2>1
<1>6. PICK x \in left : \A y \in left : x <= y
  <2>1. PICK downs : downs = {below[i] : i \in left}
    OBVIOUS
  <2>2. IsFiniteSet(left)
    BY <1>2, <1>3, LenProperties, FS_Interval, FS_Subset
  <2>3. downs \subseteq FiniteSubsetsOf(left) /\ downs # {}
    <3>1. ASSUME NEW i \in left PROVE below[i] \in FiniteSubsetsOf(left)
      <4>1. below[i] \in SUBSET left
        BY <1>5, <3>1
      <4>2. IsFiniteSet(below[i])
        BY <4>1, <2>2, FS_Subset
      <4> QED
        BY <4>1, <4>2 DEF FiniteSubsetsOf
    <3>2. PICK i \in left : TRUE
      BY <1>4
    <3>3. below[i] \in downs
      BY <2>1, <3>2
    <3> QED
      BY <2>1, <3>1, <3>3
  <2>4. PICK d \in downs : \A e \in downs : <<e, d>> \notin StrictSubsetOrdering(left)
    BY <2>3, WFMin, FS_StrictSubsetOrderingWellFounded
  <2>5. PICK x \in left : d = below[x]
    BY <2>1
  <2>6. ASSUME NEW y \in left, ~(x <= y) PROVE FALSE
    <3>1. below[y] \subseteq below[x] /\ x \in below[x] /\ x \notin below[y]
      BY <1>4, <1>5, <2>6
    <3>2. below[y] \in downs /\ below[y] \in SUBSET left /\ below[x] \in SUBSET left
      BY <1>5, <2>1
    <3>3. <<below[y], below[x]>> \in StrictSubsetOrdering(left)
      BY <3>1, <3>2 DEF StrictSubsetOrdering
    <3> QED
      BY <2>4, <2>5, <3>2, <3>3
  <2> QED
    BY <2>6
<1>7. PICK c : c = CHOOSE i \in left : \A j \in left : i <= j
  OBVIOUS
<1>8. c \in left
  BY <1>6, <1>7
<1>9. Front = Form[w.page][c]
  BY <1>2, <1>7 DEF Front
<1> QED
  BY <1>2, <1>8, <1>9

-----------------------------------------------------------------------------
(* Frames.                                                                   *)

\* What is not a step of the run leaves the run, its journals and its binding.
Aside ==
  /\ UNCHANGED <<live, run, action, binding, w, ghosts>>
  /\ tab'.document \in Nat /\ tab'.document >= tab.document

\* Such a step keeps what is known of the run and of its batches.
LEMMA AsideStep ==
  ASSUME TypeOK, RunInv, BatchInv, WriteInv, Aside
  PROVE  RunInv' /\ BatchInv' /\ WriteInv'
<1>1. tab.document \in Nat /\ binding \in Nat
  BY DEF TypeOK, SiteOK
<1>2. Started' = Started /\ This' = This /\ Front' = Front
  BY DEF Aside, Started, This, Front, ghosts
<1>3. RunInv'
  BY <1>1, <1>2 DEF Aside, RunInv, ReturnedIsObserved, ghosts
<1>4. BatchInv'
  BY <1>1 DEF Aside, BatchInv, FieldsOf
<1>5. WriteInv'
  BY <1>2 DEF Aside, WriteInv, ghosts
<1> QED
  BY <1>3, <1>4, <1>5

\* A step of the run between its row and its checkpoint.
Steps ==
  /\ w.pc \in ACTIVE /\ w'.pc \in ACTIVE \cup {"remember", "blocking"}
  /\ UNCHANGED <<live, run>>
  /\ w' \in Memory
  /\ \A r \in Run \ {This} : action'[r] = action[r]
  /\ stray' \subseteq stray \cup {This}
  /\ This \in stray' => \/ w'.pc = "raised"
                        \/ w'.pc = "readback" /\ live /\ tab'.document > binding'

\* Such a step leaves the earlier runs as they are.
LEMMA StepsRun ==
  ASSUME TypeOK, RunInv, Steps, w'.pc \in ACTIVE
  PROVE  RunInv' /\ Started' = Started /\ This' = This /\ Started # {} /\ This \in Run
<1>1. Started' = Started /\ This' = This
  BY DEF Steps, Started, This
<1>2. This \in Run /\ run[This] = "ATTEMPTED" /\ \A r \in Run \ {This} : run[r] \in {"none", "RETURNED"}
  BY DEF RunInv, Steps
<1>3. Started # {}
  BY <1>2 DEF Started
<1>4. w'.pc # "claimed"
  BY DEF ACTIVE
<1>5. \A r \in Run : run[r] \in {"none", "RETURNED"} => r # This /\ r \notin stray'
  BY <1>2 DEF RunInv, Steps
<1>6. ReturnedIsObserved'
  BY <1>2, <1>5 DEF ReturnedIsObserved, RunInv, Steps
<1>7. \E k \in 0..MaxRuns : Started' = 1..k
  BY <1>1 DEF RunInv
<1>8. w'.pc \in {"remember", "blocking"} => Started' # {}
  BY <1>1, <1>3
<1>9. w'.pc \in ACTIVE =>
       /\ This' \in Run /\ run'[This'] = "ATTEMPTED"
       /\ \A r \in Run \ {This'} : run'[r] \in {"none", "RETURNED"}
       /\ This' \in stray' /\ w'.pc # "raised" => w'.pc = "readback" /\ live' /\ tab'.document > binding'
  BY <1>1, <1>2 DEF Steps
<1>10. \A r \in Run : run'[r] \in {"none", "RETURNED"} => r \notin stray'
  BY <1>5 DEF Steps
<1> QED
  BY <1>1, <1>2, <1>3, <1>4, <1>6, <1>7, <1>8, <1>9, <1>10 DEF RunInv

\* What a draft holds is what its certificate says, until it changes.
Later == draft' = draft \/ (draft'.id = draft.id /\ draft'.rev > draft.rev) \/ draft'.id > draft.id

\* A draft that changed has a revision or an identity the certificate does not name.
LEMMA CertificateHolds ==
  ASSUME TypeOK, TypeOK', Later, NEW c \in Review, Certifies(c)
  PROVE  Certifies(c)'
<1>1. draft.id \in Nat /\ draft'.id \in Nat /\ draft.rev \in Nat /\ draft'.rev \in Nat /\ c.id \in Nat /\ c.rev \in Nat
  BY DEF TypeOK, SiteOK, Review
<1>2. CASE draft' = draft
  BY <1>2 DEF Certifies, Complete
<1>3. CASE draft'.id = draft.id /\ draft'.rev > draft.rev
  BY <1>1, <1>3 DEF Certifies
<1>4. CASE draft'.id > draft.id
  BY <1>1, <1>4 DEF Certifies
<1> QED
  BY <1>2, <1>3, <1>4 DEF Later

\* While the run is under way in the applicant's Chrome no request is in
\* flight that rests on a certificate.
LEMMA DeskWhileRunning ==
  ASSUME DeskInv, w.pc \notin ENDED \cup {"claimed"}, UNCHANGED <<live, desk>>
  PROVE  DeskInv'
<1>1. w.pc \notin {"idle", "claimed"} /\ w.pc \notin ENDED \cup {"claimed"}
  BY DEF ENDED
<1>2. live => /\ review = NoCertificate /\ handler.pc \notin REVIEWING
              /\ handler.expects = 0 /\ level # "server" /\ ~handler.proof
  BY <1>1 DEF DeskInv
<1>3. UNCHANGED <<live, review, handler, submitted, level>>
  BY DEF desk
<1>4. handler.pc \in {"publish", "shown"} => handler.pc \in REVIEWING
  BY DEF REVIEWING
<1>5. CASE live
  BY <1>2, <1>3, <1>4, <1>5 DEF DeskInv
<1>6. CASE ~live
  <2>1. ~live' /\ ~handler'.proof /\ level' # "server"
    BY <1>3, <1>6 DEF DeskInv
  <2> QED
    BY <2>1 DEF DeskInv
<1> QED
  BY <1>5, <1>6

\* After it, a step of the worker stays where the request can be answered.
LEMMA DeskWhileEnding ==
  ASSUME DeskInv, UNCHANGED <<live, desk, tab, dom, draft, certified>>,
         live /\ Started # {} => /\ Started' # {}
                                 /\ w.pc \in ENDED \cup {"claimed"} => w'.pc \in ENDED \cup {"claimed"}
                                 /\ w.pc \in {"idle", "claimed"} => w'.pc \in {"idle", "claimed"}
  PROVE  DeskInv'
<1>1. Complete' = Complete
  BY DEF Complete
<1> QED
  BY <1>1 DEF DeskInv, desk

\* Before the checkpoint the task is not READY, and a step changes neither the
\* profile nor the last certificate.
LEMMA TaskWhileRunning ==
  ASSUME TypeOK, TypeOK', TaskInv, w.pc \notin ENDED, UNCHANGED <<profile, review, certified>>, Later,
         task'.leased => task.leased, task' = task \/ task'.stage # "READY_TO_SUBMIT",
         w'.certificate = w.certificate \/ Certifies(w.certificate)',
         w'.pc = "report" => w'.verdict[1] # "none",
         w'.pc = "report" /\ w'.verdict[1] = "READY_TO_SUBMIT" /\ task'.leased
           => w'.certificate.profile = profile.version,
         w'.pc \notin {"finish", "remember"}
  PROVE  TaskInv'
<1>1. review \in Review /\ certified \in Review /\ w.certificate \in Review
  BY DEF TypeOK, DurableOK, MemoryOK, Memory
<1>2. task.stage # "READY_TO_SUBMIT"
  BY DEF TaskInv
<1>3. task'.stage # "READY_TO_SUBMIT"
  BY <1>2
<1>4. Certifies(certified) /\ Certifies(review) /\ Certifies(w.certificate)
  BY DEF TaskInv
<1>5. Certifies(certified)' /\ Certifies(review)'
  <2>1. Certifies(certified)'
    BY <1>1, <1>4, CertificateHolds DEF Certifies, Complete
  <2> QED
    BY <2>1, <1>1, <1>4, CertificateHolds DEF Certifies, Complete
<1>6. Certifies(w.certificate)'
  <2>1. CASE w'.certificate = w.certificate
    <3>1. PICK c \in Review : c = w.certificate
      BY <1>1
    <3>2. Certifies(c) /\ c = w'.certificate
      BY <1>4, <2>1, <3>1
    <3>3. Certifies(c)'
      BY <3>2, CertificateHolds
    <3> QED
      BY <3>2, <3>3 DEF Certifies, Complete
  <2>2. CASE Certifies(w.certificate)'
    BY <2>2 DEF Certifies, Complete
  <2> QED
    BY <2>1, <2>2
<1> QED
  BY <1>3, <1>5, <1>6 DEF TaskInv

\* A step that raises, whatever its primitive did to the page.
Raised ==
  /\ w.pc \in ACTIVE \ ENDED
  /\ w'.pc = "raised" /\ \E why \in Blocker : Raise(why)
  /\ UNCHANGED <<live, task, current, run, manifest, certified, profile, known, binding, tab, desk>>
  /\ SiteOK' /\ Later
  /\ action' \in [Run -> [Field -> {"none", "ATTEMPTED", "READBACK", "UNKNOWN"}]]
  /\ \A r \in Run \ {This} : action'[r] = action[r]
  /\ stray' \subseteq stray \cup {This}

\* A run that raises blocks nothing yet: its row stays unsettled.
LEMMA RaisedStep ==
  ASSUME IInv, Raised
  PROVE  IInv'
<1>1. w \in Memory /\ w.retained \cup w.todo \subseteq w.planned
  BY DEF IInv, TypeOK, MemoryOK
<1>2. PICK why \in Blocker : w' = [w EXCEPT !.pc = "raised", !.verdict = <<"BLOCKED", why>>]
  BY DEF Raised, Raise
<1>3. w' \in Memory
  <2>1. <<"BLOCKED", why>> \in Stage \X Blocker
    BY DEF Stage
  <2> QED
    BY <1>1, <1>2, <2>1 DEF Memory
<1>4. /\ w'.pc = "raised" /\ w'.page = w.page /\ w'.todo = w.todo /\ w'.retained = w.retained /\ w'.planned = w.planned
      /\ w'.certificate = w.certificate
  BY <1>1, <1>2 DEF Memory
<1>5. TypeOK'
  <2>1. MemoryOK'
    BY <1>1, <1>3, <1>4 DEF IInv, TypeOK, MemoryOK, Raised, desk
  <2>2. DurableOK'
    BY DEF IInv, TypeOK, DurableOK, Raised
  <2> QED
    BY <2>1, <2>2 DEF TypeOK, Raised
<1>6. Steps /\ w'.pc \in ACTIVE
  BY <1>3, <1>4 DEF Steps, Raised, ACTIVE
<1>7. RunInv' /\ Started' # {}
  BY <1>6, StepsRun DEF IInv
<1>8. BatchInv'
  <2>1. w'.todo \subseteq FieldsOf(w'.page)
    BY <1>4 DEF IInv, BatchInv
  <2>2. live' => binding' <= tab'.document
    BY DEF IInv, BatchInv, Raised
  <2> QED
    BY <1>4, <2>1, <2>2 DEF BatchInv, FILLING, FieldsOf
<1>9. WriteInv'
  BY <1>4, <1>7 DEF WriteInv, FILLING
<1>10. TaskInv'
  <2>1. w.pc \notin ENDED /\ UNCHANGED <<profile, review, certified, task>> /\ Later
    BY DEF Raised, desk
  <2>2. w'.pc \notin {"finish", "remember", "report"}
    BY <1>4
  <2> QED
    BY <1>4, <1>5, <2>1, <2>2, TaskWhileRunning DEF IInv
<1>11. DeskInv'
  <2>1. w.pc \notin ENDED \cup {"claimed"} /\ UNCHANGED <<live, desk>>
    BY DEF Raised, ACTIVE
  <2> QED
    BY <2>1, DeskWhileRunning DEF IInv
<1> QED
  BY <1>5, <1>7, <1>8, <1>9, <1>10, <1>11 DEF IInv

\* A step of the run that goes on, or comes to its report.
Fills ==
  /\ w.pc \in FILLING \cup {"open"} /\ w'.pc \in FILLING \cup {"report"}
  /\ UNCHANGED <<live, run, certified, profile, desk>>
  /\ TypeOK' /\ Later
  /\ task'.leased => task.leased
  /\ task' = task \/ task'.stage # "READY_TO_SUBMIT"
  /\ \A r \in Run \ {This} : action'[r] = action[r]
  /\ stray' \subseteq stray \cup {This}
  /\ This \in stray' => w'.pc = "readback" /\ live /\ tab'.document > binding'
  /\ w'.certificate = w.certificate \/ Certifies(w.certificate)'
  /\ w'.pc = "report" => w'.verdict[1] # "none"
  /\ w'.pc = "report" /\ w'.verdict[1] = "READY_TO_SUBMIT" /\ task'.leased
       => w'.certificate.profile = profile.version

\* The batches supplied, a step of the run that goes on keeps the rest.
LEMMA FillsStep ==
  ASSUME IInv, Fills, BatchInv', WriteInv'
  PROVE  IInv'
<1>1. TypeOK' /\ w' \in Memory
  BY DEF Fills, TypeOK, MemoryOK
<1>2. w.pc \in ACTIVE /\ w'.pc \in ACTIVE /\ w.pc \notin ENDED /\ w.pc # "claimed" /\ w'.pc \notin {"finish", "remember"}
  BY DEF Fills, FILLING, ACTIVE, ENDED
<1>3. Steps
  BY <1>1, <1>2 DEF Steps, Fills
<1>4. RunInv'
  BY <1>2, <1>3, StepsRun DEF IInv
<1>5. TaskInv'
  <2>1. UNCHANGED <<profile, review, certified>> /\ Later /\ (task'.leased => task.leased)
        /\ (task' = task \/ task'.stage # "READY_TO_SUBMIT")
        /\ (w'.certificate = w.certificate \/ Certifies(w.certificate)')
    BY DEF Fills, desk
  <2>2. /\ w'.pc = "report" => w'.verdict[1] # "none"
        /\ w'.pc = "report" /\ w'.verdict[1] = "READY_TO_SUBMIT" /\ task'.leased
           => w'.certificate.profile = profile.version
    BY DEF Fills
  <2> QED
    BY <1>1, <1>2, <2>1, <2>2, TaskWhileRunning DEF IInv
<1>6. DeskInv'
  <2>1. w.pc \notin ENDED \cup {"claimed"} /\ UNCHANGED <<live, desk>>
    BY <1>2 DEF Fills
  <2> QED
    BY <2>1, DeskWhileRunning DEF IInv
<1> QED
  BY <1>1, <1>4, <1>5, <1>6 DEF IInv

\* What a step of the worker leaves alone when it changes neither the page
\* nor a journal.
Journals == UNCHANGED <<given, run, action, manifest, certified, binding, site, ghosts, mishaps, desk>>

\* A plan that is not supported, or not verified, is reported as BLOCKED.
Refused ==
  /\ w.pc \in FILLING \ {"readback"}
  /\ \E reason \in RECONCILIATION_REQUIRED \cup {"validation"} : Refuse(reason, w)
  /\ Journals

\* A refused plan is reported under the lease, or raises without it.
LEMMA RefusedStep ==
  ASSUME IInv, Refused
  PROVE  IInv'
<1>1. w \in Memory /\ w.retained \cup w.todo \subseteq w.planned /\ w.pc \in ACTIVE \ ENDED
  BY DEF IInv, TypeOK, MemoryOK, Refused, FILLING, ACTIVE, ENDED
<1>2. PICK reason \in RECONCILIATION_REQUIRED \cup {"validation"} : Refuse(reason, w)
  BY DEF Refused
<1>3. SiteOK' /\ UNCHANGED <<live, known, profile, run, action, manifest, certified, binding, tab, dom, draft, writes, stray, desk>>
  BY DEF IInv, TypeOK, SiteOK, Refused, Journals, given, site, ghosts
<1>4. This \notin stray
  BY <1>1 DEF IInv, RunInv, Refused, ENDED
<1>5. CASE task.leased
  <2>1. PICK v : v = Verdict(reason, w.asked)
    OBVIOUS
  <2>2. v \in {"NEEDS_USER_INPUT", "BLOCKED"} \X Blocker /\ v[1] # "READY_TO_SUBMIT" /\ v = <<v[1], v[2]>>
    <3>1. CASE v = <<"NEEDS_USER_INPUT", "unknown_facts">>
      BY <3>1 DEF Blocker
    <3>2. CASE v = <<"BLOCKED", reason>>
      BY <3>2, <1>2 DEF Blocker
    <3> QED
      BY <2>1, <3>1, <3>2 DEF Verdict
  <2>3. /\ task' = [stage |-> v[1], blocker |-> v[2], leased |-> TRUE] /\ current' = {}
        /\ w' = [w EXCEPT !.pc = "report", !.verdict = v]
    BY <1>2, <1>5, <2>1 DEF Refuse, Checkpoint
  <2>4. /\ w' \in Memory /\ w'.pc = "report" /\ w'.page = w.page /\ w'.todo = w.todo /\ w'.retained = w.retained
        /\ w'.planned = w.planned /\ w'.certificate = w.certificate /\ w'.verdict = v
    <3>1. v \in Stage \X Blocker
      BY <2>2 DEF Stage
    <3> QED
      BY <1>1, <2>3, <3>1 DEF Memory
  <2>5. task'.leased /\ task'.stage # "READY_TO_SUBMIT"
    BY <2>2, <2>3
  <2>6. TypeOK'
    <3>1. DurableOK'
      <4>1. task' \in [stage : Stage \ {"none"}, blocker : Blocker, leased : BOOLEAN]
            /\ (task'.stage \in {"READY_TO_SUBMIT", "SUBMITTED", "CANCELLED"} => ~task'.leased)
        BY <2>2, <2>3 DEF Stage
      <4> QED
        BY <1>3, <2>3, <4>1 DEF IInv, TypeOK, DurableOK
    <3>2. MemoryOK'
      BY <1>1, <1>3, <2>4 DEF IInv, TypeOK, MemoryOK, desk
    <3> QED
      BY <1>3, <3>1, <3>2 DEF TypeOK
  <2>7. Fills
    <3>1. w.pc \in FILLING \cup {"open"} /\ w'.pc \in FILLING \cup {"report"}
      BY <2>4 DEF Refused
    <3>2. w'.verdict[1] # "READY_TO_SUBMIT" /\ w'.verdict[1] # "none"
      BY <2>2, <2>4
    <3> QED
      BY <1>3, <1>4, <1>5, <2>4, <2>5, <2>6, <3>1, <3>2 DEF Fills, Later
  <2>8. BatchInv'
    <3>1. w'.todo \subseteq FieldsOf(w'.page)
      BY <2>4 DEF IInv, BatchInv
    <3>2. live' => binding' <= tab'.document
      BY <1>3 DEF IInv, BatchInv
    <3> QED
      BY <2>4, <3>1, <3>2 DEF BatchInv, FILLING, FieldsOf
  <2>9. WriteInv'
    <3>1. Started' = Started /\ Started # {}
      <4>1. This \in Run /\ run[This] = "ATTEMPTED"
        BY <1>1 DEF IInv, RunInv
      <4> QED
        BY <1>3, <4>1 DEF Started
    <3> QED
      BY <2>4, <3>1 DEF WriteInv, FILLING
  <2> QED
    BY <2>7, <2>8, <2>9, FillsStep
<1>6. CASE ~task.leased
  <2>1. Raise("lost") /\ UNCHANGED <<task, current>> /\ "lost" \in Blocker
    BY <1>2, <1>6 DEF Refuse, Blocker
  <2>2. w'.pc = "raised"
    BY <1>1, <2>1 DEF Raise, Memory
  <2>3. Raised
    BY <1>1, <1>3, <2>1, <2>2 DEF Raised, Later, IInv, TypeOK, DurableOK
  <2> QED
    BY <2>3, RaisedStep
<1> QED
  BY <1>5, <1>6

\* A step that is refused by the guard raises, and leaves everything else.
LEMMA UnownedRaises ==
  ASSUME IInv, w.pc \in ACTIVE \ ENDED, Unowned
  PROVE  w'.pc = "raised" /\ \E why \in Blocker : Raise(why)
<1>1. PICK why \in {"browser_ownership_unknown", "lost"} : Raise(why)
  <2>1. CASE task.leased
    BY <2>1 DEF Unowned
  <2>2. CASE ~task.leased
    BY <2>2 DEF Unowned
  <2> QED
    BY <2>1, <2>2
<1>2. why \in Blocker
  BY DEF Blocker, RECONCILIATION_REQUIRED
<1>3. w \in Memory
  BY DEF IInv, TypeOK, MemoryOK
<1>4. w'.pc = "raised"
  BY <1>1, <1>3 DEF Raise, Memory
<1> QED
  BY <1>1, <1>2, <1>4

\* A step within a page, which changes only what the runner has in memory and
\* the journals of its run.
Goes ==
  /\ w.pc \in FILLING /\ w'.pc \in (FILLING \ {"observe"}) \cup {"report"}
  /\ UNCHANGED <<given, task, current, run, certified, binding, site, ghosts, mishaps, desk>>
  /\ manifest' \in Revision
  /\ action' \in [Run -> [Field -> {"none", "ATTEMPTED", "READBACK", "UNKNOWN"}]]
  /\ \A r \in Run \ {This} : action'[r] = action[r]
  /\ This \notin stray
  /\ w' \in Memory /\ w'.page = w.page /\ w'.planned = w.planned /\ w'.document = w.document
  /\ w'.todo \subseteq w.todo /\ w'.retained \subseteq w.planned
  /\ w'.pc = "advance" => w.page < Len(Form)
  /\ w'.pc \in {"check", "write", "readback"} => w'.todo # {}
  /\ w'.pc \in {"filled", "validate", "advance"} => w'.todo = {}
  /\ live /\ w'.pc \in {"write", "readback"} => w.document = binding
  /\ live /\ w'.pc \in {"apply", "check", "write"} => \A f \in w'.todo : writes[f] = 0
  /\ live /\ w'.pc = "readback" => \A f \in w'.todo \ {Front'} : writes[f] = 0
  /\ w'.certificate = w.certificate \/ Certifies(w.certificate)'
  /\ w'.pc = "report" => w'.verdict[1] # "none"
  /\ w'.pc = "report" /\ w'.verdict[1] = "READY_TO_SUBMIT" => w'.certificate.profile = profile.version

\* Such a step plans no control and leaves no page.
LEMMA GoesStep ==
  ASSUME IInv, Goes
  PROVE  IInv'
<1>1. w \in Memory /\ w.retained \cup w.todo \subseteq w.planned /\ w.pc \in ACTIVE
  BY DEF IInv, TypeOK, MemoryOK, Goes, FILLING, ACTIVE
<1>2. UNCHANGED <<live, known, profile, task, current, run, certified, binding, tab, dom, draft, writes, stray, mishaps, desk>>
  BY DEF Goes, given, site, ghosts
<1>3. TypeOK'
  <2>1. SiteOK'
    BY <1>2 DEF IInv, TypeOK, SiteOK
  <2>2. DurableOK'
    BY <1>2 DEF IInv, TypeOK, DurableOK, Goes
  <2>3. MemoryOK'
    BY <1>1, <1>2 DEF IInv, TypeOK, MemoryOK, desk, Goes
  <2> QED
    BY <2>1, <2>2, <2>3 DEF TypeOK
<1>4. Fills
  <2>1. w.pc \in FILLING \cup {"open"} /\ w'.pc \in FILLING \cup {"report"}
    BY DEF Goes
  <2>2. /\ \A r \in Run \ {This} : action'[r] = action[r]
        /\ This \notin stray
        /\ w'.certificate = w.certificate \/ Certifies(w.certificate)'
        /\ w'.pc = "report" => w'.verdict[1] # "none"
        /\ w'.pc = "report" /\ w'.verdict[1] = "READY_TO_SUBMIT" => w'.certificate.profile = profile.version
    BY DEF Goes
  <2>3. /\ task'.leased => task.leased
        /\ task' = task
        /\ stray' = stray
        /\ Later
    BY <1>2 DEF Later
  <2> QED
    BY <1>2, <1>3, <2>1, <2>2, <2>3 DEF Fills
<1>5. BatchInv'
  <2>1. w'.todo \subseteq FieldsOf(w'.page)
    BY DEF IInv, BatchInv, Goes
  <2>2. live' => binding' <= tab'.document
    BY <1>2 DEF IInv, BatchInv
  <2>3. /\ w'.pc \in {"check", "write", "readback"} => w'.todo # {}
        /\ w'.pc \in {"filled", "validate", "advance"} => w'.todo = {}
    BY DEF Goes
  <2>4. w'.pc \notin {"claimed", "open", "observe"}
    BY DEF Goes, FILLING
  <2>5. \A f \in w'.planned : \E p \in 1..w'.page : f \in FieldsOf(p)
    BY DEF IInv, BatchInv, Goes
  <2>6. w'.pc = "advance" => w'.page < Len(Form)
    BY DEF Goes
  <2>7. live' /\ w'.pc \in {"write", "readback"} => w'.document = binding'
    BY <1>2 DEF Goes
  <2> QED
    BY <2>1, <2>2, <2>3, <2>4, <2>5, <2>6, <2>7 DEF BatchInv, FieldsOf
<1>6. WriteInv'
  <2>1. Started' = Started /\ Started # {}
    <3>1. This \in Run /\ run[This] = "ATTEMPTED"
      BY <1>1 DEF IInv, RunInv
    <3> QED
      BY <1>2, <3>1 DEF Started
  <2>2. w'.pc # "open"
    BY DEF Goes, FILLING
  <2>3. ASSUME live PROVE \A f \in Field \ w'.planned : writes'[f] = 0
    BY <1>2, <2>3 DEF IInv, WriteInv, Goes
  <2>4. live /\ w'.pc \in {"apply", "check", "write"} => \A f \in w'.todo : writes'[f] = 0
    BY <1>2 DEF Goes
  <2>5. live /\ w'.pc = "readback" => \A f \in w'.todo \ {Front'} : writes'[f] = 0
    BY <1>2 DEF Goes
  <2> QED
    BY <1>2, <2>1, <2>2, <2>3, <2>4, <2>5 DEF WriteInv
<1> QED
  BY <1>4, <1>5, <1>6, FillsStep

\* The journal of a run whose readbacks are in doubt.
LEMMA InvalidatedIs ==
  ASSUME IInv
  PROVE  /\ Invalidated \in [Run -> [Field -> {"none", "ATTEMPTED", "READBACK", "UNKNOWN"}]]
         /\ \A r \in Run \ {This} : Invalidated[r] = action[r]
<1>1. action \in [Run -> [Field -> {"none", "ATTEMPTED", "READBACK", "UNKNOWN"}]]
  BY DEF IInv, TypeOK, DurableOK
<1>2. PICK x : x = [f \in Field |-> IF action[This][f] = "READBACK" THEN "UNKNOWN" ELSE action[This][f]]
  OBVIOUS
<1>3. This \in Run => x \in [Field -> {"none", "ATTEMPTED", "READBACK", "UNKNOWN"}]
  BY <1>1, <1>2
<1>4. Invalidated = [action EXCEPT ![This] = x] \/ Invalidated = action
  BY <1>2 DEF Invalidated
<1> QED
  BY <1>1, <1>3, <1>4

\* The guard, or the doubt it raises, keeps the invariant.
LEMMA DoubtRaises ==
  ASSUME IInv, w.pc \in ACTIVE \ ENDED, Unowned,
         UNCHANGED <<given, task, current, run, manifest, certified, binding, site, ghosts, desk, mishaps>>,
         action' \in [Run -> [Field -> {"none", "ATTEMPTED", "READBACK", "UNKNOWN"}]],
         \A r \in Run \ {This} : action'[r] = action[r]
  PROVE  IInv'
<1>1. UNCHANGED <<live, known, profile, tab, dom, draft, writes, stray>>
  BY DEF given, site, ghosts
<1>2. SiteOK'
  BY <1>1 DEF IInv, TypeOK, SiteOK
<1>3. w'.pc = "raised" /\ \E why \in Blocker : Raise(why)
  BY UnownedRaises
<1>4. Raised
  BY <1>1, <1>2, <1>3 DEF Raised, Later
<1> QED
  BY <1>4, RaisedStep

-----------------------------------------------------------------------------
(* The steps of the run.                                                     *)

\* Only at a readback, and under a doubt, has a write of this run gone astray.
LEMMA NotStray ==
  ASSUME IInv, w.pc \in FILLING \cup {"open"}, w.pc # "readback"
  PROVE  This \notin stray /\ w.pc \in ACTIVE \ ENDED /\ This \in Run /\ Started # {}
<1>1. w.pc \in ACTIVE /\ w.pc \notin ENDED
  BY DEF FILLING, ACTIVE, ENDED
<1>2. This \in Run /\ run[This] = "ATTEMPTED"
  BY <1>1 DEF IInv, RunInv
<1> QED
  BY <1>1, <1>2 DEF IInv, RunInv, ENDED, Started

\* What a loaded page shows.
LEMMA Loads ==
  ASSUME TypeOK, NEW p \in DOMAIN Form
  PROVE  Loaded(p, draft) \in [Field -> Value \cup {"hidden"}]
BY DEF TypeOK, SiteOK, Loaded, Value

\* A tab of our own: its document is recorded, and nothing is planned in it yet.
LEMMA OpenPageStep ==
  ASSUME IInv, OpenPage, UNCHANGED desk
  PROVE  IInv'
<1>1. w.pc = "open" /\ w \in Memory /\ tab \in [page : DOMAIN Form, document : Nat, ours : BOOLEAN] /\ binding \in Nat
  BY DEF IInv, TypeOK, MemoryOK, SiteOK, OpenPage, At
<1>2. This \notin stray /\ w.pc \in ACTIVE \ ENDED /\ This \in Run /\ Started # {}
  BY <1>1, NotStray
<1>3. UNCHANGED <<live, task, current, run, action, manifest, profile, certified, known, draft, writes, stray, mishaps>>
  BY DEF OpenPage, durable, ghosts
<1>4. CASE ~Guard
  <2>1. Unowned /\ UNCHANGED <<tab, dom, binding>>
    BY <1>4 DEF OpenPage
  <2>2. UNCHANGED <<given, task, current, run, manifest, certified, binding, site, ghosts, desk, mishaps>>
    BY <2>1, <1>3 DEF given, site, ghosts
  <2>3. action' = action /\ action \in [Run -> [Field -> {"none", "ATTEMPTED", "READBACK", "UNKNOWN"}]]
    BY <1>3 DEF IInv, TypeOK, DurableOK
  <2> QED
    BY <1>2, <2>1, <2>2, <2>3, DoubtRaises
<1>5. CASE Guard
  <2>1. PICK p \in 1..tab.page :
          /\ tab' = [tab EXCEPT !.page = p, !.document = tab.document + 1]
          /\ dom' = Loaded(p, draft)
          /\ RecordDocument
          /\ w' = [w EXCEPT !.pc = "observe", !.page = p, !.file = manifest]
    BY <1>5 DEF OpenPage
  <2>2. p \in DOMAIN Form
    BY <1>1, Pages
  <2>3. tab' \in [page : DOMAIN Form, document : Nat, ours : BOOLEAN] /\ binding' \in Nat
        /\ (live => binding' = tab'.document)
    <3>1. tab' \in [page : DOMAIN Form, document : Nat, ours : BOOLEAN]
      <4>1. PICK d \in Nat : d = tab.document + 1
        BY <1>1
      <4>2. tab' = [tab EXCEPT !.page = p, !.document = d]
        BY <2>1, <4>1
      <4> QED
        BY <1>1, <2>2, <4>1, <4>2
    <3>2. tab'.document \in Nat
      BY <3>1
    <3>3. binding' = IF live THEN tab'.document ELSE 0
      BY <2>1 DEF RecordDocument
    <3> QED
      BY <3>1, <3>2, <3>3
  <2>4. dom' \in [Field -> Value \cup {"hidden"}]
    BY <2>1, <2>2, Loads DEF IInv
  <2>5. SiteOK' /\ DurableOK'
    BY <1>3, <2>3, <2>4 DEF IInv, TypeOK, SiteOK, DurableOK
  <2>6. manifest \in Revision
    BY DEF IInv, TypeOK, DurableOK
  <2>7. /\ w' \in Memory /\ w'.pc = "observe" /\ w'.page = p /\ w'.todo = w.todo /\ w'.retained = w.retained
        /\ w'.planned = w.planned /\ w'.certificate = w.certificate
    BY <1>1, <2>1, <2>2, <2>6 DEF Memory
  <2>8. w.planned = {} /\ w.todo = {} /\ w.retained = {}
    BY <1>1 DEF IInv, TypeOK, MemoryOK, BatchInv
  <2>9. TypeOK'
    BY <1>3, <2>5, <2>7, <2>8 DEF TypeOK, MemoryOK, IInv, desk
  <2>10. Fills
    BY <1>1, <1>2, <1>3, <2>7, <2>9 DEF Fills, Later, FILLING
  <2>11. BatchInv'
    BY <1>3, <2>3, <2>7, <2>8 DEF BatchInv
  <2>12. WriteInv'
    <3>1. live => \A f \in Field : writes'[f] = 0
      BY <1>1, <1>3 DEF IInv, WriteInv
    <3> QED
      BY <1>3, <2>7, <2>8, <3>1 DEF WriteInv
  <2> QED
    BY <2>10, <2>11, <2>12, FillsStep
<1> QED
  BY <1>4, <1>5

\* A batch of the controls that came into view, none of which was planned.
LEMMA PlannedStep ==
  ASSUME IInv, w.pc \in {"observe", "apply"}, NEW new \in SUBSET FieldsOf(w.page),
         new \cap w.planned = {}, w' = Planned(w, new),
         UNCHANGED <<given, task, current, run, action, manifest, certified, binding, site, ghosts, mishaps, desk>>
  PROVE  IInv'
<1>1. w \in Memory /\ w.retained \cup w.todo \subseteq w.planned /\ tab.document \in Nat /\ known \subseteq Field
  BY DEF IInv, TypeOK, MemoryOK, SiteOK, DurableOK
<1>2. new \subseteq Field
  BY <1>1, Pages DEF Memory
<1>3. PICK m : m = [w EXCEPT !.pc = "apply", !.document = tab.document, !.retained = {},
                             !.planned = w.planned \cup new, !.asked = w.asked \cup (new \ known),
                             !.todo = new \cap known]
  OBVIOUS
<1>4. w' = m
  BY <1>3 DEF Planned
<1>5. /\ w' \in Memory /\ w'.pc = "apply" /\ w'.page = w.page /\ w'.document = tab.document /\ w'.retained = {}
      /\ w'.planned = w.planned \cup new /\ w'.todo = new \cap known /\ w'.certificate = w.certificate
  <2>1. PICK planned, asked, todo \in SUBSET Field :
          /\ planned = w.planned \cup new /\ asked = w.asked \cup (new \ known) /\ todo = new \cap known
    BY <1>1, <1>2 DEF Memory
  <2>2. w' = [w EXCEPT !.pc = "apply", !.document = tab.document, !.retained = {},
                       !.planned = planned, !.asked = asked, !.todo = todo]
    BY <1>3, <1>4, <2>1
  <2> QED
    BY <1>1, <2>1, <2>2 DEF Memory
<1>6. UNCHANGED <<live, known, profile, task, current, run, action, manifest, certified, binding, tab, dom, draft,
                  writes, stray, mishaps, desk>>
  BY DEF given, site, ghosts
<1>7. This \notin stray /\ Started # {} /\ Started' = Started
  BY <1>6, NotStray DEF FILLING, Started
<1>8. TypeOK'
  <2>1. SiteOK' /\ DurableOK'
    BY <1>6 DEF IInv, TypeOK, SiteOK, DurableOK
  <2>2. MemoryOK'
    BY <1>5, <1>6 DEF IInv, TypeOK, MemoryOK, desk
  <2> QED
    BY <2>1, <2>2 DEF TypeOK
<1>9. Fills
  BY <1>5, <1>6, <1>7, <1>8 DEF Fills, Later, FILLING
<1>10. BatchInv'
  <2>1. w'.todo \subseteq FieldsOf(w'.page)
    BY <1>5
  <2>2. \A f \in w'.planned : \E p \in 1..w'.page : f \in FieldsOf(p)
    <3>1. w.page \in 1..w.page
      BY <1>1, Pages DEF Memory
    <3>2. \A f \in w.planned : \E p \in 1..w.page : f \in FieldsOf(p)
      BY DEF IInv, BatchInv, FILLING
    <3> QED
      BY <1>5, <3>1, <3>2
  <2>3. live' => binding' <= tab'.document
    BY <1>6 DEF IInv, BatchInv
  <2> QED
    BY <1>5, <2>1, <2>2, <2>3 DEF BatchInv, FieldsOf
<1>11. WriteInv'
  <2>1. live => \A f \in Field \ w.planned : writes[f] = 0
    BY DEF IInv, WriteInv, FILLING
  <2> QED
    BY <1>2, <1>5, <1>6, <1>7, <2>1 DEF WriteInv
<1> QED
  BY <1>9, <1>10, <1>11, FillsStep

\* The controls in view are of this page, so no earlier page planned them.
LEMMA ObserveStep ==
  ASSUME IInv, Observe, UNCHANGED desk
  PROVE  IInv'
<1>1. w.pc = "observe" /\ w.pc \in FILLING \ {"readback"} /\ w \in Memory
      /\ UNCHANGED <<given, run, action, manifest, certified, binding, site, ghosts, mishaps>>
  BY DEF IInv, TypeOK, MemoryOK, Observe, At, FILLING
<1>2. This \notin stray /\ w.pc \in ACTIVE \ ENDED
  BY <1>1, NotStray
<1>3. CASE Unowned /\ UNCHANGED <<task, current>>
  <2>1. action' = action /\ action \in [Run -> [Field -> {"none", "ATTEMPTED", "READBACK", "UNKNOWN"}]]
    BY <1>1 DEF IInv, TypeOK, DurableOK
  <2> QED
    BY <1>1, <1>2, <1>3, <2>1, DoubtRaises
<1>4. ASSUME NEW reason \in RECONCILIATION_REQUIRED \cup {"validation"}, Refuse(reason, w) PROVE IInv'
  <2>1. Refused
    BY <1>1, <1>4 DEF Refused, Journals
  <2> QED
    BY <2>1, RefusedStep
<1>5. CASE w' = Planned(w, Visible) /\ UNCHANGED <<task, current>>
  <2>1. Visible \subseteq FieldsOf(w.page)
    BY DEF Visible
  <2>2. Visible \cap w.planned = {}
    <3>1. SUFFICES ASSUME NEW f \in Visible, f \in w.planned PROVE FALSE
      OBVIOUS
    <3>2. PICK p \in 1..w.page : f \in FieldsOf(p) /\ p < w.page
      BY <1>1, <3>1 DEF IInv, BatchInv
    <3>3. p \in DOMAIN Form /\ w.page \in DOMAIN Form /\ p # w.page
      BY <1>1, <3>2, Pages DEF Memory
    <3> QED
      BY <2>1, <3>1, <3>2, <3>3, Pages
  <2> QED
    BY <1>1, <1>5, <2>1, <2>2, PlannedStep
<1>6. "form_observation_unavailable" \in RECONCILIATION_REQUIRED /\ "attachment_persistence_unverified" \in RECONCILIATION_REQUIRED
  BY DEF RECONCILIATION_REQUIRED
<1> QED
  BY <1>3, <1>4, <1>5, <1>6 DEF Observe

\* The intent of a field is committed before its primitive, in the batch alone.
LEMMA BeginFieldStep ==
  ASSUME IInv, BeginField, UNCHANGED desk
  PROVE  IInv'
<1>1. w.pc = "apply" /\ w.pc \in FILLING /\ w.todo # {} /\ w \in Memory /\ w.retained \cup w.todo \subseteq w.planned
      /\ UNCHANGED <<given, task, current, run, manifest, certified, binding, site, ghosts, mishaps>>
  BY DEF IInv, TypeOK, MemoryOK, BeginField, At, FILLING
<1>2. This \notin stray /\ w.pc \in ACTIVE \ ENDED /\ This \in Run
  BY <1>1, NotStray
<1>3. action \in [Run -> [Field -> {"none", "ATTEMPTED", "READBACK", "UNKNOWN"}]] /\ manifest' \in Revision
  BY <1>1 DEF IInv, TypeOK, DurableOK
<1>4. Front \in w.todo /\ Front \in Field
  BY <1>1, FrontIsLeft DEF IInv, Memory
<1>5. live => \A f \in w.todo : writes[f] = 0
  BY <1>1 DEF IInv, WriteInv
<1>6. CASE Unowned /\ UNCHANGED action
  BY <1>1, <1>2, <1>3, <1>6, DoubtRaises
<1>7. CASE w' = [w EXCEPT !.todo = w.todo \ {Front}, !.failed = TRUE] /\ UNCHANGED action
  <2>1. PICK rest \in SUBSET Field : rest = w.todo \ {Front}
    BY <1>1 DEF Memory
  <2>2. w' = [w EXCEPT !.todo = rest, !.failed = TRUE]
    BY <1>7, <2>1
  <2>3. /\ w' \in Memory /\ w'.pc = "apply" /\ w'.page = w.page /\ w'.planned = w.planned /\ w'.document = w.document
        /\ w'.todo \subseteq w.todo /\ w'.retained = w.retained /\ w'.certificate = w.certificate
    BY <1>1, <2>1, <2>2 DEF Memory
  <2>4. Goes
    BY <1>1, <1>2, <1>3, <1>5, <1>7, <2>3 DEF Goes, FILLING
  <2> QED
    BY <2>4, GoesStep
<1>8. CASE action' = [action EXCEPT ![This][Front] = "ATTEMPTED"] /\ Goto("check")
  <2>1. /\ w' \in Memory /\ w'.pc = "check" /\ w'.page = w.page /\ w'.planned = w.planned /\ w'.document = w.document
        /\ w'.todo = w.todo /\ w'.retained = w.retained /\ w'.certificate = w.certificate
    BY <1>1, <1>8 DEF Memory, Goto
  <2>2. /\ action' \in [Run -> [Field -> {"none", "ATTEMPTED", "READBACK", "UNKNOWN"}]]
        /\ \A r \in Run \ {This} : action'[r] = action[r]
    BY <1>2, <1>3, <1>4, <1>8
  <2>3. Goes
    BY <1>1, <1>2, <1>3, <1>5, <2>1, <2>2 DEF Goes, FILLING
  <2> QED
    BY <2>3, GoesStep
<1>9. CASE Doubt
  <2>1. Unowned /\ action' = Invalidated
    BY <1>9 DEF Doubt
  <2> QED
    BY <1>1, <1>2, <2>1, InvalidatedIs, DoubtRaises
<1> QED
  BY <1>6, <1>7, <1>8, <1>9 DEF BeginField

\* What an exception after the intent leaves in the journal.
LEMMA UnknownFieldIs ==
  ASSUME IInv, This \in Run, NEW f \in Field, UnknownField(f)
  PROVE  /\ action' \in [Run -> [Field -> {"none", "ATTEMPTED", "READBACK", "UNKNOWN"}]]
         /\ \A r \in Run \ {This} : action'[r] = action[r]
<1>1. action \in [Run -> [Field -> {"none", "ATTEMPTED", "READBACK", "UNKNOWN"}]]
  BY DEF IInv, TypeOK, DurableOK
<1>2. action' = action \/ action' = [Invalidated EXCEPT ![This][f] = "UNKNOWN"]
  BY DEF UnknownField
<1>3. PICK x : x = Invalidated
  OBVIOUS
<1>4. x \in [Run -> [Field -> {"none", "ATTEMPTED", "READBACK", "UNKNOWN"}]] /\ \A r \in Run \ {This} : x[r] = action[r]
  BY <1>3, InvalidatedIs
<1>5. CASE action' = [x EXCEPT ![This][f] = "UNKNOWN"]
  BY <1>4, <1>5
<1> QED
  BY <1>1, <1>2, <1>3, <1>5

\* Before the primitive the document is the one of the batch and the recorded one.
LEMMA CheckFieldStep ==
  ASSUME IInv, CheckField, UNCHANGED desk
  PROVE  IInv'
<1>1. w.pc = "check" /\ w.pc \in FILLING /\ w.todo # {} /\ w \in Memory /\ w.retained \cup w.todo \subseteq w.planned
      /\ UNCHANGED <<given, task, current, run, manifest, certified, binding, site, ghosts, mishaps>>
  BY DEF IInv, TypeOK, MemoryOK, CheckField, At, FILLING, BatchInv
<1>2. This \notin stray /\ w.pc \in ACTIVE \ ENDED /\ This \in Run
  BY <1>1, NotStray
<1>3. action \in [Run -> [Field -> {"none", "ATTEMPTED", "READBACK", "UNKNOWN"}]] /\ manifest' \in Revision
  BY <1>1 DEF IInv, TypeOK, DurableOK
<1>4. Front \in w.todo /\ Front \in Field
  BY <1>1, FrontIsLeft DEF IInv, Memory
<1>5. CASE Guard /\ verify_document /\ Same /\ dom[Front] # "hidden"
  <2>1. PICK pc \in {"readback", "write"} : Goto(pc) /\ UNCHANGED action
    BY <1>5 DEF CheckField
  <2>2. /\ w' \in Memory /\ w'.pc = pc /\ w'.page = w.page /\ w'.planned = w.planned /\ w'.document = w.document
        /\ w'.todo = w.todo /\ w'.retained = w.retained /\ w'.certificate = w.certificate
    BY <1>1, <2>1 DEF Memory, Goto
  <2>3. live => w.document = binding
    BY <1>5 DEF verify_document, Same
  <2>4. live => \A f \in w.todo : writes[f] = 0
    BY <1>1 DEF IInv, WriteInv
  <2>5. Goes
    BY <1>1, <1>2, <1>3, <2>1, <2>2, <2>3, <2>4 DEF Goes, FILLING
  <2> QED
    BY <2>5, GoesStep
<1>6. CASE Unowned /\ UnknownField(Front)
  BY <1>1, <1>2, <1>4, <1>6, UnknownFieldIs, DoubtRaises
<1> QED
  BY <1>5, <1>6 DEF CheckField

\* A readback in another document than the recorded one raises, so a write that
\* went astray is never read back.
LEMMA ReadBackStep ==
  ASSUME IInv, ReadBack, UNCHANGED desk
  PROVE  IInv'
<1>1. w.pc = "readback" /\ w.pc \in FILLING /\ w.todo # {} /\ w \in Memory /\ w.retained \cup w.todo \subseteq w.planned
      /\ UNCHANGED <<given, task, current, run, manifest, certified, binding, site, ghosts, mishaps>>
  BY DEF IInv, TypeOK, MemoryOK, ReadBack, At, FILLING, BatchInv
<1>2. w.pc \in ACTIVE \ ENDED /\ This \in Run
  BY <1>1 DEF IInv, RunInv, ACTIVE, ENDED
<1>3. action \in [Run -> [Field -> {"none", "ATTEMPTED", "READBACK", "UNKNOWN"}]] /\ manifest' \in Revision
  BY <1>1 DEF IInv, TypeOK, DurableOK
<1>4. Front \in w.todo /\ Front \in Field
  BY <1>1, FrontIsLeft DEF IInv, Memory
<1>5. CASE Guard /\ verify_document /\ dom[Front] = "right" /\ Kept
  <2>1. /\ action' = [action EXCEPT ![This][Front] = "READBACK"]
        /\ w' = [w EXCEPT !.pc = "apply", !.todo = w.todo \ {Front}, !.retained = w.retained \cup {Front}]
    BY <1>5 DEF ReadBack
  <2>2. PICK todo, retained \in SUBSET Field : todo = w.todo \ {Front} /\ retained = w.retained \cup {Front}
    BY <1>1, <1>4 DEF Memory
  <2>3. w' = [w EXCEPT !.pc = "apply", !.todo = todo, !.retained = retained]
    BY <2>1, <2>2
  <2>4. /\ w' \in Memory /\ w'.pc = "apply" /\ w'.page = w.page /\ w'.planned = w.planned /\ w'.document = w.document
        /\ w'.todo = w.todo \ {Front} /\ w'.retained = retained /\ w'.certificate = w.certificate
    BY <1>1, <2>2, <2>3 DEF Memory
  <2>5. retained \subseteq w.planned
    BY <1>1, <1>4, <2>2
  <2>6. live => \A f \in w.todo \ {Front} : writes[f] = 0
    BY <1>1 DEF IInv, WriteInv
  <2>7. This \notin stray
    <3>1. live => tab.document = binding
      BY <1>5 DEF verify_document
    <3>2. tab.document \in Nat /\ binding \in Nat
      BY DEF IInv, TypeOK, SiteOK
    <3> QED
      BY <1>1, <1>2, <3>1, <3>2 DEF IInv, RunInv
  <2>8. /\ action' \in [Run -> [Field -> {"none", "ATTEMPTED", "READBACK", "UNKNOWN"}]]
        /\ \A r \in Run \ {This} : action'[r] = action[r]
    BY <1>2, <1>3, <1>4, <2>1
  <2>9. Goes
    BY <1>1, <1>3, <2>4, <2>5, <2>6, <2>7, <2>8 DEF Goes, FILLING
  <2> QED
    BY <2>9, GoesStep
<1>6. CASE Unowned /\ UnknownField(Front)
  BY <1>1, <1>2, <1>4, <1>6, UnknownFieldIs, DoubtRaises
<1> QED
  BY <1>5, <1>6 DEF ReadBack

\* After a batch a control that was revealed is one the plan does not know yet.
LEMMA EndBatchStep ==
  ASSUME IInv, EndBatch, UNCHANGED desk
  PROVE  IInv'
<1>1. w.pc = "apply" /\ w.pc \in FILLING \ {"readback"} /\ w.todo = {} /\ w \in Memory /\ w.retained \cup w.todo \subseteq w.planned
      /\ UNCHANGED <<given, run, manifest, certified, binding, site, ghosts, mishaps>>
  BY DEF IInv, TypeOK, MemoryOK, EndBatch, At, FILLING
<1>2. This \notin stray /\ w.pc \in ACTIVE \ ENDED /\ This \in Run
  BY <1>1, NotStray
<1>3. action \in [Run -> [Field -> {"none", "ATTEMPTED", "READBACK", "UNKNOWN"}]] /\ manifest' \in Revision
  BY <1>1 DEF IInv, TypeOK, DurableOK
<1>4. CASE Doubt /\ UNCHANGED <<task, current>>
  <2>1. Unowned /\ action' = Invalidated
    BY <1>4 DEF Doubt
  <2> QED
    BY <1>1, <1>2, <1>4, <2>1, InvalidatedIs, DoubtRaises
<1>5. CASE Refuse("validation", w) /\ UNCHANGED action
  <2>1. Refused
    BY <1>1, <1>5 DEF Refused, Journals
  <2> QED
    BY <2>1, RefusedStep
<1>6. CASE w' = [w EXCEPT !.pc = "filled"] /\ UNCHANGED <<task, current, action>>
  <2>1. /\ w' \in Memory /\ w'.pc = "filled" /\ w'.page = w.page /\ w'.planned = w.planned /\ w'.document = w.document
        /\ w'.todo = w.todo /\ w'.retained = w.retained /\ w'.certificate = w.certificate
    BY <1>1, <1>6 DEF Memory
  <2>2. Goes
    BY <1>1, <1>2, <1>3, <1>6, <2>1 DEF Goes, FILLING
  <2> QED
    BY <2>2, GoesStep
<1>7. CASE w' = Planned(w, Visible \ w.planned) /\ UNCHANGED <<task, current, action>>
  <2>1. Visible \ w.planned \in SUBSET FieldsOf(w.page) /\ (Visible \ w.planned) \cap w.planned = {}
    BY DEF Visible
  <2> QED
    BY <1>1, <1>7, <2>1, PlannedStep
<1> QED
  BY <1>4, <1>5, <1>6, <1>7 DEF EndBatch

\* What a primitive may do leaves a page.
LEMMA EffectsAre ==
  ASSUME TypeOK, NEW f \in Field
  PROVE  Effects(f) \subseteq [Field -> Value \cup {"hidden"}]
<1>1. dom \in [Field -> Value \cup {"hidden"}] /\ w.retained \subseteq Field
  BY DEF TypeOK, SiteOK, MemoryOK, Memory
<1>2. ASSUME NEW d \in [Field -> Value \cup {"hidden"}] PROVE Revealed(d) \in [Field -> Value \cup {"hidden"}]
  BY <1>2 DEF Revealed, Value
<1>3. ASSUME NEW v \in {"right", "wrong"} PROVE [dom EXCEPT ![f] = v] \in [Field -> Value \cup {"hidden"}]
  BY <1>1, <1>3 DEF Value
<1>4. ASSUME NEW g \in w.retained PROVE [dom EXCEPT ![f] = "right", ![g] = "wrong"] \in [Field -> Value \cup {"hidden"}]
  BY <1>1, <1>4 DEF Value
<1>5. ASSUME NEW e \in Effects(f) PROVE e \in [Field -> Value \cup {"hidden"}]
  <2>1. CASE e = dom
    BY <1>1, <2>1
  <2>2. ASSUME NEW v \in {"right", "wrong"}, e = Revealed([dom EXCEPT ![f] = v])
        PROVE  e \in [Field -> Value \cup {"hidden"}]
    BY <1>2, <1>3, <2>2
  <2>3. ASSUME NEW g \in w.retained, e = Revealed([dom EXCEPT ![f] = "right", ![g] = "wrong"])
        PROVE  e \in [Field -> Value \cup {"hidden"}]
    BY <1>2, <1>4, <2>3
  <2> QED
    BY <1>5, <2>1, <2>2, <2>3 DEF Effects
<1> QED
  BY <1>5

\* The field was never written before, and the write is astray only in a document
\* that its readback will refuse.
LEMMA WriteStep ==
  ASSUME IInv, Write, UNCHANGED desk
  PROVE  IInv'
<1>1. w.pc = "write" /\ w.pc \in FILLING /\ w.todo # {} /\ w \in Memory /\ w.retained \cup w.todo \subseteq w.planned
      /\ UNCHANGED <<live, known, profile, task, current, run, manifest, certified, binding, tab, mishaps>>
  BY DEF IInv, TypeOK, MemoryOK, Write, At, FILLING, BatchInv, given
<1>2. This \notin stray /\ w.pc \in ACTIVE \ ENDED /\ This \in Run /\ Started # {}
  BY <1>1, NotStray
<1>3. action \in [Run -> [Field -> {"none", "ATTEMPTED", "READBACK", "UNKNOWN"}]]
  BY <1>1 DEF IInv, TypeOK, DurableOK
<1>4. Front \in w.todo /\ Front \in Field
  BY <1>1, FrontIsLeft DEF IInv, Memory
<1>5. dom' \in [Field -> Value \cup {"hidden"}]
  <2>1. dom \in [Field -> Value \cup {"hidden"}]
    BY DEF IInv, TypeOK, SiteOK
  <2>2. dom' = dom \/ dom' \in Effects(Front)
    BY DEF Write
  <2> QED
    BY <1>4, <2>1, <2>2, EffectsAre DEF IInv
<1>6. writes' = [writes EXCEPT ![Front] = writes[Front] + 1] /\ writes \in [Field -> Nat] /\ writes' \in [Field -> Nat]
  BY <1>4 DEF IInv, TypeOK, SiteOK, Write
<1>7. draft' \in [id : 1..2, rev : Nat, value : [Field -> Value]] /\ Later
  <2>1. draft \in [id : 1..2, rev : Nat, value : [Field -> Value]]
    BY DEF IInv, TypeOK, SiteOK
  <2>2. draft' = draft \/ draft' = [draft EXCEPT !.rev = draft.rev + 1, !.value[Front] = "right"]
    BY DEF Write
  <2>3. /\ draft.rev + 1 \in Nat /\ draft.rev + 1 > draft.rev
        /\ [draft.value EXCEPT ![Front] = "right"] \in [Field -> Value]
    <3>1. draft.value \in [Field -> Value] /\ draft.rev \in Nat
      BY <2>1
    <3> QED
      BY <1>4, <3>1 DEF Value
  <2>4. ASSUME NEW n \in Nat, NEW v \in [Field -> Value], draft' = [draft EXCEPT !.rev = n, !.value = v], n > draft.rev
        PROVE  draft' \in [id : 1..2, rev : Nat, value : [Field -> Value]] /\ Later
    <3>1. /\ draft' \in [id : 1..2, rev : Nat, value : [Field -> Value]]
          /\ draft'.id = draft.id /\ draft'.rev = n
      BY <2>1, <2>4
    <3> QED
      BY <2>4, <3>1 DEF Later
  <2>5. CASE draft' = [draft EXCEPT !.rev = draft.rev + 1, !.value[Front] = "right"]
    BY <2>1, <2>3, <2>4, <2>5
  <2> QED
    BY <2>1, <2>2, <2>5 DEF Later
<1>8. stray' \subseteq stray \cup {This} /\ stray' \subseteq Run
  BY <1>2 DEF IInv, TypeOK, SiteOK, Write
<1>9. SiteOK'
  BY <1>1, <1>5, <1>6, <1>7, <1>8 DEF IInv, TypeOK, SiteOK
<1>10. CASE Goto("readback") /\ stray' = (IF live /\ ~Same THEN stray \cup {This} ELSE stray) /\ UNCHANGED action
  <2>1. /\ w' \in Memory /\ w'.pc = "readback" /\ w'.page = w.page /\ w'.planned = w.planned /\ w'.document = w.document
        /\ w'.todo = w.todo /\ w'.retained = w.retained /\ w'.certificate = w.certificate
    BY <1>1, <1>10 DEF Memory, Goto
  <2>2. DurableOK' /\ MemoryOK'
    BY <1>1, <1>10, <2>1 DEF IInv, TypeOK, DurableOK, MemoryOK, desk
  <2>3. This \in stray' => w'.pc = "readback" /\ live /\ tab'.document > binding'
    <3>1. live => w.document = binding /\ binding <= tab.document
      BY <1>1 DEF IInv, BatchInv
    <3>2. tab.document \in Nat /\ binding \in Nat
      BY DEF IInv, TypeOK, SiteOK
    <3> QED
      BY <1>1, <1>2, <1>10, <2>1, <3>1, <3>2 DEF Same
  <2>4. w'.pc \in FILLING
    BY <2>1 DEF FILLING
  <2>5. Fills
    BY <1>1, <1>7, <1>8, <1>9, <1>10, <2>1, <2>2, <2>3, <2>4 DEF Fills, TypeOK
  <2>6. BatchInv'
    BY <1>1, <2>1 DEF IInv, BatchInv, FILLING, FieldsOf
  <2>7. WriteInv'
    <3>1. Front' = Front /\ Started' = Started
      BY <1>1, <2>1 DEF Front, Started
    <3>2. live => (\A f \in Field \ w.planned : writes[f] = 0) /\ (\A f \in w.todo : writes[f] = 0)
      BY <1>1 DEF IInv, WriteInv
    <3>3. \A f \in Field \ {Front} : writes'[f] = writes[f]
      BY <1>6
    <3>4. w.todo \subseteq Field /\ Front \in w.planned
      BY <1>1, <1>4 DEF Memory
    <3> QED
      BY <1>1, <1>2, <2>1, <3>1, <3>2, <3>3, <3>4 DEF WriteInv
  <2> QED
    BY <2>5, <2>6, <2>7, FillsStep
<1>11. CASE Unowned /\ UnknownField(Front)
  <2>1. w'.pc = "raised" /\ \E why \in Blocker : Raise(why)
    BY <1>2, <1>11, UnownedRaises
  <2>2. Raised
    BY <1>1, <1>2, <1>4, <1>7, <1>8, <1>9, <1>11, <2>1, UnknownFieldIs DEF Raised
  <2> QED
    BY <2>2, RaisedStep
<1> QED
  BY <1>10, <1>11 DEF Write

\* The file is in the draft, under the manifest, or the plan is refused.
LEMMA AttachStep ==
  ASSUME IInv, Attach, UNCHANGED desk
  PROVE  IInv'
<1>1. w.pc = "filled" /\ w.todo = {} /\ w.pc \in FILLING \ {"readback"} /\ w \in Memory /\ w.retained \cup w.todo \subseteq w.planned
      /\ UNCHANGED <<given, run, action, certified, binding, site, ghosts, mishaps>>
  BY DEF IInv, TypeOK, MemoryOK, BatchInv, Attach, At, FILLING
<1>2. This \notin stray /\ w.pc \in ACTIVE \ ENDED /\ This \in Run
  BY <1>1, NotStray
<1>3. action' \in [Run -> [Field -> {"none", "ATTEMPTED", "READBACK", "UNKNOWN"}]] /\ manifest \in Revision
      /\ \A r \in Run \ {This} : action'[r] = action[r]
  BY <1>1 DEF IInv, TypeOK, DurableOK
<1>4. DraftId \in Revision
  BY DEF IInv, TypeOK, SiteOK, DraftId, Revision
<1>5. ASSUME NEW file \in Revision, manifest' \in Revision, UNCHANGED <<task, current>>,
             w' = [w EXCEPT !.pc = "validate", !.file = file]
      PROVE  IInv'
  <2>1. /\ w' \in Memory /\ w'.pc = "validate" /\ w'.page = w.page /\ w'.planned = w.planned /\ w'.document = w.document
        /\ w'.todo = w.todo /\ w'.retained = w.retained /\ w'.certificate = w.certificate
    BY <1>1, <1>5 DEF Memory
  <2>2. Goes
    BY <1>1, <1>2, <1>3, <1>5, <2>1 DEF Goes, FILLING
  <2> QED
    BY <2>2, GoesStep
<1>6. CASE Goto("validate") /\ UNCHANGED <<task, current, manifest>>
  <2>1. w' = [w EXCEPT !.pc = "validate", !.file = w.file] /\ w.file \in Revision
    BY <1>1, <1>6 DEF Goto, Memory
  <2> QED
    BY <1>3, <1>5, <1>6, <2>1
<1>7. CASE Refuse("attachment_persistence_unverified", w) /\ UNCHANGED manifest
  <2>1. Refused
    BY <1>1, <1>7 DEF Refused, Journals, RECONCILIATION_REQUIRED
  <2> QED
    BY <2>1, RefusedStep
<1>8. CASE /\ manifest' = DraftId /\ UNCHANGED <<task, current>>
           /\ w' = [w EXCEPT !.pc = "validate", !.file = DraftId]
  BY <1>4, <1>5, <1>8
<1>9. CASE Unowned /\ UNCHANGED <<task, current, manifest>>
  BY <1>1, <1>2, <1>3, <1>9, DoubtRaises
<1> QED
  BY <1>6, <1>7, <1>8, <1>9 DEF Attach

\* Only a plan that is not at the last page goes on to another.
LEMMA ValidateStep ==
  ASSUME IInv, Validate, UNCHANGED desk
  PROVE  IInv'
<1>1. w.pc = "validate" /\ w.todo = {} /\ w.pc \in FILLING \ {"readback"} /\ w \in Memory /\ w.retained \cup w.todo \subseteq w.planned
      /\ UNCHANGED <<given, run, action, manifest, certified, binding, site, ghosts, mishaps>>
  BY DEF IInv, TypeOK, MemoryOK, BatchInv, Validate, At, FILLING
<1>2. This \notin stray
  BY <1>1, NotStray
<1>3. action' \in [Run -> [Field -> {"none", "ATTEMPTED", "READBACK", "UNKNOWN"}]] /\ manifest' \in Revision
      /\ \A r \in Run \ {This} : action'[r] = action[r]
  BY <1>1 DEF IInv, TypeOK, DurableOK
<1>4. CASE Goto(IF LastPage THEN "certify" ELSE "advance") /\ UNCHANGED <<task, current>>
  <2>1. PICK pc \in {"certify", "advance"} : Goto(pc) /\ (pc = "advance" => ~LastPage)
    BY <1>4
  <2>2. /\ w' \in Memory /\ w'.pc = pc /\ w'.page = w.page /\ w'.planned = w.planned /\ w'.document = w.document
        /\ w'.todo = w.todo /\ w'.retained = w.retained /\ w'.certificate = w.certificate
    BY <1>1, <2>1 DEF Memory, Goto
  <2>3. pc = "advance" => w.page < Len(Form)
    <3>1. w.page \in 1..Len(Form) /\ Len(Form) \in Nat
      BY <1>1, Pages DEF Memory
    <3> QED
      BY <2>1, <3>1 DEF LastPage
  <2>4. Goes
    BY <1>1, <1>2, <1>3, <1>4, <2>1, <2>2, <2>3 DEF Goes, FILLING
  <2> QED
    BY <2>4, GoesStep
<1>5. ASSUME NEW reason \in {"validation", "attachment_persistence_unverified", "draft_persistence_unverified"},
             Refuse(reason, w)
      PROVE  IInv'
  <2>1. Refused
    BY <1>1, <1>5 DEF Refused, Journals, RECONCILIATION_REQUIRED
  <2> QED
    BY <2>1, RefusedStep
<1> QED
  BY <1>4, <1>5 DEF Validate

\* What was planned is of a page that is left behind.
LEMMA AdvanceStep ==
  ASSUME IInv, Advance, UNCHANGED desk
  PROVE  IInv'
<1>1. w.pc = "advance" /\ w.pc \in FILLING /\ w \in Memory /\ w.retained \cup w.todo \subseteq w.planned
      /\ tab \in [page : DOMAIN Form, document : Nat, ours : BOOLEAN] /\ binding \in Nat
      /\ UNCHANGED <<live, task, current, run, action, manifest, profile, certified, known, draft, writes, stray, mishaps>>
  BY DEF IInv, TypeOK, MemoryOK, SiteOK, Advance, At, FILLING, durable, ghosts
<1>2. This \notin stray /\ w.pc \in ACTIVE \ ENDED /\ This \in Run /\ Started # {}
  BY <1>1, NotStray
<1>3. CASE Unowned /\ UNCHANGED <<tab, dom, binding>>
  <2>1. UNCHANGED <<given, task, current, run, manifest, certified, binding, site, ghosts, desk, mishaps>>
    BY <1>1, <1>3 DEF given, site, ghosts
  <2>2. action' = action /\ action \in [Run -> [Field -> {"none", "ATTEMPTED", "READBACK", "UNKNOWN"}]]
    BY <1>1 DEF IInv, TypeOK, DurableOK
  <2> QED
    BY <1>2, <1>3, <2>1, <2>2, DoubtRaises
<1>4. CASE /\ tab' = [tab EXCEPT !.page = w.page + 1, !.document = tab.document + 1]
           /\ dom' = Loaded(w.page + 1, draft)
           /\ RecordDocument
           /\ w' = [w EXCEPT !.pc = "observe", !.page = w.page + 1]
  <2>1. PICK p \in DOMAIN Form : p = w.page + 1 /\ w.page \in Nat /\ w.page < p
    <3>1. w.page \in 1..Len(Form) /\ w.page < Len(Form) /\ Len(Form) \in Nat
      BY <1>1, Pages DEF Memory, IInv, BatchInv
    <3>2. w.page + 1 \in 1..Len(Form)
      BY <3>1
    <3>3. w.page + 1 \in DOMAIN Form
      BY <3>2, Pages
    <3> QED
      BY <3>1, <3>3
  <2>2. tab' \in [page : DOMAIN Form, document : Nat, ours : BOOLEAN] /\ binding' \in Nat
        /\ (live => binding' = tab'.document)
    <3>1. PICK d \in Nat : d = tab.document + 1
      BY <1>1
    <3>2. tab' = [tab EXCEPT !.page = p, !.document = d]
      BY <1>4, <2>1, <3>1
    <3>3. tab' \in [page : DOMAIN Form, document : Nat, ours : BOOLEAN]
      BY <1>1, <2>1, <3>2
    <3>4. tab'.document \in Nat
      BY <3>3
    <3>5. binding' = IF live THEN tab'.document ELSE 0
      BY <1>4 DEF RecordDocument
    <3> QED
      BY <3>3, <3>4, <3>5
  <2>3. dom' \in [Field -> Value \cup {"hidden"}]
    BY <1>4, <2>1, Loads DEF IInv
  <2>4. SiteOK' /\ DurableOK'
    BY <1>1, <2>2, <2>3 DEF IInv, TypeOK, SiteOK, DurableOK
  <2>5. /\ w' \in Memory /\ w'.pc = "observe" /\ w'.page = p /\ w'.todo = w.todo /\ w'.retained = w.retained
        /\ w'.planned = w.planned /\ w'.certificate = w.certificate
    <3>1. w' = [w EXCEPT !.pc = "observe", !.page = p]
      BY <1>4, <2>1
    <3> QED
      BY <1>1, <2>1, <3>1 DEF Memory
  <2>6. TypeOK'
    BY <1>1, <2>4, <2>5 DEF TypeOK, MemoryOK, IInv, desk
  <2>7. Fills
    BY <1>1, <1>2, <2>5, <2>6 DEF Fills, Later, FILLING
  <2>8. w.todo = {}
    BY <1>1 DEF IInv, BatchInv
  <2>9. BatchInv'
    <3>1. \A f \in w.planned : \E q \in 1..w.page : f \in FieldsOf(q)
      BY <1>1 DEF IInv, BatchInv
    <3>2. \A q \in 1..w.page : q \in 1..p /\ q < p
      BY <2>1
    <3> QED
      BY <1>1, <2>2, <2>5, <2>8, <3>1, <3>2 DEF BatchInv, FieldsOf
  <2>10. WriteInv'
    <3>1. live => \A f \in Field \ w.planned : writes[f] = 0
      BY <1>1 DEF IInv, WriteInv
    <3> QED
      BY <1>1, <1>2, <2>5, <3>1 DEF WriteInv, Started
  <2> QED
    BY <2>7, <2>9, <2>10, FillsStep
<1> QED
  BY <1>3, <1>4 DEF Advance

\* A certifiable draft is complete: its inventory is all the form asks.
LEMMA CertifyStep ==
  ASSUME IInv, Certify, UNCHANGED desk
  PROVE  IInv'
<1>1. w.pc = "certify" /\ w.pc \in FILLING \ {"readback"} /\ w \in Memory /\ w.retained \cup w.todo \subseteq w.planned
      /\ UNCHANGED <<given, run, action, manifest, certified, binding, site, ghosts, mishaps>>
  BY DEF IInv, TypeOK, MemoryOK, Certify, At, FILLING
<1>2. This \notin stray
  BY <1>1, NotStray
<1>3. action' \in [Run -> [Field -> {"none", "ATTEMPTED", "READBACK", "UNKNOWN"}]] /\ manifest' \in Revision
      /\ \A r \in Run \ {This} : action'[r] = action[r]
  BY <1>1 DEF IInv, TypeOK, DurableOK
<1>4. CASE /\ Certifiable /\ UNCHANGED <<task, current>>
           /\ w' = [w EXCEPT !.pc = "recheck", !.certificate = Certificate]
  <2>1. PICK c \in Review : c = Certificate
    <3>1. draft.id \in Nat /\ draft.rev \in Nat /\ profile.version \in Nat /\ tab.document \in Nat
      BY DEF IInv, TypeOK, SiteOK, DurableOK
    <3>2. Certificate \in Review
      BY <3>1 DEF Certificate, Review
    <3> QED
      BY <3>2
  <2>2. /\ w' \in Memory /\ w'.pc = "recheck" /\ w'.page = w.page /\ w'.planned = w.planned /\ w'.document = w.document
        /\ w'.todo = w.todo /\ w'.retained = w.retained /\ w'.certificate = c
    BY <1>1, <1>4, <2>1 DEF Memory
  <2>3. Certifies(w.certificate)'
    <3>1. Complete
      <4>1. draft.value \in [Field -> Value]
        BY DEF IInv, TypeOK, SiteOK
      <4> QED
        BY <1>4, <4>1 DEF Certifiable, Inventory, Retained, Complete, Value
    <3>2. draft' = draft /\ draft.id \in Nat /\ draft.rev \in Nat
      BY <1>1 DEF site, IInv, TypeOK, SiteOK
    <3>3. c.id = draft.id /\ c.rev = draft.rev
      BY <2>1 DEF Certificate
    <3> QED
      BY <2>2, <3>1, <3>2, <3>3 DEF Certifies, Complete
  <2>4. Goes
    BY <1>1, <1>2, <1>3, <1>4, <2>2, <2>3 DEF Goes, FILLING
  <2> QED
    BY <2>4, GoesStep
<1>5. CASE Refuse("validation", w)
  <2>1. Refused
    BY <1>1, <1>5 DEF Refused, Journals
  <2> QED
    BY <2>1, RefusedStep
<1> QED
  BY <1>4, <1>5 DEF Certify

\* A plan is READY for the profile its certificate names.
LEMMA RecheckStep ==
  ASSUME IInv, Recheck, UNCHANGED desk
  PROVE  IInv'
<1>1. w.pc = "recheck" /\ w.pc \in FILLING \ {"readback"} /\ w \in Memory /\ w.retained \cup w.todo \subseteq w.planned
      /\ UNCHANGED <<given, run, action, manifest, certified, binding, site, ghosts, mishaps>>
  BY DEF IInv, TypeOK, MemoryOK, Recheck, At, FILLING
<1>2. This \notin stray /\ w.pc \in ACTIVE \ ENDED
  BY <1>1, NotStray
<1>3. action' \in [Run -> [Field -> {"none", "ATTEMPTED", "READBACK", "UNKNOWN"}]] /\ manifest' \in Revision
      /\ \A r \in Run \ {This} : action'[r] = action[r]
  BY <1>1 DEF IInv, TypeOK, DurableOK
<1>4. CASE /\ Unmoved(w.certificate) /\ UNCHANGED <<task, current>>
           /\ w' = [w EXCEPT !.pc = "report", !.verdict = <<"READY_TO_SUBMIT", "none">>]
  <2>1. /\ w' \in Memory /\ w'.pc = "report" /\ w'.page = w.page /\ w'.planned = w.planned /\ w'.document = w.document
        /\ w'.todo = w.todo /\ w'.retained = w.retained /\ w'.certificate = w.certificate
        /\ w'.verdict = <<"READY_TO_SUBMIT", "none">>
    BY <1>1, <1>4 DEF Memory, Stage, Blocker
  <2>2. w.certificate.profile = profile.version
    BY <1>4 DEF Unmoved, Certificate
  <2>3. Goes
    BY <1>1, <1>2, <1>3, <1>4, <2>1, <2>2 DEF Goes, FILLING
  <2> QED
    BY <2>3, GoesStep
<1>5. CASE Raise("lost") /\ UNCHANGED <<task, current>>
  <2>1. "lost" \in Blocker /\ w'.pc = "raised"
    BY <1>1, <1>5 DEF Blocker, Raise, Memory
  <2>2. SiteOK' /\ Later /\ UNCHANGED <<live, profile, known, tab, stray>>
    BY <1>1 DEF IInv, TypeOK, SiteOK, site, ghosts, given, Later
  <2>3. Raised
    BY <1>1, <1>2, <1>3, <1>5, <2>1, <2>2 DEF Raised
  <2> QED
    BY <2>3, RaisedStep
<1>6. CASE Refuse("validation", w)
  <2>1. Refused
    BY <1>1, <1>6 DEF Refused, Journals
  <2> QED
    BY <2>1, RefusedStep
<1> QED
  BY <1>4, <1>5, <1>6 DEF Recheck

-----------------------------------------------------------------------------
(* The steps before and after the form.                                      *)

\* A step of the worker that touches neither the page nor a journal, and what
\* it leaves in memory.
Outside ==
  /\ UNCHANGED <<given, action, manifest, binding, site, ghosts, mishaps>>
  /\ w.pc \in {"idle", "claimed", "report"} \cup ENDED
  /\ w' \in Memory /\ w'.retained \cup w'.todo \subseteq w'.planned
  /\ w'.pc \in {"claimed", "open"} \cup ENDED
  /\ \/ w'.todo = {} /\ w'.planned = {}
     \/ w'.todo = w.todo /\ w'.page = w.page /\ w'.pc \notin {"claimed", "open"}
  /\ DurableOK'
  /\ review' \in Review /\ handler' \in Request /\ submitted' = submitted /\ level' = level
  /\ Started' = {} => Started = {}
  /\ live /\ w'.pc = "open" => Started = {}
  /\ profile.barred => ~task'.leased /\ task'.stage # "READY_TO_SUBMIT"
  /\ task'.stage = "READY_TO_SUBMIT" =>
       certified'.profile = profile.version /\ w'.pc \in ENDED /\ Started' # {}
  /\ w'.pc \in {"finish", "remember"} => certified' = w'.certificate
  /\ certified' \in {certified, w.certificate}
  /\ w'.certificate \in {w.certificate, NoCertificate}
  /\ review' \in {review, w.certificate, NoCertificate}

\* Such a step keeps all but what is known of the runs and of the requests.
LEMMA OutsideStep ==
  ASSUME IInv, Outside
  PROVE  TypeOK' /\ BatchInv' /\ WriteInv' /\ TaskInv'
<1>1. UNCHANGED <<live, known, profile, action, manifest, binding, tab, dom, draft, writes, stray, mishaps>>
  BY DEF Outside, given, site, ghosts
<1>2. TypeOK'
  <2>1. SiteOK'
    BY <1>1 DEF IInv, TypeOK, SiteOK
  <2>2. MemoryOK'
    BY <1>1 DEF Outside, IInv, TypeOK, MemoryOK
  <2> QED
    BY <2>1, <2>2 DEF Outside, TypeOK
<1>3. w'.pc \notin FILLING \cup {"report"}
  BY DEF Outside, ENDED, FILLING
<1>4. BatchInv'
  <2>1. w'.todo \subseteq FieldsOf(w'.page)
    BY DEF Outside, IInv, BatchInv
  <2>2. w'.pc \in {"claimed", "open"} => w'.planned = {}
    BY DEF Outside
  <2>3. live' => binding' <= tab'.document
    BY <1>1 DEF IInv, BatchInv
  <2> QED
    BY <1>3, <2>1, <2>2, <2>3 DEF BatchInv, FILLING, FieldsOf
<1>5. WriteInv'
  <2>1. live /\ (Started' = {} \/ w'.pc = "open") => \A f \in Field : writes[f] = 0
    BY DEF Outside, IInv, WriteInv
  <2> QED
    BY <1>1, <1>3, <2>1 DEF WriteInv, FILLING
<1>6. TaskInv'
  <2>1. ASSUME NEW c \in {certified, w.certificate, review, NoCertificate}
        PROVE  Certifies(c)'
    <3>1. Certifies(certified) /\ Certifies(w.certificate) /\ Certifies(review)
      BY DEF IInv, TaskInv
    <3>2. Certifies(NoCertificate)
      <4>1. draft.id \in 1..2
        BY DEF IInv, TypeOK, SiteOK
      <4> QED
        BY <4>1, Pages DEF Certifies
    <3>3. Certifies(c)
      BY <3>1, <3>2 DEF Certifies
    <3> QED
      BY <1>1, <3>3 DEF Certifies, Complete
  <2>2. Certifies(certified)' /\ Certifies(w.certificate)' /\ Certifies(review)'
    BY <2>1 DEF Outside, Certifies, Complete
  <2> QED
    BY <1>1, <1>3, <2>2 DEF Outside, TaskInv
<1> QED
  BY <1>2, <1>4, <1>5, <1>6

\* What such a step leaves of the memory.
LEMMA MemoryMoves ==
  ASSUME IInv, NEW pc \in {"finish", "remember", "blocking"}, Goto(pc)
  PROVE  /\ w' \in Memory /\ w'.retained \cup w'.todo \subseteq w'.planned /\ w'.pc = pc
         /\ w'.todo = w.todo /\ w'.page = w.page /\ w'.certificate = w.certificate /\ w'.verdict = w.verdict
<1>1. w \in Memory /\ w.retained \cup w.todo \subseteq w.planned
  BY DEF IInv, TypeOK, MemoryOK
<1> QED
  BY <1>1 DEF Goto, Memory

\* What a runner that rests, or has just claimed, has in memory.
LEMMA MemoryRests ==
  ASSUME w' = Resting \/ w' = [Resting EXCEPT !.pc = "claimed"]
  PROVE  /\ w' \in Memory /\ w'.retained \cup w'.todo \subseteq w'.planned /\ w'.pc \in {"idle", "claimed"}
         /\ w'.todo = {} /\ w'.planned = {} /\ w'.certificate = NoCertificate
         /\ (w' = Resting => w'.pc = "idle") /\ (w' # Resting => w'.pc = "claimed")
<1>1. Resting \in Memory /\ Resting.retained = {} /\ Resting.todo = {} /\ Resting.planned = {}
      /\ Resting.certificate = NoCertificate /\ Resting.pc = "idle"
  BY Pages DEF Resting
<1> QED
  BY <1>1 DEF Memory

\* The checkpoint takes over the certificate, under a profile nobody is writing.
LEMMA ReportStep ==
  ASSUME IInv, Report, UNCHANGED desk
  PROVE  IInv'
<1>1. w.pc = "report" /\ w \in Memory /\ UNCHANGED <<given, run, action, manifest, binding, site, ghosts, mishaps>>
      /\ UNCHANGED <<review, handler, submitted, level>>
  BY DEF IInv, TypeOK, MemoryOK, Report, At, desk
<1>2. UNCHANGED <<live, known, profile, tab, dom, draft, writes, stray>>
  BY <1>1 DEF given, site, ghosts
<1>3. This \in Run /\ run[This] = "ATTEMPTED" /\ This \notin stray /\ Started # {} /\ Started' = Started
  BY <1>1 DEF IInv, RunInv, ACTIVE, Started
<1>4. action' \in [Run -> [Field -> {"none", "ATTEMPTED", "READBACK", "UNKNOWN"}]]
  BY <1>1 DEF IInv, TypeOK, DurableOK
<1>5. CASE /\ Readbacks /\ task.leased /\ Checkpoint(w.verdict[1], w.verdict[2], TRUE)
           /\ certified' = w.certificate /\ Goto("finish")
  <2>1. /\ w' \in Memory /\ w'.retained \cup w'.todo \subseteq w'.planned /\ w'.pc = "finish"
        /\ w'.todo = w.todo /\ w'.page = w.page /\ w'.certificate = w.certificate
    BY <1>5, MemoryMoves
  <2>2. w.verdict \in Stage \X Blocker /\ w.verdict[1] # "none" /\ ~profile.barred
        /\ (w.verdict[1] = "READY_TO_SUBMIT" => w.certificate.profile = profile.version)
    BY <1>1, <1>5 DEF Memory, IInv, TaskInv
  <2>3. task' = [stage |-> w.verdict[1], blocker |-> w.verdict[2], leased |-> FALSE] /\ current' = {}
    BY <1>5 DEF Checkpoint
  <2>4. DurableOK'
    <3>1. task' \in [stage : Stage \ {"none"}, blocker : Blocker, leased : BOOLEAN] /\ ~task'.leased
      BY <2>2, <2>3
    <3>2. certified' \in Review
      BY <1>1, <1>5 DEF Memory
    <3> QED
      BY <1>1, <1>2, <2>3, <3>1, <3>2 DEF IInv, TypeOK, DurableOK
  <2>5. task'.stage = "READY_TO_SUBMIT" => certified'.profile = profile.version
    BY <1>5, <2>2, <2>3
  <2>6. review \in Review /\ handler \in Request
    BY DEF IInv, TypeOK, MemoryOK
  <2>7. Outside
    BY <1>1, <1>3, <1>5, <2>1, <2>2, <2>4, <2>5, <2>6 DEF Outside, ENDED
  <2>8. TypeOK' /\ BatchInv' /\ WriteInv' /\ TaskInv'
    BY <2>7, OutsideStep
  <2>9. Steps /\ w'.pc \in ACTIVE
    BY <1>1, <1>2, <1>3, <2>1 DEF Steps, ACTIVE
  <2>10. RunInv'
    BY <2>9, StepsRun DEF IInv
  <2>11. DeskInv'
    BY <1>1, <1>2, DeskWhileRunning DEF IInv, ENDED
  <2> QED
    BY <2>8, <2>10, <2>11 DEF IInv
<1>6. ASSUME NEW why \in {"unknown_outcome", "lost"}, Raise(why), UNCHANGED <<task, current, certified>>
      PROVE  IInv'
  <2>1. why \in Blocker /\ w'.pc = "raised"
    BY <1>1, <1>6 DEF Blocker, RECONCILIATION_REQUIRED, Raise, Memory
  <2>2. SiteOK'
    BY <1>1, <1>2 DEF IInv, TypeOK, SiteOK
  <2>3. Raised
    BY <1>1, <1>2, <1>4, <1>6, <2>1, <2>2 DEF Raised, Later, ACTIVE, ENDED
  <2> QED
    BY <2>3, RaisedStep
<1> QED
  BY <1>5, <1>6 DEF Report

\* A step that gives the run its outcome.
LEMMA OutcomeStep ==
  ASSUME IInv, w.pc \in {"finish", "raised"}, NEW outcome \in {"RETURNED", "UNKNOWN"},
         outcome = "RETURNED" => Readbacks /\ This \notin stray,
         run' = [run EXCEPT ![This] = outcome], Goto(IF outcome = "RETURNED" THEN "remember" ELSE "blocking"),
         UNCHANGED <<given, task, current, action, manifest, certified, binding, site, ghosts, mishaps, desk>>,
         w.pc = "finish" <=> outcome = "RETURNED"
  PROVE  IInv'
<1>1. UNCHANGED <<live, known, profile, tab, dom, draft, writes, stray, review, handler, submitted, level>>
  BY DEF given, site, ghosts, desk
<1>2. This \in Run /\ run[This] = "ATTEMPTED" /\ Started # {}
      /\ \A r \in Run \ {This} : run[r] \in {"none", "RETURNED"}
  BY DEF IInv, RunInv, ACTIVE, Started
<1>3. run \in [Run -> {"none", "ATTEMPTED", "RETURNED", "UNKNOWN"}]
      /\ action \in [Run -> [Field -> {"none", "ATTEMPTED", "READBACK", "UNKNOWN"}]]
  BY DEF IInv, TypeOK, DurableOK
<1>4. Started' = Started /\ This' = This
  BY <1>2, <1>3 DEF Started, This
<1>5. PICK pc \in {"remember", "blocking"} : Goto(pc) /\ pc = IF outcome = "RETURNED" THEN "remember" ELSE "blocking"
  OBVIOUS
<1>6. /\ w' \in Memory /\ w'.retained \cup w'.todo \subseteq w'.planned /\ w'.pc = pc
      /\ w'.todo = w.todo /\ w'.page = w.page /\ w'.certificate = w.certificate
  BY <1>5, MemoryMoves
<1>7. DurableOK'
  <2>1. run' \in [Run -> {"none", "ATTEMPTED", "RETURNED", "UNKNOWN"}]
    BY <1>2, <1>3
  <2> QED
    BY <1>1, <2>1 DEF IInv, TypeOK, DurableOK
<1>8. Outside
  <2>1. review \in Review /\ handler \in Request
    BY DEF IInv, TypeOK, MemoryOK
  <2>2. w'.pc = "remember" => certified = w.certificate
    BY <1>5, <1>6 DEF IInv, TaskInv, RunInv
  <2>3. /\ profile.barred => ~task'.leased /\ task'.stage # "READY_TO_SUBMIT"
        /\ task'.stage = "READY_TO_SUBMIT" => certified'.profile = profile.version
    BY DEF IInv, TaskInv
  <2> QED
    BY <1>1, <1>2, <1>4, <1>6, <1>7, <2>1, <2>2, <2>3 DEF Outside, ENDED
<1>9. RunInv'
  <2>1. ASSUME NEW r \in Run, run'[r] \in {"none", "RETURNED"} PROVE r \notin stray
    BY <1>2, <1>3, <2>1 DEF IInv, RunInv
  <2>2. ReturnedIsObserved'
    <3>1. SUFFICES ASSUME NEW r \in Run, run'[r] = "RETURNED"
                   PROVE  r \notin stray /\ \A f \in Field : action[r][f] \in {"none", "READBACK"}
      BY <1>1 DEF ReturnedIsObserved
    <3>2. CASE r = This
      <4>1. \A f \in Field : action[This][f] \in {"none", "READBACK"}
        BY <1>2, <1>3, <3>1, <3>2 DEF Readbacks
      <4> QED
        BY <2>1, <3>1, <3>2, <4>1
    <3>3. CASE r # This
      BY <1>2, <1>3, <3>1, <3>3 DEF IInv, RunInv, ReturnedIsObserved
    <3> QED
      BY <3>2, <3>3
  <2>3. \E k \in 0..MaxRuns : Started' = 1..k
    BY <1>4 DEF IInv, RunInv
  <2>4. w'.pc \notin ACTIVE \cup {"claimed"}
    BY <1>6 DEF ACTIVE
  <2> QED
    BY <1>1, <1>2, <1>4, <2>1, <2>2, <2>3, <2>4 DEF RunInv
<1>10. DeskInv'
  <2>1. w.pc \notin {"idle", "claimed"} /\ w'.pc \in ENDED
    BY <1>6 DEF ENDED
  <2> QED
    BY <1>1, <1>2, <1>4, <2>1, DeskWhileEnding DEF IInv
<1> QED
  BY <1>8, <1>9, <1>10, OutsideStep DEF IInv

\* A run returns with every field read back, or raises.
LEMMA FinishRunStep ==
  ASSUME IInv, FinishRun, UNCHANGED desk
  PROVE  IInv'
<1>1. w.pc = "finish" /\ w \in Memory
      /\ UNCHANGED <<given, task, current, action, manifest, certified, binding, site, ghosts, mishaps>>
  BY DEF IInv, TypeOK, MemoryOK, FinishRun, At
<1>2. This \in Run /\ This \notin stray /\ Started # {}
  BY <1>1 DEF IInv, RunInv, ACTIVE, Started
<1>3. CASE Readbacks /\ run' = [run EXCEPT ![This] = "RETURNED"] /\ Goto("remember")
  BY <1>1, <1>2, <1>3, OutcomeStep
<1>4. CASE Raise("unknown_outcome") /\ UNCHANGED run
  <2>1. UNCHANGED <<live, known, profile, tab, dom, draft, writes, stray, review, handler, submitted, level>>
    BY <1>1 DEF given, site, ghosts, desk
  <2>2. /\ w' \in Memory /\ w'.pc = "raised" /\ w'.todo = w.todo /\ w'.page = w.page /\ w'.retained = w.retained
        /\ w'.planned = w.planned /\ w'.certificate = w.certificate
    BY <1>1, <1>4 DEF Raise, Memory, Stage, Blocker, RECONCILIATION_REQUIRED
  <2>3. DurableOK' /\ Started' = Started /\ w.retained \cup w.todo \subseteq w.planned
        /\ review \in Review /\ handler \in Request
    BY <1>1, <1>4, <2>1 DEF IInv, TypeOK, DurableOK, MemoryOK, Started
  <2>4. /\ profile.barred => ~task.leased /\ task.stage # "READY_TO_SUBMIT"
        /\ task.stage = "READY_TO_SUBMIT" => certified.profile = profile.version
    BY DEF IInv, TaskInv
  <2>5. Outside
    BY <1>1, <1>2, <2>1, <2>2, <2>3, <2>4 DEF Outside, ENDED
  <2>6. Steps /\ w'.pc \in ACTIVE
    BY <1>1, <1>4, <2>1, <2>2 DEF Steps, ACTIVE
  <2>7. RunInv'
    BY <2>6, StepsRun DEF IInv
  <2>8. DeskInv'
    BY <1>1, <1>2, <2>1, <2>2, <2>3, DeskWhileEnding DEF IInv, ENDED
  <2> QED
    BY <2>5, <2>7, <2>8, OutsideStep DEF IInv
<1> QED
  BY <1>3, <1>4 DEF FinishRun

\* A run that raised stays unsettled.
LEMMA FailRunStep ==
  ASSUME IInv, FailRun, UNCHANGED desk
  PROVE  IInv'
BY OutcomeStep DEF FailRun, At

\* The runner rests, and its task is blocked if it still had the lease.
LEMMA BlockTaskStep ==
  ASSUME IInv, BlockTask, UNCHANGED desk
  PROVE  IInv'
<1>1. w.pc = "blocking" /\ w \in Memory /\ w' = Resting
      /\ UNCHANGED <<given, run, action, manifest, certified, binding, site, ghosts, mishaps>>
  BY DEF IInv, TypeOK, MemoryOK, BlockTask, At
<1>2. UNCHANGED <<live, known, profile, tab, dom, draft, writes, stray, review, handler, submitted, level>>
  BY <1>1 DEF given, site, ghosts, desk
<1>3. /\ w' \in Memory /\ w'.retained \cup w'.todo \subseteq w'.planned /\ w'.pc = "idle"
      /\ w'.todo = {} /\ w'.planned = {} /\ w'.certificate = NoCertificate
  BY <1>1, MemoryRests
<1>4. Started' = Started /\ This' = This /\ review \in Review /\ handler \in Request /\ Started # {}
  BY <1>1, <1>2 DEF IInv, TypeOK, MemoryOK, Started, This, RunInv
<1>5. /\ DurableOK'
      /\ profile.barred => ~task'.leased /\ task'.stage # "READY_TO_SUBMIT"
      /\ task'.stage = "READY_TO_SUBMIT" => certified'.profile = profile.version
  <2>1. PICK why \in Blocker : why = IF w.verdict[2] = "lost" THEN "unknown_outcome" ELSE w.verdict[2]
    BY <1>1 DEF Memory, Blocker, RECONCILIATION_REQUIRED
  <2>2. CASE task' = [stage |-> "BLOCKED", blocker |-> why, leased |-> FALSE] /\ current' = {}
    <3>1. task' \in [stage : Stage \ {"none"}, blocker : Blocker, leased : BOOLEAN]
      BY <2>2 DEF Stage
    <3> QED
      BY <1>1, <1>2, <2>2, <3>1 DEF IInv, TypeOK, DurableOK, TaskInv
  <2>3. CASE UNCHANGED <<task, current>>
    BY <1>1, <1>2, <2>3 DEF IInv, TypeOK, DurableOK, TaskInv
  <2> QED
    BY <2>1, <2>2, <2>3 DEF BlockTask, Checkpoint
<1>6. Outside
  BY <1>1, <1>2, <1>3, <1>4, <1>5 DEF Outside, ENDED
<1>7. RunInv'
  BY <1>1, <1>2, <1>3, <1>4 DEF IInv, RunInv, ReturnedIsObserved, ACTIVE
<1>8. DeskInv'
  <2>1. w.pc \notin {"idle", "claimed"} /\ w'.pc \in ENDED /\ w'.pc \in {"idle", "claimed"}
    BY <1>1, <1>3 DEF ENDED
  <2> QED
    BY <1>1, <1>2, <1>4, <2>1, DeskWhileEnding DEF IInv
<1> QED
  BY <1>6, <1>7, <1>8, OutsideStep DEF IInv

\* A task is claimed when all its runs returned, and none is astray.
LEMMA ClaimStep ==
  ASSUME IInv, Claim, UNCHANGED desk
  PROVE  IInv'
<1>1. w.pc = "idle" /\ w \in Memory /\ w.retained \cup w.todo \subseteq w.planned /\ task.stage = "DISCOVERED" /\ ~profile.barred
      /\ UNCHANGED <<given, action, manifest, certified, binding, site, ghosts, mishaps>> /\ current' = {}
  BY DEF IInv, TypeOK, MemoryOK, Claim, Runnable
<1>2. UNCHANGED <<live, known, profile, tab, dom, draft, writes, stray, review, handler, submitted, level>>
  BY <1>1 DEF given, site, ghosts, desk
<1>3. review \in Review /\ handler \in Request
      /\ run \in [Run -> {"none", "ATTEMPTED", "RETURNED", "UNKNOWN"}]
      /\ task \in [stage : Stage \ {"none"}, blocker : Blocker, leased : BOOLEAN]
  BY DEF IInv, TypeOK, MemoryOK, DurableOK
<1>4. CASE /\ Unsettled # {}
           /\ task' = [stage |-> "BLOCKED", blocker |-> "unknown_outcome", leased |-> FALSE]
           /\ run' = [r \in Run |-> IF r \in Unsettled THEN "UNKNOWN" ELSE run[r]]
           /\ UNCHANGED w
  <2>1. run' \in [Run -> {"none", "ATTEMPTED", "RETURNED", "UNKNOWN"}]
    BY <1>3, <1>4
  <2>2. DurableOK'
    <3>1. task' \in [stage : Stage \ {"none"}, blocker : Blocker, leased : BOOLEAN]
      BY <1>4 DEF Stage, Blocker, RECONCILIATION_REQUIRED
    <3> QED
      BY <1>1, <1>2, <1>4, <2>1, <3>1 DEF IInv, TypeOK, DurableOK
  <2>3. \A r \in Run : /\ run'[r] \in {"none", "RETURNED"} <=> run[r] \in {"none", "RETURNED"}
                       /\ run'[r] = "none" <=> run[r] = "none"
                       /\ run'[r] = "RETURNED" <=> run[r] = "RETURNED"
    BY <1>3, <1>4 DEF Unsettled
  <2>4. Started' = Started
    BY <2>3 DEF Started
  <2>5. Outside
    BY <1>1, <1>2, <1>3, <1>4, <2>2, <2>4 DEF Outside, ENDED
  <2>6. RunInv'
    <3>1. ReturnedIsObserved'
      BY <1>1, <1>2, <2>3 DEF IInv, RunInv, ReturnedIsObserved
    <3>2. w'.pc = "idle" /\ \E k \in 0..MaxRuns : Started' = 1..k
      BY <1>1, <1>4, <2>4 DEF IInv, RunInv
    <3>3. \A r \in Run : run'[r] \in {"none", "RETURNED"} => r \notin stray'
      BY <1>2, <2>3 DEF IInv, RunInv
    <3> QED
      BY <3>1, <3>2, <3>3 DEF RunInv, ACTIVE
  <2>7. DeskInv'
    <3>1. w'.pc \in {"idle", "claimed"} /\ w'.pc \in ENDED
      BY <1>1, <1>4 DEF ENDED
    <3> QED
      BY <1>1, <1>2, <2>4, <3>1, DeskWhileEnding DEF IInv
  <2> QED
    BY <2>5, <2>6, <2>7, OutsideStep DEF IInv
<1>5. CASE /\ Unsettled = {}
           /\ task' = [task EXCEPT !.leased = TRUE]
           /\ w' = [Resting EXCEPT !.pc = "claimed"]
           /\ UNCHANGED run
  <2>1. /\ w' \in Memory /\ w'.retained \cup w'.todo \subseteq w'.planned /\ w'.pc = "claimed"
        /\ w'.todo = {} /\ w'.planned = {} /\ w'.certificate = NoCertificate
    <3>1. Resting.pc = "idle" /\ w'.pc = "claimed"
      BY <1>5, Pages DEF Resting, Memory
    <3> QED
      BY <1>5, <3>1, MemoryRests
  <2>2. task' \in [stage : Stage \ {"none"}, blocker : Blocker, leased : BOOLEAN] /\ task'.stage = "DISCOVERED"
    BY <1>1, <1>3, <1>5
  <2>3. DurableOK'
    BY <1>1, <1>2, <1>5, <2>2 DEF IInv, TypeOK, DurableOK
  <2>4. Started' = Started
    BY <1>5 DEF Started
  <2>5. Outside
    BY <1>1, <1>2, <1>3, <2>1, <2>2, <2>3, <2>4 DEF Outside, ENDED
  <2>6. RunInv'
    <3>1. \A r \in Run : run[r] \in {"none", "RETURNED"}
      BY <1>3, <1>5 DEF Unsettled
    <3>2. ReturnedIsObserved'
      BY <1>1, <1>2, <1>5 DEF IInv, RunInv, ReturnedIsObserved
    <3>3. w'.pc \notin ACTIVE \cup {"remember", "blocking"}
      BY <2>1 DEF ACTIVE
    <3>4. \E k \in 0..MaxRuns : Started' = 1..k
      BY <2>4 DEF IInv, RunInv
    <3>5. \A r \in Run : run[r] \in {"none", "RETURNED"} => r \notin stray
      BY DEF IInv, RunInv
    <3> QED
      BY <1>2, <1>5, <3>1, <3>2, <3>3, <3>4, <3>5 DEF RunInv
  <2>7. DeskInv'
    BY <1>1, <1>2, <2>1, <2>4, DeskWhileEnding DEF IInv
  <2> QED
    BY <2>5, <2>6, <2>7, OutsideStep DEF IInv
<1> QED
  BY <1>4, <1>5 DEF Claim

\* The row of the new run is the next one; in the applicant's Chrome the first.
LEMMA BeginAttemptStep ==
  ASSUME IInv, BeginAttempt, UNCHANGED desk
  PROVE  IInv'
<1>1. w.pc = "claimed" /\ w \in Memory /\ w.retained \cup w.todo \subseteq w.planned /\ w.planned = {}
      /\ UNCHANGED <<given, action, manifest, certified, binding, site, ghosts, mishaps>>
  BY DEF IInv, TypeOK, MemoryOK, BeginAttempt, BatchInv
<1>2. UNCHANGED <<live, known, profile, tab, dom, draft, writes, stray, review, handler, submitted, level>>
  BY <1>1 DEF given, site, ghosts, desk
<1>3. review \in Review /\ handler \in Request
      /\ run \in [Run -> {"none", "ATTEMPTED", "RETURNED", "UNKNOWN"}]
      /\ task \in [stage : Stage \ {"none"}, blocker : Blocker, leased : BOOLEAN]
      /\ task.stage # "READY_TO_SUBMIT" /\ (profile.barred => ~task.leased)
      /\ \A r \in Run : run[r] \in {"none", "RETURNED"} /\ r \notin stray
  BY <1>1 DEF IInv, TypeOK, MemoryOK, DurableOK, TaskInv, RunInv, ENDED
<1>4. This \in 0..MaxRuns /\ Started = 1..This /\ (Started = {} <=> This = 0) /\ MaxRuns \in Nat
  BY Runs, FormAssumption DEF IInv
<1>5. ASSUME w' = Resting, UNCHANGED run, DurableOK', profile.barred => ~task'.leased, task'.stage # "READY_TO_SUBMIT"
      PROVE  IInv'
  <2>1. /\ w' \in Memory /\ w'.retained \cup w'.todo \subseteq w'.planned /\ w'.pc = "idle"
        /\ w'.todo = {} /\ w'.planned = {} /\ w'.certificate = NoCertificate
    BY <1>5, MemoryRests
  <2>2. Started' = Started
    BY <1>5 DEF Started
  <2>3. Outside
    BY <1>1, <1>2, <1>3, <1>5, <2>1, <2>2 DEF Outside, ENDED
  <2>4. RunInv'
    BY <1>1, <1>2, <1>5, <2>1, <2>2 DEF IInv, RunInv, ReturnedIsObserved, ACTIVE
  <2>5. DeskInv'
    BY <1>1, <1>2, <2>1, <2>2, DeskWhileEnding DEF IInv, ENDED
  <2> QED
    BY <2>3, <2>4, <2>5, OutsideStep DEF IInv
<1>6. CASE w' = Resting /\ UNCHANGED <<task, current, run>>
  <2>1. DurableOK'
    BY <1>1, <1>2, <1>6 DEF IInv, TypeOK, DurableOK
  <2> QED
    BY <1>3, <1>5, <1>6, <2>1
<1>7. CASE Checkpoint("BLOCKED", "browser_ownership_unknown", TRUE) /\ w' = Resting /\ UNCHANGED run
  <2>1. task' = [stage |-> "BLOCKED", blocker |-> "browser_ownership_unknown", leased |-> FALSE] /\ current' = {}
    BY <1>7 DEF Checkpoint
  <2>2. task' \in [stage : Stage \ {"none"}, blocker : Blocker, leased : BOOLEAN] /\ ~task'.leased
        /\ task'.stage # "READY_TO_SUBMIT"
    BY <2>1 DEF Stage, Blocker, RECONCILIATION_REQUIRED
  <2>3. DurableOK'
    BY <1>1, <1>2, <1>7, <2>1, <2>2 DEF IInv, TypeOK, DurableOK
  <2> QED
    BY <1>5, <1>7, <2>2, <2>3
<1>8. CASE /\ This # MaxRuns /\ Gate /\ run' = [run EXCEPT ![This + 1] = "ATTEMPTED"]
           /\ w' = [w EXCEPT !.pc = "open"] /\ UNCHANGED <<task, current>>
  <2>1. PICK n \in Run : n = This + 1
    BY <1>4, <1>8 DEF Run
  <2>2. Started' = 1..n
    <3>1. \A r \in Run : run'[r] # "none" <=> run[r] # "none" \/ r = n
      BY <1>3, <1>8, <2>1
    <3>2. Started' = Started \cup {n}
      BY <2>1, <3>1 DEF Started
    <3> QED
      BY <1>4, <2>1, <3>2
  <2>3. This' = n
    BY <2>1, <2>2, FS_Interval DEF This, Run
  <2>4. /\ w' \in Memory /\ w'.retained \cup w'.todo \subseteq w'.planned /\ w'.pc = "open"
        /\ w'.todo = {} /\ w'.planned = {} /\ w'.certificate = w.certificate
    BY <1>1, <1>8 DEF Memory
  <2>5. DurableOK'
    <3>1. run' \in [Run -> {"none", "ATTEMPTED", "RETURNED", "UNKNOWN"}]
      BY <1>3, <1>8, <2>1
    <3> QED
      BY <1>1, <1>2, <1>8, <3>1 DEF IInv, TypeOK, DurableOK
  <2>6. Outside
    <3>1. Started' # {}
      BY <2>1, <2>2 DEF Run
    <3>2. live => Started = {}
      BY <1>8 DEF Gate
    <3> QED
      BY <1>1, <1>2, <1>3, <1>8, <2>4, <2>5, <3>1, <3>2 DEF Outside
  <2>7. RunInv'
    <3>1. \A r \in Run \ {n} : run'[r] = run[r]
      BY <1>3, <1>8, <2>1
    <3>2. run'[n] = "ATTEMPTED"
      BY <1>3, <1>8, <2>1
    <3>3. \E k \in 0..MaxRuns : Started' = 1..k
      BY <2>1, <2>2 DEF Run
    <3>4. ReturnedIsObserved'
      BY <1>1, <1>2, <3>1, <3>2 DEF IInv, RunInv, ReturnedIsObserved
    <3>5. w'.pc \notin {"claimed", "remember", "blocking", "raised"}
      BY <2>4
    <3> QED
      BY <1>2, <1>3, <2>1, <2>3, <3>1, <3>2, <3>3, <3>4, <3>5 DEF RunInv
  <2>8. DeskInv'
    <3>1. live => Started = {}
      BY <1>8 DEF Gate
    <3> QED
      BY <1>1, <1>2, <3>1, DeskWhileEnding DEF IInv
  <2> QED
    BY <2>6, <2>7, <2>8, OutsideStep DEF IInv
<1> QED
  BY <1>6, <1>7, <1>8 DEF BeginAttempt

\* A request that is in flight is still typed when it, or the cache, moves.
LEMMA RequestMoves ==
  ASSUME TypeOK, NEW pc \in {"lookup", "readback", "publish", "shown"}, NEW b \in BOOLEAN
  PROVE  /\ [handler EXCEPT !.paired = b] \in Request
         /\ [handler EXCEPT !.moved = b] \in Request
         /\ [handler EXCEPT !.pc = pc] \in Request
         /\ handler \in Request
BY DEF TypeOK, MemoryOK, Request

\* The cache takes the certificate of the task; until then it held none.
LEMMA RememberStep ==
  ASSUME IInv, Remember
  PROVE  IInv'
<1>1. w.pc = "remember" /\ w \in Memory /\ w' = Resting
      /\ UNCHANGED <<given, task, run, action, manifest, certified, binding, site, ghosts, mishaps, submitted, level>>
  BY DEF IInv, TypeOK, MemoryOK, Remember, At
<1>2. UNCHANGED <<live, known, profile, tab, dom, draft, writes, stray>>
  BY <1>1 DEF given, site, ghosts
<1>3. /\ w' \in Memory /\ w'.retained \cup w'.todo \subseteq w'.planned /\ w'.pc = "idle"
      /\ w'.todo = {} /\ w'.planned = {} /\ w'.certificate = NoCertificate
  BY <1>1, MemoryRests
<1>4. Started' = Started /\ This' = This /\ Started # {} /\ certified = w.certificate
  BY <1>1 DEF IInv, Started, This, RunInv, TaskInv
<1>5. PICK b \in BOOLEAN : handler' = [handler EXCEPT !.paired = b]
  <2>1. ("handler" \in current) \in BOOLEAN
    OBVIOUS
  <2> QED
    BY <2>1 DEF Remember, Unpaired
<1>6. handler' \in Request /\ handler'.pc = handler.pc /\ handler'.moved = handler.moved
      /\ handler'.expects = handler.expects /\ handler'.proof = handler.proof
  BY <1>5 DEF IInv, TypeOK, MemoryOK, Request
<1>7. review' = NoCertificate \/ (review' = w.certificate /\ w.verdict[1] = "READY_TO_SUBMIT")
  BY DEF Remember, Empty
<1>8. DurableOK'
  <2>1. current' \subseteq {"cache", "user", "handler"}
    BY DEF IInv, TypeOK, DurableOK, Remember
  <2> QED
    BY <1>1, <1>2, <2>1 DEF IInv, TypeOK, DurableOK
<1>9. Outside
  <2>1. review' \in Review
    BY <1>1, <1>7, Pages DEF Memory
  <2>2. /\ profile.barred => ~task.leased /\ task.stage # "READY_TO_SUBMIT"
        /\ task.stage = "READY_TO_SUBMIT" => certified.profile = profile.version
    BY DEF IInv, TaskInv
  <2> QED
    BY <1>1, <1>2, <1>3, <1>4, <1>6, <1>7, <1>8, <2>1, <2>2 DEF Outside, ENDED
<1>10. RunInv'
  BY <1>1, <1>2, <1>3, <1>4 DEF IInv, RunInv, ReturnedIsObserved, ACTIVE
<1>11. DeskInv'
  <2>1. live => review = NoCertificate /\ handler.expects = 0 /\ level # "server" /\ ~handler.proof
    BY <1>1 DEF IInv, DeskInv
  <2>2. ~(live /\ handler.pc \in {"publish", "shown"} /\ ~handler.moved)
    <3>1. draft.id \in 1..2 /\ NoCertificate.id = 0
      BY Pages DEF IInv, TypeOK, SiteOK
    <3> QED
      BY <2>1, <3>1 DEF IInv, DeskInv
  <2>3. live /\ handler.pc \in REVIEWING => handler.pc # "private"
    BY DEF IInv, DeskInv
  <2>4. CASE live
    BY <1>1, <1>2, <1>3, <1>4, <1>6, <1>7, <2>1, <2>2, <2>3, <2>4 DEF DeskInv, ENDED
  <2>5. CASE ~live
    <3>1. ~handler.proof /\ level # "server"
      BY <2>5 DEF IInv, DeskInv
    <3> QED
      BY <1>1, <1>2, <1>6, <2>5, <3>1 DEF DeskInv
  <2> QED
    BY <2>4, <2>5
<1> QED
  BY <1>9, <1>10, <1>11, OutsideStep DEF IInv

-----------------------------------------------------------------------------
(* What else happens to the task.                                            *)

\* A step on the task that leaves the run alone: it takes the lease away at
\* most, and a profile that is written finds the task neither leased nor READY.
OnTheTask ==
  /\ Elsewhere /\ certified' = certified /\ DurableOK' /\ mishaps' \in 0..MaxMishaps
  /\ task'.leased => task.leased
  /\ task'.stage = "READY_TO_SUBMIT" => task.stage = "READY_TO_SUBMIT"
  /\ profile'.barred => ~task'.leased /\ task'.stage # "READY_TO_SUBMIT"
  /\ profile'.version # profile.version => ~task'.leased /\ task'.stage # "READY_TO_SUBMIT"

\* Such a step keeps the invariant: a READY task has no other profile.
LEMMA OnTheTaskStep ==
  ASSUME IInv, OnTheTask
  PROVE  IInv'
<1>1. UNCHANGED <<live, run, action, manifest, binding, tab, dom, draft, w, writes, stray, review, handler, submitted, level,
                  certified>>
  BY DEF OnTheTask, Elsewhere, site, ghosts, desk
<1>2. TypeOK'
  <2>1. SiteOK'
    BY <1>1 DEF IInv, TypeOK, SiteOK, OnTheTask
  <2>2. MemoryOK'
    BY <1>1 DEF IInv, TypeOK, MemoryOK
  <2> QED
    BY <2>1, <2>2 DEF OnTheTask, TypeOK
<1>3. Aside
  BY <1>1 DEF IInv, TypeOK, SiteOK, Aside, ghosts
<1>4. RunInv' /\ BatchInv' /\ WriteInv'
  BY <1>3, AsideStep DEF IInv
<1>5. Started' = Started /\ Complete' = Complete
  BY <1>1 DEF Started, Complete
<1>6. TaskInv'
  <2>1. Certifies(certified)' /\ Certifies(w.certificate)' /\ Certifies(review)'
    BY <1>1, <1>5 DEF IInv, TaskInv, Certifies
  <2>2. task'.stage = "READY_TO_SUBMIT" => certified.profile = profile'.version /\ w.pc \in ENDED /\ Started # {}
    BY DEF OnTheTask, IInv, TaskInv
  <2>3. w.pc = "report" /\ w.verdict[1] = "READY_TO_SUBMIT" /\ task'.leased => w.certificate.profile = profile'.version
    BY DEF OnTheTask, IInv, TaskInv
  <2>4. profile'.barred => ~task'.leased /\ task'.stage # "READY_TO_SUBMIT"
    BY DEF OnTheTask
  <2>5. /\ w.pc = "report" => w.verdict[1] # "none"
        /\ w.pc \in {"finish", "remember"} => certified = w.certificate
    BY DEF IInv, TaskInv
  <2> QED
    BY <1>1, <1>5, <2>1, <2>2, <2>3, <2>4, <2>5 DEF TaskInv
<1>7. DeskInv'
  BY <1>1, <1>5 DEF IInv, DeskInv
<1> QED
  BY <1>2, <1>4, <1>6, <1>7 DEF IInv

\* The next mishap is within the bound.
LEMMA MishapTyped ==
  ASSUME TypeOK, Mishap
  PROVE  mishaps' \in 0..MaxMishaps
BY FormAssumption DEF TypeOK, SiteOK, Mishap

\* A lease that expires takes nothing else away.
LEMMA LeaseExpiresStep ==
  ASSUME IInv, LeaseExpires
  PROVE  IInv'
<1>1. task \in [stage : Stage \ {"none"}, blocker : Blocker, leased : BOOLEAN]
  BY DEF IInv, TypeOK, DurableOK
<1>2. /\ task' \in [stage : Stage \ {"none"}, blocker : Blocker, leased : BOOLEAN]
      /\ ~task'.leased /\ task'.stage = task.stage
  BY <1>1 DEF LeaseExpires
<1>3. DurableOK'
  BY <1>2 DEF LeaseExpires, Elsewhere, IInv, TypeOK, DurableOK
<1>4. mishaps' \in 0..MaxMishaps
  BY MishapTyped DEF LeaseExpires, IInv
<1>5. /\ UNCHANGED <<certified, profile>> /\ Elsewhere
      /\ profile.barred => task.stage # "READY_TO_SUBMIT"
  BY DEF LeaseExpires, IInv, TaskInv
<1>6. OnTheTask
  BY <1>2, <1>3, <1>4, <1>5 DEF OnTheTask
<1> QED
  BY <1>6, OnTheTaskStep

\* A task that is paused or cancelled waits for no click.
LEMMA StopStep ==
  ASSUME IInv, Stop
  PROVE  IInv'
<1>1. /\ task' \in [stage : Stage \ {"none"}, blocker : Blocker, leased : BOOLEAN]
      /\ ~task'.leased /\ task'.stage # "READY_TO_SUBMIT"
  <2>1. CASE task' = [stage |-> "BLOCKED", blocker |-> "user_paused", leased |-> FALSE]
    BY <2>1 DEF Stage, Blocker
  <2>2. CASE task' = [stage |-> "CANCELLED", blocker |-> "none", leased |-> FALSE]
    BY <2>2 DEF Stage, Blocker
  <2> QED
    BY <2>1, <2>2 DEF Stop
<1>2. DurableOK'
  BY <1>1 DEF Stop, Elsewhere, IInv, TypeOK, DurableOK
<1>3. mishaps' \in 0..MaxMishaps
  BY MishapTyped DEF Stop, IInv
<1>4. UNCHANGED <<certified, profile>> /\ Elsewhere
  BY DEF Stop
<1>5. OnTheTask
  BY <1>1, <1>2, <1>3, <1>4 DEF OnTheTask
<1> QED
  BY <1>5, OnTheTaskStep

\* A profile write blocks the task before the file changes.
LEMMA BeginProfileWriteStep ==
  ASSUME IInv, BeginProfileWrite
  PROVE  IInv'
<1>1. task \in [stage : Stage \ {"none"}, blocker : Blocker, leased : BOOLEAN]
      /\ (task.stage \in {"READY_TO_SUBMIT", "SUBMITTED", "CANCELLED"} => ~task.leased)
      /\ profile \in [version : Nat, barred : BOOLEAN] /\ current \subseteq {"cache", "user", "handler"}
  BY DEF IInv, TypeOK, DurableOK
<1>2. profile' = [profile EXCEPT !.barred = TRUE] /\ Elsewhere /\ UNCHANGED <<certified, known>>
  BY DEF BeginProfileWrite
<1>3. profile' \in [version : Nat, barred : BOOLEAN] /\ profile'.version = profile.version
  BY <1>1, <1>2
<1>4. /\ task' \in [stage : Stage \ {"none"}, blocker : Blocker, leased : BOOLEAN]
      /\ ~task'.leased /\ task'.stage # "READY_TO_SUBMIT" /\ current' \subseteq {"cache", "user", "handler"}
  <2>1. CASE task.stage \in {"SUBMITTED", "CANCELLED"}
    BY <1>1, <2>1 DEF BeginProfileWrite
  <2>2. CASE task.stage \notin {"SUBMITTED", "CANCELLED"}
    <3>1. task' = [stage |-> "BLOCKED", blocker |-> "profile_changed", leased |-> FALSE] /\ current' = {}
      BY <2>2 DEF BeginProfileWrite
    <3> QED
      BY <3>1 DEF Stage, Blocker
  <2> QED
    BY <2>1, <2>2
<1>5. DurableOK'
  BY <1>2, <1>3, <1>4 DEF Elsewhere, IInv, TypeOK, DurableOK
<1>6. mishaps' \in 0..MaxMishaps
  BY MishapTyped DEF BeginProfileWrite, IInv
<1>7. OnTheTask
  BY <1>2, <1>4, <1>5, <1>6 DEF OnTheTask
<1> QED
  BY <1>7, OnTheTaskStep

\* The profile changes only while the task is neither leased nor READY.
LEMMA ProfileWrittenStep ==
  ASSUME IInv, ProfileWritten
  PROVE  IInv'
<1>1. ~task.leased /\ task.stage # "READY_TO_SUBMIT" /\ profile \in [version : Nat, barred : BOOLEAN]
  BY DEF IInv, TypeOK, DurableOK, TaskInv, ProfileWritten
<1>2. profile' \in [version : Nat, barred : BOOLEAN]
  <2>1. CASE profile' = [version |-> profile.version + 1, barred |-> FALSE]
    BY <1>1, <2>1
  <2>2. CASE profile' = [profile EXCEPT !.barred = FALSE]
    BY <1>1, <2>2
  <2> QED
    BY <2>1, <2>2 DEF ProfileWritten
<1>3. UNCHANGED <<task, current, certified, known, mishaps>> /\ Elsewhere
  BY DEF ProfileWritten
<1>4. DurableOK' /\ mishaps' \in 0..MaxMishaps
  BY <1>2, <1>3 DEF Elsewhere, IInv, TypeOK, DurableOK, SiteOK
<1>5. OnTheTask
  BY <1>1, <1>3, <1>4 DEF OnTheTask
<1> QED
  BY <1>5, OnTheTaskStep

\* A resumed task starts over, without a lease.
LEMMA ResumeStep ==
  ASSUME IInv, Resume
  PROVE  IInv'
<1>1. task' = [stage |-> "DISCOVERED", blocker |-> "none", leased |-> FALSE] /\ current' = {} /\ known' \in {Field, known}
      /\ UNCHANGED <<certified, profile, mishaps>> /\ Elsewhere
  BY DEF Resume
<1>2. /\ task' \in [stage : Stage \ {"none"}, blocker : Blocker, leased : BOOLEAN]
      /\ ~task'.leased /\ task'.stage # "READY_TO_SUBMIT"
  BY <1>1 DEF Stage, Blocker
<1>3. DurableOK' /\ mishaps' \in 0..MaxMishaps
  BY <1>1, <1>2 DEF Elsewhere, IInv, TypeOK, DurableOK, SiteOK
<1>4. OnTheTask
  BY <1>1, <1>2, <1>3 DEF OnTheTask
<1> QED
  BY <1>4, OnTheTaskStep

\* What was in memory is gone; the journals say what they said.
LEMMA RestartStep ==
  ASSUME IInv, Restart
  PROVE  IInv'
<1>1. w' = Resting /\ review' = NoCertificate /\ handler' = NoHandler
      /\ UNCHANGED <<live, known, profile, run, action, manifest, certified, binding, tab, dom, draft, writes, stray, submitted, level>>
  BY DEF Restart, given, site, ghosts
<1>2. /\ w' \in Memory /\ w'.retained \cup w'.todo \subseteq w'.planned /\ w'.pc = "idle"
      /\ w'.todo = {} /\ w'.planned = {} /\ w'.certificate = NoCertificate
  BY <1>1, MemoryRests
<1>3. /\ task' \in [stage : Stage \ {"none"}, blocker : Blocker, leased : BOOLEAN]
      /\ ~task'.leased /\ task'.stage = task.stage
  <2>1. task \in [stage : Stage \ {"none"}, blocker : Blocker, leased : BOOLEAN]
    BY DEF IInv, TypeOK, DurableOK
  <2> QED
    BY <2>1 DEF Restart
<1>4. TypeOK'
  <2>1. DurableOK'
    BY <1>1, <1>3 DEF Restart, IInv, TypeOK, DurableOK
  <2>2. SiteOK'
    BY <1>1, MishapTyped DEF Restart, IInv, TypeOK, SiteOK
  <2>3. MemoryOK'
    BY <1>1, <1>2, Pages DEF IInv, TypeOK, MemoryOK
  <2> QED
    BY <2>1, <2>2, <2>3 DEF TypeOK
<1>5. Started' = Started /\ Complete' = Complete
  BY <1>1 DEF Started, Complete
<1>6. RunInv'
  BY <1>1, <1>2, <1>5 DEF IInv, RunInv, ReturnedIsObserved, ACTIVE
<1>7. BatchInv'
  BY <1>1, <1>2 DEF IInv, BatchInv, FILLING
<1>8. WriteInv'
  BY <1>1, <1>2, <1>5 DEF IInv, WriteInv, FILLING
<1>9. TaskInv'
  <2>1. Certifies(NoCertificate)'
    <3>1. draft'.id \in 1..2
      BY <1>4 DEF TypeOK, SiteOK
    <3> QED
      BY <3>1, Pages DEF Certifies, Complete
  <2>2. Certifies(certified)' /\ Certifies(w.certificate)' /\ Certifies(review)'
    BY <1>1, <1>2, <1>5, <2>1 DEF IInv, TaskInv, Certifies
  <2> QED
    BY <1>1, <1>2, <1>3, <1>5, <2>2 DEF IInv, TaskInv, ENDED
<1>10. DeskInv'
  BY <1>1, <1>2, <1>5 DEF IInv, DeskInv, NoHandler, REVIEWING
<1> QED
  BY <1>4, <1>6, <1>7, <1>8, <1>9, <1>10 DEF IInv

-----------------------------------------------------------------------------
(* The website and the person at it.                                         *)

\* A step at the website: a request that is in flight has seen it move.
AtTheSite ==
  /\ UNCHANGED <<live, durable, binding, w, ghosts, review, level>> /\ Moves
  /\ SiteOK' /\ Later /\ tab'.document >= tab.document
  /\ submitted' = submitted \/ (submitted = NoDraft /\ submitted' \in Revision)

\* A draft that changes leaves its certificates behind, and moves every request.
LEMMA AtTheSiteStep ==
  ASSUME IInv, AtTheSite
  PROVE  IInv'
<1>1. UNCHANGED <<live, task, current, run, action, manifest, profile, certified, known, binding, w, writes, stray, review, level>>
  BY DEF AtTheSite, durable, ghosts
<1>2. /\ handler' \in Request /\ handler'.pc = handler.pc /\ handler'.expects = handler.expects
      /\ handler'.proof = handler.proof /\ (handler.pc # "none" => handler'.moved)
  BY DEF IInv, TypeOK, MemoryOK, Request, AtTheSite, Moves
<1>3. TypeOK'
  <2>1. DurableOK'
    BY <1>1 DEF IInv, TypeOK, DurableOK
  <2>2. MemoryOK'
    BY <1>1, <1>2 DEF IInv, TypeOK, MemoryOK, AtTheSite
  <2> QED
    BY <2>1, <2>2 DEF TypeOK, AtTheSite
<1>4. Aside
  BY <1>1, <1>3 DEF TypeOK, SiteOK, Aside, AtTheSite, ghosts
<1>5. RunInv' /\ BatchInv' /\ WriteInv'
  BY <1>4, AsideStep DEF IInv
<1>6. Started' = Started
  BY <1>1 DEF Started
<1>7. TaskInv'
  <2>1. certified \in Review /\ w.certificate \in Review /\ review \in Review /\ TypeOK
    BY DEF IInv, TypeOK, DurableOK, MemoryOK, Memory
  <2>2. \A c \in Review : Certifies(c) => Certifies(c)'
    BY <1>3, <2>1, CertificateHolds DEF AtTheSite
  <2>3. Certifies(certified)' /\ Certifies(w.certificate)' /\ Certifies(review)'
    BY <1>1, <2>1, <2>2 DEF IInv, TaskInv, Certifies, Complete
  <2> QED
    BY <1>1, <1>6, <2>3 DEF IInv, TaskInv
<1>8. DeskInv'
  <2>1. handler'.pc \in REVIEWING => handler'.moved
    BY <1>2 DEF REVIEWING
  <2>2. submitted.id # 0 => submitted' = submitted
    BY Pages DEF AtTheSite
  <2>3. submitted # NoDraft => submitted' = submitted
    BY DEF AtTheSite
  <2>4. handler.pc \in {"publish", "shown"} => handler.pc \in REVIEWING
    BY DEF REVIEWING
  <2> QED
    BY <1>1, <1>2, <1>6, <2>1, <2>2, <2>3, <2>4 DEF IInv, DeskInv
<1> QED
  BY <1>3, <1>5, <1>7, <1>8 DEF IInv

\* Autosave gives the draft another revision.
LEMMA SiteSavesStep ==
  ASSUME IInv, SiteSaves
  PROVE  IInv'
<1>1. Moves /\ UNCHANGED <<live, durable, binding, w, ghosts, review, submitted, level, tab, dom, mishaps>>
  BY DEF SiteSaves, Site
<1>2. draft \in [id : 1..2, rev : Nat, value : [Field -> Value]] /\ dom \in [Field -> Value \cup {"hidden"}]
      /\ tab.document \in Nat
  BY DEF IInv, TypeOK, SiteOK
<1>3. PICK v \in [Field -> Value] : v = [f \in Field |-> IF dom[f] = "hidden" THEN draft.value[f] ELSE dom[f]]
  BY <1>2
<1>4. PICK n \in Nat : n = draft.rev + 1 /\ n > draft.rev
  BY <1>2
<1>5. draft' = [draft EXCEPT !.rev = n, !.value = v]
  BY <1>3, <1>4 DEF SiteSaves
<1>6. draft' \in [id : 1..2, rev : Nat, value : [Field -> Value]] /\ draft'.id = draft.id /\ draft'.rev = n
  BY <1>2, <1>5
<1>7. SiteOK'
  BY <1>1, <1>6 DEF IInv, TypeOK, SiteOK, ghosts
<1>8. AtTheSite
  BY <1>1, <1>2, <1>4, <1>6, <1>7 DEF AtTheSite, Later
<1> QED
  BY <1>8, AtTheSiteStep

\* A rewritten field gives the draft another revision, another draft another identity.
LEMMA DraftChangesStep ==
  ASSUME IInv, DraftChanges
  PROVE  IInv'
<1>1. Moves /\ UNCHANGED <<live, durable, binding, w, ghosts, review, submitted, level, tab, dom>>
  BY DEF DraftChanges, Site
<1>2. draft \in [id : 1..2, rev : Nat, value : [Field -> Value]] /\ tab.document \in Nat
  BY DEF IInv, TypeOK, SiteOK
<1>3. draft' \in [id : 1..2, rev : Nat, value : [Field -> Value]] /\ Later
  <2>1. ASSUME NEW f \in Field, NEW x \in Value, draft' = [draft EXCEPT !.rev = draft.rev + 1, !.value[f] = x]
        PROVE  draft' \in [id : 1..2, rev : Nat, value : [Field -> Value]] /\ Later
    <3>1. PICK v \in [Field -> Value] : v = [draft.value EXCEPT ![f] = x]
      BY <1>2
    <3>2. PICK n \in Nat : n = draft.rev + 1 /\ n > draft.rev
      BY <1>2
    <3>3. draft' = [draft EXCEPT !.rev = n, !.value = v]
      BY <2>1, <3>1, <3>2
    <3>4. draft' \in [id : 1..2, rev : Nat, value : [Field -> Value]] /\ draft'.id = draft.id /\ draft'.rev = n
      BY <1>2, <3>3
    <3> QED
      BY <3>2, <3>4 DEF Later
  <2>2. ASSUME draft.id = 1, draft' = [draft EXCEPT !.id = 2]
        PROVE  draft' \in [id : 1..2, rev : Nat, value : [Field -> Value]] /\ Later
    <3>1. draft' \in [id : 1..2, rev : Nat, value : [Field -> Value]] /\ draft'.id = 2
      BY <1>2, <2>2
    <3> QED
      BY <2>2, <3>1 DEF Later
  <2> QED
    BY <2>1, <2>2 DEF DraftChanges
<1>4. SiteOK'
  BY <1>1, <1>3, MishapTyped DEF IInv, TypeOK, SiteOK, ghosts, DraftChanges
<1>5. AtTheSite
  BY <1>1, <1>2, <1>3, <1>4 DEF AtTheSite
<1> QED
  BY <1>5, AtTheSiteStep

\* The page may change as it likes: its document only grows.
LEMMA PageChangesStep ==
  ASSUME IInv, PageChanges
  PROVE  IInv'
<1>1. Moves /\ UNCHANGED <<live, durable, binding, w, ghosts, review, submitted, level, draft>>
  BY DEF PageChanges, Site
<1>2. tab \in [page : DOMAIN Form, document : Nat, ours : BOOLEAN] /\ dom \in [Field -> Value \cup {"hidden"}]
  BY DEF IInv, TypeOK, SiteOK
<1>3. /\ tab' \in [page : DOMAIN Form, document : Nat, ours : BOOLEAN] /\ tab'.document >= tab.document
      /\ dom' \in [Field -> Value \cup {"hidden"}]
  <2>1. ASSUME NEW f \in FieldsOf(tab.page), NEW v \in Value \cup {"hidden"}, dom' = [dom EXCEPT ![f] = v], tab' = tab
        PROVE  /\ tab' \in [page : DOMAIN Form, document : Nat, ours : BOOLEAN] /\ tab'.document >= tab.document
               /\ dom' \in [Field -> Value \cup {"hidden"}]
    <3>1. tab.document \in Nat /\ tab.document >= tab.document
      BY <1>2
    <3>2. dom' \in [Field -> Value \cup {"hidden"}]
      BY <1>2, <2>1
    <3> QED
      BY <1>2, <2>1, <3>1, <3>2
  <2>2. CASE tab' = [tab EXCEPT !.document = tab.document + 1] /\ dom' = Loaded(tab.page, draft)
    <3>1. PICK d \in Nat : d = tab.document + 1 /\ d >= tab.document
      BY <1>2
    <3>2. tab' = [tab EXCEPT !.document = d]
      BY <2>2, <3>1
    <3>3. tab' \in [page : DOMAIN Form, document : Nat, ours : BOOLEAN] /\ tab'.document = d
      BY <1>2, <3>2
    <3>4. dom' \in [Field -> Value \cup {"hidden"}]
      BY <1>2, <2>2, Loads DEF IInv
    <3> QED
      BY <3>1, <3>3, <3>4
  <2>3. CASE tab' = [tab EXCEPT !.ours = FALSE] /\ dom' = dom
    <3>1. tab' \in [page : DOMAIN Form, document : Nat, ours : BOOLEAN] /\ tab'.document = tab.document
      BY <1>2, <2>3
    <3>2. tab.document \in Nat
      BY <1>2
    <3> QED
      BY <1>2, <2>3, <3>1, <3>2
  <2> QED
    BY <2>1, <2>2, <2>3 DEF PageChanges
<1>4. SiteOK'
  BY <1>1, <1>3, MishapTyped DEF IInv, TypeOK, SiteOK, ghosts, PageChanges
<1>5. AtTheSite
  BY <1>1, <1>3, <1>4 DEF AtTheSite, Later
<1> QED
  BY <1>5, AtTheSiteStep

\* The person submits the draft as it is, once.
LEMMA SubmitStep ==
  ASSUME IInv, Submit
  PROVE  IInv'
<1>1. Moves /\ UNCHANGED <<live, durable, binding, w, ghosts, review, level, draft, dom, mishaps>>
      /\ submitted = NoDraft /\ submitted' = DraftId
  BY DEF Submit, Moves
<1>2. tab \in [page : DOMAIN Form, document : Nat, ours : BOOLEAN] /\ DraftId \in Revision
  BY DEF IInv, TypeOK, SiteOK, DraftId, Revision
<1>3. PICK d \in Nat : d = tab.document + 1 /\ d >= tab.document
  BY <1>2
<1>4. tab' = [tab EXCEPT !.document = d]
  BY <1>3 DEF Submit
<1>5. tab' \in [page : DOMAIN Form, document : Nat, ours : BOOLEAN] /\ tab'.document = d
  BY <1>2, <1>4
<1>6. SiteOK'
  BY <1>1, <1>5 DEF IInv, TypeOK, SiteOK, ghosts
<1>7. AtTheSite
  BY <1>1, <1>2, <1>3, <1>5, <1>6 DEF AtTheSite, Later
<1> QED
  BY <1>7, AtTheSiteStep

-----------------------------------------------------------------------------
(* The requests.                                                             *)

\* A step of a request that leaves the task as it is: the cache is kept or
\* emptied, and nothing else has to be shown but what the request knows.
OnTheDesk ==
  /\ HandlerStep /\ level' = level
  /\ current' \subseteq {"cache", "user", "handler"} /\ review' \in {review, NoCertificate} /\ handler' \in Request
  /\ live /\ handler'.pc \in REVIEWING =>
       w.pc \in ENDED \cup {"claimed"} /\ Started # {} /\ handler'.pc # "private"
  /\ live /\ handler'.pc \in {"publish", "shown"} /\ ~handler'.moved =>
       /\ tab.ours /\ review'.id = draft.id /\ review'.rev = draft.rev
       /\ tab.document = review'.document /\ Complete
  /\ live /\ handler'.expects # 0 => w.pc \in {"idle", "claimed"} /\ Started # {} /\ handler'.expects = certified.id
  /\ handler'.proof => handler'.pc = "record" /\ live /\ handler'.expects # 0 /\ submitted.id = handler'.expects

\* Such a step keeps the invariant.
LEMMA OnTheDeskStep ==
  ASSUME IInv, OnTheDesk
  PROVE  IInv'
<1>1. UNCHANGED <<live, task, run, action, manifest, profile, certified, known, binding, tab, dom, draft, w, mishaps, writes,
                  stray, submitted, level>>
  BY DEF OnTheDesk, HandlerStep, site, ghosts
<1>2. NoCertificate \in Review /\ review \in Review
  BY Pages DEF IInv, TypeOK, MemoryOK
<1>3. TypeOK'
  <2>1. DurableOK' /\ SiteOK'
    BY <1>1 DEF IInv, TypeOK, DurableOK, SiteOK, OnTheDesk
  <2>2. MemoryOK'
    BY <1>1, <1>2 DEF IInv, TypeOK, MemoryOK, OnTheDesk
  <2> QED
    BY <2>1, <2>2 DEF TypeOK
<1>4. Aside
  BY <1>1, <1>3 DEF TypeOK, SiteOK, Aside, ghosts
<1>5. RunInv' /\ BatchInv' /\ WriteInv'
  BY <1>4, AsideStep DEF IInv
<1>6. Started' = Started /\ Complete' = Complete
  BY <1>1 DEF Started, Complete
<1>7. TaskInv'
  <2>1. Certifies(NoCertificate)
    <3>1. draft.id \in 1..2
      BY DEF IInv, TypeOK, SiteOK
    <3> QED
      BY <3>1, Pages DEF Certifies
  <2>2. Certifies(certified)' /\ Certifies(w.certificate)' /\ Certifies(review)'
    BY <1>1, <1>6, <2>1 DEF IInv, TaskInv, Certifies, OnTheDesk
  <2> QED
    BY <1>1, <1>6, <2>2 DEF IInv, TaskInv
<1>8. DeskInv'
  BY <1>1, <1>6 DEF IInv, DeskInv, OnTheDesk
<1> QED
  BY <1>3, <1>5, <1>7, <1>8 DEF IInv

\* A request that ends, or begins and has read nothing yet.
LEMMA FreshRequest ==
  ASSUME IInv, HandlerStep, level' = level, current' \subseteq {"cache", "user", "handler"},
         review' \in {review, NoCertificate}, NEW pc \in {"none", "observe"}, handler' = [NoHandler EXCEPT !.pc = pc]
  PROVE  IInv'
<1>1. handler' \in Request /\ handler'.pc = pc /\ handler'.expects = 0 /\ ~handler'.proof
  BY Pages DEF NoHandler, Request
<1>2. OnTheDesk
  BY <1>1 DEF OnTheDesk, REVIEWING
<1> QED
  BY <1>2, OnTheDeskStep

\* A request that is discarded, or is answered.
LEMMA CloseStep ==
  ASSUME IInv, HandlerStep, level' = level, current' \subseteq {"cache", "user", "handler"},
         review' \in {review, NoCertificate}, Close
  PROVE  IInv'
<1>1. handler' = [NoHandler EXCEPT !.pc = "none"]
  BY DEF Close, NoHandler
<1> QED
  BY <1>1, FreshRequest

\* A request that is discarded empties the cache.
LEMMA DiscardStep ==
  ASSUME IInv, HandlerStep, level' = level, Discard
  PROVE  IInv'
<1>1. current' \subseteq {"cache", "user", "handler"}
  BY DEF Discard, IInv, TypeOK, DurableOK
<1>2. review' = NoCertificate /\ Close
  BY DEF Discard, Empty
<1> QED
  BY <1>1, <1>2, CloseStep

\* A request that goes on and still knows what it knew.
LEMMA ToStep ==
  ASSUME IInv, HandlerStep, level' = level, current' \subseteq {"cache", "user", "handler"}, review' = review,
         NEW pc \in {"lookup", "readback", "publish", "shown"}, To(pc), handler.pc \in REVIEWING,
         live /\ pc \in {"publish", "shown"} /\ ~handler.moved =>
           /\ tab.ours /\ review.id = draft.id /\ review.rev = draft.rev
           /\ tab.document = review.document /\ Complete
  PROVE  IInv'
<1>1. /\ handler' \in Request /\ handler'.pc = pc /\ handler'.moved = handler.moved
      /\ handler'.expects = handler.expects /\ handler'.proof = handler.proof
  BY DEF IInv, TypeOK, MemoryOK, Request, To
<1>2. OnTheDesk
  BY <1>1 DEF OnTheDesk, IInv, DeskInv, REVIEWING
<1> QED
  BY <1>2, OnTheDeskStep

\* Looking changes only who remembers the revision.
LEMMA LookStep ==
  ASSUME IInv, Look
  PROVE  IInv'
<1>1. HandlerStep /\ UNCHANGED <<review, handler, level>> /\ current' \subseteq {"cache", "user", "handler"}
  BY DEF Look, IInv, TypeOK, DurableOK
<1>2. OnTheDesk
  BY <1>1 DEF OnTheDesk, IInv, TypeOK, MemoryOK, DeskInv
<1> QED
  BY <1>2, OnTheDeskStep

\* A review is opened of a READY task: its run is over.
LEMMA OpenReviewStep ==
  ASSUME IInv, OpenReview
  PROVE  IInv'
<1>1. HandlerStep /\ UNCHANGED <<review, level>> /\ current' \subseteq {"cache", "user", "handler"} /\ AtBoundary
  BY DEF OpenReview, IInv, TypeOK, DurableOK
<1>2. PICK pc \in {"document", "private"}, b \in BOOLEAN :
        handler' = [NoHandler EXCEPT !.pc = pc, !.paired = b] /\ (pc = "private" => ~live)
  <2>1. ("cache" \in current) \in BOOLEAN
    OBVIOUS
  <2>2. CASE live
    BY <2>1, <2>2 DEF OpenReview
  <2>3. CASE ~live
    BY <2>1, <2>3 DEF OpenReview
  <2> QED
    BY <2>2, <2>3
<1>3. handler' \in Request /\ handler'.pc = pc /\ handler'.expects = 0 /\ ~handler'.proof
  BY <1>2, Pages DEF NoHandler, Request
<1>4. w.pc \in ENDED /\ Started # {}
  BY <1>1 DEF AtBoundary, IInv, TaskInv
<1>5. OnTheDesk
  BY <1>1, <1>2, <1>3, <1>4 DEF OnTheDesk
<1> QED
  BY <1>5, OnTheDeskStep

\* The document is bound, or the review is discarded.
LEMMA SeeDocumentStep ==
  ASSUME IInv, SeeDocument
  PROVE  IInv'
<1>1. HandlerStep /\ level' = level /\ handler.pc \in REVIEWING
  BY DEF SeeDocument, Idle, REVIEWING
<1>2. CASE To("lookup") /\ UNCHANGED <<review, current>>
  <2>1. current' \subseteq {"cache", "user", "handler"}
    BY <1>2 DEF IInv, TypeOK, DurableOK
  <2> QED
    BY <1>1, <1>2, <2>1, ToStep
<1> QED
  BY <1>1, <1>2, DiscardStep DEF SeeDocument

\* The row is of this revision and profile, or the review is discarded.
LEMMA LookUpStep ==
  ASSUME IInv, LookUp
  PROVE  IInv'
<1>1. HandlerStep /\ level' = level /\ handler.pc \in REVIEWING
  BY DEF LookUp, Idle, REVIEWING
<1>2. CASE To("readback") /\ UNCHANGED <<review, current>>
  <2>1. current' \subseteq {"cache", "user", "handler"}
    BY <1>2 DEF IInv, TypeOK, DurableOK
  <2> QED
    BY <1>1, <1>2, <2>1, ToStep
<1> QED
  BY <1>1, <1>2, DiscardStep DEF LookUp

\* The draft is the certified one as it is read, and so complete.
LEMMA ReadDraftStep ==
  ASSUME IInv, ReadDraft
  PROVE  IInv'
<1>1. HandlerStep /\ level' = level /\ handler.pc \in REVIEWING
  BY DEF ReadDraft, Idle, REVIEWING
<1>2. CASE BoundDocument /\ Unmoved(review) /\ To("publish") /\ UNCHANGED <<review, current>>
  <2>1. current' \subseteq {"cache", "user", "handler"}
    BY <1>2 DEF IInv, TypeOK, DurableOK
  <2>2. Complete
    <3>1. draft.value \in [Field -> Value]
      BY DEF IInv, TypeOK, SiteOK
    <3> QED
      BY <1>2, <3>1 DEF Unmoved, Inventory, Retained, Complete, Value
  <2>3. /\ tab.ours /\ review.id = draft.id /\ review.rev = draft.rev /\ tab.document = review.document
    BY <1>2 DEF BoundDocument, Unmoved, Certificate
  <2> QED
    BY <1>1, <1>2, <2>1, <2>2, <2>3, ToStep
<1> QED
  BY <1>1, <1>2, DiscardStep DEF ReadDraft

\* In the applicant's Chrome only a draft that was read back is shown.
LEMMA ShowStep ==
  ASSUME IInv, Show
  PROVE  IInv'
<1>1. HandlerStep /\ level' = level /\ handler.pc \in REVIEWING /\ handler.pc \in {"publish", "private"}
      /\ current' \subseteq {"cache", "user", "handler"}
  BY DEF Show, Idle, REVIEWING, Forget, IInv, TypeOK, DurableOK
<1>2. CASE To("shown") /\ UNCHANGED review
  <2>1. live /\ ~handler.moved => /\ tab.ours /\ review.id = draft.id /\ review.rev = draft.rev
                                  /\ tab.document = review.document /\ Complete
    BY <1>1 DEF IInv, DeskInv
  <2> QED
    BY <1>1, <1>2, <2>1, ToStep
<1>3. CASE Close /\ Empty
  BY <1>1, <1>3, CloseStep DEF Empty
<1> QED
  BY <1>2, <1>3 DEF Show

\* The answer ends the request.
LEMMA ReplyStep ==
  ASSUME IInv, Reply
  PROVE  IInv'
<1>1. HandlerStep /\ level' = level /\ Close /\ review' = review /\ current' \subseteq {"cache", "user", "handler"}
  BY DEF Reply, IInv, TypeOK, DurableOK
<1> QED
  BY <1>1, CloseStep

\* A confirmation begins with no expectation.
LEMMA BeginConfirmStep ==
  ASSUME IInv, BeginConfirm
  PROVE  IInv'
<1>1. HandlerStep /\ level' = level /\ review' = review /\ current' \subseteq {"cache", "user", "handler"}
      /\ handler' = [NoHandler EXCEPT !.pc = "observe"]
  BY DEF BeginConfirm, IInv, TypeOK, DurableOK
<1> QED
  BY <1>1, FreshRequest

\* What a receipt is expected of is the certified draft of the task.
LEMMA ObserveSubmissionStep ==
  ASSUME IInv, ObserveSubmission
  PROVE  IInv'
<1>1. HandlerStep /\ level' = level /\ review' = review /\ current' \subseteq {"cache", "user", "handler"}
      /\ handler.pc = "observe"
  BY DEF ObserveSubmission, Idle, IInv, TypeOK, DurableOK
<1>2. CASE handler' = [handler EXCEPT !.pc = "receipt", !.expects = Expectations]
  <2>1. PICK n \in Nat : n = Expectations
    BY DEF Expectations, IInv, TypeOK, MemoryOK, Review
  <2>2. handler' = [handler EXCEPT !.pc = "receipt", !.expects = n]
    BY <1>2, <2>1
  <2>3. handler' \in Request /\ handler'.pc = "receipt" /\ handler'.expects = n /\ handler'.proof = handler.proof
    BY <2>1, <2>2 DEF IInv, TypeOK, MemoryOK, Request
  <2>4. live /\ n # 0 => w.pc \in {"idle", "claimed"} /\ Started # {} /\ n = certified.id
    BY <2>1, Pages DEF Expectations, IInv, DeskInv
  <2>5. ~handler.proof
    BY <1>1 DEF IInv, DeskInv
  <2>6. OnTheDesk
    BY <1>1, <2>3, <2>4, <2>5 DEF OnTheDesk, REVIEWING
  <2> QED
    BY <2>6, OnTheDeskStep
<1>3. CASE Close
  BY <1>1, <1>3, CloseStep
<1> QED
  BY <1>2, <1>3 DEF ObserveSubmission

\* A receipt proves a submission of the draft that is expected.
LEMMA ReadReceiptStep ==
  ASSUME IInv, ReadReceipt
  PROVE  IInv'
<1>1. HandlerStep /\ level' = level /\ review' = review /\ current' \subseteq {"cache", "user", "handler"}
  BY DEF ReadReceipt, IInv, TypeOK, DurableOK
<1>2. PICK b \in BOOLEAN : b <=> live /\ tab.ours /\ handler.expects # 0 /\ Receipt
  OBVIOUS
<1>3. handler' = [handler EXCEPT !.pc = "record", !.proof = b]
  <2>1. (live /\ tab.ours /\ handler.expects # 0 /\ Receipt) \in BOOLEAN
    OBVIOUS
  <2> QED
    BY <1>2, <2>1 DEF ReadReceipt
<1>4. handler' \in Request /\ handler'.pc = "record" /\ handler'.expects = handler.expects /\ handler'.proof = b
  BY <1>3 DEF IInv, TypeOK, MemoryOK, Request
<1>5. OnTheDesk
  BY <1>1, <1>2, <1>4 DEF OnTheDesk, REVIEWING, Receipt, IInv, DeskInv
<1> QED
  BY <1>5, OnTheDeskStep

\* A proof is of the certified draft, and the record outlives it.
LEMMA RecordStep ==
  ASSUME IInv, Record
  PROVE  IInv'
<1>1. UNCHANGED <<live, known, profile, run, action, manifest, certified, binding, tab, dom, draft, w, mishaps, writes, stray,
                  submitted>> /\ Close /\ handler.pc = "record"
  BY DEF Record, given, site, ghosts, Idle
<1>2. CASE UNCHANGED <<task, level, current, review>>
  <2>1. HandlerStep /\ current' \subseteq {"cache", "user", "handler"}
    BY <1>1, <1>2 DEF HandlerStep, site, ghosts, IInv, TypeOK, DurableOK
  <2> QED
    BY <1>1, <1>2, <2>1, CloseStep
<1>3. CASE /\ task' = [stage |-> "SUBMITTED", blocker |-> "none", leased |-> FALSE]
           /\ level' = IF handler.proof THEN "server" ELSE "user"
           /\ current' = {} /\ Empty
  <2>1. handler' \in Request /\ handler'.pc = "none" /\ handler'.expects = 0 /\ ~handler'.proof
    BY <1>1, Pages DEF Close, NoHandler, Request
  <2>2. task' \in [stage : Stage \ {"none"}, blocker : Blocker, leased : BOOLEAN] /\ ~task'.leased
        /\ task'.stage = "SUBMITTED"
    BY <1>3 DEF Stage, Blocker
  <2>3. review' = NoCertificate /\ NoCertificate \in Review /\ NoCertificate.id = 0
    BY <1>3, Pages DEF Empty
  <2>4. TypeOK'
    <3>1. DurableOK' /\ SiteOK'
      BY <1>1, <1>3, <2>2 DEF IInv, TypeOK, DurableOK, SiteOK
    <3>2. MemoryOK'
      BY <1>1, <1>3, <2>1, <2>3 DEF IInv, TypeOK, MemoryOK
    <3> QED
      BY <3>1, <3>2 DEF TypeOK
  <2>5. Aside
    BY <1>1, <2>4 DEF TypeOK, SiteOK, Aside, ghosts
  <2>6. RunInv' /\ BatchInv' /\ WriteInv'
    BY <2>5, AsideStep DEF IInv
  <2>7. Started' = Started /\ Complete' = Complete
    BY <1>1 DEF Started, Complete
  <2>8. TaskInv'
    <3>1. Certifies(NoCertificate)
      <4>1. draft.id \in 1..2
        BY DEF IInv, TypeOK, SiteOK
      <4> QED
        BY <4>1, <2>3 DEF Certifies
    <3>2. Certifies(certified)' /\ Certifies(w.certificate)' /\ Certifies(review)'
      BY <1>1, <2>3, <2>7, <3>1 DEF IInv, TaskInv, Certifies
    <3> QED
      BY <1>1, <2>2, <2>7, <3>2 DEF IInv, TaskInv
  <2>9. DeskInv'
    <3>1. level' = "server" => live /\ w.pc \in {"idle", "claimed"} /\ Started # {} /\ submitted # NoDraft
                               /\ submitted.id = certified.id
      BY <1>3, Pages DEF IInv, DeskInv
    <3> QED
      BY <1>1, <2>1, <2>3, <2>7, <3>1 DEF DeskInv, REVIEWING
  <2> QED
    BY <2>4, <2>6, <2>8, <2>9 DEF IInv
<1> QED
  BY <1>2, <1>3 DEF Record

-----------------------------------------------------------------------------
(* The theorems.                                                             *)

\* At the start nothing was written and nothing certified.
LEMMA InitIInv == Init => IInv
<1> SUFFICES ASSUME Init PROVE IInv
  OBVIOUS
<1>1. FormInit /\ review = NoCertificate /\ handler = NoHandler /\ submitted = NoDraft /\ level = "none"
  BY DEF Init
<1>2. /\ w = Resting /\ w \in Memory /\ w.pc = "idle" /\ w.todo = {} /\ w.planned = {} /\ w.retained = {}
      /\ w.certificate = NoCertificate
  BY <1>1, Pages DEF FormInit, Resting
<1>3. draft = EmptyDraft /\ draft.id = 1 /\ draft \in [id : 1..2, rev : Nat, value : [Field -> Value]]
  BY <1>1 DEF FormInit, EmptyDraft, Value
<1>4. DurableOK
  BY <1>1, Pages DEF FormInit, DurableOK, Stage, Blocker
<1>5. SiteOK
  <2>1. tab \in [page : DOMAIN Form, document : Nat, ours : BOOLEAN]
    BY <1>1, Pages DEF FormInit
  <2>2. 0 \in 0..MaxMishaps /\ dom \in [Field -> Value \cup {"hidden"}] /\ writes \in [Field -> Nat]
    BY <1>1, FormAssumption DEF FormInit
  <2> QED
    BY <1>1, <1>3, <2>1, <2>2 DEF FormInit, SiteOK
<1>6. MemoryOK
  BY <1>1, <1>2, Pages DEF FormInit, MemoryOK
<1>7. Started = {} /\ \A r \in Run : run[r] = "none"
  BY <1>1 DEF FormInit, Started
<1>8. RunInv
  <2>1. Started = 1..0 /\ 0 \in 0..MaxRuns
    BY <1>7, FormAssumption
  <2>2. ReturnedIsObserved
    BY <1>7 DEF ReturnedIsObserved
  <2> QED
    BY <1>1, <1>2, <2>1, <2>2 DEF FormInit, RunInv, ACTIVE
<1>9. BatchInv
  BY <1>1, <1>2 DEF FormInit, BatchInv, FILLING
<1>10. WriteInv
  BY <1>1, <1>2 DEF FormInit, WriteInv, FILLING
<1>11. TaskInv
  <2>1. Certifies(NoCertificate)
    BY <1>3, Pages DEF Certifies
  <2> QED
    BY <1>1, <1>2, <2>1 DEF FormInit, TaskInv
<1>12. DeskInv
  BY <1>1, <1>2 DEF DeskInv, NoHandler, REVIEWING
<1> QED
  BY <1>4, <1>5, <1>6, <1>8, <1>9, <1>10, <1>11, <1>12 DEF IInv, TypeOK

\* Every step of the worker, of the website, of the person and of a request
\* keeps the invariant, and so does a stutter.
LEMMA RunnerKeeps ==
  ASSUME IInv, RunnerStep
  PROVE  IInv'
BY ClaimStep, BeginAttemptStep, OpenPageStep, ObserveStep, BeginFieldStep, CheckFieldStep, WriteStep, ReadBackStep,
   EndBatchStep, AttachStep, ValidateStep, AdvanceStep, CertifyStep, RecheckStep, ReportStep, FinishRunStep,
   FailRunStep, BlockTaskStep DEF RunnerStep, Runner

\* Every step of the system keeps the invariant, and so does a stutter.
LEMMA NextIInv == IInv /\ [Next]_vars => IInv'
<1>1. ASSUME IInv, Task PROVE IInv'
  BY <1>1, LeaseExpiresStep, StopStep, BeginProfileWriteStep, ProfileWrittenStep, ResumeStep, RestartStep DEF Task
<1>2. ASSUME IInv, Website PROVE IInv'
  BY <1>2, SiteSavesStep, DraftChangesStep, PageChangesStep, SubmitStep DEF Website
<1>3. ASSUME IInv, Handlers PROVE IInv'
  BY <1>3, LookStep, OpenReviewStep, SeeDocumentStep, LookUpStep, ReadDraftStep, ShowStep, ReplyStep, BeginConfirmStep,
     ObserveSubmissionStep, ReadReceiptStep, RecordStep DEF Handlers
<1>4. ASSUME IInv, UNCHANGED vars PROVE IInv'
  <2>1. OnTheDesk
    BY <1>4 DEF vars, desk, durable, HandlerStep, OnTheDesk, IInv, TypeOK, DurableOK, MemoryOK, DeskInv
  <2> QED
    BY <1>4, <2>1, OnTheDeskStep
<1> QED
  BY <1>1, <1>2, <1>3, <1>4, RunnerKeeps, RememberStep DEF Next

\* The inductive invariant holds in every reachable state.
THEOREM Invariance == Spec => []IInv
<1>1. Init => IInv
  BY InitIInv
<1>2. IInv /\ [Next]_vars => IInv'
  BY NextIInv
<1> QED
  BY <1>1, <1>2, PTL DEF Spec

\* The state of the run, of the task and of the requests stays well formed.
THEOREM Typing == Spec => []TypeOK
<1>1. IInv => TypeOK
  BY DEF IInv
<1> QED
  BY <1>1, Invariance, PTL

\* A run recorded as RETURNED_UNVERIFIED has read back every field it wrote,
\* and no write of it is in doubt.
THEOREM ReturnedRuns == Spec => []ReturnedIsObserved
<1>1. IInv => ReturnedIsObserved
  BY DEF IInv, RunInv
<1> QED
  BY <1>1, Invariance, PTL

\* A READY task was certified for the profile as it is and for a complete
\* draft, until the draft changes.
THEOREM ReadyTasks == Spec => []ReadyIsTheDraft
<1>1. IInv => ReadyIsTheDraft
  BY DEF IInv, TaskInv, Certifies, ReadyIsTheDraft
<1> QED
  BY <1>1, Invariance, PTL

\* What a person is shown is the draft as it is, in the certified document.
THEOREM ShownValues == Spec => []HumanSeesTheDraft
<1>1. IInv => HumanSeesTheDraft
  BY DEF IInv, DeskInv, HumanSeesTheDraft
<1> QED
  BY <1>1, Invariance, PTL

\* A submission is verified by the server only of the certified draft.
THEOREM VerifiedSubmissions == Spec => []VerifiedIsTheReviewed
<1>1. IInv => VerifiedIsTheReviewed
  BY DEF IInv, DeskInv, VerifiedIsTheReviewed
<1> QED
  BY <1>1, Invariance, PTL

\* The primitive is the only step that writes a field.
LEMMA OnlyTheWriteWrites ==
  ASSUME [Next]_vars
  PROVE  Write \/ writes' = writes
<1>1. CASE RunnerStep
  <2>1. Runner
    BY <1>1 DEF RunnerStep
  <2>2. CASE Claim \/ BeginAttempt \/ Observe \/ BeginField \/ CheckField \/ ReadBack \/ EndBatch
    BY <2>2 DEF Claim, BeginAttempt, Observe, BeginField, CheckField, ReadBack, EndBatch, ghosts
  <2>3. CASE OpenPage \/ Attach \/ Validate \/ Advance \/ Certify \/ Recheck
    BY <2>3 DEF OpenPage, Attach, Validate, Advance, Certify, Recheck, ghosts
  <2>4. CASE Report \/ FinishRun \/ FailRun \/ BlockTask
    BY <2>4 DEF Report, FinishRun, FailRun, BlockTask, ghosts
  <2> QED
    BY <2>1, <2>2, <2>3, <2>4 DEF Runner
<1>2. CASE Remember \/ Task
  BY <1>2 DEF Remember, Task, LeaseExpires, Stop, BeginProfileWrite, ProfileWritten, Resume, Restart, Elsewhere, ghosts
<1>3. CASE Website
  BY <1>3 DEF Website, SiteSaves, DraftChanges, PageChanges, Submit, Site, ghosts
<1>4. CASE Handlers
  BY <1>4 DEF Handlers, Look, OpenReview, SeeDocument, LookUp, ReadDraft, Show, Reply, BeginConfirm, ObserveSubmission,
              ReadReceipt, Record, HandlerStep, ghosts
<1>5. CASE UNCHANGED vars
  BY <1>5 DEF vars, ghosts
<1> QED
  BY <1>1, <1>2, <1>3, <1>4, <1>5 DEF Next

\* No field is written once a write is in doubt, and in the applicant's Chrome
\* none is written twice.
THEOREM WritesAreFenced == Spec => NoWriteAfterDoubt
<1>1. ASSUME IInv, [Next]_vars
      PROVE  [\A f \in Field : writes'[f] > writes[f] => stray = {} /\ (live => writes[f] = 0)]_vars
  <2>1. writes \in [Field -> Nat] /\ stray \subseteq Run /\ w \in Memory
    BY <1>1 DEF IInv, TypeOK, SiteOK, MemoryOK
  <2>2. CASE writes' = writes
    <3>1. \A f \in Field : ~(writes'[f] > writes[f])
      BY <2>1, <2>2
    <3> QED
      BY <3>1
  <2>3. CASE Write
    <3>1. w.pc = "write" /\ w.todo # {} /\ writes' = [writes EXCEPT ![Front] = writes[Front] + 1]
      BY <1>1, <2>3 DEF Write, At, IInv, BatchInv
    <3>2. Front \in w.todo
      BY <1>1, <3>1, FrontIsLeft DEF IInv
    <3>3. stray = {}
      BY <1>1, <2>1, <3>1 DEF IInv, RunInv, ACTIVE
    <3>4. live => writes[Front] = 0
      BY <1>1, <3>1, <3>2 DEF IInv, WriteInv
    <3>5. ASSUME NEW f \in Field, writes'[f] > writes[f] PROVE stray = {} /\ (live => writes[f] = 0)
      <4>1. f = Front
        BY <2>1, <3>1, <3>5
      <4> QED
        BY <3>3, <3>4, <4>1
    <3> QED
      BY <3>5
  <2> QED
    BY <1>1, <2>2, <2>3, OnlyTheWriteWrites
<1>2. IInv /\ [Next]_vars => [\A f \in Field : writes'[f] > writes[f] => stray = {} /\ (live => writes[f] = 0)]_vars
  BY <1>1
<1> QED
  BY <1>2, Invariance, PTL DEF Spec, NoWriteAfterDoubt

-----------------------------------------------------------------------------
(* The desk keeps the promise of HumanReview.                                *)

\* What a run reports is one of the three ends a plan has.
VerdictInv ==
  w.pc = "report" => w.verdict[1] \in {"BLOCKED", "NEEDS_USER_INPUT", "READY_TO_SUBMIT"}

\* A task that nobody works on, and that neither waits for a person's click nor is done.
Asleep(x) == ~x.leased /\ x.stage \notin {"READY_TO_SUBMIT", "SUBMITTED", "CANCELLED"}

\* A step that the person can tell by the task alone.
ByTask ==
  /\ UNCHANGED <<live, writes, stray, draft, submitted, level>>
  /\ profile'.version = profile.version
  /\ w'.pc = "write" <=> w.pc = "write"

\* What such a step leaves as it was.
LEMMA ByTaskSeen ==
  ASSUME ByTask
  PROVE  /\ UNCHANGED <<live, writes, level>> /\ DraftSeen' = DraftSeen
         /\ (At("write"))' = At("write") /\ (stray # {})' = (stray # {})
         /\ (profile.version)' = profile.version /\ (submitted.id)' = submitted.id
<1>1. Complete' = Complete
  BY DEF ByTask, Complete
<1> QED
  BY <1>1 DEF ByTask, DraftSeen, At

\* The phase and the offer are read off the task.
LEMMA PhaseOf ==
  ASSUME TypeOK
  PROVE  /\ task.leased => Phase = "filling" /\ Offered = NoCertificate
         /\ Asleep(task) => Phase = "resting" /\ Offered = NoCertificate
         /\ task.stage = "READY_TO_SUBMIT" => Phase = "offered" /\ Offered = certified
         /\ task.stage = "SUBMITTED" => Phase = "sent" /\ Offered = certified
         /\ task.stage = "CANCELLED" => Phase = "cancelled" /\ Offered = NoCertificate
BY DEF TypeOK, DurableOK, Phase, Offered, Asleep

LEMMA PhaseNext ==
  ASSUME TypeOK'
  PROVE  /\ task'.leased => Phase' = "filling" /\ Offered' = NoCertificate
         /\ Asleep(task') => Phase' = "resting" /\ Offered' = NoCertificate
         /\ task'.stage = "READY_TO_SUBMIT" => Phase' = "offered" /\ Offered' = certified'
         /\ task'.stage = "SUBMITTED" => Phase' = "sent" /\ Offered' = certified'
         /\ task'.stage = "CANCELLED" => Phase' = "cancelled" /\ Offered' = NoCertificate
BY DEF TypeOK, DurableOK, Phase, Offered, Asleep

\* A step that the person does not see.
LEMMA Unseen ==
  ASSUME TypeOK, TypeOK', ByTask,
         \/ UNCHANGED <<task, certified>>
         \/ Asleep(task) /\ Asleep(task')
         \/ task.leased /\ task'.leased
         \/ task.stage = "CANCELLED" /\ task'.stage = "CANCELLED"
  PROVE  UNCHANGED Promise!vars
<1>1. Phase' = Phase /\ Offered' = Offered
  <2>1. CASE UNCHANGED <<task, certified>>
    BY <2>1 DEF Phase, Offered
  <2>2. CASE ~UNCHANGED <<task, certified>>
    BY <2>2, PhaseOf, PhaseNext
  <2> QED
    BY <2>1, <2>2
<1> QED
  BY <1>1, ByTaskSeen DEF Promise!vars

\* The turn is over, or was lost.
LEMMA Rests ==
  ASSUME TypeOK, TypeOK', ByTask, task.leased, Asleep(task')
  PROVE  Promise!Next
<1>1. Promise!Rest
  BY PhaseOf, PhaseNext, ByTaskSeen DEF Promise!Rest, Promise!Outside, Promise!Untouched
<1> QED
  BY <1>1 DEF Promise!Next

\* Where a step of the runner leaves the memory.
LEMMA Turns ==
  ASSUME TypeOK
  PROVE  /\ \A why : Raise(why) => w'.pc = "raised"
         /\ Unowned => w'.pc = "raised"
         /\ \A pc : Goto(pc) => w'.pc = pc
         /\ w' = Resting => w'.pc = "idle"
<1>1. w \in Memory
  BY DEF TypeOK, MemoryOK
<1>2. ASSUME NEW why, Raise(why) PROVE w'.pc = "raised"
  <2>1. PICK v : v = <<"BLOCKED", why>>
    OBVIOUS
  <2>2. w' = [w EXCEPT !.pc = "raised", !.verdict = v]
    BY <1>2, <2>1 DEF Raise
  <2> QED
    BY <1>1, <2>2 DEF Memory
<1>3. ASSUME NEW pc, Goto(pc) PROVE w'.pc = pc
  BY <1>1, <1>3 DEF Goto, Memory
<1>4. Unowned => w'.pc = "raised"
  BY <1>2 DEF Unowned
<1> QED
  BY <1>2, <1>3, <1>4 DEF Resting

\* A step that the person does not see, or that only changes what the run will report.
Hides ==
  /\ ByTask /\ VerdictInv'
  /\ UNCHANGED <<task, certified>> \/ (task.leased /\ task'.leased)

\* A refusal keeps the lease until the report.
LEMMA RefuseHides ==
  ASSUME IInv, w.pc # "write", NEW reason, Refuse(reason, w),
         UNCHANGED <<live, profile, writes, stray, draft, certified, submitted, level>>
  PROVE  Hides
<1>1. w \in Memory
  BY DEF IInv, TypeOK, MemoryOK
<1>2. CASE ~task.leased
  <2>1. w'.pc = "raised" /\ task' = task
    BY <1>2, Turns DEF Refuse, IInv
  <2> QED
    BY <2>1 DEF Hides, ByTask, VerdictInv
<1>3. CASE task.leased
  <2>1. PICK v : v = Verdict(reason, w.asked)
    OBVIOUS
  <2>2. v[1] \in {"BLOCKED", "NEEDS_USER_INPUT"}
    BY <2>1 DEF Verdict
  <2>3. task' = [stage |-> v[1], blocker |-> v[2], leased |-> TRUE] /\ w' = [w EXCEPT !.pc = "report", !.verdict = v]
    BY <1>3, <2>1, ZenonT(40) DEF Refuse, Checkpoint
  <2>4. w'.pc = "report" /\ w'.verdict = v
    BY <1>1, <2>3 DEF Memory
  <2> QED
    BY <1>3, <2>2, <2>3, <2>4 DEF Hides, ByTask, VerdictInv
<1> QED
  BY <1>2, <1>3

\* A step of the runner that changes its memory, the page or a journal.
LEMMA MovesHide ==
  ASSUME IInv, w.pc # "write", w'.pc \notin {"write", "report"},
         UNCHANGED <<live, profile, writes, stray, draft, task, certified, submitted, level>>
  PROVE  Hides
BY DEF Hides, ByTask, VerdictInv

\* Most steps of a run are not seen.
LEMMA OpenPageHides ==
  ASSUME IInv, OpenPage, UNCHANGED desk
  PROVE  Hides
<1>1. UNCHANGED <<live, profile, writes, stray, draft, task, certified, submitted, level>>
  BY ZenonT(40) DEF OpenPage, durable, ghosts, desk
<1>2. w \in Memory /\ w.pc = "open"
  BY ZenonT(40) DEF IInv, TypeOK, MemoryOK, OpenPage, At
<1>3. w'.pc \in {"raised", "observe"}
  <2>1. CASE Unowned
    BY <2>1, Turns DEF IInv
  <2>2. CASE \E p \in 1..tab.page : w' = [w EXCEPT !.pc = "observe", !.page = p, !.file = manifest]
    BY <1>2, <2>2 DEF Memory
  <2> QED
    BY <2>1, <2>2, ZenonT(40) DEF OpenPage
<1> QED
  BY <1>1, <1>2, <1>3, MovesHide

LEMMA AdvanceHides ==
  ASSUME IInv, Advance, UNCHANGED desk
  PROVE  Hides
<1>1. UNCHANGED <<live, profile, writes, stray, draft, task, certified, submitted, level>>
  BY DEF Advance, durable, ghosts, desk
<1>2. w \in Memory /\ w.pc = "advance"
  BY DEF IInv, TypeOK, MemoryOK, Advance, At
<1>3. w'.pc \in {"raised", "observe"}
  <2>1. CASE Unowned
    BY <2>1, Turns DEF IInv
  <2>2. CASE w' = [w EXCEPT !.pc = "observe", !.page = w.page + 1]
    BY <1>2, <2>2 DEF Memory
  <2> QED
    BY <2>1, <2>2 DEF Advance
<1> QED
  BY <1>1, <1>2, <1>3, MovesHide

LEMMA FieldHides ==
  ASSUME IInv, BeginField \/ ReadBack \/ FinishRun \/ FailRun, UNCHANGED desk
  PROVE  Hides
<1>1. UNCHANGED <<live, profile, writes, stray, draft, task, certified, submitted, level>>
  BY DEF BeginField, ReadBack, FinishRun, FailRun, given, site, ghosts, desk
<1>2. w \in Memory /\ w.pc \in {"apply", "readback", "finish", "raised"}
  BY DEF IInv, TypeOK, MemoryOK, BeginField, ReadBack, FinishRun, FailRun, At
<1>3. w'.pc \in {"raised", "apply", "check", "remember", "blocking"}
  <2>1. CASE BeginField
    BY <1>2, <2>1, Turns DEF BeginField, Doubt, IInv, Memory, At
  <2>2. CASE ReadBack
    BY <1>2, <2>2, Turns DEF ReadBack, IInv, Memory
  <2>3. CASE FinishRun \/ FailRun
    BY <2>3, Turns DEF FinishRun, FailRun, IInv
  <2> QED
    BY <2>1, <2>2, <2>3
<1> QED
  BY <1>1, <1>2, <1>3, MovesHide

LEMMA BatchHides ==
  ASSUME IInv, Observe \/ EndBatch, UNCHANGED desk
  PROVE  Hides
<1>1. UNCHANGED <<live, profile, writes, stray, draft, certified, submitted, level>>
  BY DEF Observe, EndBatch, given, site, ghosts, desk
<1>2. w \in Memory /\ w.pc \in {"apply", "observe"}
  BY DEF IInv, TypeOK, MemoryOK, Observe, EndBatch, At
<1>3. ASSUME NEW new, w' = Planned(w, new) PROVE w'.pc = "apply"
  BY <1>2, <1>3 DEF Planned, Memory
<1>4. \/ task' = task /\ w'.pc \in {"raised", "apply", "filled"}
      \/ \E reason : Refuse(reason, w)
  <2>1. CASE Observe
    BY <1>3, <2>1, Turns DEF Observe, IInv
  <2>2. CASE EndBatch
    <3>1. CASE Doubt /\ UNCHANGED <<task, current>>
      BY <3>1, Turns DEF Doubt, IInv
    <3>2. CASE w.failed /\ Refuse("validation", w)
      BY <3>2
    <3>3. CASE /\ UNCHANGED <<task, current>>
               /\ w' = LET new == Visible \ w.planned
                       IN IF new = {} THEN [w EXCEPT !.pc = "filled"] ELSE Planned(w, new)
      BY <1>2, <1>3, <3>3 DEF Memory
    <3> QED
      BY <2>2, <3>1, <3>2, <3>3 DEF EndBatch
  <2> QED
    BY <2>1, <2>2
<1> QED
  BY <1>1, <1>2, <1>4, MovesHide, RefuseHides

LEMMA DraftHides ==
  ASSUME IInv, Attach \/ Validate \/ Certify, UNCHANGED desk
  PROVE  Hides
<1>1. UNCHANGED <<live, profile, writes, stray, draft, certified, submitted, level>>
  BY DEF Attach, Validate, Certify, given, site, ghosts, desk
<1>2. w \in Memory /\ w.pc \in {"filled", "validate", "certify"}
  BY DEF IInv, TypeOK, MemoryOK, Attach, Validate, Certify, At
<1>3. \/ task' = task /\ w'.pc \in {"raised", "validate", "certify", "advance", "recheck"}
      \/ \E reason : Refuse(reason, w)
  <2>1. CASE Attach
    BY <1>2, <2>1, Turns DEF Attach, IInv, Memory
  <2>2. CASE Validate
    BY <2>2, Turns DEF Validate, IInv
  <2>3. CASE Certify
    BY <1>2, <2>3 DEF Certify, Memory
  <2> QED
    BY <2>1, <2>2, <2>3
<1> QED
  BY <1>1, <1>2, <1>3, MovesHide, RefuseHides

LEMMA RecheckHides ==
  ASSUME IInv, Recheck, UNCHANGED desk
  PROVE  Hides
<1>1. UNCHANGED <<live, profile, writes, stray, draft, certified, submitted, level>>
  BY DEF Recheck, given, site, ghosts, desk
<1>2. w \in Memory /\ w.pc = "recheck"
  BY DEF IInv, TypeOK, MemoryOK, Recheck, At
<1>3. CASE Unmoved(w.certificate) /\ task.leased
  <2>1. w' = [w EXCEPT !.pc = "report", !.verdict = <<"READY_TO_SUBMIT", "none">>] /\ task' = task
    BY <1>3 DEF Recheck
  <2>2. w'.pc = "report" /\ w'.verdict = <<"READY_TO_SUBMIT", "none">>
    BY <1>2, <2>1 DEF Memory
  <2> QED
    BY <1>1, <1>2, <2>1, <2>2 DEF Hides, ByTask, VerdictInv
<1>4. CASE Unmoved(w.certificate) /\ ~task.leased
  <2>1. w'.pc = "raised" /\ task' = task
    BY <1>4, Turns DEF Recheck, IInv
  <2> QED
    BY <1>1, <1>2, <2>1, MovesHide
<1>5. CASE ~Unmoved(w.certificate)
  BY <1>1, <1>2, <1>5, RefuseHides DEF Recheck
<1> QED
  BY <1>3, <1>4, <1>5

\* The guard was looked at for the last time before the primitive.
LEMMA CheckFieldSeen ==
  ASSUME IInv, IInv', CheckField, UNCHANGED desk
  PROVE  VerdictInv' /\ (Promise!Next \/ UNCHANGED Promise!vars)
<1>1. UNCHANGED <<live, profile, writes, stray, draft, task, certified, submitted, level>>
  BY DEF CheckField, given, site, ghosts, desk
<1>2. w \in Memory /\ w.pc = "check"
  BY DEF IInv, TypeOK, MemoryOK, CheckField, At
<1>3. w'.pc \in {"raised", "readback"} \/ (task.leased /\ w'.pc = "write")
  BY Turns DEF CheckField, Guard, IInv
<1>4. CASE w'.pc \in {"raised", "readback"}
  <2>1. Hides
    BY <1>1, <1>2, <1>4, MovesHide
  <2> QED
    BY <2>1, Unseen DEF Hides, IInv
<1>5. CASE task.leased /\ w'.pc = "write"
  <2>1. Phase = "filling" /\ Phase' = Phase /\ Offered' = Offered
    BY <1>1, <1>5, PhaseOf DEF IInv, Phase, Offered
  <2>2. ~At("write") /\ (At("write"))'
    BY <1>2, <1>5 DEF At
  <2>3. DraftSeen' = DraftSeen
    BY <1>1 DEF DraftSeen, Complete
  <2>4. Promise!Arm
    BY <1>1, <2>1, <2>2, <2>3 DEF Promise!Arm, Promise!Outside, Promise!Untouched
  <2> QED
    BY <1>5, <2>4 DEF VerdictInv, Promise!Next
<1> QED
  BY <1>3, <1>4, <1>5

\* A draft with another revision or identity is another draft to the person.
LEMMA LaterMoves ==
  ASSUME Later, draft \in [id : 1..2, rev : Nat, value : [Field -> Value]],
         draft' \in [id : 1..2, rev : Nat, value : [Field -> Value]]
  PROVE  DraftSeen' = DraftSeen \/ (DraftSeen'.id # DraftSeen.id \/ DraftSeen'.rev > DraftSeen.rev)
<1>1. CASE draft' = draft
  BY <1>1 DEF DraftSeen, Complete
<1>2. CASE draft'.id = draft.id /\ draft'.rev > draft.rev
  BY <1>2 DEF DraftSeen
<1>3. CASE draft'.id > draft.id
  BY <1>3 DEF DraftSeen
<1> QED
  BY <1>1, <1>2, <1>3 DEF Later

\* The primitive: nothing is in doubt, and in the applicant's Chrome the field is new.
LEMMA WriteSeen ==
  ASSUME IInv, IInv', Write, UNCHANGED desk
  PROVE  VerdictInv' /\ Promise!Next
<1>1. UNCHANGED <<live, profile, task, certified, submitted, level>>
  BY DEF Write, given, desk
<1>2. w \in Memory /\ w.pc = "write" /\ w.todo # {} /\ stray \subseteq Run
  BY DEF IInv, TypeOK, MemoryOK, SiteOK, BatchInv, Write, At
<1>3. w'.pc \in {"raised", "readback"}
  BY Turns DEF Write, IInv
<1>4. Front \in Field /\ Front \in w.todo
  BY <1>2, FrontIsLeft DEF IInv, TypeOK, MemoryOK, Memory
<1>5. writes' = [writes EXCEPT ![Front] = writes[Front] + 1]
  BY DEF Write
<1>6. stray = {} /\ (live => writes[Front] = 0)
  BY <1>2, <1>4 DEF IInv, RunInv, WriteInv, ACTIVE
<1>7. Later
  <2>1. draft' = draft \/ draft' = [draft EXCEPT !.rev = draft.rev + 1, !.value = [draft.value EXCEPT ![Front] = "right"]]
    BY DEF Write
  <2>2. PICK n, v : n = draft.rev + 1 /\ v = [draft.value EXCEPT ![Front] = "right"]
    OBVIOUS
  <2>3. CASE draft' = [draft EXCEPT !.rev = n, !.value = v]
    <3>1. draft'.id = draft.id /\ draft'.rev = n
      BY <2>3 DEF IInv, TypeOK, SiteOK
    <3>2. n > draft.rev
      BY <2>2 DEF IInv, TypeOK, SiteOK
    <3> QED
      BY <3>1, <3>2 DEF Later
  <2>4. CASE draft' = draft
    BY <2>4 DEF Later
  <2> QED
    BY <2>1, <2>2, <2>3, <2>4
<1>8. DraftSeen' = DraftSeen \/ (DraftSeen'.id # DraftSeen.id \/ DraftSeen'.rev > DraftSeen.rev)
  BY <1>7, LaterMoves DEF IInv, TypeOK, SiteOK
<1>9. Phase' = Phase /\ Offered' = Offered
  BY <1>1 DEF Phase, Offered
<1>10. At("write") /\ ~(At("write"))' /\ (stray # {})' \in BOOLEAN
  BY <1>2, <1>3 DEF At
<1>11. Promise!TypeInto(Front)
  BY <1>1, <1>5, <1>6, <1>8, <1>9, <1>10 DEF Promise!TypeInto, Promise!Outside, Promise!DraftMoves
<1> QED
  BY <1>3, <1>4, <1>11 DEF VerdictInv, Promise!Next

\* A step that hides is not seen.
LEMMA HidesSeen ==
  ASSUME IInv, IInv', Hides
  PROVE  VerdictInv' /\ UNCHANGED Promise!vars
BY Unseen DEF Hides, IInv

\* A claim: a task with a run in doubt is turned away, unseen.
LEMMA ClaimSeen ==
  ASSUME IInv, IInv', Claim, UNCHANGED desk
  PROVE  VerdictInv' /\ (Promise!Next \/ UNCHANGED Promise!vars)
<1>1. /\ UNCHANGED <<live, profile, writes, stray, draft, certified, submitted, level>>
      /\ w.pc = "idle" /\ task.stage = "DISCOVERED" /\ ~task.leased
  BY DEF Claim, Runnable, given, site, ghosts, desk
<1>2. w'.pc \in {"idle", "claimed"}
  BY <1>1, MemoryRests DEF Claim
<1>3. ByTask /\ VerdictInv'
  BY <1>1, <1>2 DEF ByTask, VerdictInv
<1>4. CASE Unsettled # {}
  <2>1. Asleep(task) /\ Asleep(task')
    BY <1>1, <1>4 DEF Claim, Asleep
  <2> QED
    BY <1>3, <2>1, Unseen DEF IInv
<1>5. CASE Unsettled = {}
  <2>1. Asleep(task) /\ task'.leased
    BY <1>1, <1>5 DEF Claim, Asleep, IInv, TypeOK, DurableOK
  <2>2. stray = {}
    BY <1>5 DEF Unsettled, IInv, RunInv, TypeOK, DurableOK, SiteOK
  <2>3. Phase = "resting" /\ Phase' = "filling" /\ Offered' = Offered
    BY <2>1, PhaseOf, PhaseNext DEF IInv
  <2>4. Promise!Start
    BY <1>3, <2>2, <2>3, ByTaskSeen DEF Promise!Start, Promise!Outside, Promise!Untouched
  <2> QED
    BY <1>3, <2>4 DEF Promise!Next
<1> QED
  BY <1>4, <1>5

\* The gate, and the blocker of a run that raised, end a turn or leave it.
LEMMA TurnEnds ==
  ASSUME IInv, IInv', BeginAttempt \/ BlockTask, UNCHANGED desk
  PROVE  VerdictInv' /\ (Promise!Next \/ UNCHANGED Promise!vars)
<1>1. UNCHANGED <<live, profile, writes, stray, draft, certified, submitted, level>> /\ w \in Memory
  BY DEF BeginAttempt, BlockTask, given, site, ghosts, desk, IInv, TypeOK, MemoryOK
<1>2. w.pc \in {"claimed", "blocking"} /\ w'.pc \in {"idle", "open"}
  BY <1>1, Turns DEF BeginAttempt, BlockTask, At, IInv, Memory
<1>3. ByTask /\ VerdictInv'
  BY <1>1, <1>2 DEF ByTask, VerdictInv
<1>4. task' = task \/ (task.leased /\ Asleep(task'))
  <2>1. ASSUME NEW why, Checkpoint("BLOCKED", why, TRUE) PROVE task.leased /\ Asleep(task')
    BY <2>1 DEF Checkpoint, Asleep
  <2> QED
    BY <2>1 DEF BeginAttempt, BlockTask
<1> QED
  BY <1>1, <1>3, <1>4, Unseen, Rests DEF IInv

\* The checkpoint offers a draft for which nothing is in doubt, or ends the turn.
LEMMA ReportSeen ==
  ASSUME IInv, IInv', VerdictInv, Report, UNCHANGED desk
  PROVE  VerdictInv' /\ (Promise!Next \/ UNCHANGED Promise!vars)
<1>1. UNCHANGED <<live, profile, writes, stray, draft, submitted, level>> /\ w.pc = "report"
  BY DEF Report, given, site, ghosts, desk, At
<1>2. w'.pc \in {"raised", "finish"}
  BY Turns DEF Report, IInv
<1>3. ByTask /\ VerdictInv'
  BY <1>1, <1>2 DEF ByTask, VerdictInv
<1>4. CASE UNCHANGED <<task, current, certified>>
  BY <1>3, <1>4, Unseen DEF IInv
<1>5. CASE task.leased /\ Checkpoint(w.verdict[1], w.verdict[2], TRUE) /\ certified' = w.certificate
  <2>1. task' = [stage |-> w.verdict[1], blocker |-> w.verdict[2], leased |-> FALSE]
    BY <1>5 DEF Checkpoint
  <2>2. CASE w.verdict[1] # "READY_TO_SUBMIT"
    <3>1. Asleep(task')
      BY <1>1, <2>1, <2>2 DEF Asleep, VerdictInv
    <3> QED
      BY <1>3, <1>5, <3>1, Rests DEF IInv
  <2>3. CASE w.verdict[1] = "READY_TO_SUBMIT"
    <3>1. Phase = "filling" /\ Phase' = "offered" /\ Offered' = w.certificate
      BY <1>5, <2>1, <2>3, PhaseOf, PhaseNext DEF IInv
    <3>2. stray = {}
      BY <1>1 DEF IInv, RunInv, ACTIVE, TypeOK, SiteOK
    <3>3. w.certificate.profile = profile.version
      BY <1>1, <1>5, <2>3 DEF IInv, TaskInv
    <3>4. w.certificate.id = DraftSeen.id =>
            w.certificate.rev < DraftSeen.rev \/ (w.certificate.rev = DraftSeen.rev /\ DraftSeen.complete)
      <4>1. w.certificate.rev \in Nat /\ draft.rev \in Nat
        BY DEF IInv, TypeOK, MemoryOK, SiteOK, Memory, Review
      <4>2. w.certificate.id = draft.id => draft.rev >= w.certificate.rev /\ (draft.rev = w.certificate.rev => Complete)
        BY DEF IInv, TaskInv, Certifies
      <4> QED
        BY <4>1, <4>2 DEF DraftSeen
    <3>5. ~At("write")
      BY <1>1 DEF At
    <3>6. Promise!Offer
      BY <1>3, <3>1, <3>2, <3>3, <3>4, <3>5, ByTaskSeen DEF Promise!Offer, Promise!Outside, Promise!Untouched
    <3> QED
      BY <1>3, <3>6 DEF Promise!Next
  <2> QED
    BY <2>2, <2>3
<1> QED
  BY <1>4, <1>5 DEF Report

\* A step of the worker.
LEMMA RunnerSeen ==
  ASSUME IInv, IInv', VerdictInv, RunnerStep
  PROVE  VerdictInv' /\ (Promise!Next \/ UNCHANGED Promise!vars)
<1>1. Runner /\ UNCHANGED desk
  BY DEF RunnerStep
<1>2. CASE OpenPage \/ Advance \/ BeginField \/ ReadBack \/ FinishRun \/ FailRun \/ Observe \/ EndBatch \/ Attach
             \/ Validate \/ Certify \/ Recheck
  <2>1. Hides
    BY <1>1, <1>2, OpenPageHides, AdvanceHides, FieldHides, BatchHides, DraftHides, RecheckHides
  <2> QED
    BY <2>1, HidesSeen
<1>3. CASE Claim \/ BeginAttempt \/ BlockTask \/ Report \/ CheckField \/ Write
  BY <1>1, <1>3, ClaimSeen, TurnEnds, ReportSeen, CheckFieldSeen, WriteSeen
<1> QED
  BY <1>1, <1>2, <1>3 DEF Runner

\* What the run reports stays as it is while the run waits, and is lost with it.
LEMMA VerdictStays ==
  ASSUME VerdictInv, w' = w \/ w' = Resting
  PROVE  VerdictInv'
BY DEF VerdictInv, Resting

\* What the worker has in memory after a run is not seen.
LEMMA RememberSeen ==
  ASSUME IInv, IInv', VerdictInv, Remember
  PROVE  VerdictInv' /\ UNCHANGED Promise!vars
<1>1. /\ UNCHANGED <<live, profile, writes, stray, draft, task, certified, submitted, level>>
      /\ w.pc = "remember" /\ w' = Resting /\ w'.pc = "idle"
  BY DEF Remember, given, site, ghosts, At, Resting
<1>2. ByTask
  BY <1>1 DEF ByTask
<1> QED
  BY <1>1, <1>2, Unseen, VerdictStays DEF IInv

\* What happens to the task while the run waits leaves the form alone.
LEMMA ElsewhereByTask ==
  ASSUME Elsewhere, profile'.version = profile.version
  PROVE  ByTask
BY DEF Elsewhere, ByTask, site, ghosts, desk

\* A lost lease ends the turn.
LEMMA LeaseExpiresSeen ==
  ASSUME IInv, IInv', LeaseExpires
  PROVE  Promise!Next
<1>1. ByTask /\ task.leased
  BY ElsewhereByTask DEF LeaseExpires
<1>2. Asleep(task')
  BY DEF IInv, TypeOK, DurableOK, LeaseExpires, Asleep
<1> QED
  BY <1>1, <1>2, Rests DEF IInv

\* The person pauses the task, which ends a turn, or cancels it for good.
LEMMA StopSeen ==
  ASSUME IInv, IInv', Stop
  PROVE  Promise!Next \/ UNCHANGED Promise!vars
<1>1. ByTask
  BY ElsewhereByTask DEF Stop
<1>2. CASE /\ task.stage \in {"DISCOVERED", "NEEDS_USER_INPUT"}
           /\ task' = [stage |-> "BLOCKED", blocker |-> "user_paused", leased |-> FALSE]
  <2>1. Asleep(task') /\ (task.leased \/ Asleep(task))
    BY <1>2 DEF Asleep
  <2> QED
    BY <1>1, <2>1, Unseen, Rests DEF IInv
<1>3. CASE /\ task.stage # "SUBMITTED"
           /\ task' = [stage |-> "CANCELLED", blocker |-> "none", leased |-> FALSE]
  <2>1. Phase # "sent"
    BY <1>3 DEF Phase
  <2>2. Phase' = "cancelled" /\ Offered' = NoCertificate
    BY <1>3, PhaseNext DEF IInv
  <2>3. Promise!Cancel
    BY <1>1, <2>1, <2>2, ByTaskSeen
    DEF Promise!Cancel, Promise!NoOffer, NoCertificate, Promise!Outside, Promise!Untouched
  <2> QED
    BY <2>3 DEF Promise!Next
<1> QED
  BY <1>2, <1>3 DEF Stop

\* The offer is taken back before the file of the profile changes.
LEMMA BeginProfileWriteSeen ==
  ASSUME IInv, IInv', BeginProfileWrite
  PROVE  Promise!Next \/ UNCHANGED Promise!vars
<1>1. profile'.version = profile.version
  BY DEF BeginProfileWrite, IInv, TypeOK, DurableOK
<1>2. ByTask /\ certified' = certified
  BY <1>1, ElsewhereByTask DEF BeginProfileWrite
<1>3. CASE task.stage \in {"SUBMITTED", "CANCELLED"}
  BY <1>2, <1>3, Unseen DEF BeginProfileWrite, IInv
<1>4. CASE task.stage \notin {"SUBMITTED", "CANCELLED"}
  <2>1. Asleep(task')
    BY <1>4 DEF BeginProfileWrite, Asleep
  <2>2. CASE task.leased
    BY <1>2, <2>1, <2>2, Rests DEF IInv
  <2>3. CASE Asleep(task)
    BY <1>2, <2>1, <2>3, Unseen DEF IInv
  <2>4. CASE task.stage = "READY_TO_SUBMIT"
    <3>1. Phase = "offered" /\ Phase' = "resting" /\ Offered' = NoCertificate
      BY <2>1, <2>4, PhaseOf, PhaseNext DEF IInv
    <3>2. Promise!TakeBack
      BY <1>2, <3>1, ByTaskSeen
      DEF Promise!TakeBack, Promise!NoOffer, NoCertificate, Promise!Outside, Promise!Untouched
    <3> QED
      BY <3>2 DEF Promise!Next
  <2> QED
    BY <1>4, <2>2, <2>3, <2>4 DEF Asleep
<1> QED
  BY <1>3, <1>4

\* The profile changes while nobody fills in the form and nothing is offered.
LEMMA ProfileWrittenSeen ==
  ASSUME IInv, IInv', ProfileWritten
  PROVE  Promise!Next \/ UNCHANGED Promise!vars
<1>1. UNCHANGED <<task, certified>> /\ Elsewhere
  BY DEF ProfileWritten
<1>2. CASE profile'.version = profile.version
  <2>1. ByTask
    BY <1>1, <1>2, ElsewhereByTask
  <2> QED
    BY <1>1, <2>1, Unseen DEF IInv
<1>3. CASE profile'.version = profile.version + 1
  <2>1. Phase \notin {"filling", "offered"}
    BY DEF ProfileWritten, IInv, TaskInv, Phase
  <2>2. Phase' = Phase /\ Offered' = Offered /\ DraftSeen' = DraftSeen /\ (At("write"))' = At("write")
    BY <1>1 DEF Elsewhere, site, Phase, Offered, DraftSeen, Complete, At
  <2>3. Promise!ProfileChanges
    BY <1>1, <1>3, <2>1, <2>2 DEF Promise!ProfileChanges, Promise!Untouched, Elsewhere, ghosts, desk
  <2> QED
    BY <2>3 DEF Promise!Next
<1> QED
  BY <1>2, <1>3 DEF ProfileWritten, IInv, TypeOK, DurableOK

\* A resumed task waits for its next turn.
LEMMA ResumeSeen ==
  ASSUME IInv, IInv', Resume
  PROVE  UNCHANGED Promise!vars
<1>1. ByTask
  BY ElsewhereByTask DEF Resume
<1>2. Asleep(task) /\ Asleep(task')
  BY DEF Resume, Asleep
<1> QED
  BY <1>1, <1>2, Unseen DEF IInv

\* The service starts again: no turn goes on, and an offer stands.
LEMMA RestartSeen ==
  ASSUME IInv, IInv', Restart
  PROVE  Promise!Next
<1>1. UNCHANGED <<live, profile, writes, stray, draft, certified, submitted, level>> /\ w' = Resting
  BY DEF Restart, given, site, ghosts
<1>2. ~task'.leased /\ task'.stage = task.stage
  BY DEF Restart, IInv, TypeOK, DurableOK
<1>3. Offered' = Offered
  BY <1>1, <1>2 DEF Offered
<1>4. Phase' = IF Phase = "filling" THEN "resting" ELSE Phase
  <2>1. CASE task.leased
    <3>1. Asleep(task')
      BY <1>2, <2>1 DEF IInv, TypeOK, DurableOK, Asleep
    <3> QED
      BY <2>1, <3>1, PhaseOf, PhaseNext DEF IInv
  <2>2. CASE ~task.leased
    BY <1>2, <2>2 DEF Phase
  <2> QED
    BY <2>1, <2>2
<1>5. ~(At("write"))' /\ DraftSeen' = DraftSeen
  BY <1>1 DEF At, Resting, DraftSeen, Complete
<1>6. Promise!Crash
  BY <1>1, <1>3, <1>4, <1>5 DEF Promise!Crash, Promise!Outside, Promise!Untouched
<1> QED
  BY <1>6 DEF Promise!Next

\* What else happens to the task.
LEMMA TaskSeen ==
  ASSUME IInv, IInv', VerdictInv, Task
  PROVE  VerdictInv' /\ (Promise!Next \/ UNCHANGED Promise!vars)
<1>1. w' = w \/ w' = Resting
  BY DEF Task, LeaseExpires, Stop, BeginProfileWrite, ProfileWritten, Resume, Restart, Elsewhere
<1> QED
  BY <1>1, VerdictStays, LeaseExpiresSeen, StopSeen, BeginProfileWriteSeen, ProfileWrittenSeen, ResumeSeen,
     RestartSeen DEF Task

\* A page may show what it likes; the draft that moves has a new revision.
LEMMA SiteSeen ==
  ASSUME IInv, IInv', Later, UNCHANGED <<live, durable, w, ghosts, submitted, level>>
  PROVE  Promise!Next \/ UNCHANGED Promise!vars
<1>1. Phase' = Phase /\ Offered' = Offered /\ (At("write"))' = At("write")
  BY DEF durable, Phase, Offered, At
<1>2. UNCHANGED <<live, profile, writes, stray, submitted, level>>
  BY DEF durable, ghosts
<1>3. CASE DraftSeen' = DraftSeen
  BY <1>1, <1>2, <1>3 DEF Promise!vars
<1>4. CASE DraftSeen'.id # DraftSeen.id \/ DraftSeen'.rev > DraftSeen.rev
  <2>1. Promise!WebsiteMoves
    BY <1>1, <1>2, <1>4 DEF Promise!WebsiteMoves, Promise!DraftMoves, Promise!Outside, Promise!Untouched
  <2> QED
    BY <2>1 DEF Promise!Next
<1> QED
  BY <1>3, <1>4, LaterMoves DEF IInv, TypeOK, SiteOK

\* Autosave and other changes of the draft.
LEMMA SavesAreLater ==
  ASSUME TypeOK, SiteSaves \/ DraftChanges
  PROVE  Later
<1>1. draft \in [id : 1..2, rev : Nat, value : [Field -> Value]]
  BY DEF TypeOK, SiteOK
<1>2. PICK n : n = draft.rev + 1
  OBVIOUS
<1>3. n > draft.rev
  BY <1>1, <1>2
<1>4. ASSUME NEW v, draft' = [draft EXCEPT !.rev = n, !.value = v] PROVE Later
  <2>1. draft'.id = draft.id /\ draft'.rev = n
    BY <1>1, <1>4
  <2> QED
    BY <1>3, <2>1 DEF Later
<1>5. CASE SiteSaves
  <2>1. PICK v : v = [f \in Field |-> IF dom[f] = "hidden" THEN draft.value[f] ELSE dom[f]]
    OBVIOUS
  <2>2. draft' = [draft EXCEPT !.rev = n, !.value = v]
    BY <1>2, <1>5, <2>1 DEF SiteSaves
  <2> QED
    BY <1>4, <2>2
<1>6. CASE DraftChanges
  <2>1. ASSUME NEW f \in Field, NEW x \in Value, draft' = [draft EXCEPT !.rev = draft.rev + 1, !.value[f] = x]
        PROVE  Later
    <3>1. PICK v : v = [draft.value EXCEPT ![f] = x]
      OBVIOUS
    <3>2. draft' = [draft EXCEPT !.rev = n, !.value = v]
      BY <1>2, <2>1, <3>1
    <3> QED
      BY <1>4, <3>2
  <2>2. ASSUME draft.id = 1, draft' = [draft EXCEPT !.id = 2]
        PROVE  Later
    <3>1. draft'.id = 2
      BY <1>1, <2>2
    <3> QED
      BY <2>2, <3>1 DEF Later
  <2> QED
    BY <1>6, <2>1, <2>2 DEF DraftChanges
<1> QED
  BY <1>5, <1>6

\* The person's own click posts the draft of the moment.
LEMMA SubmitSeen ==
  ASSUME IInv, IInv', Submit
  PROVE  Promise!Next
<1>1. UNCHANGED <<live, durable, w, draft, ghosts, level>> /\ live /\ task.stage = "READY_TO_SUBMIT"
      /\ submitted = NoDraft /\ submitted' = DraftId
  BY DEF Submit
<1>2. Phase = "offered"
  BY <1>1, PhaseOf DEF IInv
<1>3. submitted.id = 0 /\ submitted'.id = draft.id
  BY <1>1 DEF NoDraft, DraftId
<1>4. UNCHANGED <<Phase, Offered, DraftSeen, At("write")>>
  BY <1>1 DEF durable, Phase, Offered, DraftSeen, Complete, At
<1>5. Promise!Post
  BY <1>1, <1>2, <1>3, <1>4 DEF Promise!Post, Promise!Untouched, DraftSeen, durable, ghosts
<1> QED
  BY <1>5 DEF Promise!Next

\* The website and the person at it.
LEMMA WebsiteSeen ==
  ASSUME IInv, IInv', VerdictInv, Website
  PROVE  VerdictInv' /\ (Promise!Next \/ UNCHANGED Promise!vars)
<1>1. w' = w
  BY DEF Website, SiteSaves, DraftChanges, PageChanges, Submit, Site
<1>2. CASE SiteSaves \/ DraftChanges
  <2>1. UNCHANGED <<live, durable, w, ghosts, submitted, level>>
    BY <1>2 DEF SiteSaves, DraftChanges, Site
  <2> QED
    BY <1>1, <1>2, <2>1, SavesAreLater, SiteSeen, VerdictStays DEF IInv
<1>3. CASE PageChanges
  <2>1. UNCHANGED <<live, durable, w, ghosts, submitted, level>> /\ Later
    BY <1>3 DEF PageChanges, Site, Later
  <2> QED
    BY <1>1, <2>1, SiteSeen, VerdictStays
<1>4. CASE Submit
  BY <1>1, <1>4, SubmitSeen, VerdictStays
<1> QED
  BY <1>2, <1>3, <1>4 DEF Website

\* The person's word ends the matter; what a receipt proves is the posting of
\* the draft that is offered.
LEMMA RecordSeen ==
  ASSUME IInv, IInv', Record
  PROVE  Promise!Next \/ UNCHANGED Promise!vars
<1>1. UNCHANGED <<live, profile, certified, draft, w, writes, stray, submitted>>
  BY DEF Record, given, site, ghosts
<1>2. CASE UNCHANGED <<task, level>>
  <2>1. ByTask
    BY <1>1, <1>2 DEF ByTask
  <2> QED
    BY <1>1, <1>2, <2>1, Unseen DEF IInv
<1>3. CASE /\ AtBoundary
           /\ task' = [stage |-> "SUBMITTED", blocker |-> "none", leased |-> FALSE]
           /\ level' = IF handler.proof THEN "server" ELSE "user"
  <2>1. Phase = "offered" /\ Phase' = "sent" /\ Offered = certified /\ Offered' = certified
    BY <1>1, <1>3, PhaseOf, PhaseNext DEF IInv, AtBoundary
  <2>2. level' = "server" => submitted.id = certified.id
    BY <1>3 DEF IInv, DeskInv
  <2>3. UNCHANGED <<DraftSeen, At("write")>>
    BY <1>1 DEF DraftSeen, Complete, At
  <2>4. Promise!Confirm
    BY <1>1, <1>3, <2>1, <2>2, <2>3 DEF Promise!Confirm, Promise!Outside, Promise!Untouched
  <2> QED
    BY <2>4 DEF Promise!Next
<1> QED
  BY <1>2, <1>3 DEF Record

\* The requests, of which only the last step of a confirmation is seen.
LEMMA HandlersSeen ==
  ASSUME IInv, IInv', VerdictInv, Handlers
  PROVE  VerdictInv' /\ (Promise!Next \/ UNCHANGED Promise!vars)
<1>1. CASE Record
  BY <1>1, RecordSeen, VerdictStays DEF Record
<1>2. CASE ~Record
  <2>1. HandlerStep /\ level' = level
    BY <1>2 DEF Handlers, Look, OpenReview, SeeDocument, LookUp, ReadDraft, Show, Reply, BeginConfirm,
                ObserveSubmission, ReadReceipt
  <2>2. ByTask /\ UNCHANGED <<task, certified, w>>
    BY <2>1 DEF HandlerStep, site, ghosts, ByTask
  <2> QED
    BY <2>2, Unseen, VerdictStays DEF IInv
<1> QED
  BY <1>1, <1>2

\* Every step of the system is one of the promise, or is not seen.
LEMMA StepSeen ==
  ASSUME IInv, VerdictInv, [Next]_vars
  PROVE  VerdictInv' /\ [Promise!Next]_(Promise!vars)
<1>1. IInv'
  BY NextIInv
<1>2. CASE UNCHANGED vars
  <2>1. UNCHANGED <<live, profile, writes, stray, draft, task, certified, submitted, level, w>>
    BY <1>2 DEF vars, durable, site, ghosts, desk
  <2>2. ByTask
    BY <2>1 DEF ByTask
  <2> QED
    BY <1>1, <2>1, <2>2, Unseen, VerdictStays DEF IInv
<1> QED
  BY <1>1, <1>2, RunnerSeen, RememberSeen, TaskSeen, WebsiteSeen, HandlersSeen DEF Next

\* At the start nobody fills in the form, and the draft is empty.
LEMMA InitSeen ==
  ASSUME Init
  PROVE  VerdictInv /\ Promise!Init
<1>1. FormInit /\ submitted = NoDraft /\ level = "none"
  BY DEF Init
<1>2. w.pc = "idle"
  BY <1>1 DEF FormInit, Resting
<1>3. Phase = "resting" /\ Offered = NoCertificate
  BY <1>1 DEF FormInit, Phase, Offered
<1>4. ~Complete
  <2>1. PICK f \in Field : f \notin Child
    <3>1. 1 \in DOMAIN Form /\ 1 \in DOMAIN Form[1]
      BY FormAssumption
    <3>2. Form[1][1] \in Field /\ Form[1][1] \notin Child
      BY <3>1, FormAssumption DEF Field, FieldsOf
    <3> QED
      BY <3>2
  <2>2. draft.value[f] = "empty"
    BY <1>1, <2>1 DEF FormInit, EmptyDraft
  <2> QED
    BY <2>1, <2>2 DEF Complete
<1>5. DraftSeen = [id |-> 1, rev |-> 1, complete |-> FALSE]
  BY <1>1, <1>4 DEF FormInit, EmptyDraft, DraftSeen, Complete
<1> QED
  BY <1>1, <1>2, <1>3, <1>5
  DEF FormInit, VerdictInv, At, NoDraft, Promise!Init, Promise!NoOffer, NoCertificate

\* The application engine, the worker, the website and the requests of the
\* local interface together do what HumanReview promises to the person, step by
\* step: what is typed, when, how often, and what is offered and recorded.
THEOREM ReviewAsPromised == Spec => ImplementsHumanReview
<1>1. Init => VerdictInv /\ Promise!Init
  BY InitSeen
<1>2. IInv /\ VerdictInv /\ [Next]_vars => VerdictInv' /\ [Promise!Next]_(Promise!vars)
  BY StepSeen
<1> QED
  BY <1>1, <1>2, Invariance, PTL DEF Spec, ImplementsHumanReview, Promise!Spec

=============================================================================
