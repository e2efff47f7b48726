------------------------- MODULE ControlDeskProofs -------------------------
(***************************************************************************)
(* Proofs about ControlDesk, for every set of clients and tasks, any       *)
(* number of profile versions and every update state that may be left.     *)
(*                                                                         *)
(* The argument.  The locks follow from what the clients do (LocksOK), so  *)
(* at most one client publishes a profile or creates a task.  While a save *)
(* has published, its base is the selected version and the new file holds  *)
(* that version's facts (EditInv): the command lock keeps other savers     *)
(* away and the lock of the file keeps promotions off the base.  Between   *)
(* the reading of the selection and the row of the task the selection      *)
(* stays (BindingInv), since a switch needs the mutation lock too.  Once a *)
(* stop is accepted nobody holds a lock (StopInv), and without one nothing *)
(* can be changed.                                                         *)
(***************************************************************************)
EXTENDS ControlDesk, TLAPS

\* The requests that take the command lock only have no other steps.
Local(r) == r.op \in {"command", "fact"} => r.step = "serving"
LocalSteps == \A c \in Client : Local(desk[c])

\* What a binding read is still so when the task is created.
BindingInv ==
  \A c \in Client : desk[c].step = "enqueue" =>
    desk[c].base # NoProfile /\ (Managed(desk[c].base) => desk[c].base = selected)

\* A published edit completes the version that is still selected.
EditInv ==
  \A c \in Client : At(c, "save", "published") =>
    /\ desk[c].base = selected
    /\ Contents(selected) \cup {c} \subseteq shelf[Len(shelf)]

\* A task that exists has a profile.
ProfileInv == \A t \in Made : profile[t] \in Version

\* A stop is accepted under both locks, and nobody is admitted after it.
StopInv == stopping => mutation = NoClient /\ command = NoClient

DeskInv == DeskOK /\ LocksOK /\ LocalSteps /\ BindingInv /\ EditInv /\ StopInv
TaskInv == TasksOK /\ ProfileInv
IInv == ShelfOK /\ FencesOK /\ DeskInv /\ TaskInv

\* A request that is in none of the two steps the invariant speaks of.
Plain(r) == Local(r) /\ r.step \notin {"published", "enqueue"}

\* The client c goes on to r, and takes or releases the locks as r needs them.
Move(c, r) ==
  /\ desk' = [desk EXCEPT ![c] = r]
  /\ mutation' = IF NeedsMutation(r) THEN c ELSE Without(mutation, c)
  /\ command' = IF NeedsCommand(r) THEN c ELSE Without(command, c)
MayMove(c, r) ==
  /\ NeedsMutation(r) => mutation \in {c, NoClient}
  /\ NeedsCommand(r) => command \in {c, NoClient}
  /\ stopping => ~NeedsMutation(r) /\ ~NeedsCommand(r)

-----------------------------------------------------------------------------
(* Lemmas about steps of the desk.                                           *)

\* A shelf that grew still has the versions it had.
LEMMA VersionsStay ==
  ASSUME ShelfOK, ShelfOK', Len(shelf) <= Len(shelf')
  PROVE  Version \subseteq Version' /\ Request \subseteq Request'
<1>1. Version \subseteq Version'
  BY DEF ShelfOK, Version
<1> QED
  BY <1>1 DEF Request

\* A move keeps the desk typed and the locks where they are needed.
LEMMA MoveLocks ==
  ASSUME ShelfOK, ShelfOK', Len(shelf) <= Len(shelf'), DeskOK, LocksOK,
         NEW c \in Client, NEW r, r \in Request', Move(c, r), MayMove(c, r)
  PROVE  DeskOK' /\ LocksOK'
<1>1. desk' \in [Client -> Request'] /\ desk'[c] = r /\ \A d \in Client \ {c} : desk'[d] = desk[d]
  BY VersionsStay DEF DeskOK, Move
<1>2. mutation' \in Client \cup {NoClient} /\ command' \in Client \cup {NoClient}
  BY DEF Move, LocksOK, Without
<1>3. (mutation' = c <=> NeedsMutation(r)) /\ (command' = c <=> NeedsCommand(r))
  BY ConstantsAssumption DEF Move, Without
<1>4. \A d \in Client \ {c} : (mutation' = d <=> mutation = d) /\ (command' = d <=> command = d)
  BY ConstantsAssumption DEF Move, MayMove, Without
<1>5. \A d \in Client : (mutation' = d <=> NeedsMutation(desk'[d])) /\ (command' = d <=> NeedsCommand(desk'[d]))
  BY <1>1, <1>3, <1>4 DEF LocksOK
<1> QED
  BY <1>1, <1>2, <1>5 DEF DeskOK, LocksOK, NeedsMutation, NeedsCommand

\* A move to a plain request, with the profile files as they were, keeps the
\* invariant of the desk.
LEMMA PlainMove ==
  ASSUME IInv, UNCHANGED <<selected, shelf>>, ShelfOK',
         NEW c \in Client, NEW r, r \in Request, Plain(r), Move(c, r), MayMove(c, r),
         stopping' => stopping \/ (BothLocks /\ ~NeedsMutation(r) /\ ~NeedsCommand(r))
  PROVE  DeskInv'
<1>1. r \in Request' /\ Len(shelf) <= Len(shelf')
  BY DEF Request, Version, IInv, ShelfOK
<1>2. DeskOK' /\ LocksOK'
  BY <1>1, MoveLocks DEF IInv, DeskInv
<1>3. desk'[c] = r /\ \A d \in Client \ {c} : desk'[d] = desk[d]
  BY DEF Move, IInv, DeskInv, DeskOK
<1>4. LocalSteps'
  BY <1>3 DEF IInv, DeskInv, LocalSteps, Local, Plain
<1>5. BindingInv'
  BY <1>3 DEF IInv, DeskInv, BindingInv, Plain
<1>6. EditInv'
  BY <1>3 DEF IInv, DeskInv, EditInv, Plain, At, Contents
<1>7. StopInv'
  BY DEF IInv, DeskInv, StopInv, Move, MayMove, Without, BothLocks
<1> QED
  BY <1>2, <1>4, <1>5, <1>6, <1>7 DEF DeskInv

\* An answer is such a move: a return, a refusal and an exception alike.
LEMMA AnswerMove ==
  ASSUME IInv, UNCHANGED <<selected, shelf, stopping>>, ShelfOK', NEW c \in Client, Answer(c)
  PROVE  DeskInv'
<1>1. AtRest \in Request /\ Plain(AtRest) /\ ~NeedsMutation(AtRest) /\ ~NeedsCommand(AtRest)
  BY DEF AtRest, Request, OPERATIONS, STEPS, NoProfile, Plain, Local, NeedsMutation, NeedsCommand
<1>2. Move(c, AtRest) /\ MayMove(c, AtRest)
  BY <1>1 DEF Answer, Move, MayMove
<1> QED
  BY <1>1, <1>2, PlainMove

\* A client that keeps its locks moves to another plain request.
LEMMA KeepLocks ==
  ASSUME IInv, UNCHANGED <<selected, shelf, stopping, lockVars>>, ShelfOK',
         NEW c \in Client, NEW r, r \in Request, Plain(r), desk' = [desk EXCEPT ![c] = r],
         NeedsMutation(r) <=> NeedsMutation(desk[c]), NeedsCommand(r) <=> NeedsCommand(desk[c])
  PROVE  DeskInv'
<1>1. NeedsMutation(r) <=> mutation = c
  BY DEF IInv, DeskInv, LocksOK
<1>2. NeedsCommand(r) <=> command = c
  BY DEF IInv, DeskInv, LocksOK
<1>3. Move(c, r) /\ MayMove(c, r)
  BY <1>1, <1>2, ConstantsAssumption DEF Move, MayMove, Without, lockVars, IInv, DeskInv, StopInv
<1> QED
  BY <1>3, PlainMove

\* A step that does not touch the desk, the locks or the profile files.
LEMMA DeskStays ==
  ASSUME DeskInv, UNCHANGED <<selected, shelf, stopping, lockVars, desk>>
  PROVE  DeskInv'
  BY DEF DeskInv, DeskOK, LocksOK, LocalSteps, Local, BindingInv, EditInv, StopInv, Request, Version,
         NeedsMutation, NeedsCommand, At, Contents, lockVars

\* The tasks stay typed when rows change their stage and revisions are forgotten.
LEMMA TasksMove ==
  ASSUME TaskInv, shelf' = shelf, profile' = profile, stage' \in [Task -> STAGES],
         \A t \in Task : stage'[t] = "absent" <=> stage[t] = "absent",
         pending' \subseteq Made, known' \subseteq Client \X Made,
         landing' \subseteq Made, started' \subseteq landing'
  PROVE  TaskInv'
<1>1. Made' = Made
  BY DEF Made
<1> QED
  BY <1>1 DEF TaskInv, TasksOK, ProfileInv, Version

\* In particular when nothing happens to them.
LEMMA TasksStay ==
  ASSUME TaskInv, UNCHANGED <<shelf, taskVars>>
  PROVE  TaskInv'
  BY TasksMove DEF TaskInv, TasksOK, taskVars, targetVars

-----------------------------------------------------------------------------
(* The invariant holds at the start.                                         *)

\* Nothing is in the hands of the desk when the program starts.
LEMMA InitInv == Init => IInv
<1> SUFFICES ASSUME Init PROVE IInv
  OBVIOUS
<1>1. shelf \in Seq(SUBSET Fact) /\ Len(shelf) = 1 /\ Version = {1}
  BY DEF Init, Version
<1>2. ShelfOK
  <2>1. selected \in {NoProfile} \cup Version /\ bound \in {NoProfile} \cup Version
    BY <1>1 DEF Init, NoProfile, OUTSIDE
  <2>2. Len(shelf) \in 1 .. MaxVersions
    BY <1>1, ConstantsAssumption
  <2> QED
    BY <1>1, <2>1, <2>2 DEF Init, ShelfOK
<1>3. FencesOK
  BY ConstantsAssumption DEF Init, FencesOK
<1>4. AtRest \in Request
  BY DEF AtRest, Request, OPERATIONS, STEPS, NoProfile
<1>5. DeskOK /\ \A c \in Client : desk[c] = AtRest
  BY <1>4 DEF Init, DeskOK
<1>6. LocksOK
  BY <1>5, ConstantsAssumption DEF Init, LocksOK, AtRest, NeedsMutation, NeedsCommand
<1>7. DeskInv
  BY <1>5, <1>6 DEF Init, DeskInv, LocalSteps, Local, BindingInv, EditInv, StopInv, At, AtRest
<1>8. TaskInv
  BY DEF Init, TaskInv, TasksOK, ProfileInv, Made, STAGES, NoProfile
<1> QED
  BY <1>2, <1>3, <1>7, <1>8 DEF IInv

-----------------------------------------------------------------------------
(* The requests and the locks.                                               *)

\* OpenEditor: a view is plain and needs no lock.
LEMMA OpenEditorStep ==
  ASSUME IInv, NEW c \in Client, OpenEditor(c)
  PROVE  IInv'
<1>1. ShelfOK' /\ FencesOK'
  BY DEF IInv, ShelfOK, FencesOK, Version, OpenEditor, shelfVars, bindVars, fenceVars
<1>2. PICK r : /\ desk' = [desk EXCEPT ![c] = r]
               /\ r = [AtRest EXCEPT !.op = "editor", !.step = "ready", !.base = selected,
                         !.facts = Contents(selected), !.repair = damaged]
  BY DEF OpenEditor
<1>3. Contents(selected) \in SUBSET Fact
  BY DEF IInv, ShelfOK, Contents, Version, NoProfile
<1>4. r \in Request
  BY <1>2, <1>3 DEF IInv, ShelfOK, AtRest, Request, VIEWS, STEPS
<1>5. Plain(r) /\ ~NeedsMutation(r) /\ ~NeedsCommand(r)
  BY <1>2 DEF AtRest, Plain, Local, NeedsMutation, NeedsCommand
<1>6. ~NeedsMutation(desk[c]) /\ ~NeedsCommand(desk[c])
  BY DEF OpenEditor, AtRest, NeedsMutation, NeedsCommand
<1>7. DeskInv'
  BY <1>1, <1>2, <1>4, <1>5, <1>6, KeepLocks DEF OpenEditor, shelfVars, fenceVars
<1>8. TaskInv'
  BY TasksStay DEF IInv, OpenEditor, shelfVars
<1> QED
  BY <1>1, <1>7, <1>8 DEF IInv

\* SeeTask: the revision that was read is the one of a task that exists.
LEMMA SeeTaskStep ==
  ASSUME IInv, NEW c \in Client, NEW t \in Task, SeeTask(c, t)
  PROVE  IInv'
<1>1. ShelfOK' /\ FencesOK'
  BY DEF IInv, ShelfOK, FencesOK, Version, SeeTask, shelfVars, bindVars, fenceVars
<1>2. PICK r : /\ desk' = [desk EXCEPT ![c] = r]
               /\ r = [AtRest EXCEPT !.op = "row", !.step = "ready", !.task = t]
  BY DEF SeeTask
<1>3. r \in Request
  BY <1>2 DEF AtRest, Request, VIEWS, STEPS, NoProfile
<1>4. Plain(r) /\ ~NeedsMutation(r) /\ ~NeedsCommand(r)
  BY <1>2 DEF AtRest, Plain, Local, NeedsMutation, NeedsCommand
<1>5. ~NeedsMutation(desk[c]) /\ ~NeedsCommand(desk[c])
  BY DEF SeeTask, AtRest, NeedsMutation, NeedsCommand
<1>6. DeskInv'
  BY <1>1, <1>2, <1>3, <1>4, <1>5, KeepLocks DEF SeeTask, shelfVars, fenceVars
<1>7. TaskInv'
  BY TasksMove DEF IInv, TaskInv, TasksOK, SeeTask, shelfVars, targetVars
<1> QED
  BY <1>1, <1>6, <1>7 DEF IInv

\* The update state that is read may be recovered on the way.
LEMMA FenceRead ==
  ASSUME FencesOK, ReadFence, UNCHANGED <<stopping, halted>>
  PROVE  FencesOK'
  BY DEF FencesOK, ReadFence, Recovered, UPDATES

\* RunMutation: the lock is free and the fence down, or the answer is no.
LEMMA RunMutationStep ==
  ASSUME IInv, NEW c \in Client, NEW op \in OPERATIONS, RunMutation(c, op)
  PROVE  IInv'
<1>1. ShelfOK' /\ FencesOK'
  BY FenceRead DEF IInv, ShelfOK, Version, RunMutation, shelfVars, bindVars
<1>2. TaskInv'
  BY TasksStay DEF IInv, RunMutation, shelfVars
<1>3. CASE Fenced
  <2>1. DeskInv'
    BY <1>1, <1>3, AnswerMove DEF RunMutation, shelfVars
  <2> QED
    BY <1>1, <1>2, <2>1 DEF IInv
<1>4. CASE ~Fenced
  <2>1. PICK r : r = Admitted(desk[c], op)
    OBVIOUS
  <2>2. desk' = [desk EXCEPT ![c] = r] /\ mutation = NoClient /\ mutation' = c /\ command' = command
    BY <1>4, <2>1 DEF RunMutation
  <2>3. op \in {"save", "import", "reconcile", "form", "chat", "dispatch"}
    BY DEF RunMutation
  <2>4. desk[c] \in Request
    BY DEF IInv, DeskInv, DeskOK
  <2>5. r \in Request /\ r.op = op /\ r.step \in {"admitted", "binding", "reading", "ordering"}
    BY ZenonT(40), <2>1, <2>3, <2>4 DEF Request, Admitted, Entrance, STEPS
  <2>6. Plain(r) /\ NeedsMutation(r) /\ ~NeedsCommand(r)
    BY <2>3, <2>5 DEF Plain, Local, NeedsMutation, NeedsCommand
  <2>7. ~NeedsCommand(desk[c])
    BY DEF RunMutation, At, AtRest, NeedsCommand
  <2>8. Without(command, c) = command
    BY <2>7, ConstantsAssumption DEF IInv, DeskInv, LocksOK, Without
  <2>9. ~stopping
    BY <1>4 DEF Fenced
  <2>10. Move(c, r) /\ MayMove(c, r)
    BY <2>2, <2>6, <2>8, <2>9 DEF Move, MayMove
  <2>11. DeskInv'
    BY <1>1, <2>5, <2>6, <2>10, PlainMove DEF RunMutation, shelfVars
  <2> QED
    BY <1>1, <1>2, <2>11 DEF IInv
<1> QED
  BY <1>3, <1>4

\* TakeCommandLock: the second lock is free when it is taken.
LEMMA TakeCommandLockStep ==
  ASSUME IInv, NEW c \in Client, TakeCommandLock(c)
  PROVE  IInv'
<1>1. ShelfOK' /\ FencesOK'
  BY DEF IInv, ShelfOK, FencesOK, Version, TakeCommandLock, shelfVars, bindVars, fenceVars
<1>2. TaskInv'
  BY TasksStay DEF IInv, TakeCommandLock, shelfVars
<1>3. PICK r : r = [desk[c] EXCEPT !.step = "serving"]
  OBVIOUS
<1>4. desk[c] \in Request /\ desk[c].step = "admitted"
  BY DEF IInv, DeskInv, DeskOK, TakeCommandLock
<1>5. desk[c].op \notin {"command", "fact"}
  BY <1>4 DEF IInv, DeskInv, LocalSteps, Local
<1>6. r \in Request /\ r.op = desk[c].op /\ r.step = "serving" /\ desk' = [desk EXCEPT ![c] = r]
  BY <1>3, <1>4 DEF Request, STEPS, TakeCommandLock, GoTo
<1>7. Plain(r) /\ NeedsMutation(r) /\ NeedsCommand(r)
  BY <1>5, <1>6 DEF Plain, Local, NeedsMutation, NeedsCommand
<1>8. mutation = c /\ ~stopping
  BY <1>4, <1>5, ConstantsAssumption DEF IInv, DeskInv, LocksOK, NeedsMutation, StopInv
<1>9. Move(c, r) /\ MayMove(c, r)
  BY <1>6, <1>7, <1>8 DEF Move, MayMove, TakeCommandLock
<1>10. DeskInv'
  BY <1>1, <1>6, <1>7, <1>9, PlainMove DEF TakeCommandLock, shelfVars, fenceVars
<1> QED
  BY <1>1, <1>2, <1>10 DEF IInv

\* RunLocal: the same for a command that takes this lock only.
LEMMA RunLocalStep ==
  ASSUME IInv, NEW c \in Client, RunLocal(c)
  PROVE  IInv'
<1>1. ShelfOK' /\ FencesOK'
  BY FenceRead DEF IInv, ShelfOK, Version, RunLocal, shelfVars, bindVars
<1>2. known' \subseteq known
  BY DEF RunLocal, ForgetDone
<1>3. TaskInv'
  BY <1>2, TasksMove DEF IInv, TaskInv, TasksOK, RunLocal, shelfVars, targetVars
<1>4. CASE Fenced
  <2>1. DeskInv'
    BY <1>1, <1>4, AnswerMove DEF RunLocal, shelfVars
  <2> QED
    BY <1>1, <1>3, <2>1 DEF IInv
<1>5. CASE ~Fenced
  <2>1. PICK op \in {"command", "fact"} : desk' = [desk EXCEPT ![c].op = op, ![c].step = "serving"]
    BY <1>5 DEF RunLocal
  <2>2. desk[c] \in Request /\ desk[c].step = "ready"
    BY DEF IInv, DeskInv, DeskOK, RunLocal, At
  <2> DEFINE r == [desk[c] EXCEPT !.op = op, !.step = "serving"]
  <2>3. r \in Request /\ r.op = op /\ r.step = "serving" /\ desk' = [desk EXCEPT ![c] = r]
    BY <2>1, <2>2 DEF Request, OPERATIONS, STEPS
  <2> HIDE DEF r
  <2>4. Plain(r) /\ ~NeedsMutation(r) /\ NeedsCommand(r)
    BY <2>3 DEF Plain, Local, NeedsMutation, NeedsCommand
  <2>5. Without(mutation, c) = mutation
    BY <2>2, ConstantsAssumption DEF IInv, DeskInv, LocksOK, NeedsMutation, Without
  <2>6. ~stopping
    BY <1>5 DEF Fenced
  <2>7. Move(c, r) /\ MayMove(c, r)
    BY <1>5, <2>3, <2>4, <2>5, <2>6 DEF Move, MayMove, RunLocal
  <2>8. DeskInv'
    BY <1>1, <2>3, <2>4, <2>7, PlainMove DEF RunLocal, shelfVars
  <2> QED
    BY <1>1, <1>3, <2>8 DEF IInv
<1> QED
  BY <1>4, <1>5

-----------------------------------------------------------------------------
(* The editor and the import.                                                *)

\* Who serves, has published or has replaced the settings holds both locks,
\* unless it is a command or an answer; so no two are in these steps.
LEMMA OneServes ==
  ASSUME IInv, NEW c \in Client, NEW d \in Client, NeedsCommand(desk[c]), NeedsCommand(desk[d])
  PROVE  c = d /\ ~stopping
  BY ConstantsAssumption DEF IInv, DeskInv, LocksOK, StopInv
\* Only one request at a time is past the admission to change something.
LEMMA OneAdmitted ==
  ASSUME IInv, NEW c \in Client, NEW d \in Client, NeedsMutation(desk[c]), NeedsMutation(desk[d])
  PROVE  c = d /\ ~stopping
  BY ConstantsAssumption DEF IInv, DeskInv, LocksOK, StopInv

\* A new version leaves the others as they are.
LEMMA NewVersion ==
  ASSUME ShelfOK, NEW facts \in SUBSET Fact, Len(shelf) < MaxVersions, shelf' = Append(shelf, facts),
         UNCHANGED <<selected, damaged, bindVars>>
  PROVE  /\ ShelfOK' /\ Len(shelf') = Len(shelf) + 1 /\ shelf'[Len(shelf')] = facts
         /\ Contents(selected)' = Contents(selected)
<1>1. Len(shelf) \in Nat /\ shelf' \in Seq(SUBSET Fact) /\ Len(shelf') = Len(shelf) + 1
  BY DEF ShelfOK
<1>2. shelf'[Len(shelf')] = facts /\ \A v \in 1 .. Len(shelf) : shelf'[v] = shelf[v]
  BY DEF ShelfOK
<1>3. ShelfOK'
  BY <1>1, ConstantsAssumption DEF ShelfOK, Version, bindVars
<1> QED
  BY <1>1, <1>2, <1>3 DEF ShelfOK, Contents, Version, NoProfile

\* The step of a publication, whatever is published.
LEMMA PublishStep ==
  ASSUME IInv, NEW c \in Client, NEW facts \in SUBSET Fact, Publish(c, facts),
         desk[c].step = "serving", desk[c].op \in {"save", "import"},
         desk[c].op = "save" => desk[c].base = selected /\ facts = Contents(selected) \cup {c},
         UNCHANGED <<selected, damaged, bindVars, lockVars, fenceVars, taskVars>>
  PROVE  IInv'
<1>1. /\ ShelfOK' /\ Len(shelf) <= Len(shelf') /\ shelf'[Len(shelf')] = facts
      /\ Contents(selected)' = Contents(selected)
  BY NewVersion DEF IInv, ShelfOK, Publish
<1>2. FencesOK'
  BY DEF IInv, FencesOK, fenceVars
<1>3. PICK r : r = [desk[c] EXCEPT !.step = "published", !.facts = {}, !.repair = FALSE]
  OBVIOUS
<1>4. desk[c] \in Request
  BY DEF IInv, DeskInv, DeskOK
<1>5. /\ r \in Request /\ desk' = [desk EXCEPT ![c] = r]
      /\ r.op = desk[c].op /\ r.base = desk[c].base /\ r.step = "published"
  BY <1>3, <1>4 DEF Publish, Request, STEPS
<1>6. r \in Request'
  BY <1>1, <1>5, VersionsStay DEF IInv
<1>7. NeedsMutation(r) /\ NeedsCommand(r) /\ NeedsMutation(desk[c]) /\ NeedsCommand(desk[c])
  BY <1>5 DEF NeedsMutation, NeedsCommand
<1>8. mutation = c /\ command = c /\ ~stopping
  BY <1>7, OneServes DEF IInv, DeskInv, LocksOK
<1>9. Move(c, r) /\ MayMove(c, r)
  BY <1>5, <1>7, <1>8 DEF Move, MayMove, lockVars
<1>10. DeskOK' /\ LocksOK'
  BY <1>1, <1>6, <1>9, MoveLocks DEF IInv, DeskInv
<1>11. desk'[c] = r /\ \A d \in Client \ {c} : desk'[d] = desk[d]
  BY <1>5 DEF IInv, DeskInv, DeskOK
<1>12. LocalSteps'
  BY <1>5, <1>11 DEF IInv, DeskInv, LocalSteps, Local
<1>13. BindingInv'
  BY <1>5, <1>11 DEF IInv, DeskInv, BindingInv
<1>14. \A d \in Client \ {c} : ~NeedsCommand(desk'[d])
  BY <1>7, <1>11, OneServes
<1>15. EditInv'
  BY <1>1, <1>5, <1>11, <1>14 DEF EditInv, At, NeedsCommand
<1>16. StopInv'
  BY <1>8 DEF StopInv, fenceVars
<1>17. DeskInv'
  BY <1>10, <1>12, <1>13, <1>15, <1>16 DEF DeskInv
<1>18. TaskInv'
  BY <1>1, VersionsStay DEF IInv, TaskInv, TasksOK, ProfileInv, Made, taskVars, targetVars
<1> QED
  BY <1>1, <1>2, <1>17, <1>18 DEF IInv

\* PublishEdit: the facts of the selection and the edit.
LEMMA PublishEditStep ==
  ASSUME IInv, NEW c \in Client, PublishEdit(c)
  PROVE  IInv'
<1>1. Contents(selected) \cup {c} \in SUBSET Fact
  BY DEF IInv, ShelfOK, Contents, Version, NoProfile, Fact
<1> QED
  BY <1>1, PublishStep DEF PublishEdit, At, SeesWhatIsThere, SeesSelection

\* PublishImport: what the imported file says.
LEMMA PublishImportStep ==
  ASSUME IInv, NEW c \in Client, PublishImport(c)
  PROVE  IInv'
  BY PublishStep DEF PublishImport, At

\* ReplaceSettings: nobody else has published, and nobody is about to create a
\* task, so a new selection disturbs no promise.
LEMMA ReplaceSettingsStep ==
  ASSUME IInv, NEW c \in Client, ReplaceSettings(c)
  PROVE  IInv'
<1>1. ShelfOK'
  <2>1. Len(shelf) \in Nat /\ Len(shelf) >= 1 /\ selected' = Len(shelf)
    BY ConstantsAssumption DEF IInv, ShelfOK, ReplaceSettings
  <2>2. selected' \in Version
    BY <2>1 DEF Version
  <2> QED
    BY <2>2 DEF IInv, ShelfOK, Version, ReplaceSettings, bindVars
<1>2. FencesOK'
  BY DEF IInv, FencesOK, ReplaceSettings, fenceVars
<1>3. TaskInv'
  BY TasksStay DEF IInv, ReplaceSettings
<1>4. PICK r : r = [desk[c] EXCEPT !.step = "replaced"]
  OBVIOUS
<1>5. desk[c] \in Request /\ desk[c].step = "published"
  BY DEF IInv, DeskInv, DeskOK, ReplaceSettings
<1>6. r \in Request /\ r.op = desk[c].op /\ r.step = "replaced" /\ desk' = [desk EXCEPT ![c] = r]
  BY <1>4, <1>5 DEF ReplaceSettings, GoTo, Request, STEPS
<1>7. r \in Request' /\ Len(shelf) <= Len(shelf')
  BY <1>6 DEF Request, Version, ReplaceSettings, IInv, ShelfOK
<1>8. desk[c].op \notin {"command", "fact"}
  BY <1>5 DEF IInv, DeskInv, LocalSteps, Local
<1>9. NeedsMutation(r) /\ NeedsCommand(r) /\ NeedsMutation(desk[c]) /\ NeedsCommand(desk[c])
  BY <1>5, <1>6, <1>8 DEF NeedsMutation, NeedsCommand
<1>10. mutation = c /\ command = c /\ ~stopping
  BY <1>9, OneServes DEF IInv, DeskInv, LocksOK
<1>11. Move(c, r) /\ MayMove(c, r)
  BY <1>6, <1>9, <1>10 DEF Move, MayMove, lockVars, ReplaceSettings
<1>12. DeskOK' /\ LocksOK'
  BY <1>1, <1>7, <1>11, MoveLocks DEF IInv, DeskInv
<1>13. desk'[c] = r /\ \A d \in Client \ {c} : desk'[d] = desk[d]
  BY <1>6 DEF IInv, DeskInv, DeskOK
<1>14. \A d \in Client \ {c} : ~NeedsCommand(desk'[d]) /\ ~NeedsMutation(desk'[d])
  BY <1>9, <1>13, OneServes, OneAdmitted
<1>15. LocalSteps'
  BY <1>6, <1>8, <1>13 DEF IInv, DeskInv, LocalSteps, Local
<1>16. BindingInv'
  BY <1>6, <1>13, <1>14, <1>15 DEF BindingInv, LocalSteps, Local, NeedsMutation
<1>17. EditInv'
  BY <1>6, <1>13, <1>14 DEF EditInv, At, NeedsCommand
<1>18. StopInv'
  BY <1>10 DEF StopInv, ReplaceSettings, fenceVars
<1>19. DeskInv'
  BY <1>12, <1>15, <1>16, <1>17, <1>18 DEF DeskInv
<1> QED
  BY <1>1, <1>2, <1>3, <1>19 DEF IInv

\* What is left of a save or an import ends with an answer.
LEMMA AnsweredStep ==
  ASSUME IInv, NEW c \in Client, Answer(c), ShelfOK', FencesOK', TaskInv',
         UNCHANGED <<selected, shelf, stopping>>
  PROVE  IInv'
  BY AnswerMove DEF IInv

\* A save that is refused changes no file: its request is answered, no more.
LEMMA SaveRefusedStep ==
  ASSUME IInv, NEW c \in Client, SaveRefused(c)
  PROVE  IInv'
<1>1. ShelfOK' /\ FencesOK'
  BY DEF IInv, ShelfOK, FencesOK, Version, SaveRefused, shelfVars, bindVars, fenceVars
<1> QED
  BY <1>1, TasksStay, AnsweredStep DEF IInv, SaveRefused, shelfVars, fenceVars

\* What is bound after a confirmed selection is what is selected.
LEMMA ConfirmSelectionStep ==
  ASSUME IInv, NEW c \in Client, ConfirmSelection(c)
  PROVE  IInv'
<1>1. ShelfOK' /\ FencesOK'
  BY DEF IInv, ShelfOK, FencesOK, Version, ConfirmSelection, shelfVars, fenceVars
<1> QED
  BY <1>1, TasksStay, AnsweredStep DEF IInv, ConfirmSelection, shelfVars, fenceVars

\* A publication whose outcome is unknown is noted as uncertain, and answered.
LEMMA PublicationUncertainStep ==
  ASSUME IInv, NEW c \in Client, PublicationUncertain(c)
  PROVE  IInv'
<1>1. ShelfOK' /\ FencesOK'
  BY DEF IInv, ShelfOK, FencesOK, Version, PublicationUncertain, shelfVars, fenceVars
<1> QED
  BY <1>1, TasksStay, AnsweredStep DEF IInv, PublicationUncertain, shelfVars, fenceVars

\* A faulty import is answered; the selection stays as it was switched.
LEMMA ImportFaultStep ==
  ASSUME IInv, NEW c \in Client, ImportFault(c)
  PROVE  IInv'
<1>1. ShelfOK' /\ FencesOK'
  BY DEF IInv, ShelfOK, FencesOK, Version, ImportFault, shelfVars, bindVars, fenceVars
<1> QED
  BY <1>1, TasksStay, AnsweredStep DEF IInv, ImportFault, shelfVars, fenceVars

\* A reconciliation binds what is selected, or leaves the editor uncertain.
LEMMA ReconcileProfileEditorStep ==
  ASSUME IInv, NEW c \in Client, ReconcileProfileEditor(c)
  PROVE  IInv'
<1>1. ShelfOK' /\ FencesOK'
  BY DEF IInv, ShelfOK, FencesOK, Version, ReconcileProfileEditor, shelfVars, fenceVars
<1> QED
  BY <1>1, TasksStay, AnsweredStep DEF IInv, ReconcileProfileEditor, shelfVars, fenceVars

-----------------------------------------------------------------------------
(* A new task.                                                               *)

\* A chat whose binding ended goes on deciding; a form is answered.
LEMMA EndBindingMove ==
  ASSUME IInv, UNCHANGED <<selected, shelf, stopping>>, ShelfOK', NEW c \in Client,
         desk[c].step \in {"binding", "enqueue"}, EndBinding(c)
  PROVE  DeskInv'
<1>1. CASE desk[c].op # "chat"
  BY <1>1, AnswerMove DEF EndBinding
<1>2. CASE desk[c].op = "chat"
  <2>1. PICK r : r = [desk[c] EXCEPT !.step = "deciding", !.base = NoProfile]
    OBVIOUS
  <2>2. desk[c] \in Request
    BY DEF IInv, DeskInv, DeskOK
  <2>3. /\ r \in Request /\ r.op = "chat" /\ r.step = "deciding"
        /\ desk' = [desk EXCEPT ![c] = r] /\ UNCHANGED lockVars
    BY <1>2, <2>1, <2>2 DEF EndBinding, Request, STEPS
  <2>4. /\ Plain(r) /\ NeedsMutation(r) /\ ~NeedsCommand(r)
        /\ NeedsMutation(desk[c]) /\ ~NeedsCommand(desk[c])
    BY <1>2, <2>3 DEF Plain, Local, NeedsMutation, NeedsCommand
  <2> QED
    BY <2>3, <2>4, KeepLocks
<1> QED
  BY <1>1, <1>2

\* ProfileRef: what is taken to the row is the selection, or is not managed.
LEMMA ProfileRefStep ==
  ASSUME IInv, NEW c \in Client, ProfileRef(c)
  PROVE  IInv'
<1>1. ShelfOK' /\ FencesOK'
  BY DEF IInv, ShelfOK, FencesOK, Version, ProfileRef, shelfVars, fenceVars
<1>2. TaskInv'
  BY TasksStay DEF IInv, ProfileRef, shelfVars
<1>3. CASE EndBinding(c)
  <2>1. DeskInv'
    BY <1>1, <1>3, EndBindingMove DEF ProfileRef, shelfVars, fenceVars
  <2> QED
    BY <1>1, <1>2, <2>1 DEF IInv
<1>4. CASE /\ ~uncertain /\ Provable(bound)
           /\ desk' = [desk EXCEPT ![c].step = "enqueue", ![c].base = bound]
           /\ UNCHANGED <<uncertain, lockVars>>
  <2>1. PICK r : r = [desk[c] EXCEPT !.step = "enqueue", !.base = bound]
    OBVIOUS
  <2>2. desk[c] \in Request /\ desk[c].step = "binding"
    BY DEF IInv, DeskInv, DeskOK, ProfileRef
  <2>3. desk[c].op \notin {"command", "fact"}
    BY <2>2 DEF IInv, DeskInv, LocalSteps, Local
  <2>4. /\ r \in Request /\ r.op = desk[c].op /\ r.step = "enqueue" /\ r.base = bound
        /\ desk' = [desk EXCEPT ![c] = r]
    BY <1>4, <2>1, <2>2 DEF Request, STEPS, IInv, ShelfOK
  <2>5. NeedsMutation(r) /\ ~NeedsCommand(r) /\ NeedsMutation(desk[c]) /\ ~NeedsCommand(desk[c])
    BY <2>2, <2>3, <2>4 DEF NeedsMutation, NeedsCommand
  <2>6. mutation = c /\ Without(command, c) = command /\ ~stopping
    BY <2>5, OneAdmitted, ConstantsAssumption DEF IInv, DeskInv, LocksOK, Without
  <2>7. Move(c, r) /\ MayMove(c, r)
    BY <1>4, <2>4, <2>5, <2>6 DEF Move, MayMove, lockVars
  <2>8. r \in Request' /\ Len(shelf) <= Len(shelf')
    BY <2>4 DEF Request, Version, ProfileRef, shelfVars, IInv, ShelfOK
  <2>9. DeskOK' /\ LocksOK'
    BY <1>1, <2>7, <2>8, MoveLocks DEF IInv, DeskInv
  <2>10. desk'[c] = r /\ \A d \in Client \ {c} : desk'[d] = desk[d]
    BY <2>4 DEF IInv, DeskInv, DeskOK
  <2>11. LocalSteps'
    BY <2>3, <2>4, <2>10 DEF IInv, DeskInv, LocalSteps, Local
  <2>12. BindingInv'
    BY <1>4, <2>4, <2>10 DEF IInv, DeskInv, BindingInv, Provable, ProfileRef, shelfVars
  <2>13. EditInv'
    BY <2>4, <2>10 DEF IInv, DeskInv, EditInv, At, Contents, ProfileRef, shelfVars
  <2>14. StopInv'
    BY <2>6 DEF StopInv, ProfileRef, fenceVars
  <2> QED
    BY <1>1, <1>2, <2>9, <2>11, <2>12, <2>13, <2>14 DEF IInv, DeskInv
<1> QED
  BY <1>3, <1>4 DEF ProfileRef

\* Enqueue: a new row has the profile that was bound for it.
LEMMA EnqueueStep ==
  ASSUME IInv, NEW c \in Client, NEW t \in Task, Enqueue(c, t)
  PROVE  IInv'
<1>1. ShelfOK' /\ FencesOK'
  BY DEF IInv, ShelfOK, FencesOK, Version, Enqueue, shelfVars, bindVars, fenceVars
<1>2. DeskInv'
  BY <1>1, EndBindingMove DEF Enqueue, shelfVars, fenceVars
<1>3. desk[c] \in Request /\ desk[c].base # NoProfile
  BY DEF IInv, DeskInv, DeskOK, BindingInv, Enqueue
<1>4. CASE t \in Made
  BY <1>1, <1>2, <1>4, TasksStay DEF IInv, Enqueue, shelfVars, taskVars
<1>5. CASE t \notin Made
  <2>1. desk[c].base \in Version
    BY <1>3 DEF Request
  <2>2. /\ stage' = [stage EXCEPT ![t] = "runnable"]
        /\ profile' = [profile EXCEPT ![t] = desk[c].base]
        /\ UNCHANGED <<shelf, pending, known, landing, started>>
    BY <1>5 DEF Enqueue, shelfVars, targetVars
  <2>3. Made' = Made \cup {t}
    BY <2>2 DEF Made, IInv, TaskInv, TasksOK
  <2>4. TasksOK'
    BY <2>1, <2>2, <2>3 DEF IInv, TaskInv, TasksOK, STAGES, Version
  <2>5. ProfileInv'
    BY <2>1, <2>2, <2>3 DEF IInv, TaskInv, TasksOK, ProfileInv, Version
  <2> QED
    BY <1>1, <1>2, <2>4, <2>5 DEF IInv, TaskInv
<1> QED
  BY <1>4, <1>5

-----------------------------------------------------------------------------
(* Commands to existing tasks.                                               *)

\* A command leaves no task out of existence and brings none into it.
LEMMA ControlledStages ==
  ASSUME NEW s, NEW to \in Controlled(s)
  PROVE  to \in STAGES \ {"absent"} /\ s # "absent"
  BY DEF Controlled, STAGES

\* A task that exists gets another stage and stays a task.
LEMMA SetStageOK ==
  ASSUME TaskInv, NEW t, NEW to \in STAGES \ {"absent"}, stage[t] # "absent", SetStage(t, to)
  PROVE  stage' \in [Task -> STAGES] /\ \A u \in Task : stage'[u] = "absent" <=> stage[u] = "absent"
  BY DEF TaskInv, TasksOK, SetStage

\* Rows that changed or stayed, and revisions that are forgotten.
LEMMA RowsMove ==
  ASSUME TaskInv, UNCHANGED <<shelf, profile, pending, targetVars>>, known' \subseteq known,
         \/ UNCHANGED stage
         \/ \E t, to : to \in STAGES \ {"absent"} /\ stage[t] # "absent" /\ SetStage(t, to)
  PROVE  TaskInv'
<1>1. stage' \in [Task -> STAGES] /\ \A u \in Task : stage'[u] = "absent" <=> stage[u] = "absent"
  BY SetStageOK DEF TaskInv, TasksOK
<1> QED
  BY <1>1, TasksMove DEF TaskInv, TasksOK, targetVars

\* A retarget starts a task over that no run has begun, and takes it off its
\* landing page.
LEMMA RetargetMove ==
  ASSUME TaskInv, UNCHANGED <<shelf, profile, pending, started>>, known' \subseteq known,
         NEW t, Retarget(t)
  PROVE  TaskInv'
<1>1. t \in Task /\ stage[t] # "absent" /\ t \notin started
  BY DEF Retarget, Retargetable, AtLanding, TaskInv, TasksOK, Made
<1>2. stage' \in [Task -> STAGES] /\ \A u \in Task : stage'[u] = "absent" <=> stage[u] = "absent"
  BY <1>1, SetStageOK DEF Retarget, STAGES
<1>3. landing' \subseteq Made /\ started' \subseteq landing'
  BY <1>1 DEF Retarget, TaskInv, TasksOK
<1> QED
  BY <1>2, <1>3, TasksMove DEF TaskInv, TasksOK

\* A new task of the command line has the profile outside and no attempt.
LEMMA GivenMove ==
  ASSUME ShelfOK, TaskInv, UNCHANGED <<shelf, pending, started>>, known' \subseteq known,
         NEW t \in Task, EnqueueGiven(t)
  PROVE  TaskInv'
<1>1. stage' = [stage EXCEPT ![t] = "runnable"] /\ profile' = [profile EXCEPT ![t] = OUTSIDE]
      /\ landing' = landing \cup {t}
  BY DEF EnqueueGiven, SetStage
<1>2. Made' = Made \cup {t} /\ Version' = Version /\ OUTSIDE \in Version
  BY <1>1, ConstantsAssumption DEF Made, TaskInv, TasksOK, ShelfOK, Version, OUTSIDE
<1>3. TasksOK'
  BY <1>1, <1>2 DEF TaskInv, TasksOK, STAGES
<1>4. ProfileInv'
  BY <1>1, <1>2 DEF TaskInv, TasksOK, ProfileInv
<1> QED
  BY <1>3, <1>4 DEF TaskInv

\* A command changes the stage of a task, never what it is bound to.
LEMMA ObeyStep ==
  ASSUME IInv, NEW c \in Client, Obey(c)
  PROVE  IInv'
<1>1. ShelfOK' /\ FencesOK'
  BY DEF IInv, ShelfOK, FencesOK, Version, Obey, shelfVars, bindVars, fenceVars
<1>2. \/ UNCHANGED stage
      \/ \E t, to : to \in STAGES \ {"absent"} /\ stage[t] # "absent" /\ SetStage(t, to)
  BY ControlledStages DEF Obey
<1>3. known' \subseteq known
  BY DEF Obey, ForgetDone
<1>4. TaskInv'
  BY <1>2, <1>3, RowsMove DEF IInv, Obey, shelfVars
<1> QED
  BY <1>1, <1>4, AnsweredStep DEF Obey, shelfVars, fenceVars

\* A bearer route changes the stage of a task, never what it is bound to.
LEMMA DispatchStep ==
  ASSUME IInv, NEW c \in Client, Dispatch(c)
  PROVE  IInv'
<1>1. ShelfOK' /\ FencesOK'
  BY DEF IInv, ShelfOK, FencesOK, Version, Dispatch, shelfVars, bindVars, fenceVars
<1>2. known' \subseteq known /\ UNCHANGED <<shelf, pending, started>>
  BY DEF Dispatch, Forget, shelfVars
<1>3. ASSUME \E t \in Landing : EnqueueGiven(t)  PROVE TaskInv'
  BY <1>2, <1>3, GivenMove, ConstantsAssumption DEF IInv
<1>4. ASSUME ~\E t \in Landing : EnqueueGiven(t)  PROVE TaskInv'
  <2>1. UNCHANGED <<profile, targetVars>>
    BY <1>2, <1>4 DEF Dispatch, targetVars
  <2>2. \/ UNCHANGED stage
        \/ \E t, to : to \in STAGES \ {"absent"} /\ stage[t] # "absent" /\ SetStage(t, to)
    BY <1>4, ControlledStages DEF Dispatch
  <2> QED
    BY <1>2, <2>1, <2>2, RowsMove DEF IInv
<1>5. TaskInv'
  BY <1>3, <1>4
<1> QED
  BY <1>1, <1>5, AnsweredStep DEF Dispatch, shelfVars, fenceVars

\* A chat that resumes its task leaves it bound as it was.
LEMMA ResumeWaitingStep ==
  ASSUME IInv, NEW c \in Client, ResumeWaiting(c)
  PROVE  IInv'
<1>1. ShelfOK' /\ FencesOK'
  BY DEF IInv, ShelfOK, FencesOK, Version, ResumeWaiting, shelfVars, bindVars, fenceVars
<1>2. known' \subseteq known /\ UNCHANGED <<shelf, profile, pending, started>>
  BY DEF ResumeWaiting, ForgetDone, shelfVars
<1>3. ASSUME Retarget(desk[c].task)  PROVE TaskInv'
  BY <1>2, <1>3, RetargetMove DEF IInv
<1>4. ASSUME ~Retarget(desk[c].task)  PROVE TaskInv'
  <2>1. UNCHANGED targetVars
    BY <1>2, <1>4 DEF ResumeWaiting, targetVars
  <2>2. \/ UNCHANGED stage
        \/ \E t, to : to \in STAGES \ {"absent"} /\ stage[t] # "absent" /\ SetStage(t, to)
    BY <1>4, ControlledStages DEF ResumeWaiting
  <2> QED
    BY <1>2, <2>1, <2>2, RowsMove DEF IInv
<1>5. TaskInv'
  BY <1>3, <1>4
<1> QED
  BY <1>1, <1>5, AnsweredStep DEF ResumeWaiting, shelfVars, fenceVars

\* AcceptFact: the answer is one of a task that exists.
LEMMA AcceptFactStep ==
  ASSUME IInv, NEW c \in Client, AcceptFact(c)
  PROVE  IInv'
<1>1. ShelfOK' /\ FencesOK'
  BY DEF IInv, ShelfOK, FencesOK, Version, AcceptFact, shelfVars, bindVars, fenceVars
<1>2. known' \subseteq Client \X Made
  BY DEF IInv, TaskInv, TasksOK, AcceptFact, ForgetDone
<1>3. /\ stage' \in [Task -> STAGES] /\ \A u \in Task : stage'[u] = "absent" <=> stage[u] = "absent"
      /\ pending' \subseteq Made
  <2>1. CASE UNCHANGED <<stage, pending>>
    BY <2>1 DEF IInv, TaskInv, TasksOK
  <2>2. CASE ~UNCHANGED <<stage, pending>>
    <3>1. PICK remember \in BOOLEAN :
            /\ SetStage(desk[c].task, IF remember THEN "blocked" ELSE "runnable")
            /\ pending' = IF remember THEN pending \cup {desk[c].task} ELSE pending
      BY <2>2 DEF AcceptFact
    <3>2. desk[c].task \in Made /\ stage[desk[c].task] # "absent"
      BY <2>2 DEF AcceptFact, Current, IInv, TaskInv, TasksOK
    <3>3. (IF remember THEN "blocked" ELSE "runnable") \in STAGES \ {"absent"}
      BY DEF STAGES
    <3>4. stage' \in [Task -> STAGES] /\ \A u \in Task : stage'[u] = "absent" <=> stage[u] = "absent"
      BY <3>1, <3>2, <3>3, SetStageOK DEF IInv
    <3> QED
      BY <3>1, <3>2, <3>4 DEF IInv, TaskInv, TasksOK
  <2> QED
    BY <2>1, <2>2
<1>4. TaskInv'
  BY <1>2, <1>3, TasksMove DEF IInv, TaskInv, TasksOK, Made, AcceptFact, shelfVars, targetVars
<1> QED
  BY <1>1, <1>4, AnsweredStep DEF AcceptFact, shelfVars, fenceVars

-----------------------------------------------------------------------------
(* The conversation.                                                         *)

\* ReadTasks: the chat keeps the mutation lock and learns the revisions.
LEMMA ReadTasksStep ==
  ASSUME IInv, NEW c \in Client, ReadTasks(c)
  PROVE  IInv'
<1>1. ShelfOK' /\ FencesOK'
  BY DEF IInv, ShelfOK, FencesOK, Version, ReadTasks, shelfVars, bindVars, fenceVars
<1>2. TaskInv'
  BY TasksMove DEF IInv, TaskInv, TasksOK, ReadTasks, shelfVars, targetVars
<1>3. desk[c] \in Request /\ At(c, "chat", "reading")
  BY DEF IInv, DeskInv, DeskOK, ReadTasks
<1>4. PICK r : /\ desk' = [desk EXCEPT ![c] = r]
               /\ \/ r = [desk[c] EXCEPT !.step = "deciding"]
                  \/ \E t \in Task : r = [desk[c] EXCEPT !.step = "resuming", !.task = t]
  BY DEF ReadTasks, GoTo
<1>5. r \in Request /\ r.op = "chat" /\ r.step \in {"deciding", "resuming"}
  BY <1>3, <1>4 DEF Request, STEPS, At
<1>6. /\ Plain(r) /\ NeedsMutation(r) /\ ~NeedsCommand(r)
      /\ NeedsMutation(desk[c]) /\ ~NeedsCommand(desk[c])
  BY <1>3, <1>5 DEF At, Plain, Local, NeedsMutation, NeedsCommand
<1>7. DeskInv'
  BY <1>1, <1>4, <1>5, <1>6, KeepLocks DEF ReadTasks, shelfVars, fenceVars
<1> QED
  BY <1>1, <1>2, <1>7 DEF IInv

\* Consider, Apply and ConsiderCreate: the chat goes from deciding to a decision
\* and back.
LEMMA ChatMove ==
  ASSUME IInv, NEW c \in Client, NEW r \in Request, desk' = [desk EXCEPT ![c] = r],
         desk[c].op = "chat", desk[c].step \in {"deciding", "acting"},
         r.op = "chat", r.step \in {"deciding", "acting", "binding"},
         ShelfOK', UNCHANGED <<selected, shelf, stopping, lockVars>>
  PROVE  DeskInv'
<1>1. /\ Plain(r) /\ NeedsMutation(r) /\ ~NeedsCommand(r)
      /\ NeedsMutation(desk[c]) /\ ~NeedsCommand(desk[c])
  BY DEF Plain, Local, NeedsMutation, NeedsCommand
<1> QED
  BY <1>1, KeepLocks

\* A chat turn that looks at a task remembers the revision it saw.
LEMMA ConsiderStep ==
  ASSUME IInv, NEW c \in Client, NEW t \in Task, Consider(c, t)
  PROVE  IInv'
<1>1. ShelfOK' /\ FencesOK'
  BY DEF IInv, ShelfOK, FencesOK, Version, Consider, shelfVars, bindVars, fenceVars
<1>2. PICK r : r = [desk[c] EXCEPT !.step = "acting", !.task = t]
  OBVIOUS
<1>3. desk[c] \in Request
  BY DEF IInv, DeskInv, DeskOK
<1>4. r \in Request /\ r.op = desk[c].op /\ r.step = "acting" /\ desk' = [desk EXCEPT ![c] = r]
  BY <1>2, <1>3 DEF Consider, Request, STEPS
<1>5. DeskInv'
  BY <1>1, <1>4, ChatMove DEF Consider, At, shelfVars, fenceVars
<1> QED
  BY <1>1, <1>5, TasksStay DEF IInv, Consider, shelfVars

\* A chat turn that is to create a task goes on to bind it.
LEMMA ConsiderCreateStep ==
  ASSUME IInv, NEW c \in Client, ConsiderCreate(c)
  PROVE  IInv'
<1>1. ShelfOK' /\ FencesOK'
  BY DEF IInv, ShelfOK, FencesOK, Version, ConsiderCreate, shelfVars, bindVars, fenceVars
<1>2. PICK r : r = [desk[c] EXCEPT !.step = "binding"]
  OBVIOUS
<1>3. desk[c] \in Request
  BY DEF IInv, DeskInv, DeskOK
<1>4. r \in Request /\ r.op = desk[c].op /\ r.step = "binding" /\ desk' = [desk EXCEPT ![c] = r]
  BY <1>2, <1>3 DEF ConsiderCreate, GoTo, Request, STEPS
<1>5. DeskInv'
  BY <1>1, <1>4, ChatMove DEF ConsiderCreate, At, shelfVars, fenceVars
<1> QED
  BY <1>1, <1>5, TasksStay DEF IInv, ConsiderCreate, shelfVars

\* A decision of the chat changes the stage of its task, or retargets it.
LEMMA ApplyStep ==
  ASSUME IInv, NEW c \in Client, Apply(c)
  PROVE  IInv'
<1>1. ShelfOK' /\ FencesOK'
  BY DEF IInv, ShelfOK, FencesOK, Version, Apply, shelfVars, bindVars, fenceVars
<1>2. PICK r : r = [desk[c] EXCEPT !.step = "deciding", !.task = "none"]
  OBVIOUS
<1>3. desk[c] \in Request
  BY DEF IInv, DeskInv, DeskOK
<1>4. r \in Request /\ r.op = desk[c].op /\ r.step = "deciding" /\ desk' = [desk EXCEPT ![c] = r]
  BY <1>2, <1>3 DEF Apply, Request, STEPS
<1>5. DeskInv'
  BY <1>1, <1>4, ChatMove DEF Apply, At, shelfVars, fenceVars
<1>6. known' \subseteq known /\ UNCHANGED <<shelf, profile, pending, started>>
  BY DEF Apply, Forget, shelfVars
<1>7. ASSUME Retarget(desk[c].task)  PROVE TaskInv'
  BY <1>6, <1>7, RetargetMove DEF IInv
<1>8. ASSUME ~Retarget(desk[c].task)  PROVE TaskInv'
  <2>1. UNCHANGED targetVars
    BY <1>6, <1>8 DEF Apply, targetVars
  <2>2. \/ UNCHANGED stage
        \/ \E t, to : to \in STAGES \ {"absent"} /\ stage[t] # "absent" /\ SetStage(t, to)
    BY <1>8, ControlledStages DEF Apply, Decided, STAGES
  <2> QED
    BY <1>6, <2>1, <2>2, RowsMove DEF IInv
<1> QED
  BY <1>1, <1>5, <1>7, <1>8 DEF IInv

\* A chat turn that ends forgets the revisions it saw.
LEMMA EndChatStep ==
  ASSUME IInv, NEW c \in Client, EndChat(c)
  PROVE  IInv'
<1>1. ShelfOK' /\ FencesOK'
  BY DEF IInv, ShelfOK, FencesOK, Version, EndChat, shelfVars, bindVars, fenceVars
<1>2. known' \subseteq known
  BY DEF EndChat, ForgetDone
<1>3. TaskInv'
  BY <1>2, RowsMove DEF IInv, EndChat, shelfVars
<1> QED
  BY <1>1, <1>3, AnsweredStep DEF EndChat, shelfVars, fenceVars

-----------------------------------------------------------------------------
(* Stopping the service.                                                     *)

\* StopService: both locks are free, and they stay so.
LEMMA StopServiceStep ==
  ASSUME IInv, NEW c \in Client, StopService(c)
  PROVE  IInv'
<1>1. ShelfOK'
  BY DEF IInv, ShelfOK, Version, StopService, shelfVars, bindVars
<1>2. FencesOK'
  BY DEF IInv, FencesOK, StopService, ReadFence, Recovered, UPDATES, fenceVars
<1>3. TaskInv'
  BY TasksStay DEF IInv, StopService, shelfVars
<1>4. CASE Acknowledge(c)
  <2>1. PICK r : r = [desk[c] EXCEPT !.op = "stop", !.step = "stopped"]
    OBVIOUS
  <2>2. desk[c] \in Request
    BY DEF IInv, DeskInv, DeskOK
  <2>3. r \in Request /\ r.op = "stop" /\ r.step = "stopped" /\ desk' = [desk EXCEPT ![c] = r]
    BY <1>4, <2>1, <2>2 DEF Acknowledge, Request, OPERATIONS, STEPS
  <2>4. Plain(r) /\ ~NeedsMutation(r) /\ ~NeedsCommand(r)
    BY <2>3 DEF Plain, Local, NeedsMutation, NeedsCommand
  <2>5. Move(c, r) /\ MayMove(c, r)
    BY <2>3, <2>4 DEF Move, MayMove, StopService, BothLocks, Without, lockVars
  <2>6. DeskInv'
    BY <1>1, <2>3, <2>4, <2>5, PlainMove DEF StopService, shelfVars
  <2> QED
    BY <1>1, <1>2, <1>3, <2>6 DEF IInv
<1>5. CASE ~Acknowledge(c)
  <2>1. UNCHANGED <<selected, shelf, stopping, lockVars, desk>>
    BY <1>5 DEF StopService, shelfVars
  <2>2. DeskInv'
    BY <2>1, DeskStays DEF IInv
  <2> QED
    BY <1>1, <1>2, <1>3, <2>2 DEF IInv
<1> QED
  BY <1>4, <1>5

\* The service retires with no request past the admission.
LEMMA RetireForShutdownStep ==
  ASSUME IInv, RetireForShutdown
  PROVE  IInv'
<1>1. ShelfOK' /\ FencesOK'
  BY DEF IInv, ShelfOK, FencesOK, Version, RetireForShutdown, shelfVars, bindVars
<1>2. TaskInv'
  BY TasksStay DEF IInv, RetireForShutdown, shelfVars
<1>3. DeskOK' /\ LocksOK'
  BY DEF IInv, DeskInv, DeskOK, LocksOK, Request, Version, NeedsMutation, NeedsCommand,
         RetireForShutdown, shelfVars, lockVars
<1>4. LocalSteps' /\ BindingInv' /\ EditInv'
  BY DEF IInv, DeskInv, LocalSteps, Local, BindingInv, EditInv, At, Contents, RetireForShutdown, shelfVars
<1>5. StopInv'
  BY DEF StopInv, RetireForShutdown, BothLocks, lockVars
<1> QED
  BY <1>1, <1>2, <1>3, <1>4, <1>5 DEF IInv, DeskInv

\* The worker is halted of a service that is stopping already.
LEMMA SendStopResponseStep ==
  ASSUME IInv, NEW c \in Client, SendStopResponse(c)
  PROVE  IInv'
<1>1. ShelfOK' /\ FencesOK'
  BY DEF IInv, ShelfOK, FencesOK, Version, SendStopResponse, shelfVars, bindVars
<1> QED
  BY <1>1, TasksStay, AnsweredStep DEF IInv, SendStopResponse, shelfVars

-----------------------------------------------------------------------------
(* The worker, the file system and the end of the process.                   *)

\* A claim changes a stage, and what was seen of it is stale.
LEMMA ClaimStep ==
  ASSUME IInv, NEW t \in Task, Claim(t)
  PROVE  IInv'
<1>1. ShelfOK' /\ FencesOK'
  BY DEF IInv, ShelfOK, FencesOK, Version, Claim, shelfVars, bindVars, fenceVars
<1>2. DeskInv'
  BY DeskStays DEF IInv, Claim, shelfVars, fenceVars
<1>3. \E u, to : to \in STAGES \ {"absent"} /\ stage[u] # "absent" /\ SetStage(u, to)
  BY DEF Claim, STAGES
<1>4. TaskInv'
  BY <1>3, RowsMove DEF IInv, Claim, shelfVars, Forget
<1> QED
  BY <1>1, <1>2, <1>4 DEF IInv

\* An attempt is recorded for a task that exists.
LEMMA BeginRunAttemptStep ==
  ASSUME IInv, NEW t \in Task, BeginRunAttempt(t)
  PROVE  IInv'
<1>1. ShelfOK' /\ FencesOK'
  BY DEF IInv, ShelfOK, FencesOK, Version, BeginRunAttempt, shelfVars, bindVars, fenceVars
<1>2. DeskInv'
  BY DeskStays DEF IInv, BeginRunAttempt, shelfVars, fenceVars
<1>3. TaskInv'
  BY TasksMove DEF IInv, TaskInv, TasksOK, BeginRunAttempt, shelfVars
<1> QED
  BY <1>1, <1>2, <1>3 DEF IInv

\* A checkpoint reports for the task that runs, and what was seen of it is stale.
LEMMA CheckpointStep ==
  ASSUME IInv, NEW t \in Task, Checkpoint(t)
  PROVE  IInv'
<1>1. ShelfOK' /\ FencesOK'
  BY DEF IInv, ShelfOK, FencesOK, Version, Checkpoint, shelfVars, bindVars, fenceVars
<1>2. DeskInv'
  BY DeskStays DEF IInv, Checkpoint, shelfVars, fenceVars
<1>3. \E u, to : to \in STAGES \ {"absent"} /\ stage[u] # "absent" /\ SetStage(u, to)
  BY DEF Checkpoint, STAGES
<1>4. TaskInv'
  BY <1>3, RowsMove DEF IInv, Checkpoint, shelfVars, Forget
<1> QED
  BY <1>1, <1>2, <1>4 DEF IInv

\* A promotion adds its fact to one version.
LEMMA PromoteShelf ==
  ASSUME IInv, NEW t \in Task, Promote(t)
  PROVE  /\ profile[t] \in Version /\ shelf' \in Seq(SUBSET Fact) /\ Len(shelf') = Len(shelf)
         /\ \A v \in Version : shelf[v] \subseteq shelf'[v]
         /\ \A v \in Version \ {profile[t]} : shelf'[v] = shelf[v]
<1>1. profile[t] \in Version
  BY DEF Promote, IInv, TaskInv, TasksOK, ProfileInv
<1>2. shelf' = [shelf EXCEPT ![profile[t]] = shelf[profile[t]] \cup {t}]
  BY DEF Promote
<1>3. shelf[profile[t]] \cup {t} \in SUBSET Fact
  BY <1>1 DEF IInv, ShelfOK, Version, Fact
<1>4. shelf' \in Seq(SUBSET Fact) /\ Len(shelf') = Len(shelf)
  BY <1>1, <1>2, <1>3 DEF IInv, ShelfOK, Version
<1>5. /\ \A v \in Version : shelf[v] \subseteq shelf'[v]
      /\ \A v \in Version \ {profile[t]} : shelf'[v] = shelf[v]
  BY <1>1, <1>2 DEF IInv, ShelfOK, Version
<1> QED
  BY <1>1, <1>4, <1>5

\* Promote: the base of an edit is locked, and what was published only grows.
LEMMA PromoteStep ==
  ASSUME IInv, NEW t \in Task, Promote(t)
  PROVE  IInv'
<1>1. ShelfOK'
  BY PromoteShelf DEF IInv, ShelfOK, Version, Promote, bindVars
<1>2. FencesOK'
  BY DEF IInv, FencesOK, Promote, fenceVars
<1>3. Version' = Version /\ Request' = Request
  BY PromoteShelf DEF Version, Request
<1>4. DeskOK' /\ LocksOK' /\ LocalSteps' /\ BindingInv' /\ StopInv'
  BY <1>3 DEF IInv, DeskInv, DeskOK, LocksOK, LocalSteps, Local, BindingInv, StopInv,
              NeedsMutation, NeedsCommand, Promote, lockVars, fenceVars
<1>5. EditInv'
  <2>1. SUFFICES ASSUME NEW c \in Client, At(c, "save", "published")
                 PROVE  /\ desk[c].base = selected
                        /\ Contents(selected)' \cup {c} \subseteq shelf'[Len(shelf')]
    BY DEF EditInv, At, Promote
  <2>2. desk[c].base = selected /\ Contents(selected) \cup {c} \subseteq shelf[Len(shelf)]
    BY <2>1 DEF IInv, DeskInv, EditInv
  <2>3. profile[t] # selected
    BY <2>1, <2>2 DEF Promote, FileIsFree, At
  <2>4. Contents(selected)' = Contents(selected)
    BY <2>3, PromoteShelf DEF IInv, ShelfOK, Contents, Promote, NoProfile
  <2>5. Len(shelf) \in Version /\ Len(shelf') = Len(shelf)
    BY PromoteShelf DEF IInv, ShelfOK, Version
  <2>6. shelf[Len(shelf)] \subseteq shelf'[Len(shelf)]
    BY <2>5, PromoteShelf
  <2> QED
    BY <2>2, <2>4, <2>5, <2>6
<1>6. /\ stage' \in [Task -> STAGES] /\ Made' = Made
      /\ UNCHANGED <<profile, landing, started>>
      /\ pending' \subseteq pending /\ known' \subseteq known
  <2>1. PICK resumed \in {stage[t], "runnable"} :
          stage' = [u \in Task |->
            IF u \in {w \in Made \ {t} : profile[w] = profile[t] /\ stage[w] # "cancelled"} THEN "blocked"
            ELSE IF u = t THEN resumed ELSE stage[u]]
    BY DEF Promote
  <2>2. t \in Made
    BY DEF Promote, IInv, TaskInv, TasksOK
  <2>3. stage' \in [Task -> STAGES] /\ Made' = Made
    BY <2>1, <2>2 DEF IInv, TaskInv, TasksOK, STAGES, Made
  <2> QED
    BY <2>3 DEF Promote, Forget, targetVars
<1>7. TaskInv'
  BY <1>3, <1>6 DEF IInv, TaskInv, TasksOK, ProfileInv
<1> QED
  BY <1>1, <1>2, <1>4, <1>5, <1>7 DEF IInv, DeskInv

\* A damaged resume file selects no other version.
LEMMA DamageResumeStep ==
  ASSUME IInv, DamageResume
  PROVE  IInv'
<1>1. ShelfOK' /\ FencesOK'
  BY DEF IInv, ShelfOK, FencesOK, Version, DamageResume, bindVars, fenceVars
<1> QED
  BY <1>1, DeskStays, TasksStay DEF IInv, DamageResume, fenceVars

\* Restart: a client starts over, and so do the locks.
LEMMA RestartStep ==
  ASSUME IInv, Restart
  PROVE  IInv'
<1>1. ShelfOK'
  BY DEF IInv, ShelfOK, Version, Restart, shelfVars
<1>2. FencesOK'
  BY DEF IInv, FencesOK, Restart
<1>3. AtRest \in Request'
  BY DEF AtRest, Request, OPERATIONS, STEPS, NoProfile
<1>4. DeskOK' /\ \A c \in Client : desk'[c] = AtRest
  BY <1>3 DEF Restart, DeskOK
<1>5. LocksOK'
  BY <1>4, ConstantsAssumption DEF Restart, LocksOK, AtRest, NeedsMutation, NeedsCommand
<1>6. LocalSteps' /\ BindingInv' /\ EditInv' /\ StopInv'
  BY <1>4 DEF Restart, LocalSteps, Local, BindingInv, EditInv, StopInv, At, AtRest
<1>7. stage' \in [Task -> STAGES] /\ \A u \in Task : stage'[u] = "absent" <=> stage[u] = "absent"
  BY DEF IInv, TaskInv, TasksOK, Restart, STAGES
<1>8. TaskInv'
  BY <1>7, TasksMove DEF IInv, TaskInv, TasksOK, Restart, shelfVars, targetVars
<1> QED
  BY <1>1, <1>2, <1>4, <1>5, <1>6, <1>8 DEF IInv, DeskInv

-----------------------------------------------------------------------------
(* The theorems.                                                             *)

\* Every step preserves the invariant.
LEMMA NextInv == IInv /\ [Next]_vars => IInv'
<1> SUFFICES ASSUME IInv, [Next]_vars PROVE IInv'
  OBVIOUS
<1>1. CASE Beside
  BY <1>1, ClaimStep, BeginRunAttemptStep, CheckpointStep, PromoteStep, DamageResumeStep, RetireForShutdownStep, RestartStep
     DEF Beside
<1>2. ASSUME NEW c \in Client, Requesting(c) PROVE IInv'
  BY <1>2, OpenEditorStep, SeeTaskStep DEF Requesting
<1>3. ASSUME NEW c \in Client, Configuring(c) PROVE IInv'
  BY <1>3, PublishEditStep, PublishImportStep, ReplaceSettingsStep, SaveRefusedStep, ConfirmSelectionStep,
     PublicationUncertainStep, ImportFaultStep, ReconcileProfileEditorStep DEF Configuring
<1>4. ASSUME NEW c \in Client, Conversing(c) PROVE IInv'
  BY <1>4, ReadTasksStep, ResumeWaitingStep, ApplyStep, ConsiderCreateStep, EndChatStep, ConsiderStep
     DEF Conversing
<1>5. ASSUME NEW c \in Client, Serving(c) PROVE IInv'
  BY <1>3, <1>4, <1>5, RunMutationStep, TakeCommandLockStep, RunLocalStep, ProfileRefStep, EnqueueStep,
     ObeyStep, DispatchStep, AcceptFactStep, StopServiceStep, SendStopResponseStep DEF Serving
<1>6. CASE UNCHANGED vars
  <2>1. ShelfOK' /\ FencesOK'
    BY <1>6 DEF IInv, ShelfOK, FencesOK, Version, vars, shelfVars, bindVars, fenceVars
  <2> QED
    BY <1>6, <2>1, DeskStays, TasksStay DEF IInv, vars, shelfVars, fenceVars
<1> QED
  BY <1>1, <1>2, <1>5, <1>6 DEF Next

\* The inductive invariant.
LEMMA Invariance == Spec => []IInv
  BY InitInv, NextInv, PTL DEF Spec

\* Every variable is well typed, and a lock is held by a client that is being
\* served and needs it (the lock scopes of supervisor.py).
THEOREM Typing == Spec => []TypeOK
<1>1. IInv => TypeOK
  BY DEF IInv, DeskInv, TaskInv, TypeOK
<1> QED
  BY <1>1, Invariance, PTL

\* A profile is only given to a task when it is created.
LEMMA ProfileSteps ==
  ASSUME [Next]_vars
  PROVE  \/ UNCHANGED profile
         \/ \E c \in Client, t \in Task : Enqueue(c, t)
         \/ \E t \in Task : EnqueueGiven(t)
<1>1. CASE Beside
  BY <1>1 DEF Beside, Claim, BeginRunAttempt, Checkpoint, Promote, DamageResume, RetireForShutdown, Restart, taskVars
<1>2. ASSUME NEW c \in Client, Requesting(c) PROVE UNCHANGED profile
  BY <1>2 DEF Requesting, OpenEditor, SeeTask, taskVars
<1>3. ASSUME NEW c \in Client, Configuring(c) PROVE UNCHANGED profile
  BY <1>3 DEF Configuring, PublishEdit, PublishImport, ReplaceSettings, SaveRefused, ConfirmSelection,
              PublicationUncertain, ImportFault, ReconcileProfileEditor, taskVars
<1>4. ASSUME NEW c \in Client, Conversing(c) PROVE UNCHANGED profile
  BY <1>4 DEF Conversing, ReadTasks, ResumeWaiting, Apply, ConsiderCreate, EndChat, Consider, taskVars
<1>5. ASSUME NEW c \in Client, Serving(c)
      PROVE  UNCHANGED profile \/ (\E t \in Task : Enqueue(c, t)) \/ \E t \in Task : EnqueueGiven(t)
  <2>1. CASE \/ \E op \in OPERATIONS : RunMutation(c, op)
             \/ TakeCommandLock(c) \/ RunLocal(c) \/ ProfileRef(c)
    BY <2>1 DEF RunMutation, TakeCommandLock, RunLocal, ProfileRef, taskVars
  <2>2. CASE Obey(c) \/ Dispatch(c) \/ AcceptFact(c) \/ StopService(c) \/ SendStopResponse(c)
    BY <2>2, ConstantsAssumption DEF Obey, Dispatch, AcceptFact, StopService, SendStopResponse, taskVars
  <2> QED
    BY <1>3, <1>4, <1>5, <2>1, <2>2 DEF Serving
<1>6. CASE UNCHANGED vars
  BY <1>6 DEF vars, taskVars
<1> QED
  BY <1>1, <1>2, <1>5, <1>6 DEF Next

\* Whatever save, import or restart went wrong before, a new task is never bound
\* to a managed version that is not the selected one any more (manager.py:
\* _profile_ref() and enqueue() under one mutation lock).
THEOREM BoundToTheSelected == Spec => TasksBindTheSelected
<1>1. ASSUME IInv, [Next]_vars, NEW t \in Task, profile'[t] # profile[t], Managed(profile'[t])
      PROVE  profile'[t] = selected
  <2>0. ~\E u \in Task : EnqueueGiven(u)
    BY <1>1 DEF EnqueueGiven, IInv, TaskInv, TasksOK, Managed, OUTSIDE
  <2>1. PICK c \in Client, u \in Task : Enqueue(c, u)
    BY <1>1, <2>0, ProfileSteps
  <2>2. u = t /\ profile'[t] = desk[c].base /\ desk[c].step = "enqueue"
    BY <1>1, <2>1 DEF Enqueue, IInv, TaskInv, TasksOK
  <2> QED
    BY <1>1, <2>2 DEF IInv, DeskInv, BindingInv
<1>2. IInv /\ [Next]_vars =>
        [\A t \in Task : profile'[t] # profile[t] /\ Managed(profile'[t]) => profile'[t] = selected]_vars
  BY <1>1
<1> QED
  BY <1>2, Invariance, PTL DEF Spec, TasksBindTheSelected

\* What a client is doing is changed by its own steps and by a restart only.
LEMMA OwnSteps ==
  ASSUME DeskOK, NEW d \in Client, Requesting(d) \/ Serving(d), NEW c \in Client \ {d}
  PROVE  desk'[c] = desk[c]
<1>1. CASE Requesting(d)
  BY <1>1 DEF Requesting, OpenEditor, SeeTask, DeskOK
<1>2. CASE Configuring(d)
  BY <1>2 DEF Configuring, PublishEdit, PublishImport, Publish, ReplaceSettings, GoTo, SaveRefused,
              ConfirmSelection, PublicationUncertain, ImportFault, ReconcileProfileEditor, Answer, DeskOK
<1>3. CASE Conversing(d)
  BY <1>3 DEF Conversing, ReadTasks, ResumeWaiting, Apply, ConsiderCreate, EndChat, Consider, GoTo, Answer, DeskOK
<1>4. CASE (\E op \in OPERATIONS : RunMutation(d, op)) \/ TakeCommandLock(d) \/ RunLocal(d)
  BY <1>4 DEF RunMutation, TakeCommandLock, RunLocal, GoTo, Answer, DeskOK
<1>5. CASE ProfileRef(d) \/ (\E t \in Task : Enqueue(d, t))
  BY <1>5 DEF ProfileRef, Enqueue, EndBinding, Answer, DeskOK
<1>6. CASE Obey(d) \/ Dispatch(d) \/ AcceptFact(d) \/ StopService(d) \/ SendStopResponse(d)
  BY <1>6 DEF Obey, Dispatch, AcceptFact, StopService, Acknowledge, SendStopResponse, Answer, DeskOK
<1> QED
  BY <1>1, <1>2, <1>3, <1>4, <1>5, <1>6 DEF Serving

\* A request moves by a step of its own, or falls with the process.
LEMMA DeskSteps ==
  ASSUME DeskOK, [Next]_vars, NEW c \in Client, desk'[c] # desk[c]
  PROVE  Restart \/ Requesting(c) \/ Serving(c)
<1>1. CASE Beside
  BY <1>1 DEF Beside, Claim, BeginRunAttempt, Checkpoint, Promote, DamageResume, RetireForShutdown
<1>2. CASE UNCHANGED vars
  BY <1>2 DEF vars
<1> QED
  BY <1>1, <1>2, OwnSteps DEF Next

\* Settings are replaced from a published version by one action.
LEMMA ReplacingSteps ==
  ASSUME DeskOK, [Next]_vars, NEW c \in Client, At(c, "save", "published"), desk'[c].step = "replaced"
  PROVE  ReplaceSettings(c)
<1>1. desk[c] \in Request /\ desk[c].op = "save" /\ desk[c].step = "published" /\ desk[c] # AtRest
  BY DEF DeskOK, At, AtRest
<1>2. Restart \/ Requesting(c) \/ Serving(c)
  BY <1>1, DeskSteps
<1>3. ~Restart /\ ~Requesting(c)
  <2>1. ~Restart
    BY DEF Restart, AtRest
  <2>2. ~Requesting(c)
    BY <1>1 DEF Requesting, OpenEditor, SeeTask
  <2> QED
    BY <2>1, <2>2
<1>4. ~Conversing(c)
  BY <1>1 DEF Conversing, ReadTasks, ResumeWaiting, Apply, ConsiderCreate, EndChat, Consider, At
<1>5. CASE Configuring(c)
  <2>1. CASE SaveRefused(c) \/ PublicationUncertain(c)
    BY <1>1, <2>1 DEF SaveRefused, PublicationUncertain, Answer, AtRest, DeskOK
  <2> QED
    BY <1>1, <1>5, <2>1 DEF Configuring, PublishEdit, PublishImport, ConfirmSelection, ImportFault,
                            ReconcileProfileEditor, At
<1>6. CASE \/ \E op \in OPERATIONS : RunMutation(c, op)
           \/ TakeCommandLock(c) \/ RunLocal(c) \/ ProfileRef(c) \/ \E t \in Task : Enqueue(c, t)
  BY <1>1, <1>6 DEF RunMutation, TakeCommandLock, RunLocal, ProfileRef, Enqueue, At
<1>7. CASE Obey(c) \/ Dispatch(c) \/ AcceptFact(c) \/ StopService(c) \/ SendStopResponse(c)
  BY <1>1, <1>7 DEF Obey, Dispatch, AcceptFact, StopService, SendStopResponse, At
<1> QED
  BY <1>2, <1>3, <1>4, <1>5, <1>6, <1>7 DEF Serving

\* A save loses nothing: the version it switches to holds every fact of the one
\* it replaces (profile_editor.py: save_profile() under the file's lock).
THEOREM SavesLoseNoFact == Spec => NoFactLost
<1>1. ASSUME IInv, [Next]_vars, NEW c \in Client, At(c, "save", "published"), desk'[c].step = "replaced"
      PROVE  Contents(selected) \cup {c} \subseteq Contents(selected)'
  <2>1. selected' = Len(shelf) /\ shelf' = shelf
    BY <1>1, ReplacingSteps DEF IInv, DeskInv, ReplaceSettings
  <2>2. Contents(selected)' = shelf[Len(shelf)]
    BY <1>1, <2>1, ConstantsAssumption DEF IInv, ShelfOK, Contents, NoProfile
  <2> QED
    BY <1>1, <2>2 DEF IInv, DeskInv, EditInv
<1>2. IInv /\ [Next]_vars =>
        [\A c \in Client : At(c, "save", "published") /\ desk'[c].step = "replaced" =>
           Contents(selected) \cup {c} \subseteq Contents(selected)']_vars
  BY <1>1
<1> QED
  BY <1>2, Invariance, PTL DEF Spec, NoFactLost

\* A decision is carried out by one action, which looks again.
LEMMA DecidingSteps ==
  ASSUME DeskOK, [Next]_vars, NEW c \in Client, At(c, "chat", "acting"), desk'[c].step = "deciding"
  PROVE  Apply(c)
<1>1. desk[c] \in Request /\ desk[c].op = "chat" /\ desk[c].step = "acting" /\ desk[c] # AtRest
  BY DEF DeskOK, At, AtRest
<1>2. Restart \/ Requesting(c) \/ Serving(c)
  BY <1>1, DeskSteps
<1>3. ~Restart /\ ~Requesting(c)
  <2>1. ~Restart
    BY DEF Restart, AtRest
  <2>2. ~Requesting(c)
    BY <1>1 DEF Requesting, OpenEditor, SeeTask
  <2> QED
    BY <2>1, <2>2
<1>4. ~Configuring(c)
  BY <1>1 DEF Configuring, PublishEdit, PublishImport, ReplaceSettings, SaveRefused, ConfirmSelection,
              PublicationUncertain, ImportFault, ReconcileProfileEditor, At
<1>5. CASE Conversing(c)
  BY <1>1, <1>5 DEF Conversing, ReadTasks, ResumeWaiting, ConsiderCreate, EndChat, Consider, At
<1>6. CASE \/ \E op \in OPERATIONS : RunMutation(c, op)
           \/ TakeCommandLock(c) \/ RunLocal(c) \/ ProfileRef(c) \/ \E t \in Task : Enqueue(c, t)
  BY <1>1, <1>6 DEF RunMutation, TakeCommandLock, RunLocal, ProfileRef, Enqueue, At
<1>7. CASE Obey(c) \/ Dispatch(c) \/ AcceptFact(c) \/ StopService(c) \/ SendStopResponse(c)
  BY <1>1, <1>7 DEF Obey, Dispatch, AcceptFact, StopService, SendStopResponse, At
<1> QED
  BY <1>2, <1>3, <1>4, <1>5, <1>6, <1>7 DEF Serving

\* A decision about a task that is no longer as the model was told takes back no
\* run, review or cancellation: at most it sends a task that no run has begun
\* from its landing page to its job (manager.py: _apply(), queue.py:
\* retarget_same_origin_landing() looks at the row and its attempts again).
THEOREM LateDecisions == Spec => LateDecisionsUndoNoRun
<1> DEFINE Harmless(c, t) ==
      \/ <<c, t>> \in known
      \/ /\ t \in Retargeted \ started /\ stage'[t] = "runnable"
         /\ stage[t] \notin {"running", "ready", "cancelled"}
<1>1. ASSUME IInv, [Next]_vars, NEW c \in Client, Decides(c), NEW t \in Touched
      PROVE  Harmless(c, t)
  <2>1. Apply(c)
    BY <1>1, DecidingSteps DEF IInv, DeskInv, Decides
  <2>2. CASE Retarget(desk[c].task)
    <3>1. t = desk[c].task
      BY <1>1, <2>2 DEF Retarget, SetStage, Touched, Changed, Retargeted, IInv, TaskInv, TasksOK
    <3>2. t \in Task /\ t \in landing \ started /\ stage[t] \notin {"running", "ready", "cancelled"}
      BY <1>1, <2>2, <3>1 DEF Retarget, Retargetable, AtLanding, IInv, TaskInv, TasksOK, Made
    <3>3. stage'[t] = "runnable" /\ t \in Retargeted
      BY <1>1, <2>2, <3>1, <3>2 DEF Retarget, SetStage, Retargeted, IInv, TaskInv, TasksOK
    <3> QED
      BY <3>2, <3>3
  <2>3. CASE ~Retarget(desk[c].task)
    <3>1. landing' = landing /\ stage' # stage
      BY <1>1, <2>1, <2>3 DEF Apply, Touched, Changed, Retargeted
    <3>2. PICK to : Current(c, desk[c].task) /\ SetStage(desk[c].task, to)
      BY <2>1, <2>3, <3>1 DEF Apply
    <3>3. t = desk[c].task
      BY <1>1, <3>1, <3>2 DEF SetStage, Touched, Changed, Retargeted, IInv, TaskInv, TasksOK
    <3> QED
      BY <3>2, <3>3 DEF Current
  <2> QED
    BY <2>2, <2>3
<1>2. IInv /\ [Next]_vars =>
        [\A c \in Client : Decides(c) => \A t \in Touched :
           \/ <<c, t>> \in known
           \/ /\ t \in Retargeted \ started /\ stage'[t] = "runnable"
              /\ stage[t] \notin {"running", "ready", "cancelled"}]_vars
  BY <1>1
<1> QED
  BY <1>2, Invariance, PTL DEF Spec, LateDecisionsUndoNoRun

\* Once a stop was accepted, no request changes a task or the profile, not even
\* one that was admitted before (supervisor.py: stop_service() takes both locks).
THEOREM StoppedForGood == Spec => StopIsFinal
<1> DEFINE Kept == UNCHANGED <<selected, shelf, bound, stage, profile, pending>>
<1>1. ASSUME IInv, [Next]_vars, stopping, stopping', desk' # desk
      PROVE  Kept
  <2>1. PICK c \in Client : desk'[c] # desk[c]
    <3>1. desk \in [Client -> Request] /\ desk' \in [Client -> Request']
      BY <1>1, NextInv DEF IInv, DeskInv, DeskOK
    <3> QED
      BY <1>1, <3>1
  <2>2. Requesting(c) \/ Serving(c)
    BY <1>1, <2>1, DeskSteps DEF IInv, DeskInv, Restart
  <2>3. ~NeedsMutation(desk[c]) /\ ~NeedsCommand(desk[c])
    BY <1>1, OneServes, OneAdmitted
  <2>4. Local(desk[c])
    BY <1>1 DEF IInv, DeskInv, LocalSteps
  <2>5. CASE Requesting(c)
    BY <2>5 DEF Requesting, OpenEditor, SeeTask, shelfVars, bindVars, taskVars
  <2>6. ~Configuring(c)
    BY <2>3 DEF Configuring, PublishEdit, PublishImport, ReplaceSettings, SaveRefused, ConfirmSelection,
                PublicationUncertain, ImportFault, ReconcileProfileEditor, At, NeedsCommand
  <2>7. ~Conversing(c)
    BY <2>3 DEF Conversing, ReadTasks, ResumeWaiting, Apply, ConsiderCreate, EndChat, Consider, At, NeedsMutation
  <2>8. CASE \/ \E op \in OPERATIONS : RunMutation(c, op)
             \/ TakeCommandLock(c) \/ RunLocal(c) \/ ProfileRef(c) \/ \E t \in Task : Enqueue(c, t)
    <3>1. ~ProfileRef(c) /\ ~\E t \in Task : Enqueue(c, t)
      BY <2>3, <2>4 DEF ProfileRef, Enqueue, Local, NeedsMutation
    <3> QED
      BY <2>8, <3>1 DEF RunMutation, TakeCommandLock, RunLocal, shelfVars, bindVars, taskVars
  <2>9. CASE Obey(c) \/ Dispatch(c) \/ AcceptFact(c) \/ StopService(c) \/ SendStopResponse(c)
    <3>1. ~Obey(c) /\ ~Dispatch(c) /\ ~AcceptFact(c)
      BY <2>3 DEF Obey, Dispatch, AcceptFact, At, NeedsMutation, NeedsCommand
    <3> QED
      BY <2>9, <3>1 DEF StopService, SendStopResponse, shelfVars, bindVars, taskVars
  <2> QED
    BY <2>2, <2>5, <2>6, <2>7, <2>8, <2>9 DEF Serving
<1>2. IInv /\ [Next]_vars =>
        [stopping /\ stopping' /\ desk' # desk =>
           UNCHANGED <<selected, shelf, bound, stage, profile, pending>>]_vars
  BY <1>1
<1> QED
  BY <1>2, Invariance, PTL DEF Spec, StopIsFinal
=============================================================================
