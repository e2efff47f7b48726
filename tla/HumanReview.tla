---------------------------- MODULE HumanReview ----------------------------
(***************************************************************************)
(* What the program promises to the person whose form it fills in.  It     *)
(* types only in a turn of its own, and at most once after it lost it;     *)
(* after a write of doubtful effect it neither types nor offers the form   *)
(* again.  It offers a draft that is complete for the profile as it is,    *)
(* and then leaves both alone until the person has sent, cancelled or      *)
(* taken back the application.  What it calls verified is the draft it     *)
(* offered.  The website may move the draft at any time, to a revision of  *)
(* its own.                                                                *)
(***************************************************************************)
EXTENDS Naturals

CONSTANTS Field

VARIABLES
  live,     \* the applicant's own browser, where no field is typed twice?
  phase,    \* "resting", "filling", "offered", "sent" or "cancelled"
  armed,    \* about to type, past the last look at its turn
  writes,   \* how often a field was typed into
  doubt,    \* a write may have gone astray
  profile,  \* the version of the profile
  draft,    \* the website's draft, and whether it is complete
  offer,    \* the certificate that is offered, or was when it was sent
  posted,   \* the draft that the person posted, 0 for none
  level     \* how the posting was recorded

vars == <<live, phase, armed, writes, doubt, profile, draft, offer, posted, level>>

NoOffer == [id |-> 0, rev |-> 0, profile |-> 0, document |-> 0]

Init ==
  /\ live \in BOOLEAN /\ phase = "resting" /\ ~armed
  /\ writes = [f \in Field |-> 0] /\ ~doubt
  /\ profile = 1 /\ draft = [id |-> 1, rev |-> 1, complete |-> FALSE]
  /\ offer = NoOffer /\ posted = 0 /\ level = "none"

Outside == UNCHANGED <<live, profile, posted>>
Untouched == UNCHANGED <<writes, doubt>>

\* The draft has a new revision, or is another one.
DraftMoves == draft'.id # draft.id \/ draft'.rev > draft.rev

Start ==
  /\ phase = "resting" /\ ~doubt
  /\ phase' = "filling"
  /\ Outside /\ Untouched /\ UNCHANGED <<armed, draft, offer, level>>

Arm ==
  /\ phase = "filling" /\ ~armed
  /\ armed' = TRUE
  /\ Outside /\ Untouched /\ UNCHANGED <<phase, draft, offer, level>>

TypeInto(f) ==
  /\ armed /\ ~doubt /\ (live => writes[f] = 0)
  /\ writes' = [writes EXCEPT ![f] = @ + 1]
  /\ armed' = FALSE /\ doubt' \in BOOLEAN
  /\ draft' = draft \/ DraftMoves
  /\ Outside /\ UNCHANGED <<phase, offer, level>>

\* The turn is over, or was lost: a primitive that was armed may still type.
Rest ==
  /\ phase = "filling"
  /\ phase' = "resting"
  /\ Outside /\ Untouched /\ UNCHANGED <<armed, draft, offer, level>>

\* A draft that did not move since it was certified is complete.
Offer ==
  /\ phase = "filling" /\ ~armed /\ ~doubt
  /\ phase' = "offered"
  /\ offer'.profile = profile
  /\ offer'.id = draft.id =>
       offer'.rev < draft.rev \/ (offer'.rev = draft.rev /\ draft.complete)
  /\ Outside /\ Untouched /\ UNCHANGED <<armed, draft, level>>

\* The offer is taken back because the profile is about to change.
TakeBack ==
  /\ phase = "offered"
  /\ phase' = "resting" /\ offer' = NoOffer
  /\ Outside /\ Untouched /\ UNCHANGED <<armed, draft, level>>

Cancel ==
  /\ phase # "sent"
  /\ phase' = "cancelled" /\ offer' = NoOffer
  /\ Outside /\ Untouched /\ UNCHANGED <<armed, draft, level>>

Confirm ==
  /\ phase = "offered"
  /\ phase' = "sent"
  /\ level' \in {"user", "server"} /\ (level' = "server" => posted = offer.id)
  /\ Outside /\ Untouched /\ UNCHANGED <<armed, draft, offer>>

\* The service starts again.
Crash ==
  /\ armed' = FALSE
  /\ phase' = IF phase = "filling" THEN "resting" ELSE phase
  /\ Outside /\ Untouched /\ UNCHANGED <<draft, offer, level>>

\* The person's own click, in the browser that is the person's.
Post ==
  /\ live /\ phase = "offered" /\ posted = 0
  /\ posted' = draft.id
  /\ Untouched /\ UNCHANGED <<live, phase, armed, profile, draft, offer, level>>

ProfileChanges ==
  /\ phase \notin {"filling", "offered"}
  /\ profile' = profile + 1
  /\ Untouched /\ UNCHANGED <<live, phase, armed, draft, offer, posted, level>>

WebsiteMoves ==
  /\ DraftMoves
  /\ Outside /\ Untouched /\ UNCHANGED <<phase, armed, offer, level>>

Next ==
  \/ Start \/ Arm \/ (\E f \in Field : TypeInto(f)) \/ Rest
  \/ Offer \/ TakeBack \/ Cancel \/ Confirm \/ Crash
  \/ Post \/ ProfileChanges \/ WebsiteMoves

Spec == Init /\ [][Next]_vars

=============================================================================
