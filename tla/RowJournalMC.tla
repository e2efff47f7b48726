----------------------------- MODULE RowJournalMC -----------------------------
(* Two records, a run that wants both and a run that wants the second one only *)
(* and deletes the first, by two processes.                                    *)
EXTENDS RowJournal, TLC

CONSTANTS a, b

WishMC == {[rows |-> <<a, b>>, deletes |-> {}], [rows |-> <<b>>, deletes |-> {a}]}
ActionSymmetry == Permutations(Action)
ProcessSymmetry == Permutations(Process)
AllSymmetry == ActionSymmetry \cup ProcessSymmetry
=============================================================================
