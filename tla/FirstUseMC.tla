----------------------------- MODULE FirstUseMC -----------------------------
(* One transaction at a time next to two windows and two services.          *)
EXTENDS FirstUse, TLC

MCSymmetry == Permutations(Window) \cup Permutations(Daemon) \cup Permutations(Key)
=============================================================================
