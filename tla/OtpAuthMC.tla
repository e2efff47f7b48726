------------------------------ MODULE OtpAuthMC ------------------------------
(* One application, two code values, two attempts and one thread at a time   *)
(* that delivers a code: every order of a task's login, its senders, its     *)
(* user, the clock and any number of restarts.                               *)
EXTENDS OtpAuth, TLC

CodeSymmetry == Permutations(Code)
=============================================================================
