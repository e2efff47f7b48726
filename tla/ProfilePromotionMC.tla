-------------------------- MODULE ProfilePromotionMC --------------------------
(* Model checking ProfilePromotion: the sets of the constants. *)
EXTENDS ProfilePromotion, TLC

Symmetric == Permutations(Task)

=============================================================================
