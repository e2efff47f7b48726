---------------------------- MODULE ControlDeskMC ----------------------------
(* Model checking ControlDesk: clients differ in nothing but their names. *)
EXTENDS ControlDesk, TLC

Symmetric == Permutations(Client)

=============================================================================
