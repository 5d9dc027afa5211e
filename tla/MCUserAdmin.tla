---------------------------- MODULE MCUserAdmin ----------------------------
(* UserAdmin for TLC: two accounts and two requests at a time. *)
EXTENDS UserAdmin, TLC

Symmetry == Permutations(Users) \cup Permutations(Handlers)

=============================================================================
