-------------------------- MODULE MCClientProfiles --------------------------
(* ClientProfiles for TLC: two writers and a cleanup on one client. *)
EXTENDS ClientProfiles

=============================================================================
