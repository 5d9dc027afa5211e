--------------------------- MODULE MCUnknownQueue ---------------------------
(* UnknownQueue for TLC: two runs that overlap over two domains. *)
EXTENDS UnknownQueue

=============================================================================
