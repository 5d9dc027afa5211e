--------------------------- MODULE MCLiveConsumer ---------------------------
(***************************************************************************)
(* LiveConsumer for TLC: the second and the third message are one event    *)
(* that was published twice, the fourth is malformed.                      *)
(***************************************************************************)
EXTENDS LiveConsumer

MCKeyOf == [o \in Offsets |-> CASE o = 1 -> "a" [] o = 4 -> Malformed [] OTHER -> "b"]

=============================================================================
