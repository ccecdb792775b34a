------------------------------ MODULE MCSigning ------------------------------
(* Instances of Signing for TLC. *)
EXTENDS Signing, TLC

CONSTANTS p1, p2
Pair == {p1, p2}
First == {p1}
=============================================================================
