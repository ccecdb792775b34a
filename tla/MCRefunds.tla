------------------------------ MODULE MCRefunds ------------------------------
(* Instances of Refunds for TLC. *)
EXTENDS Refunds

CONSTANTS p1, p2, p3, nobody

Two == {p1, p2}
Three == {p1, p2, p3}
OnlyP1 == {p1}
None == {}
=============================================================================
