------------------------------ MODULE MCIntake ------------------------------
(* Instances of Intake for TLC. *)
EXTENDS Intake, TLC

CONSTANTS a, b, bot, c1, c2, c3, c4
Two == {a, b}
Four == {c1, c2, c3, c4}
Purses == a :> {c1, c2, c3} @@ b :> {c3, c4}
\* c1 and c3 conform to the default size; c4 is of another type than the rest.
Amounts == c1 :> 1 @@ c2 :> 5 @@ c3 :> 1 @@ c4 :> 5
Kinds == c1 :> "p2wpkh" @@ c2 :> "p2wpkh" @@ c3 :> "p2wpkh" @@ c4 :> "p2tr"
OnlyDefault == {1}
\* Nobody's coin conforms, all are of one type.
Odd == [c \in Four |-> 5]
Alike == [c \in Four |-> "p2wpkh"]
=============================================================================
