------------------------------- MODULE MCPsbt -------------------------------
(* Instances of PsbtReturns for TLC. *)
EXTENDS PsbtReturns, TLC

CONSTANTS a, b
Both == {a, b}
OnlyA == {a}
One == {1}
OneTwo == {1, 2}
\* An input each.
Shares == [m \in Mixes |-> (1 :> a @@ 2 :> b)]
\* The PSBT of the first mix fits one message, that of the second does not.
LargeSecond == 1 :> {1} @@ 2 :> {2, 3}
SecondAgain == 1 :> 1 @@ 2 :> 2
=============================================================================
