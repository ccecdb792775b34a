------------------------------- MODULE TxFate -------------------------------
(***************************************************************************)
(* What the bot promises about the transaction of one mix: the mix is      *)
(* closed as completed only once the transaction is in a block, and as     *)
(* refunded only once it can no longer get there, and whichever of the two *)
(* the chain has decided, the bot finds out in the end.                    *)
(***************************************************************************)

VARIABLES
  fate,      \* of the transaction: "away", "out", "confirmed" or "lost"
  verdict    \* of the bot: "pending", "completed" or "refunded"

vars == <<fate, verdict>>

Init == fate = "away" /\ verdict = "pending"

\* Only the bot puts the transaction on the network, and only while it has not
\* given up on it.
Publish == fate = "away" /\ verdict = "pending" /\ fate' = "out" /\ UNCHANGED verdict
Drop == fate = "out" /\ fate' = "away" /\ UNCHANGED verdict
Confirm == fate = "out" /\ fate' = "confirmed" /\ UNCHANGED verdict
Lose == fate \in {"away", "out"} /\ fate' = "lost" /\ UNCHANGED verdict

Complete ==
  /\ fate = "confirmed" /\ verdict = "pending"
  /\ verdict' = "completed"
  /\ UNCHANGED fate

Refund ==
  /\ fate \in {"away", "lost"} /\ verdict = "pending"
  /\ verdict' = "refunded"
  /\ UNCHANGED fate

RefundLost == fate = "lost" /\ Refund

Next == Publish \/ Drop \/ Confirm \/ Lose \/ Complete \/ Refund

Safety == Init /\ [][Next]_vars

Spec == Safety /\ WF_vars(Complete) /\ WF_vars(RefundLost)
=============================================================================
