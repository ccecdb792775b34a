---------------------------- MODULE RefundLedger ----------------------------
(***************************************************************************)
(* What the refund code of src/coordinator.py promises of the money, with  *)
(* no word on rows, tasks or crashes: for each participant the wallet is   *)
(* asked at most once, never after a debt was recorded instead, and a debt *)
(* is recorded for nobody whose payout is known to have settled.           *)
(***************************************************************************)
EXTENDS Naturals

CONSTANTS
  Participants,
  LostAnswers   \* those whose payout may settle and yet be reported as failed

VARIABLES
  asked,    \* how often the wallet was asked to refund each participant
  payout,   \* how many of these payouts settled
  owed      \* participants with a debt for the operator to settle by hand

ledger == <<asked, payout, owed>>

Init ==
  /\ asked = [p \in Participants |-> 0]
  /\ payout = [p \in Participants |-> 0]
  /\ owed = {}

\* The one attempt: it settles or it does not.
Ask(p) ==
  /\ asked[p] = 0 /\ p \notin owed
  /\ asked' = [asked EXCEPT ![p] = 1]
  /\ payout' \in {payout, [payout EXCEPT ![p] = 1]}
  /\ UNCHANGED owed

\* Debts are recorded one by one, or for a whole mix as it is deleted.
Owe(S) ==
  /\ \A p \in S : payout[p] = 0 \/ p \in LostAnswers
  /\ owed' = owed \cup S
  /\ UNCHANGED <<asked, payout>>

Next ==
  \/ \E p \in Participants : Ask(p)
  \/ \E S \in SUBSET Participants : Owe(S)

Spec == Init /\ [][Next]_ledger
=============================================================================
