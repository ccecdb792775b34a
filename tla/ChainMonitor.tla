---------------------------- MODULE ChainMonitor ----------------------------
(***************************************************************************)
(* The calls of ChainMonitor: endpoints are asked one after the other, and *)
(* each call has its own rule for which answer settles it, which one sends *)
(* it on to the next endpoint, and what it says when nobody is left.       *)
(*                                                                         *)
(* Answers: "yes" and "no" are a 200 with that content, "404" and "409"    *)
(* those codes, "4xx" another refusal, "err" a 429, a 5xx or an exception. *)
(***************************************************************************)
EXTENDS Integers

Answers == {"yes", "no", "404", "409", "4xx", "err"}
Calls == {"push", "confirmed", "known", "spent"}

\* A mutant of Settles: one endpoint's 404 decides tx_known.
HastySettles(call, ans) ==
  CASE call = "push"      -> ans \in {"yes", "409", "4xx"}
    [] call = "confirmed" -> ans \in {"yes", "no"}
    [] call = "known"     -> ans \in {"yes", "404"}
    [] call = "spent"     -> ans \in {"yes", "no", "404"}

\* Answers after which no other endpoint is asked.
Settles(call, ans) ==
  CASE call = "push"      -> ans \in {"yes", "409", "4xx"}
    [] call = "confirmed" -> ans \in {"yes", "no"}
    [] call = "known"     -> ans = "yes"
    [] call = "spent"     -> ans \in {"yes", "no", "404"}

\* What the call returns then: broadcast_tx a txid or None, the others a
\* Boolean.
Result(call, ans) ==
  CASE call = "push" /\ ans = "4xx" -> "None"
    [] ans \in {"yes", "409"}       -> "True"
    [] OTHER                        -> "False"

\* last_was_error after this answer: only that of the last endpoint counts.
LastWasError(ans) == ans # "404"

\* A mutant of Exhausted: no answer at all counts as a denial.
ExhaustedDenies(call, ans) == IF call = "push" THEN "None" ELSE "False"

\* What the call returns when the last endpoint has not settled it.
Exhausted(call, ans) ==
  CASE call = "push"              -> "None"
    [] call = "confirmed"         -> "False"
    [] call \in {"known", "spent"} -> IF LastWasError(ans) THEN "None" ELSE "False"
=============================================================================
