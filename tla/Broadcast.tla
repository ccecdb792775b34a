----------------------------- MODULE Broadcast -----------------------------
(***************************************************************************)
(* From the finished transaction to the end of its mix: the tail of        *)
(* _combine_and_broadcast, _tx_double_spent and _broadcast_sweep, one      *)
(* request to one endpoint at a time, against a network in which           *)
(* transactions spread slowly, are evicted, replaced and mined.            *)
(***************************************************************************)
EXTENDS ChainMonitor

CONSTANTS
  N,            \* endpoints 1..N, asked in this order
  Unreliable,   \* those that may fail to answer a question; all may fail to
                \* answer a submission, even after accepting it
  Inputs,       \* the transaction spends inputs 1..Inputs
  Stolen,       \* those the rival transaction spends too
  Uniform,      \* do all mempools forget a transaction at the same time?
  MaxCrashes    \* bound: crashes

ASSUME BroadcastAssumption ==
  /\ N \in Nat \ {0} /\ Unreliable \subseteq 1..N
  /\ Inputs \in Nat \ {0} /\ Stolen \subseteq 1..Inputs /\ Stolen # {}
  /\ Uniform \in BOOLEAN /\ MaxCrashes \in Nat

VARIABLES
  mix,      \* state of the mix: "signing", "broadcast"; "completed", "refunded"
  why,      \* why it was refunded: "rejected", "conflict" or "-"
  job,      \* the request in flight and what it is for
  heard,    \* history: endpoints that denied the transaction in this tx_known
  mem,      \* what each node's mempool has on the inputs
  mined,    \* the transaction that is in a block
  seen,     \* endpoints that have that block
  crashes

vars == <<mix, why, job, heard, mem, mined, seen, crashes>>
world == <<mem, mined, seen>>

Endpoints == 1..N
Nodes == 0..N     \* 0 stands for the miners
Idle == [for |-> "nothing", call |-> "-", at |-> 1, input |-> 1]

TypeOK ==
  /\ mix \in {"signing", "broadcast", "completed", "refunded"}
  /\ why \in {"-", "rejected", "conflict"}
  /\ job \in [for : {"nothing", "combine", "sweep"}, call : Calls \cup {"-"},
              at : Endpoints, input : 1..Inputs]
  /\ heard \subseteq Endpoints
  /\ mem \in [Nodes -> {"none", "ours", "rival"}]
  /\ mined \in {"none", "ours", "rival"}
  /\ seen \subseteq Endpoints
  /\ crashes \in 0..MaxCrashes

Init ==
  /\ mix = "signing" /\ why = "-" /\ job = Idle /\ heard = {}
  /\ mem = [n \in Nodes |-> "none"] /\ mined = "none" /\ seen = {}
  /\ crashes = 0

-----------------------------------------------------------------------------
(***************************************************************************)
(* The network.                                                            *)
(***************************************************************************)
Holders == {n \in Nodes : mem[n] = "ours"}

Relay(m, n) ==
  /\ mem[m] # "none" /\ mem[n] = "none" /\ n \notin seen
  /\ mem' = [mem EXCEPT ![n] = mem[m]]
  /\ UNCHANGED <<mix, why, job, heard, mined, seen, crashes>>

\* Mempools make room, all of them or only some.
Evict ==
  /\ mined = "none"
  /\ \E S \in SUBSET Nodes :
       /\ Uniform => S = Nodes
       /\ mem' = [n \in Nodes |-> IF n \in S THEN "none" ELSE mem[n]]
  /\ mem' # mem
  /\ UNCHANGED <<mix, why, job, heard, mined, seen, crashes>>

\* Somebody spends an input elsewhere, and pays more for it.
DoubleSpend ==
  /\ mined = "none"
  /\ \E S \in SUBSET Nodes :
       /\ Uniform => Holders \subseteq S
       /\ mem' = [n \in Nodes |-> IF n \in S THEN "rival" ELSE mem[n]]
  /\ mem' # mem
  /\ UNCHANGED <<mix, why, job, heard, mined, seen, crashes>>

Mine ==
  /\ mined = "none" /\ mem[0] # "none"
  /\ mined' = mem[0]
  /\ UNCHANGED <<mix, why, job, heard, mem, seen, crashes>>

Learn(e) ==
  /\ mined # "none" /\ e \notin seen
  /\ seen' = seen \cup {e}
  /\ mem' = [mem EXCEPT ![e] = "none"]
  /\ UNCHANGED <<mix, why, job, heard, mined, crashes>>

Network ==
  \/ \E m, n \in Nodes : Relay(m, n)
  \/ Evict \/ DoubleSpend \/ Mine
  \/ \E e \in Endpoints : Learn(e)

-----------------------------------------------------------------------------
(***************************************************************************)
(* What an endpoint answers, as far as it knows.                           *)
(***************************************************************************)
Present(e) == mem[e] = "ours" \/ (mined = "ours" /\ e \in seen)
Robbed(e) == mem[e] = "rival" \/ (mined = "rival" /\ e \in seen)

Truth(call, e, k) ==
  CASE call = "push" ->
         IF e \in seen THEN {"4xx"}
         ELSE IF mem[e] = "none" THEN {"yes", "4xx"} ELSE {"409"}
    [] call = "confirmed" ->
         IF ~Present(e) THEN {"404"} ELSE IF e \in seen THEN {"yes"} ELSE {"no"}
    [] call = "known" -> IF Present(e) THEN {"yes"} ELSE {"404"}
    [] call = "spent" ->
         IF Present(e) \/ (Robbed(e) /\ k \in Stolen) THEN {"yes"} ELSE {"no"}

\* Does it take the transaction into its mempool?  If it answers "yes", and
\* perhaps if its answer is lost.
Takes(call, e, ans) ==
  call = "push" /\ e \notin seen /\ mem[e] = "none" /\ ans \in {"yes", "err"}

\* The answer, and what becomes of the mempool; an endpoint that is behind may
\* not know the parent of an input.
Reply(call, e, k, ans) ==
  /\ \/ ans \in Truth(call, e, k)
     \/ ans = "err" /\ (call = "push" \/ e \in Unreliable)
     \/ ans = "404" /\ call = "spent" /\ e \in Unreliable
  /\ \/ Takes(call, e, ans) /\ mem' = [mem EXCEPT ![e] = "ours"]
     \/ ~(Takes(call, e, ans) /\ ans = "yes") /\ UNCHANGED mem
  /\ UNCHANGED <<mined, seen>>

-----------------------------------------------------------------------------
(***************************************************************************)
(* The coordinator.                                                        *)
(***************************************************************************)

\* Start a call to the chain monitor.
Begin(purpose, call, k) ==
  job' = [for |-> purpose, call |-> call, at |-> 1, input |-> k]

\* Everybody has signed.
Combine ==
  /\ job = Idle /\ mix = "signing"
  /\ Begin("combine", "push", 1)
  /\ UNCHANGED <<mix, why, heard, crashes, world>>

Sweep ==
  /\ job = Idle /\ mix = "broadcast"
  /\ Begin("sweep", "confirmed", 1)
  /\ UNCHANGED <<mix, why, heard, crashes, world>>

Park == mix' = "broadcast" /\ job' = Idle /\ UNCHANGED why
Complete == mix' = "completed" /\ job' = Idle /\ UNCHANGED why
Refund(reason) == mix' = "refunded" /\ why' = reason /\ job' = Idle
Continue(call, k) == Begin(job.for, call, k) /\ UNCHANGED <<mix, why>>

\* A mutant of Combined: whatever broadcast_tx does not confirm is refunded.
CombinedUnchecked(says) == IF says = "True" THEN Park ELSE Refund("rejected")

\* The result of a call of _combine_and_broadcast.
Combined(says) ==
  IF job.call = "push"
  THEN IF says = "True" THEN Park ELSE Continue("known", 1)
  ELSE IF says = "False" THEN Refund("rejected") ELSE Park

\* A mutant of AfterKnown: an unreachable chain does not stop the probing.
AfterKnownBlind(says) == Continue(IF says = "True" THEN "push" ELSE "spent", 1)

\* _tx_double_spent: only a transaction nobody knows has its inputs probed.
AfterKnown(says) == Continue(IF says = "False" THEN "spent" ELSE "push", 1)

\* Mutants of AfterProbe: one input too many; nothing is pushed again.
AfterProbePastEnd(says) ==
  IF says = "True" THEN Refund("conflict")
  ELSE IF job.input <= Inputs THEN Continue("spent", job.input + 1)
  ELSE Continue("push", 1)
AfterProbeIdle(says) ==
  IF says = "True" THEN Refund("conflict")
  ELSE IF job.input < Inputs THEN Continue("spent", job.input + 1)
  ELSE Park

\* An input that cannot be looked up counts as free.
AfterProbe(says) ==
  IF says = "True" THEN Refund("conflict")
  ELSE IF job.input < Inputs THEN Continue("spent", job.input + 1)
  ELSE Continue("push", 1)

\* The result of a call of _broadcast_sweep; whether the re-push went well makes
\* no difference.
Swept(says) ==
  CASE job.call = "confirmed" -> IF says = "True" THEN Complete ELSE Continue("known", 1)
    [] job.call = "known" -> AfterKnown(says)
    [] job.call = "spent" -> AfterProbe(says)
    [] job.call = "push" -> Park

Return(says) == IF job.for = "combine" THEN Combined(says) ELSE Swept(says)

\* One request to one endpoint.
Request(ans) ==
  /\ job # Idle
  /\ Reply(job.call, job.at, job.input, ans)
  /\ IF Settles(job.call, ans) THEN Return(Result(job.call, ans))
     ELSE IF job.at = N THEN Return(Exhausted(job.call, ans))
     ELSE job' = [job EXCEPT !.at = @ + 1] /\ UNCHANGED <<mix, why>>
  /\ heard' = IF job.call # "known" THEN heard
              ELSE (IF job.at = 1 THEN {} ELSE heard)
                   \cup (IF ans = "404" THEN {job.at} ELSE {})
  /\ UNCHANGED crashes

\* The process dies between a request and what it would have written.
Crash ==
  /\ job # Idle /\ crashes < MaxCrashes
  /\ crashes' = crashes + 1
  /\ job' = Idle
  /\ UNCHANGED <<mix, why, heard, world>>

\* The mix is gone.
Over == mix \in {"completed", "refunded"} /\ UNCHANGED vars

Bot == Combine \/ Sweep \/ \E ans \in Answers : Request(ans)

Next == Bot \/ Network \/ Crash \/ Over

\* An endpoint that is asked again and again gives true answers again and again,
\* and takes the transaction again and again; blocks reach every endpoint.
Honest(call, e) ==
  /\ job.call = call /\ job.at = e
  /\ \E ans \in Answers \ {"err"} : Request(ans)

Accepted(e) == job.call = "push" /\ job.at = e /\ Request("yes")

Fairness ==
  /\ WF_vars(Bot)
  /\ \A e \in Endpoints : WF_vars(Learn(e)) /\ SF_vars(Accepted(e))
  /\ \A e \in Endpoints, call \in Calls : SF_vars(Honest(call, e))

Spec == Init /\ [][Next]_vars /\ Fairness
-----------------------------------------------------------------------------
\* The transaction is in a block or may still get into one.
Out == mined = "ours" \/ (mined = "none" /\ Holders # {})

\* "Refunding without this check would double-pay anyone whose on-chain output
\* later confirms" (_combine_and_broadcast): a refunded mix has no transaction
\* in any mempool or block.
RefundMeansDead == mix = "refunded" => ~Out

\* A conflict is declared only when somebody else's spend of an input exists.
ConflictIsReal ==
  [][why' = "conflict" /\ why = "-" =>
       mined = "rival" \/ \E n \in Nodes : mem[n] = "rival"]_vars

\* "False -> both endpoints returned 404" (tx_known): what follows a denial
\* follows one of every endpoint.
DenialIsUnanimous ==
  job.call = "spent" \/ why # "-" => heard = Endpoints

\* A transaction that fell out of every mempool is put back by the sweep, unless
\* its fate is decided.
EvictedReturns ==
  (mix = "broadcast" /\ ~Out) ~> (Out \/ mined = "rival" \/ mix = "refunded")

\* The promise of TxFate.
Fate == IF mined = "ours" THEN "confirmed"
        ELSE IF mined = "rival" THEN "lost"
        ELSE IF Holders # {} THEN "out" ELSE "away"
Verdict == IF mix \in {"completed", "refunded"} THEN mix ELSE "pending"

KeepsFate == INSTANCE TxFate WITH fate <- Fate, verdict <- Verdict
KeepsPromise == KeepsFate!Spec
=============================================================================
