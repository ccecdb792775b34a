-------------------------- MODULE Broadcast_proofs --------------------------
(***************************************************************************)
(* Proofs about Broadcast, for any number of endpoints and inputs, when    *)
(* mempools forget together and only the last endpoint may leave a         *)
(* question unanswered.  The inductive invariant says where a transaction  *)
(* that is still out can be found: at some endpoint, and during tx_known   *)
(* at one that is yet to be asked.                                         *)
(***************************************************************************)
EXTENDS Broadcast, TLAPS

\* What the requests of a call are for.
JobOK ==
  \/ job = Idle
  \/ job.for = "combine" /\ job.call \in {"push", "known"} /\ mix = "signing"
  \/ job.for = "sweep" /\ job.call \in Calls /\ mix = "broadcast"

\* Ways on from the answer of an endpoint, with what is known of the answer.
AskNext(ans) ==
  /\ ~Settles(job.call, ans) /\ job.at # N
  /\ job' = [job EXCEPT !.at = @ + 1] /\ UNCHANGED <<mix, why>>
Denied(ans) == job.call = "known" /\ ans = "404" /\ job.at = N
Parks == Park
Closes(ans) == job.call = "confirmed" /\ ans = "yes" /\ Complete
Rejects(ans) == Denied(ans) /\ Refund("rejected")
Conflicts(ans) == job.call = "spent" /\ ans = "yes" /\ Refund("conflict")
AsksKnown == job.call \in {"push", "confirmed"} /\ Continue("known", 1)
Probes(ans) ==
  /\ job.for = "sweep" /\ (Denied(ans) \/ job.call = "spent")
  /\ \E k \in 1..Inputs : Continue("spent", k)
Repushes == job.for = "sweep" /\ Continue("push", 1)

\* What a result says of the answer it follows from.
Founded(ans, says) ==
  /\ job.call = "known" /\ says = "False" => Denied(ans)
  /\ job.call \in {"confirmed", "spent"} /\ says = "True" => ans = "yes"

LEMMA ResultFounded ==
  ASSUME TypeOK, job.call \in Calls, NEW ans \in Answers,
         Settles(job.call, ans)
  PROVE  Founded(ans, Result(job.call, ans))
<1>1. CASE job.call = "known"
  BY <1>1 DEF Founded, Settles, Result
<1>2. CASE job.call = "confirmed"
  BY <1>2 DEF Founded, Settles, Result
<1>3. CASE job.call = "spent"
  BY <1>3 DEF Founded, Settles, Result
<1> QED
  BY <1>1, <1>2, <1>3 DEF Founded

LEMMA ExhaustedFounded ==
  ASSUME TypeOK, job.call \in Calls, NEW ans \in Answers, job.at = N
  PROVE  Founded(ans, Exhausted(job.call, ans))
<1>1. CASE job.call = "known"
  BY <1>1 DEF Founded, Exhausted, LastWasError, Denied
<1>2. CASE job.call = "confirmed"
  BY <1>2 DEF Founded, Exhausted
<1>3. CASE job.call = "spent"
  BY <1>3 DEF Founded, Exhausted
<1> QED
  BY <1>1, <1>2, <1>3 DEF Founded

Follows(ans) ==
  \/ AskNext(ans) \/ Parks \/ Closes(ans) \/ Rejects(ans)
  \/ Conflicts(ans) \/ AsksKnown \/ Probes(ans) \/ Repushes

LEMMA ReturnCases ==
  ASSUME TypeOK, JobOK, job # Idle, NEW ans \in Answers, NEW says,
         Founded(ans, says), Return(says)
  PROVE  Follows(ans)
<1> USE DEF Follows
<1>1. /\ job.input \in 1..Inputs /\ 1 \in 1..Inputs
      /\ job.input < Inputs => job.input + 1 \in 1..Inputs
  BY BroadcastAssumption DEF TypeOK
<1>2. CASE job.for = "combine" /\ job.call \in {"push", "known"}
  <2>1. Combined(says)
    BY <1>2 DEF Return
  <2>2. CASE job.call = "push"
    BY <2>1, <2>2 DEF Combined, Parks, AsksKnown
  <2>3. CASE job.call = "known"
    BY <2>1, <2>3 DEF Combined, Parks, Rejects, Founded
  <2> QED
    BY <1>2, <2>2, <2>3
<1>3. CASE job.for = "sweep" /\ job.call \in Calls
  <2>1. Swept(says)
    BY <1>3 DEF Return
  <2>2. CASE job.call = "push"
    BY <2>1, <2>2 DEF Swept, Parks
  <2>3. CASE job.call = "confirmed"
    BY <2>1, <2>3 DEF Swept, Closes, AsksKnown, Founded
  <2>4. CASE job.call = "known"
    <3>1. AfterKnown(says)
      BY <2>1, <2>4 DEF Swept
    <3> QED
      BY <1>1, <1>3, <2>4, <3>1 DEF AfterKnown, Probes, Repushes, Founded
  <2>5. CASE job.call = "spent"
    <3>1. AfterProbe(says)
      BY <2>1, <2>5 DEF Swept
    <3> QED
      BY <1>1, <1>3, <2>5, <3>1 DEF AfterProbe, Conflicts, Probes, Repushes, Founded
  <2> QED
    BY <1>3, <2>2, <2>3, <2>4, <2>5 DEF Calls
<1> QED
  BY <1>2, <1>3 DEF JobOK

LEMMA RequestCases ==
  ASSUME TypeOK, JobOK, NEW ans \in Answers, Request(ans)
  PROVE  job # Idle /\ job.call \in Calls /\ Follows(ans)
<1>1. job # Idle
  BY DEF Request
<1>2. job.call \in Calls
  BY <1>1 DEF JobOK, Calls
<1>3. CASE Settles(job.call, ans)
  BY <1>1, <1>2, <1>3, ResultFounded, ReturnCases DEF Request
<1>4. CASE ~Settles(job.call, ans) /\ job.at = N
  BY <1>1, <1>2, <1>4, ExhaustedFounded, ReturnCases DEF Request
<1>5. CASE ~Settles(job.call, ans) /\ job.at # N
  <2>1. job' = [job EXCEPT !.at = @ + 1] /\ UNCHANGED <<mix, why>>
    BY <1>5 DEF Request
  <2> QED
    BY <1>1, <1>2, <1>5, <2>1 DEF Follows, AskNext
<1> QED
  BY <1>1, <1>2, <1>3, <1>4, <1>5
-----------------------------------------------------------------------------
LEMMA TypeInit == Init => TypeOK /\ JobOK
  BY BroadcastAssumption DEF Init, TypeOK, JobOK, Idle, Calls, Endpoints, Nodes

LEMMA BeginTyped ==
  ASSUME TypeOK, NEW purpose \in {"combine", "sweep"}, NEW call \in Calls,
         NEW k \in 1..Inputs, Begin(purpose, call, k)
  PROVE  /\ job' \in [for : {"nothing", "combine", "sweep"}, call : Calls \cup {"-"},
                      at : Endpoints, input : 1..Inputs]
         /\ job'.for = purpose /\ job'.call = call /\ job'.at = 1 /\ job' # Idle
  BY BroadcastAssumption DEF TypeOK, Begin, Endpoints, Idle

\* What a request leaves of types and of the shape of the job.
LEMMA RequestTyped ==
  ASSUME TypeOK, JobOK, NEW ans \in Answers, Request(ans)
  PROVE  TypeOK' /\ JobOK'
<1>1. job # Idle /\ job.call \in Calls /\ Follows(ans)
  BY RequestCases
<1>2. /\ heard' \subseteq Endpoints /\ crashes' = crashes
      /\ mem' \in [Nodes -> {"none", "ours", "rival"}]
      /\ mined' = mined /\ seen' = seen
  BY DEF Request, Reply, TypeOK
<1>3. \/ job.for = "combine" /\ job.call \in {"push", "known"} /\ mix = "signing"
      \/ job.for = "sweep" /\ job.call \in Calls /\ mix = "broadcast"
  BY <1>1 DEF JobOK
<1>4. 1 \in 1..Inputs
  BY BroadcastAssumption
<1> DEFINE JobTyped ==
      job' \in [for : {"nothing", "combine", "sweep"}, call : Calls \cup {"-"},
                at : Endpoints, input : 1..Inputs]
<1>5. Idle \in [for : {"nothing", "combine", "sweep"}, call : Calls \cup {"-"},
                at : Endpoints, input : 1..Inputs]
  BY BroadcastAssumption DEF Idle, Endpoints
<1>6. /\ JobTyped /\ JobOK'
      /\ mix' \in {"signing", "broadcast", "completed", "refunded"}
      /\ why' \in {"-", "rejected", "conflict"}
  <2>1. CASE AskNext(ans)
    <3>1. job.at + 1 \in Endpoints
      BY <2>1, BroadcastAssumption DEF AskNext, TypeOK, Endpoints
    <3>2. job' \in [for : {"nothing", "combine", "sweep"}, call : Calls \cup {"-"},
                    at : Endpoints, input : 1..Inputs]
          /\ job'.for = job.for /\ job'.call = job.call
      BY <2>1, <3>1 DEF AskNext, TypeOK
    <3> QED
      BY <1>3, <2>1, <3>2 DEF AskNext, JobOK, TypeOK
  <2>2. CASE Parks
    BY <1>5, <2>2 DEF Parks, Park, JobOK, TypeOK
  <2>3. CASE Closes(ans)
    BY <1>5, <2>3 DEF Closes, Complete, JobOK, TypeOK
  <2>4. CASE Rejects(ans)
    BY <1>5, <2>4 DEF Rejects, Refund, JobOK, TypeOK
  <2>5. CASE Conflicts(ans)
    BY <1>5, <2>5 DEF Conflicts, Refund, JobOK, TypeOK
  <2>6. CASE AsksKnown
    <3>1. Begin(job.for, "known", 1) /\ mix' = mix /\ why' = why
      BY <2>6 DEF AsksKnown, Continue
    <3> QED
      BY <1>3, <1>4, <3>1, BeginTyped DEF JobOK, Calls, TypeOK
  <2>7. CASE Probes(ans)
    <3>1. PICK k \in 1..Inputs : Begin(job.for, "spent", k) /\ mix' = mix /\ why' = why
      BY <2>7 DEF Probes, Continue
    <3>2. job.for = "sweep"
      BY <2>7 DEF Probes
    <3> QED
      BY <1>3, <3>1, <3>2, BeginTyped DEF JobOK, Calls, TypeOK
  <2>8. CASE Repushes
    <3>1. /\ job.for = "sweep" /\ Begin(job.for, "push", 1)
          /\ mix' = mix /\ why' = why
      BY <2>8 DEF Repushes, Continue
    <3> QED
      BY <1>3, <1>4, <3>1, BeginTyped DEF JobOK, Calls, TypeOK
  <2> QED
    BY <1>1, <2>1, <2>2, <2>3, <2>4, <2>5, <2>6, <2>7, <2>8 DEF Follows
<1> QED
  BY <1>2, <1>6 DEF TypeOK

LEMMA TypeStep ==
  ASSUME TypeOK, JobOK, [Next]_vars
  PROVE  TypeOK' /\ JobOK'
<1>1. CASE Combine
  <2>1. 1 \in 1..Inputs
    BY BroadcastAssumption
  <2>2. Begin("combine", "push", 1)
    BY <1>1 DEF Combine
  <2> QED
    BY <1>1, <2>1, <2>2, BeginTyped DEF Combine, world, TypeOK, JobOK, Calls
<1>2. CASE Sweep
  <2>1. 1 \in 1..Inputs
    BY BroadcastAssumption
  <2>2. Begin("sweep", "confirmed", 1)
    BY <1>2 DEF Sweep
  <2> QED
    BY <1>2, <2>1, <2>2, BeginTyped DEF Sweep, world, TypeOK, JobOK, Calls
<1>3. CASE \E ans \in Answers : Request(ans)
  BY <1>3, RequestTyped
<1>4. CASE Network
  <2>1. mem' \in [Nodes -> {"none", "ours", "rival"}]
    BY <1>4 DEF Network, Relay, Evict, DoubleSpend, Mine, Learn, TypeOK
  <2>2. /\ mined' \in {"none", "ours", "rival"} /\ seen' \subseteq Endpoints
        /\ UNCHANGED <<mix, why, job, heard, crashes>>
    <3>1. CASE \E m, n \in Nodes : Relay(m, n)
      BY <3>1 DEF Relay, TypeOK
    <3>2. CASE Evict \/ DoubleSpend
      BY <3>2 DEF Evict, DoubleSpend, TypeOK
    <3>3. CASE Mine
      BY <3>3, BroadcastAssumption DEF Mine, TypeOK, Nodes
    <3>4. CASE \E e \in Endpoints : Learn(e)
      BY <3>4 DEF Learn, TypeOK
    <3> QED
      BY <1>4, <3>1, <3>2, <3>3, <3>4 DEF Network
  <2> QED
    BY <2>1, <2>2 DEF TypeOK, JobOK
<1>5. CASE Crash
  BY <1>5, BroadcastAssumption DEF Crash, world, TypeOK, JobOK, Idle, Endpoints
<1>6. CASE UNCHANGED vars
  BY <1>6 DEF vars, TypeOK, JobOK
<1> QED
  BY <1>1, <1>2, <1>3, <1>4, <1>5, <1>6 DEF Next, Bot, Over

\* Every variable keeps its type.
THEOREM TypeCorrect == Spec => []TypeOK
<1>1. TypeOK /\ JobOK /\ [Next]_vars => TypeOK' /\ JobOK'
  BY TypeStep
<1> QED
  BY TypeInit, <1>1, PTL DEF Spec

-----------------------------------------------------------------------------
\* Mempools forget together, and only the endpoint asked last may fail.
Dependable == Uniform /\ Unreliable \subseteq {N}

\* A block empties the mempool of who sees it.
SeenOK == \A e \in seen : mined # "none" /\ mem[e] = "none"

\* Where a transaction that is out can be found.
Findable == Out => \E e \in Endpoints : Present(e)
Ahead ==
  job.call = "known" /\ Out => \E e \in Endpoints : e >= job.at /\ Present(e)

BroadcastInv ==
  /\ TypeOK /\ JobOK /\ SeenOK
  /\ Findable /\ Ahead
  /\ job.call = "spent" => ~Out
  /\ mix = "refunded" => ~Out

LEMMA InvInit == Init => BroadcastInv
  BY TypeInit DEF Init, BroadcastInv, SeenOK, Findable, Ahead, Out, Holders, Idle

\* Whatever happens to the network, nothing comes back that was gone.
LEMMA NetworkEffect ==
  ASSUME BroadcastInv, Dependable, Network
  PROVE  /\ SeenOK'
         /\ Out' => Out
         /\ Out' => \A e \in Endpoints : Present(e) => Present(e)'
<1> USE DEF BroadcastInv, TypeOK, Dependable
<1>1. CASE \E m, n \in Nodes : Relay(m, n)
  <2>1. PICK m \in Nodes, n \in Nodes : Relay(m, n)
    BY <1>1
  <2>2. mem' = [mem EXCEPT ![n] = mem[m]] /\ mem[n] = "none" /\ n \notin seen
        /\ mined' = mined /\ seen' = seen /\ mem[m] # "none"
    BY <2>1 DEF Relay
  <2>3. SeenOK'
    BY <2>2 DEF SeenOK, Endpoints, Nodes
  <2>4. Out' => Out
    BY <2>2 DEF Out, Holders
  <2>5. ASSUME NEW e \in Endpoints, Present(e) PROVE Present(e)'
    BY <2>2, <2>5 DEF Present
  <2> QED
    BY <2>3, <2>4, <2>5
<1>2. CASE Evict \/ DoubleSpend
  <2>1. mined = "none" /\ mined' = mined /\ seen' = seen
    BY <1>2 DEF Evict, DoubleSpend
  <2>2. \A n \in Nodes : mem'[n] # "ours"
    <3>1. CASE Evict
      BY <3>1 DEF Evict
    <3>2. CASE DoubleSpend
      BY <3>2 DEF DoubleSpend, Holders
    <3> QED
      BY <1>2, <3>1, <3>2
  <2> QED
    BY <2>1, <2>2 DEF SeenOK, Out, Holders
<1>3. CASE Mine
  <2>1. /\ mined = "none" /\ mem[0] # "none" /\ mined' = mem[0]
        /\ mem' = mem /\ seen' = seen /\ 0 \in Nodes
    BY <1>3, BroadcastAssumption DEF Mine, Nodes
  <2> QED
    BY <2>1 DEF SeenOK, Out, Holders, Present
<1>4. CASE \E e \in Endpoints : Learn(e)
  <2>1. PICK e \in Endpoints : Learn(e)
    BY <1>4
  <2>2. /\ mined # "none" /\ mined' = mined /\ seen' = seen \cup {e}
        /\ mem' = [mem EXCEPT ![e] = "none"]
    BY <2>1 DEF Learn
  <2>3. SeenOK'
    BY <2>2 DEF SeenOK, Endpoints, Nodes
  <2>4. ASSUME Out', NEW f \in Endpoints, Present(f) PROVE Present(f)'
    BY <2>2, <2>4 DEF Present, Out, Endpoints, Nodes
  <2> QED
    BY <2>2, <2>3, <2>4 DEF Out
<1> QED
  BY <1>1, <1>2, <1>3, <1>4 DEF Network

\* An endpoint's mempool changes only when it takes a submission.
LEMMA ReplyEffect ==
  ASSUME BroadcastInv, NEW ans \in Answers, Request(ans)
  PROVE  /\ SeenOK' /\ mined' = mined /\ seen' = seen
         /\ job.call # "push" => mem' = mem
         /\ \A e \in Endpoints : Present(e) => Present(e)'
         /\ Out' => Out \/ \E e \in Endpoints : Present(e)'
<1> USE DEF BroadcastInv, TypeOK
<1>1. mined' = mined /\ seen' = seen
  BY DEF Request, Reply
<1>2. CASE mem' = mem
  BY <1>1, <1>2 DEF SeenOK, Present, Out, Holders
<1>3. CASE /\ Takes(job.call, job.at, ans)
           /\ mem' = [mem EXCEPT ![job.at] = "ours"]
  <2>1. job.at \in Endpoints /\ job.at \notin seen /\ mem[job.at] = "none"
    BY <1>3 DEF Takes
  <2>2. job.at \in Nodes
    BY <2>1, BroadcastAssumption DEF Endpoints, Nodes
  <2>3. SeenOK'
    BY <1>1, <1>3, <2>1 DEF SeenOK, Endpoints, Nodes
  <2>4. ASSUME NEW e \in Endpoints, Present(e) PROVE Present(e)'
    BY <1>1, <1>3, <2>1, <2>4 DEF Present
  <2>5. \E e \in Endpoints : Present(e)'
    <3>1. mem'[job.at] = "ours"
      BY <1>3, <2>2
    <3> QED
      BY <2>1, <3>1 DEF Present
  <2> QED
    BY <1>1, <1>3, <2>3, <2>4, <2>5 DEF Takes
<1>4. mem' = mem \/ (/\ Takes(job.call, job.at, ans)
                     /\ mem' = [mem EXCEPT ![job.at] = "ours"])
  BY DEF Request, Reply
<1> QED
  BY <1>2, <1>3, <1>4

\* A question is settled by the truth, unless the last endpoint fails.
LEMMA Answered ==
  ASSUME BroadcastInv, Dependable, NEW ans \in Answers, Request(ans),
         job.call = "known"
  PROVE  /\ ans = "404" => ~Present(job.at)
         /\ ~Settles(job.call, ans) /\ job.at # N => ans = "404"
<1>1. \/ ans \in Truth("known", job.at, job.input)
      \/ ans = "err" /\ job.at \in Unreliable
  BY DEF Request, Reply
<1>2. ans \in {"yes", "404"} \/ (ans = "err" /\ job.at = N)
  BY <1>1 DEF Truth, Dependable
<1> QED
  BY <1>1, <1>2 DEF Truth, Settles

LEMMA RequestInv ==
  ASSUME BroadcastInv, Dependable, NEW ans \in Answers, Request(ans)
  PROVE  BroadcastInv'
<1>1. TypeOK' /\ JobOK'
  BY RequestTyped DEF BroadcastInv
<1>2. job # Idle /\ job.call \in Calls /\ Follows(ans)
  BY RequestCases DEF BroadcastInv
<1>3. job.at \in Endpoints /\ job.at \in Nat /\ job.at >= 1 /\ job.at <= N /\ N \in Nat
  BY BroadcastAssumption DEF BroadcastInv, TypeOK, Endpoints
<1>4. SeenOK' /\ Findable'
  BY ReplyEffect DEF BroadcastInv, Findable
<1>5. mix # "refunded"
  BY <1>2 DEF BroadcastInv, JobOK
<1>6. job.call # "push" => Out' = Out
  BY ReplyEffect DEF Out, Holders
<1>7. ASSUME Denied(ans) PROVE ~Out /\ ~Out'
  <2>1. ~Present(job.at) /\ Ahead /\ job.at = N /\ job.call = "known"
    BY <1>7, Answered DEF BroadcastInv, Denied
  <2>2. \A e \in Endpoints : e >= N => e = N
    BY <1>3 DEF Endpoints
  <2> QED
    BY <1>6, <2>1, <2>2 DEF Ahead
<1>8. /\ Ahead'
      /\ job'.call = "spent" => ~Out'
      /\ mix' = "refunded" => ~Out'
  <2>1. CASE AskNext(ans)
    <3>1. job'.call = job.call /\ job'.at = job.at + 1 /\ mix' = mix
      BY <2>1 DEF AskNext, BroadcastInv, TypeOK
    <3>2. CASE job.call = "known"
      <4>1. ~Present(job.at) /\ mem' = mem /\ mined' = mined /\ seen' = seen
        BY <2>1, <3>2, Answered, ReplyEffect DEF AskNext
      <4>2. Out => \E e \in Endpoints : e >= job.at + 1 /\ Present(e)
        <5>1. \A e \in Endpoints : e >= job.at /\ e # job.at => e >= job.at + 1
          BY <1>3 DEF Endpoints
        <5> QED
          BY <3>2, <4>1, <5>1 DEF BroadcastInv, Ahead
      <4>3. Ahead'
        BY <3>1, <4>1, <4>2 DEF Ahead, Out, Holders, Present
      <4> QED
        BY <1>5, <3>1, <3>2, <4>3
    <3>3. CASE job.call # "known"
      BY <1>5, <1>6, <3>1, <3>3 DEF BroadcastInv, Ahead
    <3> QED
      BY <3>2, <3>3
  <2>2. CASE Parks
    BY <2>2 DEF Parks, Park, Idle, Ahead
  <2>3. CASE Closes(ans)
    BY <2>3 DEF Closes, Complete, Idle, Ahead
  <2>4. CASE Rejects(ans)
    BY <1>7, <2>4 DEF Rejects, Refund, Idle, Ahead
  <2>5. CASE Conflicts(ans)
    BY <1>6, <2>5 DEF Conflicts, Refund, Idle, BroadcastInv, Ahead
  <2>6. CASE AsksKnown
    <3>1. job'.call = "known" /\ job'.at = 1 /\ mix' = mix
      BY <2>6 DEF AsksKnown, Continue, Begin
    <3>2. \A e \in Endpoints : e >= 1
      BY <1>3 DEF Endpoints
    <3> QED
      BY <1>4, <1>5, <3>1, <3>2 DEF Findable, Ahead
  <2>7. CASE Probes(ans)
    BY <1>5, <1>6, <1>7, <2>7 DEF Probes, Continue, Begin, BroadcastInv, Ahead
  <2>8. CASE Repushes
    BY <1>5, <2>8 DEF Repushes, Continue, Begin, Ahead
  <2> QED
    BY <1>2, <2>1, <2>2, <2>3, <2>4, <2>5, <2>6, <2>7, <2>8 DEF Follows
<1> QED
  BY <1>1, <1>4, <1>8 DEF BroadcastInv

LEMMA InvStep ==
  ASSUME BroadcastInv, Dependable, [Next]_vars
  PROVE  BroadcastInv'
<1>1. TypeOK' /\ JobOK'
  BY TypeStep DEF BroadcastInv
<1>2. CASE \E ans \in Answers : Request(ans)
  BY <1>2, RequestInv
<1>3. CASE Network
  <2>1. UNCHANGED <<mix, job>>
    BY <1>3 DEF Network, Relay, Evict, DoubleSpend, Mine, Learn
  <2>3. SeenOK' /\ (Out' => Out)
    BY <1>3, NetworkEffect
  <2>4. Findable' /\ Ahead'
    BY <1>3, <2>1, NetworkEffect DEF BroadcastInv, Findable, Ahead
  <2> QED
    BY <1>1, <2>1, <2>3, <2>4 DEF BroadcastInv
<1>4. CASE Combine \/ Sweep \/ Crash \/ UNCHANGED vars
  <2>1. UNCHANGED world
    BY <1>4 DEF Combine, Sweep, Crash, vars, world
  <2>2. SeenOK' /\ Findable' /\ Out' = Out
    BY <2>1 DEF BroadcastInv, SeenOK, Findable, Out, Holders, Present, world
  <2>3. \/ job'.call \notin {"known", "spent"} /\ mix' = mix
        \/ UNCHANGED vars
    BY <1>4 DEF Combine, Sweep, Crash, Begin, Idle
  <2>4. CASE UNCHANGED vars
    <3>1. Ahead' = Ahead
      BY <2>4 DEF vars, Ahead, Out, Holders, Present
    <3> QED
      BY <1>1, <2>2, <2>4, <3>1 DEF BroadcastInv, vars
  <2>5. CASE job'.call \notin {"known", "spent"} /\ mix' = mix
    BY <1>1, <2>2, <2>5 DEF BroadcastInv, Ahead
  <2> QED
    BY <2>3, <2>4, <2>5
<1> QED
  BY <1>2, <1>3, <1>4 DEF Next, Bot, Over

THEOREM BroadcastInvariant ==
  ASSUME Dependable
  PROVE  Spec => []BroadcastInv
  BY InvInit, InvStep, PTL DEF Spec

\* Then a refunded mix has no transaction in any mempool or block.
THEOREM RefundedIsDead ==
  ASSUME Dependable
  PROVE  Spec => []RefundMeansDead
<1>1. BroadcastInv => RefundMeansDead
  BY DEF BroadcastInv, RefundMeansDead
<1> QED
  BY <1>1, BroadcastInvariant, PTL

\* An input reported spent when the transaction is nowhere was taken by a rival.
THEOREM ConflictsAreReal ==
  ASSUME Dependable
  PROVE  Spec => ConflictIsReal
<1> DEFINE Real == why' = "conflict" /\ why = "-" =>
                     mined = "rival" \/ \E n \in Nodes : mem[n] = "rival"
<1>1. ASSUME BroadcastInv, [Next]_vars PROVE [Real]_vars
  <2> SUFFICES ASSUME Next, why' = "conflict", why = "-"
               PROVE  mined = "rival" \/ \E n \in Nodes : mem[n] = "rival"
    BY <1>1
  <2>1. CASE \E ans \in Answers : Request(ans)
    <3>1. PICK ans \in Answers : Request(ans)
      BY <2>1
    <3>2. Follows(ans)
      BY <1>1, <3>1, RequestCases DEF BroadcastInv
    <3>3. job.call = "spent" /\ ans = "yes"
      BY <3>2 DEF Follows, AskNext, Parks, Park, Closes, Complete, Rejects, Conflicts,
                  Refund, AsksKnown, Probes, Repushes, Continue
    <3>4. ans \in Truth("spent", job.at, job.input)
      BY <3>1, <3>3 DEF Request, Reply
    <3>5. Present(job.at) \/ Robbed(job.at)
      BY <3>3, <3>4 DEF Truth
    <3>6. job.at \in Nodes /\ mined \in {"none", "ours", "rival"}
      BY <1>1, BroadcastAssumption DEF BroadcastInv, TypeOK, Endpoints, Nodes
    <3>7. ~Out
      BY <1>1, <3>3 DEF BroadcastInv
    <3> QED
      BY <3>5, <3>6, <3>7 DEF Present, Robbed, Out, Holders
  <2>2. CASE Combine \/ Sweep \/ Network \/ Crash \/ Over
    BY <2>2 DEF Combine, Sweep, Crash, Over, vars, Network, Relay, Evict,
                DoubleSpend, Mine, Learn
  <2> QED
    BY <2>1, <2>2 DEF Next, Bot
<1> QED
  BY <1>1, BroadcastInvariant, PTL DEF Spec, ConflictIsReal

\* Who is yet to be asked in tx_known comes after those who denied.
HeardInv ==
  /\ TypeOK /\ JobOK
  /\ job.call = "known" => \A e \in Endpoints : e < job.at => e \in heard
  /\ why # "-" => mix = "refunded"
  /\ DenialIsUnanimous

LEMMA HeardStep ==
  ASSUME Unreliable \subseteq {N}, HeardInv, [Next]_vars
  PROVE  HeardInv'
<1>1. TypeOK' /\ JobOK'
  BY TypeStep DEF HeardInv
<1>2. CASE \E ans \in Answers : Request(ans)
  <2>1. PICK ans \in Answers : Request(ans)
    BY <1>2
  <2>2. job # Idle /\ Follows(ans)
    BY <2>1, RequestCases DEF HeardInv
  <2>3. why = "-"
    BY <2>2 DEF HeardInv, JobOK
  <2>4. /\ job.at \in Endpoints /\ N \in Nat
        /\ job' = Idle \/ job'.at \in Endpoints
    BY <1>1, BroadcastAssumption DEF HeardInv, TypeOK
  <2>5. job.call # "known" => heard' = heard
    BY <2>1 DEF Request
  <2>6. CASE job.call = "known" /\ ans = "404"
    <3>1. heard' = (IF job.at = 1 THEN {} ELSE heard) \cup {job.at}
      BY <2>1, <2>6 DEF Request
    <3>2. \A e \in Endpoints : e <= job.at => e \in heard'
      BY <2>4, <2>6, <3>1 DEF HeardInv, Endpoints
    <3>3. CASE AskNext(ans)
      <4>1. job'.at = job.at + 1 /\ job'.call = "known" /\ why' = "-" /\ mix' = mix
        BY <2>3, <2>6, <3>3 DEF AskNext, HeardInv, TypeOK
      <4>2. \A e \in Endpoints : e < job'.at => e \in heard'
        BY <2>4, <3>2, <4>1 DEF Endpoints
      <4> QED
        BY <1>1, <4>1, <4>2 DEF HeardInv, DenialIsUnanimous
    <3>4. CASE Rejects(ans) \/ Probes(ans)
      <4>1. job.at = N
        BY <2>6, <3>4 DEF Rejects, Probes, Denied
      <4>2. heard' = Endpoints
        <5>1. \A e \in Endpoints : e <= N
          BY DEF Endpoints
        <5>2. heard' \subseteq Endpoints
          BY <1>1 DEF TypeOK, Endpoints
        <5> QED
          BY <3>2, <4>1, <5>1, <5>2
      <4>3. /\ job'.call # "known"
            /\ why' # "-" => mix' = "refunded"
        BY <2>3, <3>4 DEF Rejects, Refund, Probes, Continue, Begin, Idle
      <4> QED
        BY <1>1, <4>2, <4>3 DEF HeardInv, DenialIsUnanimous
    <3>5. CASE Parks \/ Repushes
      BY <1>1, <2>3, <3>5 DEF Parks, Park, Repushes, Continue, Begin, Idle, HeardInv,
                              DenialIsUnanimous
    <3> QED
      BY <2>2, <2>6, <3>3, <3>4, <3>5 DEF Follows, Closes, Conflicts, AsksKnown
  <2>7. CASE job.call = "known" /\ ans # "404"
    <3>1. ans \in {"yes", "err"} /\ (ans = "err" => job.at = N)
      BY <2>1, <2>7 DEF Request, Reply, Truth
    <3>2. ~AskNext(ans) /\ ~Denied(ans)
      BY <2>7, <3>1 DEF AskNext, Settles, Denied
    <3>3. Parks \/ Repushes
      BY <2>2, <2>7, <3>2 DEF Follows, Closes, Conflicts, AsksKnown, Rejects, Probes
    <3> QED
      BY <1>1, <2>3, <3>3 DEF Parks, Park, Repushes, Continue, Begin, Idle, HeardInv,
                              DenialIsUnanimous
  <2>8. CASE job.call # "known"
    <3>1. CASE AskNext(ans)
      <4>1. job'.call = job.call /\ why' = why
        BY <3>1 DEF AskNext, HeardInv, TypeOK
      <4> QED
        BY <1>1, <2>3, <2>5, <2>8, <4>1 DEF HeardInv, DenialIsUnanimous
    <3>2. CASE Parks \/ Closes(ans) \/ Repushes
      BY <1>1, <2>3, <3>2 DEF Parks, Park, Closes, Complete, Repushes, Continue, Begin,
                              Idle, HeardInv, DenialIsUnanimous
    <3>3. CASE AsksKnown
      <4>1. job'.call = "known" /\ job'.at = 1 /\ why' = "-"
        BY <2>3, <3>3 DEF AsksKnown, Continue, Begin
      <4>2. \A e \in Endpoints : ~(e < job'.at)
        BY <4>1 DEF Endpoints
      <4> QED
        BY <1>1, <4>1, <4>2 DEF HeardInv, DenialIsUnanimous
    <3>4. CASE Conflicts(ans) \/ Probes(ans)
      <4>1. job.call = "spent" /\ job'.call # "known"
            /\ (why' # "-" => mix' = "refunded")
        BY <2>3, <2>8, <3>4 DEF Conflicts, Refund, Probes, Denied, Continue, Begin, Idle
      <4> QED
        BY <1>1, <2>5, <2>8, <4>1 DEF HeardInv, DenialIsUnanimous
    <3> QED
      BY <2>2, <2>8, <3>1, <3>2, <3>3, <3>4 DEF Follows, Rejects, Denied
  <2> QED
    BY <2>6, <2>7, <2>8
<1>3. CASE Network \/ Over \/ UNCHANGED vars
  <2>1. UNCHANGED <<mix, why, job, heard>>
    BY <1>3 DEF Network, Relay, Evict, DoubleSpend, Mine, Learn, Over, vars
  <2> QED
    BY <1>1, <2>1 DEF HeardInv, DenialIsUnanimous
<1>4. CASE Combine \/ Sweep \/ Crash
  <2>1. job'.call \notin {"known", "spent"} /\ UNCHANGED <<mix, why, heard>>
    BY <1>4 DEF Combine, Sweep, Crash, Begin, Idle
  <2> QED
    BY <1>1, <2>1 DEF HeardInv, DenialIsUnanimous
<1> QED
  BY <1>2, <1>3, <1>4 DEF Next, Bot

\* tx_known says False only after a 404 from every endpoint, if none but the one
\* asked last may fail; mempools need not agree for that.
THEOREM DenialsAreUnanimous ==
  ASSUME Unreliable \subseteq {N}
  PROVE  Spec => []DenialIsUnanimous
<1>1. Init => HeardInv
  BY TypeInit DEF Init, HeardInv, DenialIsUnanimous, Idle
<1>2. HeardInv => DenialIsUnanimous
  BY DEF HeardInv
<1> QED
  BY <1>1, <1>2, HeardStep, PTL DEF Spec

-----------------------------------------------------------------------------
LEMMA FateStep ==
  ASSUME BroadcastInv, Dependable, [Next]_vars
  PROVE  [KeepsFate!Next]_(KeepsFate!vars)
<1> USE DEF KeepsFate!vars, Verdict
<1>1. CASE \E ans \in Answers : Request(ans)
  <2>1. PICK ans \in Answers : Request(ans)
    BY <1>1
  <2>2. job # Idle /\ Follows(ans) /\ mix \in {"signing", "broadcast"}
    BY <2>1, RequestCases DEF BroadcastInv, JobOK
  <2>3. mined' = mined /\ seen' = seen /\ (job.call # "push" => mem' = mem)
    BY <2>1, ReplyEffect
  <2>4. Verdict = "pending"
    BY <2>2
  <2>5. CASE Closes(ans)
    <3>1. ans \in Truth("confirmed", job.at, job.input) /\ ans = "yes"
      BY <2>1, <2>5 DEF Request, Reply, Closes
    <3>2. Present(job.at) /\ job.at \in seen
      BY <3>1 DEF Truth
    <3>3. Fate = "confirmed"
      BY <3>2 DEF BroadcastInv, SeenOK, Present, Fate
    <3>4. Fate' = Fate /\ Verdict' = "completed"
      BY <2>3, <2>5 DEF Closes, Complete, Fate, Holders
    <3> QED
      BY <2>4, <3>3, <3>4 DEF KeepsFate!Next, KeepsFate!Complete
  <2>6. CASE Rejects(ans) \/ Conflicts(ans)
    <3>1. Fate' = Fate /\ mix' = "refunded"
      BY <2>3, <2>6 DEF Rejects, Denied, Conflicts, Refund, Fate, Holders
    <3>2. ~Out'
      BY <2>1, <3>1, RequestInv DEF BroadcastInv
    <3>3. ~Out
      BY <2>3, <2>6, <3>2 DEF Rejects, Denied, Conflicts, Out, Holders
    <3>4. Fate \in {"away", "lost"}
      BY <3>3 DEF Fate, Out, BroadcastInv, TypeOK
    <3> QED
      BY <2>4, <3>1, <3>4 DEF KeepsFate!Next, KeepsFate!Refund
  <2>7. CASE ~(Closes(ans) \/ Rejects(ans) \/ Conflicts(ans))
    <3>1. Verdict' = Verdict
      BY <2>2, <2>7 DEF Follows, AskNext, Parks, Park, AsksKnown, Probes, Repushes, Continue
    <3>2. mem' = mem \/ \E e \in Nodes : mem' = [mem EXCEPT ![e] = "ours"] /\ mem[e] = "none"
      BY <2>1, BroadcastAssumption
      DEF Request, Reply, Takes, BroadcastInv, TypeOK, Endpoints, Nodes
    <3>3. Fate' = Fate \/ (Fate = "away" /\ Fate' = "out")
      <4>1. CASE mem' = mem
        BY <2>3, <4>1 DEF Fate, Holders
      <4>2. CASE \E e \in Nodes : mem' = [mem EXCEPT ![e] = "ours"] /\ mem[e] = "none"
        <5>1. Holders' # {}
          BY <4>2 DEF Holders, BroadcastInv, TypeOK
        <5> QED
          BY <2>3, <5>1 DEF Fate
      <4> QED
        BY <3>2, <4>1, <4>2
    <3> QED
      BY <2>4, <3>1, <3>3 DEF KeepsFate!Next, KeepsFate!Publish
  <2> QED
    BY <2>5, <2>6, <2>7
<1>2. CASE Network
  <2>1. Verdict' = Verdict
    BY <1>2 DEF Network, Relay, Evict, DoubleSpend, Mine, Learn
  <2>2. CASE \E m, n \in Nodes : Relay(m, n)
    <3>1. PICK m \in Nodes, n \in Nodes : Relay(m, n)
      BY <2>2
    <3>2. mem' = [mem EXCEPT ![n] = mem[m]] /\ mem[n] = "none" /\ mined' = mined
      BY <3>1 DEF Relay
    <3>3. Holders' = {} <=> Holders = {}
      BY <3>2 DEF Holders, BroadcastInv, TypeOK
    <3> QED
      BY <2>1, <3>2, <3>3 DEF Fate
  <2>3. CASE Evict \/ DoubleSpend
    <3>1. mined = "none" /\ mined' = "none"
      BY <2>3 DEF Evict, DoubleSpend
    <3>2. Holders' = {}
      <4>1. CASE Evict
        BY <4>1 DEF Evict, Holders, Dependable
      <4>2. CASE DoubleSpend
        BY <4>2 DEF DoubleSpend, Holders, Dependable
      <4> QED
        BY <2>3, <4>1, <4>2
    <3> QED
      BY <2>1, <3>1, <3>2 DEF Fate, KeepsFate!Next, KeepsFate!Drop
  <2>4. CASE Mine
    <3>1. mined = "none" /\ mined' = mem[0] /\ mem' = mem /\ 0 \in Nodes
          /\ mem[0] \in {"ours", "rival"}
      BY <2>4, BroadcastAssumption DEF Mine, Nodes, BroadcastInv, TypeOK
    <3>2. mem[0] = "ours" => Holders # {}
      BY <3>1 DEF Holders
    <3> QED
      BY <2>1, <3>1, <3>2 DEF Fate, KeepsFate!Next, KeepsFate!Confirm, KeepsFate!Lose
  <2>5. CASE \E e \in Endpoints : Learn(e)
    <3>1. mined' = mined /\ mined \in {"ours", "rival"}
      BY <2>5 DEF Learn, BroadcastInv, TypeOK
    <3> QED
      BY <2>1, <3>1 DEF Fate
  <2> QED
    BY <1>2, <2>2, <2>3, <2>4, <2>5 DEF Network
<1>3. CASE Combine \/ Sweep \/ Crash \/ Over \/ UNCHANGED vars
  <2>1. UNCHANGED <<mix, world>>
    BY <1>3 DEF Combine, Sweep, Crash, Over, vars, world
  <2> QED
    BY <2>1 DEF world, Fate, Holders
<1> QED
  BY <1>1, <1>2, <1>3 DEF Next, Bot

\* Every step is one the promise of TxFate allows, or none at all.
THEOREM FateKept ==
  ASSUME Dependable
  PROVE  Spec => KeepsFate!Safety
<1>1. Init => KeepsFate!Init
  BY DEF Init, KeepsFate!Init, Fate, Verdict, Holders
<1> QED
  BY <1>1, FateStep, BroadcastInvariant, PTL DEF Spec, KeepsFate!Safety
=============================================================================
