--------------------------- MODULE Refunds_proofs ---------------------------
(***************************************************************************)
(* Proofs about Refunds, for every set of participants.                    *)
(*                                                                         *)
(* Types first, through lemmas that say what each way of moving on does to *)
(* a task's local variables and what an UPDATE does to a row.  Then the    *)
(* inductive invariant RefundInv of an instance whose tasks do not         *)
(* overlap, and from it the properties of the money and the refinement of  *)
(* RefundLedger.  Last, on top of RefundInv, the invariant AccountInv that *)
(* follows an accepted payment until its row is gone.                      *)
(***************************************************************************)
EXTENDS Refunds, TLAPS

LEMMA IdleJob == Idle \in Jobs
  BY RefundsAssumption DEF Idle, Jobs, Steps, Calls

LEMMA TypeInit == Init => TypeOK
<1> SUFFICES ASSUME Init PROVE TypeOK
  OBVIOUS
<1> DEFINE R == [st : Live \cup Settled, fee : BOOLEAN, coins : BOOLEAN]
           S == {[st |-> s, fee |-> FALSE, coins |-> TRUE] : s \in Live}
<1>1. S \subseteq R
  <2> SUFFICES ASSUME NEW s \in Live
               PROVE  [st |-> s, fee |-> FALSE, coins |-> TRUE] \in R
    OBVIOUS
  <2> QED
    OBVIOUS
<1>4. row \in [Participants -> S]
  BY Zenon DEF Init
<1>3. row \in [Participants -> R]
  <2> HIDE DEF R, S
  <2> QED
    BY <1>1, <1>4
<1>2. job \in [Tasks -> Jobs]
  BY IdleJob DEF Init
<1> QED
  BY <1>2, <1>3 DEF Init, TypeOK

\* What the ways to move on do to the local variables of a task.
Others(t) == \A u \in Tasks : u # t => job'[u] = job[u]

LEMMA GoToEffect ==
  ASSUME TypeOK, NEW t \in Tasks, NEW pc \in Steps, GoTo(t, pc)
  PROVE  /\ job' \in [Tasks -> Jobs] /\ Others(t)
         /\ job'[t].pc = pc /\ job'[t].who = job[t].who
         /\ job'[t].todo = job[t].todo /\ job'[t].ok = job[t].ok
         /\ job'[t].call = job[t].call /\ job'[t].fees = job[t].fees
<1>1. job[t] \in Jobs
  BY DEF TypeOK
<1>2. [job[t] EXCEPT !.pc = pc] \in Jobs
  BY <1>1 DEF Jobs
<1>3. job' = [job EXCEPT ![t] = [job[t] EXCEPT !.pc = pc]]
  BY DEF GoTo
<1> QED
  BY <1>1, <1>2, <1>3 DEF TypeOK, Others, Jobs

LEMMA FinishEffect ==
  ASSUME TypeOK, NEW t \in Tasks, Finish(t)
  PROVE  job' \in [Tasks -> Jobs] /\ Others(t) /\ job'[t] = Idle
  BY IdleJob DEF TypeOK, Finish, Others

LEMMA StartEffect ==
  ASSUME TypeOK, NEW t \in Tasks, NEW call \in Calls, NEW pc \in Steps,
         NEW p \in Participants, Start(t, call, pc, p)
  PROVE  /\ job' \in [Tasks -> Jobs] /\ Others(t)
         /\ job'[t].pc = pc /\ job'[t].who = p
         /\ job'[t].todo = {} /\ job'[t].call = call /\ job'[t].fees = Fees
<1> DEFINE j == [Idle EXCEPT !.call = call, !.pc = pc, !.who = p, !.fees = Fees]
<1>1. j \in Jobs /\ j.pc = pc /\ j.who = p /\ j.todo = {}
      /\ j.call = call /\ j.fees = Fees
  BY IdleJob DEF Jobs, Fees, Idle
<1>2. job' = [job EXCEPT ![t] = j]
  BY DEF Start
<1> HIDE DEF j
<1> QED
  BY <1>1, <1>2 DEF TypeOK, Others

LEMMA AfterEffect ==
  ASSUME TypeOK, NEW t \in Tasks, AfterRefund(t)
  PROVE  /\ job' \in [Tasks -> Jobs] /\ Others(t)
         /\ job'[t].todo = job[t].todo
         /\ job'[t].call = job[t].call /\ job'[t].fees = job[t].fees
         /\ \/ job'[t].pc = "next" /\ job'[t].who = Nobody /\ job[t].call = "cancel"
            \/ job'[t].pc = "scrub" /\ job'[t].who = job[t].who /\ job[t].call # "cancel"
<1> DEFINE a == [job[t] EXCEPT !.pc = "next", !.who = Nobody, !.ok = FALSE]
           b == [job[t] EXCEPT !.pc = "scrub", !.ok = FALSE]
<1>1. job[t] \in Jobs
  BY DEF TypeOK
<1>2. a \in Jobs /\ b \in Jobs
  BY <1>1 DEF Jobs, Steps
<1>3. \/ job' = [job EXCEPT ![t] = a] /\ job[t].call = "cancel"
      \/ job' = [job EXCEPT ![t] = b] /\ job[t].call # "cancel"
  BY DEF AfterRefund
<1>4. /\ a.todo = job[t].todo /\ a.pc = "next" /\ a.who = Nobody
      /\ b.todo = job[t].todo /\ b.pc = "scrub" /\ b.who = job[t].who
      /\ a.call = job[t].call /\ a.fees = job[t].fees
      /\ b.call = job[t].call /\ b.fees = job[t].fees
  BY <1>1 DEF Jobs
<1> HIDE DEF a, b
<1> QED
  BY <1>2, <1>3, <1>4 DEF TypeOK, Others

Rows == [Participants -> [st : Live \cup Settled, fee : BOOLEAN, coins : BOOLEAN]]

\* What an UPDATE does to the row it is for, and to the others.
OtherRows(p) == \A q \in Participants : q # p => row'[q] = row[q]

LEMMA WriteEffect ==
  ASSUME TypeOK, NEW p \in Participants, NEW st \in Live \cup Settled,
         row' = Write(p, st)
  PROVE  /\ row' \in Rows /\ OtherRows(p)
         /\ row'[p].st = IF row[p].st = "none" THEN "none" ELSE st
         /\ row'[p].fee = row[p].fee
<1>1. row \in Rows /\ row[p] \in [st : Live \cup Settled, fee : BOOLEAN, coins : BOOLEAN]
  BY DEF TypeOK, Rows
<1>2. CASE row[p].st = "none"
  BY <1>1, <1>2 DEF Write, OtherRows
<1>3. CASE row[p].st # "none"
  <2> DEFINE r == [row[p] EXCEPT !.st = st]
  <2>1. r \in [st : Live \cup Settled, fee : BOOLEAN, coins : BOOLEAN] /\ r.st = st /\ r.fee = row[p].fee
    BY <1>1
  <2>2. row' = [row EXCEPT ![p] = r]
    BY <1>3 DEF Write
  <2> HIDE DEF r
  <2> QED
    BY <1>1, <1>3, <2>1, <2>2 DEF Rows, OtherRows
<1> QED
  BY <1>2, <1>3

LEMMA PayEffect ==
  ASSUME TypeOK, NEW t \in Tasks, NEW p \in Participants, Pay(t, p)
  PROVE  /\ job' \in [Tasks -> Jobs] /\ Others(t)
         /\ job'[t].pc = "record" /\ job'[t].who = p
         /\ job'[t].todo = job[t].todo
         /\ job'[t].call = job[t].call /\ job'[t].fees = job[t].fees
         /\ job'[t].ok => payout' = [payout EXCEPT ![p] = @ + 1]
         /\ asked' = [asked EXCEPT ![p] = @ + 1]
         /\ \/ payout' = payout
            \/ /\ payout' = [payout EXCEPT ![p] = @ + 1]
               /\ job'[t].ok \/ p \in LostAnswers
<1>1. job[t] \in Jobs /\ job[t].who = p
  BY DEF TypeOK, Pay, At
<1>2. PICK ok \in BOOLEAN, settles \in BOOLEAN :
         /\ ok => settles
         /\ (settles /\ ~ok) => p \in LostAnswers
         /\ payout' = IF settles THEN [payout EXCEPT ![p] = @ + 1] ELSE payout
         /\ job' = [job EXCEPT ![t].pc = "record", ![t].ok = ok]
  BY DEF Pay
<1> DEFINE j == [job[t] EXCEPT !.pc = "record", !.ok = ok]
<1>3. /\ j \in Jobs /\ j.pc = "record" /\ j.who = p /\ j.todo = job[t].todo
      /\ j.ok = ok /\ j.call = job[t].call /\ j.fees = job[t].fees
  BY <1>1 DEF Jobs, Steps
<1>4. job' = [job EXCEPT ![t] = j]
  BY <1>2
<1> HIDE DEF j
<1>5. job' \in [Tasks -> Jobs] /\ Others(t) /\ job'[t] = j
  BY <1>3, <1>4 DEF TypeOK, Others
<1> QED
  BY <1>2, <1>3, <1>5 DEF Pay

LEMMA NextEffect ==
  ASSUME TypeOK, NEW t \in Tasks, NEW p \in Participants, CancelNext(t, p)
  PROVE  /\ job' \in [Tasks -> Jobs] /\ Others(t)
         /\ job'[t].pc \in {"check", "close"} /\ job'[t].who = p
         /\ job'[t].todo = job[t].todo \ {p}
         /\ job'[t].call = job[t].call /\ job'[t].fees = job[t].fees
<1> DEFINE pc == IF p \in job[t].fees \cap Payable THEN "check" ELSE "close"
           j == [job[t] EXCEPT !.todo = @ \ {p}, !.who = p, !.pc = pc]
<1>1. job[t] \in Jobs /\ pc \in {"check", "close"}
  BY DEF TypeOK
<1>2. job' = [job EXCEPT ![t] = j]
  BY DEF CancelNext
<1> HIDE DEF pc
<1>3. j \in Jobs /\ j.pc = pc /\ j.who = p /\ j.todo = job[t].todo \ {p}
      /\ j.call = job[t].call /\ j.fees = job[t].fees
  BY <1>1 DEF Jobs, Steps
<1> HIDE DEF j
<1> QED
  BY <1>1, <1>2, <1>3 DEF TypeOK, Others

LEMMA CancelEffect ==
  ASSUME TypeOK, CancelRead
  PROVE  /\ job' \in [Tasks -> Jobs] /\ Others("loop")
         /\ job'["loop"].pc = "next" /\ job'["loop"].who = Nobody
         /\ job'["loop"].todo = {p \in Participants : row[p].st \notin Settled}
         /\ job'["loop"].call = "cancel" /\ job'["loop"].fees = Fees
<1> DEFINE j == [Idle EXCEPT !.call = "cancel", !.pc = "next", !.fees = Fees,
                     !.todo = {p \in Participants : row[p].st \notin Settled}]
<1>1. /\ j \in Jobs /\ j.pc = "next" /\ j.who = Nobody
      /\ j.todo = {p \in Participants : row[p].st \notin Settled}
      /\ j.call = "cancel" /\ j.fees = Fees
  BY IdleJob DEF Idle, Jobs, Fees, Steps, Calls
<1>2. job' = [job EXCEPT !["loop"] = j]
  BY DEF CancelRead
<1> HIDE DEF j
<1> QED
  BY <1>1, <1>2 DEF TypeOK, Others, Tasks

LEMMA TypeStep == TypeOK /\ [Next]_vars => TypeOK'
<1> SUFFICES ASSUME TypeOK, [Next]_vars PROVE TypeOK'
  OBVIOUS
<1>1. ASSUME NEW p \in Participants, Begin(p) PROVE TypeOK'
  <2>1. "loop" \in Tasks /\ "handler" \in Tasks
    BY DEF Tasks
  <2>2. /\ {"zap", "exit", "timeout", "drop"} \subseteq Calls
        /\ {"expect", "late", "gate", "release", "fresh"} \subseteq Steps
    BY DEF Calls, Steps
  <2>3. job' \in [Tasks -> Jobs]
    BY <1>1, <2>1, <2>2, StartEffect DEF Begin, ZapRead, ExitRead, Timeout, DropRead
  <2> QED
    BY <1>1, <2>3 DEF TypeOK, Begin, ZapRead, ExitRead, Timeout, DropRead, wallet, books
<1>2. ASSUME NEW t \in Tasks, NEW p \in Participants, Continue(t, p) PROVE TypeOK'
  <2>1. /\ {"release", "check", "intend", "pay", "owe", "delete", "close",
         "credit"} \subseteq Steps
        /\ {"paid", "refunding", "refunded", "refund_failed", "cancelled"}
             \subseteq Live \cup Settled
    BY DEF Steps, Live, Settled
  <2>2. row \in Rows /\ job \in [Tasks -> Jobs] /\ job[t] \in Jobs
    BY DEF TypeOK, Rows
  <2>3. CASE Credit(t, p)
    <3>1. row' \in Rows
      <4>1. row[p] \in [st : Live \cup Settled, fee : BOOLEAN, coins : BOOLEAN]
        BY <2>2 DEF Rows
      <4>2. [row[p] EXCEPT !.st = "paid", !.fee = TRUE]
               \in [st : Live \cup Settled, fee : BOOLEAN, coins : BOOLEAN]
        BY <4>1, <2>1
      <4>3. row' = row \/ row' = [row EXCEPT ![p] = [row[p] EXCEPT !.st = "paid", !.fee = TRUE]]
        BY <2>3 DEF Credit
      <4> QED
        BY <2>2, <4>2, <4>3 DEF Rows
    <3> QED
      BY <2>3, <3>1, FinishEffect DEF TypeOK, Credit, Rows, wallet
  <2>4. CASE LateZap(t, p)
    BY <2>4, FinishEffect DEF TypeOK, LateZap, wallet, books
  <2>5. CASE ExitGate(t, p)
    BY <2>5, <2>1, FinishEffect, GoToEffect DEF TypeOK, ExitGate, wallet, books
  <2>6. CASE DropFresh(t, p)
    BY <2>6, <2>1, FinishEffect, GoToEffect DEF TypeOK, DropFresh, wallet, books
  <2>7. CASE CancelNext(t, p)
    BY <2>7, NextEffect DEF TypeOK, CancelNext, wallet, books
  <2>8. CASE Release(t, p)
    <3>1. row' \in Rows
      BY <2>2, <2>8 DEF Release, Rows
    <3>2. job' \in [Tasks -> Jobs]
      BY <2>1, <2>8, GoToEffect DEF Release
    <3> QED
      BY <2>8, <3>1, <3>2 DEF TypeOK, Rows, Release, wallet, books
  <2>9. CASE Check(t, p)
    BY <2>9, <2>1, GoToEffect, AfterEffect DEF TypeOK, Check, wallet, books
  <2>10. CASE Intend(t, p)
    <3>1. row' \in Rows
      BY <2>1, <2>10, WriteEffect DEF Intend
    <3> QED
      BY <2>1, <2>10, <3>1, GoToEffect DEF TypeOK, Rows, Intend, wallet, books
  <2>11. CASE Pay(t, p)
    <3>1. asked' \in [Participants -> Nat] /\ payout' \in [Participants -> Nat]
      BY <2>11, PayEffect DEF TypeOK
    <3>2. job' \in [Tasks -> Jobs]
      BY <2>11, PayEffect
    <3> QED
      BY <2>11, <3>1, <3>2 DEF TypeOK, Pay, books
  <2>12. CASE Record(t, p)
    <3>1. row' \in Rows
      BY <2>1, <2>12, WriteEffect DEF Record
    <3> QED
      BY <2>12, <3>1, AfterEffect DEF TypeOK, Rows, Record, wallet, books
  <2>13. CASE Close(t, p)
    <3>1. row' \in Rows
      BY <2>1, <2>13, WriteEffect DEF Close
    <3> QED
      BY <2>13, <3>1, AfterEffect DEF TypeOK, Rows, Close, wallet
  <2>14. CASE Scrub(t, p)
    BY <2>14, <2>1, FinishEffect, GoToEffect DEF TypeOK, Scrub, wallet, books
  <2>15. CASE Owe(t, p)
    BY <2>15, <2>1, GoToEffect DEF TypeOK, Owe, wallet, books
  <2>16. CASE Delete(t, p)
    <3>1. row' \in Rows
      BY <2>2, <2>16 DEF Delete, Rows, NoRow, Settled
    <3> QED
      BY <2>16, <3>1, FinishEffect DEF TypeOK, Rows, Delete, wallet, books
  <2>17. CASE ZapExpect(t, p)
    BY <2>17, <2>1, FinishEffect, GoToEffect DEF TypeOK, ZapExpect, wallet, books
  <2> QED
    BY <1>2, <2>3, <2>4, <2>5, <2>6, <2>7, <2>8, <2>9, <2>10, <2>11, <2>12,
       <2>13, <2>14, <2>15, <2>16, <2>17 DEF Continue
<1>3. ASSUME NEW t \in Tasks, Debts(t) PROVE TypeOK'
  <2>1. "destroy" \in Steps
    BY DEF Steps
  <2> QED
    BY <1>3, <2>1, GoToEffect DEF TypeOK, Debts, wallet
<1>4. ASSUME NEW t \in Tasks, Destroy(t) PROVE TypeOK'
  <2>1. row' \in Rows
    BY <1>4 DEF Destroy, Rows, NoRow, Settled
  <2> QED
    BY <1>4, <2>1, FinishEffect DEF TypeOK, Rows, Destroy, wallet, books
<1>5. ASSUME NEW t \in Tasks, Abort(t) PROVE TypeOK'
  BY <1>5, FinishEffect DEF TypeOK, Abort, wallet, books
<1>6. CASE CancelRead
  BY <1>6, CancelEffect DEF TypeOK, CancelRead, wallet, books
<1>7. CASE Advance
  BY <1>7 DEF TypeOK, Advance, wallet, books
<1>8. CASE UNCHANGED vars
  BY <1>8 DEF TypeOK, vars
<1> QED
  BY <1>1, <1>2, <1>3, <1>4, <1>5, <1>6, <1>7, <1>8 DEF Next, Over

\* Rows, local variables, books and wallet hold what the code puts there.
THEOREM TypeCorrect == Spec => []TypeOK
  BY TypeInit, TypeStep, PTL DEF Spec

-----------------------------------------------------------------------------
\* At most one task is busy.
Serial == \A t, u \in Tasks : job[t].pc # "idle" /\ job[u].pc # "idle" => t = u

\* What a task knows of the row of the participant in hand while it awaits.
Stage(t, p) ==
  /\ job[t].pc \in {"gate", "fresh", "release", "check", "intend", "close"} =>
       row[p].st \in Live
  /\ job[t].pc \in {"expect", "credit"} => row[p].st = "committed"
  /\ job[t].pc = "late" => row[p].st = "cancelled"
  /\ job[t].pc = "pay" => row[p].st = "refunding" /\ asked[p] = 0
  /\ job[t].pc = "record" =>
       /\ row[p].st = "refunding"
       /\ job[t].ok \/ payout[p] = 0 \/ p \in LostAnswers
  /\ job[t].pc = "owe" => row[p].st = "refund_failed"

\* A task that is not busy holds nothing; one that is has rows to treat that
\* are not settled, the one in hand not among them.
Hands(t) ==
  /\ job[t].pc = "idle" => job[t] = Idle
  /\ job[t].who \notin job[t].todo
  /\ \A p \in job[t].todo : row[p].st \in Live
  /\ \A p \in Participants : job[t].who = p => Stage(t, p)

\* The books of a participant agree with the row.
Account(p) ==
  /\ asked[p] <= 1 /\ payout[p] <= asked[p]
  /\ row[p].st \in Live => asked[p] = 0
  /\ row[p].st \in Live \cup {"refunding"} => p \notin owed
  /\ row[p].st = "cancelled" => asked[p] = 0
  /\ row[p].st = "refund_failed" => payout[p] = 0 \/ p \in LostAnswers
  /\ p \in owed => payout[p] = 0 \/ p \in LostAnswers

RefundInv ==
  /\ TypeOK /\ Serial
  /\ \A t \in Tasks : Hands(t)
  /\ \A p \in Participants : Account(p)

\* Only the task that moves has to be looked at.
LEMMA Alone ==
  ASSUME TypeOK, Serial, NEW t \in Tasks, Others(t),
         \A u \in Tasks : Hands(u),
         job[t].pc # "idle" \/ \A u \in Tasks : job[u].pc = "idle",
         Hands(t)'
  PROVE  Serial' /\ \A u \in Tasks : Hands(u)'
<1>1. \A u \in Tasks : u # t => job[u].pc = "idle" /\ job[u] = Idle
  BY DEF Serial, Hands
<1>2. \A u \in Tasks : u # t => job'[u] = Idle
  BY <1>1 DEF Others
<1>3. Idle.pc = "idle" /\ Idle.who = Nobody /\ Idle.todo = {}
  BY DEF Idle
<1>4. \A u \in Tasks : u # t => Hands(u)'
  <2> SUFFICES ASSUME NEW u \in Tasks, u # t PROVE Hands(u)'
    OBVIOUS
  <2>1. \A p \in Participants : job'[u].who # p
    BY <1>2, <1>3, RefundsAssumption
  <2> QED
    BY <1>2, <1>3, <2>1 DEF Hands
<1>5. Serial'
  BY <1>2, <1>3 DEF Serial
<1> QED
  BY <1>4, <1>5

LEMMA InvStep ==
  ASSUME RefundInv, [Next]_vars, ~Overlap
  PROVE  RefundInv'
<1> DEFINE Good(t) == /\ Others(t)
                      /\ job[t].pc # "idle" \/ \A u \in Tasks : job[u].pc = "idle"
                      /\ Hands(t)' /\ \A q \in Participants : Account(q)'
<1>0. /\ TypeOK /\ Serial /\ TypeOK'
      /\ \A t \in Tasks : Hands(t)
      /\ \A p \in Participants : Account(p)
      /\ "loop" \in Tasks /\ "handler" \in Tasks
  BY TypeStep DEF RefundInv, Tasks
<1>c. {"release", "check", "intend", "pay", "owe", "delete", "close",
       "credit"} \subseteq Steps
  BY DEF Steps
<1>a. /\ \A p \in Participants : /\ asked[p] \in Nat /\ payout[p] \in Nat
                                /\ row[p].st \in Live \cup Settled
      /\ owed \subseteq Participants /\ row \in Rows
      /\ \A t \in Tasks : job[t] \in Jobs
  BY <1>0 DEF TypeOK, Rows
<1>b. Nobody \notin Participants /\ Payable \subseteq Participants
  BY RefundsAssumption

<1>1. ASSUME NEW p \in Participants, ZapRead(p) PROVE Good("handler")
  <2>1. "zap" \in Calls /\ {"expect", "late"} \subseteq Steps
    BY DEF Calls, Steps
  <2>2. /\ Others("handler") /\ job'["handler"].who = p /\ job'["handler"].todo = {}
        /\ (job'["handler"].pc = "expect" /\ row[p].st = "committed") \/ (job'["handler"].pc = "late" /\ row[p].st = "cancelled")
    BY <1>1, <1>0, <2>1, StartEffect DEF ZapRead, Live
  <2>3. Hands("handler")'
    BY <1>1, <2>2 DEF ZapRead, Hands, Stage
  <2>4. \A q \in Participants : Account(q)'
    BY <1>1, <1>0 DEF ZapRead, Account, wallet
  <2> QED
    BY <1>1, <2>2, <2>3, <2>4 DEF ZapRead, MayStart

<1>2. ASSUME NEW p \in Participants, ExitRead(p) PROVE Good("handler")
  <2>1. "exit" \in Calls /\ {"gate"} \subseteq Steps
    BY DEF Calls, Steps
  <2>2. /\ Others("handler") /\ job'["handler"].who = p /\ job'["handler"].todo = {}
        /\ job'["handler"].pc = "gate" /\ row[p].st \in Live
    BY <1>2, <1>0, <2>1, StartEffect DEF ExitRead, Live
  <2>3. Hands("handler")'
    BY <1>2, <2>2 DEF ExitRead, Hands, Stage
  <2>4. \A q \in Participants : Account(q)'
    BY <1>2, <1>0 DEF ExitRead, Account, wallet
  <2> QED
    BY <1>2, <2>2, <2>3, <2>4 DEF ExitRead, MayStart

<1>3. ASSUME NEW p \in Participants, Timeout(p) PROVE Good("loop")
  <2>1. "timeout" \in Calls /\ {"release"} \subseteq Steps
    BY DEF Calls, Steps
  <2>2. /\ Others("loop") /\ job'["loop"].who = p /\ job'["loop"].todo = {}
        /\ job'["loop"].pc = "release" /\ row[p].st \in Live
    BY <1>3, <1>0, <2>1, StartEffect DEF Timeout, Live
  <2>3. Hands("loop")'
    BY <1>3, <2>2 DEF Timeout, Hands, Stage
  <2>4. \A q \in Participants : Account(q)'
    BY <1>3, <1>0 DEF Timeout, Account, wallet
  <2> QED
    BY <1>3, <2>2, <2>3, <2>4 DEF Timeout, MayStart

<1>4. ASSUME NEW p \in Participants, DropRead(p) PROVE Good("loop")
  <2>1. "drop" \in Calls /\ {"fresh"} \subseteq Steps
    BY DEF Calls, Steps
  <2>2. /\ Others("loop") /\ job'["loop"].who = p /\ job'["loop"].todo = {}
        /\ job'["loop"].pc = "fresh" /\ row[p].st \in Live
    BY <1>4, <1>0, <2>1, StartEffect DEF DropRead, Live
  <2>3. Hands("loop")'
    BY <1>4, <2>2 DEF DropRead, Hands, Stage
  <2>4. \A q \in Participants : Account(q)'
    BY <1>4, <1>0 DEF DropRead, Account, wallet
  <2> QED
    BY <1>4, <2>2, <2>3, <2>4 DEF DropRead, MayStart

<1>5. ASSUME NEW t \in Tasks, NEW p \in Participants, ZapExpect(t, p) PROVE Good(t)
  <2>1. job[t].pc # "idle" /\ job[t].who = p
    BY <1>5 DEF ZapExpect, At
  <2>2. /\ Others(t)
        /\ \/ job'[t] = Idle
           \/ /\ job'[t].pc \in {"credit"}
              /\ job'[t].who = p /\ job'[t].todo = job[t].todo
    BY <1>5, <1>0, <1>c, <2>1, FinishEffect, GoToEffect DEF ZapExpect, At
  <2>3. Hands(t)'
    BY <1>5, <1>0, <1>a, <1>b, <2>1, <2>2 DEF ZapExpect, Hands, Stage, At, Idle
  <2>4. \A q \in Participants : Account(q)'
    BY <1>5, <1>0, <1>a, <2>1 DEF ZapExpect, Account, At, wallet
  <2> QED
    BY <2>1, <2>2, <2>3, <2>4

<1>6. ASSUME NEW t \in Tasks, NEW p \in Participants, Credit(t, p) PROVE Good(t)
  <2>1. job[t].pc # "idle" /\ job[t].who = p
    BY <1>6 DEF Credit, At
  <2>2. Others(t) /\ job'[t] = Idle
    BY <1>6, <1>0, <1>c, <2>1, FinishEffect DEF Credit, At
  <2>5. /\ \A q \in Participants : q # p => row'[q] = row[q]
        /\ row[p].st = "committed" /\ row'[p].st = "paid"
    BY <1>6, <1>0, <1>a, <2>1 DEF Credit, At, Hands, Stage, Rows
  <2>3. Hands(t)'
    BY <1>6, <1>0, <1>a, <1>b, <2>1, <2>2, <2>5 DEF Credit, Hands, Stage, At, Idle
  <2>4. \A q \in Participants : Account(q)'
    BY <1>6, <1>0, <1>a, <2>1, <2>5 DEF Credit, Account, At, wallet, Stage, Hands, Live
  <2> QED
    BY <2>1, <2>2, <2>3, <2>4

<1>7. ASSUME NEW t \in Tasks, NEW p \in Participants, LateZap(t, p) PROVE Good(t)
  <2>1. job[t].pc # "idle" /\ job[t].who = p
    BY <1>7 DEF LateZap, At
  <2>2. Others(t) /\ job'[t] = Idle
    BY <1>7, <1>0, <1>c, <2>1, FinishEffect DEF LateZap, At
  <2>3. Hands(t)'
    BY <1>7, <1>0, <1>a, <1>b, <2>1, <2>2 DEF LateZap, Hands, Stage, At, Idle
  <2>4. \A q \in Participants : Account(q)'
    BY <1>7, <1>0, <1>a, <2>1 DEF LateZap, Account, At, wallet, Stage, Hands, Live
  <2> QED
    BY <2>1, <2>2, <2>3, <2>4

<1>8. ASSUME NEW t \in Tasks, NEW p \in Participants, ExitGate(t, p) PROVE Good(t)
  <2>1. job[t].pc # "idle" /\ job[t].who = p
    BY <1>8 DEF ExitGate, At
  <2>2. /\ Others(t)
        /\ \/ job'[t] = Idle
           \/ /\ job'[t].pc \in {"release"}
              /\ job'[t].who = p /\ job'[t].todo = job[t].todo
    BY <1>8, <1>0, <1>c, <2>1, FinishEffect, GoToEffect DEF ExitGate, At
  <2>3. Hands(t)'
    BY <1>8, <1>0, <1>a, <1>b, <2>1, <2>2 DEF ExitGate, Hands, Stage, At, Idle
  <2>4. \A q \in Participants : Account(q)'
    BY <1>8, <1>0, <1>a, <2>1 DEF ExitGate, Account, At, wallet
  <2> QED
    BY <2>1, <2>2, <2>3, <2>4

<1>9. ASSUME NEW t \in Tasks, NEW p \in Participants, DropFresh(t, p) PROVE Good(t)
  <2>1. job[t].pc # "idle" /\ job[t].who = p
    BY <1>9 DEF DropFresh, At
  <2>2. /\ Others(t)
        /\ \/ job'[t] = Idle
           \/ /\ job'[t].pc \in {"release"}
              /\ job'[t].who = p /\ job'[t].todo = job[t].todo
    BY <1>9, <1>0, <1>c, <2>1, FinishEffect, GoToEffect DEF DropFresh, At
  <2>3. Hands(t)'
    BY <1>9, <1>0, <1>a, <1>b, <2>1, <2>2 DEF DropFresh, Hands, Stage, At, Idle, Live, Settled
  <2>4. \A q \in Participants : Account(q)'
    BY <1>9, <1>0, <1>a, <2>1 DEF DropFresh, Account, At, wallet
  <2> QED
    BY <2>1, <2>2, <2>3, <2>4

<1>10. ASSUME NEW t \in Tasks, NEW p \in Participants, Release(t, p) PROVE Good(t)
  <2>1. job[t].pc # "idle" /\ job[t].who = p
    BY <1>10 DEF Release, At
  <2>2. /\ Others(t) /\ job'[t].pc \in {"check", "close"}
        /\ job'[t].who = p /\ job'[t].todo = job[t].todo
    BY <1>10, <1>0, <1>c, <2>1, GoToEffect DEF Release, At
  <2>5. \A q \in Participants : row'[q].st = row[q].st
    BY <1>10, <1>a DEF Release, Rows
  <2>3. Hands(t)'
    BY <1>10, <1>0, <1>a, <1>b, <2>1, <2>2, <2>5 DEF Release, Hands, Stage, At
  <2>4. \A q \in Participants : Account(q)'
    BY <1>10, <1>0, <1>a, <2>1, <2>5 DEF Release, Account, At, wallet
  <2> QED
    BY <2>1, <2>2, <2>3, <2>4

<1>11. ASSUME NEW t \in Tasks, NEW p \in Participants, Check(t, p) PROVE Good(t)
  <2>1. job[t].pc # "idle" /\ job[t].who = p
    BY <1>11 DEF Check, At
  <2>2. /\ Others(t) /\ job'[t].todo = job[t].todo
        /\ \/ job'[t].pc \in {"next", "scrub"} /\ job'[t].who \in {Nobody, p}
           \/ /\ job'[t].pc = "intend" /\ job'[t].who = p
              /\ row[p].st \notin Settled
    BY <1>11, <1>0, <1>c, <2>1, GoToEffect, AfterEffect DEF Check, At
  <2>6. /\ p \notin job[t].todo
        /\ \A q \in job[t].todo : q \in Participants /\ row[q].st \in Live
        /\ row' = row /\ row[p].st \in Live
    BY <1>11, <1>0, <1>a, <2>1 DEF Check, Hands, Stage, At, Jobs, Account, wallet, Live
  <2>3. Hands(t)'
    BY <1>b, <2>2, <2>6 DEF Hands, Stage
  <2>4. \A q \in Participants : Account(q)'
    BY <1>11, <1>0, <1>a, <2>1 DEF Check, Account, At, wallet
  <2> QED
    BY <2>1, <2>2, <2>3, <2>4

<1>12. ASSUME NEW t \in Tasks, NEW p \in Participants, Intend(t, p) PROVE Good(t)
  <2>1. job[t].pc # "idle" /\ job[t].who = p
    BY <1>12 DEF Intend, At
  <2>2. /\ Others(t) /\ job'[t].pc \in {"pay"}
        /\ job'[t].who = p /\ job'[t].todo = job[t].todo
    BY <1>12, <1>0, <1>c, <2>1, GoToEffect DEF Intend, At
  <2>5. /\ \A q \in Participants : row'[q].st = IF q = p /\ row[p].st # "none" THEN "refunding" ELSE row[q].st
    BY <1>12, <1>0, <1>a, WriteEffect DEF Intend, OtherRows, Live, Settled
  <2>6. /\ p \notin job[t].todo
        /\ \A q \in job[t].todo : q \in Participants /\ row[q].st \in Live
        /\ row[p].st \in Live /\ row[p].st # "none" /\ asked' = asked /\ asked[p] = 0
    BY <1>12, <1>0, <1>a, <2>1 DEF Intend, Hands, Stage, At, Jobs, Account, wallet, Live
  <2>3. Hands(t)'
    BY <1>b, <2>2, <2>5, <2>6 DEF Hands, Stage, Live
  <2>4. \A q \in Participants : Account(q)'
    BY <1>12, <1>0, <1>a, <2>1, <2>5 DEF Intend, Account, At, wallet, Stage, Hands, Live, Settled
  <2> QED
    BY <2>1, <2>2, <2>3, <2>4

<1>13. ASSUME NEW t \in Tasks, NEW p \in Participants, Record(t, p) PROVE Good(t)
  <2>1. job[t].pc # "idle" /\ job[t].who = p
    BY <1>13 DEF Record, At
  <2>2. /\ Others(t) /\ job'[t].todo = job[t].todo
        /\ job'[t].pc \in {"next", "scrub"} /\ job'[t].who \in {Nobody, p}
    BY <1>13, <1>0, <1>c, <2>1, AfterEffect DEF Record, At
  <2>5. /\ \A q \in Participants : q # p => row'[q] = row[q]
        /\ row'[p].st = IF job[t].ok THEN "refunded" ELSE "refund_failed"
    BY <1>13, <1>0, <1>a, <2>1, WriteEffect DEF Record, OtherRows, Live, Settled, Hands, Stage, At
  <2>6. /\ p \notin job[t].todo
        /\ \A q \in job[t].todo : q \in Participants /\ row[q].st \in Live
        /\ row[p].st = "refunding"
    BY <1>13, <1>0, <1>a, <2>1 DEF Record, Hands, Stage, At, Jobs, Account, wallet, Live
  <2>3. Hands(t)'
    BY <1>b, <2>2, <2>5, <2>6 DEF Hands, Stage, Live
  <2>4. \A q \in Participants : Account(q)'
    BY <1>13, <1>0, <1>a, <2>1, <2>5 DEF Record, Account, At, wallet, Stage, Hands, Live
  <2> QED
    BY <2>1, <2>2, <2>3, <2>4

<1>14. ASSUME NEW t \in Tasks, NEW p \in Participants, Close(t, p) PROVE Good(t)
  <2>1. job[t].pc # "idle" /\ job[t].who = p
    BY <1>14 DEF Close, At
  <2>2. /\ Others(t) /\ job'[t].todo = job[t].todo
        /\ job'[t].pc \in {"next", "scrub"} /\ job'[t].who \in {Nobody, p}
    BY <1>14, <1>0, <1>c, <2>1, AfterEffect DEF Close, At
  <2>5. /\ \A q \in Participants : row'[q].st = IF q = p /\ row[p].st # "none" THEN "cancelled" ELSE row[q].st
    BY <1>14, <1>0, <1>a, WriteEffect DEF Close, OtherRows, Live, Settled
  <2>6. /\ p \notin job[t].todo
        /\ \A q \in job[t].todo : q \in Participants /\ row[q].st \in Live
        /\ row[p].st \in Live
    BY <1>14, <1>0, <1>a, <2>1 DEF Close, Hands, Stage, At, Jobs, Account, wallet, Live
  <2>3. Hands(t)'
    BY <1>b, <2>2, <2>5, <2>6 DEF Hands, Stage, Live
  <2>4. \A q \in Participants : Account(q)'
    BY <1>14, <1>0, <1>a, <2>1, <2>5 DEF Close, Account, At, wallet, Stage, Hands, Live
  <2> QED
    BY <2>1, <2>2, <2>3, <2>4

<1>15. ASSUME NEW t \in Tasks, NEW p \in Participants, Scrub(t, p) PROVE Good(t)
  <2>1. job[t].pc # "idle" /\ job[t].who = p
    BY <1>15 DEF Scrub, At
  <2>2. /\ Others(t)
        /\ \/ job'[t] = Idle
           \/ /\ \/ job'[t].pc = "owe" /\ Indebted(p)
                 \/ job'[t].pc = "delete"
              /\ job'[t].who = p /\ job'[t].todo = job[t].todo
    BY <1>15, <1>0, <1>c, <2>1, FinishEffect, GoToEffect DEF Scrub, At
  <2>3. Hands(t)'
    BY <1>15, <1>0, <1>a, <1>b, <2>1, <2>2 DEF Scrub, Hands, Stage, At, Idle, Indebted
  <2>4. \A q \in Participants : Account(q)'
    BY <1>15, <1>0, <1>a, <2>1 DEF Scrub, Account, At, wallet
  <2> QED
    BY <2>1, <2>2, <2>3, <2>4

<1>16. ASSUME NEW t \in Tasks, NEW p \in Participants, Owe(t, p) PROVE Good(t)
  <2>1. job[t].pc # "idle" /\ job[t].who = p
    BY <1>16 DEF Owe, At
  <2>2. /\ Others(t) /\ job'[t].pc \in {"delete"}
        /\ job'[t].who = p /\ job'[t].todo = job[t].todo
    BY <1>16, <1>0, <1>c, <2>1, GoToEffect DEF Owe, At
  <2>3. Hands(t)'
    BY <1>16, <1>0, <1>a, <1>b, <2>1, <2>2 DEF Owe, Hands, Stage, At
  <2>4. \A q \in Participants : Account(q)'
    BY <1>16, <1>0, <1>a, <2>1 DEF Owe, Account, At, wallet, Stage, Hands, Live
  <2> QED
    BY <2>1, <2>2, <2>3, <2>4

<1>17. ASSUME NEW t \in Tasks, NEW p \in Participants, Delete(t, p) PROVE Good(t)
  <2>1. job[t].pc # "idle" /\ job[t].who = p
    BY <1>17 DEF Delete, At
  <2>2. Others(t) /\ job'[t] = Idle
    BY <1>17, <1>0, <1>c, <2>1, FinishEffect DEF Delete, At
  <2>5. \A q \in Participants : row'[q].st = IF q = p THEN "none" ELSE row[q].st
    BY <1>17, <1>a DEF Delete, Rows, NoRow
  <2>3. Hands(t)'
    BY <1>17, <1>0, <1>a, <1>b, <2>1, <2>2, <2>5 DEF Delete, Hands, Stage, At, Idle
  <2>4. \A q \in Participants : Account(q)'
    BY <1>17, <1>0, <1>a, <2>1, <2>5 DEF Delete, Account, At, wallet, Live
  <2> QED
    BY <2>1, <2>2, <2>3, <2>4

<1>18. ASSUME NEW t \in Tasks, NEW p \in Participants, CancelNext(t, p) PROVE Good(t)
  <2>1. job[t].pc # "idle" /\ p \in job[t].todo
    BY <1>18 DEF CancelNext
  <2>2. /\ Others(t) /\ job'[t].pc \in {"check", "close"} /\ job'[t].who = p
        /\ job'[t].todo = job[t].todo \ {p}
    BY <1>18, <1>0, NextEffect
  <2>3. Hands(t)'
    BY <1>18, <1>0, <2>1, <2>2 DEF CancelNext, Hands, Stage
  <2>4. \A q \in Participants : Account(q)'
    BY <1>18, <1>0 DEF CancelNext, Account, wallet
  <2> QED
    BY <2>1, <2>2, <2>3, <2>4

<1>19. ASSUME NEW t \in Tasks, NEW p \in Participants, Pay(t, p) PROVE Good(t)
  <2>1. job[t].pc # "idle" /\ job[t].who = p
    BY <1>19 DEF Pay, At
  <2>2. /\ Others(t) /\ job'[t].pc = "record" /\ job'[t].who = p
        /\ job'[t].todo = job[t].todo
    BY <1>19, <1>0, PayEffect
  <2>3. row[p].st = "refunding" /\ asked[p] = 0 /\ payout[p] = 0
    BY <1>19, <1>0, <1>a, <2>1 DEF Pay, At, Hands, Stage, Account
  <2>4. /\ \A q \in Participants : q # p => asked'[q] = asked[q] /\ payout'[q] = payout[q]
        /\ asked'[p] = 1
        /\ payout'[p] = 0 \/ (payout'[p] = 1 /\ (job'[t].ok \/ p \in LostAnswers))
    <3>1. asked \in [Participants -> Nat] /\ payout \in [Participants -> Nat]
      BY <1>0 DEF TypeOK
    <3>2. asked' = [asked EXCEPT ![p] = @ + 1]
      BY <1>19, <1>0, PayEffect
    <3>3. \/ payout' = payout
          \/ (payout' = [payout EXCEPT ![p] = @ + 1] /\ (job'[t].ok \/ p \in LostAnswers))
      BY <1>19, <1>0, PayEffect
    <3>4. /\ \A q \in Participants : q # p => asked'[q] = asked[q]
          /\ asked'[p] = 1
      BY <2>3, <3>1, <3>2
    <3>5. /\ \A q \in Participants : q # p => payout'[q] = payout[q]
          /\ payout'[p] = 0 \/ (payout'[p] = 1 /\ (job'[t].ok \/ p \in LostAnswers))
      <4>1. CASE payout' = payout
        <5>1. \A q \in Participants : payout'[q] = payout[q]
          BY <4>1
        <5> QED
          BY <2>3, <5>1
      <4>2. CASE /\ payout' = [payout EXCEPT ![p] = @ + 1]
                 /\ job'[t].ok \/ p \in LostAnswers
        BY <2>3, <3>1, <4>2
      <4> QED
        BY <3>3, <4>1, <4>2
    <3> QED
      BY <3>4, <3>5
  <2>5. Hands(t)'
    BY <1>19, <1>0, <2>1, <2>2, <2>3, <2>4 DEF Pay, Hands, Stage
  <2>6. \A q \in Participants : Account(q)'
    <3> SUFFICES ASSUME NEW q \in Participants PROVE Account(q)'
      OBVIOUS
    <3>1. CASE q = p
      BY <1>19, <1>0, <2>3, <2>4, <3>1 DEF Pay, Account, Live
    <3>2. CASE q # p
      BY <1>19, <1>0, <2>4, <3>2 DEF Pay, Account
    <3> QED
      BY <3>1, <3>2
  <2> QED
    BY <2>1, <2>2, <2>5, <2>6

<1>20. ASSUME NEW t \in Tasks, Debts(t) PROVE Good(t)
  <2>1. job[t].pc # "idle" /\ job[t].todo = {}
    BY <1>20 DEF Debts
  <2>2. Others(t) /\ job'[t].pc = "destroy" /\ job'[t].todo = {} /\ job'[t].who = job[t].who
    BY <1>20, <1>0, <2>1, GoToEffect DEF Debts, Steps
  <2>3. Hands(t)'
    BY <1>20, <2>2 DEF Hands, Stage
  <2>4. \A q \in Participants : Account(q)'
    BY <1>20, <1>0, <1>a DEF Debts, Account, Indebted, wallet, Live
  <2> QED
    BY <2>1, <2>2, <2>3, <2>4

<1>21. ASSUME NEW t \in Tasks, Destroy(t) PROVE Good(t)
  <2>1. job[t].pc # "idle"
    BY <1>21 DEF Destroy
  <2>2. Others(t) /\ job'[t] = Idle
    BY <1>21, <1>0, FinishEffect DEF Destroy
  <2>3. Hands(t)'
    BY <1>b, <2>2 DEF Hands, Idle
  <2>4. \A q \in Participants : row'[q].st = "none"
    BY <1>21 DEF Destroy, NoRow
  <2>5. \A q \in Participants : Account(q)'
    BY <1>21, <1>0, <2>4 DEF Destroy, Account, wallet, Live
  <2> QED
    BY <2>1, <2>2, <2>3, <2>5

<1>22. ASSUME NEW t \in Tasks, Abort(t) PROVE Good(t)
  <2>1. Others(t) /\ job'[t] = Idle
    BY <1>22, <1>0, FinishEffect DEF Abort
  <2>2. Hands(t)'
    BY <1>b, <2>1 DEF Hands, Idle
  <2>3. \A q \in Participants : Account(q)'
    BY <1>22, <1>0 DEF Abort, Account, wallet
  <2> QED
    BY <1>22, <2>1, <2>2, <2>3 DEF Abort

<1>23. ASSUME CancelRead PROVE Good("loop")
  <2>1. /\ Others("loop") /\ job'["loop"].pc = "next" /\ job'["loop"].who = Nobody
        /\ job'["loop"].todo = {p \in Participants : row[p].st \notin Settled}
    BY <1>23, <1>0, CancelEffect
  <2>2. Hands("loop")'
    BY <1>23, <1>a, <1>b, <2>1 DEF CancelRead, Hands, Stage
  <2>3. \A q \in Participants : Account(q)'
    BY <1>23, <1>0 DEF CancelRead, Account, wallet
  <2> QED
    BY <1>23, <2>1, <2>2, <2>3 DEF CancelRead, MayStart

<1>24. ASSUME NEW t \in Tasks, Good(t) PROVE RefundInv'
  <2>1. Serial' /\ \A u \in Tasks : Hands(u)'
    BY <1>0, <1>24, Alone
  <2> QED
    BY <1>0, <1>24, <2>1 DEF RefundInv
<1>25. CASE Advance \/ UNCHANGED vars
  BY <1>0, <1>25 DEF Advance, vars, RefundInv, Serial, Hands, Stage, Account,
     wallet, books
<1> HIDE DEF Good
<1> QED
  BY <1>0, <1>1, <1>2, <1>3, <1>4, <1>5, <1>6, <1>7, <1>8, <1>9, <1>10, <1>11, <1>12, <1>13, <1>14, <1>15, <1>16, <1>17, <1>18, <1>19, <1>20, <1>21, <1>22, <1>23, <1>24, <1>25 DEF Next, Begin, Continue, Over

\* Every other step leaves the wallet and the debts alone.
LEMMA Untouched ==
  ASSUME [Next]_vars,
         ~ \E t \in Tasks, p \in Participants : Pay(t, p) \/ LateZap(t, p) \/ Owe(t, p),
         ~ \E t \in Tasks : Debts(t)
  PROVE  asked' = asked /\ payout' = payout /\ owed' = owed
<1>1. ASSUME NEW p \in Participants, Begin(p)
      PROVE  asked' = asked /\ payout' = payout /\ owed' = owed
  BY <1>1 DEF Begin, ZapRead, ExitRead, Timeout, DropRead, wallet
<1>2. ASSUME NEW t \in Tasks, NEW p \in Participants, Continue(t, p)
      PROVE  asked' = asked /\ payout' = payout /\ owed' = owed
  <2>1. CASE ZapExpect(t, p)
    BY <2>1 DEF ZapExpect, wallet
  <2>2. CASE Credit(t, p)
    BY <2>2 DEF Credit, wallet
  <2>3. CASE ExitGate(t, p)
    BY <2>3 DEF ExitGate, wallet
  <2>4. CASE DropFresh(t, p)
    BY <2>4 DEF DropFresh, wallet
  <2>5. CASE CancelNext(t, p)
    BY <2>5 DEF CancelNext, wallet
  <2>6. CASE Release(t, p)
    BY <2>6 DEF Release, wallet
  <2>7. CASE Check(t, p)
    BY <2>7 DEF Check, wallet
  <2>8. CASE Intend(t, p)
    BY <2>8 DEF Intend, wallet
  <2>9. CASE Record(t, p)
    BY <2>9 DEF Record, wallet
  <2>10. CASE Close(t, p)
    BY <2>10 DEF Close, wallet
  <2>11. CASE Scrub(t, p)
    BY <2>11 DEF Scrub, wallet
  <2>12. CASE Delete(t, p)
    BY <2>12 DEF Delete, wallet
  <2> QED
    BY <1>2, <2>1, <2>2, <2>3, <2>4, <2>5, <2>6, <2>7, <2>8, <2>9, <2>10, <2>11, <2>12 DEF Continue
<1>3. ASSUME NEW t \in Tasks, Destroy(t) \/ Abort(t)
      PROVE  asked' = asked /\ payout' = payout /\ owed' = owed
  BY <1>3 DEF Destroy, Abort, wallet
<1>4. CASE CancelRead \/ Advance \/ UNCHANGED vars
  BY <1>4 DEF CancelRead, Advance, vars, wallet
<1> QED
  BY <1>1, <1>2, <1>3, <1>4 DEF Next, Over

LEMMA InvInit == Init => RefundInv
<1> SUFFICES ASSUME Init PROVE RefundInv
  OBVIOUS
<1>1. TypeOK
  BY TypeInit
<1>2. \A t \in Tasks : job[t] = Idle
  BY DEF Init
<1>3. Serial
  BY <1>2 DEF Serial, Idle
<1>4. \A t \in Tasks : Hands(t)
  <2>1. \A t \in Tasks, p \in Participants : job[t].who # p
    BY <1>2, RefundsAssumption DEF Idle
  <2>2. \A t \in Tasks : job[t].todo = {} /\ job[t].pc = "idle"
    BY <1>2 DEF Idle
  <2> QED
    BY <1>2, <2>1, <2>2 DEF Hands
<1>5. \A p \in Participants : Account(p)
  <2>1. \A p \in Participants : row[p].st \in Live
    BY DEF Init
  <2> QED
    BY <2>1 DEF Init, Account, Live
<1> QED
  BY <1>1, <1>3, <1>4, <1>5 DEF RefundInv

\* As long as the event loop and a handler do not run at the same time, the
\* books agree with the rows and each task knows what it needs to know of the
\* row in hand, whatever is aborted and called again.
THEOREM RefundInvariant ==
  ASSUME ~Overlap
  PROVE  Spec => []RefundInv
  BY InvInit, InvStep, PTL DEF Spec

\* Then the wallet pays each participant at most once, and nobody is owed what
\* was paid (_safe_refund, "crash-resume defence against double payouts").
THEOREM OnePayout ==
  ASSUME ~Overlap
  PROVE  Spec => []SinglePayout
<1>1. RefundInv => SinglePayout
  <2> SUFFICES ASSUME RefundInv, NEW p \in Participants
               PROVE  /\ payout[p] <= 1
                      /\ p \in owed => payout[p] = 0 \/ p \in LostAnswers
    BY DEF SinglePayout
  <2>1. Account(p) /\ asked[p] \in Nat /\ payout[p] \in Nat
    BY DEF RefundInv, TypeOK
  <2> QED
    BY <2>1 DEF Account
<1> QED
  BY <1>1, RefundInvariant, PTL

\* A wallet call finds its intent on disk (_safe_refund, "Commit the intent
\* BEFORE the network call").
THEOREM IntentOnDisk ==
  ASSUME ~Overlap
  PROVE  Spec => IntentFirst
<1> DEFINE Asked == \A p \in Participants : asked'[p] # asked[p] => row[p].st = "refunding"
<1>1. ASSUME RefundInv, [Next]_vars PROVE [Asked]_vars
  <2>1. CASE \E t \in Tasks, p \in Participants : Pay(t, p)
    <3>1. PICK t \in Tasks, p \in Participants : Pay(t, p)
      BY <2>1
    <3>2. row[p].st = "refunding"
      BY <1>1, <3>1 DEF RefundInv, Hands, Stage, Pay, At
    <3>3. \A q \in Participants : q # p => asked'[q] = asked[q]
      BY <1>1, <3>1 DEF RefundInv, TypeOK, Pay
    <3> QED
      BY <3>2, <3>3
  <2>2. CASE ~(\E t \in Tasks, p \in Participants : Pay(t, p))
    <3>1. asked' = asked
      <4>1. CASE \E t \in Tasks, p \in Participants : LateZap(t, p) \/ Owe(t, p)
        BY <4>1 DEF LateZap, Owe, wallet
      <4>2. CASE \E t \in Tasks : Debts(t)
        BY <4>2 DEF Debts, wallet
      <4> QED
        BY <1>1, <2>2, <4>1, <4>2, Untouched
    <3> QED
      BY <3>1
  <2> QED
    BY <2>1, <2>2
<1> QED
  BY <1>1, RefundInvariant, PTL DEF Spec, IntentFirst

LEMMA LedgerStep ==
  ASSUME RefundInv, [Next]_vars
  PROVE  [Ledger!Next]_(Ledger!ledger)
<1>1. /\ TypeOK
      /\ \A t \in Tasks : Hands(t)
      /\ \A p \in Participants : Account(p)
  BY DEF RefundInv
<1>2. ASSUME NEW t \in Tasks, NEW p \in Participants, Pay(t, p)
      PROVE  Ledger!Ask(p)
  <2>1. row[p].st = "refunding" /\ asked[p] = 0
    BY <1>1, <1>2 DEF Hands, Stage, Pay, At
  <2>2. p \notin owed /\ payout[p] = 0
    BY <1>1, <2>1 DEF Account, TypeOK
  <2>3. asked' = [asked EXCEPT ![p] = 1]
    BY <1>1, <1>2, <2>1, PayEffect
  <2>4. payout' = payout \/ payout' = [payout EXCEPT ![p] = 1]
    BY <1>1, <1>2, <2>2, PayEffect
  <2>5. owed' = owed
    BY <1>2 DEF Pay
  <2> QED
    BY <2>1, <2>2, <2>3, <2>4, <2>5 DEF Ledger!Ask
<1>3. ASSUME NEW t \in Tasks, NEW p \in Participants, LateZap(t, p) \/ Owe(t, p)
      PROVE  Ledger!Owe({p})
  <2>1. row[p].st \in {"cancelled", "refund_failed"}
    BY <1>1, <1>3 DEF Hands, Stage, LateZap, Owe, At
  <2>2. payout[p] = 0 \/ p \in LostAnswers
    BY <1>1, <2>1 DEF Account, TypeOK
  <2> QED
    BY <1>3, <2>2 DEF Ledger!Owe, LateZap, Owe, wallet
<1>4. ASSUME NEW t \in Tasks, Debts(t)
      PROVE  Ledger!Owe({p \in Participants : Indebted(p)})
  <2>1. \A p \in Participants : Indebted(p) => payout[p] = 0 \/ p \in LostAnswers
    BY <1>1 DEF Account, Indebted
  <2> QED
    BY <1>4, <2>1 DEF Ledger!Owe, Debts, wallet
<1>5. CASE \E t \in Tasks, p \in Participants : Pay(t, p)
  BY <1>2, <1>5 DEF Ledger!Next
<1>6. CASE \E t \in Tasks, p \in Participants : LateZap(t, p) \/ Owe(t, p)
  <2>1. \A p \in Participants : {p} \in SUBSET Participants
    OBVIOUS
  <2> QED
    BY <1>3, <1>6, <2>1 DEF Ledger!Next
<1>7. CASE \E t \in Tasks : Debts(t)
  <2>1. {p \in Participants : Indebted(p)} \in SUBSET Participants
    OBVIOUS
  <2> QED
    BY <1>4, <1>7, <2>1 DEF Ledger!Next
<1>8. CASE /\ ~ \E t \in Tasks, p \in Participants :
                   Pay(t, p) \/ LateZap(t, p) \/ Owe(t, p)
           /\ ~ \E t \in Tasks : Debts(t)
  <2>1. asked' = asked /\ payout' = payout /\ owed' = owed
    BY <1>8, Untouched
  <2> QED
    BY <2>1 DEF Ledger!ledger
<1> QED
  BY <1>5, <1>6, <1>7, <1>8

\* Under the same assumption the whole refund code implements RefundLedger: one
\* attempt per participant, and debts only for what was not seen to settle.
THEOREM LedgerKept ==
  ASSUME ~Overlap
  PROVE  Spec => KeepsLedger
<1>1. Init => Ledger!Init
  BY DEF Init, Ledger!Init
<1> QED
  BY <1>1, LedgerStep, RefundInvariant, PTL DEF Spec, KeepsLedger, Ledger!Spec

-----------------------------------------------------------------------------
\* The invariant behind FeeAccounted.
Accounted(p) == payout[p] = 1 \/ p \in owed \cup flagged

\* The row of a participant whose payment was accepted has the fee on it, and
\* goes, or is closed, only once the payment is accounted for.
Kept(p) ==
  p \in taken =>
    /\ row[p].st # "committed"
    /\ row[p].st # "none" => row[p].fee
    /\ row[p].st = "refunded" => payout[p] = 1
    /\ row[p].st \in {"cancelled", "none"} => Accounted(p)

\* What a busy task holds is no older than the rows: it has seen every fee, a
\* payout that the wallet reported was made, and the cancellation has yet to
\* treat whoever is live.  Before rows go, their payments are accounted for.
Seen(t) ==
  job[t].pc # "idle" =>
    /\ Fees \subseteq job[t].fees
    /\ job[t].pc \in {"next", "destroy"} => job[t].call = "cancel"
    /\ job[t].pc = "next" => job[t].who = Nobody
    /\ job[t].call = "cancel" =>
         \A p \in Participants : row[p].st \in Live => p \in job[t].todo \cup {job[t].who}
    /\ \A p \in Participants : job[t].who = p =>
         /\ job[t].pc = "record" /\ job[t].ok => payout[p] = 1
         /\ job[t].pc = "delete" /\ p \in taken => Accounted(p)
    /\ job[t].pc = "destroy" => \A p \in taken : Accounted(p)

AccountInv ==
  /\ RefundInv
  /\ \A p \in Participants : Kept(p)
  /\ \A t \in Tasks : Seen(t)

\* Nothing that is accounted for is forgotten.
LEMMA Remembered ==
  ASSUME payout \in [Participants -> Nat],
         \/ payout' = payout
         \/ \E p \in Participants : payout[p] = 0 /\ payout' = [payout EXCEPT ![p] = @ + 1],
         owed \subseteq owed', flagged \subseteq flagged',
         NEW q \in Participants, Accounted(q)
  PROVE  Accounted(q)'
<1>1. CASE q \in owed \cup flagged
  BY <1>1 DEF Accounted
<1>2. CASE payout[q] = 1
  <2>1. payout'[q] = 1
    BY <1>2
  <2> QED
    BY <2>1 DEF Accounted
<1> QED
  BY <1>1, <1>2 DEF Accounted

\* Starting on a participant, a task has seen the fees there are.
LEMMA Starts ==
  ASSUME TypeOK, NEW t \in Tasks, NEW call \in Calls \ {"cancel"},
         NEW pc \in Steps \ {"next", "destroy", "record", "delete"},
         NEW p \in Participants, Start(t, call, pc, p), row' = row
  PROVE  Seen(t)'
<1>1. /\ job'[t].pc = pc /\ job'[t].call = call /\ job'[t].fees = Fees
  BY StartEffect
<1>2. Fees' = Fees
  BY DEF Fees
<1> QED
  BY <1>1, <1>2 DEF Seen

\* A task that goes on has seen what it had, as long as no row is live that was not.
LEMMA GoesOn ==
  ASSUME TypeOK, NEW t \in Tasks, job[t].pc # "idle", Seen(t),
         job'[t].call = job[t].call, job'[t].fees = job[t].fees,
         job'[t].todo = job[t].todo, job'[t].who = job[t].who,
         job'[t].pc \notin {"next", "destroy", "record", "delete"},
         \A q \in Participants : /\ row'[q].fee => row[q].fee
                                 /\ row'[q].st \in Live => row[q].st \in Live
  PROVE  Seen(t)'
<1>1. Fees' \subseteq Fees
  BY DEF Fees
<1> QED
  BY <1>1 DEF Seen

\* Every step keeps that, one task at a time.
LEMMA AccountStep ==
  ASSUME AccountInv, [Next]_vars, ~Overlap
  PROVE  AccountInv'
<1> DEFINE Good(t) == /\ Others(t)
                      /\ job[t].pc # "idle" \/ \A u \in Tasks : job[u].pc = "idle"
                      /\ Seen(t)' /\ \A q \in Participants : Kept(q)'
<1>0. /\ RefundInv /\ RefundInv' /\ TypeOK /\ Serial
      /\ \A t \in Tasks : Hands(t) /\ Seen(t)
      /\ \A p \in Participants : Account(p) /\ Kept(p)
      /\ "loop" \in Tasks /\ "handler" \in Tasks
  BY InvStep DEF AccountInv, RefundInv, Tasks
<1>a. /\ asked \in [Participants -> Nat] /\ payout \in [Participants -> Nat]
      /\ row \in Rows /\ taken \subseteq Participants
      /\ \A p \in Participants : row[p].st \in Live \cup Settled
      /\ \A t \in Tasks : job[t] \in Jobs
  BY <1>0 DEF TypeOK, Rows
<1>b. Nobody \notin Participants /\ Payable \subseteq Participants
  BY RefundsAssumption
<1>c. {"release", "check", "intend", "pay", "owe", "delete", "close", "credit",
       "expect", "late", "gate", "fresh", "destroy"} \subseteq Steps
  BY DEF Steps
<1>s. ASSUME row' = row, taken' = taken, UNCHANGED wallet, owed \subseteq owed',
             flagged \subseteq flagged'
      PROVE  \A q \in Participants : Kept(q)'
  BY <1>0, <1>s DEF Kept, Accounted, wallet

<1>1. ASSUME NEW p \in Participants, Begin(p) PROVE Good("loop") \/ Good("handler")
  <2>1. {"zap", "exit", "timeout", "drop"} \subseteq Calls \ {"cancel"}
    BY DEF Calls
  <2>2. \A q \in Participants : Kept(q)'
    BY <1>1, <1>s DEF Begin, ZapRead, ExitRead, Timeout, DropRead, books
  <2>3. CASE ZapRead(p) \/ ExitRead(p)
    <3>1. Others("handler")
      BY <1>0, <1>c, <2>1, <2>3, StartEffect DEF ZapRead, ExitRead
    <3>2. Seen("handler")'
      BY <1>0, <1>c, <2>1, <2>3, Starts DEF ZapRead, ExitRead
    <3> QED
      BY <2>2, <2>3, <3>1, <3>2 DEF ZapRead, ExitRead, MayStart
  <2>4. CASE Timeout(p) \/ DropRead(p)
    <3>1. Others("loop")
      BY <1>0, <1>c, <2>1, <2>4, StartEffect DEF Timeout, DropRead
    <3>2. Seen("loop")'
      BY <1>0, <1>c, <2>1, <2>4, Starts DEF Timeout, DropRead
    <3> QED
      BY <2>2, <2>4, <3>1, <3>2 DEF Timeout, DropRead, MayStart
  <2> QED
    BY <1>1, <2>3, <2>4 DEF Begin

<1>2. ASSUME NEW t \in Tasks, Finish(t), job[t].pc # "idle"
      PROVE  Others(t) /\ Seen(t)'
  BY <1>0, <1>2, FinishEffect DEF Seen, Idle
<1>3. ASSUME NEW t \in Tasks, NEW p \in Participants, Continue(t, p)
      PROVE  job[t].pc # "idle" /\ Others(t) /\ (job[t].who = p \/ CancelNext(t, p))
  <2>1. job[t].pc # "idle" /\ (job[t].who = p \/ CancelNext(t, p))
    BY <1>3 DEF Continue, ZapExpect, Credit, LateZap, ExitGate, DropFresh, CancelNext,
       Release, Check, Intend, Pay, Record, Close, Scrub, Owe, Delete, At
  <2>2. CASE ZapExpect(t, p) \/ ExitGate(t, p) \/ DropFresh(t, p) \/ Scrub(t, p)
    BY <2>1, <1>0, <1>c, <2>2, FinishEffect, GoToEffect DEF ZapExpect, ExitGate, DropFresh, Scrub
  <2>3. CASE Credit(t, p) \/ LateZap(t, p) \/ Delete(t, p)
    BY <2>1, <1>0, <2>3, FinishEffect DEF Credit, LateZap, Delete
  <2>4. CASE Check(t, p) \/ Record(t, p) \/ Close(t, p)
    BY <2>1, <1>0, <1>c, <2>4, AfterEffect, GoToEffect DEF Check, Record, Close
  <2>5. CASE Release(t, p) \/ Intend(t, p) \/ Owe(t, p)
    BY <2>1, <1>0, <1>c, <2>5, GoToEffect DEF Release, Intend, Owe
  <2>6. CASE CancelNext(t, p) \/ Pay(t, p)
    BY <2>1, <1>0, <2>6, NextEffect, PayEffect
  <2> QED
    BY <1>3, <2>1, <2>2, <2>3, <2>4, <2>5, <2>6 DEF Continue

<1>4. ASSUME NEW t \in Tasks, NEW p \in Participants, Continue(t, p),
             ZapExpect(t, p) \/ ExitGate(t, p) \/ DropFresh(t, p) \/ LateZap(t, p)
      PROVE  Good(t)
  <2>1. row' = row /\ \A q \in Participants : Kept(q)'
    BY <1>4, <1>s DEF ZapExpect, ExitGate, DropFresh, LateZap, books
  <2>2. CASE Finish(t)
    BY <1>2, <1>3, <1>4, <2>1, <2>2
  <2>3. CASE GoTo(t, "credit") \/ GoTo(t, "release")
    <3>1. /\ job'[t].pc \in {"credit", "release"}
          /\ job'[t].call = job[t].call /\ job'[t].fees = job[t].fees
          /\ job'[t].todo = job[t].todo /\ job'[t].who = job[t].who
      BY <1>0, <1>c, <2>3, GoToEffect
    <3>2. Seen(t)'
      BY <1>0, <1>3, <1>4, <2>1, <3>1, GoesOn
    <3> QED
      BY <1>3, <1>4, <2>1, <3>2
  <2> QED
    BY <1>4, <2>2, <2>3 DEF ZapExpect, ExitGate, DropFresh, LateZap

\* The payment is on the row before its sender hears of it.
<1>5. ASSUME NEW t \in Tasks, NEW p \in Participants, Continue(t, p), Credit(t, p)
      PROVE  Good(t)
  <2>1. row[p].st = "committed"
    BY <1>0, <1>5 DEF Credit, Hands, Stage, At
  <2>2. /\ \A q \in Participants : q # p => row'[q] = row[q]
        /\ row'[p].st = "paid" /\ row'[p].fee
    BY <1>5, <1>a, <2>1 DEF Credit, Rows
  <2>3. \A q \in Participants : Kept(q)'
    BY <1>0, <1>5, <2>2 DEF Credit, Kept, Accounted, wallet
  <2> QED
    BY <1>2, <1>3, <1>5, <2>3 DEF Credit

<1>6. ASSUME NEW t \in Tasks, NEW p \in Participants, Continue(t, p), CancelNext(t, p)
      PROVE  Good(t)
  <2>1. \A q \in Participants : Kept(q)'
    BY <1>6, <1>s DEF CancelNext, books
  <2>2. /\ job'[t].pc \in {"check", "close"} /\ job'[t].who = p
        /\ job'[t].todo = job[t].todo \ {p}
        /\ job'[t].call = job[t].call /\ job'[t].fees = job[t].fees
    BY <1>0, <1>6, NextEffect
  <2>3. job[t].pc = "next" /\ job[t].who = Nobody /\ row' = row /\ Fees' = Fees
    BY <1>0, <1>6 DEF CancelNext, Seen, Fees
  <2>4. Seen(t)'
    BY <1>0, <1>b, <2>2, <2>3 DEF Seen
  <2> QED
    BY <1>3, <1>6, <2>1, <2>4

<1>7. ASSUME NEW t \in Tasks, NEW p \in Participants, Continue(t, p), Release(t, p)
      PROVE  Good(t)
  <2>1. \A q \in Participants : row'[q].st = row[q].st /\ row'[q].fee = row[q].fee
    BY <1>7, <1>a DEF Release, Rows
  <2>2. \A q \in Participants : Kept(q)'
    BY <1>0, <1>7, <2>1 DEF Release, Kept, Accounted, wallet, books
  <2>3. /\ job'[t].pc \in {"check", "close"}
        /\ job'[t].call = job[t].call /\ job'[t].fees = job[t].fees
        /\ job'[t].todo = job[t].todo /\ job'[t].who = job[t].who
    BY <1>0, <1>7, <1>c, GoToEffect DEF Release
  <2>4. Seen(t)'
    BY <1>0, <1>3, <1>7, <2>1, <2>3, GoesOn
  <2> QED
    BY <1>3, <1>7, <2>2, <2>4

<1>8. ASSUME NEW t \in Tasks, NEW p \in Participants, Continue(t, p), Check(t, p)
      PROVE  Good(t)
  <2>1. \A q \in Participants : Kept(q)'
    BY <1>8, <1>s DEF Check, books
  <2>2. row[p].st \in Live /\ row[p].st \notin Settled
    BY <1>0, <1>8 DEF Check, Hands, Stage, At, Live, Settled
  <2>3. /\ job'[t].pc = "intend"
        /\ job'[t].call = job[t].call /\ job'[t].fees = job[t].fees
        /\ job'[t].todo = job[t].todo /\ job'[t].who = job[t].who
    BY <1>0, <1>8, <1>c, <2>2, GoToEffect DEF Check
  <2>4. Seen(t)'
    BY <1>0, <1>3, <1>8, <2>3, GoesOn DEF Check
  <2> QED
    BY <1>3, <1>8, <2>1, <2>4

<1>9. ASSUME NEW t \in Tasks, NEW p \in Participants, Continue(t, p), Intend(t, p)
      PROVE  Good(t)
  <2>1. row[p].st \in Live
    BY <1>0, <1>9 DEF Intend, Hands, Stage, At
  <2>2. /\ \A q \in Participants : q # p => row'[q] = row[q]
        /\ row'[p].st = "refunding" /\ row'[p].fee = row[p].fee
    BY <1>0, <1>9, <2>1, WriteEffect DEF Intend, OtherRows, Live, Settled
  <2>3. \A q \in Participants : Kept(q)'
    BY <1>0, <1>9, <2>1, <2>2 DEF Intend, Kept, Accounted, wallet, books, Live
  <2>4. /\ job'[t].pc = "pay"
        /\ job'[t].call = job[t].call /\ job'[t].fees = job[t].fees
        /\ job'[t].todo = job[t].todo /\ job'[t].who = job[t].who
    BY <1>0, <1>9, <1>c, GoToEffect DEF Intend
  <2>5. \A q \in Participants : /\ row'[q].fee => row[q].fee
                                /\ row'[q].st \in Live => row[q].st \in Live
    BY <2>1, <2>2
  <2>6. Seen(t)'
    BY <1>0, <1>3, <1>9, <2>4, <2>5, GoesOn
  <2> QED
    BY <1>3, <1>9, <2>3, <2>6

<1>10. ASSUME NEW t \in Tasks, NEW p \in Participants, Continue(t, p), Pay(t, p)
       PROVE  Good(t)
  <2>1. row[p].st = "refunding" /\ asked[p] = 0 /\ payout[p] = 0 /\ job[t].who = p
    BY <1>0, <1>a, <1>10 DEF Pay, At, Hands, Stage, Account
  <2>2. \A q \in Participants : Accounted(q) => Accounted(q)'
    <3>1. payout' = payout \/ payout' = [payout EXCEPT ![p] = @ + 1]
      BY <1>0, <1>10, PayEffect
    <3>2. owed' = owed /\ flagged' = flagged
      BY <1>10 DEF Pay, books
    <3> QED
      BY <1>a, <2>1, <3>1, <3>2, Remembered
  <2>3. \A q \in Participants : q # p => payout'[q] = payout[q]
    BY <1>0, <1>a, <1>10, PayEffect
  <2>4. \A q \in Participants : Kept(q)'
    BY <1>0, <1>10, <2>1, <2>2, <2>3 DEF Pay, Kept, books
  <2>5. /\ job'[t].pc = "record"
        /\ job'[t].call = job[t].call /\ job'[t].fees = job[t].fees
        /\ job'[t].todo = job[t].todo /\ job'[t].who = p
        /\ job'[t].ok => payout'[p] = 1
    BY <1>0, <1>a, <1>10, <2>1, PayEffect
  <2>6. row' = row /\ Fees' = Fees
    BY <1>10 DEF Pay, Fees
  <2>7. Seen(t)'
    BY <1>0, <1>3, <1>10, <2>1, <2>5, <2>6 DEF Seen
  <2> QED
    BY <1>3, <1>10, <2>4, <2>7

<1>11. ASSUME NEW t \in Tasks, NEW p \in Participants, Continue(t, p),
              Record(t, p) \/ Close(t, p)
       PROVE  Good(t)
  <2>1. /\ job[t].who = p /\ row[p].st \in Live \cup {"refunding"}
        /\ Record(t, p) => row[p].st = "refunding"
        /\ Close(t, p) => row[p].st \in Live
    BY <1>0, <1>11 DEF Record, Close, Hands, Stage, At
  <2>2. /\ \A q \in Participants : q # p => row'[q] = row[q]
        /\ row'[p].fee = row[p].fee
        /\ Record(t, p) => row'[p].st = IF job[t].ok THEN "refunded" ELSE "refund_failed"
        /\ Close(t, p) => row'[p].st = "cancelled"
    BY <1>0, <1>11, <2>1, WriteEffect DEF Record, Close, OtherRows, Live, Settled
  <2>3. /\ payout' = payout /\ owed' = owed /\ taken' = taken /\ flagged \subseteq flagged'
    BY <1>11 DEF Record, Close, wallet, books
  <2>4. Record(t, p) /\ job[t].ok => payout[p] = 1
    BY <1>0, <1>11, <2>1 DEF Record, At, Seen
  <2>5. Close(t, p) /\ p \in taken => p \in flagged'
    <3> SUFFICES ASSUME Close(t, p), p \in taken PROVE p \in flagged'
      OBVIOUS
    <3>1. p \in Fees
      BY <1>0, <2>1 DEF Kept, Fees, Live
    <3>2. p \in job[t].fees
      BY <1>0, <1>3, <1>11, <3>1 DEF Seen
    <3> QED
      BY <3>2 DEF Close
  <2>6. \A q \in Participants : Kept(q)'
    <3>1. ASSUME NEW q \in Participants, q # p PROVE Kept(q)'
      BY <1>0, <2>2, <2>3, <3>1 DEF Kept, Accounted
    <3>2. Kept(p)'
      BY <1>0, <1>11, <2>1, <2>2, <2>3, <2>4, <2>5 DEF Kept, Accounted, Live
    <3> QED
      BY <3>1, <3>2
  <2>7. /\ job'[t].todo = job[t].todo
        /\ job'[t].call = job[t].call /\ job'[t].fees = job[t].fees
        /\ \/ job'[t].pc = "next" /\ job'[t].who = Nobody /\ job[t].call = "cancel"
           \/ job'[t].pc = "scrub" /\ job'[t].who = job[t].who /\ job[t].call # "cancel"
    BY <1>0, <1>11, AfterEffect DEF Record, Close
  <2>8. /\ Fees' = Fees
        /\ \A q \in Participants : row'[q].st \in Live => row[q].st \in Live /\ q # p
    BY <1>11, <2>2 DEF Fees, Live
  <2>9. Seen(t)'
    BY <1>0, <1>b, <1>3, <1>11, <2>1, <2>7, <2>8 DEF Seen
  <2> QED
    BY <1>3, <1>11, <2>6, <2>9

<1>12. ASSUME NEW t \in Tasks, NEW p \in Participants, Continue(t, p), Scrub(t, p)
       PROVE  Good(t)
  <2>1. row' = row /\ Fees' = Fees /\ \A q \in Participants : Kept(q)'
    BY <1>12, <1>s DEF Scrub, books, Fees
  <2>2. CASE Finish(t)
    BY <1>2, <1>3, <1>12, <2>1, <2>2
  <2>3. CASE GoTo(t, "owe")
    <3>1. /\ job'[t].pc = "owe"
          /\ job'[t].call = job[t].call /\ job'[t].fees = job[t].fees
          /\ job'[t].todo = job[t].todo /\ job'[t].who = job[t].who
      BY <1>0, <1>c, <2>3, GoToEffect
    <3>2. Seen(t)'
      BY <1>0, <1>3, <1>12, <2>1, <3>1, GoesOn
    <3> QED
      BY <1>3, <1>12, <2>1, <3>2
  <2>4. CASE GoTo(t, "delete") /\ Departed(p)
    <3>1. /\ job'[t].pc = "delete"
          /\ job'[t].call = job[t].call /\ job'[t].fees = job[t].fees
          /\ job'[t].todo = job[t].todo /\ job'[t].who = job[t].who
      BY <1>0, <1>c, <2>4, GoToEffect
    <3>2. p \in taken => Accounted(p)
      BY <1>0, <2>4 DEF Departed, Kept, Accounted
    <3>3. Accounted(p)' = Accounted(p) /\ taken' = taken
      BY <1>12 DEF Scrub, Accounted, wallet, books
    <3>4. Seen(t)'
      BY <1>0, <1>3, <1>12, <2>1, <3>1, <3>2, <3>3 DEF Seen, Scrub, At
    <3> QED
      BY <1>3, <1>12, <2>1, <3>4
  <2> QED
    BY <1>12, <2>2, <2>3, <2>4 DEF Scrub

<1>13. ASSUME NEW t \in Tasks, NEW p \in Participants, Continue(t, p), Owe(t, p)
       PROVE  Good(t)
  <2>1. row' = row /\ Fees' = Fees /\ \A q \in Participants : Kept(q)'
    BY <1>13, <1>s DEF Owe, books, Fees
  <2>2. /\ job'[t].pc = "delete" /\ job'[t].who = p /\ p \in owed'
        /\ job'[t].call = job[t].call /\ job'[t].fees = job[t].fees
        /\ job'[t].todo = job[t].todo /\ job'[t].who = job[t].who
    BY <1>0, <1>13, <1>c, GoToEffect DEF Owe, At
  <2>3. Seen(t)'
    BY <1>0, <1>3, <1>13, <2>1, <2>2 DEF Seen, Accounted
  <2> QED
    BY <1>3, <1>13, <2>1, <2>3

<1>14. ASSUME NEW t \in Tasks, NEW p \in Participants, Continue(t, p), Delete(t, p)
       PROVE  Good(t)
  <2>1. p \in taken => Accounted(p)
    BY <1>0, <1>14 DEF Delete, At, Seen
  <2>2. /\ \A q \in Participants : q # p => row'[q] = row[q]
        /\ row'[p].st = "none"
    BY <1>14, <1>a DEF Delete, Rows, NoRow
  <2>3. \A q \in Participants : Kept(q)'
    BY <1>0, <1>14, <2>1, <2>2 DEF Delete, Kept, Accounted, wallet, books
  <2> QED
    BY <1>2, <1>3, <1>14, <2>3 DEF Delete

<1>15. ASSUME NEW t \in Tasks, Debts(t) PROVE Good(t)
  <2>1. /\ job[t].pc = "next" /\ job[t].todo = {} /\ job[t].call = "cancel"
        /\ job[t].who = Nobody /\ \A q \in Participants : row[q].st \notin Live
    BY <1>0, <1>15, <1>b DEF Debts, Seen
  <2>2. /\ row' = row /\ Fees' = Fees /\ taken' = taken /\ UNCHANGED wallet
        /\ owed \subseteq owed' /\ flagged \subseteq flagged'
    BY <1>15 DEF Debts, Fees
  <2>3. \A q \in Participants : Kept(q)'
    BY <1>s, <2>2
  <2>4. /\ Others(t) /\ job'[t].pc = "destroy" /\ job'[t].who = Nobody
        /\ job'[t].call = "cancel" /\ job'[t].fees = job[t].fees
    BY <1>0, <1>15, <1>c, <2>1, GoToEffect DEF Debts
  <2>5. \A q \in taken : Accounted(q)'
    <3> SUFFICES ASSUME NEW q \in taken PROVE Accounted(q)'
      OBVIOUS
    <3>1. q \in Participants /\ row[q].st \in Settled
      BY <1>a, <2>1 DEF Rows
    <3>2. CASE row[q].st \in {"refunding", "refund_failed"}
      BY <1>15, <3>1, <3>2 DEF Debts, Accounted
    <3>3. CASE row[q].st \in {"refunded", "cancelled", "none"}
      BY <1>0, <2>2, <3>1, <3>3 DEF Kept, Accounted, wallet
    <3> QED
      BY <3>1, <3>2, <3>3 DEF Settled
  <2>6. Seen(t)'
    BY <1>0, <1>b, <2>1, <2>2, <2>4, <2>5 DEF Seen
  <2> QED
    BY <2>1, <2>3, <2>4, <2>6

<1>16. ASSUME NEW t \in Tasks, Destroy(t) PROVE Good(t)
  <2>1. job[t].pc # "idle" /\ \A q \in taken : Accounted(q)
    BY <1>0, <1>16 DEF Destroy, Seen
  <2>2. \A q \in Participants : row'[q].st = "none"
    BY <1>16 DEF Destroy, NoRow
  <2>3. \A q \in Participants : Kept(q)'
    BY <1>16, <2>1, <2>2 DEF Destroy, Kept, Accounted, wallet, books
  <2> QED
    BY <1>2, <1>16, <2>1, <2>3 DEF Destroy

<1>17. ASSUME NEW t \in Tasks, Abort(t) PROVE Good(t)
  <2>1. \A q \in Participants : Kept(q)'
    BY <1>17, <1>s DEF Abort, books
  <2> QED
    BY <1>2, <1>17, <2>1 DEF Abort

<1>18. ASSUME CancelRead PROVE Good("loop")
  <2>1. row' = row /\ Fees' = Fees /\ \A q \in Participants : Kept(q)'
    BY <1>18, <1>s DEF CancelRead, books, Fees
  <2>2. /\ Others("loop") /\ job'["loop"].pc = "next" /\ job'["loop"].who = Nobody
        /\ job'["loop"].todo = {p \in Participants : row[p].st \notin Settled}
        /\ job'["loop"].call = "cancel" /\ job'["loop"].fees = Fees
    BY <1>0, <1>18, CancelEffect
  <2>3. Seen("loop")'
    BY <1>b, <2>1, <2>2 DEF Seen, Live, Settled
  <2> QED
    BY <1>18, <2>1, <2>2, <2>3 DEF CancelRead, MayStart

<1>19. ASSUME NEW t \in Tasks, Good(t) PROVE AccountInv'
  <2>1. \A u \in Tasks : u # t => job'[u].pc = "idle"
    <3>1. \A u \in Tasks : u # t => job[u].pc = "idle"
      BY <1>0, <1>19 DEF Serial
    <3> QED
      BY <1>19, <3>1 DEF Others
  <2>2. \A u \in Tasks : u # t => Seen(u)'
    BY <2>1 DEF Seen
  <2> QED
    BY <1>0, <1>19, <2>2 DEF AccountInv
<1>20. CASE Advance \/ UNCHANGED vars
  BY <1>0, <1>20 DEF Advance, vars, AccountInv, Kept, Seen, Accounted, Fees, wallet, books
<1> HIDE DEF Good
<1>21. ASSUME NEW t \in Tasks, NEW p \in Participants, Continue(t, p) PROVE Good(t)
  BY <1>21, <1>4, <1>5, <1>6, <1>7, <1>8, <1>9, <1>10, <1>11, <1>12, <1>13, <1>14
     DEF Continue
<1> QED
  BY <1>0, <1>1, <1>15, <1>16, <1>17, <1>18, <1>19, <1>20, <1>21 DEF Next, Over

\* No accepted payment is lost with its row, whatever is aborted and called again,
\* as long as the event loop and a handler do not run at the same time
\* (_destroy_mix, "no failed-refund debt is lost").
THEOREM FeesAccounted ==
  ASSUME ~Overlap
  PROVE  Spec => []FeeAccounted
<1>1. Init => AccountInv
  <2> SUFFICES ASSUME Init PROVE AccountInv
    OBVIOUS
  <2>1. taken = {} /\ \A t \in Tasks : job[t].pc = "idle"
    BY DEF Init, Idle
  <2> QED
    BY <2>1, InvInit DEF AccountInv, Kept, Seen
<1>2. AccountInv => FeeAccounted
  BY DEF AccountInv, RefundInv, TypeOK, FeeAccounted, Kept, Accounted
<1> QED
  BY <1>1, <1>2, AccountStep, PTL DEF Spec
=============================================================================
