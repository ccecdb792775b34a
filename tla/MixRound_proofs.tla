--------------------------- MODULE MixRound_proofs ---------------------------
(***************************************************************************)
(* What TLAPS proves of MixRound for every set of participants and every   *)
(* bound: its state is always well formed, nobody gets a service fee back  *)
(* twice, a refund decision is never undone, coins stay held while a round *)
(* needs them, a signed round is combined, a live transaction is not       *)
(* refunded, the target is met, ghosts stay punished and a member's fee    *)
(* is accounted for.                                                       *)
(***************************************************************************)
EXTENDS MixRound, FiniteSetTheorems, TLAPS

-----------------------------------------------------------------------------
(***************************************************************************)
(* The rows and the local variables of the event loop, field by field.     *)
(***************************************************************************)

\* The values that the handlers write into a row, and the event loop into its
\* own variables, are among those listed.
LEMMA Members ==
  /\ {"interested", "committed", "paid", "signing", "signed"} \subseteq States
  /\ {"refunding", "refunded", "refund_failed", "cancelled", "ghosted"}
        \subseteq States
  /\ "none" \in States
  /\ {"idle", "collect", "cleanup", "starved", "underfunded", "send", "ghost",
       "recover", "push", "record", "ask", "probe", "cancel"} \subseteq Steps
  /\ {"-", "fill", "assembly", "ghosts", "combine", "rejected", "conflict"}
        \subseteq Reasons
BY DEF States, Active, Settled, Steps, Reasons

\* The updates update_participant and update_psbt_round make keep a row a row.
LEMMA WriteRow ==
  ASSUME NEW r \in Rows, NEW s \in States, NEW f \in BOOLEAN,
         NEW i \in BOOLEAN, NEW o \in BOOLEAN, NEW l \in BOOLEAN,
         NEW n \in Nat, NEW m \in Nat
  PROVE  /\ [r EXCEPT !.st = s] \in Rows
         /\ [r EXCEPT !.outs = o] \in Rows
         /\ [r EXCEPT !.late = l] \in Rows
         /\ [r EXCEPT !.st = s, !.late = l] \in Rows
         /\ [r EXCEPT !.st = s, !.inputs = i, !.late = l] \in Rows
         /\ [r EXCEPT !.st = s, !.fee = f, !.late = l] \in Rows
         /\ [r EXCEPT !.st = s, !.outs = o, !.late = l] \in Rows
         /\ [r EXCEPT !.outs = o, !.late = l, !.st = s] \in Rows
         /\ [r EXCEPT !.st = s, !.inputs = i, !.outs = o] \in Rows
         /\ [r EXCEPT !.st = s, !.inputs = i, !.outs = o, !.late = l] \in Rows
         /\ [r EXCEPT !.inputs = i, !.outs = o] \in Rows
         /\ [r EXCEPT !.st = s, !.ret = r.sent] \in Rows
         /\ [r EXCEPT !.num = n, !.sent = m, !.ret = 0] \in Rows
BY DEF Rows

\* What a tick does to its lists keeps them lists of participants.
LEMMA WriteTask ==
  ASSUME NEW t \in Tasks, NEW p \in Participants
  PROVE  /\ [t EXCEPT !.todo = t.todo \ {p}] \in Tasks
         /\ [t EXCEPT !.cur = {}] \in Tasks
         /\ [t EXCEPT !.todo = t.todo \ {p}, !.cur = {p}] \in Tasks
         /\ [t EXCEPT !.todo = t.todo \ {p}, !.party = t.party \ {p}] \in Tasks
         /\ [[t EXCEPT !.todo = t.todo \ {p}, !.party = t.party \ {p}]
               EXCEPT !.cur = {p}] \in Tasks
<1>1. /\ t.todo \ {p} \in SUBSET Participants
      /\ t.party \ {p} \in SUBSET Participants
      /\ {p} \in SUBSET Participants
      /\ {} \in SUBSET Participants
  BY DEF Tasks
<1> QED BY <1>1 DEF Tasks

-----------------------------------------------------------------------------
(***************************************************************************)
(* Type correctness.                                                       *)
(***************************************************************************)

\* The database starts out empty.
LEMMA TypeInit == Init => TypeOK
BY Members, MixRoundAssumption
   DEF Init, TypeOK, NoRow, NoTask, MixStates, Rows, Tasks

\* Every handler, tick step, crash and move of the network keeps the types.
LEMMA TypeStep == TypeOK /\ [Next]_vars => TypeOK'
<1> SUFFICES ASSUME TypeOK, [Next]_vars
             PROVE  TypeOK'
  OBVIOUS
<1> USE DEF built, money
<1>t. /\ row \in [Participants -> Rows]
      /\ task \in Tasks
      /\ payout \in [Participants -> Nat]
      /\ owed \subseteq Participants
      /\ blacklist \subseteq Participants
      /\ task.todo \subseteq Participants
      /\ task.cur \subseteq Participants
      /\ task.party \subseteq Participants
      /\ task.id \in Nat
      /\ mix.retries \in Nat
      /\ mix.retries + 1 \in Nat
  BY DEF TypeOK, Tasks
<1>u. NoRow \in Rows
  BY Members DEF NoRow, Rows
<1>w. NoTask \in Tasks
  BY Members DEF NoTask, Tasks
<1>c. ASSUME NEW why \in Reasons, CancelFor(why)
      PROVE  TypeOK'
  <2>1. Cancelling(why) \in Tasks
    BY <1>c, <1>w, Members DEF Cancelling, Tasks, In
  <2> QED BY <1>c, <2>1 DEF CancelFor, TypeOK
<1>d. ASSUME DestroyMix
      PROVE  TypeOK'
  <2>1. row' \in [Participants -> Rows]
    BY <1>u, <1>d DEF DestroyMix
  <2>2. owed' \subseteq Participants
    BY <1>t, <1>d DEF DestroyMix, Debts, In
  <2>3. mix' \in [st : MixStates, retries : Nat, late : BOOLEAN]
    BY <1>d DEF DestroyMix, TypeOK, MixStates
  <2> QED BY <1>d, <1>w, <2>1, <2>2, <2>3 DEF DestroyMix, TypeOK
<1>1. ASSUME NEW p \in Participants,
               \/ Join(p) \/ Commit(p) \/ ProvideAddresses(p) \/ ClearAddresses(p)
               \/ ZapCommitted(p) \/ ZapCancelled(p) \/ Exit(p) \/ AcceptPsbt(p)
      PROVE  TypeOK'
  <2>1. CASE Join(p)
    <3>1. [row[p] EXCEPT !.st = "interested"] \in Rows
      BY <1>t, <1>u, Members, WriteRow
    <3> QED BY <1>t, <2>1, <3>1 DEF Join, TypeOK
  <2>2. CASE Commit(p)
    <3>1. [row[p] EXCEPT !.st = "committed", !.inputs = TRUE, !.late = FALSE] \in Rows
      BY <1>t, <1>u, Members, WriteRow
    <3> QED BY <1>t, <2>2, <3>1 DEF Commit, TypeOK
  <2>3. CASE ProvideAddresses(p)
    <3>1. /\ [row[p] EXCEPT !.outs = TRUE, !.late = FALSE, !.st = "paid"] \in Rows
          /\ [row[p] EXCEPT !.outs = TRUE, !.late = FALSE, !.st = "committed"] \in Rows
      BY <1>t, <1>u, Members, WriteRow
    <3> QED BY <1>t, <2>3, <3>1 DEF ProvideAddresses, LaidOut, TypeOK
  <2>4. CASE ClearAddresses(p)
    <3>1. [row[p] EXCEPT !.outs = FALSE] \in Rows
      BY <1>t, <1>u, Members, WriteRow
    <3> QED BY <1>t, <2>4, <3>1 DEF ClearAddresses, TypeOK
  <2>5. CASE ZapCommitted(p)
    <3>1. [row[p] EXCEPT !.st = "paid", !.fee = TRUE, !.late = FALSE] \in Rows
      BY <1>t, <1>u, Members, WriteRow
    <3> QED BY <1>t, <2>5, <3>1 DEF ZapCommitted, TypeOK
  <2>6. CASE ZapCancelled(p)
    BY <2>6 DEF ZapCancelled, TypeOK
  <2>7. CASE Exit(p)
    <3>1. /\ [row[p] EXCEPT !.st = "cancelled", !.inputs = FALSE, !.outs = FALSE, !.late = FALSE] \in Rows
          /\ NoRow \in Rows
      BY <1>t, <1>u, Members, WriteRow
    <3>2. row' \in [Participants -> Rows]
      BY <1>t, <2>7, <3>1 DEF Exit
    <3>3. payout' \in [Participants -> Nat]
      BY <1>t, <2>7 DEF Exit, money
    <3>4. owed' \subseteq Participants
      BY <1>t, <2>7 DEF Exit, money
    <3> QED BY <1>t, <2>7, <3>2, <3>3, <3>4 DEF Exit, TypeOK
  <2>8. CASE AcceptPsbt(p)
    <3>1. [row[p] EXCEPT !.st = "signed", !.ret = row[p].sent] \in Rows
      BY <1>t, <1>u, Members, WriteRow
    <3> QED BY <1>t, <2>8, <3>1 DEF AcceptPsbt, RoundNum, TypeOK
  <2> QED BY <1>1, <2>1, <2>2, <2>3, <2>4, <2>5, <2>6, <2>7, <2>8
<1>2. ASSUME NEW p \in Participants,
               \/ CancelRow(p) \/ Drop(p) \/ SettleRefund(p) \/ PayTimeout(p)
               \/ DeleteInterested(p) \/ SendRound(p) \/ MarkSigning(p)
               \/ MarkGhost(p) \/ RecoverSurvivor(p)
      PROVE  TypeOK'
  <2>1. CASE CancelRow(p)
    <3>1. /\ [row[p] EXCEPT !.st = "refunding"] \in Rows
          /\ [row[p] EXCEPT !.st = "cancelled"] \in Rows
      BY <1>t, <1>u, Members, WriteRow
    <3>2. /\ [task EXCEPT !.todo = task.todo \ {p}] \in Tasks
          /\ [task EXCEPT !.todo = task.todo \ {p}, !.cur = {p}] \in Tasks
      BY <1>t, WriteTask
    <3>3. row' \in [Participants -> Rows]
      BY <1>t, <2>1, <3>1 DEF CancelRow
    <3>4. task' \in Tasks
      BY <2>1, <3>2 DEF CancelRow
    <3> QED BY <1>t, <2>1, <3>3, <3>4 DEF CancelRow, TypeOK
  <2>2. CASE Drop(p)
    <3>1. /\ [row[p] EXCEPT !.inputs = FALSE, !.outs = FALSE] \in Rows
          /\ [[row[p] EXCEPT !.inputs = FALSE, !.outs = FALSE] EXCEPT !.st = "refunding"] \in Rows
          /\ [[row[p] EXCEPT !.inputs = FALSE, !.outs = FALSE] EXCEPT !.st = "cancelled"] \in Rows
          /\ NoRow \in Rows
      BY <1>t, <1>u, Members, WriteRow
    <3>2. /\ [task EXCEPT !.todo = task.todo \ {p}, !.party = task.party \ {p}] \in Tasks
          /\ [[task EXCEPT !.todo = task.todo \ {p}, !.party = task.party \ {p}] EXCEPT !.cur = {p}] \in Tasks
      BY <1>t, WriteTask
    <3>3. row' \in [Participants -> Rows]
      BY <1>t, <2>2, <3>1 DEF Drop
    <3>4. task' \in Tasks
      BY <2>2, <3>2 DEF Drop
    <3> QED BY <1>t, <2>2, <3>3, <3>4 DEF Drop, TypeOK
  <2>3. CASE SettleRefund(p)
    <3>1. /\ [row[p] EXCEPT !.st = "refunded"] \in Rows
          /\ [row[p] EXCEPT !.st = "refund_failed"] \in Rows
          /\ NoRow \in Rows
      BY <1>t, <1>u, Members, WriteRow
    <3>2. [task EXCEPT !.cur = {}] \in Tasks
      BY <1>t, WriteTask
    <3>3. row' \in [Participants -> Rows]
      BY <1>t, <2>3, <3>1 DEF SettleRefund
    <3>4. payout' \in [Participants -> Nat]
      BY <1>t, <2>3 DEF SettleRefund, money
    <3>5. owed' \subseteq Participants
      BY <1>t, <2>3 DEF SettleRefund, money
    <3> QED BY <1>t, <2>3, <3>3, <3>4, <3>5, <3>2 DEF SettleRefund, TypeOK
  <2>4. CASE PayTimeout(p)
    <3>1. /\ [row[p] EXCEPT !.st = "cancelled", !.inputs = FALSE, !.outs = FALSE] \in Rows
          /\ NoRow \in Rows
      BY <1>t, <1>u, Members, WriteRow
    <3>2. [task EXCEPT !.todo = task.todo \ {p}] \in Tasks
      BY <1>t, WriteTask
    <3> QED BY <1>t, <2>4, <3>1, <3>2 DEF PayTimeout, TypeOK
  <2>5. CASE DeleteInterested(p)
    <3>1. NoRow \in Rows
      BY <1>t, <1>u, Members, WriteRow
    <3>2. [task EXCEPT !.todo = task.todo \ {p}] \in Tasks
      BY <1>t, WriteTask
    <3> QED BY <1>t, <1>w, <2>5, <3>1, <3>2 DEF DeleteInterested, TypeOK
  <2>6. CASE SendRound(p)
    <3>1. Sent(p) \in Rows
      BY <1>t, <1>u, Members, WriteRow DEF Sent, RoundNum
    <3>2. [task EXCEPT !.todo = task.todo \ {p}, !.cur = {p}] \in Tasks
      BY <1>t, WriteTask
    <3> QED BY <1>t, <2>6, <3>1, <3>2 DEF SendRound, TypeOK
  <2>7. CASE MarkSigning(p)
    <3>1. [row[p] EXCEPT !.st = "signing", !.late = FALSE] \in Rows
      BY <1>t, <1>u, Members, WriteRow
    <3>2. [task EXCEPT !.cur = {}] \in Tasks
      BY <1>t, WriteTask
    <3> QED BY <1>t, <2>7, <3>1, <3>2 DEF MarkSigning, TypeOK
  <2>8. CASE MarkGhost(p)
    <3>1. [row[p] EXCEPT !.st = "ghosted"] \in Rows
      BY <1>t, <1>u, Members, WriteRow
    <3>2. [task EXCEPT !.todo = task.todo \ {p}, !.cur = {p}] \in Tasks
      BY <1>t, WriteTask
    <3> QED BY <1>t, <2>8, <3>1, <3>2 DEF MarkGhost, TypeOK
  <2>9. CASE RecoverSurvivor(p)
    <3>1. [row[p] EXCEPT !.st = "paid", !.outs = FALSE, !.late = FALSE] \in Rows
      BY <1>t, <1>u, Members, WriteRow
    <3>2. [task EXCEPT !.todo = task.todo \ {p}] \in Tasks
      BY <1>t, WriteTask
    <3> QED BY <1>t, <2>9, <3>1, <3>2 DEF RecoverSurvivor, TypeOK
  <2> QED BY <1>2, <2>1, <2>2, <2>3, <2>4, <2>5, <2>6, <2>7, <2>8, <2>9
<1>3. CASE FinishCancel
  BY <1>d, <1>3 DEF FinishCancel
<1>4. CASE TickCollecting
  <2>1. task' \in Tasks
    BY <1>t, <1>w, <1>4, Members DEF TickCollecting, Tasks, In, TypeOK
  <2> QED BY <1>4, <2>1 DEF TickCollecting, TypeOK
<1>5. CASE ProceedToAssembling
  <2>1. [NoTask EXCEPT !.pc = "cleanup", !.todo = In({"interested"})] \in Tasks
    BY <1>w, Members DEF Tasks, In
  <2> QED BY <1>5, <2>1 DEF ProceedToAssembling, TypeOK, MixStates
<1>6. CASE FinishCleanup
  BY <1>w, <1>6 DEF FinishCleanup, TypeOK
<1>7. CASE KeepCollecting
  BY <1>w, <1>7 DEF KeepCollecting, TypeOK
<1>8. CASE CancelUnfilled
  BY <1>c, <1>8, Members DEF CancelUnfilled
<1>9. CASE TickAssembling
  <2>1. task' \in Tasks
    BY <1>w, <1>9, Members DEF TickAssembling, Tasks, In
  <2> QED BY <1>9, <2>1 DEF TickAssembling, TypeOK
<1>10. CASE StarvedDropped
  <2>1. CASE TargetLost
    BY <1>c, <1>10, <2>1, Members DEF StarvedDropped
  <2>2. ASSUME NEW under \in SUBSET (task.party \cap NonConforming),
               task' = [task EXCEPT !.pc = "underfunded", !.todo = under,
                                    !.flag = (under # {})]
        PROVE  task' \in Tasks
    BY <1>t, <2>2, Members DEF Tasks
  <2>3. CASE ~TargetLost
    BY <1>t, <1>10, <2>2, <2>3 DEF StarvedDropped, TypeOK
  <2> QED BY <2>1, <2>3
<1>11. CASE AssemblyRefused
  BY <1>c, <1>11, Members DEF AssemblyRefused
<1>12. CASE BuildSkeleton
  <2>0. nskel + 1 \in Nat
    BY MixRoundAssumption DEF TypeOK
  <2>1. nskel + 1 \in 1..MaxSkeletons
    BY <1>12, MixRoundAssumption DEF BuildSkeleton, TypeOK
  <2>2. [NoTask EXCEPT !.pc = "send", !.todo = task.party, !.id = nskel + 1]
          \in Tasks
    BY <1>t, <1>w, <2>0, Members DEF Tasks
  <2>3. skel' \in [1..MaxSkeletons -> SUBSET Participants]
    BY <1>t, <2>1, <1>12 DEF BuildSkeleton, TypeOK
  <2> QED BY <1>t, <1>12, <2>1, <2>2, <2>3 DEF BuildSkeleton, TypeOK
<1>13. CASE StartSigning
  BY <1>w, <1>13 DEF StartSigning, TypeOK, MixStates
<1>14. CASE TickSigning
  <2>1. task' \in Tasks
    BY <1>w, <1>14, Members DEF TickSigning, Tasks, Lapsed, In
  <2> QED BY <1>14, <2>1 DEF TickSigning, TypeOK
<1>15. CASE BlacklistGhost
  <2>1. [task EXCEPT !.cur = {}] \in Tasks
    BY <1>t DEF Tasks
  <2> QED BY <1>t, <1>15, <2>1 DEF BlacklistGhost, TypeOK
<1>16. CASE GiveUpOnGhosts
  BY <1>c, <1>16, Members DEF GiveUpOnGhosts
<1>17. CASE BeginRecovery
  <2>1. row' \in [Participants -> Rows]
    <3>1. ASSUME NEW p \in Participants
          PROVE  [row[p] EXCEPT !.inputs = FALSE, !.outs = FALSE] \in Rows
      BY <1>t, <1>u, Members, WriteRow
    <3> QED BY <1>t, <1>17, <3>1 DEF BeginRecovery
  <2>2. [task EXCEPT !.pc = "recover", !.todo = Remaining] \in Tasks
    BY <1>t, Members DEF Tasks, Remaining, In
  <2> QED BY <1>t, <1>17, <2>1, <2>2 DEF BeginRecovery, TypeOK
<1>18. CASE FinishRecovery
  BY <1>w, <1>18 DEF FinishRecovery, TypeOK, MixStates
<1>19. CASE KeepSigning
  BY <1>w, <1>19 DEF KeepSigning, TypeOK
<1>20. CASE Combine
  <2>1. PICK p \in Returned :
          /\ task' = [NoTask EXCEPT !.pc = "push", !.id = row[p].sent]
          /\ tx' = IF tx.id = row[p].sent THEN tx
                   ELSE [id |-> row[p].sent, st |-> "unsent"]
    BY <1>20 DEF Combine
  <2>2. row[p].sent \in Nat
    BY <1>t DEF Returned, Remaining, In, Rows
  <2>3. [NoTask EXCEPT !.pc = "push", !.id = row[p].sent] \in Tasks
    BY <1>w, <2>2, Members DEF Tasks
  <2> QED BY <1>t, <1>20, <2>1, <2>2, <2>3 DEF Combine, TypeOK
<1>21. CASE CombineFails
  BY <1>c, <1>21, Members DEF CombineFails
<1>22. CASE PushTx
  <2>1. [task EXCEPT !.pc = "record"] \in Tasks /\ [task EXCEPT !.pc = "ask"] \in Tasks
    BY <1>t, Members DEF Tasks
  <2> QED BY <1>22, <2>1 DEF PushTx, TypeOK
<1>23. CASE RecordBroadcast
  BY <1>w, <1>23 DEF RecordBroadcast, TypeOK, MixStates
<1>24. CASE BroadcastFailed
  BY <1>c, <1>24, Members DEF BroadcastFailed
<1>25. CASE SweepConfirmed
  BY <1>d, <1>25 DEF SweepConfirmed
<1>26. CASE SweepUnconfirmed
  <2>1. [NoTask EXCEPT !.pc = "probe"] \in Tasks
    BY <1>w, Members DEF Tasks
  <2> QED BY <1>26, <2>1 DEF SweepUnconfirmed, TypeOK
<1>27. CASE ConflictFound
  BY <1>c, <1>27, Members DEF ConflictFound
<1>28. CASE Rebroadcast
  BY <1>w, <1>28 DEF Rebroadcast, TypeOK
<1>29. CASE RebroadcastLost
  BY <1>w, <1>29 DEF RebroadcastLost, TypeOK
<1>30. CASE Clock
  <2>1. ASSUME NEW p \in Participants, RowDeadlinePasses(p)
        PROVE  TypeOK'
    <3>1. [row[p] EXCEPT !.late = TRUE] \in Rows
      BY <1>t, <1>u, Members, WriteRow
    <3> QED BY <1>t, <2>1, <3>1 DEF RowDeadlinePasses, TypeOK
  <2>2. CASE FillDeadlinePasses
    BY <1>30, <2>2 DEF FillDeadlinePasses, TypeOK
  <2> QED BY <1>30, <2>1, <2>2 DEF Clock
<1>31. CASE Network
  BY <1>w, <1>31 DEF Network, Confirm, Evict, DoubleSpend, TypeOK
<1>32. CASE Crash
  <2>1. payout' \in [Participants -> Nat]
    BY <1>t, <1>32 DEF Crash
  <2> QED BY <1>t, <1>w, <1>32, <2>1 DEF Crash, TypeOK
<1>33. CASE Destroyed
  BY <1>w, <1>33 DEF Destroyed, vars, TypeOK
<1>34. CASE UNCHANGED vars
  BY <1>34 DEF vars, TypeOK
<1> QED BY <1>1, <1>2, <1>3, <1>4, <1>5, <1>6, <1>7, <1>8, <1>9, <1>10, <1>11,
   <1>12, <1>13, <1>14, <1>15, <1>16, <1>17, <1>18, <1>19, <1>20, <1>21,
   <1>22, <1>23, <1>24, <1>25, <1>26, <1>27, <1>28, <1>29, <1>30, <1>31,
   <1>32, <1>33, <1>34 DEF Next, Handlers, EventLoop

\* The state of the model is well formed in every reachable state: the states,
\* counters and row fields that coordinator.py reads and writes.
THEOREM TypeCorrect == Spec => []TypeOK
BY TypeInit, TypeStep, PTL DEF Spec

-----------------------------------------------------------------------------
(***************************************************************************)
(* What the branching steps do to the rows and to the tick, field by field *)
(***************************************************************************)

\* A voluntary exit pays, records a debt, or leaves the row of a debt that
\* cannot be paid (_cmd_exit_mix).
LEMMA ExitEffect ==
  ASSUME TypeOK, NEW p \in Participants, Exit(p)
  PROVE  /\ \A q \in Participants \ {p} : row'[q] = row[q]
         /\ UNCHANGED <<mix, joined, task>>
         /\ row[p].st \in {"interested", "committed", "paid"}
         /\ mix.st \notin {"assembling", "signing"}
         /\ \/ row'[p].st = "cancelled" /\ UNCHANGED <<payout, owed>>
            \/ /\ row'[p].st = "none" /\ ~row'[p].fee
               /\ \/ UNCHANGED <<payout, owed>>
                  \/ payout' = [payout EXCEPT ![p] = @ + 1] /\ UNCHANGED owed
                  \/ owed' = owed \cup {p} /\ UNCHANGED payout
<1>1. row \in [Participants -> Rows] /\ row[p] \in Rows
  BY DEF TypeOK
<1>2. CASE row[p].fee /\ p \notin Payable
  BY <1>1, <1>2 DEF Exit, MayExit, Rows, money
<1>3. CASE ~(row[p].fee /\ p \notin Payable)
  BY <1>1, <1>3 DEF Exit, MayExit, NoRow, money
<1> QED BY <1>2, <1>3

\* One round of the loop of _cancel_and_refund.
LEMMA CancelRowEffect ==
  ASSUME TypeOK, NEW p \in Participants, CancelRow(p)
  PROVE  /\ \A q \in Participants \ {p} : row'[q] = row[q]
         /\ UNCHANGED <<mix, payout, owed, joined>>
         /\ task.pc = "cancel" /\ task.cur = {} /\ p \in task.todo
         /\ task'.pc = "cancel" /\ task'.todo = task.todo \ {p}
         /\ row'[p].fee = row[p].fee
         /\ \/ row'[p].st = row[p].st /\ task'.cur = {}
            \/ /\ row[p].st \notin Settled \cup {"none"}
               /\ row'[p].st = "refunding" /\ task'.cur = {p}
            \/ /\ row[p].st # "none"
               /\ row'[p].st = "cancelled" /\ task'.cur = {}
<1>1. row \in [Participants -> Rows] /\ row[p] \in Rows /\ task \in Tasks
  BY DEF TypeOK
<1>2. task.pc = "cancel" /\ task.cur = {} /\ p \in task.todo
  BY DEF CancelRow
<1>3. CASE p \in task.party \cap Payable
  <2>1. CASE row[p].st \in Settled \cup {"none"}
    BY <1>1, <1>2, <1>3, <2>1 DEF CancelRow, Tasks, money
  <2>2. CASE row[p].st \notin Settled \cup {"none"}
    <3>1. /\ row' = [row EXCEPT ![p] = [row[p] EXCEPT !.st = "refunding"]]
          /\ task' = [task EXCEPT !.todo = task.todo \ {p}, !.cur = {p}]
          /\ UNCHANGED <<mix, payout, owed, joined>>
      BY <1>3, <2>2 DEF CancelRow, money
    <3>2. row'[p].st = "refunding" /\ row'[p].fee = row[p].fee
      BY <1>1, <3>1 DEF Rows
    <3>3. /\ task'.pc = task.pc /\ task'.todo = task.todo \ {p}
          /\ task'.cur = {p}
      BY <1>1, <3>1 DEF Tasks
    <3> QED BY <1>1, <1>2, <2>2, <3>1, <3>2, <3>3
  <2> QED BY <2>1, <2>2
<1>4. CASE p \notin task.party \cap Payable
  <2>1. /\ task' = [task EXCEPT !.todo = task.todo \ {p}]
        /\ UNCHANGED <<mix, payout, owed, joined>>
    BY <1>4 DEF CancelRow, money
  <2>2. task'.pc = task.pc /\ task'.todo = task.todo \ {p} /\ task'.cur = {}
    BY <1>1, <1>2, <2>1 DEF Tasks
  <2>3. CASE row[p].st = "none"
    BY <1>1, <1>2, <1>4, <2>1, <2>2, <2>3 DEF CancelRow
  <2>4. CASE row[p].st # "none"
    <3>1. row' = [row EXCEPT ![p] = [row[p] EXCEPT !.st = "cancelled"]]
      BY <1>4, <2>4 DEF CancelRow
    <3>2. row'[p].st = "cancelled" /\ row'[p].fee = row[p].fee
      BY <1>1, <3>1 DEF Rows
    <3> QED BY <1>1, <1>2, <2>1, <2>2, <2>4, <3>1, <3>2
  <2> QED BY <2>3, <2>4
<1> QED BY <1>3, <1>4

\* One participant dropped from a skeleton to be.
LEMMA DropEffect ==
  ASSUME TypeOK, NEW p \in Participants, Drop(p)
  PROVE  /\ \A q \in Participants \ {p} : row'[q] = row[q]
         /\ UNCHANGED <<mix, payout, owed, joined>>
         /\ task.pc \in {"starved", "underfunded"} /\ task.cur = {}
         /\ task'.pc = task.pc /\ task'.party = task.party \ {p}
         /\ \/ row'[p] = row[p] /\ task'.cur = {}
            \/ /\ row[p].st \notin Settled \cup {"none"}
               /\ \/ row'[p].st = "refunding" /\ task'.cur = {p}
                  \/ row'[p].st = "cancelled" /\ task'.cur = {}
                  \/ /\ row'[p].st = "none" /\ ~row'[p].fee
                     /\ task'.cur = {}
<1>1. row \in [Participants -> Rows] /\ row[p] \in Rows /\ task \in Tasks
  BY DEF TypeOK
<1>2. task.pc \in {"starved", "underfunded"} /\ task.cur = {}
  BY DEF Drop
<1>3. UNCHANGED <<mix, payout, owed, joined>>
  BY DEF Drop, money
<1> DEFINE released == [row[p] EXCEPT !.inputs = FALSE, !.outs = FALSE]
           rest == [task EXCEPT !.todo = @ \ {p}, !.party = @ \ {p}]
<1>4. /\ rest.pc = task.pc /\ rest.party = task.party \ {p} /\ rest.cur = {}
      /\ rest \in [pc : Steps, todo : SUBSET Participants,
                   cur : SUBSET Participants, party : SUBSET Participants,
                   flag : BOOLEAN, late : BOOLEAN, id : Nat, why : Reasons]
  BY <1>1, <1>2, WriteTask DEF Tasks
<1>5. [rest EXCEPT !.cur = {p}].pc = task.pc
      /\ [rest EXCEPT !.cur = {p}].party = task.party \ {p}
      /\ [rest EXCEPT !.cur = {p}].cur = {p}
  BY <1>4
<1>6. /\ [released EXCEPT !.st = "refunding"].st = "refunding"
      /\ [released EXCEPT !.st = "cancelled"].st = "cancelled"
  BY <1>1 DEF Rows
<1> HIDE DEF released, rest
<1>7. CASE row[p].st \in Settled \cup {"none"}
  <2>1. task' = rest /\ UNCHANGED row
    BY <1>7 DEF Drop, rest
  <2> QED BY <1>2, <1>3, <1>4, <2>1
<1>8. CASE row[p].st \notin Settled \cup {"none"} /\ row[p].fee /\ p \in Payable
  <2>1. /\ task' = [rest EXCEPT !.cur = {p}]
        /\ row' = [row EXCEPT ![p] = [released EXCEPT !.st = "refunding"]]
    BY <1>8 DEF Drop, rest, released
  <2> QED BY <1>1, <1>2, <1>3, <1>5, <1>6, <1>8, <2>1
<1>9. CASE /\ row[p].st \notin Settled \cup {"none"}
           /\ ~(row[p].fee /\ p \in Payable)
  <2>1. /\ task' = rest
        /\ row' = [row EXCEPT ![p] =
                     IF row[p].fee THEN [released EXCEPT !.st = "cancelled"]
                     ELSE NoRow]
    BY <1>9 DEF Drop, rest, released
  <2> QED BY <1>1, <1>2, <1>3, <1>4, <1>6, <1>9, <2>1 DEF NoRow
<1> QED BY <1>7, <1>8, <1>9

\* The wallet's answer, in a cancellation and outside one.
LEMMA SettleEffect ==
  ASSUME TypeOK, NEW p \in Participants, SettleRefund(p)
  PROVE  /\ \A q \in Participants \ {p} : row'[q] = row[q]
         /\ UNCHANGED <<mix, joined>>
         /\ p \in task.cur /\ row[p].st = "refunding"
         /\ task'.cur = {} /\ task'.pc = task.pc
         /\ task'.todo = task.todo /\ task'.party = task.party
         /\ \/ row'[p].st \in {"refunded", "refund_failed"}
            \/ row'[p] = NoRow
         /\ \/ /\ payout' = [payout EXCEPT ![p] = @ + 1] /\ UNCHANGED owed
               /\ row'[p].st # "refund_failed"
            \/ /\ owed' \subseteq owed \cup {p} /\ UNCHANGED payout
               /\ row'[p].st # "refunded"
<1>1. /\ row \in [Participants -> Rows] /\ row[p] \in Rows /\ task \in Tasks
      /\ task' = [task EXCEPT !.cur = {}]
  BY DEF TypeOK, SettleRefund
<1>2. /\ task'.cur = {} /\ task'.pc = task.pc
      /\ task'.todo = task.todo /\ task'.party = task.party
  BY <1>1 DEF Tasks
<1>3. /\ [row[p] EXCEPT !.st = "refunded"].st = "refunded"
      /\ [row[p] EXCEPT !.st = "refund_failed"].st = "refund_failed"
      /\ NoRow.st = "none"
  BY <1>1 DEF Rows, NoRow
<1>4. CASE /\ payout' = [payout EXCEPT ![p] = @ + 1] /\ UNCHANGED owed
           /\ row' = [row EXCEPT ![p] =
                IF task.pc = "cancel" THEN [row[p] EXCEPT !.st = "refunded"]
                ELSE NoRow]
  BY <1>1, <1>2, <1>3, <1>4 DEF SettleRefund
<1>5. CASE /\ UNCHANGED payout /\ owed' \subseteq owed \cup {p}
           /\ row' = [row EXCEPT ![p] =
                IF task.pc = "cancel" THEN [row[p] EXCEPT !.st = "refund_failed"]
                ELSE NoRow]
  BY <1>1, <1>2, <1>3, <1>5 DEF SettleRefund
<1> QED BY <1>4, <1>5 DEF SettleRefund

\* A never-committed row is deleted, or the delete ends the tick.
LEMMA DeleteEffect ==
  ASSUME TypeOK, NEW p \in Participants, DeleteInterested(p)
  PROVE  /\ \A q \in Participants \ {p} : row'[q] = row[q]
         /\ UNCHANGED <<mix, payout, owed, joined>>
         /\ row'[p] \in {row[p], NoRow}
         /\ \/ task' = NoTask
            \/ task'.pc = "cleanup" /\ task'.cur = task.cur
<1>1. row \in [Participants -> Rows] /\ task \in Tasks
  BY DEF TypeOK
<1>2. CASE row[p].inputs
  <2>1. task' = NoTask /\ row' = row
    BY <1>2 DEF DeleteInterested
  <2> QED BY <2>1 DEF DeleteInterested, money
<1>3. CASE ~row[p].inputs
  BY <1>1, <1>3 DEF DeleteInterested, money, Tasks
<1> QED BY <1>2, <1>3

\* Some steps touch a row without touching its state or fee.
LEMMA ClockEffect ==
  ASSUME TypeOK, NEW p \in Participants, RowDeadlinePasses(p)
  PROVE  /\ \A q \in Participants :
               row'[q].st = row[q].st /\ row'[q].fee = row[q].fee
         /\ UNCHANGED <<mix, payout, owed, joined, task>>
<1>1. row \in [Participants -> Rows] /\ row[p] \in Rows
  BY DEF TypeOK
<1>2. row' = [row EXCEPT ![p] = [row[p] EXCEPT !.late = TRUE]]
  BY DEF RowDeadlinePasses
<1>3. [row[p] EXCEPT !.late = TRUE].st = row[p].st
      /\ [row[p] EXCEPT !.late = TRUE].fee = row[p].fee
  BY <1>1 DEF Rows
<1> QED BY <1>1, <1>2, <1>3 DEF RowDeadlinePasses, money

\* The same, for the ghosts whose inputs and outputs are released.
LEMMA RecoveryEffect ==
  ASSUME TypeOK, BeginRecovery
  PROVE  /\ \A q \in Participants :
               row'[q].st = row[q].st /\ row'[q].fee = row[q].fee
         /\ UNCHANGED <<mix, payout, owed, joined>>
         /\ task.pc = "ghost" /\ task'.pc = "recover"
         /\ task'.todo = Remaining /\ task'.cur = {}
<1>1. row \in [Participants -> Rows] /\ task \in Tasks
  BY DEF TypeOK
<1>2. task' = [task EXCEPT !.pc = "recover", !.todo = Remaining]
      /\ task.pc = "ghost" /\ task.cur = {}
  BY DEF BeginRecovery, GhostsMarked, DropsDone
<1>3. task'.pc = "recover" /\ task'.todo = Remaining /\ task'.cur = {}
  BY <1>1, <1>2 DEF Tasks
<1>4. ASSUME NEW q \in Participants
      PROVE  row'[q].st = row[q].st /\ row'[q].fee = row[q].fee
  <2>1. row[q] \in Rows
    BY <1>1
  <2>2. row'[q] = IF q \in RoundGhosts
                  THEN [row[q] EXCEPT !.inputs = FALSE, !.outs = FALSE]
                  ELSE row[q]
    BY DEF BeginRecovery
  <2> QED BY <2>1, <2>2 DEF Rows
<1> QED BY <1>2, <1>3, <1>4 DEF BeginRecovery, money

-----------------------------------------------------------------------------
(***************************************************************************)
(* Money.  PayoutOnce is not inductive: a handler or a tick may pay        *)
(* whenever a row says so, so the rows have to know what was paid, and     *)
(* what the event loop remembers of a row must still be true when it       *)
(* writes to it without reading it again.                                  *)
(***************************************************************************)

Ready == {"paid", "signing", "signed"}

\* The rows tell whose fee went back: a row that is neither gone, refunded nor
\* in the hands of the wallet belongs to somebody who has had nothing back.
Ledger ==
  \A p \in Participants :
    /\ payout[p] <= 1
    /\ p \in owed => payout[p] = 0
    /\ row[p].st \notin {"none", "refunding", "refunded"} => payout[p] = 0
    /\ row[p].st \in Active \cup {"refunding", "refunded"} => p \notin owed
    /\ row[p].st = "none" => ~row[p].fee
    /\ p \notin joined => row[p].st = "none" /\ payout[p] = 0 /\ p \notin owed
    /\ p \in task.cur /\ row[p].st = "refunding" => payout[p] = 0

\* What the event loop read some awaits ago still holds of the rows it is about
\* to overwrite: nobody leaves while the mix is assembling or signing (H1), and
\* whoever left a collecting mix in the meantime left unpaid debts only.
Halfway ==
  /\ task.pc \in {"starved", "underfunded", "send"} => mix.st = "assembling"
  /\ task.pc \in {"ghost", "recover"} => mix.st = "signing"
  /\ task.pc \in {"starved", "underfunded"} =>
       \A p \in task.party : row[p].st \in Ready
  /\ task.pc = "send" => \A p \in task.todo \cup task.cur : row[p].st \in Ready
  /\ task.pc \in {"ghost", "recover"} =>
       \A p \in task.todo : row[p].st \in {"signing", "signed"}
  /\ task.pc \in {"collect", "cancel"} =>
       \A p \in task.todo : row[p].st \in Active \cup {"none", "cancelled"}

MoneyInv == TypeOK /\ Ledger /\ Halfway

\* Nobody has paid yet.
LEMMA MoneyInit == Init => Ledger /\ Halfway
BY DEF Init, Ledger, Halfway, NoRow, NoTask, Active

\* The rows keep telling whose fee went back, whatever step is taken.
LEMMA LedgerStep == MoneyInv /\ [Next]_vars => Ledger'
<1> SUFFICES ASSUME MoneyInv, [Next]_vars
             PROVE  Ledger'
  OBVIOUS
<1> USE DEF built, money, NoRow, NoTask
<1>i. TypeOK /\ Ledger /\ Halfway /\ [Next]_vars
  BY DEF MoneyInv
<1>t. /\ DOMAIN row = Participants
      /\ \A p \in Participants : row[p] \in Rows
      /\ row \in [Participants -> Rows]
      /\ payout \in [Participants -> Nat]
      /\ task \in Tasks
      /\ owed \subseteq Participants
      /\ task.todo \subseteq Participants
      /\ task.cur \subseteq Participants
      /\ task.party \subseteq Participants
      /\ DOMAIN mix = {"st", "retries", "late"}
  BY <1>i DEF TypeOK, Tasks, Rows
<1>c. ASSUME NEW why, CancelFor(why)
      PROVE  Ledger'
  <2>1. /\ task'.pc = "cancel" /\ task'.cur = {}
        /\ \A p \in task'.todo : row[p].st \in States \ (Settled \cup {"none"})
    BY <1>t, <1>c DEF CancelFor, Cancelling, Rows
  <2>2. UNCHANGED <<mix, row, payout, owed, joined>>
    BY <1>c DEF CancelFor
  <2> QED BY <1>i, <2>1, <2>2 DEF States, Ledger, Halfway, Active, Settled, Ready
<1>d. ASSUME DestroyMix
      PROVE  Ledger'
  <2>1. /\ task' = NoTask /\ UNCHANGED <<payout, joined>>
        /\ \A p \in Participants : row'[p] = NoRow
    BY <1>d DEF DestroyMix
  <2>2. owed' \subseteq owed \cup {p \in Participants : row[p].st = "refund_failed"}
    BY <1>d DEF DestroyMix, Debts, In
  <2> QED BY <1>i, <1>t, <2>1, <2>2 DEF Ledger, Halfway, Active, Settled, Ready
<1>1. ASSUME NEW p \in Participants,
               \/ Join(p) \/ Commit(p) \/ ProvideAddresses(p) \/ ClearAddresses(p)
               \/ ZapCommitted(p) \/ ZapCancelled(p) \/ Exit(p) \/ AcceptPsbt(p)
      PROVE  Ledger'
  <2>1. CASE Join(p)
    BY <1>t, <1>i, <2>1 DEF Join, Ledger, Halfway, Active, Settled, Ready
  <2>2. CASE Commit(p)
    BY <1>t, <1>i, <2>2 DEF Commit, Ledger, Halfway, Active, Settled, Ready
  <2>3. CASE ProvideAddresses(p)
    BY <1>t, <1>i, <2>3 DEF ProvideAddresses, MayAddress, LaidOut, Ledger,
       Halfway, Active, Settled, Ready
  <2>4. CASE ClearAddresses(p)
    BY <1>t, <1>i, <2>4 DEF ClearAddresses, MayAddress, Ledger, Halfway,
       Active, Settled, Ready
  <2>5. CASE ZapCommitted(p)
    BY <1>t, <1>i, <2>5 DEF ZapCommitted, Ledger, Halfway, Active, Settled,
       Ready
  <2>6. CASE ZapCancelled(p)
    BY <1>t, <1>i, <2>6 DEF ZapCancelled, Ledger, Halfway, Active, Settled,
       Ready
  <2>7. CASE Exit(p)
    BY <1>t, <1>i, <2>7, ExitEffect DEF Ledger, Halfway, Active, Settled, Ready
  <2>8. CASE AcceptPsbt(p)
    BY <1>t, <1>i, <2>8 DEF AcceptPsbt, RoundNum, Ledger, Halfway, Active,
       Settled, Ready
  <2> QED BY <1>1, <2>1, <2>2, <2>3, <2>4, <2>5, <2>6, <2>7, <2>8
<1>2. ASSUME NEW p \in Participants,
               \/ CancelRow(p) \/ Drop(p) \/ SettleRefund(p) \/ PayTimeout(p)
               \/ DeleteInterested(p) \/ SendRound(p) \/ MarkSigning(p)
               \/ MarkGhost(p) \/ RecoverSurvivor(p)
      PROVE  Ledger'
  <2>1. CASE CancelRow(p)
    BY <1>t, <1>i, <2>1, CancelRowEffect DEF Ledger, Halfway, Active, Settled, Ready
  <2>2. CASE Drop(p)
    BY <1>t, <1>i, <2>2, DropEffect
       DEF Ledger, Halfway, Active, Settled, Ready, States, Rows
  <2>3. CASE SettleRefund(p)
    BY <1>t, <1>i, <2>3, SettleEffect DEF Ledger, Halfway, Active, Settled, Ready
  <2>4. CASE PayTimeout(p)
    BY <1>t, <1>i, <2>4 DEF PayTimeout, Ledger, Halfway, Active, Settled,
       Ready
  <2>5. CASE DeleteInterested(p)
    BY <1>t, <1>i, <2>5, DeleteEffect DEF Ledger, Halfway, Active, Settled, Ready
  <2>6. CASE SendRound(p)
    BY <1>t, <1>i, <2>6 DEF SendRound, Sent, RoundNum, Ledger, Halfway,
       Active, Settled, Ready
  <2>7. CASE MarkSigning(p)
    BY <1>t, <1>i, <2>7 DEF MarkSigning, Ledger, Halfway, Active, Settled,
       Ready
  <2>8. CASE MarkGhost(p)
    BY <1>t, <1>i, <2>8 DEF MarkGhost, Ledger, Halfway, Active, Settled, Ready
  <2>9. CASE RecoverSurvivor(p)
    BY <1>t, <1>i, <2>9 DEF RecoverSurvivor, Ledger, Halfway, Active, Settled,
       Ready
  <2> QED BY <1>2, <2>1, <2>2, <2>3, <2>4, <2>5, <2>6, <2>7, <2>8, <2>9
<1>3. CASE FinishCancel
  BY <1>d, <1>3 DEF FinishCancel
<1>4. CASE TickCollecting
  BY <1>t, <1>i, <1>4 DEF TickCollecting, In, Ledger, Halfway, Active,
     Settled, Ready
<1>5. CASE ProceedToAssembling
  BY <1>t, <1>i, <1>5 DEF ProceedToAssembling, CollectDone, In, Ledger,
     Halfway, Active, Settled, Ready
<1>6. CASE FinishCleanup
  BY <1>t, <1>i, <1>6 DEF FinishCleanup, Ledger, Halfway, Active, Settled,
     Ready
<1>7. CASE KeepCollecting
  BY <1>t, <1>i, <1>7 DEF KeepCollecting, CollectDone, Ledger, Halfway,
     Active, Settled, Ready
<1>8. CASE CancelUnfilled
  BY <1>c, <1>8 DEF CancelUnfilled
<1>9. CASE TickAssembling
  BY <1>t, <1>i, <1>9 DEF TickAssembling, In, Ledger, Halfway, Active,
     Settled, Ready
<1>10. CASE StarvedDropped
  <2>1. CASE TargetLost
    BY <1>c, <1>10, <2>1 DEF StarvedDropped
  <2>2. CASE ~TargetLost
    <3>1. PICK under \in SUBSET (task.party \cap NonConforming) :
            task' = [task EXCEPT !.pc = "underfunded", !.todo = under,
                                 !.flag = (under # {})]
      BY <1>10, <2>2 DEF StarvedDropped
    <3>2. /\ task'.pc = "underfunded" /\ task'.party = task.party
          /\ task'.cur = task.cur
      BY <1>t, <3>1 DEF Tasks
    <3>3. UNCHANGED <<mix, row, payout, owed, joined>>
      BY <1>10, <2>2 DEF StarvedDropped
    <3> QED BY <1>i, <1>10, <3>2, <3>3 DEF StarvedDropped, DropsDone, Ledger, Halfway, Active, Settled, Ready
  <2> QED BY <2>1, <2>2
<1>11. CASE AssemblyRefused
  BY <1>c, <1>11 DEF AssemblyRefused
<1>12. CASE BuildSkeleton
  BY <1>t, <1>i, <1>12 DEF BuildSkeleton, DropsDone, Ledger, Halfway, Active,
     Settled, Ready
<1>13. CASE StartSigning
  BY <1>t, <1>i, <1>13 DEF StartSigning, DropsDone, Ledger, Halfway, Active,
     Settled, Ready
<1>14. CASE TickSigning
  BY <1>t, <1>i, <1>14 DEF TickSigning, Lapsed, In, Ledger, Halfway, Active,
     Settled, Ready
<1>15. CASE BlacklistGhost
  BY <1>t, <1>i, <1>15 DEF BlacklistGhost, Ledger, Halfway, Active, Settled,
     Ready
<1>16. CASE GiveUpOnGhosts
  BY <1>c, <1>16 DEF GiveUpOnGhosts
<1>17. CASE BeginRecovery
  BY <1>i, <1>17, RecoveryEffect
     DEF Remaining, In, Ledger, Halfway, Active, Settled, Ready
<1>18. CASE FinishRecovery
  BY <1>t, <1>i, <1>18 DEF FinishRecovery, DropsDone, Ledger, Halfway, Active,
     Settled, Ready
<1>19. CASE KeepSigning
  BY <1>t, <1>i, <1>19 DEF KeepSigning, Ledger, Halfway, Active, Settled,
     Ready
<1>20. CASE Combine
  BY <1>t, <1>i, <1>20 DEF Combine, Returned, Remaining, In, Ledger, Halfway,
     Active, Settled, Ready
<1>21. CASE CombineFails
  BY <1>c, <1>21 DEF CombineFails
<1>22. CASE PushTx
  <2>1. /\ task'.cur = task.cur /\ task'.pc \in {"record", "ask"}
        /\ UNCHANGED <<mix, row, payout, owed, joined>>
    BY <1>t, <1>22 DEF PushTx, Tasks
  <2> QED BY <1>i, <2>1 DEF Ledger, Halfway, Active, Settled, Ready
<1>23. CASE RecordBroadcast
  BY <1>t, <1>i, <1>23 DEF RecordBroadcast, Ledger, Halfway, Active, Settled,
     Ready
<1>24. CASE BroadcastFailed
  BY <1>c, <1>24 DEF BroadcastFailed
<1>25. CASE SweepConfirmed
  BY <1>d, <1>25 DEF SweepConfirmed
<1>26. CASE SweepUnconfirmed
  BY <1>t, <1>i, <1>26 DEF SweepUnconfirmed, Ledger, Halfway, Active, Settled,
     Ready
<1>27. CASE ConflictFound
  BY <1>c, <1>27 DEF ConflictFound
<1>28. CASE Rebroadcast
  BY <1>t, <1>i, <1>28 DEF Rebroadcast, Ledger, Halfway, Active, Settled,
     Ready
<1>29. CASE RebroadcastLost
  BY <1>t, <1>i, <1>29 DEF RebroadcastLost, Ledger, Halfway, Active, Settled,
     Ready
<1>30. CASE Clock
  <2>1. ASSUME NEW p \in Participants, RowDeadlinePasses(p)
        PROVE  Ledger'
    BY <1>t, <1>i, <2>1, ClockEffect DEF Ledger, Halfway, Active, Settled, Ready
  <2>2. CASE FillDeadlinePasses
    <3>1. UNCHANGED <<row, payout, owed, joined, task>> /\ mix'.st = mix.st
      BY <1>t, <2>2 DEF FillDeadlinePasses
    <3> QED BY <1>i, <3>1 DEF Ledger, Halfway, Active, Settled, Ready
  <2> QED BY <1>30, <2>1, <2>2 DEF Clock
<1>31. CASE Network
  BY <1>t, <1>i, <1>31 DEF Network, Confirm, Evict, DoubleSpend, Ledger,
     Halfway, Active, Settled, Ready
<1>32. CASE Crash
  BY <1>t, <1>i, <1>32 DEF Crash, Ledger, Halfway, Active, Settled, Ready
<1>33. CASE Destroyed
  BY <1>t, <1>i, <1>33 DEF Destroyed, vars, Ledger, Halfway, Active, Settled,
     Ready
<1>34. CASE UNCHANGED vars
  BY <1>t, <1>i, <1>34 DEF vars, Ledger, Halfway, Active, Settled, Ready
<1> QED BY <1>i, <1>1, <1>2, <1>3, <1>4, <1>5, <1>6, <1>7, <1>8, <1>9, <1>10,
   <1>11, <1>12, <1>13, <1>14, <1>15, <1>16, <1>17, <1>18, <1>19, <1>20,
   <1>21, <1>22, <1>23, <1>24, <1>25, <1>26, <1>27, <1>28, <1>29, <1>30,
   <1>31, <1>32, <1>33, <1>34 DEF Next, Handlers, EventLoop

\* What the event loop remembers stays true, whatever step is taken.
LEMMA HalfwayStep == MoneyInv /\ [Next]_vars => Halfway'
<1> SUFFICES ASSUME MoneyInv, [Next]_vars
             PROVE  Halfway'
  OBVIOUS
<1> USE DEF built, money, NoRow, NoTask
<1>i. TypeOK /\ Ledger /\ Halfway /\ [Next]_vars
  BY DEF MoneyInv
<1>t. /\ DOMAIN row = Participants
      /\ \A p \in Participants : row[p] \in Rows
      /\ row \in [Participants -> Rows]
      /\ payout \in [Participants -> Nat]
      /\ task \in Tasks
      /\ owed \subseteq Participants
      /\ task.todo \subseteq Participants
      /\ task.cur \subseteq Participants
      /\ task.party \subseteq Participants
      /\ DOMAIN mix = {"st", "retries", "late"}
  BY <1>i DEF TypeOK, Tasks, Rows
<1>c. ASSUME NEW why, CancelFor(why)
      PROVE  Halfway'
  <2>1. /\ task'.pc = "cancel" /\ task'.cur = {}
        /\ \A p \in task'.todo : row[p].st \in States \ (Settled \cup {"none"})
    BY <1>t, <1>c DEF CancelFor, Cancelling, Rows
  <2>2. UNCHANGED <<mix, row, payout, owed, joined>>
    BY <1>c DEF CancelFor
  <2> QED BY <1>i, <2>1, <2>2 DEF States, Ledger, Halfway, Active, Settled, Ready
<1>d. ASSUME DestroyMix
      PROVE  Halfway'
  <2>1. /\ task' = NoTask /\ UNCHANGED <<payout, joined>>
        /\ \A p \in Participants : row'[p] = NoRow
    BY <1>d DEF DestroyMix
  <2>2. owed' \subseteq owed \cup {p \in Participants : row[p].st = "refund_failed"}
    BY <1>d DEF DestroyMix, Debts, In
  <2> QED BY <1>i, <1>t, <2>1, <2>2 DEF Ledger, Halfway, Active, Settled, Ready
<1>1. ASSUME NEW p \in Participants,
               \/ Join(p) \/ Commit(p) \/ ProvideAddresses(p) \/ ClearAddresses(p)
               \/ ZapCommitted(p) \/ ZapCancelled(p) \/ Exit(p) \/ AcceptPsbt(p)
      PROVE  Halfway'
  <2>1. CASE Join(p)
    BY <1>t, <1>i, <2>1 DEF Join, Ledger, Halfway, Active, Settled, Ready
  <2>2. CASE Commit(p)
    BY <1>t, <1>i, <2>2 DEF Commit, Ledger, Halfway, Active, Settled, Ready
  <2>3. CASE ProvideAddresses(p)
    BY <1>t, <1>i, <2>3 DEF ProvideAddresses, MayAddress, LaidOut, Ledger,
       Halfway, Active, Settled, Ready
  <2>4. CASE ClearAddresses(p)
    BY <1>t, <1>i, <2>4 DEF ClearAddresses, MayAddress, Ledger, Halfway,
       Active, Settled, Ready
  <2>5. CASE ZapCommitted(p)
    BY <1>t, <1>i, <2>5 DEF ZapCommitted, Ledger, Halfway, Active, Settled,
       Ready
  <2>6. CASE ZapCancelled(p)
    BY <1>t, <1>i, <2>6 DEF ZapCancelled, Ledger, Halfway, Active, Settled,
       Ready
  <2>7. CASE Exit(p)
    BY <1>t, <1>i, <2>7, ExitEffect DEF Ledger, Halfway, Active, Settled, Ready
  <2>8. CASE AcceptPsbt(p)
    BY <1>t, <1>i, <2>8 DEF AcceptPsbt, RoundNum, Ledger, Halfway, Active,
       Settled, Ready
  <2> QED BY <1>1, <2>1, <2>2, <2>3, <2>4, <2>5, <2>6, <2>7, <2>8
<1>2. ASSUME NEW p \in Participants,
               \/ CancelRow(p) \/ Drop(p) \/ SettleRefund(p) \/ PayTimeout(p)
               \/ DeleteInterested(p) \/ SendRound(p) \/ MarkSigning(p)
               \/ MarkGhost(p) \/ RecoverSurvivor(p)
      PROVE  Halfway'
  <2>1. CASE CancelRow(p)
    BY <1>t, <1>i, <2>1, CancelRowEffect DEF Ledger, Halfway, Active, Settled, Ready
  <2>2. CASE Drop(p)
    BY <1>t, <1>i, <2>2, DropEffect
       DEF Ledger, Halfway, Active, Settled, Ready, States, Rows
  <2>3. CASE SettleRefund(p)
    BY <1>t, <1>i, <2>3, SettleEffect DEF Ledger, Halfway, Active, Settled, Ready
  <2>4. CASE PayTimeout(p)
    BY <1>t, <1>i, <2>4 DEF PayTimeout, Ledger, Halfway, Active, Settled,
       Ready
  <2>5. CASE DeleteInterested(p)
    BY <1>t, <1>i, <2>5, DeleteEffect DEF Ledger, Halfway, Active, Settled, Ready
  <2>6. CASE SendRound(p)
    BY <1>t, <1>i, <2>6 DEF SendRound, Sent, RoundNum, Ledger, Halfway,
       Active, Settled, Ready
  <2>7. CASE MarkSigning(p)
    BY <1>t, <1>i, <2>7 DEF MarkSigning, Ledger, Halfway, Active, Settled,
       Ready
  <2>8. CASE MarkGhost(p)
    BY <1>t, <1>i, <2>8 DEF MarkGhost, Ledger, Halfway, Active, Settled, Ready
  <2>9. CASE RecoverSurvivor(p)
    BY <1>t, <1>i, <2>9 DEF RecoverSurvivor, Ledger, Halfway, Active, Settled,
       Ready
  <2> QED BY <1>2, <2>1, <2>2, <2>3, <2>4, <2>5, <2>6, <2>7, <2>8, <2>9
<1>3. CASE FinishCancel
  BY <1>d, <1>3 DEF FinishCancel
<1>4. CASE TickCollecting
  BY <1>t, <1>i, <1>4 DEF TickCollecting, In, Ledger, Halfway, Active,
     Settled, Ready
<1>5. CASE ProceedToAssembling
  BY <1>t, <1>i, <1>5 DEF ProceedToAssembling, CollectDone, In, Ledger,
     Halfway, Active, Settled, Ready
<1>6. CASE FinishCleanup
  BY <1>t, <1>i, <1>6 DEF FinishCleanup, Ledger, Halfway, Active, Settled,
     Ready
<1>7. CASE KeepCollecting
  BY <1>t, <1>i, <1>7 DEF KeepCollecting, CollectDone, Ledger, Halfway,
     Active, Settled, Ready
<1>8. CASE CancelUnfilled
  BY <1>c, <1>8 DEF CancelUnfilled
<1>9. CASE TickAssembling
  BY <1>t, <1>i, <1>9 DEF TickAssembling, In, Ledger, Halfway, Active,
     Settled, Ready
<1>10. CASE StarvedDropped
  <2>1. CASE TargetLost
    BY <1>c, <1>10, <2>1 DEF StarvedDropped
  <2>2. CASE ~TargetLost
    <3>1. PICK under \in SUBSET (task.party \cap NonConforming) :
            task' = [task EXCEPT !.pc = "underfunded", !.todo = under,
                                 !.flag = (under # {})]
      BY <1>10, <2>2 DEF StarvedDropped
    <3>2. /\ task'.pc = "underfunded" /\ task'.party = task.party
          /\ task'.cur = task.cur
      BY <1>t, <3>1 DEF Tasks
    <3>3. UNCHANGED <<mix, row, payout, owed, joined>>
      BY <1>10, <2>2 DEF StarvedDropped
    <3> QED BY <1>i, <1>10, <3>2, <3>3 DEF StarvedDropped, DropsDone, Ledger, Halfway, Active, Settled, Ready
  <2> QED BY <2>1, <2>2
<1>11. CASE AssemblyRefused
  BY <1>c, <1>11 DEF AssemblyRefused
<1>12. CASE BuildSkeleton
  BY <1>t, <1>i, <1>12 DEF BuildSkeleton, DropsDone, Ledger, Halfway, Active,
     Settled, Ready
<1>13. CASE StartSigning
  BY <1>t, <1>i, <1>13 DEF StartSigning, DropsDone, Ledger, Halfway, Active,
     Settled, Ready
<1>14. CASE TickSigning
  BY <1>t, <1>i, <1>14 DEF TickSigning, Lapsed, In, Ledger, Halfway, Active,
     Settled, Ready
<1>15. CASE BlacklistGhost
  BY <1>t, <1>i, <1>15 DEF BlacklistGhost, Ledger, Halfway, Active, Settled,
     Ready
<1>16. CASE GiveUpOnGhosts
  BY <1>c, <1>16 DEF GiveUpOnGhosts
<1>17. CASE BeginRecovery
  BY <1>i, <1>17, RecoveryEffect
     DEF Remaining, In, Ledger, Halfway, Active, Settled, Ready
<1>18. CASE FinishRecovery
  BY <1>t, <1>i, <1>18 DEF FinishRecovery, DropsDone, Ledger, Halfway, Active,
     Settled, Ready
<1>19. CASE KeepSigning
  BY <1>t, <1>i, <1>19 DEF KeepSigning, Ledger, Halfway, Active, Settled,
     Ready
<1>20. CASE Combine
  BY <1>t, <1>i, <1>20 DEF Combine, Returned, Remaining, In, Ledger, Halfway,
     Active, Settled, Ready
<1>21. CASE CombineFails
  BY <1>c, <1>21 DEF CombineFails
<1>22. CASE PushTx
  <2>1. /\ task'.cur = task.cur /\ task'.pc \in {"record", "ask"}
        /\ UNCHANGED <<mix, row, payout, owed, joined>>
    BY <1>t, <1>22 DEF PushTx, Tasks
  <2> QED BY <1>i, <2>1 DEF Ledger, Halfway, Active, Settled, Ready
<1>23. CASE RecordBroadcast
  BY <1>t, <1>i, <1>23 DEF RecordBroadcast, Ledger, Halfway, Active, Settled,
     Ready
<1>24. CASE BroadcastFailed
  BY <1>c, <1>24 DEF BroadcastFailed
<1>25. CASE SweepConfirmed
  BY <1>d, <1>25 DEF SweepConfirmed
<1>26. CASE SweepUnconfirmed
  BY <1>t, <1>i, <1>26 DEF SweepUnconfirmed, Ledger, Halfway, Active, Settled,
     Ready
<1>27. CASE ConflictFound
  BY <1>c, <1>27 DEF ConflictFound
<1>28. CASE Rebroadcast
  BY <1>t, <1>i, <1>28 DEF Rebroadcast, Ledger, Halfway, Active, Settled,
     Ready
<1>29. CASE RebroadcastLost
  BY <1>t, <1>i, <1>29 DEF RebroadcastLost, Ledger, Halfway, Active, Settled,
     Ready
<1>30. CASE Clock
  <2>1. ASSUME NEW p \in Participants, RowDeadlinePasses(p)
        PROVE  Halfway'
    BY <1>t, <1>i, <2>1, ClockEffect DEF Ledger, Halfway, Active, Settled, Ready
  <2>2. CASE FillDeadlinePasses
    <3>1. UNCHANGED <<row, payout, owed, joined, task>> /\ mix'.st = mix.st
      BY <1>t, <2>2 DEF FillDeadlinePasses
    <3> QED BY <1>i, <3>1 DEF Ledger, Halfway, Active, Settled, Ready
  <2> QED BY <1>30, <2>1, <2>2 DEF Clock
<1>31. CASE Network
  BY <1>t, <1>i, <1>31 DEF Network, Confirm, Evict, DoubleSpend, Ledger,
     Halfway, Active, Settled, Ready
<1>32. CASE Crash
  BY <1>t, <1>i, <1>32 DEF Crash, Ledger, Halfway, Active, Settled, Ready
<1>33. CASE Destroyed
  BY <1>t, <1>i, <1>33 DEF Destroyed, vars, Ledger, Halfway, Active, Settled,
     Ready
<1>34. CASE UNCHANGED vars
  BY <1>t, <1>i, <1>34 DEF vars, Ledger, Halfway, Active, Settled, Ready
<1> QED BY <1>i, <1>1, <1>2, <1>3, <1>4, <1>5, <1>6, <1>7, <1>8, <1>9, <1>10,
   <1>11, <1>12, <1>13, <1>14, <1>15, <1>16, <1>17, <1>18, <1>19, <1>20,
   <1>21, <1>22, <1>23, <1>24, <1>25, <1>26, <1>27, <1>28, <1>29, <1>30,
   <1>31, <1>32, <1>33, <1>34 DEF Next, Handlers, EventLoop

\* A step that brings back nobody whose refund was decided.
KeepsSettled ==
  \A p \in Participants :
    row[p].st \in Settled => row'[p].st \in Settled \cup {"none"}

\* No step does, on a fresh read or on a stale one.
LEMMA SettledStep == MoneyInv /\ [Next]_vars => KeepsSettled
<1> SUFFICES ASSUME MoneyInv, [Next]_vars
             PROVE  KeepsSettled
  OBVIOUS
<1> USE DEF built, money, NoRow, NoTask
<1>i. TypeOK /\ Ledger /\ Halfway /\ [Next]_vars
  BY DEF MoneyInv
<1>t. /\ DOMAIN row = Participants
      /\ \A p \in Participants : row[p] \in Rows
      /\ row \in [Participants -> Rows]
      /\ payout \in [Participants -> Nat]
      /\ task \in Tasks
      /\ owed \subseteq Participants
      /\ task.todo \subseteq Participants
      /\ task.cur \subseteq Participants
      /\ task.party \subseteq Participants
      /\ DOMAIN mix = {"st", "retries", "late"}
  BY <1>i DEF TypeOK, Tasks, Rows
<1>c. ASSUME NEW why, CancelFor(why)
      PROVE  KeepsSettled
  <2>1. /\ task'.pc = "cancel" /\ task'.cur = {}
        /\ \A p \in task'.todo : row[p].st \in States \ (Settled \cup {"none"})
    BY <1>t, <1>c DEF CancelFor, Cancelling, Rows
  <2>2. UNCHANGED <<mix, row, payout, owed, joined>>
    BY <1>c DEF CancelFor
  <2> QED BY <1>i, <2>1, <2>2 DEF States, KeepsSettled, Ledger, Halfway, Active, Settled, Ready
<1>d. ASSUME DestroyMix
      PROVE  KeepsSettled
  <2>1. /\ task' = NoTask /\ UNCHANGED <<payout, joined>>
        /\ \A p \in Participants : row'[p] = NoRow
    BY <1>d DEF DestroyMix
  <2>2. owed' \subseteq owed \cup {p \in Participants : row[p].st = "refund_failed"}
    BY <1>d DEF DestroyMix, Debts, In
  <2> QED BY <1>i, <1>t, <2>1, <2>2 DEF KeepsSettled, Ledger, Halfway, Active, Settled, Ready
<1>1. ASSUME NEW p \in Participants,
               \/ Join(p) \/ Commit(p) \/ ProvideAddresses(p) \/ ClearAddresses(p)
               \/ ZapCommitted(p) \/ ZapCancelled(p) \/ Exit(p) \/ AcceptPsbt(p)
      PROVE  KeepsSettled
  <2>1. CASE Join(p)
    BY <1>t, <1>i, <2>1 DEF Join, KeepsSettled, Ledger, Halfway, Active,
       Settled, Ready
  <2>2. CASE Commit(p)
    BY <1>t, <1>i, <2>2 DEF Commit, KeepsSettled, Ledger, Halfway, Active,
       Settled, Ready
  <2>3. CASE ProvideAddresses(p)
    BY <1>t, <1>i, <2>3 DEF ProvideAddresses, MayAddress, LaidOut,
       KeepsSettled, Ledger, Halfway, Active, Settled, Ready
  <2>4. CASE ClearAddresses(p)
    BY <1>t, <1>i, <2>4 DEF ClearAddresses, MayAddress, KeepsSettled, Ledger,
       Halfway, Active, Settled, Ready
  <2>5. CASE ZapCommitted(p)
    BY <1>t, <1>i, <2>5 DEF ZapCommitted, KeepsSettled, Ledger, Halfway,
       Active, Settled, Ready
  <2>6. CASE ZapCancelled(p)
    BY <1>t, <1>i, <2>6 DEF ZapCancelled, KeepsSettled, Ledger, Halfway,
       Active, Settled, Ready
  <2>7. CASE Exit(p)
    BY <1>t, <1>i, <2>7, ExitEffect DEF KeepsSettled, Ledger, Halfway, Active, Settled, Ready
  <2>8. CASE AcceptPsbt(p)
    BY <1>t, <1>i, <2>8 DEF AcceptPsbt, RoundNum, KeepsSettled, Ledger,
       Halfway, Active, Settled, Ready
  <2> QED BY <1>1, <2>1, <2>2, <2>3, <2>4, <2>5, <2>6, <2>7, <2>8
<1>2. ASSUME NEW p \in Participants,
               \/ CancelRow(p) \/ Drop(p) \/ SettleRefund(p) \/ PayTimeout(p)
               \/ DeleteInterested(p) \/ SendRound(p) \/ MarkSigning(p)
               \/ MarkGhost(p) \/ RecoverSurvivor(p)
      PROVE  KeepsSettled
  <2>1. CASE CancelRow(p)
    BY <1>t, <1>i, <2>1, CancelRowEffect DEF KeepsSettled, Ledger, Halfway, Active, Settled, Ready
  <2>2. CASE Drop(p)
    BY <1>t, <1>i, <2>2, DropEffect
       DEF KeepsSettled, Ledger, Halfway, Active, Settled, Ready, States, Rows
  <2>3. CASE SettleRefund(p)
    BY <1>t, <1>i, <2>3, SettleEffect DEF KeepsSettled, Ledger, Halfway, Active, Settled, Ready
  <2>4. CASE PayTimeout(p)
    BY <1>t, <1>i, <2>4 DEF PayTimeout, KeepsSettled, Ledger, Halfway, Active,
       Settled, Ready
  <2>5. CASE DeleteInterested(p)
    BY <1>t, <1>i, <2>5, DeleteEffect DEF KeepsSettled, Ledger, Halfway, Active, Settled, Ready
  <2>6. CASE SendRound(p)
    BY <1>t, <1>i, <2>6 DEF SendRound, Sent, RoundNum, KeepsSettled, Ledger,
       Halfway, Active, Settled, Ready
  <2>7. CASE MarkSigning(p)
    BY <1>t, <1>i, <2>7 DEF MarkSigning, KeepsSettled, Ledger, Halfway,
       Active, Settled, Ready
  <2>8. CASE MarkGhost(p)
    BY <1>t, <1>i, <2>8 DEF MarkGhost, KeepsSettled, Ledger, Halfway, Active,
       Settled, Ready
  <2>9. CASE RecoverSurvivor(p)
    BY <1>t, <1>i, <2>9 DEF RecoverSurvivor, KeepsSettled, Ledger, Halfway,
       Active, Settled, Ready
  <2> QED BY <1>2, <2>1, <2>2, <2>3, <2>4, <2>5, <2>6, <2>7, <2>8, <2>9
<1>3. CASE FinishCancel
  BY <1>d, <1>3 DEF FinishCancel
<1>4. CASE TickCollecting
  BY <1>t, <1>i, <1>4 DEF TickCollecting, In, KeepsSettled, Ledger, Halfway,
     Active, Settled, Ready
<1>5. CASE ProceedToAssembling
  BY <1>t, <1>i, <1>5 DEF ProceedToAssembling, CollectDone, In, KeepsSettled,
     Ledger, Halfway, Active, Settled, Ready
<1>6. CASE FinishCleanup
  BY <1>t, <1>i, <1>6 DEF FinishCleanup, KeepsSettled, Ledger, Halfway,
     Active, Settled, Ready
<1>7. CASE KeepCollecting
  BY <1>t, <1>i, <1>7 DEF KeepCollecting, CollectDone, KeepsSettled, Ledger,
     Halfway, Active, Settled, Ready
<1>8. CASE CancelUnfilled
  BY <1>c, <1>8 DEF CancelUnfilled
<1>9. CASE TickAssembling
  BY <1>t, <1>i, <1>9 DEF TickAssembling, In, KeepsSettled, Ledger, Halfway,
     Active, Settled, Ready
<1>10. CASE StarvedDropped
  <2>1. CASE TargetLost
    BY <1>c, <1>10, <2>1 DEF StarvedDropped
  <2>2. CASE ~TargetLost
    <3>1. PICK under \in SUBSET (task.party \cap NonConforming) :
            task' = [task EXCEPT !.pc = "underfunded", !.todo = under,
                                 !.flag = (under # {})]
      BY <1>10, <2>2 DEF StarvedDropped
    <3>2. /\ task'.pc = "underfunded" /\ task'.party = task.party
          /\ task'.cur = task.cur
      BY <1>t, <3>1 DEF Tasks
    <3>3. UNCHANGED <<mix, row, payout, owed, joined>>
      BY <1>10, <2>2 DEF StarvedDropped
    <3> QED BY <1>i, <1>10, <3>2, <3>3 DEF StarvedDropped, DropsDone, KeepsSettled, Ledger, Halfway, Active, Settled, Ready
  <2> QED BY <2>1, <2>2
<1>11. CASE AssemblyRefused
  BY <1>c, <1>11 DEF AssemblyRefused
<1>12. CASE BuildSkeleton
  BY <1>t, <1>i, <1>12 DEF BuildSkeleton, DropsDone, KeepsSettled, Ledger,
     Halfway, Active, Settled, Ready
<1>13. CASE StartSigning
  BY <1>t, <1>i, <1>13 DEF StartSigning, DropsDone, KeepsSettled, Ledger,
     Halfway, Active, Settled, Ready
<1>14. CASE TickSigning
  BY <1>t, <1>i, <1>14 DEF TickSigning, Lapsed, In, KeepsSettled, Ledger,
     Halfway, Active, Settled, Ready
<1>15. CASE BlacklistGhost
  BY <1>t, <1>i, <1>15 DEF BlacklistGhost, KeepsSettled, Ledger, Halfway,
     Active, Settled, Ready
<1>16. CASE GiveUpOnGhosts
  BY <1>c, <1>16 DEF GiveUpOnGhosts
<1>17. CASE BeginRecovery
  BY <1>i, <1>17, RecoveryEffect
     DEF Remaining, In, KeepsSettled, Ledger, Halfway, Active, Settled, Ready
<1>18. CASE FinishRecovery
  BY <1>t, <1>i, <1>18 DEF FinishRecovery, DropsDone, KeepsSettled, Ledger,
     Halfway, Active, Settled, Ready
<1>19. CASE KeepSigning
  BY <1>t, <1>i, <1>19 DEF KeepSigning, KeepsSettled, Ledger, Halfway, Active,
     Settled, Ready
<1>20. CASE Combine
  BY <1>t, <1>i, <1>20 DEF Combine, Returned, Remaining, In, KeepsSettled,
     Ledger, Halfway, Active, Settled, Ready
<1>21. CASE CombineFails
  BY <1>c, <1>21 DEF CombineFails
<1>22. CASE PushTx
  <2>1. /\ task'.cur = task.cur /\ task'.pc \in {"record", "ask"}
        /\ UNCHANGED <<mix, row, payout, owed, joined>>
    BY <1>t, <1>22 DEF PushTx, Tasks
  <2> QED BY <1>i, <2>1 DEF KeepsSettled, Ledger, Halfway, Active, Settled, Ready
<1>23. CASE RecordBroadcast
  BY <1>t, <1>i, <1>23 DEF RecordBroadcast, KeepsSettled, Ledger, Halfway,
     Active, Settled, Ready
<1>24. CASE BroadcastFailed
  BY <1>c, <1>24 DEF BroadcastFailed
<1>25. CASE SweepConfirmed
  BY <1>d, <1>25 DEF SweepConfirmed
<1>26. CASE SweepUnconfirmed
  BY <1>t, <1>i, <1>26 DEF SweepUnconfirmed, KeepsSettled, Ledger, Halfway,
     Active, Settled, Ready
<1>27. CASE ConflictFound
  BY <1>c, <1>27 DEF ConflictFound
<1>28. CASE Rebroadcast
  BY <1>t, <1>i, <1>28 DEF Rebroadcast, KeepsSettled, Ledger, Halfway, Active,
     Settled, Ready
<1>29. CASE RebroadcastLost
  BY <1>t, <1>i, <1>29 DEF RebroadcastLost, KeepsSettled, Ledger, Halfway,
     Active, Settled, Ready
<1>30. CASE Clock
  <2>1. ASSUME NEW p \in Participants, RowDeadlinePasses(p)
        PROVE  KeepsSettled
    BY <1>t, <1>i, <2>1, ClockEffect DEF KeepsSettled, Ledger, Halfway, Active, Settled, Ready
  <2>2. CASE FillDeadlinePasses
    <3>1. UNCHANGED <<row, payout, owed, joined, task>> /\ mix'.st = mix.st
      BY <1>t, <2>2 DEF FillDeadlinePasses
    <3> QED BY <1>i, <3>1 DEF KeepsSettled, Ledger, Halfway, Active, Settled, Ready
  <2> QED BY <1>30, <2>1, <2>2 DEF Clock
<1>31. CASE Network
  BY <1>t, <1>i, <1>31 DEF Network, Confirm, Evict, DoubleSpend, KeepsSettled,
     Ledger, Halfway, Active, Settled, Ready
<1>32. CASE Crash
  BY <1>t, <1>i, <1>32 DEF Crash, KeepsSettled, Ledger, Halfway, Active,
     Settled, Ready
<1>33. CASE Destroyed
  BY <1>t, <1>i, <1>33 DEF Destroyed, vars, KeepsSettled, Ledger, Halfway,
     Active, Settled, Ready
<1>34. CASE UNCHANGED vars
  BY <1>t, <1>i, <1>34 DEF vars, KeepsSettled, Ledger, Halfway, Active,
     Settled, Ready
<1> QED BY <1>i, <1>1, <1>2, <1>3, <1>4, <1>5, <1>6, <1>7, <1>8, <1>9, <1>10,
   <1>11, <1>12, <1>13, <1>14, <1>15, <1>16, <1>17, <1>18, <1>19, <1>20,
   <1>21, <1>22, <1>23, <1>24, <1>25, <1>26, <1>27, <1>28, <1>29, <1>30,
   <1>31, <1>32, <1>33, <1>34 DEF Next, Handlers, EventLoop

-----------------------------------------------------------------------------
(***************************************************************************)
(* The theorems.                                                           *)
(***************************************************************************)

\* The invariant the others rest on holds in every reachable state.
THEOREM MoneyInvariant == Spec => []MoneyInv
<1>1. Init => MoneyInv
  BY TypeInit, MoneyInit DEF MoneyInv
<1>2. MoneyInv /\ [Next]_vars => MoneyInv'
  BY TypeStep, LedgerStep, HalfwayStep DEF MoneyInv
<1> QED BY <1>1, <1>2, PTL DEF Spec

\* Nobody gets a service fee back twice, in whatever order handlers, ticks and
\* crashes come (_safe_refund, _scrub_departed, _destroy_mix).
THEOREM NoDoublePayout == Spec => []PayoutOnce
<1>1. MoneyInv => PayoutOnce
  BY DEF MoneyInv, Ledger, PayoutOnce
<1> QED BY <1>1, MoneyInvariant, PTL

\* A refund decision is final: no write made on a stale read revives the row of
\* somebody who was refunded, cancelled or ghosted.
THEOREM DecisionsAreFinal == Spec => SettledStays
<1>1. MoneyInv /\ [Next]_vars => [KeepsSettled]_vars
  BY SettledStep
<1>2. SettledStays <=> [][KeepsSettled]_vars
  BY DEF SettledStays, KeepsSettled
<1> QED BY <1>1, <1>2, MoneyInvariant, PTL DEF Spec

\* The three things a step of a mix may do to the money: nothing, one payout to
\* somebody who has had nothing, or debts of people who have had nothing.
PaysOne(p) ==
  /\ payout[p] = 0 /\ p \notin owed
  /\ payout' = [payout EXCEPT ![p] = 1] /\ UNCHANGED owed

RecordsDebts(S) ==
  /\ \A p \in S : payout[p] = 0
  /\ owed' = owed \cup S /\ UNCHANGED payout

MoneyMoves ==
  \/ UNCHANGED money
  \/ \E p \in Participants : PaysOne(p)
  \/ \E S \in SUBSET Participants : RecordsDebts(S)

\* Whoever leaves of his own will is paid, or owed, or had paid nothing.
LEMMA ExitPays ==
  ASSUME MoneyInv, NEW p \in Participants, Exit(p)
  PROVE  MoneyMoves
<1>1. /\ payout[p] = 0 /\ p \notin owed /\ payout \in [Participants -> Nat]
  BY ExitEffect DEF MoneyInv, Ledger, TypeOK, Active
<1>2. \/ UNCHANGED <<payout, owed>>
      \/ payout' = [payout EXCEPT ![p] = @ + 1] /\ UNCHANGED owed
      \/ owed' = owed \cup {p} /\ UNCHANGED payout
  BY ExitEffect DEF MoneyInv
<1>3. CASE UNCHANGED <<payout, owed>>
  BY <1>3 DEF MoneyMoves, money
<1>4. CASE payout' = [payout EXCEPT ![p] = @ + 1] /\ UNCHANGED owed
  <2>1. PaysOne(p)
    BY <1>1, <1>4 DEF PaysOne
  <2> QED BY <2>1 DEF MoneyMoves
<1>5. CASE owed' = owed \cup {p} /\ UNCHANGED payout
  <2>1. RecordsDebts({p}) /\ {p} \in SUBSET Participants
    BY <1>1, <1>5 DEF RecordsDebts
  <2> QED BY <2>1 DEF MoneyMoves
<1> QED BY <1>2, <1>3, <1>4, <1>5

\* The answer to a payout in flight is the only payout its row leads to.
LEMMA SettlePays ==
  ASSUME MoneyInv, NEW p \in Participants, SettleRefund(p)
  PROVE  MoneyMoves
<1>1. /\ payout[p] = 0 /\ p \notin owed /\ payout \in [Participants -> Nat]
  BY DEF MoneyInv, Ledger, TypeOK, SettleRefund
<1>2. \/ payout' = [payout EXCEPT ![p] = @ + 1] /\ UNCHANGED owed
      \/ UNCHANGED payout /\ owed' \in {owed, owed \cup {p}}
  BY DEF SettleRefund
<1>3. CASE payout' = [payout EXCEPT ![p] = @ + 1] /\ UNCHANGED owed
  <2>1. PaysOne(p)
    BY <1>1, <1>3 DEF PaysOne
  <2> QED BY <2>1 DEF MoneyMoves
<1>4. CASE UNCHANGED payout /\ owed' = owed
  BY <1>4 DEF MoneyMoves, money
<1>5. CASE UNCHANGED payout /\ owed' = owed \cup {p}
  <2>1. RecordsDebts({p}) /\ {p} \in SUBSET Participants
    BY <1>1, <1>5 DEF RecordsDebts
  <2> QED BY <2>1 DEF MoneyMoves
<1> QED BY <1>2, <1>3, <1>4, <1>5

\* The debts kept when the rows go are of refunds that failed.
LEMMA DestroyPays ==
  ASSUME MoneyInv, DestroyMix
  PROVE  MoneyMoves
<1>1. Debts \subseteq Participants /\ \A p \in Debts : row[p].st = "refund_failed"
  BY DEF Debts, In
<1>2. \A p \in Debts : payout[p] = 0
  BY <1>1 DEF MoneyInv, Ledger
<1>3. owed' = owed \cup Debts /\ UNCHANGED payout
  BY DEF DestroyMix
<1>4. RecordsDebts(Debts)
  BY <1>2, <1>3 DEF RecordsDebts
<1> QED BY <1>1, <1>4 DEF MoneyMoves

\* A crash may hide the answer to the payout in flight, never start another.
LEMMA CrashPays ==
  ASSUME MoneyInv, Crash
  PROVE  MoneyMoves
<1>1. CASE UNCHANGED payout
  BY <1>1 DEF Crash, MoneyMoves, money
<1>2. CASE \E p \in task.cur : /\ row[p].st = "refunding"
                               /\ payout' = [payout EXCEPT ![p] = @ + 1]
  <2>1. PICK p \in task.cur : /\ row[p].st = "refunding"
                              /\ payout' = [payout EXCEPT ![p] = @ + 1]
    BY <1>2
  <2>2. p \in Participants /\ payout \in [Participants -> Nat]
    BY DEF MoneyInv, TypeOK, Tasks
  <2>3. payout[p] = 0 /\ p \notin owed
    BY <2>1, <2>2 DEF MoneyInv, Ledger
  <2>4. PaysOne(p)
    BY <2>1, <2>2, <2>3 DEF PaysOne, Crash
  <2> QED BY <2>2, <2>4 DEF MoneyMoves
<1> QED BY <1>1, <1>2 DEF Crash

\* No other step touches the money.
LEMMA MoneyStep ==
  ASSUME MoneyInv, [Next]_vars
  PROVE  MoneyMoves
<1>1. ASSUME NEW p \in Participants,
             \/ Join(p) \/ Commit(p) \/ ProvideAddresses(p) \/ ClearAddresses(p)
             \/ ZapCommitted(p) \/ AcceptPsbt(p)
      PROVE  UNCHANGED money
  BY <1>1 DEF Join, Commit, ProvideAddresses, ClearAddresses, ZapCommitted, AcceptPsbt
<1>2. ASSUME NEW p \in Participants, ZapCancelled(p)
      PROVE  MoneyMoves
  <2>1. payout[p] = 0
    BY <1>2 DEF ZapCancelled, MoneyInv, Ledger
  <2>2. RecordsDebts({p}) /\ {p} \in SUBSET Participants
    BY <1>2, <2>1 DEF ZapCancelled, RecordsDebts
  <2> QED BY <2>2 DEF MoneyMoves
<1>3. CASE Handlers
  BY <1>1, <1>2, <1>3, ExitPays DEF Handlers, MoneyMoves
<1>4. ASSUME NEW p \in Participants,
             \/ CancelRow(p) \/ Drop(p) \/ PayTimeout(p) \/ DeleteInterested(p)
             \/ SendRound(p) \/ MarkSigning(p) \/ MarkGhost(p) \/ RecoverSurvivor(p)
      PROVE  UNCHANGED money
  BY <1>4 DEF CancelRow, Drop, PayTimeout, DeleteInterested, SendRound, MarkSigning,
              MarkGhost, RecoverSurvivor
<1>5. ASSUME \/ TickCollecting \/ ProceedToAssembling \/ FinishCleanup
             \/ KeepCollecting \/ CancelUnfilled \/ TickAssembling
             \/ StarvedDropped \/ AssemblyRefused \/ BuildSkeleton
             \/ StartSigning \/ TickSigning \/ BlacklistGhost \/ GiveUpOnGhosts
             \/ BeginRecovery \/ FinishRecovery \/ KeepSigning
      PROVE  UNCHANGED money
  <2>1. CASE TickCollecting
    BY <2>1 DEF TickCollecting
  <2>2. CASE ProceedToAssembling
    BY <2>2 DEF ProceedToAssembling
  <2>3. CASE FinishCleanup
    BY <2>3 DEF FinishCleanup
  <2>4. CASE KeepCollecting
    BY <2>4 DEF KeepCollecting
  <2>5. CASE CancelUnfilled
    BY <2>5 DEF CancelUnfilled, CancelFor
  <2>6. CASE TickAssembling
    BY <2>6 DEF TickAssembling
  <2>7. CASE StarvedDropped
    BY <2>7, Zenon DEF StarvedDropped, CancelFor
  <2>8. CASE AssemblyRefused
    BY <2>8 DEF AssemblyRefused, CancelFor
  <2>9. CASE BuildSkeleton
    BY <2>9 DEF BuildSkeleton
  <2>10. CASE StartSigning
    BY <2>10 DEF StartSigning
  <2>11. CASE TickSigning
    BY <2>11 DEF TickSigning
  <2>12. CASE BlacklistGhost
    BY <2>12 DEF BlacklistGhost
  <2>13. CASE GiveUpOnGhosts
    BY <2>13 DEF GiveUpOnGhosts, CancelFor
  <2>14. CASE BeginRecovery
    BY <2>14, Zenon DEF BeginRecovery
  <2>15. CASE FinishRecovery
    BY <2>15 DEF FinishRecovery
  <2>16. CASE KeepSigning
    BY <2>16 DEF KeepSigning
  <2> QED BY <1>5, <2>1, <2>2, <2>3, <2>4, <2>5, <2>6, <2>7, <2>8, <2>9, <2>10,
     <2>11, <2>12, <2>13, <2>14, <2>15, <2>16
<1>6. ASSUME \/ Combine \/ CombineFails \/ PushTx \/ RecordBroadcast
             \/ BroadcastFailed \/ SweepUnconfirmed \/ ConflictFound
             \/ Rebroadcast \/ RebroadcastLost
      PROVE  UNCHANGED money
  <2>1. CASE Combine
    BY <2>1 DEF Combine
  <2>2. CASE CombineFails
    BY <2>2 DEF CombineFails, CancelFor
  <2>3. CASE PushTx
    BY <2>3 DEF PushTx
  <2>4. CASE RecordBroadcast
    BY <2>4 DEF RecordBroadcast
  <2>5. CASE BroadcastFailed
    BY <2>5 DEF BroadcastFailed, CancelFor
  <2>6. CASE SweepUnconfirmed
    BY <2>6 DEF SweepUnconfirmed
  <2>7. CASE ConflictFound
    BY <2>7 DEF ConflictFound, CancelFor
  <2>8. CASE Rebroadcast
    BY <2>8 DEF Rebroadcast
  <2>9. CASE RebroadcastLost
    BY <2>9 DEF RebroadcastLost
  <2> QED BY <1>6, <2>1, <2>2, <2>3, <2>4, <2>5, <2>6, <2>7, <2>8, <2>9
<1>7. CASE EventLoop
  <2>1. CASE FinishCancel \/ SweepConfirmed
    BY <2>1, DestroyPays DEF FinishCancel, SweepConfirmed
  <2>2. CASE \E p \in Participants : SettleRefund(p)
    BY <2>2, SettlePays
  <2> QED BY <1>4, <1>5, <1>6, <1>7, <2>1, <2>2 DEF EventLoop, MoneyMoves
<1>8. CASE Clock \/ Network \/ Destroyed \/ UNCHANGED vars
  BY <1>8 DEF Clock, FillDeadlinePasses, RowDeadlinePasses, Network, Confirm, Evict,
              DoubleSpend, Destroyed, vars, MoneyMoves, money
<1> QED
  BY <1>3, <1>7, <1>8, CrashPays DEF Next

\* A mix implements the ledger: each of its steps is one step of RefundLedger, or
\* leaves the money alone.  With NoDoublePayout this says that over a whole run the
\* money only ever moves towards the participants, and in one way for each.
THEOREM RoundLedgerKept == Spec => RoundKeepsLedger
<1>1. Init => Promise!Init
  BY DEF Init, Promise!Init
<1>2. ASSUME MoneyInv, [Next]_vars
      PROVE  [Promise!Next]_(Promise!ledger)
  <2>1. CASE UNCHANGED money
    BY <2>1 DEF money, Promise!ledger
  <2>2. ASSUME NEW p \in Participants, PaysOne(p)
        PROVE  Promise!Next
    BY <2>2 DEF PaysOne, Promise!Next, Promise!Ask
  <2>3. ASSUME NEW S \in SUBSET Participants, RecordsDebts(S)
        PROVE  Promise!Next
    BY <2>3 DEF RecordsDebts, Promise!Next, Promise!Owe
  <2> QED BY <1>2, <2>1, <2>2, <2>3, MoneyStep DEF MoneyMoves
<1> QED
  BY <1>1, <1>2, MoneyInvariant, PTL DEF Spec, RoundKeepsLedger, Promise!Spec

-----------------------------------------------------------------------------
(***************************************************************************)
(* The round.  What the loop does to a round is decided on rows read some  *)
(* awaits before; the parts of RoundInv, Live and Target say what may be   *)
(* relied on meanwhile: where the mix is while the loop is at a step, who  *)
(* is in the round, whose coins are held, what a combined transaction and  *)
(* a failed one rest on, what was advanced on, and what ghosts have lost.  *)
(***************************************************************************)

\* Each step of the loop belongs to a state of the mix, and has a row in hand only
\* where one is refunded, sent to or ghosted.
Phases ==
  /\ task.pc = "collect" => mix.st = "collecting"
  /\ task.pc \in {"cleanup", "starved", "underfunded", "send"} => mix.st = "assembling"
  /\ task.pc \in {"ghost", "recover", "push", "record", "ask"} => mix.st = "signing"
  /\ task.pc = "probe" => mix.st = "broadcast"
  /\ task.pc = "idle" => task.todo = {}
  /\ task.pc \notin {"cancel", "starved", "underfunded", "send", "ghost"} => task.cur = {}
  /\ task.pc = "ghost" => \A p \in task.cur : row[p].st = "ghosted"
  /\ task.why # "-" => task.pc = "cancel"
  /\ mix.st = "none" => task.pc = "idle" /\ \A p \in Participants : row[p].st = "none"

\* What a handler does to the row of its sender.
Joins(p) ==
  /\ mix.st = "collecting" /\ p \notin joined \cup blacklist
  /\ row'[p].st = "interested"
Readies(p) ==
  /\ row[p].st \in {"interested", "committed", "paid"}
  /\ row'[p].st \in {"committed", "paid"}
  /\ row[p].st = "paid" => row'[p].st = "paid" /\ row'[p].fee = row[p].fee
  /\ row[p].inputs \/ row[p].st = "interested" => row'[p].inputs
  /\ row'[p].num = row[p].num /\ row'[p].sent = row[p].sent
Departs(p) ==
  /\ row[p].st \in {"interested", "committed", "paid"}
  /\ mix.st \notin {"assembling", "signing"}
  /\ row'[p].st \in {"cancelled", "none"} /\ ~row'[p].inputs
  /\ row'[p].st = "cancelled" => p \notin Payable
  /\ row[p].fee /\ row'[p].st = "none" => payout'[p] = payout[p] + 1 \/ p \in owed'
SignsRound(p) ==
  /\ row[p].st = "signing" /\ row'[p].st = "signed"
  /\ row'[p].inputs = row[p].inputs /\ row'[p].fee = row[p].fee
  /\ row'[p].num = row[p].num /\ row'[p].sent = row[p].sent /\ row'[p].ret = row[p].sent

OnlyRow(p) == \A q \in Participants : q # p => row'[q] = row[q]
OnlyMoney(p) == \A q \in Participants :
                  q # p => payout'[q] = payout[q] /\ (q \in owed' <=> q \in owed)

HandlerMoves(p) ==
  /\ OnlyRow(p) /\ OnlyMoney(p)
  /\ mix'.st = mix.st /\ mix'.retries = mix.retries /\ joined \subseteq joined'
  /\ UNCHANGED <<skel, nskel, blacklist, tx, task, crashes>>
  /\ \/ row'[p] = row[p] /\ (row[p].st = "cancelled" \/ UNCHANGED money)
     \/ (Joins(p) \/ Readies(p) \/ SignsRound(p)) /\ UNCHANGED money
     \/ Departs(p)

Handler(p) == \/ Join(p) \/ Commit(p) \/ ProvideAddresses(p) \/ ClearAddresses(p)
              \/ ZapCommitted(p) \/ ZapCancelled(p) \/ Exit(p) \/ AcceptPsbt(p)

\* Every handler does one of these to the row of its sender and to no other.
LEMMA HandlerEffect ==
  ASSUME TypeOK, NEW p \in Participants, Handler(p)
  PROVE  HandlerMoves(p)
<1>t. /\ row \in [Participants -> Rows] /\ row[p] \in Rows
      /\ payout \in [Participants -> Nat] /\ owed \subseteq Participants
      /\ DOMAIN mix = {"st", "retries", "late"}
  BY DEF TypeOK
<1> USE DEF HandlerMoves, OnlyRow, OnlyMoney, built, money
<1>1. CASE Join(p)
  BY <1>t, <1>1 DEF Join, Joins, Rows
<1>2. CASE Commit(p)
  BY <1>t, <1>2 DEF Commit, Readies, Rows
<1>3. CASE ProvideAddresses(p)
  BY <1>t, <1>3 DEF ProvideAddresses, MayAddress, LaidOut, Readies, Rows
<1>4. CASE ClearAddresses(p)
  BY <1>t, <1>4 DEF ClearAddresses, MayAddress, Readies, Rows
<1>5. CASE ZapCommitted(p)
  BY <1>t, <1>5 DEF ZapCommitted, Readies, Rows
<1>6. CASE ZapCancelled(p)
  BY <1>t, <1>6 DEF ZapCancelled
<1>7. CASE Exit(p)
  <2>1. /\ mix' = mix /\ UNCHANGED <<skel, nskel, blacklist, joined, tx, task, crashes>>
        /\ MayExit(p)
    BY <1>7 DEF Exit
  <2>2. OnlyRow(p) /\ row'[p].st \in {"cancelled", "none"} /\ ~row'[p].inputs
    BY <1>t, <1>7 DEF Exit, NoRow, Rows
  <2>3. OnlyMoney(p)
    BY <1>t, <1>7 DEF Exit
  <2>4. row'[p].st = "cancelled" => p \notin Payable
    BY <1>t, <1>7 DEF Exit, NoRow, Rows
  <2>5. row[p].fee /\ row'[p].st = "none" => payout'[p] = payout[p] + 1 \/ p \in owed'
    BY <1>t, <1>7 DEF Exit, NoRow, Rows
  <2> QED
    BY <2>1, <2>2, <2>3, <2>4, <2>5 DEF MayExit, Departs
<1>8. CASE AcceptPsbt(p)
  BY <1>t, <1>8 DEF AcceptPsbt, SignsRound, Rows
<1> QED
  BY <1>1, <1>2, <1>3, <1>4, <1>5, <1>6, <1>7, <1>8 DEF Handler

\* What a cancellation, a drop, and the wallet's answer do to a row and the tick.
Keeps(p) == /\ row'[p].inputs = row[p].inputs /\ row'[p].fee = row[p].fee
            /\ row'[p].num = row[p].num
            /\ row'[p].sent = row[p].sent /\ row'[p].ret = row[p].ret
LoopLeaves == UNCHANGED <<mix, skel, nskel, blacklist, tx, crashes, joined>>

CancelMoves(p) ==
  /\ OnlyRow(p) /\ LoopLeaves /\ UNCHANGED money /\ Keeps(p)
  /\ task.pc = "cancel" /\ task'.pc = "cancel" /\ task'.why = task.why
  /\ p \in task.todo /\ task'.todo = task.todo \ {p} /\ task'.party = task.party
  /\ \/ row'[p].st = row[p].st /\ row[p].st \in Settled \cup {"none"}
     \/ row[p].st \notin Settled \cup {"none"} /\ row'[p].st = "refunding"
     \/ row[p].st # "none" /\ row'[p].st = "cancelled" /\ p \notin task.party \cap Payable

\* One turn of the loop of _cancel_and_refund.
LEMMA CancelRowMoves ==
  ASSUME TypeOK, NEW p \in Participants, CancelRow(p)
  PROVE  CancelMoves(p)
<1>t. row \in [Participants -> Rows] /\ row[p] \in Rows /\ task \in Tasks
  BY DEF TypeOK
<1>1. LoopLeaves /\ UNCHANGED money /\ task.pc = "cancel" /\ p \in task.todo
  BY DEF CancelRow, LoopLeaves, built, money
<1>2. /\ task'.pc = "cancel" /\ task'.why = task.why
      /\ task'.todo = task.todo \ {p} /\ task'.party = task.party
  <2>1. task' \in {[task EXCEPT !.todo = @ \ {p}], [task EXCEPT !.todo = @ \ {p}, !.cur = {p}]}
    BY DEF CancelRow
  <2> QED
    BY <1>t, <1>1, <2>1 DEF Tasks
<1>3. OnlyRow(p) /\ Keeps(p)
  BY <1>t DEF CancelRow, OnlyRow, Keeps, Rows
<1>4. \/ row'[p].st = row[p].st /\ row[p].st \in Settled \cup {"none"}
      \/ row[p].st \notin Settled \cup {"none"} /\ row'[p].st = "refunding"
      \/ row[p].st # "none" /\ row'[p].st = "cancelled" /\ p \notin task.party \cap Payable
  BY <1>t DEF CancelRow, Rows
<1> QED
  BY <1>1, <1>2, <1>3, <1>4 DEF CancelMoves

DropMoves(p) ==
  /\ OnlyRow(p) /\ LoopLeaves /\ UNCHANGED money
  /\ task.pc \in {"starved", "underfunded"} /\ task'.pc = task.pc
  /\ task'.why = task.why /\ task'.flag = task.flag
  /\ p \in task.todo /\ task'.todo = task.todo \ {p} /\ task'.party = task.party \ {p}
  /\ \/ row'[p] = row[p] /\ row[p].st \in Settled \cup {"none"}
     \/ /\ row[p].st \notin Settled \cup {"none"}
        /\ row'[p].st \in {"refunding", "cancelled", "none"}
        /\ row'[p].st = "cancelled" => p \notin Payable
        /\ row'[p].st = "none" => ~row[p].fee

\* One drop of _drop_address_starved or _drop_underfunded.
LEMMA DropRowMoves ==
  ASSUME TypeOK, NEW p \in Participants, Drop(p)
  PROVE  DropMoves(p)
<1>t. row \in [Participants -> Rows] /\ row[p] \in Rows /\ task \in Tasks
  BY DEF TypeOK
<1>1. /\ LoopLeaves /\ UNCHANGED money
      /\ task.pc \in {"starved", "underfunded"} /\ p \in task.todo
  BY DEF Drop, LoopLeaves, built, money
<1> DEFINE rest == [task EXCEPT !.todo = @ \ {p}, !.party = @ \ {p}]
<1>2. task' \in {rest, [rest EXCEPT !.cur = {p}]}
  BY DEF Drop
<1>3. /\ task'.pc = task.pc /\ task'.why = task.why /\ task'.flag = task.flag
      /\ task'.todo = task.todo \ {p} /\ task'.party = task.party \ {p}
  BY <1>t, <1>2 DEF Tasks
<1>4. OnlyRow(p)
  BY <1>t DEF Drop, OnlyRow
<1>5. \/ row'[p] = row[p] /\ row[p].st \in Settled \cup {"none"}
      \/ /\ row[p].st \notin Settled \cup {"none"}
         /\ row'[p].st \in {"refunding", "cancelled", "none"}
         /\ row'[p].st = "cancelled" => p \notin Payable
         /\ row'[p].st = "none" => ~row[p].fee
  <2> DEFINE released == [row[p] EXCEPT !.inputs = FALSE, !.outs = FALSE]
  <2>1. /\ released \in Rows
        /\ [released EXCEPT !.st = "refunding"].st = "refunding"
        /\ [released EXCEPT !.st = "cancelled"].st = "cancelled"
    BY <1>t DEF Rows
  <2>2. \/ row[p].st \in Settled \cup {"none"} /\ row' = row
        \/ /\ row[p].st \notin Settled \cup {"none"}
           /\ \/ row' = [row EXCEPT ![p] = [released EXCEPT !.st = "refunding"]]
              \/ /\ row' = [row EXCEPT ![p] = [released EXCEPT !.st = "cancelled"]]
                 /\ p \notin Payable
              \/ row' = [row EXCEPT ![p] = NoRow] /\ ~row[p].fee
    BY DEF Drop
  <2> HIDE DEF released
  <2>3. \A r : row' = [row EXCEPT ![p] = r] => row'[p] = r
    BY <1>t
  <2>4. NoRow.st = "none"
    BY DEF NoRow
  <2> QED
    BY <2>1, <2>2, <2>3, <2>4
<1> QED
  BY <1>1, <1>3, <1>4, <1>5 DEF DropMoves

SettleMoves(p) ==
  /\ OnlyRow(p) /\ LoopLeaves
  /\ p \in task.cur /\ row[p].st = "refunding"
  /\ OnlyMoney(p)
  /\ task' = [task EXCEPT !.cur = {}]
  /\ \/ task.pc = "cancel" /\ Keeps(p) /\ row'[p].st \in {"refunded", "refund_failed"}
     \/ task.pc # "cancel" /\ row'[p] = NoRow
  /\ row'[p].st = "refunded" => payout'[p] = payout[p] + 1

\* The wallet's answer, to a cancellation or to a drop.
LEMMA SettleRowMoves ==
  ASSUME TypeOK, NEW p \in Participants, SettleRefund(p)
  PROVE  SettleMoves(p)
<1>t. /\ row \in [Participants -> Rows] /\ row[p] \in Rows /\ task \in Tasks
      /\ payout \in [Participants -> Nat] /\ owed \subseteq Participants
  BY DEF TypeOK
<1>1. /\ LoopLeaves /\ p \in task.cur /\ row[p].st = "refunding"
      /\ task' = [task EXCEPT !.cur = {}]
  BY DEF SettleRefund, LoopLeaves, built
<1>2. OnlyRow(p) /\ OnlyMoney(p)
  BY <1>t DEF SettleRefund, OnlyRow, OnlyMoney
<1>3. \/ task.pc = "cancel" /\ Keeps(p) /\ row'[p].st \in {"refunded", "refund_failed"}
      \/ task.pc # "cancel" /\ row'[p] = NoRow
  BY <1>t DEF SettleRefund, Keeps, Rows
<1>4. row'[p].st = "refunded" => payout'[p] = payout[p] + 1
  BY <1>t DEF SettleRefund, NoRow, Rows
<1> QED
  BY <1>1, <1>2, <1>3, <1>4 DEF SettleMoves

\* The other steps of the loop on one row.
RowMoves(p) == PayTimeout(p) \/ DeleteInterested(p) \/ SendRound(p) \/ MarkSigning(p)
               \/ MarkGhost(p) \/ RecoverSurvivor(p)


\* Steps of the loop that go from one task to another and leave the rows.
LEMMA CancelBegins ==
  ASSUME TypeOK, NEW why, CancelFor(why)
  PROVE  /\ LoopLeaves /\ UNCHANGED <<row, payout, owed>>
         /\ task'.pc = "cancel" /\ task'.why = why /\ task'.cur = {}
  BY DEF CancelFor, Cancelling, NoTask, LoopLeaves, built, money

\* No step leaves the loop where the mix is not.
LEMMA PhasesStep == MoneyInv /\ Phases /\ [Next]_vars => Phases'
<1> SUFFICES ASSUME MoneyInv, Phases, [Next]_vars
             PROVE  Phases'
  OBVIOUS
<1>i. TypeOK /\ Ledger /\ Halfway /\ Phases
  BY DEF MoneyInv
<1>t. /\ row \in [Participants -> Rows] /\ \A p \in Participants : row[p] \in Rows
      /\ task \in Tasks /\ DOMAIN mix = {"st", "retries", "late"}
      /\ task.todo \subseteq Participants /\ task.cur \subseteq Participants
  BY <1>i DEF TypeOK, Tasks
<1>c. ASSUME NEW why, CancelFor(why), mix.st # "none" PROVE Phases'
  BY <1>i, <1>c, CancelBegins DEF Phases, LoopLeaves
<1>d. ASSUME DestroyMix PROVE Phases'
  BY <1>t, <1>d DEF DestroyMix, NoRow, NoTask, Phases
<1>1. ASSUME NEW p \in Participants, Handler(p) PROVE Phases'
  <2>1. HandlerMoves(p)
    BY <1>i, <1>1, HandlerEffect
  <2>2. mix.st = "none" => row'[p].st = "none"
    BY <1>i, <2>1 DEF HandlerMoves, Joins, Readies, Departs, SignsRound, Phases
  <2>3. row[p].st = "ghosted" => row'[p].st = "ghosted"
    BY <1>i, <2>1 DEF HandlerMoves, Joins, Readies, Departs, SignsRound, Ledger
  <2> QED
    BY <1>i, <1>t, <2>1, <2>2, <2>3 DEF HandlerMoves, OnlyRow, Phases
<1>2. ASSUME NEW p \in Participants, CancelRow(p) PROVE Phases'
  BY <1>i, <1>2, CancelRowMoves DEF CancelMoves, LoopLeaves, Phases
<1>3. ASSUME NEW p \in Participants, Drop(p) PROVE Phases'
  BY <1>i, <1>3, DropRowMoves DEF DropMoves, LoopLeaves, Phases
<1>4. ASSUME NEW p \in Participants, SettleRefund(p) PROVE Phases'
  <2>1. SettleMoves(p)
    BY <1>i, <1>4, SettleRowMoves
  <2>2. task'.cur = {} /\ task'.pc = task.pc /\ task'.why = task.why /\ task'.todo = task.todo
    BY <1>t, <2>1 DEF SettleMoves, Tasks
  <2> QED
    BY <1>i, <2>1, <2>2 DEF SettleMoves, LoopLeaves, Phases
<1>5. ASSUME NEW p \in Participants, RowMoves(p) PROVE Phases'
  <2>1. CASE PayTimeout(p)
    BY <1>i, <1>t, <2>1 DEF PayTimeout, Phases, Tasks
  <2>2. CASE DeleteInterested(p)
    BY <1>i, <1>t, <2>2 DEF DeleteInterested, NoTask, Phases, Tasks
  <2>3. CASE SendRound(p)
    BY <1>i, <1>t, <2>3 DEF SendRound, Phases, Tasks
  <2>4. CASE MarkSigning(p)
    BY <1>i, <1>t, <2>4 DEF MarkSigning, Phases, Tasks
  <2>5. CASE MarkGhost(p)
    BY <1>i, <1>t, <2>5 DEF MarkGhost, Phases, Tasks, Rows
  <2>6. CASE RecoverSurvivor(p)
    BY <1>i, <1>t, <2>6 DEF RecoverSurvivor, Phases, Tasks
  <2> QED
    BY <1>5, <2>1, <2>2, <2>3, <2>4, <2>5, <2>6 DEF RowMoves
<1>6. CASE TickCollecting \/ TickAssembling \/ TickSigning \/ SweepUnconfirmed
  BY <1>i, <1>t, <1>6 DEF TickCollecting, TickAssembling, TickSigning, SweepUnconfirmed,
     Idle, NoTask, Phases
<1>7. CASE ProceedToAssembling
  BY <1>i, <1>t, <1>7 DEF ProceedToAssembling, CollectDone, NoTask, Phases
<1>8. CASE FinishCleanup \/ KeepCollecting \/ KeepSigning \/ Rebroadcast \/ RebroadcastLost
  BY <1>i, <1>t, <1>8 DEF FinishCleanup, KeepCollecting, CollectDone, KeepSigning,
     GhostsMarked, DropsDone, Rebroadcast, RebroadcastLost, NoTask, Phases
<1>9. CASE StarvedDropped
  <2>1. CASE TargetLost
    BY <1>c, <1>i, <1>9, <2>1 DEF StarvedDropped, DropsDone, Phases
  <2>2. CASE ~TargetLost
    <3>1. /\ task'.pc = "underfunded" /\ task'.cur = {} /\ task'.why = task.why
          /\ task.pc = "starved" /\ UNCHANGED <<mix, row>>
      BY <1>t, <1>9, <2>2 DEF StarvedDropped, DropsDone, Tasks
    <3> QED
      BY <1>i, <3>1 DEF Phases
  <2> QED
    BY <2>1, <2>2
<1>10. CASE BuildSkeleton
  BY <1>i, <1>t, <1>10 DEF BuildSkeleton, DropsDone, NoTask, Phases
<1>11. CASE StartSigning
  BY <1>i, <1>t, <1>11 DEF StartSigning, NoTask, Phases
<1>12. CASE BlacklistGhost
  BY <1>i, <1>t, <1>12 DEF BlacklistGhost, Phases, Tasks
<1>13. CASE BeginRecovery
  <2>1. /\ mix' = mix /\ task.pc = "ghost" /\ task'.pc = "recover" /\ task'.cur = {}
        /\ task'.why = task.why
    BY <1>t, <1>13 DEF BeginRecovery, GhostsMarked, DropsDone, Tasks
  <2> QED
    BY <1>i, <2>1 DEF Phases
<1>14. CASE FinishRecovery
  BY <1>i, <1>t, <1>14 DEF FinishRecovery, NoTask, Phases
<1>15. CASE Combine
  <2>1. /\ mix' = mix /\ row' = row /\ task.pc = "ghost" /\ task'.pc = "push"
        /\ task'.cur = {} /\ task'.why = "-"
    BY <1>15 DEF Combine, GhostsMarked, DropsDone, NoTask
  <2> QED
    BY <1>i, <2>1 DEF Phases
<1>16. CASE PushTx
  <2>1. /\ mix' = mix /\ row' = row /\ task.pc = "push" /\ task'.pc \in {"record", "ask"}
        /\ task'.cur = task.cur /\ task'.why = task.why
    BY <1>t, <1>16 DEF PushTx, Tasks
  <2> QED
    BY <1>i, <2>1 DEF Phases
<1>17. CASE RecordBroadcast
  BY <1>i, <1>t, <1>17 DEF RecordBroadcast, NoTask, Phases
<1>18. CASE CancelUnfilled \/ AssemblyRefused \/ GiveUpOnGhosts \/ CombineFails
            \/ BroadcastFailed \/ ConflictFound
  BY <1>c, <1>i, <1>18 DEF CancelUnfilled, AssemblyRefused, GiveUpOnGhosts, CombineFails,
     BroadcastFailed, ConflictFound, CollectDone, DropsDone, GhostsMarked, Phases
<1>19. CASE FinishCancel \/ SweepConfirmed
  BY <1>d, <1>19 DEF FinishCancel, SweepConfirmed
<1>20. CASE Clock
  <2>1. ASSUME NEW p \in Participants, RowDeadlinePasses(p) PROVE Phases'
    BY <1>i, <1>t, <2>1, ClockEffect DEF Phases
  <2>2. CASE FillDeadlinePasses
    BY <1>i, <1>t, <2>2 DEF FillDeadlinePasses, Phases
  <2> QED
    BY <1>20, <2>1, <2>2 DEF Clock
<1>21. CASE Network \/ UNCHANGED vars
  BY <1>i, <1>21 DEF Network, Confirm, Evict, DoubleSpend, vars, Phases
<1>22. CASE Crash
  BY <1>i, <1>22 DEF Crash, Idle, NoTask, Phases
<1> QED
  BY <1>1, <1>2, <1>3, <1>4, <1>5, <1>6, <1>7, <1>8, <1>9, <1>10, <1>11, <1>12, <1>13,
     <1>14, <1>15, <1>16, <1>17, <1>18, <1>19, <1>20, <1>21, <1>22
     DEF Next, Handlers, Handler, EventLoop, RowMoves, Destroyed

-----------------------------------------------------------------------------
(***************************************************************************)
(* Who is in the round.                                                    *)
(***************************************************************************)

\* The rows of the round in progress: sent the last skeleton, and if signed, it.
OnRound(p) ==
  /\ row[p].num = RoundNum /\ row[p].sent = nskel
  /\ row[p].st = "signed" => row[p].ret = nskel

\* While it is sent: whoever has signed anything is a member; members not yet sent
\* to are on the loop's list.
Sending ==
  /\ task.id = nskel /\ nskel \in 1..MaxSkeletons
  /\ task.todo \subseteq skel[nskel] /\ task.cur \subseteq skel[nskel]
  /\ Remaining \subseteq skel[nskel]
  /\ \A p \in skel[nskel] : p \notin task.todo \cup task.cur =>
       row[p].st \in {"signing", "signed"} /\ OnRound(p)
  /\ \A p \in task.cur : row[p].num = RoundNum /\ row[p].sent = nskel
  /\ \A p, q \in task.cur : p = q

\* While it is signed: members are in signing, or settled by a cancellation or as
\* ghosts, or survivors of a recovery that a crash cut short.
MemberOf(p) ==
  /\ OnRound(p)
  /\ \/ row[p].st \in {"signing", "signed"} \cup Settled
     \/ row[p].st = "paid" /\ RoundGhosts # {}
Signing ==
  /\ nskel \in 1..MaxSkeletons /\ Remaining \subseteq skel[nskel]
  /\ \A p \in skel[nskel] : MemberOf(p)

Rounds ==
  /\ task.pc \in {"starved", "underfunded"} => Remaining \subseteq task.party
  /\ task.pc = "send" => Sending
  /\ task.pc = "recover" => RoundGhosts # {}
  /\ mix.st = "signing" => Signing

\* A row that is, or becomes, none of a signer touches no round, if it keeps its
\* ghosts.
Harmless(p) ==
  /\ OnlyRow(p) /\ UNCHANGED <<skel, nskel>>
  /\ mix'.st = mix.st /\ mix'.retries = mix.retries
  /\ row[p].st = "ghosted" => row'[p].st = "ghosted" /\ row'[p].num = row[p].num
  /\ row'[p].st \in {"signing", "signed"} => row[p].st \in {"signing", "signed"}

\* What such a step leaves standing.
LEMMA HarmlessKeeps ==
  ASSUME MoneyInv, NEW p \in Participants, Harmless(p)
  PROVE  /\ Remaining' \subseteq Remaining
         /\ RoundGhosts # {} => RoundGhosts' # {}
         /\ \A q \in Participants : q # p => (OnRound(q) => OnRound(q)')
         /\ \A q \in Participants : q # p => (MemberOf(q) => MemberOf(q)')
<1>1. Remaining' \subseteq Remaining
  BY DEF Harmless, OnlyRow, Remaining, In
<1>2. RoundGhosts \subseteq RoundGhosts'
  BY DEF Harmless, OnlyRow, RoundGhosts, RoundNum, In
<1>3. \A q \in Participants : q # p => (OnRound(q) => OnRound(q)')
  BY DEF Harmless, OnlyRow, OnRound, RoundNum
<1> QED
  BY <1>1, <1>2, <1>3 DEF Harmless, OnlyRow, MemberOf

\* In a mix that is signing, such a row stays a member.
LEMMA SigningKept ==
  ASSUME MoneyInv, Signing, NEW p \in Participants, Harmless(p), p \in skel[nskel] => MemberOf(p)'
  PROVE  Signing'
<1>1. skel[nskel] \subseteq Participants
  BY DEF MoneyInv, TypeOK, Signing
<1> QED
  BY <1>1, HarmlessKeeps DEF Signing, Harmless

\* What the loop of _cancel_and_refund does to a row: it settles it, ghosts apart.
LEMMA CancellingEffect ==
  ASSUME TypeOK, Halfway, NEW p \in Participants, CancelRow(p) \/ SettleRefund(p), task.pc = "cancel"
  PROVE  /\ OnlyRow(p) /\ LoopLeaves /\ Keeps(p)
         /\ task'.pc = "cancel" /\ task'.why = task.why
         /\ row'[p].st = row[p].st \/ row'[p].st \in Settled \ {"ghosted"}
         /\ row[p].st = "ghosted" => row'[p].st = "ghosted"
<1>t. task \in Tasks
  BY DEF TypeOK
<1>1. CASE CancelRow(p)
  <2>1. CancelMoves(p)
    BY <1>1, CancelRowMoves
  <2>2. row[p].st # "ghosted"
    BY <2>1 DEF CancelMoves, Halfway, Active
  <2> QED
    BY <2>1, <2>2 DEF CancelMoves, Settled
<1>2. CASE SettleRefund(p)
  <2>1. SettleMoves(p)
    BY <1>2, SettleRowMoves
  <2>2. task'.pc = task.pc /\ task'.why = task.why
    BY <1>t, <2>1 DEF SettleMoves, Tasks
  <2> QED
    BY <2>1, <2>2 DEF SettleMoves, Settled
<1> QED
  BY <1>1, <1>2

\* Members stay members, and what they are sent and sign is the last skeleton.
LEMMA RoundsStep == MoneyInv /\ Phases /\ Rounds /\ [Next]_vars => Rounds'
<1> SUFFICES ASSUME MoneyInv, Phases, Rounds, [Next]_vars
             PROVE  Rounds'
  OBVIOUS
<1>i. TypeOK /\ Ledger /\ Halfway
  BY DEF MoneyInv
<1>t. /\ row \in [Participants -> Rows] /\ \A p \in Participants : row[p] \in Rows
      /\ task \in Tasks /\ DOMAIN mix = {"st", "retries", "late"}
      /\ task.todo \subseteq Participants /\ task.cur \subseteq Participants
      /\ skel \in [1..MaxSkeletons -> SUBSET Participants] /\ nskel \in 0..MaxSkeletons
      /\ MaxSkeletons \in Nat /\ nskel \in Nat
  BY <1>i, MixRoundAssumption DEF TypeOK, Tasks
<1>s. ASSUME UNCHANGED <<row, skel, nskel, mix>>,
             task'.pc \notin {"starved", "underfunded", "send", "recover"}
      PROVE  Rounds'
  BY <1>s DEF Rounds, Signing, MemberOf, OnRound, Remaining, RoundGhosts, RoundNum, In
<1>c. ASSUME NEW why, CancelFor(why) PROVE Rounds'
  BY <1>i, <1>c, <1>s, CancelBegins DEF LoopLeaves
<1>d. ASSUME DestroyMix PROVE Rounds'
  BY <1>t, <1>d DEF DestroyMix, NoTask, Rounds
<1>1. ASSUME NEW p \in Participants, Handler(p) PROVE Rounds'
  <2>1. HandlerMoves(p)
    BY <1>i, <1>1, HandlerEffect
  <2>2. Harmless(p)
    BY <1>i, <2>1 DEF HandlerMoves, Harmless, Joins, Readies, Departs, SignsRound, Ledger
  <2>3. /\ Remaining' \subseteq Remaining
        /\ RoundGhosts # {} => RoundGhosts' # {}
        /\ \A q \in Participants : q # p => (OnRound(q) => OnRound(q)')
    BY <2>2, HarmlessKeeps
  <2>4. task' = task /\ nskel' = nskel /\ skel' = skel /\ RoundNum' = RoundNum
    BY <2>1 DEF HandlerMoves, RoundNum
  <2>5. CASE mix.st = "signing"
    <3>1. ASSUME p \in skel[nskel] PROVE MemberOf(p)'
      <4>1. MemberOf(p)
        BY <2>5, <3>1 DEF Rounds, Signing
      <4>2. CASE row'[p] = row[p]
        BY <2>3, <2>4, <4>1, <4>2 DEF MemberOf, OnRound
      <4>3. CASE Readies(p)
        BY <2>3, <2>4, <4>1, <4>3 DEF MemberOf, OnRound, Readies, Settled
      <4>4. CASE SignsRound(p)
        BY <2>3, <2>4, <4>1, <4>4 DEF MemberOf, OnRound, SignsRound
      <4> QED
        BY <2>1, <2>5, <4>2, <4>3, <4>4 DEF HandlerMoves, Joins, Departs
    <3>2. Signing'
      BY <2>2, <2>5, <3>1, SigningKept DEF Rounds
    <3> QED
      BY <2>3, <2>4, <2>5, <3>2 DEF Rounds, Phases
  <2>6. CASE task.pc = "send"
    <3>1. mix.st = "assembling" /\ mix'.st = "assembling" /\ Sending
      BY <2>1, <2>6 DEF Phases, Rounds, HandlerMoves
    <3>2. \A q \in skel[nskel] : q \notin task.todo \cup task.cur =>
            row'[q].st \in {"signing", "signed"} /\ OnRound(q)'
      <4> SUFFICES ASSUME NEW q \in skel[nskel], q \notin task.todo \cup task.cur
                   PROVE  row'[q].st \in {"signing", "signed"} /\ OnRound(q)'
        OBVIOUS
      <4>1. row[q].st \in {"signing", "signed"} /\ OnRound(q) /\ q \in Participants
        BY <1>t, <3>1 DEF Sending
      <4>2. CASE q = p
        <5>1. row'[p] = row[p] \/ SignsRound(p)
          BY <2>1, <3>1, <4>1, <4>2 DEF HandlerMoves, Joins, Readies, Departs
        <5> QED
          BY <2>4, <4>1, <4>2, <5>1 DEF SignsRound, OnRound
      <4>3. CASE q # p
        BY <2>1, <2>3, <4>1, <4>3 DEF HandlerMoves, OnlyRow
      <4> QED
        BY <4>2, <4>3
    <3>3. \A q \in task.cur : row'[q].num = row[q].num /\ row'[q].sent = row[q].sent
      <4>1. \A q \in task.cur : q \in Participants /\ row[q].st \in Ready
        BY <1>i, <1>t, <2>6 DEF Halfway
      <4> QED
        BY <2>1, <3>1, <4>1 DEF HandlerMoves, OnlyRow, Joins, Readies, Departs, SignsRound, Ready
    <3>4. Sending'
      BY <2>3, <2>4, <3>1, <3>2, <3>3 DEF Sending
    <3> QED
      BY <2>4, <2>6, <3>1, <3>4 DEF Rounds
  <2> QED
    BY <2>1, <2>3, <2>4, <2>5, <2>6 DEF Rounds, HandlerMoves
<1>2. ASSUME NEW p \in Participants, CancelRow(p) \/ SettleRefund(p), task.pc = "cancel"
      PROVE  Rounds'
  <2>1. /\ OnlyRow(p) /\ LoopLeaves /\ Keeps(p) /\ task'.pc = "cancel"
        /\ row'[p].st = row[p].st \/ row'[p].st \in Settled \ {"ghosted"}
        /\ row[p].st = "ghosted" => row'[p].st = "ghosted"
    BY <1>i, <1>2, CancellingEffect
  <2>2. Harmless(p)
    BY <2>1 DEF Harmless, LoopLeaves, Keeps, Settled
  <2>3. ASSUME MemberOf(p) PROVE MemberOf(p)'
    <3>1. OnRound(p)'
      BY <2>1, <2>3 DEF MemberOf, OnRound, Keeps, LoopLeaves, RoundNum, Settled
    <3> QED
      BY <2>1, <2>2, <2>3, <3>1, HarmlessKeeps DEF MemberOf
  <2>4. mix.st = "signing" => Signing'
    BY <2>2, <2>3, SigningKept DEF Rounds, Signing
  <2> QED
    BY <2>1, <2>4 DEF Rounds, LoopLeaves
<1>3. ASSUME NEW p \in Participants, SettleRefund(p), task.pc # "cancel" PROVE Rounds'
  <2>1. SettleMoves(p)
    BY <1>i, <1>3, SettleRowMoves
  <2>2. /\ task'.pc = task.pc /\ task'.party = task.party /\ row'[p].st = "none"
        /\ row[p].st = "refunding"
    BY <1>t, <1>3, <2>1 DEF SettleMoves, NoRow, Tasks
  <2>3. task.pc \in {"starved", "underfunded"} /\ mix.st = "assembling"
    BY <1>i, <2>1, <1>3 DEF SettleMoves, Phases, Halfway, Ready
  <2>4. Harmless(p)
    BY <2>1, <2>2 DEF Harmless, SettleMoves, LoopLeaves
  <2> QED
    BY <2>1, <2>2, <2>3, <2>4, HarmlessKeeps DEF SettleMoves, LoopLeaves, Rounds
<1>4. ASSUME NEW p \in Participants, Drop(p) PROVE Rounds'
  <2>1. DropMoves(p) /\ mix.st = "assembling"
    BY <1>i, <1>4, DropRowMoves DEF DropMoves, Phases
  <2>2. Remaining' \subseteq task'.party
    BY <2>1 DEF DropMoves, OnlyRow, Remaining, In, Rounds, Settled
  <2> QED
    BY <2>1, <2>2 DEF DropMoves, LoopLeaves, Rounds
<1>5. ASSUME NEW p \in Participants, PayTimeout(p) PROVE Rounds'
  BY <1>i, <1>t, <1>5 DEF PayTimeout, built, Rounds, Phases, Tasks
<1>6. ASSUME NEW p \in Participants, DeleteInterested(p) PROVE Rounds'
  BY <1>i, <1>t, <1>6 DEF DeleteInterested, NoTask, built, Rounds, Phases, Tasks
<1>7. ASSUME NEW p \in Participants, SendRound(p) PROVE Rounds'
  <2>1. /\ task.pc = "send" /\ p \in task.todo /\ task.cur = {} /\ Sending
        /\ UNCHANGED <<mix, skel, nskel>> /\ mix.st = "assembling"
    BY <1>7 DEF SendRound, Rounds, Phases, built
  <2>2. task'.pc = "send" /\ task'.id = task.id /\ task'.todo = task.todo \ {p} /\ task'.cur = {p}
    BY <1>t, <1>7, <2>1 DEF SendRound, Tasks
  <2>3. /\ OnlyRow(p) /\ row'[p].st = row[p].st
        /\ row'[p].num = RoundNum /\ row'[p].sent = nskel
    BY <1>t, <1>7, <2>1 DEF SendRound, Sent, OnlyRow, Sending, Rows
  <2>4. Harmless(p)
    BY <1>i, <2>1, <2>3 DEF Harmless, Halfway, Ready
  <2>5. Sending'
    BY <1>t, <2>1, <2>2, <2>3, <2>4, HarmlessKeeps DEF Sending, OnlyRow, RoundNum
  <2> QED
    BY <2>1, <2>2, <2>5 DEF Rounds
<1>8. ASSUME NEW p \in Participants, MarkSigning(p) PROVE Rounds'
  <2>1. /\ task.pc = "send" /\ p \in task.cur /\ Sending
        /\ UNCHANGED <<mix, skel, nskel>> /\ mix.st = "assembling"
    BY <1>8 DEF MarkSigning, Rounds, Phases, built
  <2>2. task'.pc = "send" /\ task'.id = task.id /\ task'.todo = task.todo /\ task'.cur = {}
    BY <1>t, <1>8, <2>1 DEF MarkSigning, Tasks
  <2>3. /\ OnlyRow(p) /\ row'[p].st = "signing"
        /\ row'[p].num = row[p].num /\ row'[p].sent = row[p].sent
    BY <1>t, <1>8, <2>1 DEF MarkSigning, OnlyRow, Rows
  <2>4. OnRound(p)' /\ \A q \in Participants : q # p => (OnRound(q) => OnRound(q)')
    BY <2>1, <2>3 DEF OnRound, Sending, OnlyRow, RoundNum
  <2>5. Remaining' \subseteq Remaining \cup {p}
    BY <2>3 DEF Remaining, In, OnlyRow
  <2>6. task.cur = {p}
    BY <2>1 DEF Sending
  <2>7. Sending'
    BY <1>t, <2>1, <2>2, <2>3, <2>4, <2>5, <2>6 DEF Sending, OnlyRow
  <2> QED
    BY <2>1, <2>2, <2>7 DEF Rounds
<1>9. ASSUME NEW p \in Participants, MarkGhost(p) \/ RecoverSurvivor(p) PROVE Rounds'
  <2>1. /\ task.pc \in {"ghost", "recover"} /\ p \in task.todo /\ mix.st = "signing"
        /\ task.pc = "recover" => RoundGhosts # {}
        /\ UNCHANGED <<mix, skel, nskel>> /\ row[p].st \in {"signing", "signed"}
    BY <1>i, <1>9 DEF MarkGhost, RecoverSurvivor, Halfway, built, Rounds
  <2>2. /\ OnlyRow(p) /\ task'.pc = task.pc
        /\ row'[p].num = row[p].num /\ row'[p].sent = row[p].sent
        /\ row'[p].st = IF task.pc = "ghost" THEN "ghosted" ELSE "paid"
    <3>1. CASE MarkGhost(p)
      BY <1>t, <3>1 DEF MarkGhost, OnlyRow, Rows, Tasks
    <3>2. CASE RecoverSurvivor(p)
      BY <1>t, <3>2 DEF RecoverSurvivor, OnlyRow, Rows, Tasks
    <3> QED
      BY <1>9, <3>1, <3>2
  <2>3. Harmless(p)
    BY <2>1, <2>2 DEF Harmless
  <2>4. p \in skel[nskel] => MemberOf(p)'
    BY <2>1, <2>2, <2>3, HarmlessKeeps
       DEF Rounds, Signing, MemberOf, OnRound, RoundNum, Settled
  <2>5. Signing' /\ (RoundGhosts # {} => RoundGhosts' # {})
    BY <2>1, <2>3, <2>4, SigningKept, HarmlessKeeps DEF Rounds
  <2> QED
    BY <2>1, <2>2, <2>5 DEF Rounds
<1>10. CASE TickAssembling
  BY <1>t, <1>10 DEF TickAssembling, NoTask, built, Rounds, Remaining, In, Idle, Phases
<1>11. CASE StarvedDropped
  <2>1. CASE TargetLost
    BY <1>c, <1>11, <2>1 DEF StarvedDropped
  <2>2. CASE ~TargetLost
    <3>1. /\ task'.pc = "underfunded" /\ task'.party = task.party
          /\ task.pc = "starved" /\ UNCHANGED <<mix, row, skel, nskel>>
      BY <1>t, <1>11, <2>2 DEF StarvedDropped, DropsDone, Tasks, built
    <3> QED
      BY <3>1 DEF Rounds, Remaining, In, Phases
  <2> QED
    BY <2>1, <2>2
<1>12. CASE BuildSkeleton
  <2>1. /\ nskel' = nskel + 1 /\ nskel + 1 \in 1..MaxSkeletons
        /\ skel'[nskel + 1] = task.party /\ Remaining \subseteq task.party
        /\ UNCHANGED <<mix, row>> /\ mix.st = "assembling"
    BY <1>t, <1>12 DEF BuildSkeleton, DropsDone, Rounds, Phases
  <2>2. task'.pc = "send" /\ task'.todo = task.party /\ task'.cur = {} /\ task'.id = nskel + 1
    BY <1>12 DEF BuildSkeleton, NoTask
  <2>3. Sending'
    BY <2>1, <2>2 DEF Sending, Remaining, In
  <2> QED
    BY <2>1, <2>2, <2>3 DEF Rounds
<1>13. CASE StartSigning
  <2>1. /\ Sending /\ task.todo = {} /\ task.cur = {} /\ UNCHANGED <<row, skel, nskel>>
        /\ mix'.retries = mix.retries /\ task'.pc = "idle"
    BY <1>t, <1>13 DEF StartSigning, DropsDone, Rounds, NoTask, built
  <2>2. Signing'
    BY <2>1 DEF Sending, Signing, MemberOf, OnRound, Remaining, In, RoundNum
  <2> QED
    BY <2>1, <2>2 DEF Rounds
<1>14. CASE BeginRecovery
  <2>1. /\ task'.pc = "recover" /\ RoundGhosts # {} /\ UNCHANGED <<mix, skel, nskel>>
        /\ mix.st = "signing"
    BY <1>i, <1>14, RecoveryEffect DEF BeginRecovery, built, Halfway
  <2>2. \A q \in Participants : /\ row'[q].st = row[q].st /\ row'[q].num = row[q].num
                                /\ row'[q].sent = row[q].sent /\ row'[q].ret = row[q].ret
    BY <1>t, <1>14 DEF BeginRecovery, Rows
  <2> QED
    BY <1>t, <2>1, <2>2 DEF Rounds, Signing, MemberOf, OnRound, Remaining, RoundGhosts, RoundNum, In
<1>15. CASE \/ TickCollecting \/ TickSigning \/ SweepUnconfirmed \/ FinishCleanup
            \/ KeepCollecting \/ KeepSigning \/ Rebroadcast \/ RebroadcastLost \/ BlacklistGhost
            \/ PushTx \/ Crash \/ Combine
  <2>1. UNCHANGED <<row, skel, nskel, mix>>
    BY <1>15 DEF TickCollecting, TickSigning, SweepUnconfirmed, FinishCleanup, KeepCollecting,
       KeepSigning, Rebroadcast, RebroadcastLost, BlacklistGhost, PushTx, Crash, Combine, built
  <2>2. task'.pc \notin {"starved", "underfunded", "send", "recover"}
    <3>1. CASE PushTx \/ BlacklistGhost
      BY <1>t, <3>1 DEF PushTx, BlacklistGhost, Tasks
    <3>2. CASE Combine
      BY <3>2 DEF Combine, NoTask
    <3>3. CASE TickCollecting \/ TickSigning \/ SweepUnconfirmed
      BY <3>3 DEF TickCollecting, TickSigning, SweepUnconfirmed, NoTask
    <3>4. NoTask.pc = "idle"
      BY DEF NoTask
    <3>5. CASE \/ FinishCleanup \/ KeepCollecting \/ KeepSigning \/ Rebroadcast
               \/ RebroadcastLost \/ Crash
      BY <3>4, <3>5 DEF FinishCleanup, KeepCollecting, KeepSigning, Rebroadcast, RebroadcastLost, Crash
    <3> QED
      BY <1>15, <3>1, <3>2, <3>3, <3>5
  <2> QED
    BY <1>s, <2>1, <2>2
<1>16. CASE ProceedToAssembling \/ FinishRecovery \/ RecordBroadcast
  <2>1. mix'.st # "signing"
    BY <1>t, <1>16 DEF ProceedToAssembling, FinishRecovery, RecordBroadcast
  <2>2. task'.pc \notin {"starved", "underfunded", "send", "recover"}
    <3>1. NoTask.pc = "idle" /\ [NoTask EXCEPT !.pc = "cleanup", !.todo = In({"interested"})].pc = "cleanup"
      BY DEF NoTask
    <3> QED
      BY <1>16, <3>1 DEF ProceedToAssembling, FinishRecovery, RecordBroadcast
  <2> QED
    BY <2>1, <2>2 DEF Rounds
<1>17. CASE CancelUnfilled \/ AssemblyRefused \/ GiveUpOnGhosts \/ CombineFails
            \/ BroadcastFailed \/ ConflictFound
  BY <1>c, <1>17 DEF CancelUnfilled, AssemblyRefused, GiveUpOnGhosts, CombineFails,
     BroadcastFailed, ConflictFound
<1>18. CASE FinishCancel \/ SweepConfirmed
  BY <1>d, <1>18 DEF FinishCancel, SweepConfirmed
<1>19. CASE Clock
  <2>1. /\ \A q \in Participants : /\ row'[q].st = row[q].st /\ row'[q].num = row[q].num
                                   /\ row'[q].sent = row[q].sent /\ row'[q].ret = row[q].ret
        /\ UNCHANGED <<task, skel, nskel>> /\ mix'.st = mix.st /\ mix'.retries = mix.retries
    <3>1. CASE FillDeadlinePasses
      BY <1>t, <3>1 DEF FillDeadlinePasses, built
    <3>2. ASSUME NEW p \in Participants, RowDeadlinePasses(p)
          PROVE  /\ OnlyRow(p) /\ Keeps(p) /\ row'[p].st = row[p].st
                 /\ UNCHANGED <<task, skel, nskel, mix>>
      BY <1>t, <3>2 DEF RowDeadlinePasses, OnlyRow, Keeps, Rows, built
    <3> QED
      BY <1>19, <3>1, <3>2 DEF Clock, OnlyRow, Keeps
  <2> QED
    BY <1>t, <2>1 DEF Rounds, Sending, Signing, MemberOf, OnRound, Remaining, RoundGhosts,
       RoundNum, In
<1>20. CASE Network \/ UNCHANGED vars
  BY <1>20 DEF Network, Confirm, Evict, DoubleSpend, vars, Rounds, Sending, Signing, MemberOf,
     OnRound, Remaining, RoundGhosts, RoundNum, In, built
<1> QED
  BY <1>1, <1>2, <1>3, <1>4, <1>5, <1>6, <1>7, <1>8, <1>9, <1>10, <1>11, <1>12, <1>13,
     <1>14, <1>15, <1>16, <1>17, <1>18, <1>19, <1>20
     DEF Next, Handlers, Handler, EventLoop, Destroyed, CancelRow

-----------------------------------------------------------------------------
(***************************************************************************)
(* Whose coins are held.                                                   *)
(***************************************************************************)

\* The transaction of the round in progress, signed by every member.
Firm ==
  /\ tx.id = nskel /\ RoundGhosts = {}
  /\ ~(Cardinality(skel[nskel]) < 2)
  /\ \A p \in skel[nskel] : row[p].st = "signed"

Pushing == task.pc \in {"push", "record", "ask"}

Held ==
  /\ \A p \in Participants :
       row[p].st \in {"committed", "paid", "signing", "signed"} => row[p].inputs
  /\ mix.st = "signing" =>
       \A p \in skel[nskel] : row[p].inputs \/ row[p].st = "ghosted"
  /\ Pushing => Firm /\ task.todo = {}
  /\ mix.st = "broadcast" =>
       /\ tx.id \in 1..MaxSkeletons
       /\ \A p \in skel[tx.id] : row[p].inputs /\ row[p].st \in {"signed"} \cup Settled

\* A combined transaction is the one of the last skeleton, and all of it is signed.
LEMMA CombineEffect ==
  ASSUME MoneyInv, Phases, Rounds, Combine
  PROVE  /\ UNCHANGED <<mix, row, skel, nskel, blacklist, payout, owed, joined, crashes>>
         /\ Firm' /\ mix.st = "signing"
         /\ task'.pc = "push" /\ task'.todo = {} /\ task'.cur = {} /\ task'.why = "-"
         /\ task.pc = "ghost" /\ task.todo = {} /\ task.cur = {}
         /\ tx' = tx \/ tx'.st = "unsent"
<1>t. /\ skel \in [1..MaxSkeletons -> SUBSET Participants] /\ IsFiniteSet(Participants)
  BY MixRoundAssumption DEF MoneyInv, TypeOK
<1>1. /\ UNCHANGED <<mix, row, skel, nskel, blacklist, payout, owed, joined, crashes>>
      /\ task.pc = "ghost" /\ task.todo = {} /\ task.cur = {} /\ RoundGhosts = {} /\ AllSigned
  BY DEF Combine, GhostsMarked, DropsDone, built, money
<1>2. mix.st = "signing" /\ Signing
  BY <1>1 DEF Phases, Rounds
<1>3. PICK p \in Returned :
         /\ Combinable(row[p].sent)
         /\ task' = [NoTask EXCEPT !.pc = "push", !.id = row[p].sent]
         /\ tx' = IF tx.id = row[p].sent THEN tx ELSE [id |-> row[p].sent, st |-> "unsent"]
  BY DEF Combine
<1>4. row[p].sent = nskel
  BY <1>2 DEF Returned, Signing, MemberOf, OnRound
<1>5. \A q \in skel[nskel] : row[q].st = "signed"
  BY <1>1, <1>3, <1>4 DEF Combinable, Matching, Returned, AllSigned
<1>6. ~(Cardinality(skel[nskel]) < 2)
  <2>1. Matching(nskel) \subseteq skel[nskel] /\ IsFiniteSet(skel[nskel])
    BY <1>t, <1>2, FS_Subset DEF Signing, Matching, Returned
  <2>2. /\ Cardinality(Matching(nskel)) <= Cardinality(skel[nskel])
        /\ Cardinality(Matching(nskel)) \in Nat /\ Cardinality(skel[nskel]) \in Nat
    BY <2>1, FS_Subset, FS_CardinalityType
  <2> QED
    BY <1>3, <1>4, <2>2 DEF Combinable
<1>7. tx'.id = nskel
  BY <1>3, <1>4
<1>8. Firm'
  BY <1>1, <1>5, <1>6, <1>7 DEF Firm, RoundGhosts, RoundNum, In
<1> QED
  BY <1>1, <1>2, <1>3, <1>8 DEF NoTask

\* Members' coins stay where they are, and a combined transaction stays signed.
LEMMA HeldStep == MoneyInv /\ Phases /\ Rounds /\ Held /\ [Next]_vars => Held'
<1> SUFFICES ASSUME MoneyInv, Phases, Rounds, Held, [Next]_vars
             PROVE  Held'
  OBVIOUS
<1>i. TypeOK /\ Ledger /\ Halfway
  BY DEF MoneyInv
<1>t. /\ row \in [Participants -> Rows] /\ \A p \in Participants : row[p] \in Rows
      /\ task \in Tasks /\ DOMAIN mix = {"st", "retries", "late"}
      /\ task.todo \subseteq Participants /\ task.cur \subseteq Participants
      /\ skel \in [1..MaxSkeletons -> SUBSET Participants] /\ tx.id \in Nat
      /\ tx \in [id : Nat, st : {"unsent", "live", "confirmed", "conflicted"}]
  BY <1>i DEF TypeOK, Tasks
<1>m. /\ mix.st = "signing" => skel[nskel] \subseteq Participants
      /\ mix.st = "broadcast" => skel[tx.id] \subseteq Participants
  BY <1>t DEF Rounds, Signing, Held
<1>s. ASSUME UNCHANGED <<row, skel, nskel, mix, tx>>, ~Pushing'
      PROVE  Held'
  BY <1>s DEF Held
<1>c. ASSUME NEW why, CancelFor(why) PROVE Held'
  BY <1>i, <1>c, <1>s, CancelBegins DEF LoopLeaves, Pushing
<1>d. ASSUME DestroyMix PROVE Held'
  <2>1. task'.pc = "idle" /\ mix'.st = "none" /\ \A p \in Participants : row'[p].st = "none"
    BY <1>t, <1>d DEF DestroyMix, NoRow, NoTask
  <2> QED
    BY <2>1 DEF Held, Pushing
\* One row is written; the transaction, the mix and the skeletons stay.
<1>r. ASSUME NEW p \in Participants, OnlyRow(p), UNCHANGED <<skel, nskel, tx>>, mix'.st = mix.st,
             row'[p].st \in {"committed", "paid", "signing", "signed"} => row'[p].inputs,
             mix.st = "signing" /\ row[p].st # "ghosted" => row'[p].inputs \/ ~row[p].inputs
                                                            \/ row'[p].st = "ghosted",
             mix.st = "signing" /\ row[p].st = "ghosted" => row'[p].st = "ghosted",
             mix.st = "broadcast" /\ row[p].inputs /\ row[p].st \in {"signed"} \cup Settled =>
               row'[p].inputs /\ row'[p].st \in {"signed"} \cup Settled,
             Pushing' => Firm' /\ task'.todo = {}
      PROVE  Held'
  <2>1. \A q \in Participants :
          row'[q].st \in {"committed", "paid", "signing", "signed"} => row'[q].inputs
    BY <1>r DEF Held, OnlyRow
  <2>2. mix.st = "signing" =>
          \A q \in skel[nskel] : row'[q].inputs \/ row'[q].st = "ghosted"
    BY <1>r, <1>m DEF Held, OnlyRow
  <2>3. mix.st = "broadcast" =>
          /\ tx.id \in 1..MaxSkeletons
          /\ \A q \in skel[tx.id] : row'[q].inputs /\ row'[q].st \in {"signed"} \cup Settled
    BY <1>r, <1>m DEF Held, OnlyRow
  <2> QED
    BY <1>r, <2>1, <2>2, <2>3 DEF Held
<1>1. ASSUME NEW p \in Participants, Handler(p) PROVE Held'
  <2>1. HandlerMoves(p)
    BY <1>i, <1>1, HandlerEffect
  <2>2. Pushing' => Firm' /\ task'.todo = {}
    <3> SUFFICES ASSUME Pushing' PROVE Firm' /\ task'.todo = {}
      OBVIOUS
    <3>1. Firm /\ task.todo = {} /\ mix.st = "signing"
      BY <2>1 DEF HandlerMoves, Pushing, Held, Phases
    <3>2. RoundGhosts' = {}
      BY <2>1, <3>1 DEF HandlerMoves, OnlyRow, Joins, Readies, Departs, SignsRound, Firm,
         RoundGhosts, RoundNum, In
    <3>3. \A q \in skel[nskel] : row'[q].st = "signed"
      BY <1>m, <2>1, <3>1 DEF HandlerMoves, OnlyRow, Joins, Readies, Departs, SignsRound, Firm
    <3> QED
      BY <2>1, <3>1, <3>2, <3>3 DEF HandlerMoves, Firm
  <2>3. /\ row'[p].st \in {"committed", "paid", "signing", "signed"} => row'[p].inputs
        /\ mix.st = "signing" /\ row[p].st # "ghosted" => row'[p].inputs \/ ~row[p].inputs
        /\ mix.st = "signing" /\ row[p].st = "ghosted" => row'[p].st = "ghosted"
        /\ mix.st = "broadcast" /\ row[p].inputs /\ row[p].st \in {"signed"} \cup Settled =>
               row'[p].inputs /\ row'[p].st \in {"signed"} \cup Settled
    <3>1. row[p].st = "none" <=> row[p].st = "none" /\ row[p].st \notin Settled
      BY DEF Settled
    <3>2. CASE row'[p] = row[p]
      BY <3>2 DEF Held
    <3>3. CASE Joins(p)
      BY <1>i, <3>3 DEF Joins, Ledger, Settled
    <3>4. CASE Readies(p)
      BY <3>4 DEF Readies, Held, Settled
    <3>5. CASE Departs(p)
      BY <3>5 DEF Departs, Settled
    <3>6. CASE SignsRound(p)
      BY <3>6 DEF SignsRound, Held, Settled
    <3> QED
      BY <2>1, <3>2, <3>3, <3>4, <3>5, <3>6 DEF HandlerMoves
  <2> QED
    BY <1>r, <2>1, <2>2, <2>3 DEF HandlerMoves
<1>2. ASSUME NEW p \in Participants, CancelRow(p) \/ SettleRefund(p), task.pc = "cancel"
      PROVE  Held'
  <2>1. /\ OnlyRow(p) /\ LoopLeaves /\ Keeps(p) /\ task'.pc = "cancel"
        /\ row'[p].st = row[p].st \/ row'[p].st \in Settled \ {"ghosted"}
        /\ row[p].st = "ghosted" => row'[p].st = "ghosted"
    BY <1>i, <1>2, CancellingEffect
  <2> QED
    BY <1>r, <2>1 DEF LoopLeaves, Keeps, Pushing, Held, Settled
<1>3. ASSUME NEW p \in Participants, SettleRefund(p), task.pc # "cancel" PROVE Held'
  <2>1. SettleMoves(p)
    BY <1>i, <1>3, SettleRowMoves
  <2>2. task'.pc = task.pc /\ row'[p].st = "none"
    BY <1>t, <1>3, <2>1 DEF SettleMoves, NoRow, Tasks
  <2>3. mix.st = "assembling" /\ ~Pushing'
    BY <1>i, <2>1, <2>2, <1>3 DEF SettleMoves, Phases, Halfway, Ready, Pushing
  <2> QED
    BY <1>r, <2>1, <2>2, <2>3 DEF SettleMoves, LoopLeaves
<1>4. ASSUME NEW p \in Participants, Drop(p) PROVE Held'
  <2>1. DropMoves(p) /\ mix.st = "assembling" /\ ~Pushing'
    BY <1>i, <1>4, DropRowMoves DEF DropMoves, Phases, Pushing
  <2> QED
    BY <1>r, <2>1 DEF DropMoves, LoopLeaves, Settled
<1>5. ASSUME NEW p \in Participants, PayTimeout(p) PROVE Held'
  <2>1. /\ task'.pc = "collect" /\ mix.st = "collecting" /\ OnlyRow(p)
        /\ row'[p].st \in {"cancelled", "none"} /\ UNCHANGED <<skel, nskel, tx, mix>>
    BY <1>t, <1>5 DEF PayTimeout, OnlyRow, NoRow, Tasks, Rows, Phases, built
  <2> QED
    BY <1>r, <2>1 DEF Pushing
<1>6. ASSUME NEW p \in Participants, DeleteInterested(p) PROVE Held'
  <2>1. /\ task'.pc \in {"cleanup", "idle"} /\ mix.st = "assembling" /\ OnlyRow(p)
        /\ row'[p] = row[p] \/ row'[p].st = "none"
        /\ UNCHANGED <<skel, nskel, tx, mix>>
    BY <1>t, <1>6 DEF DeleteInterested, OnlyRow, NoRow, NoTask, Tasks, Phases, built
  <2> QED
    BY <1>6, <1>r, <2>1 DEF Pushing, DeleteInterested, built, Held
<1>7. ASSUME NEW p \in Participants, SendRound(p) \/ MarkSigning(p) PROVE Held'
  <2>1. /\ task.pc = "send" /\ mix.st = "assembling" /\ p \in task.todo \cup task.cur
        /\ UNCHANGED <<skel, nskel, tx, mix>>
    BY <1>7 DEF SendRound, MarkSigning, Phases, built
  <2>2. OnlyRow(p) /\ row'[p].inputs = row[p].inputs /\ task'.pc = "send"
    <3>1. CASE SendRound(p)
      BY <1>t, <3>1 DEF SendRound, Sent, OnlyRow, Rows, Tasks
    <3>2. CASE MarkSigning(p)
      BY <1>t, <3>2 DEF MarkSigning, OnlyRow, Rows, Tasks
    <3> QED
      BY <1>7, <3>1, <3>2
  <2>3. row[p].inputs
    BY <1>i, <2>1 DEF Halfway, Ready, Held
  <2> QED
    BY <1>r, <2>1, <2>2, <2>3 DEF Pushing
<1>8. ASSUME NEW p \in Participants, MarkGhost(p) \/ RecoverSurvivor(p) PROVE Held'
  <2>1. /\ task.pc \in {"ghost", "recover"} /\ p \in task.todo /\ mix.st = "signing"
        /\ UNCHANGED <<mix, skel, nskel, tx>> /\ row[p].st \in {"signing", "signed"}
    BY <1>i, <1>8 DEF MarkGhost, RecoverSurvivor, Halfway, built
  <2>2. /\ OnlyRow(p) /\ task'.pc = task.pc /\ row'[p].inputs = row[p].inputs
    <3>1. CASE MarkGhost(p)
      BY <1>t, <3>1 DEF MarkGhost, OnlyRow, Rows, Tasks
    <3>2. CASE RecoverSurvivor(p)
      BY <1>t, <3>2 DEF RecoverSurvivor, OnlyRow, Rows, Tasks
    <3> QED
      BY <1>8, <3>1, <3>2
  <2>3. row[p].inputs
    BY <2>1 DEF Held
  <2> QED
    BY <1>r, <2>1, <2>2, <2>3 DEF Pushing
<1>9. CASE \/ TickCollecting \/ TickAssembling \/ TickSigning \/ SweepUnconfirmed \/ FinishCleanup
           \/ KeepCollecting \/ KeepSigning \/ RebroadcastLost \/ BlacklistGhost \/ Crash
  <2>1. UNCHANGED <<row, skel, nskel, mix, tx>>
    BY <1>9 DEF TickCollecting, TickAssembling, TickSigning, SweepUnconfirmed, FinishCleanup,
       KeepCollecting, KeepSigning, RebroadcastLost, BlacklistGhost, Crash, built
  <2>2. ~Pushing'
    <3>1. CASE TickCollecting \/ TickAssembling \/ TickSigning \/ SweepUnconfirmed
      BY <3>1 DEF TickCollecting, TickAssembling, TickSigning, SweepUnconfirmed, NoTask, Pushing
    <3>2. CASE BlacklistGhost
      BY <1>t, <3>2 DEF BlacklistGhost, Tasks, Pushing
    <3>3. NoTask.pc = "idle"
      BY DEF NoTask
    <3> QED
      BY <1>9, <3>1, <3>2, <3>3 DEF FinishCleanup, KeepCollecting, KeepSigning, RebroadcastLost,
         Crash, Pushing
  <2> QED
    BY <1>s, <2>1, <2>2
<1>10. CASE StarvedDropped
  <2>1. CASE TargetLost
    BY <1>c, <1>10, <2>1 DEF StarvedDropped
  <2>2. CASE ~TargetLost
    <3>1. task'.pc = "underfunded" /\ UNCHANGED <<mix, row, skel, nskel, tx>>
      BY <1>t, <1>10, <2>2 DEF StarvedDropped, Tasks, built
    <3> QED
      BY <1>s, <3>1 DEF Pushing
  <2> QED
    BY <2>1, <2>2
<1>11. CASE BuildSkeleton
  <2>1. task'.pc = "send" /\ UNCHANGED <<mix, row>> /\ mix.st = "assembling"
    BY <1>11 DEF BuildSkeleton, DropsDone, Phases, NoTask
  <2> QED
    BY <2>1 DEF Held, Pushing
<1>12. CASE StartSigning
  <2>1. /\ Sending /\ task.todo = {} /\ task.cur = {} /\ UNCHANGED <<row, skel, nskel>>
        /\ mix'.st = "signing" /\ task'.pc = "idle"
    BY <1>t, <1>12 DEF StartSigning, DropsDone, Rounds, NoTask, built
  <2>2. \A p \in skel[nskel] : p \in Participants /\ row[p].inputs
    BY <1>t, <2>1 DEF Sending, Held
  <2> QED
    BY <2>1, <2>2 DEF Held, Pushing
<1>13. CASE ProceedToAssembling \/ FinishRecovery
  <2>1. UNCHANGED <<row, skel, nskel, tx>> /\ mix'.st \in {"assembling", "collecting"}
    BY <1>t, <1>13 DEF ProceedToAssembling, FinishRecovery, built
  <2>2. ~Pushing'
    <3>1. CASE ProceedToAssembling
      BY <3>1 DEF ProceedToAssembling, NoTask, Pushing
    <3>2. CASE FinishRecovery
      BY <3>2 DEF FinishRecovery, NoTask, Pushing
    <3> QED
      BY <1>13, <3>1, <3>2
  <2> QED
    BY <2>1, <2>2 DEF Held
<1>14. CASE BeginRecovery
  <2>1. /\ task'.pc = "recover" /\ UNCHANGED <<mix, skel, nskel, tx>>
        /\ mix.st = "signing"
    BY <1>i, <1>14, RecoveryEffect DEF BeginRecovery, built, Halfway
  <2>2. \A q \in Participants : /\ row'[q].st = row[q].st
                                /\ row'[q].inputs = row[q].inputs \/ row[q].st = "ghosted"
    BY <1>t, <1>14 DEF BeginRecovery, Rows, RoundGhosts, In
  <2> QED
    BY <1>m, <2>1, <2>2 DEF Held, Pushing
<1>15. CASE Combine
  BY <1>15, CombineEffect DEF Held
<1>16. CASE PushTx
  <2>1. /\ UNCHANGED <<mix, row, skel, nskel>> /\ tx'.id = tx.id /\ task'.todo = task.todo
        /\ task.pc = "push" /\ mix.st = "signing"
    BY <1>t, <1>16 DEF PushTx, Tasks, Phases, built
  <2> QED
    BY <2>1 DEF Held, Pushing, Firm, RoundGhosts, RoundNum, In
<1>17. CASE RecordBroadcast
  <2>1. /\ UNCHANGED <<row, skel, nskel, tx>> /\ mix'.st = "broadcast" /\ task'.pc = "idle"
        /\ Firm /\ mix.st = "signing"
    BY <1>t, <1>17 DEF RecordBroadcast, NoTask, Phases, Pushing, Held, built
  <2>2. tx.id \in 1..MaxSkeletons /\ \A p \in skel[tx.id] : row[p].inputs /\ row[p].st = "signed"
    BY <1>m, <2>1 DEF Firm, Rounds, Signing, Held
  <2> QED
    BY <2>1, <2>2 DEF Held, Pushing
<1>18. CASE Rebroadcast
  <2>1. /\ UNCHANGED <<mix, row, skel, nskel>> /\ tx'.id = tx.id /\ task'.pc = "idle"
    BY <1>t, <1>18 DEF Rebroadcast, NoTask, built
  <2> QED
    BY <2>1 DEF Held, Pushing
<1>19. CASE CancelUnfilled \/ AssemblyRefused \/ GiveUpOnGhosts \/ CombineFails
            \/ BroadcastFailed \/ ConflictFound
  BY <1>c, <1>19 DEF CancelUnfilled, AssemblyRefused, GiveUpOnGhosts, CombineFails,
     BroadcastFailed, ConflictFound
<1>20. CASE FinishCancel \/ SweepConfirmed
  BY <1>d, <1>20 DEF FinishCancel, SweepConfirmed
<1>21. CASE Clock \/ Network \/ UNCHANGED vars
  <2>1. /\ \A q \in Participants : /\ row'[q].st = row[q].st /\ row'[q].num = row[q].num
                                   /\ row'[q].inputs = row[q].inputs
        /\ UNCHANGED <<task, skel, nskel>> /\ mix'.st = mix.st /\ mix'.retries = mix.retries
        /\ tx'.id = tx.id
    <3>1. ASSUME NEW p \in Participants, RowDeadlinePasses(p)
          PROVE  /\ OnlyRow(p) /\ Keeps(p) /\ row'[p].st = row[p].st
                 /\ UNCHANGED <<task, skel, nskel, mix, tx>>
      BY <1>t, <3>1 DEF RowDeadlinePasses, OnlyRow, Keeps, Rows, built
    <3>2. CASE FillDeadlinePasses
      BY <1>t, <3>2 DEF FillDeadlinePasses, built
    <3>3. CASE Network \/ UNCHANGED vars
      BY <1>t, <3>3 DEF Network, Confirm, Evict, DoubleSpend, vars, built
    <3> QED
      BY <1>21, <3>1, <3>2, <3>3 DEF Clock, OnlyRow, Keeps
  <2> QED
    BY <1>m, <2>1 DEF Held, Firm, Pushing, RoundGhosts, RoundNum, In, Phases
<1> QED
  BY <1>1, <1>2, <1>3, <1>4, <1>5, <1>6, <1>7, <1>8, <1>9, <1>10, <1>11, <1>12, <1>13,
     <1>14, <1>15, <1>16, <1>17, <1>18, <1>19, <1>20, <1>21
     DEF Next, Handlers, Handler, EventLoop, Destroyed, CancelRow

-----------------------------------------------------------------------------
(***************************************************************************)
(* What a combined transaction rests on.                                   *)
(***************************************************************************)

\* A round is given up for want of signatures only where a member of it was settled
\* by an earlier, interrupted cancellation.
LEMMA CombineFailsEffect ==
  ASSUME MoneyInv, Phases, Rounds, CombineFails
  PROVE  \/ Cardinality(skel[nskel]) < 2
         \/ \E p \in skel[nskel] : row[p].st \in Settled \ {"ghosted"}
<1> SUFFICES ASSUME ~(Cardinality(skel[nskel]) < 2),
                    \A p \in skel[nskel] : row[p].st \notin Settled \ {"ghosted"}
             PROVE  FALSE
  OBVIOUS
<1>t. skel \in [1..MaxSkeletons -> SUBSET Participants] /\ IsFiniteSet(Participants)
      /\ MaxSkeletons \in Nat
  BY MixRoundAssumption DEF MoneyInv, TypeOK
<1>1. /\ RoundGhosts = {} /\ AllSigned
      /\ Returned = {} \/ \E p \in Returned : ~Combinable(row[p].sent)
      /\ Signing
  BY DEF CombineFails, GhostsMarked, DropsDone, Phases, Rounds
<1>2. skel[nskel] \subseteq Participants /\ nskel \in Nat /\ nskel # 0
  BY <1>t, <1>1 DEF Signing
<1>3. skel[nskel] \subseteq Matching(nskel)
  <2> SUFFICES ASSUME NEW p \in skel[nskel]
               PROVE  p \in Matching(nskel)
    OBVIOUS
  <2>1. /\ OnRound(p) /\ p \in Participants
        /\ row[p].st \in {"signing", "signed", "ghosted"}
    BY <1>1, <1>2 DEF Signing, MemberOf
  <2>2. p \notin RoundGhosts
    BY <1>1
  <2>3. p \in Remaining
    BY <1>1, <2>1, <2>2 DEF OnRound, RoundGhosts, Remaining, In
  <2> QED
    BY <1>1, <1>2, <2>1, <2>3 DEF AllSigned, OnRound, Matching, Returned
<1>4. Cardinality(Matching(nskel)) >= 2
  <2>1. IsFiniteSet(Matching(nskel))
    BY <1>t, FS_Subset DEF Matching, Returned, Remaining, In
  <2>2. /\ Cardinality(skel[nskel]) <= Cardinality(Matching(nskel))
        /\ Cardinality(Matching(nskel)) \in Nat /\ Cardinality(skel[nskel]) \in Nat
    BY <1>3, <2>1, FS_Subset, FS_CardinalityType
  <2> QED
    BY <2>2
<1>5. Combinable(nskel)
  BY <1>3, <1>4 DEF Combinable
<1>6. Matching(nskel) # {}
  <2>1. skel[nskel] # {}
    BY FS_EmptySet
  <2> QED
    BY <1>3, <2>1
<1>7. \A p \in Returned : row[p].sent = nskel
  BY <1>1 DEF Returned, Signing, MemberOf, OnRound
<1> QED
  BY <1>1, <1>5, <1>6, <1>7 DEF Matching

Failed == task.why = "combine" => mix.st = "signing" /\ CombineSucceeds

\* The failure keeps its reason until the mix is gone.
LEMMA FailedStep == MoneyInv /\ Phases /\ Rounds /\ Failed /\ [Next]_vars => Failed'
<1> SUFFICES ASSUME MoneyInv, Phases, Rounds, Failed, [Next]_vars, task'.why = "combine"
             PROVE  mix'.st = "signing" /\ CombineSucceeds'
  BY DEF Failed
<1>i. TypeOK /\ Ledger /\ Halfway
  BY DEF MoneyInv
<1>t. /\ row \in [Participants -> Rows] /\ \A p \in Participants : row[p] \in Rows
      /\ task \in Tasks /\ DOMAIN mix = {"st", "retries", "late"}
      /\ skel \in [1..MaxSkeletons -> SUBSET Participants]
  BY <1>i DEF TypeOK, Tasks
<1>p. task'.pc = "cancel"
  BY PhasesStep DEF Phases
<1>m. mix.st = "signing" => skel[nskel] \subseteq Participants
  BY <1>t DEF Rounds, Signing
\* The cancellation goes on.
<1>r. ASSUME task.why = "combine", UNCHANGED <<skel, nskel>>, mix'.st = mix.st,
             \A q \in Participants : row[q].st \in Settled \ {"ghosted"} =>
                                       row'[q].st \in Settled \ {"ghosted"}
      PROVE  mix'.st = "signing" /\ CombineSucceeds'
  BY <1>m, <1>r DEF Failed, CombineSucceeds
<1>1. ASSUME NEW p \in Participants, Handler(p) PROVE mix'.st = "signing" /\ CombineSucceeds'
  <2>1. HandlerMoves(p)
    BY <1>i, <1>1, HandlerEffect
  <2>2. \A q \in Participants : row[q].st \in Settled => row'[q].st = row[q].st
    BY <1>i, <2>1 DEF HandlerMoves, OnlyRow, Joins, Readies, Departs, SignsRound, Settled, Ledger
  <2> QED
    BY <1>r, <2>1, <2>2 DEF HandlerMoves
<1>2. ASSUME NEW p \in Participants, CancelRow(p) \/ SettleRefund(p)
      PROVE  mix'.st = "signing" /\ CombineSucceeds'
  <2>1. task.pc = "cancel"
    <3>1. CASE SettleRefund(p)
      BY <1>i, <1>p, <1>t, <3>1, SettleRowMoves DEF SettleMoves, Tasks
    <3> QED
      BY <1>2, <3>1 DEF CancelRow
  <2>2. /\ OnlyRow(p) /\ LoopLeaves /\ task'.why = task.why
        /\ row'[p].st = row[p].st \/ row'[p].st \in Settled \ {"ghosted"}
    BY <1>i, <1>2, <2>1, CancellingEffect
  <2> QED
    BY <1>r, <2>2 DEF OnlyRow, LoopLeaves
<1>3. CASE CombineFails
  <2>1. /\ UNCHANGED <<mix, skel, nskel, row>> /\ mix.st = "signing"
    BY <1>3, CombineFailsEffect DEF CombineFails, CancelFor, built, GhostsMarked, DropsDone, Phases
  <2> QED
    BY <1>3, <2>1, CombineFailsEffect DEF CombineSucceeds
<1>4. CASE CancelUnfilled \/ AssemblyRefused \/ GiveUpOnGhosts \/ BroadcastFailed \/ ConflictFound
  BY <1>4, <1>i, CancelBegins DEF CancelUnfilled, AssemblyRefused, GiveUpOnGhosts, BroadcastFailed,
     ConflictFound
<1>5. CASE StarvedDropped
  <2>1. CASE TargetLost
    BY <1>5, <1>i, <2>1, CancelBegins DEF StarvedDropped
  <2>2. CASE ~TargetLost
    BY <1>5, <1>p, <1>t, <2>2 DEF StarvedDropped, Tasks
  <2> QED
    BY <2>1, <2>2
<1>6. CASE Clock \/ Network \/ UNCHANGED vars
  <2>1. /\ \A q \in Participants : row'[q].st = row[q].st
        /\ UNCHANGED <<task, skel, nskel>> /\ mix'.st = mix.st
    <3>1. ASSUME NEW p \in Participants, RowDeadlinePasses(p)
          PROVE  /\ OnlyRow(p) /\ row'[p].st = row[p].st
                 /\ UNCHANGED <<task, skel, nskel, mix>>
      BY <1>t, <3>1 DEF RowDeadlinePasses, OnlyRow, Rows, built
    <3>2. CASE FillDeadlinePasses
      BY <1>t, <3>2 DEF FillDeadlinePasses, built
    <3>3. CASE Network \/ UNCHANGED vars
      BY <3>3 DEF Network, Confirm, Evict, DoubleSpend, vars, built
    <3> QED
      BY <1>6, <3>1, <3>2, <3>3 DEF Clock, OnlyRow
  <2> QED
    BY <1>r, <2>1
<1>7. ASSUME NEW p \in Participants, Drop(p) \/ RowMoves(p) PROVE FALSE
  <2>1. CASE Drop(p)
    BY <1>i, <1>p, <2>1, DropRowMoves DEF DropMoves
  <2>2. CASE DeleteInterested(p)
    BY <1>p, <1>t, <2>2 DEF DeleteInterested, NoTask, Tasks
  <2>3. CASE PayTimeout(p) \/ SendRound(p) \/ MarkSigning(p) \/ MarkGhost(p) \/ RecoverSurvivor(p)
    BY <1>p, <1>t, <2>3 DEF PayTimeout, SendRound, MarkSigning, MarkGhost, RecoverSurvivor, Tasks
  <2> QED
    BY <1>7, <2>1, <2>2, <2>3 DEF RowMoves
<1>8. CASE \/ TickCollecting \/ TickAssembling \/ TickSigning \/ SweepUnconfirmed
           \/ ProceedToAssembling \/ BuildSkeleton \/ Combine \/ BlacklistGhost \/ PushTx
           \/ BeginRecovery
  <2>1. CASE TickCollecting \/ TickAssembling \/ TickSigning \/ SweepUnconfirmed
    BY <1>p, <2>1 DEF TickCollecting, TickAssembling, TickSigning, SweepUnconfirmed, NoTask
  <2>2. CASE ProceedToAssembling \/ BuildSkeleton \/ Combine
    BY <1>p, <2>2 DEF ProceedToAssembling, BuildSkeleton, Combine, NoTask
  <2>3. CASE BlacklistGhost \/ PushTx \/ BeginRecovery
    BY <1>p, <1>t, <2>3 DEF BlacklistGhost, PushTx, BeginRecovery, Tasks
  <2> QED
    BY <1>8, <2>1, <2>2, <2>3
<1>9. CASE \/ FinishCleanup \/ KeepCollecting \/ StartSigning \/ FinishRecovery \/ KeepSigning
           \/ RecordBroadcast \/ Rebroadcast \/ RebroadcastLost \/ Crash \/ FinishCancel
           \/ SweepConfirmed
  <2>1. task' = NoTask
    BY <1>9 DEF FinishCleanup, KeepCollecting, StartSigning, FinishRecovery, KeepSigning,
       RecordBroadcast, Rebroadcast, RebroadcastLost, Crash, FinishCancel, SweepConfirmed, DestroyMix
  <2> QED
    BY <1>p, <2>1 DEF NoTask
<1> QED
  BY <1>1, <1>2, <1>3, <1>4, <1>5, <1>6, <1>7, <1>8, <1>9
     DEF Next, Handlers, Handler, EventLoop, RowMoves, Destroyed

OnNetwork == tx.st \in {"live", "confirmed"}

\* As long as the network can be believed: a transaction it has is signed by all, and
\* its mix is not cancelled.
Live ==
  /\ mix.st = "signing" /\ OnNetwork =>
       /\ Firm /\ task.pc \in {"idle", "ghost", "push", "record", "ask"}
       /\ task.todo = {} /\ task.cur = {}
  /\ OnNetwork => mix.st \in {"signing", "broadcast", "none"} /\ task.pc # "cancel"
  /\ mix.st = "broadcast" =>
       \/ tx.st = "conflicted"
       \/ task.pc # "cancel" /\ \A p \in skel[tx.id] : row[p].st = "signed"
  /\ mix.st = "none" => LiveTxNotRefunded

\* Whoever signed a transaction that the network has, has had nothing back.
LEMMA LiveImplies == MoneyInv /\ Rounds /\ Held /\ Live => LiveTxNotRefunded
<1> SUFFICES ASSUME MoneyInv, Rounds, Held, Live, OnNetwork, mix.st # "none",
                    NEW p \in skel[tx.id]
             PROVE  payout[p] = 0 /\ p \notin owed
  BY DEF Live, LiveTxNotRefunded, OnNetwork
<1>1. tx.id \in 1..MaxSkeletons /\ row[p].st = "signed"
  BY DEF Live, Held, Firm, Rounds, Signing, OnNetwork
<1>2. p \in Participants
  BY <1>1 DEF MoneyInv, TypeOK
<1> QED
  BY <1>1, <1>2 DEF MoneyInv, Ledger, Active

\* No step cancels a mix whose transaction the network has.
LEMMA LiveStep ==
  ASSUME ~Misreports, MoneyInv, Phases, Rounds, Held, Live, [Next]_vars
  PROVE  Live'
<1>i. TypeOK /\ Ledger /\ Halfway
  BY DEF MoneyInv
<1>t. /\ row \in [Participants -> Rows] /\ \A p \in Participants : row[p] \in Rows
      /\ task \in Tasks /\ DOMAIN mix = {"st", "retries", "late"}
      /\ task.todo \subseteq Participants /\ task.cur \subseteq Participants
      /\ skel \in [1..MaxSkeletons -> SUBSET Participants] /\ tx.id \in Nat
      /\ tx \in [id : Nat, st : {"unsent", "live", "confirmed", "conflicted"}]
      /\ mix.st \in MixStates
  BY <1>i DEF TypeOK, Tasks
<1>m. /\ mix.st = "signing" => skel[nskel] \subseteq Participants
      /\ mix.st = "broadcast" => skel[tx.id] \subseteq Participants
  BY <1>t DEF Rounds, Signing, Held
<1>f. Firm => RoundGhosts = {} /\ \A p \in skel[nskel] : row[p].st = "signed"
  BY DEF Firm
<1>g. mix.st = "signing" /\ Firm => Remaining \subseteq skel[nskel] /\ AllSigned /\ Lapsed = {}
  <2> SUFFICES ASSUME mix.st = "signing", Firm
               PROVE  Remaining \subseteq skel[nskel] /\ AllSigned /\ Lapsed = {}
    OBVIOUS
  <2>1. Remaining \subseteq skel[nskel] /\ \A p \in Remaining : row[p].st = "signed"
    BY DEF Rounds, Signing, Firm
  <2>2. skel[nskel] # {}
    BY FS_EmptySet DEF Firm
  <2>3. skel[nskel] \subseteq Remaining
    BY <1>m DEF Firm, Remaining, In
  <2> QED
    BY <2>1, <2>2, <2>3 DEF AllSigned, Lapsed, Remaining, In
\* A mix that has sent nothing out has nothing on the network.
<1>a. ASSUME mix.st \in {"collecting", "assembling"}, tx' = tx,
             mix'.st \in {"collecting", "assembling", "signing"}
      PROVE  Live'
  BY <1>a DEF Live, OnNetwork
<1>1. ASSUME NEW p \in Participants, Handler(p) PROVE Live'
  <2>1. HandlerMoves(p)
    BY <1>i, <1>1, HandlerEffect
  <2>2. Firm /\ mix.st = "signing" => Firm'
    <3> SUFFICES ASSUME Firm, mix.st = "signing" PROVE Firm'
      OBVIOUS
    <3>2. RoundGhosts' = {}
      BY <2>1 DEF HandlerMoves, OnlyRow, Joins, Readies, Departs, SignsRound, Firm,
         RoundGhosts, RoundNum, In
    <3>3. \A q \in skel[nskel] : row'[q].st = "signed"
      BY <1>m, <2>1 DEF HandlerMoves, OnlyRow, Joins, Readies, Departs, SignsRound, Firm
    <3> QED
      BY <2>1, <3>2, <3>3 DEF HandlerMoves, Firm
  <2>3. \A q \in Participants : row[q].st = "signed" => row'[q].st = "signed"
    BY <1>i, <2>1 DEF HandlerMoves, OnlyRow, Joins, Readies, Departs, SignsRound, Ledger
  <2>4. mix.st = "none" => UNCHANGED money
    <3> SUFFICES ASSUME mix.st = "none" PROVE UNCHANGED money
      OBVIOUS
    <3>1. row[p].st = "none"
      BY DEF Phases
    <3> QED
      BY <2>1, <3>1 DEF HandlerMoves, Joins, Readies, Departs, SignsRound
  <2>5. UNCHANGED <<tx, task, skel, nskel>> /\ mix'.st = mix.st
    BY <2>1 DEF HandlerMoves
  <2>6. mix.st = "none" => LiveTxNotRefunded'
    BY <2>4, <2>5 DEF Live, LiveTxNotRefunded, money
  <2>7. mix.st = "broadcast" /\ tx.st # "conflicted" =>
          task.pc # "cancel" /\ \A q \in skel[tx.id] : row'[q].st = "signed"
    BY <1>m, <2>3 DEF Live
  <2> QED
    BY <2>2, <2>5, <2>6, <2>7 DEF Live, OnNetwork
<1>2. ASSUME NEW p \in Participants, CancelRow(p) \/ SettleRefund(p) PROVE Live'
  <2>1. CASE task.pc = "cancel"
    <3>1. /\ LoopLeaves /\ task'.pc = "cancel"
      BY <1>i, <1>2, <2>1, CancellingEffect
    <3>2. ~OnNetwork /\ mix.st # "none" /\ (mix.st = "broadcast" => tx.st = "conflicted")
      BY <2>1 DEF Live, Phases
    <3> QED
      BY <3>1, <3>2 DEF LoopLeaves, Live, OnNetwork
  <2>2. CASE task.pc # "cancel"
    <3>1. SettleMoves(p)
      BY <1>i, <1>2, <2>2, SettleRowMoves DEF CancelRow
    <3>2. mix.st = "assembling"
      BY <1>i, <2>2, <3>1 DEF SettleMoves, Phases, Halfway, Ready
    <3> QED
      BY <1>a, <3>1, <3>2 DEF SettleMoves, LoopLeaves
  <2> QED
    BY <2>1, <2>2
<1>3. ASSUME NEW p \in Participants,
             Drop(p) \/ PayTimeout(p) \/ DeleteInterested(p) \/ SendRound(p) \/ MarkSigning(p)
      PROVE  Live'
  <2>1. mix' = mix /\ tx' = tx /\ mix.st \in {"collecting", "assembling"}
    BY <1>3 DEF Drop, PayTimeout, DeleteInterested, SendRound, MarkSigning, Phases
  <2> QED
    BY <1>a, <2>1
<1>4. CASE \/ TickCollecting \/ KeepCollecting \/ CancelUnfilled \/ ProceedToAssembling
           \/ TickAssembling \/ FinishCleanup \/ StarvedDropped \/ AssemblyRefused
           \/ BuildSkeleton \/ StartSigning
  <2>1. mix.st \in {"collecting", "assembling"}
    BY <1>4 DEF TickCollecting, KeepCollecting, CancelUnfilled, ProceedToAssembling, CollectDone,
       TickAssembling, FinishCleanup, StarvedDropped, AssemblyRefused, BuildSkeleton, StartSigning,
       DropsDone, Phases
  <2>2. tx' = tx
    BY <1>4 DEF TickCollecting, KeepCollecting, CancelUnfilled, ProceedToAssembling,
       TickAssembling, FinishCleanup, StarvedDropped, AssemblyRefused, BuildSkeleton, StartSigning,
       CancelFor
  <2>3. mix' = mix \/ mix'.st \in {"assembling", "signing"}
    BY <1>4, <1>t DEF TickCollecting, KeepCollecting, CancelUnfilled, ProceedToAssembling,
       TickAssembling, FinishCleanup, StarvedDropped, AssemblyRefused, BuildSkeleton, StartSigning,
       CancelFor
  <2> QED
    BY <1>a, <2>1, <2>2, <2>3
<1>5. ASSUME NEW p \in Participants, MarkGhost(p) \/ RecoverSurvivor(p) PROVE Live'
  <2>1. mix.st = "signing" /\ ~OnNetwork /\ UNCHANGED <<mix, tx>>
    BY <1>5 DEF MarkGhost, RecoverSurvivor, Phases, Live
  <2> QED
    BY <2>1 DEF Live, OnNetwork
<1>6. CASE BlacklistGhost \/ GiveUpOnGhosts \/ BeginRecovery \/ FinishRecovery
  <2>1. mix.st = "signing" /\ tx' = tx
    BY <1>6 DEF BlacklistGhost, GiveUpOnGhosts, BeginRecovery, FinishRecovery, GhostsMarked,
       DropsDone, CancelFor, Phases
  <2>2. ~OnNetwork
    BY <1>6, <2>1, <1>f DEF BlacklistGhost, GiveUpOnGhosts, BeginRecovery, FinishRecovery,
       GhostsMarked, DropsDone, Live
  <2>3. mix' = mix \/ mix'.st = "collecting"
    <3>1. CASE FinishRecovery
      BY <3>1 DEF FinishRecovery
    <3> QED
      BY <1>6, <3>1 DEF BlacklistGhost, GiveUpOnGhosts, BeginRecovery, CancelFor
  <2> QED
    BY <2>1, <2>2, <2>3 DEF Live, OnNetwork
<1>7. CASE TickSigning \/ KeepSigning
  <2>1. UNCHANGED <<mix, row, skel, nskel, tx>> /\ mix.st = "signing"
    BY <1>7 DEF TickSigning, KeepSigning, GhostsMarked, DropsDone, Phases, built
  <2>2. /\ task'.pc \in {"ghost", "idle"} /\ task'.cur = {}
        /\ Firm => task'.todo = {}
    <3>1. CASE TickSigning
      BY <1>g, <2>1, <3>1 DEF TickSigning, NoTask
    <3>2. CASE KeepSigning
      BY <3>2 DEF KeepSigning, NoTask
    <3> QED
      BY <1>7, <3>1, <3>2
  <2> QED
    BY <2>1, <2>2 DEF Live, OnNetwork, Firm, RoundGhosts, RoundNum, In
<1>8. CASE Combine
  BY <1>8, CombineEffect DEF Live, OnNetwork
<1>9. CASE CombineFails
  <2>1. mix.st = "signing" /\ UNCHANGED <<mix, tx>>
    BY <1>9 DEF CombineFails, GhostsMarked, DropsDone, CancelFor, Phases
  <2>2. ~Firm
    BY <1>9, CombineFailsEffect DEF Firm, Settled
  <2> QED
    BY <2>1, <2>2 DEF Live, OnNetwork
<1>10. CASE PushTx
  <2>1. /\ UNCHANGED <<mix, row, skel, nskel>> /\ tx'.id = tx.id /\ task'.todo = task.todo
        /\ task'.cur = task.cur /\ task'.pc \in {"record", "ask"}
        /\ task.pc = "push" /\ mix.st = "signing" /\ task.cur = {}
    BY <1>t, <1>10 DEF PushTx, Tasks, Phases, built
  <2>2. Firm' /\ task.todo = {}
    BY <2>1 DEF Held, Pushing, Firm, RoundGhosts, RoundNum, In
  <2> QED
    BY <2>1, <2>2 DEF Live
<1>11. CASE RecordBroadcast
  <2>1. /\ UNCHANGED <<row, skel, nskel, tx>> /\ mix'.st = "broadcast" /\ task'.pc = "idle"
        /\ Firm /\ mix.st = "signing"
    BY <1>t, <1>11 DEF RecordBroadcast, NoTask, Phases, Pushing, Held, built
  <2> QED
    BY <2>1 DEF Live, OnNetwork, Firm
<1>12. CASE BroadcastFailed
  <2>1. mix.st = "signing" /\ UNCHANGED <<mix, tx>> /\ ~OnNetwork
    BY <1>12 DEF BroadcastFailed, Rejected, SaysUnknown, CancelFor, OnNetwork, Phases
  <2> QED
    BY <2>1 DEF Live, OnNetwork
<1>13. CASE FinishCancel
  <2>1. mix'.st = "none" /\ tx' = tx /\ ~OnNetwork
    BY <1>t, <1>13 DEF FinishCancel, DestroyMix, Live
  <2> QED
    BY <2>1 DEF Live, OnNetwork, LiveTxNotRefunded
<1>14. CASE SweepConfirmed
  <2>1. /\ mix'.st = "none" /\ UNCHANGED <<tx, skel, payout>> /\ owed' = owed \cup Debts
        /\ task'.pc = "idle" /\ mix.st = "broadcast" /\ tx.st = "confirmed"
    BY <1>t, <1>14 DEF SweepConfirmed, DestroyMix, NoTask, built
  <2>2. \A p \in skel[tx.id] : row[p].st = "signed" /\ p \in Participants
    BY <1>m, <2>1 DEF Live
  <2>3. \A p \in skel[tx.id] : p \notin Debts
    BY <2>2 DEF Debts, In
  <2>4. LiveTxNotRefunded
    BY LiveImplies
  <2>5. LiveTxNotRefunded'
    BY <2>1, <2>3, <2>4 DEF LiveTxNotRefunded
  <2> QED
    BY <2>1, <2>5 DEF Live
<1>15. CASE SweepUnconfirmed \/ RebroadcastLost \/ Rebroadcast
  <2>1. /\ UNCHANGED <<mix, row, skel, nskel>> /\ tx'.id = tx.id /\ mix.st = "broadcast"
        /\ task'.pc # "cancel"
    <3>1. CASE SweepUnconfirmed
      BY <3>1 DEF SweepUnconfirmed, NoTask, built
    <3>2. CASE RebroadcastLost \/ Rebroadcast
      BY <1>t, <3>2 DEF RebroadcastLost, Rebroadcast, NoTask, Phases, built
    <3> QED
      BY <1>15, <3>1, <3>2
  <2>2. tx.st = "conflicted" => tx'.st = "conflicted"
    BY <1>t, <1>15 DEF SweepUnconfirmed, RebroadcastLost, Rebroadcast
  <2> QED
    BY <2>1, <2>2 DEF Live
<1>16. CASE ConflictFound
  <2>1. mix.st = "broadcast" /\ UNCHANGED <<mix, tx>> /\ tx.st = "conflicted"
    BY <1>16 DEF ConflictFound, SaysUnknown, CancelFor, Phases
  <2> QED
    BY <2>1 DEF Live, OnNetwork
<1>17. CASE Clock \/ Network \/ UNCHANGED vars
  <2>1. /\ \A q \in Participants : row'[q].st = row[q].st /\ row'[q].num = row[q].num
        /\ UNCHANGED <<task, skel, nskel, payout, owed>> /\ mix'.st = mix.st
        /\ mix'.retries = mix.retries /\ tx'.id = tx.id
        /\ OnNetwork' => OnNetwork
        /\ tx.st = "conflicted" => tx'.st = "conflicted"
    <3>1. ASSUME NEW p \in Participants, RowDeadlinePasses(p)
          PROVE  /\ OnlyRow(p) /\ row'[p].st = row[p].st /\ row'[p].num = row[p].num
                 /\ UNCHANGED <<task, skel, nskel, mix, tx, payout, owed>>
      BY <1>t, <3>1 DEF RowDeadlinePasses, OnlyRow, Rows, built, money
    <3>2. CASE FillDeadlinePasses
      BY <1>t, <3>2 DEF FillDeadlinePasses, built, money, OnNetwork
    <3>3. CASE Network \/ UNCHANGED vars
      BY <1>t, <3>3 DEF Network, Confirm, Evict, DoubleSpend, vars, built, money, OnNetwork
    <3> QED
      BY <1>17, <3>1, <3>2, <3>3 DEF Clock, OnlyRow, OnNetwork
  <2>2. mix.st = "signing" /\ Firm => Firm'
    BY <1>m, <2>1 DEF Firm, RoundGhosts, RoundNum, In
  <2>3. mix.st = "none" => LiveTxNotRefunded'
    BY <2>1 DEF Live, LiveTxNotRefunded, OnNetwork
  <2> QED
    BY <1>m, <2>1, <2>2, <2>3 DEF Live
<1>18. CASE Crash
  <2>1. /\ UNCHANGED <<mix, row, skel, nskel, tx>> /\ mix.st # "none"
        /\ task'.pc = "idle" /\ task'.todo = {} /\ task'.cur = {}
    BY <1>18 DEF Crash, Idle, NoTask, Phases, built
  <2> QED
    BY <2>1 DEF Live, OnNetwork, Firm, RoundGhosts, RoundNum, In
<1> QED
  BY <1>1, <1>2, <1>3, <1>4, <1>5, <1>6, <1>7, <1>8, <1>9, <1>10, <1>11, <1>12, <1>13,
     <1>14, <1>15, <1>16, <1>17, <1>18
     DEF Next, Handlers, Handler, EventLoop, Destroyed

-----------------------------------------------------------------------------
(***************************************************************************)
(* The target a mix advances on.                                           *)
(***************************************************************************)

\* Two participants, RequiredNC of them non-conforming.
Meets(S) == Cardinality(S) >= 2 /\ Cardinality(S \cap NonConforming) >= RequiredNC

\* One participant cannot stand for two: several non-conforming ones are asked for, or
\* nobody brings both kinds of coin.
Plural == RequiredNC >= 2 \/ NonConforming \cap Conforming = {}

\* More participants meet the target too.
LEMMA MeetsMore ==
  ASSUME NEW S, NEW T, S \subseteq T, T \subseteq Participants, Meets(S)
  PROVE  Meets(T)
<1>1. IsFiniteSet(T) /\ IsFiniteSet(T \cap NonConforming) /\ RequiredNC \in Nat
  BY MixRoundAssumption, FS_Subset
<1>2. S \cap NonConforming \subseteq T \cap NonConforming
  OBVIOUS
<1>3. /\ Cardinality(S) <= Cardinality(T)
      /\ Cardinality(S \cap NonConforming) <= Cardinality(T \cap NonConforming)
      /\ Cardinality(S) \in Nat /\ Cardinality(T) \in Nat
      /\ Cardinality(S \cap NonConforming) \in Nat /\ Cardinality(T \cap NonConforming) \in Nat
  <2>1. IsFiniteSet(S) /\ IsFiniteSet(S \cap NonConforming)
    BY <1>1, <1>2, FS_Subset
  <2> QED
    BY <1>1, <1>2, <2>1, FS_Subset, FS_CardinalityType
<1> QED
  BY <1>1, <1>3 DEF Meets

\* Who _classify_ready counts, when it lets the mix proceed, meets the target.
LEMMA CountedMeets ==
  ASSUME Plural, TargetMet, task.party \subseteq Participants
  PROVE  Meets(Counted)
<1>1. /\ IsFiniteSet(Counted) /\ IsFiniteSet(Counted \cap NonConforming)
      /\ RequiredNC \in Nat \ {0}
  BY MixRoundAssumption, FS_Subset DEF Counted
<1>2. /\ Cardinality(Counted \cap NonConforming) >= RequiredNC
      /\ RequiredNC >= 2 \/ Counted \cap Conforming # {}
  BY DEF TargetMet
<1>3. /\ Cardinality(Counted \cap NonConforming) <= Cardinality(Counted)
      /\ Cardinality(Counted \cap NonConforming) \in Nat /\ Cardinality(Counted) \in Nat
  BY <1>1, FS_Subset, FS_CardinalityType
<1>4. CASE RequiredNC >= 2
  BY <1>1, <1>2, <1>3, <1>4 DEF Meets
<1>5. CASE RequiredNC < 2 /\ NonConforming \cap Conforming = {}
  <2>1. PICK q \in Counted : q \in Conforming
    BY <1>1, <1>2, <1>5
  <2> DEFINE A == Counted \cap NonConforming
  <2>2. q \notin A /\ A \cup {q} \subseteq Counted
    BY <1>5, <2>1
  <2>3. IsFiniteSet(A \cup {q}) /\ Cardinality(A \cup {q}) = Cardinality(A) + 1
    BY <1>1, <2>2, FS_AddElement
  <2>4. Cardinality(A \cup {q}) <= Cardinality(Counted)
    BY <1>1, <2>2, FS_Subset
  <2> QED
    BY <1>1, <1>2, <1>3, <2>3, <2>4 DEF Meets
<1> QED
  BY <1>1, <1>4, <1>5 DEF Plural

\* Whoever the tick found ready is so still, or has left.
CollectRead ==
  task.pc = "collect" =>
    \A p \in task.party :
      /\ p \in joined /\ p \notin task.todo
      /\ \/ row[p].st = "paid"
         \/ row[p].st \in {"cancelled", "none"} /\ ~row[p].inputs

\* A mix that is assembling waits with the participants it advanced on.
EnoughReady ==
  mix.st = "assembling" /\ task.pc \in {"idle", "cleanup"} => Meets(In(Ready))

\* Unless somebody is dropped, they are the skeleton to be.
DropsCounted ==
  task.pc \in {"starved", "underfunded"} /\ ~task.flag =>
    task.todo = {} /\ Meets(task.party)

Target ==
  crashes = 0 =>
    /\ CollectRead /\ EnoughReady /\ DropsCounted
    /\ \A i \in 1..nskel : Meets(skel[i])

\* What passes the test after a drop, or had no drop to pass it after, meets the target.
LEMMA PartyMeets ==
  ASSUME task.party \subseteq Participants, task.pc \in {"starved", "underfunded"},
         ~TargetLost, DropsCounted
  PROVE  Meets(task.party)
<1>1. /\ Cardinality(task.party) \in Nat /\ Cardinality(task.party \cap NonConforming) \in Nat
      /\ RequiredNC \in Nat
  BY MixRoundAssumption, FS_Subset, FS_CardinalityType
<1> QED
  BY <1>1 DEF TargetLost, DropsCounted, Meets

\* Until a crash, nobody is lost unnoticed between _classify_ready and the skeleton.
LEMMA TargetStep ==
  ASSUME Plural, MoneyInv, Phases, Held, Target, [Next]_vars
  PROVE  Target'
<1>i. TypeOK /\ Ledger /\ Halfway
  BY DEF MoneyInv
<1>t. /\ row \in [Participants -> Rows] /\ \A p \in Participants : row[p] \in Rows
      /\ task \in Tasks /\ DOMAIN mix = {"st", "retries", "late"}
      /\ task.todo \subseteq Participants /\ task.cur \subseteq Participants
      /\ task.party \subseteq Participants
      /\ skel \in [1..MaxSkeletons -> SUBSET Participants]
      /\ nskel \in Nat /\ MaxSkeletons \in Nat /\ crashes \in Nat
  BY <1>i, MixRoundAssumption DEF TypeOK, Tasks
\* Steps that neither read a collecting mix nor lead to a skeleton.
<1>s. ASSUME UNCHANGED <<skel, nskel, crashes>>,
             task'.pc \notin {"collect", "starved", "underfunded"},
             mix'.st = "assembling" => task'.pc \notin {"idle", "cleanup"}
      PROVE  Target'
  BY <1>s DEF Target, CollectRead, EnoughReady, DropsCounted
<1>c. ASSUME NEW why, CancelFor(why) PROVE Target'
  BY <1>i, <1>c, <1>s, CancelBegins DEF LoopLeaves
\* Those who are ready stay so.
<1>r. ASSUME UNCHANGED <<skel, nskel, crashes>>, mix'.st = "assembling" => mix.st = "assembling",
             task'.pc \in {"idle", "cleanup"} => task.pc \in {"idle", "cleanup"},
             mix.st = "assembling" => In(Ready) \subseteq In(Ready)',
             Target => CollectRead', Target => DropsCounted'
      PROVE  Target'
  <2>1. In(Ready)' \subseteq Participants
    BY DEF In
  <2>2. Target /\ crashes = 0 => EnoughReady'
    BY <1>r, <2>1, MeetsMore DEF Target, EnoughReady
  <2> QED
    BY <1>r, <2>2 DEF Target
<1>1. ASSUME NEW p \in Participants, Handler(p) PROVE Target'
  <2>1. HandlerMoves(p)
    BY <1>i, <1>1, HandlerEffect
  <2>2. mix.st = "assembling" => In(Ready) \subseteq In(Ready)'
    BY <1>i, <2>1 DEF HandlerMoves, OnlyRow, Joins, Readies, Departs, SignsRound, Ledger, In, Ready
  <2>3. CollectRead => CollectRead'
    <3>1. CASE p \in joined /\ row[p].st = "paid"
      <4>1. row'[p].st = "paid" \/ (row'[p].st \in {"cancelled", "none"} /\ ~row'[p].inputs)
        BY <2>1, <3>1 DEF HandlerMoves, Joins, Readies, Departs, SignsRound
      <4> QED
        BY <1>t, <2>1, <4>1 DEF HandlerMoves, OnlyRow, CollectRead
    <3>2. CASE p \in joined /\ row[p].st \in {"cancelled", "none"}
      <4>1. row'[p] = row[p]
        BY <2>1, <3>2 DEF HandlerMoves, Joins, Readies, Departs, SignsRound
      <4> QED
        BY <1>t, <2>1, <4>1 DEF HandlerMoves, OnlyRow, CollectRead
    <3>3. CASE ~(p \in joined /\ row[p].st \in {"paid", "cancelled", "none"})
      BY <1>t, <2>1, <3>3 DEF HandlerMoves, OnlyRow, CollectRead
    <3> QED
      BY <3>1, <3>2, <3>3
  <2>4. /\ UNCHANGED <<skel, nskel, crashes, task>> /\ mix'.st = mix.st
    BY <2>1 DEF HandlerMoves
  <2>5. DropsCounted => DropsCounted'
    BY <2>4 DEF DropsCounted, Meets
  <2>6. CASE crashes = 0
    BY <1>r, <2>2, <2>3, <2>4, <2>5, <2>6 DEF Target
  <2>7. CASE crashes # 0
    BY <2>4, <2>7 DEF Target
  <2> QED
    BY <2>6, <2>7
<1>2. ASSUME NEW p \in Participants, CancelRow(p) PROVE Target'
  <2>1. task'.pc = "cancel" /\ UNCHANGED <<skel, nskel, crashes>>
    BY <1>i, <1>2, CancelRowMoves DEF CancelMoves, LoopLeaves
  <2> QED
    BY <1>s, <2>1
<1>3. ASSUME NEW p \in Participants, SettleRefund(p) PROVE Target'
  <2>1. SettleMoves(p)
    BY <1>i, <1>3, SettleRowMoves
  <2>2. /\ task'.pc = task.pc /\ task'.flag = task.flag /\ task'.todo = task.todo
        /\ task'.party = task.party
    BY <1>t, <2>1 DEF SettleMoves, Tasks
  <2>3. task.pc \in {"cancel", "starved", "underfunded", "send", "ghost"}
    BY <2>1 DEF SettleMoves, Phases
  <2> QED
    BY <2>1, <2>2, <2>3 DEF SettleMoves, LoopLeaves, Target, CollectRead, EnoughReady, DropsCounted, Meets
<1>4. ASSUME NEW p \in Participants, Drop(p) PROVE Target'
  <2>1. DropMoves(p)
    BY <1>i, <1>4, DropRowMoves
  <2> QED
    BY <2>1 DEF DropMoves, LoopLeaves, Target, CollectRead, EnoughReady, DropsCounted
<1>5. ASSUME NEW p \in Participants, PayTimeout(p) PROVE Target'
  <2>1. /\ task.pc = "collect" /\ p \in task.todo /\ mix.st = "collecting" /\ OnlyRow(p)
        /\ UNCHANGED <<skel, nskel, crashes, mix, joined>>
    BY <1>t, <1>5 DEF PayTimeout, OnlyRow, Phases, built
  <2>2. task'.pc = "collect" /\ task'.party = task.party /\ task'.todo = task.todo \ {p}
    BY <1>t, <1>5 DEF PayTimeout, Tasks
  <2>3. CollectRead => CollectRead'
    BY <1>t, <2>1, <2>2 DEF CollectRead, OnlyRow
  <2> QED
    BY <2>1, <2>2, <2>3 DEF Target, EnoughReady, DropsCounted
<1>6. ASSUME NEW p \in Participants, DeleteInterested(p) PROVE Target'
  <2>1. /\ task.pc = "cleanup" /\ mix.st = "assembling" /\ UNCHANGED <<skel, nskel, crashes, mix>>
        /\ OnlyRow(p) /\ (row'[p] = row[p] \/ ~row[p].inputs)
    BY <1>t, <1>6 DEF DeleteInterested, OnlyRow, Phases, built
  <2>2. task'.pc \in {"cleanup", "idle"}
    BY <1>t, <1>6 DEF DeleteInterested, NoTask, Tasks
  <2>3. In(Ready) \subseteq In(Ready)'
    BY <2>1 DEF OnlyRow, Held, In, Ready
  <2> QED
    BY <1>r, <2>1, <2>2, <2>3 DEF CollectRead, DropsCounted
<1>7. ASSUME NEW p \in Participants, SendRound(p) \/ MarkSigning(p) PROVE Target'
  <2>1. task'.pc = "send" /\ UNCHANGED <<skel, nskel, crashes>>
    BY <1>t, <1>7 DEF SendRound, MarkSigning, built, Tasks
  <2> QED
    BY <1>s, <2>1
<1>8. ASSUME NEW p \in Participants, MarkGhost(p) \/ RecoverSurvivor(p) PROVE Target'
  <2>1. task'.pc \in {"ghost", "recover"} /\ UNCHANGED <<skel, nskel, crashes>>
    BY <1>t, <1>8 DEF MarkGhost, RecoverSurvivor, built, Tasks
  <2> QED
    BY <1>s, <2>1
<1>9. CASE TickCollecting
  <2>1. /\ task'.pc = "collect" /\ task'.party = In({"paid"}) /\ task'.todo \subseteq In({"committed"})
        /\ UNCHANGED <<skel, nskel, crashes, mix, row, joined>> /\ mix.st = "collecting"
    BY <1>9 DEF TickCollecting, NoTask, built
  <2>2. CollectRead'
    BY <1>i, <2>1 DEF CollectRead, Ledger, In
  <2> QED
    BY <2>1, <2>2 DEF Target, EnoughReady, DropsCounted
<1>10. CASE ProceedToAssembling
  <2>1. /\ task'.pc = "cleanup" /\ UNCHANGED <<skel, nskel, crashes, row>>
        /\ task.pc = "collect" /\ TargetMet
    BY <1>10 DEF ProceedToAssembling, CollectDone, NoTask, built
  <2>2. ASSUME crashes = 0 PROVE Meets(In(Ready)')
    <3>1. Meets(Counted)
      BY <1>t, <2>1, CountedMeets
    <3>2. Counted \subseteq In(Ready)'
      BY <1>t, <2>1, <2>2 DEF Target, CollectRead, Counted, In, Ready
    <3> QED
      BY <3>1, <3>2, MeetsMore DEF In
  <2> QED
    BY <2>1, <2>2 DEF Target, CollectRead, EnoughReady, DropsCounted
<1>11. CASE FinishCleanup
  <2>1. /\ task.pc = "cleanup" /\ task'.pc = "idle" /\ UNCHANGED <<skel, nskel, crashes, row, mix>>
    BY <1>11 DEF FinishCleanup, NoTask, built
  <2> QED
    BY <1>r, <2>1 DEF CollectRead, DropsCounted, In
<1>12. CASE TickAssembling
  <2>1. /\ task.pc = "idle" /\ mix.st = "assembling" /\ UNCHANGED <<skel, nskel, crashes, row, mix>>
        /\ task'.pc = "starved" /\ task'.party = In(Ready) /\ (~task'.flag => task'.todo = {})
    BY <1>12 DEF TickAssembling, Idle, NoTask, Ready, built
  <2> QED
    BY <2>1 DEF Target, CollectRead, EnoughReady, DropsCounted
<1>13. CASE StarvedDropped
  <2>1. CASE TargetLost
    BY <1>c, <1>13, <2>1 DEF StarvedDropped
  <2>2. CASE ~TargetLost
    <3>1. /\ task'.pc = "underfunded" /\ task'.party = task.party /\ (~task'.flag => task'.todo = {})
          /\ task.pc = "starved" /\ UNCHANGED <<skel, nskel, crashes, mix>>
      BY <1>t, <1>13, <2>2 DEF StarvedDropped, DropsDone, Tasks, built
    <3>2. crashes = 0 => Meets(task.party)
      BY <1>t, <2>2, <3>1, PartyMeets DEF Target
    <3> QED
      BY <3>1, <3>2 DEF Target, CollectRead, EnoughReady, DropsCounted
  <2> QED
    BY <2>1, <2>2
<1>14. CASE BuildSkeleton
  <2>1. /\ task.pc = "underfunded" /\ ~TargetLost /\ task'.pc = "send" /\ nskel < MaxSkeletons
        /\ UNCHANGED crashes /\ nskel' = nskel + 1 /\ skel' = [skel EXCEPT ![nskel + 1] = task.party]
    BY <1>14 DEF BuildSkeleton, DropsDone, NoTask
  <2>2. crashes = 0 => Meets(task.party)
    BY <1>t, <2>1, PartyMeets DEF Target
  <2>3. \A i \in 1..nskel' : skel'[i] = IF i = nskel + 1 THEN task.party ELSE skel[i]
    BY <1>t, <2>1
  <2>4. ASSUME crashes = 0 PROVE \A i \in 1..nskel' : Meets(skel'[i])
    BY <1>t, <2>1, <2>2, <2>3, <2>4 DEF Target
  <2> QED
    BY <2>1, <2>4 DEF Target, CollectRead, EnoughReady, DropsCounted
<1>15. CASE KeepCollecting \/ StartSigning \/ FinishRecovery \/ KeepSigning \/ RecordBroadcast
            \/ Rebroadcast \/ RebroadcastLost \/ FinishCancel \/ SweepConfirmed
  <2>1. UNCHANGED <<skel, nskel, crashes>> /\ task' = NoTask
    BY <1>15 DEF KeepCollecting, StartSigning, FinishRecovery, KeepSigning, RecordBroadcast,
       Rebroadcast, RebroadcastLost, FinishCancel, SweepConfirmed, DestroyMix, built
  <2>2. mix'.st # "assembling"
    <3>1. CASE KeepCollecting \/ KeepSigning \/ Rebroadcast \/ RebroadcastLost
      BY <3>1 DEF KeepCollecting, CollectDone, KeepSigning, GhostsMarked, DropsDone, Rebroadcast,
         RebroadcastLost, Phases
    <3>2. CASE StartSigning \/ RecordBroadcast \/ FinishCancel \/ SweepConfirmed
      BY <1>t, <3>2 DEF StartSigning, RecordBroadcast, FinishCancel, SweepConfirmed, DestroyMix
    <3>3. CASE FinishRecovery
      BY <3>3 DEF FinishRecovery
    <3> QED
      BY <1>15, <3>1, <3>2, <3>3
  <2>3. NoTask.pc = "idle"
    BY DEF NoTask
  <2> QED
    BY <1>s, <2>1, <2>2, <2>3
<1>16. CASE TickSigning \/ SweepUnconfirmed \/ BlacklistGhost \/ BeginRecovery \/ Combine \/ PushTx
  <2>1. UNCHANGED <<skel, nskel, crashes>>
    BY <1>16 DEF TickSigning, SweepUnconfirmed, BlacklistGhost, BeginRecovery, Combine, PushTx, built
  <2>2. task'.pc \in {"ghost", "probe", "recover", "push", "record", "ask"}
    <3>1. CASE TickSigning \/ SweepUnconfirmed
      BY <3>1 DEF TickSigning, SweepUnconfirmed, NoTask
    <3>2. CASE BlacklistGhost \/ BeginRecovery \/ PushTx
      BY <1>t, <3>2 DEF BlacklistGhost, BeginRecovery, PushTx, Tasks
    <3>3. CASE Combine
      BY <3>3 DEF Combine, NoTask
    <3> QED
      BY <1>16, <3>1, <3>2, <3>3
  <2> QED
    BY <1>s, <2>1, <2>2
<1>17. CASE CancelUnfilled \/ AssemblyRefused \/ GiveUpOnGhosts \/ CombineFails
            \/ BroadcastFailed \/ ConflictFound
  BY <1>c, <1>17 DEF CancelUnfilled, AssemblyRefused, GiveUpOnGhosts, CombineFails,
     BroadcastFailed, ConflictFound
<1>18. CASE Clock \/ Network \/ UNCHANGED vars
  <2>1. /\ \A q \in Participants : row'[q].st = row[q].st /\ row'[q].inputs = row[q].inputs
        /\ UNCHANGED <<task, skel, nskel, joined, crashes>> /\ mix'.st = mix.st
    <3>1. ASSUME NEW p \in Participants, RowDeadlinePasses(p)
          PROVE  /\ OnlyRow(p) /\ row'[p].st = row[p].st /\ row'[p].inputs = row[p].inputs
                 /\ UNCHANGED <<task, skel, nskel, mix, joined, crashes>>
      BY <1>t, <3>1 DEF RowDeadlinePasses, OnlyRow, Rows, built
    <3>2. CASE FillDeadlinePasses
      BY <1>t, <3>2 DEF FillDeadlinePasses, built
    <3>3. CASE Network \/ UNCHANGED vars
      BY <3>3 DEF Network, Confirm, Evict, DoubleSpend, vars, built
    <3> QED
      BY <1>18, <3>1, <3>2, <3>3 DEF Clock, OnlyRow
  <2>2. In(Ready)' = In(Ready)
    BY <2>1 DEF In
  <2> QED
    BY <1>t, <2>1, <2>2 DEF Target, CollectRead, EnoughReady, DropsCounted
<1>19. CASE Crash
  BY <1>t, <1>19 DEF Crash, Target
<1> QED
  BY <1>1, <1>2, <1>3, <1>4, <1>5, <1>6, <1>7, <1>8, <1>9, <1>10, <1>11, <1>12, <1>13,
     <1>14, <1>15, <1>16, <1>17, <1>18, <1>19
     DEF Next, Handlers, Handler, EventLoop, Destroyed

-----------------------------------------------------------------------------
(***************************************************************************)
(* What ghosts have lost.                                                  *)
(***************************************************************************)

\* A ghost is owed nothing, and is in the blacklist or about to be unless a crash
\* came between the two writes.
GhostLoses(p) ==
  row[p].st = "ghosted" =>
    /\ p \notin owed
    /\ crashes = 0 => p \in blacklist \/ (task.pc = "ghost" /\ p \in task.cur)

Forfeits(p) ==
  p \in blacklist => row[p].st \in {"ghosted", "none"} /\ payout[p] = 0 /\ p \notin owed

Ghosts ==
  /\ \A p \in Participants : GhostLoses(p) /\ Forfeits(p)
  /\ task.pc = "cleanup" => \A p \in task.todo : row[p].st # "ghosted"

\* A ghost gets nothing back, and a blacklisted participant no row.
LEMMA GhostsStep == MoneyInv /\ Phases /\ Ghosts /\ [Next]_vars => Ghosts'
<1> SUFFICES ASSUME MoneyInv, Phases, Ghosts, [Next]_vars
             PROVE  Ghosts'
  OBVIOUS
<1>i. TypeOK /\ Ledger /\ Halfway
  BY DEF MoneyInv
<1>t. /\ row \in [Participants -> Rows] /\ \A p \in Participants : row[p] \in Rows
      /\ payout \in [Participants -> Nat] /\ owed \subseteq Participants
      /\ task \in Tasks /\ DOMAIN mix = {"st", "retries", "late"}
      /\ task.todo \subseteq Participants /\ task.cur \subseteq Participants
      /\ blacklist \subseteq Participants /\ crashes \in Nat
  BY <1>i DEF TypeOK, Tasks
\* Steps that write no row and leave no ghost half punished.
<1>s. ASSUME UNCHANGED <<row, payout, owed, blacklist, crashes>>,
             task.pc = "ghost" => task.cur = {}, task'.pc # "cleanup"
      PROVE  Ghosts'
  BY <1>s DEF Ghosts, GhostLoses, Forfeits
<1>c. ASSUME NEW why, CancelFor(why), task.pc = "ghost" => task.cur = {} PROVE Ghosts'
  BY <1>i, <1>c, <1>s, CancelBegins DEF LoopLeaves
<1>d. ASSUME DestroyMix PROVE Ghosts'
  <2>1. /\ task'.pc = "idle" /\ \A p \in Participants : row'[p].st = "none"
        /\ UNCHANGED <<payout, blacklist>> /\ owed' = owed \cup Debts
    BY <1>t, <1>d DEF DestroyMix, NoRow, NoTask
  <2>2. \A p \in blacklist : p \notin Debts
    BY <1>t DEF Ghosts, Forfeits, Debts, In
  <2> QED
    BY <1>t, <2>1, <2>2 DEF Ghosts, GhostLoses, Forfeits
\* One row is written; neither the blacklist nor the step of the loop changes.
<1>r. ASSUME NEW p \in Participants, OnlyRow(p), OnlyMoney(p), UNCHANGED <<blacklist, crashes>>,
             task'.pc \in {task.pc, "idle"}, task'.todo \subseteq task.todo,
             task.pc = "ghost" => task'.cur = task.cur /\ task'.pc = "ghost",
             row[p].st \in {"ghosted", "none"} /\ p \in blacklist =>
               row'[p].st \in {"ghosted", "none"} /\ payout'[p] = payout[p] /\ (p \in owed' => p \in owed),
             row'[p].st = "ghosted" => row[p].st = "ghosted" /\ (p \in owed' => p \in owed)
      PROVE  Ghosts'
  <2>1. \A q \in Participants : Forfeits(q)'
    BY <1>r DEF OnlyRow, OnlyMoney, Ghosts, Forfeits
  <2>2. \A q \in Participants : GhostLoses(q)'
    BY <1>r DEF OnlyRow, OnlyMoney, Ghosts, GhostLoses
  <2>3. task'.pc = "cleanup" => \A q \in task'.todo : row'[q].st # "ghosted"
    BY <1>t, <1>r DEF OnlyRow, Ghosts
  <2> QED
    BY <2>1, <2>2, <2>3 DEF Ghosts
<1>1. ASSUME NEW p \in Participants, Handler(p) PROVE Ghosts'
  <2>1. HandlerMoves(p)
    BY <1>i, <1>1, HandlerEffect
  <2>2. row[p].st \in {"ghosted", "none"} /\ p \in blacklist => row'[p] = row[p] /\ UNCHANGED money
    BY <2>1 DEF HandlerMoves, Joins, Readies, Departs, SignsRound
  <2>3. row'[p].st = "ghosted" => row'[p] = row[p] /\ UNCHANGED money
    BY <2>1 DEF HandlerMoves, Joins, Readies, Departs, SignsRound
  <2> QED
    BY <1>r, <2>1, <2>2, <2>3 DEF HandlerMoves, money
<1>2. ASSUME NEW p \in Participants, CancelRow(p) PROVE Ghosts'
  <2>1. CancelMoves(p)
    BY <1>i, <1>2, CancelRowMoves
  <2>2. row[p].st # "ghosted" /\ task.pc = "cancel" /\ task'.pc = "cancel"
    BY <1>i, <2>1 DEF CancelMoves, Halfway, Active
  <2>3. row'[p].st # "ghosted" /\ (row[p].st = "none" => row'[p].st = "none")
    BY <2>1, <2>2 DEF CancelMoves
  <2>4. task'.todo \subseteq task.todo
    <3>1. task' \in {[task EXCEPT !.todo = @ \ {p}], [task EXCEPT !.todo = @ \ {p}, !.cur = {p}]}
      BY <1>2 DEF CancelRow
    <3> QED
      BY <1>t, <3>1 DEF Tasks
  <2> QED
    BY <1>r, <2>1, <2>2, <2>3, <2>4 DEF CancelMoves, LoopLeaves, OnlyMoney, money
<1>3. ASSUME NEW p \in Participants, SettleRefund(p) PROVE Ghosts'
  <2>1. SettleMoves(p)
    BY <1>i, <1>3, SettleRowMoves
  <2>2. task'.pc = task.pc /\ task'.todo = task.todo /\ row[p].st = "refunding"
    BY <1>t, <2>1 DEF SettleMoves, Tasks
  <2>3. task.pc # "ghost"
    BY <2>1 DEF SettleMoves, Phases
  <2>4. row'[p].st # "ghosted"
    BY <2>1 DEF SettleMoves, NoRow
  <2> QED
    BY <1>r, <2>1, <2>2, <2>3, <2>4 DEF SettleMoves, LoopLeaves
<1>4. ASSUME NEW p \in Participants, Drop(p) PROVE Ghosts'
  <2>1. DropMoves(p)
    BY <1>i, <1>4, DropRowMoves
  <2> QED
    BY <1>r, <2>1 DEF DropMoves, LoopLeaves, OnlyMoney, Settled, money
<1>5. ASSUME NEW p \in Participants, PayTimeout(p) PROVE Ghosts'
  <2>1. /\ task.pc = "collect" /\ p \in task.todo /\ OnlyRow(p)
        /\ UNCHANGED <<blacklist, crashes, payout, owed>>
        /\ row'[p].st = IF row[p].fee THEN "cancelled" ELSE "none"
    BY <1>t, <1>5 DEF PayTimeout, OnlyRow, NoRow, Rows, money
  <2>2. task'.pc = "collect" /\ task'.todo \subseteq task.todo
    BY <1>t, <1>5, <2>1 DEF PayTimeout, Tasks
  <2>3. row[p].st # "ghosted" /\ (row[p].st = "none" => ~row[p].fee)
    BY <1>i, <2>1 DEF Halfway, Active, Ledger
  <2> QED
    BY <1>r, <2>1, <2>2, <2>3 DEF OnlyMoney
<1>6. ASSUME NEW p \in Participants, DeleteInterested(p) PROVE Ghosts'
  <2>1. /\ task.pc = "cleanup" /\ p \in task.todo /\ OnlyRow(p)
        /\ UNCHANGED <<blacklist, crashes, payout, owed>>
        /\ row'[p] = row[p] \/ row'[p].st = "none"
    BY <1>t, <1>6 DEF DeleteInterested, OnlyRow, NoRow, money
  <2>2. task'.pc \in {"cleanup", "idle"} /\ task'.todo \subseteq task.todo
    BY <1>t, <1>6, <2>1 DEF DeleteInterested, NoTask, Tasks
  <2> QED
    BY <1>r, <2>1, <2>2 DEF OnlyMoney
<1>7. ASSUME NEW p \in Participants,
             SendRound(p) \/ MarkSigning(p) \/ RecoverSurvivor(p) PROVE Ghosts'
  <2>1. /\ task.pc \in {"send", "recover"} /\ OnlyRow(p)
        /\ UNCHANGED <<blacklist, crashes, payout, owed>>
        /\ p \in task.todo \cup task.cur /\ row'[p].st \in {row[p].st, "signing", "paid"}
    <3>1. CASE SendRound(p)
      BY <1>t, <3>1 DEF SendRound, Sent, OnlyRow, Rows, money
    <3>2. CASE MarkSigning(p)
      BY <1>t, <3>2 DEF MarkSigning, OnlyRow, Rows, money
    <3>3. CASE RecoverSurvivor(p)
      BY <1>t, <3>3 DEF RecoverSurvivor, OnlyRow, Rows, money
    <3> QED
      BY <1>7, <3>1, <3>2, <3>3
  <2>2. task'.pc = task.pc /\ task'.todo \subseteq task.todo
    <3>1. CASE SendRound(p)
      BY <1>t, <3>1 DEF SendRound, Tasks
    <3>2. CASE MarkSigning(p)
      BY <1>t, <3>2 DEF MarkSigning, Tasks
    <3>3. CASE RecoverSurvivor(p)
      BY <1>t, <3>3 DEF RecoverSurvivor, Tasks
    <3> QED
      BY <1>7, <3>1, <3>2, <3>3
  <2>3. row[p].st \notin {"ghosted", "none"}
    BY <1>i, <1>7, <2>1 DEF Halfway, Ready, RecoverSurvivor, SendRound, MarkSigning
  <2> QED
    BY <1>r, <2>1, <2>2, <2>3 DEF OnlyMoney
<1>8. ASSUME NEW p \in Participants, MarkGhost(p) PROVE Ghosts'
  <2>1. /\ task.pc = "ghost" /\ task.cur = {} /\ OnlyRow(p)
        /\ UNCHANGED <<blacklist, crashes, payout, owed>>
        /\ p \in task.todo /\ row'[p].st = "ghosted"
    BY <1>t, <1>8 DEF MarkGhost, OnlyRow, Rows, money
  <2>2. task'.pc = "ghost" /\ task'.cur = {p}
    BY <1>t, <1>8, <2>1 DEF MarkGhost, Tasks
  <2>3. row[p].st \in {"signing", "signed"}
    BY <1>i, <2>1 DEF Halfway
  <2>4. p \notin owed /\ p \notin blacklist
    BY <1>i, <2>3 DEF Ledger, Active, Ghosts, Forfeits
  <2>5. \A q \in Participants : GhostLoses(q)'
    BY <2>1, <2>2, <2>4 DEF OnlyRow, Ghosts, GhostLoses
  <2>6. \A q \in Participants : Forfeits(q)'
    BY <2>1, <2>4 DEF OnlyRow, Ghosts, Forfeits
  <2> QED
    BY <2>2, <2>5, <2>6 DEF Ghosts
<1>9. CASE BlacklistGhost
  <2>1. /\ task.pc = "ghost" /\ UNCHANGED <<row, crashes, payout, owed>>
        /\ blacklist' = blacklist \cup task.cur /\ task'.pc = "ghost"
    BY <1>t, <1>9 DEF BlacklistGhost, Tasks, money
  <2>2. \A q \in task.cur : row[q].st = "ghosted" /\ q \notin owed /\ payout[q] = 0
    BY <1>i, <1>t, <2>1 DEF Phases, Ghosts, GhostLoses, Ledger
  <2> QED
    BY <2>1, <2>2 DEF Ghosts, GhostLoses, Forfeits
<1>10. CASE BeginRecovery
  <2>1. /\ task.cur = {} /\ task'.pc = "recover" /\ UNCHANGED <<blacklist, crashes, payout, owed>>
    BY <1>t, <1>10 DEF BeginRecovery, GhostsMarked, DropsDone, Tasks, money
  <2>2. \A q \in Participants : row'[q].st = row[q].st
    BY <1>t, <1>10 DEF BeginRecovery, Rows
  <2> QED
    BY <2>1, <2>2 DEF Ghosts, GhostLoses, Forfeits
<1>11. CASE ProceedToAssembling
  <2>1. /\ task.pc = "collect" /\ UNCHANGED <<row, blacklist, crashes, payout, owed>>
        /\ task'.todo = In({"interested"})
    BY <1>11 DEF ProceedToAssembling, CollectDone, NoTask, money
  <2> QED
    BY <2>1 DEF Ghosts, GhostLoses, Forfeits, In
<1>12. CASE \/ TickCollecting \/ TickAssembling \/ TickSigning \/ SweepUnconfirmed \/ BuildSkeleton
            \/ Combine \/ PushTx
  <2>1. UNCHANGED <<row, payout, owed, blacklist, crashes>>
    BY <1>12 DEF TickCollecting, TickAssembling, TickSigning, SweepUnconfirmed, BuildSkeleton,
       Combine, PushTx, money
  <2>2. task.pc = "ghost" => task.cur = {}
    BY <1>12 DEF TickCollecting, TickAssembling, TickSigning, SweepUnconfirmed, BuildSkeleton,
       Combine, PushTx, Idle, DropsDone, GhostsMarked
  <2>3. task'.pc # "cleanup"
    <3>1. CASE TickCollecting \/ TickAssembling \/ TickSigning \/ SweepUnconfirmed
      BY <3>1 DEF TickCollecting, TickAssembling, TickSigning, SweepUnconfirmed, NoTask
    <3>2. CASE BuildSkeleton \/ Combine
      BY <3>2 DEF BuildSkeleton, Combine, NoTask
    <3>3. CASE PushTx
      BY <1>t, <3>3 DEF PushTx, Tasks
    <3> QED
      BY <1>12, <3>1, <3>2, <3>3
  <2> QED
    BY <1>s, <2>1, <2>2, <2>3
<1>13. CASE StarvedDropped
  <2>1. CASE TargetLost
    BY <1>c, <1>13, <2>1 DEF StarvedDropped, DropsDone
  <2>2. CASE ~TargetLost
    <3>1. /\ task'.pc = "underfunded" /\ task.pc = "starved"
          /\ UNCHANGED <<row, payout, owed, blacklist, crashes>>
      BY <1>t, <1>13, <2>2 DEF StarvedDropped, DropsDone, Tasks, money
    <3> QED
      BY <1>s, <3>1
  <2> QED
    BY <2>1, <2>2
<1>14. CASE \/ FinishCleanup \/ KeepCollecting \/ StartSigning \/ FinishRecovery \/ KeepSigning
            \/ RecordBroadcast \/ Rebroadcast \/ RebroadcastLost
  <2>1. UNCHANGED <<row, payout, owed, blacklist, crashes>> /\ task' = NoTask
    BY <1>14 DEF FinishCleanup, KeepCollecting, StartSigning, FinishRecovery, KeepSigning,
       RecordBroadcast, Rebroadcast, RebroadcastLost, money
  <2>2. task.pc = "ghost" => task.cur = {}
    BY <1>14 DEF FinishCleanup, KeepCollecting, CollectDone, StartSigning, FinishRecovery,
       KeepSigning, RecordBroadcast, Rebroadcast, RebroadcastLost, DropsDone, GhostsMarked
  <2> QED
    BY <1>s, <2>1, <2>2 DEF NoTask
<1>15. CASE CancelUnfilled \/ AssemblyRefused \/ GiveUpOnGhosts \/ CombineFails
            \/ BroadcastFailed \/ ConflictFound
  BY <1>c, <1>15 DEF CancelUnfilled, CollectDone, AssemblyRefused, GiveUpOnGhosts, CombineFails,
     BroadcastFailed, ConflictFound, DropsDone, GhostsMarked
<1>16. CASE FinishCancel \/ SweepConfirmed
  BY <1>d, <1>16 DEF FinishCancel, SweepConfirmed
<1>17. CASE Clock \/ Network \/ UNCHANGED vars
  <2>1. /\ \A q \in Participants : row'[q].st = row[q].st
        /\ UNCHANGED <<task, payout, owed, blacklist, crashes>>
    <3>1. ASSUME NEW p \in Participants, RowDeadlinePasses(p)
          PROVE  /\ OnlyRow(p) /\ row'[p].st = row[p].st
                 /\ UNCHANGED <<task, payout, owed, blacklist, crashes>>
      BY <1>t, <3>1 DEF RowDeadlinePasses, OnlyRow, Rows, money
    <3>2. CASE FillDeadlinePasses
      BY <3>2 DEF FillDeadlinePasses, money
    <3>3. CASE Network \/ UNCHANGED vars
      BY <3>3 DEF Network, Confirm, Evict, DoubleSpend, vars, money
    <3> QED
      BY <1>17, <3>1, <3>2, <3>3 DEF Clock, OnlyRow
  <2> QED
    BY <1>t, <2>1 DEF Ghosts, GhostLoses, Forfeits
<1>18. CASE Crash
  <2>1. /\ UNCHANGED <<row, owed, blacklist>> /\ crashes' # 0 /\ task'.pc = "idle"
    BY <1>t, <1>18 DEF Crash, NoTask
  <2>2. \A q \in Participants : payout'[q] = payout[q] \/ row[q].st = "refunding"
    BY <1>t, <1>18 DEF Crash
  <2> QED
    BY <2>1, <2>2 DEF Ghosts, GhostLoses, Forfeits
<1> QED
  BY <1>1, <1>2, <1>3, <1>4, <1>5, <1>6, <1>7, <1>8, <1>9, <1>10, <1>11, <1>12, <1>13,
     <1>14, <1>15, <1>16, <1>17, <1>18
     DEF Next, Handlers, Handler, EventLoop, Destroyed

-----------------------------------------------------------------------------
(***************************************************************************)
(* Where the fee of a member went.                                         *)
(***************************************************************************)

Member(p) == \E i \in 1..nskel : p \in skel[i]

\* A member who is still in the mix is one the loop knows of: it is on the list of a
\* cancellation, with its fee, and in every skeleton built after.
Known(p) ==
  /\ task.pc = "cancel" => p \in task.todo /\ (row[p].fee => p \in task.party)
  /\ task.pc \in {"starved", "underfunded"} => p \in task.party
  /\ task.pc = "send" \/ mix.st = "signing" => p \in skel[nskel]
  /\ mix.st = "broadcast" => p \in skel[tx.id]

\* A member never waits for a payment again, and is not cancelled unpaid.
MemberFee(p) ==
  /\ p \in joined
  /\ row[p].st \in Ready \cup Settled \cup {"none"}
  /\ row[p].st = "cancelled" => ~row[p].fee \/ p \notin Payable
  /\ row[p].st \in Ready => Known(p)

Fees ==
  /\ \A p \in Participants : row[p].st = "refunded" => payout[p] = 1
  /\ \A p \in Participants : Member(p) => MemberFee(p)
  /\ task.pc \in {"collect", "cleanup"} => \A p \in task.todo : ~Member(p)

\* Every step but the one that builds a skeleton leaves the members.
LEMMA FeesStep ==
  MoneyInv /\ Phases /\ Rounds /\ Held /\ Fees /\ [Next]_vars => Fees'
<1> SUFFICES ASSUME MoneyInv, Phases, Rounds, Held, Fees, [Next]_vars
             PROVE  Fees'
  OBVIOUS
<1>i. TypeOK /\ Ledger /\ Halfway
  BY DEF MoneyInv
<1>t. /\ row \in [Participants -> Rows] /\ \A p \in Participants : row[p] \in Rows
      /\ payout \in [Participants -> Nat] /\ owed \subseteq Participants
      /\ task \in Tasks /\ DOMAIN mix = {"st", "retries", "late"}
      /\ task.todo \subseteq Participants /\ task.cur \subseteq Participants
      /\ task.party \subseteq Participants
      /\ skel \in [1..MaxSkeletons -> SUBSET Participants]
      /\ nskel \in Nat /\ MaxSkeletons \in Nat /\ tx.id \in Nat
      /\ tx \in [id : Nat, st : {"unsent", "live", "confirmed", "conflicted"}]
  BY <1>i, MixRoundAssumption DEF TypeOK, Tasks
\* Where no row is written, it is enough that the loop knows its members.
<1>s. ASSUME UNCHANGED <<row, payout, skel, nskel, joined>>,
             task'.pc \notin {"collect", "cleanup"},
             \A p \in Participants : Member(p) /\ row[p].st \in Ready => Known(p)'
      PROVE  Fees'
  <2>1. \A p \in Participants : Member(p)' <=> Member(p)
    BY <1>s DEF Member
  <2>2. \A p \in Participants : MemberFee(p) => MemberFee(p)' \/ (row[p].st \in Ready /\ ~Known(p)')
    BY <1>s DEF MemberFee
  <2> QED
    BY <1>s, <2>1, <2>2 DEF Fees
\* A cancellation begins with the list of all who are in the mix.
<1>c. ASSUME NEW why, CancelFor(why) PROVE Fees'
  <2>1. /\ UNCHANGED <<row, payout, skel, nskel, joined, mix, tx>> /\ task'.pc = "cancel"
        /\ task'.todo = {p \in Participants : row[p].st \notin Settled \cup {"none"}}
        /\ task'.party = {p \in Participants : row[p].fee}
    BY <1>c DEF CancelFor, Cancelling, NoTask, built, money
  <2>2. \A p \in Participants : Member(p) /\ row[p].st \in Ready => Known(p)'
    <3> SUFFICES ASSUME NEW p \in Participants, Member(p), row[p].st \in Ready
                 PROVE  Known(p)'
      OBVIOUS
    <3>1. Known(p)
      BY DEF Fees, MemberFee
    <3> QED
      BY <2>1, <3>1 DEF Known, Ready, Settled
  <2> QED
    BY <1>s, <2>1, <2>2
<1>d. ASSUME DestroyMix PROVE Fees'
  <2>1. /\ task'.pc = "idle" /\ \A p \in Participants : row'[p].st = "none"
        /\ UNCHANGED <<skel, nskel, joined>>
    BY <1>t, <1>d DEF DestroyMix, NoRow, NoTask, built
  <2> QED
    BY <2>1 DEF Fees, MemberFee, Member, Ready, Settled
\* One row is written, and the loop has the same members in view.
<1>r. ASSUME NEW p \in Participants, OnlyRow(p), OnlyMoney(p), UNCHANGED <<skel, nskel, tx>>,
             mix'.st = mix.st, joined \subseteq joined', task'.pc \in {task.pc, "idle"},
             task'.todo \subseteq task.todo,
             task.pc = "cancel" => task.todo \ {p} \subseteq task'.todo,
             task.party \ {p} \subseteq task'.party,
             row'[p].st = "refunded" => payout'[p] = 1,
             Member(p) /\ MemberFee(p) => MemberFee(p)'
      PROVE  Fees'
  <2>1. \A q \in Participants : Member(q)' <=> Member(q)
    BY <1>r DEF Member
  <2>2. \A q \in Participants : q # p => (MemberFee(q) => MemberFee(q)')
    BY <1>r DEF MemberFee, Known, OnlyRow
  <2>3. \A q \in Participants : row'[q].st = "refunded" => payout'[q] = 1
    BY <1>r DEF OnlyRow, OnlyMoney, Fees
  <2>4. task'.pc \in {"collect", "cleanup"} => \A q \in task'.todo : ~Member(q)'
    BY <1>r, <1>t, <2>1 DEF Fees
  <2> QED
    BY <1>r, <2>1, <2>2, <2>3, <2>4 DEF Fees
<1>1. ASSUME NEW p \in Participants, Handler(p) PROVE Fees'
  <2>1. HandlerMoves(p)
    BY <1>i, <1>1, HandlerEffect
  <2>2. row'[p].st = "refunded" => payout'[p] = 1
    BY <2>1 DEF HandlerMoves, Joins, Readies, Departs, SignsRound, Fees, money
  <2>3. ASSUME MemberFee(p) PROVE MemberFee(p)'
    <3>1. UNCHANGED <<task, skel, nskel, tx>> /\ mix'.st = mix.st /\ joined \subseteq joined'
      BY <2>1 DEF HandlerMoves
    <3>2. CASE row'[p] = row[p]
      BY <2>3, <3>1, <3>2 DEF MemberFee, Known
    <3>3. CASE Joins(p)
      BY <2>3, <3>3 DEF Joins, MemberFee
    <3>4. CASE Readies(p)
      <4>1. row[p].st = "paid" /\ row'[p].st = "paid" /\ row'[p].fee = row[p].fee
        BY <2>3, <3>4 DEF Readies, MemberFee, Ready, Settled
      <4> QED
        BY <2>3, <3>1, <4>1 DEF MemberFee, Known, Ready
    <3>5. CASE Departs(p)
      BY <2>3, <3>1, <3>5 DEF Departs, MemberFee, Ready, Settled
    <3>6. CASE SignsRound(p)
      BY <2>3, <3>1, <3>6 DEF SignsRound, MemberFee, Known, Ready
    <3> QED
      BY <2>1, <3>2, <3>3, <3>4, <3>5, <3>6 DEF HandlerMoves
  <2> QED
    BY <1>r, <2>1, <2>2, <2>3 DEF HandlerMoves
<1>2. ASSUME NEW p \in Participants, CancelRow(p) PROVE Fees'
  <2>1. CancelMoves(p)
    BY <1>i, <1>2, CancelRowMoves
  <2>2. row'[p].st = "refunded" => payout'[p] = 1
    BY <2>1 DEF CancelMoves, Fees, money
  <2>3. ASSUME MemberFee(p) PROVE MemberFee(p)'
    <3>1. row'[p].st \in Settled \cup {"none"} /\ row'[p].fee = row[p].fee /\ joined' = joined
      BY <2>1 DEF CancelMoves, Keeps, LoopLeaves, Settled
    <3>2. row[p].st \in Ready => (row[p].fee => p \in task.party)
      BY <2>1, <2>3 DEF CancelMoves, MemberFee, Known
    <3>3. row'[p].st = "cancelled" => ~row[p].fee \/ p \notin Payable
      <4>1. CASE row[p].st \in Ready
        BY <2>1, <3>2, <4>1 DEF CancelMoves, Ready, Settled
      <4>2. CASE row[p].st \in Settled \cup {"none"}
        <5>1. row[p].st \in {"cancelled", "none"}
          BY <1>i, <2>1, <4>2 DEF CancelMoves, Halfway, Active, Settled
        <5> QED
          BY <1>i, <2>1, <2>3, <5>1 DEF CancelMoves, MemberFee, Ledger
      <4> QED
        BY <2>3, <4>1, <4>2 DEF MemberFee
    <3> QED
      BY <2>3, <3>1, <3>3 DEF MemberFee, Ready, Settled
  <2> QED
    BY <1>r, <2>1, <2>2, <2>3 DEF CancelMoves, LoopLeaves, OnlyMoney, money
<1>3. ASSUME NEW p \in Participants, SettleRefund(p) PROVE Fees'
  <2>1. SettleMoves(p)
    BY <1>i, <1>3, SettleRowMoves
  <2>2. task'.pc = task.pc /\ task'.todo = task.todo /\ task'.party = task.party
    BY <1>t, <2>1 DEF SettleMoves, Tasks
  <2>3. row'[p].st = "refunded" => payout'[p] = 1
    BY <1>i, <2>1 DEF SettleMoves, Ledger
  <2>4. row'[p].st \in {"refunded", "refund_failed", "none"}
    BY <2>1 DEF SettleMoves, NoRow
  <2>5. MemberFee(p) => MemberFee(p)'
    BY <2>1, <2>4 DEF SettleMoves, LoopLeaves, MemberFee, Ready, Settled
  <2> QED
    BY <1>r, <2>1, <2>2, <2>3, <2>5 DEF SettleMoves, LoopLeaves
<1>4. ASSUME NEW p \in Participants, Drop(p) PROVE Fees'
  <2>1. DropMoves(p)
    BY <1>i, <1>4, DropRowMoves
  <2>2. row'[p].st = "refunded" => payout'[p] = 1
    BY <2>1 DEF DropMoves, Fees, money
  <2>3. MemberFee(p) => MemberFee(p)'
    BY <2>1 DEF DropMoves, LoopLeaves, MemberFee, Ready, Settled
  <2> QED
    BY <1>r, <2>1, <2>2, <2>3 DEF DropMoves, LoopLeaves, OnlyMoney, money
<1>5. ASSUME NEW p \in Participants, PayTimeout(p) \/ DeleteInterested(p) PROVE Fees'
  <2>1. /\ task.pc \in {"collect", "cleanup"} /\ p \in task.todo /\ OnlyRow(p)
        /\ UNCHANGED <<skel, nskel, tx, mix, joined, payout, owed>>
        /\ row'[p] = row[p] \/ row'[p].st \in {"cancelled", "none"}
    <3>1. CASE PayTimeout(p)
      BY <1>t, <3>1 DEF PayTimeout, OnlyRow, NoRow, Rows, built, money
    <3>2. CASE DeleteInterested(p)
      BY <1>t, <3>2 DEF DeleteInterested, OnlyRow, NoRow, built, money
    <3> QED
      BY <1>5, <3>1, <3>2
  <2>2. task'.pc \in {task.pc, "idle"} /\ task'.todo \subseteq task.todo
    <3>1. task' = NoTask \/ task' = [task EXCEPT !.todo = @ \ {p}]
      BY <1>5 DEF PayTimeout, DeleteInterested
    <3> QED
      BY <1>t, <3>1 DEF NoTask, Tasks
  <2>3. ~Member(p)
    BY <2>1 DEF Fees
  <2>4. row'[p].st = "refunded" => payout'[p] = 1
    BY <2>1 DEF Fees
  <2>5. \A q \in Participants : Member(q)' <=> Member(q)
    BY <2>1 DEF Member
  <2>6. \A q \in Participants : q # p => (MemberFee(q) => MemberFee(q)')
    BY <2>1, <2>2 DEF MemberFee, Known, OnlyRow
  <2>7. \A q \in Participants : row'[q].st = "refunded" => payout'[q] = 1
    BY <2>1, <2>4 DEF OnlyRow, Fees
  <2> QED
    BY <1>t, <2>1, <2>2, <2>3, <2>5, <2>6, <2>7 DEF Fees
<1>6. ASSUME NEW p \in Participants, SendRound(p) \/ MarkSigning(p) \/ RecoverSurvivor(p)
      PROVE  Fees'
  <2>1. /\ task.pc \in {"send", "recover"} /\ OnlyRow(p)
        /\ UNCHANGED <<skel, nskel, tx, mix, joined, payout, owed>>
        /\ row'[p].fee = row[p].fee /\ row'[p].st \in {row[p].st, "signing", "paid"}
        /\ p \in task.todo \cup task.cur
    <3>1. CASE SendRound(p)
      BY <1>t, <3>1 DEF SendRound, Sent, OnlyRow, Rows, money, built
    <3>2. CASE MarkSigning(p)
      BY <1>t, <3>2 DEF MarkSigning, OnlyRow, Rows, money, built
    <3>3. CASE RecoverSurvivor(p)
      BY <1>t, <3>3 DEF RecoverSurvivor, OnlyRow, Rows, money, built
    <3> QED
      BY <1>6, <3>1, <3>2, <3>3
  <2>2. task'.pc = task.pc /\ task'.todo \subseteq task.todo /\ task'.party = task.party
    <3>1. CASE SendRound(p)
      BY <1>t, <3>1 DEF SendRound, Tasks
    <3>2. CASE MarkSigning(p)
      BY <1>t, <3>2 DEF MarkSigning, Tasks
    <3>3. CASE RecoverSurvivor(p)
      BY <1>t, <3>3 DEF RecoverSurvivor, Tasks
    <3> QED
      BY <1>6, <3>1, <3>2, <3>3
  <2>3. row[p].st \in Ready
    BY <1>i, <1>6, <2>1 DEF Halfway, Ready, RecoverSurvivor, SendRound, MarkSigning
  <2>4. MemberFee(p) => MemberFee(p)'
    BY <2>1, <2>2, <2>3 DEF MemberFee, Known, Ready
  <2> QED
    BY <1>r, <2>1, <2>2, <2>3, <2>4 DEF OnlyMoney, Ready
<1>7. ASSUME NEW p \in Participants, MarkGhost(p) PROVE Fees'
  <2>1. /\ task.pc = "ghost" /\ OnlyRow(p) /\ row'[p].st = "ghosted"
        /\ UNCHANGED <<skel, nskel, tx, mix, joined, payout, owed>>
    BY <1>t, <1>7 DEF MarkGhost, OnlyRow, Rows, money, built
  <2>2. task'.pc = task.pc /\ task'.todo \subseteq task.todo /\ task'.party = task.party
    BY <1>t, <1>7 DEF MarkGhost, Tasks
  <2>3. MemberFee(p) => MemberFee(p)'
    BY <2>1 DEF MemberFee, Ready, Settled
  <2> QED
    BY <1>r, <2>1, <2>2, <2>3 DEF OnlyMoney
<1>8. CASE BeginRecovery
  <2>1. /\ task'.pc = "recover" /\ task.pc = "ghost"
        /\ UNCHANGED <<skel, nskel, tx, mix, joined, payout, owed>>
    BY <1>t, <1>8 DEF BeginRecovery, GhostsMarked, DropsDone, Tasks, money, built
  <2>2. \A q \in Participants : row'[q].st = row[q].st /\ row'[q].fee = row[q].fee
    BY <1>t, <1>8 DEF BeginRecovery, Rows
  <2> QED
    BY <2>1, <2>2 DEF Fees, MemberFee, Known, Member
<1>9. CASE TickCollecting \/ ProceedToAssembling
  <2>1. /\ task'.todo \subseteq In({"committed", "interested"}) /\ task'.pc \in {"collect", "cleanup"}
        /\ UNCHANGED <<row, skel, nskel, tx, joined, payout>>
        /\ mix'.st \in {"collecting", "assembling"}
    <3>1. CASE TickCollecting
      BY <3>1 DEF TickCollecting, NoTask, In, money, built
    <3>2. CASE ProceedToAssembling
      BY <1>t, <3>2 DEF ProceedToAssembling, NoTask, In, money, built
    <3> QED
      BY <1>9, <3>1, <3>2
  <2>2. \A p \in task'.todo : ~Member(p)
    BY <2>1 DEF Fees, MemberFee, In, Ready, Settled
  <2> QED
    BY <2>1, <2>2 DEF Fees, MemberFee, Known, Member
<1>10. CASE TickAssembling
  <2>1. /\ UNCHANGED <<row, payout, skel, nskel, joined, mix, tx>> /\ mix.st = "assembling"
        /\ task'.pc = "starved" /\ task'.party = In(Ready)
    BY <1>10 DEF TickAssembling, NoTask, Ready, money, built
  <2> QED
    BY <1>s, <2>1 DEF Known, In
<1>11. CASE StarvedDropped
  <2>1. CASE TargetLost
    BY <1>c, <1>11, <2>1 DEF StarvedDropped
  <2>2. CASE ~TargetLost
    <3>1. /\ task'.pc = "underfunded" /\ task'.party = task.party /\ task.pc = "starved"
          /\ UNCHANGED <<row, payout, skel, nskel, joined, mix, tx>>
      BY <1>t, <1>11, <2>2 DEF StarvedDropped, DropsDone, Tasks, money, built
    <3> QED
      BY <1>s, <3>1 DEF Fees, MemberFee, Known
  <2> QED
    BY <2>1, <2>2
<1>12. CASE BuildSkeleton
  <2>1. /\ task.pc = "underfunded" /\ task'.pc = "send" /\ nskel < MaxSkeletons
        /\ UNCHANGED <<row, payout, joined, mix, tx>> /\ mix.st = "assembling"
        /\ nskel' = nskel + 1 /\ skel' = [skel EXCEPT ![nskel + 1] = task.party]
    BY <1>12 DEF BuildSkeleton, DropsDone, NoTask, money, Phases
  <2>2. /\ \A i \in 1..nskel' : skel'[i] = IF i = nskel + 1 THEN task.party ELSE skel[i]
        /\ nskel' \in 1..nskel'
    BY <1>t, <2>1
  <2>3. \A p \in Participants : Member(p)' => Member(p) \/ p \in task.party
    BY <1>t, <2>1, <2>2 DEF Member
  <2>4. \A p \in task.party : p \in joined /\ row[p].st \in Ready
    BY <1>i, <1>t, <2>1 DEF Halfway, Ledger, Ready
  <2>5. \A p \in Participants : Member(p) /\ row[p].st \in Ready => p \in task.party
    BY <2>1 DEF Fees, MemberFee, Known
  <2>6. \A p \in task.party : Known(p)'
    BY <1>t, <2>1, <2>2 DEF Known
  <2>7. \A p \in Participants : Member(p)' => MemberFee(p)'
    <3> SUFFICES ASSUME NEW p \in Participants, Member(p)'
                 PROVE  MemberFee(p)'
      OBVIOUS
    <3>1. CASE p \in task.party
      BY <2>1, <2>4, <2>6, <3>1 DEF MemberFee, Ready
    <3>2. CASE p \notin task.party
      BY <2>1, <2>3, <2>5, <3>2 DEF Fees, MemberFee
    <3> QED
      BY <3>1, <3>2
  <2> QED
    BY <2>1, <2>7 DEF Fees
<1>13. CASE StartSigning
  <2>1. /\ UNCHANGED <<row, payout, skel, nskel, joined, tx>> /\ mix'.st = "signing"
        /\ task.pc = "send" /\ task'.pc = "idle"
    BY <1>t, <1>13 DEF StartSigning, DropsDone, NoTask, money, built
  <2> QED
    BY <1>s, <2>1 DEF Fees, MemberFee, Known
<1>14. CASE RecordBroadcast
  <2>1. /\ UNCHANGED <<row, payout, skel, nskel, joined, tx>> /\ mix'.st = "broadcast"
        /\ task'.pc = "idle" /\ mix.st = "signing" /\ tx.id = nskel
    BY <1>t, <1>14 DEF RecordBroadcast, NoTask, Phases, Pushing, Held, Firm, money, built
  <2> QED
    BY <1>s, <2>1 DEF Fees, MemberFee, Known
<1>15. CASE FinishRecovery
  <2>1. /\ UNCHANGED <<row, payout, skel, nskel, joined, tx>> /\ mix'.st = "collecting"
        /\ task'.pc = "idle"
    BY <1>15 DEF FinishRecovery, NoTask, money, built
  <2> QED
    BY <1>s, <2>1 DEF Known
<1>16. CASE \/ FinishCleanup \/ KeepCollecting \/ KeepSigning \/ Rebroadcast \/ RebroadcastLost
            \/ TickSigning \/ SweepUnconfirmed \/ BlacklistGhost \/ Combine \/ PushTx
  <2>1. /\ UNCHANGED <<row, payout, skel, nskel, joined, mix>>
        /\ task'.pc \in {"idle", "ghost", "probe", "push", "record", "ask"}
    <3>1. CASE FinishCleanup \/ KeepCollecting \/ KeepSigning \/ Rebroadcast \/ RebroadcastLost
      BY <3>1 DEF FinishCleanup, KeepCollecting, KeepSigning, Rebroadcast, RebroadcastLost, NoTask,
         money, built
    <3>2. CASE TickSigning \/ SweepUnconfirmed
      BY <3>2 DEF TickSigning, SweepUnconfirmed, NoTask, money, built
    <3>3. CASE BlacklistGhost \/ PushTx
      BY <1>t, <3>3 DEF BlacklistGhost, PushTx, Tasks, money, built
    <3>4. CASE Combine
      BY <3>4 DEF Combine, NoTask, money, built
    <3> QED
      BY <1>16, <3>1, <3>2, <3>3, <3>4
  <2>2. mix.st = "broadcast" => tx'.id = tx.id
    <3>1. tx.id = tx'.id \/ Combine
      BY <1>t, <1>16 DEF FinishCleanup, KeepCollecting, KeepSigning, Rebroadcast, RebroadcastLost,
         TickSigning, SweepUnconfirmed, BlacklistGhost, PushTx
    <3> QED
      BY <3>1 DEF Combine, GhostsMarked, DropsDone, Phases
  <2> QED
    BY <1>s, <2>1, <2>2 DEF Fees, MemberFee, Known
<1>17. CASE CancelUnfilled \/ AssemblyRefused \/ GiveUpOnGhosts \/ CombineFails
            \/ BroadcastFailed \/ ConflictFound
  BY <1>c, <1>17 DEF CancelUnfilled, AssemblyRefused, GiveUpOnGhosts, CombineFails,
     BroadcastFailed, ConflictFound
<1>18. CASE FinishCancel \/ SweepConfirmed
  BY <1>d, <1>18 DEF FinishCancel, SweepConfirmed
<1>19. CASE Clock \/ Network \/ UNCHANGED vars
  <2>1. /\ \A q \in Participants : row'[q].st = row[q].st /\ row'[q].fee = row[q].fee
        /\ UNCHANGED <<task, skel, nskel, joined, payout>> /\ mix'.st = mix.st /\ tx'.id = tx.id
    <3>1. ASSUME NEW p \in Participants, RowDeadlinePasses(p)
          PROVE  /\ OnlyRow(p) /\ row'[p].st = row[p].st /\ row'[p].fee = row[p].fee
                 /\ UNCHANGED <<task, skel, nskel, mix, tx, joined, payout>>
      BY <1>t, <3>1 DEF RowDeadlinePasses, OnlyRow, Rows, built, money
    <3>2. CASE FillDeadlinePasses
      BY <1>t, <3>2 DEF FillDeadlinePasses, built, money
    <3>3. CASE Network \/ UNCHANGED vars
      BY <1>t, <3>3 DEF Network, Confirm, Evict, DoubleSpend, vars, built, money
    <3> QED
      BY <1>19, <3>1, <3>2, <3>3 DEF Clock, OnlyRow
  <2> QED
    BY <1>t, <2>1 DEF Fees, MemberFee, Known, Member
<1>20. CASE Crash
  <2>1. UNCHANGED <<row, skel, nskel, joined, mix, tx>> /\ task'.pc = "idle"
    BY <1>20 DEF Crash, NoTask, built
  <2>2. \A q \in Participants : payout'[q] = payout[q] \/ row[q].st = "refunding"
    BY <1>t, <1>20 DEF Crash
  <2> QED
    BY <2>1, <2>2 DEF Fees, MemberFee, Known, Member
<1> QED
  BY <1>1, <1>2, <1>3, <1>4, <1>5, <1>6, <1>7, <1>8, <1>9, <1>10, <1>11, <1>12, <1>13,
     <1>14, <1>15, <1>16, <1>17, <1>18, <1>19, <1>20
     DEF Next, Handlers, Handler, EventLoop, Destroyed

-----------------------------------------------------------------------------
(***************************************************************************)
(* The theorems.                                                           *)
(***************************************************************************)

RoundInv == MoneyInv /\ Phases /\ Rounds /\ Held /\ Failed /\ Ghosts /\ Fees

\* The mix begins with nobody in it.
LEMMA RoundInit ==
  Init => Phases /\ Rounds /\ Held /\ Failed /\ Ghosts /\ Fees /\ Live /\ Target
<1> SUFFICES ASSUME Init
             PROVE  Phases /\ Rounds /\ Held /\ Failed /\ Ghosts /\ Fees /\ Live /\ Target
  OBVIOUS
<1>1. /\ task.pc = "idle" /\ task.todo = {} /\ task.cur = {} /\ task.why = "-"
      /\ mix.st = "collecting" /\ nskel = 0 /\ tx.st = "unsent" /\ blacklist = {}
      /\ \A p \in Participants : row[p].st = "none"
  BY DEF Init, NoTask, NoRow
<1>2. Phases /\ Rounds /\ Failed /\ Live
  BY <1>1 DEF Phases, Rounds, Failed, Live, OnNetwork
<1>3. Held /\ Ghosts
  BY <1>1 DEF Held, Pushing, Ghosts, GhostLoses, Forfeits
<1>4. Target
  BY <1>1 DEF Target, CollectRead, EnoughReady, DropsCounted
<1>5. Fees
  BY <1>1 DEF Fees, Member
<1> QED
  BY <1>2, <1>3, <1>4, <1>5

\* The round, its coins, its failures and its ghosts: the parts of the invariant that
\* hold whatever the network says and whichever coins the participants bring.
THEOREM RoundInvariant == Spec => []RoundInv
<1>1. Init => RoundInv
  BY TypeInit, MoneyInit, RoundInit DEF RoundInv, MoneyInv
<1>2. RoundInv /\ [Next]_vars => RoundInv'
  BY TypeStep, LedgerStep, HalfwayStep, PhasesStep, RoundsStep, HeldStep, FailedStep, GhostsStep,
     FeesStep
     DEF RoundInv, MoneyInv
<1> QED
  BY <1>1, <1>2, PTL DEF Spec

\* While a skeleton is out for signing or its transaction for confirmation, every
\* member's coins are held for it, ghosts apart: no drop, exit, timeout or
\* cancellation gives them back early.
THEOREM CoinsStayHeld == Spec => []InputsHeld
<1>1. RoundInv => InputsHeld
  BY DEF RoundInv, Held, InputsHeld
<1> QED
  BY <1>1, RoundInvariant, PTL

\* A round that everybody signed is combined, whatever crashed on the way, unless a
\* cancellation had settled a member before the crash.
THEOREM SignedRoundsCombine == Spec => []CombineSucceeds
<1>1. RoundInv => CombineSucceeds
  BY DEF RoundInv, Failed, CombineSucceeds
<1> QED
  BY <1>1, RoundInvariant, PTL

\* Ghosts are blacklisted before the mix re-forms, and whoever is blacklisted never
\* has the fee back.
THEOREM GhostsStayPunished == Spec => []GhostsPunished
<1>1. RoundInv => GhostsPunished
  <2> SUFFICES ASSUME RoundInv PROVE GhostsPunished
    OBVIOUS
  <2>1. /\ crashes = 0 /\ mix.st = "collecting" => In({"ghosted"}) \subseteq blacklist
    BY DEF RoundInv, Phases, Ghosts, GhostLoses, In
  <2>2. \A p \in blacklist : payout[p] = 0 /\ p \notin owed
    BY DEF RoundInv, MoneyInv, TypeOK, Ghosts, Forfeits
  <2> QED
    BY <2>1, <2>2 DEF GhostsPunished
<1> QED
  BY <1>1, RoundInvariant, PTL

\* The formula of MemberFeeAccounted.
MemberKept(p) ==
  (row[p].fee /\ row'[p].st = "none" /\ Member(p))
   => \/ payout'[p] = 1 \/ p \in owed'
      \/ tx.st = "confirmed" /\ p \in skel[tx.id]
      \/ row[p].st \in {"ghosted", "refunding"}
      \/ p \notin Payable

\* Whoever deletes the row of a member has accounted for the fee on it.
LEMMA MemberStep ==
  ASSUME RoundInv, [Next]_vars, NEW p \in Participants,
         row[p].fee, row'[p].st = "none", Member(p)
  PROVE  MemberKept(p)
<1>i. TypeOK /\ Ledger /\ Halfway /\ Phases /\ Rounds /\ Held /\ Fees
  BY DEF RoundInv, MoneyInv
<1>t. /\ row \in [Participants -> Rows] /\ \A q \in Participants : row[q] \in Rows
      /\ payout \in [Participants -> Nat] /\ owed \subseteq Participants
      /\ task \in Tasks /\ task.todo \subseteq Participants
  BY <1>i DEF TypeOK, Tasks
<1>m. /\ MemberFee(p) /\ row[p].st # "none" /\ row[p] # row'[p]
      /\ row[p].st = "refunded" => payout[p] = 1
  BY <1>i DEF Fees, Ledger
<1>d. ASSUME DestroyMix, row[p].st \notin Ready PROVE MemberKept(p)
  <2>1. payout' = payout /\ owed' = owed \cup Debts
    BY <1>d DEF DestroyMix
  <2>2. row[p].st \in Settled
    BY <1>d, <1>m DEF MemberFee
  <2>3. CASE row[p].st = "refund_failed"
    BY <2>1, <2>3 DEF Debts, In, MemberKept
  <2>4. CASE row[p].st \in {"refunded", "refunding", "ghosted", "cancelled"}
    BY <1>m, <2>1, <2>4 DEF MemberFee, MemberKept
  <2> QED
    BY <2>2, <2>3, <2>4 DEF Settled
<1>o. ASSUME NEW q \in Participants, OnlyRow(q) PROVE q = p
  BY <1>m, <1>o DEF OnlyRow
<1>1. ASSUME NEW q \in Participants, Handler(q) PROVE MemberKept(p)
  <2>1. HandlerMoves(q)
    BY <1>i, <1>1, HandlerEffect
  <2>2. q = p
    BY <1>o, <2>1 DEF HandlerMoves
  <2>3. Departs(p)
    BY <1>m, <2>1, <2>2 DEF HandlerMoves, Joins, Readies, SignsRound
  <2>4. payout[p] = 0
    BY <1>i, <2>3 DEF Departs, Ledger
  <2> QED
    BY <2>3, <2>4 DEF Departs, MemberKept
<1>2. ASSUME NEW q \in Participants, CancelRow(q) \/ Drop(q) \/ SettleRefund(q) PROVE MemberKept(p)
  <2>1. CASE CancelRow(q)
    BY <1>i, <1>m, <1>o, <2>1, CancelRowMoves DEF CancelMoves, Settled
  <2>2. CASE Drop(q)
    BY <1>i, <1>m, <1>o, <2>2, DropRowMoves DEF DropMoves
  <2>3. CASE SettleRefund(q)
    BY <1>i, <1>o, <2>3, SettleRowMoves DEF SettleMoves, MemberKept
  <2> QED
    BY <1>2, <2>1, <2>2, <2>3
<1>3. ASSUME NEW q \in Participants, PayTimeout(q) \/ DeleteInterested(q) PROVE MemberKept(p)
  <2>1. OnlyRow(q) /\ task.pc \in {"collect", "cleanup"} /\ q \in task.todo
    BY <1>t, <1>3 DEF PayTimeout, DeleteInterested, OnlyRow
  <2> QED
    BY <1>i, <1>o, <2>1 DEF Fees
<1>4. ASSUME NEW q \in Participants,
             SendRound(q) \/ MarkSigning(q) \/ MarkGhost(q) \/ RecoverSurvivor(q)
      PROVE  FALSE
  <2>1. CASE SendRound(q)
    BY <1>m, <1>o, <1>t, <2>1 DEF SendRound, Sent, OnlyRow, Rows
  <2>2. CASE MarkSigning(q) \/ MarkGhost(q) \/ RecoverSurvivor(q)
    BY <1>m, <1>o, <1>t, <2>2 DEF MarkSigning, MarkGhost, RecoverSurvivor, OnlyRow, Rows
  <2> QED
    BY <1>4, <2>1, <2>2
<1>5. CASE FinishCancel
  <2>1. row[p].st \notin Ready
    BY <1>m, <1>5 DEF FinishCancel, MemberFee, Known
  <2> QED
    BY <1>d, <1>5, <2>1 DEF FinishCancel
<1>6. CASE SweepConfirmed
  <2>1. mix.st = "broadcast" /\ tx.st = "confirmed" /\ DestroyMix
    BY <1>6 DEF SweepConfirmed
  <2>2. CASE row[p].st \in Ready
    BY <1>m, <2>1, <2>2 DEF MemberFee, Known, MemberKept
  <2> QED
    BY <1>d, <2>1, <2>2
<1>7. CASE BeginRecovery
  BY <1>m, <1>t, <1>7 DEF BeginRecovery, Rows
<1>8. CASE Clock
  <2>1. ASSUME NEW q \in Participants, RowDeadlinePasses(q) PROVE FALSE
    BY <1>m, <1>o, <1>t, <2>1 DEF RowDeadlinePasses, OnlyRow, Rows
  <2> QED
    BY <1>8, <1>m, <2>1 DEF Clock, FillDeadlinePasses
<1>9. CASE Network \/ Crash \/ UNCHANGED vars \/ TickCollecting \/ ProceedToAssembling
           \/ FinishCleanup \/ KeepCollecting \/ TickAssembling \/ BuildSkeleton \/ StartSigning
           \/ TickSigning \/ BlacklistGhost \/ FinishRecovery \/ KeepSigning \/ Combine \/ PushTx
           \/ RecordBroadcast \/ SweepUnconfirmed \/ Rebroadcast \/ RebroadcastLost
  BY <1>m, <1>9 DEF Network, Confirm, Evict, DoubleSpend, Crash, vars, TickCollecting,
     ProceedToAssembling, FinishCleanup, KeepCollecting, TickAssembling, BuildSkeleton,
     StartSigning, TickSigning, BlacklistGhost, FinishRecovery, KeepSigning, Combine, PushTx,
     RecordBroadcast, SweepUnconfirmed, Rebroadcast, RebroadcastLost
<1>10. CASE StarvedDropped \/ CancelUnfilled \/ AssemblyRefused \/ GiveUpOnGhosts
            \/ CombineFails \/ BroadcastFailed \/ ConflictFound
  BY <1>m, <1>10 DEF StarvedDropped, CancelUnfilled, AssemblyRefused, GiveUpOnGhosts,
     CombineFails, BroadcastFailed, ConflictFound, CancelFor
<1> QED
  BY <1>1, <1>2, <1>3, <1>4, <1>5, <1>6, <1>7, <1>8, <1>9, <1>10
     DEF Next, Handlers, Handler, EventLoop, Destroyed

\* The fee of whoever was in a skeleton is paid back, owed, earned by a confirmed mix,
\* forfeited, or in the hands of the wallet when the row goes.
THEOREM MemberFeesKept == Spec => MemberFeeAccounted
<1> DEFINE AllKept == \A p \in Participants : MemberKept(p)
<1>1. RoundInv /\ [Next]_vars => [AllKept]_vars
  <2> SUFFICES ASSUME RoundInv, [Next]_vars, NEW p \in Participants
               PROVE  MemberKept(p)
    OBVIOUS
  <2> QED
    BY MemberStep DEF MemberKept
<1>2. MemberFeeAccounted <=> [][AllKept]_vars
  BY DEF MemberFeeAccounted, MemberKept, Member
<1> QED
  BY <1>1, <1>2, RoundInvariant, PTL DEF Spec

\* Where tx_known denies no transaction that the network has, nobody in a transaction
\* that is on the network has had the fee back, on either side of a crash.
THEOREM NoRefundOnLiveTx ==
  ASSUME ~Misreports
  PROVE  Spec => []LiveTxNotRefunded
<1>1. Init => RoundInv /\ Live
  BY TypeInit, MoneyInit, RoundInit DEF RoundInv, MoneyInv
<1>2. RoundInv /\ Live /\ [Next]_vars => Live'
  BY LiveStep DEF RoundInv
<1>3. RoundInv /\ Live => LiveTxNotRefunded
  BY LiveImplies DEF RoundInv
<1> QED
  BY <1>1, <1>2, <1>3, RoundInvariant, PTL DEF Spec

\* Where one participant cannot stand for two, every skeleton sent out before a crash
\* joins two of them and meets the target the mix advanced on.
THEOREM TargetIsMet ==
  ASSUME Plural
  PROVE  Spec => []SkeletonMeetsTarget
<1>1. Init => Target
  BY RoundInit
<1>2. RoundInv /\ Target /\ [Next]_vars => Target'
  BY TargetStep DEF RoundInv
<1>3. Target => SkeletonMeetsTarget
  BY DEF Target, Meets, SkeletonMeetsTarget
<1> QED
  BY <1>1, <1>2, <1>3, RoundInvariant, PTL DEF Spec
=============================================================================
