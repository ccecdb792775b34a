------------------------------ MODULE MixRound ------------------------------
(***************************************************************************)
(* The life of one mix, from the first join to the destruction of its      *)
(* rows, as src/coordinator.py runs it on top of the database.             *)
(*                                                                         *)
(* The event loop is one asyncio task that ticks for ever.  It reads the   *)
(* rows it needs, then works through them one awaited write at a time;     *)
(* `task' is what that coroutine holds in local variables between two      *)
(* awaits, so a direct message handled in the meantime finds a half-done   *)
(* tick, and a crash (or an exception that escapes the tick) forgets       *)
(* `task' and nothing else.  Handlers of direct messages and zaps are one  *)
(* action each; the Refunds module opens up the handler that moves money.  *)
(*                                                                         *)
(* Amounts, addresses and outpoints are abstracted to what control flow    *)
(* tells apart: a row has inputs on file or not, enough addresses laid out *)
(* or not, a service fee paid or not, its clock expired or not.  Which     *)
(* participants bring conforming and non-conforming coins is a parameter;  *)
(* which of them cannot carry their share of the miner fee is chosen at    *)
(* assembly, since it depends on the fee rate of that moment.              *)
(***************************************************************************)
EXTENDS Naturals, FiniteSets

CONSTANTS
  Participants,     \* one row of the mix each
  NonConforming,    \* those who commit a coin of another size than output_size
  Conforming,       \* those who commit a coin of exactly output_size
  Charged,          \* those who owe a service fee (FEE_PER_ELEMENT > 0)
  Payable,          \* those whose profile has a Lightning address
  RequiredNC,       \* required_nonconforming of the mix
  MaxGhostRetries,  \* max_ghost_retries of the mix
  MaxSkeletons,     \* bound: skeletons built
  MaxCrashes,       \* bound: crashes and exceptions that abort a tick
  Misreports        \* may tx_known deny a transaction that is on the network?

ASSUME MixRoundAssumption ==
  /\ IsFiniteSet(Participants)
  /\ NonConforming \subseteq Participants
  /\ Conforming \subseteq Participants
  /\ Charged \subseteq Participants
  /\ Payable \subseteq Participants
  /\ RequiredNC \in Nat \ {0}
  /\ MaxGhostRetries \in Nat
  /\ MaxSkeletons \in Nat
  /\ MaxCrashes \in Nat
  /\ Misreports \in BOOLEAN

VARIABLES
  mix,        \* the mixes row: state, ghost_retries, deadline_unix passed or not
  row,        \* the participants, utxos, outputs and psbt_rounds rows of each
  skel,       \* who is in each skeleton built so far
  nskel,      \* how many skeletons were built
  blacklist,  \* participants in the blacklist table
  payout,     \* Lightning refunds that left the wallet, per participant
  owed,       \* participants with a refunds_owed record
  joined,     \* participants who have joined; each joins this mix once
  tx,         \* the combined transaction and what the network did with it
  task,       \* local variables of the event loop between two awaits
  crashes

vars == <<mix, row, skel, nskel, blacklist, payout, owed, joined, tx, task,
          crashes>>

-----------------------------------------------------------------------------
\* States of a participant row that _process_mix calls active.
Active == {"interested", "committed", "paid", "signing", "signed"}

\* Mutants of Settled: a payout in flight may be tried again; a ghost is owed
\* its fee like everybody else.
SettledButInFlight == {"refunded", "refund_failed", "cancelled", "ghosted"}
SettledButGhosts == {"refunding", "refunded", "refund_failed", "cancelled"}

\* _REFUND_TERMINAL_STATES: the refund decision is made ("completed" is in the
\* code's list but no code ever writes it to a participant).
Settled == {"refunding", "refunded", "refund_failed", "cancelled", "ghosted"}

MixStates == {"collecting", "assembling", "signing", "broadcast", "none"}

NoRow == [st |-> "none", fee |-> FALSE, inputs |-> FALSE, outs |-> FALSE,
          late |-> FALSE, num |-> 0, sent |-> 0, ret |-> 0]

NoTask == [pc |-> "idle", todo |-> {}, cur |-> {}, party |-> {},
           flag |-> FALSE, late |-> FALSE, id |-> 0, why |-> "-"]

In(S) == {p \in Participants : row[p].st \in S}

\* The number of the psbt_rounds rows that count: one per recovery.
RoundNum == mix.retries + 1

\* What a participant's rows hold: state, is a fee paid, are inputs and enough
\* outputs on file, has the PAY_ or SIGNING_DEADLINE of the row passed, and of
\* psbt_rounds the round number, the skeleton sent and the skeleton signed.
States == Active \cup Settled \cup {"none"}
Rows == [st : States, fee : BOOLEAN, inputs : BOOLEAN, outs : BOOLEAN,
         late : BOOLEAN, num : Nat, sent : Nat, ret : Nat]

\* Where the event loop is, the rows it has yet to treat, the row in hand, the
\* rows it reasons about, what else it read, the skeleton in hand, and why it
\* cancels.
Steps == {"idle", "collect", "cleanup", "starved", "underfunded", "send",
          "ghost", "recover", "push", "record", "ask", "probe", "cancel"}
Reasons == {"-", "fill", "assembly", "ghosts", "combine", "rejected",
            "conflict"}
Tasks == [pc : Steps, todo : SUBSET Participants, cur : SUBSET Participants,
          party : SUBSET Participants, flag : BOOLEAN, late : BOOLEAN,
          id : Nat, why : Reasons]

TypeOK ==
  /\ mix \in [st : MixStates, retries : Nat, late : BOOLEAN]
  /\ row \in [Participants -> Rows]
  /\ skel \in [1..MaxSkeletons -> SUBSET Participants]
  /\ nskel \in 0..MaxSkeletons
  /\ blacklist \subseteq Participants
  /\ payout \in [Participants -> Nat]
  /\ owed \subseteq Participants
  /\ joined \subseteq Participants
  /\ tx \in [id : Nat, st : {"unsent", "live", "confirmed", "conflicted"}]
  /\ task \in Tasks
  /\ crashes \in Nat

Init ==
  /\ mix = [st |-> "collecting", retries |-> 0, late |-> FALSE]
  /\ row = [p \in Participants |-> NoRow]
  /\ skel = [i \in 1..MaxSkeletons |-> {}]
  /\ nskel = 0
  /\ blacklist = {}
  /\ payout = [p \in Participants |-> 0]
  /\ owed = {}
  /\ joined = {}
  /\ tx = [id |-> 0, st |-> "unsent"]
  /\ task = NoTask
  /\ crashes = 0

money == <<payout, owed>>
built == <<skel, nskel>>
-----------------------------------------------------------------------------
(***************************************************************************)
(* Direct messages and zaps.                                               *)
(***************************************************************************)

\* join: a new 'interested' row; every join pushes the fill deadline back.
Join(p) ==
  /\ mix.st = "collecting"
  /\ p \notin joined \cup blacklist
  /\ row' = [row EXCEPT ![p].st = "interested"]
  /\ joined' = joined \cup {p}
  /\ mix' = [mix EXCEPT !.late = FALSE]
  /\ UNCHANGED <<built, blacklist, money, tx, task, crashes>>

\* commit: the state of the mix is not looked at, and every commit restarts
\* the pay clock.
Commit(p) ==
  /\ row[p].st \in {"interested", "committed"}
  /\ row' = [row EXCEPT ![p].st = "committed", ![p].inputs = TRUE,
                        ![p].late = FALSE]
  /\ UNCHANGED <<mix, built, blacklist, money, joined, tx, task, crashes>>

\* Rows whose addresses may still be given: never laid out, or laid out with
\* nothing paid while the mix is open (_address_candidates).
MayAddress(p) ==
  \/ row[p].st = "committed"
  \/ row[p].st = "paid" /\ ~row[p].outs
  \/ row[p].st = "paid" /\ ~row[p].fee /\ mix.st = "collecting"

\* _layout_outputs_and_quote: outputs on file; whoever has paid, or owes no fee,
\* is ready, and the pay clock starts over.
LaidOut(p) ==
  [row[p] EXCEPT !.outs = TRUE, !.late = FALSE,
                 !.st = IF row[p].st = "paid" \/ p \notin Charged THEN "paid"
                        ELSE "committed"]

\* addresses: from somebody who may still give or change them.
ProvideAddresses(p) ==
  /\ MayAddress(p)
  /\ row' = [row EXCEPT ![p] = LaidOut(p)]
  /\ UNCHANGED <<mix, built, blacklist, money, joined, tx, task, crashes>>

\* clear addresses: the layout is thrown away, the state is kept.
ClearAddresses(p) ==
  /\ MayAddress(p) /\ row[p].outs
  /\ row' = [row EXCEPT ![p].outs = FALSE]
  /\ UNCHANGED <<mix, built, blacklist, money, joined, tx, task, crashes>>

\* A sufficient zap pays whichever row is 'committed', in a mix of any state.
ZapCommitted(p) ==
  /\ row[p].st = "committed"
  /\ row' = [row EXCEPT ![p].st = "paid", ![p].fee = TRUE, ![p].late = FALSE]
  /\ UNCHANGED <<mix, built, blacklist, money, joined, tx, task, crashes>>

\* A zap that finds the sender's row 'cancelled' becomes a refund debt.
ZapCancelled(p) ==
  /\ row[p].st = "cancelled" /\ p \in Payable
  /\ owed' = owed \cup {p}
  /\ UNCHANGED <<mix, row, built, blacklist, payout, joined, tx, task, crashes>>

\* A mutant of MayExit: the states of the mix are forgotten.
AlwaysExit(p) == row[p].st \in {"interested", "committed", "paid"}

MayExit(p) ==
  /\ row[p].st \in {"interested", "committed", "paid"}
  /\ mix.st \notin {"assembling", "signing"}

\* cancel: inputs and outputs go, the fee is refunded, the row is scrubbed
\* unless it is the only record of an unpayable debt.
Exit(p) ==
  /\ MayExit(p)
  /\ IF row[p].fee /\ p \notin Payable
     THEN /\ row' = [row EXCEPT ![p].st = "cancelled", ![p].inputs = FALSE,
                                ![p].outs = FALSE, ![p].late = FALSE]
          /\ UNCHANGED money
     ELSE /\ row' = [row EXCEPT ![p] = NoRow]
          /\ IF ~row[p].fee
             THEN UNCHANGED money
             ELSE \/ /\ payout' = [payout EXCEPT ![p] = @ + 1]
                     /\ UNCHANGED owed
                  \/ /\ owed' = owed \cup {p}
                     /\ UNCHANGED payout
  /\ UNCHANGED <<mix, built, blacklist, joined, tx, task, crashes>>

\* psbt_accept: a signature for the skeleton of the round in progress.
AcceptPsbt(p) ==
  /\ row[p].st = "signing" /\ row[p].num = RoundNum
  /\ row' = [row EXCEPT ![p].st = "signed", ![p].ret = row[p].sent]
  /\ UNCHANGED <<mix, built, blacklist, money, joined, tx, task, crashes>>

-----------------------------------------------------------------------------
(***************************************************************************)
(* Time and the network.                                                   *)
(***************************************************************************)

\* FILL_DEADLINE passes for the mix; PAY_ or SIGNING_DEADLINE for a row.
FillDeadlinePasses ==
  /\ mix.st = "collecting" /\ ~mix.late
  /\ mix' = [mix EXCEPT !.late = TRUE]
  /\ UNCHANGED <<row, built, blacklist, money, joined, tx, task, crashes>>

RowDeadlinePasses(p) ==
  /\ row[p].st \in {"committed", "signing"} /\ ~row[p].late
  /\ row' = [row EXCEPT ![p].late = TRUE]
  /\ UNCHANGED <<mix, built, blacklist, money, joined, tx, task, crashes>>

\* The transaction is mined, falls out of the mempool, or loses to another
\* spend of one of its inputs.
Confirm ==
  /\ tx.st = "live"
  /\ tx' = [tx EXCEPT !.st = "confirmed"]
  /\ UNCHANGED <<mix, row, built, blacklist, money, joined, task, crashes>>

Evict ==
  /\ tx.st = "live"
  /\ tx' = [tx EXCEPT !.st = "unsent"]
  /\ UNCHANGED <<mix, row, built, blacklist, money, joined, task, crashes>>

DoubleSpend ==
  /\ tx.id # 0 /\ tx.st \in {"unsent", "live"}
  /\ tx' = [tx EXCEPT !.st = "conflicted"]
  /\ UNCHANGED <<mix, row, built, blacklist, money, joined, task, crashes>>

\* When tx_known may say False: the transaction is nowhere, or an endpoint that
\* lags has the last word.  None, "cannot tell", is always possible.
SaysUnknown == tx.st \in {"unsent", "conflicted"} \/ Misreports
-----------------------------------------------------------------------------
(***************************************************************************)
(* The event loop: cancelling, settling, destroying.                       *)
(***************************************************************************)

Idle == task.pc = "idle"

\* _cancel_and_refund begins by reading the rows; party remembers the fees seen.
Cancelling(why) ==
  [NoTask EXCEPT !.pc = "cancel",
                 !.todo = {p \in Participants : row[p].st \notin Settled \cup {"none"}},
                 !.party = {p \in Participants : row[p].fee}, !.why = why]

\* One participant of the loop of _cancel_and_refund.  Only the refund branch
\* re-reads the row; the other overwrites whatever the row says by now.
CancelRow(p) ==
  /\ task.pc = "cancel" /\ task.cur = {} /\ p \in task.todo
  /\ IF p \in task.party \cap Payable
     THEN IF row[p].st \in Settled \cup {"none"}
          THEN /\ task' = [task EXCEPT !.todo = @ \ {p}]
               /\ UNCHANGED row
          ELSE /\ task' = [task EXCEPT !.todo = @ \ {p}, !.cur = {p}]
               /\ row' = [row EXCEPT ![p].st = "refunding"]
     ELSE /\ task' = [task EXCEPT !.todo = @ \ {p}]
          /\ row' = IF row[p].st = "none" THEN row
                    ELSE [row EXCEPT ![p].st = "cancelled"]
  /\ UNCHANGED <<mix, built, blacklist, money, joined, tx, crashes>>

\* The row is what _drop_address_starved and _drop_underfunded find: inputs and
\* outputs go, then the refund, or the row at once when nothing was paid.
Drop(p) ==
  /\ task.pc \in {"starved", "underfunded"} /\ task.cur = {} /\ p \in task.todo
  /\ LET released == [row[p] EXCEPT !.inputs = FALSE, !.outs = FALSE]
         rest == [task EXCEPT !.todo = @ \ {p}, !.party = @ \ {p}]
     IN IF row[p].st \in Settled \cup {"none"}
        THEN /\ task' = rest
             /\ UNCHANGED row
        ELSE IF row[p].fee /\ p \in Payable
        THEN /\ task' = [rest EXCEPT !.cur = {p}]
             /\ row' = [row EXCEPT ![p] = [released EXCEPT !.st = "refunding"]]
        ELSE /\ task' = rest
             /\ row' = [row EXCEPT ![p] =
                  IF row[p].fee THEN [released EXCEPT !.st = "cancelled"]
                  ELSE NoRow]
  /\ UNCHANGED <<mix, built, blacklist, money, joined, tx, crashes>>

\* The wallet answers.  A dropped participant is scrubbed at once; during a
\* cancellation the row stays until the mix is destroyed.
SettleRefund(p) ==
  /\ p \in task.cur /\ row[p].st = "refunding"
  /\ \/ /\ payout' = [payout EXCEPT ![p] = @ + 1]
        /\ row' = [row EXCEPT ![p] =
             IF task.pc = "cancel" THEN [@ EXCEPT !.st = "refunded"] ELSE NoRow]
        /\ UNCHANGED owed
     \/ /\ row' = [row EXCEPT ![p] =
             IF task.pc = "cancel" THEN [@ EXCEPT !.st = "refund_failed"]
             ELSE NoRow]
        /\ owed' = IF task.pc = "cancel" THEN owed ELSE owed \cup {p}
        /\ UNCHANGED payout
  /\ task' = [task EXCEPT !.cur = {}]
  /\ UNCHANGED <<mix, built, blacklist, joined, tx, crashes>>

\* A mutant of Debts: the rows go and nobody writes the debts down.
NoDebts == {}

\* The failed refunds that _destroy_mix keeps as refunds_owed records.
Debts == In({"refund_failed"}) \cap Payable

\* A mutant of DestroyMix: the mix is kept as "completed", as the state list of
\* the plan has it.
CompleteMix ==
  /\ owed' = owed \cup Debts
  /\ mix' = [mix EXCEPT !.st = "completed"]
  /\ task' = NoTask
  /\ UNCHANGED <<row, built, blacklist, payout, joined, tx, crashes>>

\* _destroy_mix: failed refunds become debts, every row of the mix goes.
DestroyMix ==
  /\ owed' = owed \cup Debts
  /\ row' = [p \in Participants |-> NoRow]
  /\ mix' = [mix EXCEPT !.st = "none"]
  /\ task' = NoTask
  /\ UNCHANGED <<built, blacklist, payout, joined, tx, crashes>>

FinishCancel ==
  /\ task.pc = "cancel" /\ task.todo = {} /\ task.cur = {}
  /\ DestroyMix

CancelFor(why) ==
  /\ task' = Cancelling(why)
  /\ UNCHANGED <<mix, row, built, blacklist, money, joined, tx, crashes>>

-----------------------------------------------------------------------------
(***************************************************************************)
(* The event loop: a mix that is collecting.                               *)
(***************************************************************************)

\* The tick reads the mix and its rows.  todo: unpaid slots whose time is up;
\* party: the ready list; flag: somebody else is still active.
TickCollecting ==
  /\ Idle /\ mix.st = "collecting"
  /\ LET expired == {p \in In({"committed"}) : row[p].late}
     IN task' = [NoTask EXCEPT !.pc = "collect", !.todo = expired,
                  !.party = In({"paid"}), !.flag = (In(Active) \ expired # {}),
                  !.late = mix.late]
  /\ UNCHANGED <<mix, row, built, blacklist, money, joined, tx, crashes>>

\* The slot is cancelled on the strength of what was read; the scrub re-reads
\* the fee and keeps the row if a zap came in between.
PayTimeout(p) ==
  /\ task.pc = "collect" /\ p \in task.todo
  /\ task' = [task EXCEPT !.todo = @ \ {p}]
  /\ row' = IF row[p].fee
            THEN [row EXCEPT ![p].st = "cancelled", ![p].inputs = FALSE,
                             ![p].outs = FALSE]
            ELSE [row EXCEPT ![p] = NoRow]
  /\ UNCHANGED <<mix, built, blacklist, money, joined, tx, crashes>>

\* A mutant of Counted: addresses are not asked for.
AnyReady == task.party \cap {p \in Participants : row[p].inputs}

\* Who counts towards the target: ready, with addresses on file.
Counted == {p \in task.party : row[p].outs /\ row[p].inputs}

\* _classify_ready
TargetMet ==
  /\ Cardinality(Counted \cap NonConforming) >= RequiredNC
  /\ RequiredNC >= 2 \/ Counted \cap Conforming # {}

CollectDone == task.pc = "collect" /\ task.todo = {}

ProceedToAssembling ==
  /\ CollectDone /\ TargetMet
  /\ mix' = [mix EXCEPT !.st = "assembling"]
  /\ task' = [NoTask EXCEPT !.pc = "cleanup", !.todo = In({"interested"})]
  /\ UNCHANGED <<row, built, blacklist, money, joined, tx, crashes>>

\* _cleanup_interested deletes one row; if inputs were committed to it in the
\* meantime the delete breaks a foreign key and the tick ends.
DeleteInterested(p) ==
  /\ task.pc = "cleanup" /\ p \in task.todo
  /\ IF row[p].inputs
     THEN /\ task' = NoTask
          /\ UNCHANGED row
     ELSE /\ task' = [task EXCEPT !.todo = @ \ {p}]
          /\ row' = [row EXCEPT ![p] = NoRow]
  /\ UNCHANGED <<mix, built, blacklist, money, joined, tx, crashes>>

FinishCleanup ==
  /\ task.pc = "cleanup" /\ task.todo = {}
  /\ task' = NoTask
  /\ UNCHANGED <<mix, row, built, blacklist, money, joined, tx, crashes>>

\* A mutant of Overdue: nobody looks at the fill deadline.
NeverOverdue == FALSE

\* Somebody waits and the fill deadline, as the tick read it, has passed.
Overdue == task.flag /\ task.late

\* An empty mix is kept open until it is old; one with participants until its
\* fill deadline, as the tick read it.
KeepCollecting ==
  /\ CollectDone /\ ~TargetMet
  /\ ~Overdue
  /\ task' = NoTask
  /\ UNCHANGED <<mix, row, built, blacklist, money, joined, tx, crashes>>

CancelUnfilled ==
  /\ CollectDone /\ ~TargetMet
  /\ Overdue \/ ~task.flag
  /\ CancelFor("fill")
-----------------------------------------------------------------------------
(***************************************************************************)
(* The event loop: a mix that is assembling.                               *)
(***************************************************************************)

\* party: the participants of the skeleton to be; todo: those of them without
\* addresses, to be dropped; flag: somebody has to be.
TickAssembling ==
  /\ Idle /\ mix.st = "assembling"
  /\ LET ready == In({"paid", "signing", "signed"})
         starved == {p \in ready : row[p].inputs /\ ~row[p].outs}
     IN task' = [NoTask EXCEPT !.pc = "starved", !.party = ready,
                  !.todo = starved, !.flag = (starved # {})]
  /\ UNCHANGED <<mix, row, built, blacklist, money, joined, tx, crashes>>

\* A mutant of TargetLost: whoever is left after a drop goes on.
TargetForgotten == FALSE

\* After a drop, and only then, the target is asked for again.
TargetLost ==
  /\ task.flag
  /\ \/ Cardinality(task.party) < 2
     \/ Cardinality(task.party \cap NonConforming) < RequiredNC

DropsDone(pc) == task.pc = pc /\ task.todo = {} /\ task.cur = {}

\* The fee rate of the moment decides who cannot fund one equal output.
StarvedDropped ==
  /\ DropsDone("starved")
  /\ IF TargetLost
     THEN CancelFor("assembly")
     ELSE /\ \E under \in SUBSET (task.party \cap NonConforming) :
               task' = [task EXCEPT !.pc = "underfunded", !.todo = under,
                                    !.flag = (under # {})]
          /\ UNCHANGED <<mix, row, built, blacklist, money, joined, tx, crashes>>

\* The fee guards cancel when nobody pays for the transaction, and may cancel
\* for the amounts they see.
AssemblyRefused ==
  /\ DropsDone("underfunded")
  /\ CancelFor("assembly")

BuildSkeleton ==
  /\ DropsDone("underfunded") /\ ~TargetLost
  /\ task.party \cap NonConforming # {}
  /\ nskel < MaxSkeletons
  /\ nskel' = nskel + 1
  /\ skel' = [skel EXCEPT ![nskel + 1] = task.party]
  /\ task' = [NoTask EXCEPT !.pc = "send", !.todo = task.party,
                            !.id = nskel + 1]
  /\ UNCHANGED <<mix, row, blacklist, money, joined, tx, crashes>>

\* The psbt_rounds row of a participant once add_psbt_round and
\* update_psbt_round are done with it.
Sent(p) == [row[p] EXCEPT !.num = RoundNum, !.sent = task.id, !.ret = 0]

\* The round row, then the DMs, and only then the participant's state.
SendRound(p) ==
  /\ task.pc = "send" /\ task.cur = {} /\ p \in task.todo
  /\ task' = [task EXCEPT !.todo = @ \ {p}, !.cur = {p}]
  /\ row' = [row EXCEPT ![p] = Sent(p)]
  /\ UNCHANGED <<mix, built, blacklist, money, joined, tx, crashes>>

MarkSigning(p) ==
  /\ task.pc = "send" /\ p \in task.cur
  /\ task' = [task EXCEPT !.cur = {}]
  /\ row' = [row EXCEPT ![p].st = "signing", ![p].late = FALSE]
  /\ UNCHANGED <<mix, built, blacklist, money, joined, tx, crashes>>

StartSigning ==
  /\ DropsDone("send")
  /\ mix' = [mix EXCEPT !.st = "signing"]
  /\ task' = NoTask
  /\ UNCHANGED <<row, built, blacklist, money, joined, tx, crashes>>

-----------------------------------------------------------------------------
(***************************************************************************)
(* The event loop: a mix that is signing.                                  *)
(***************************************************************************)

\* Who is past the signing deadline.
Lapsed == {p \in In({"signing"}) : row[p].late}

\* todo: who has let the deadline lapse according to what the tick read.
TickSigning ==
  /\ Idle /\ mix.st = "signing"
  /\ task' = [NoTask EXCEPT !.pc = "ghost", !.todo = Lapsed]
  /\ UNCHANGED <<mix, row, built, blacklist, money, joined, tx, crashes>>

\* The ghost is marked on what was read, then blacklisted in a second write.
MarkGhost(p) ==
  /\ task.pc = "ghost" /\ task.cur = {} /\ p \in task.todo
  /\ task' = [task EXCEPT !.todo = @ \ {p}, !.cur = {p}]
  /\ row' = [row EXCEPT ![p].st = "ghosted"]
  /\ UNCHANGED <<mix, built, blacklist, money, joined, tx, crashes>>

BlacklistGhost ==
  /\ task.pc = "ghost" /\ task.cur # {}
  /\ blacklist' = blacklist \cup task.cur
  /\ task' = [task EXCEPT !.cur = {}]
  /\ UNCHANGED <<mix, row, built, money, joined, tx, crashes>>

GhostsMarked == DropsDone("ghost")

\* A mutant of Remaining: the rows as the tick filtered them, ghosts included.
RemainingAsRead == In({"signing", "signed", "ghosted"})

\* Read again from the database, scoped to the round in progress.
Remaining == In({"signing", "signed"})

\* A mutant of RoundGhosts: only what this tick ghosted counts.
NoRoundGhosts == {p \in In({"ghosted"}) : row[p].num = RoundNum /\ row[p].late
                                           /\ p \notin blacklist}

RoundGhosts == {p \in In({"ghosted"}) : row[p].num = RoundNum}

GiveUpOnGhosts ==
  /\ GhostsMarked /\ RoundGhosts # {} /\ mix.retries >= MaxGhostRetries
  /\ CancelFor("ghosts")

BeginRecovery ==
  /\ GhostsMarked /\ RoundGhosts # {} /\ mix.retries < MaxGhostRetries
  /\ row' = [p \in Participants |->
       IF p \in RoundGhosts
       THEN [row[p] EXCEPT !.inputs = FALSE, !.outs = FALSE] ELSE row[p]]
  /\ task' = [task EXCEPT !.pc = "recover", !.todo = Remaining]
  /\ UNCHANGED <<mix, built, blacklist, money, joined, tx, crashes>>

RecoverSurvivor(p) ==
  /\ task.pc = "recover" /\ p \in task.todo
  /\ task' = [task EXCEPT !.todo = @ \ {p}]
  /\ row' = [row EXCEPT ![p].st = "paid", ![p].outs = FALSE, ![p].late = FALSE]
  /\ UNCHANGED <<mix, built, blacklist, money, joined, tx, crashes>>

\* One write: the next round number, collecting again, a fresh deadline.
FinishRecovery ==
  /\ DropsDone("recover")
  /\ mix' = [st |-> "collecting", retries |-> mix.retries + 1, late |-> FALSE]
  /\ task' = NoTask
  /\ UNCHANGED <<row, built, blacklist, money, joined, tx, crashes>>

AllSigned == Remaining # {} /\ \A p \in Remaining : row[p].st = "signed"

KeepSigning ==
  /\ GhostsMarked /\ RoundGhosts = {} /\ ~AllSigned
  /\ task' = NoTask
  /\ UNCHANGED <<mix, row, built, blacklist, money, joined, tx, crashes>>

-----------------------------------------------------------------------------
(***************************************************************************)
(* The event loop: combining, broadcasting, sweeping.                      *)
(***************************************************************************)

\* The returns of this round, and those made against skeleton id.
Returned == {p \in Remaining : row[p].num = RoundNum /\ row[p].ret # 0}
Matching(id) == {p \in Returned : row[p].ret = id}

\* The skeleton is the one sent to the first participant who returned anything;
\* finalize succeeds when every input of it is signed.
Combinable(id) ==
  /\ Cardinality(Matching(id)) >= 2
  /\ skel[id] \subseteq Matching(id)

Combine ==
  /\ GhostsMarked /\ RoundGhosts = {} /\ AllSigned
  /\ \E p \in Returned :
       /\ Combinable(row[p].sent)
       /\ task' = [NoTask EXCEPT !.pc = "push", !.id = row[p].sent]
       /\ tx' = IF tx.id = row[p].sent THEN tx
                ELSE [id |-> row[p].sent, st |-> "unsent"]
  /\ UNCHANGED <<mix, row, built, blacklist, money, joined, crashes>>

CombineFails ==
  /\ GhostsMarked /\ RoundGhosts = {} /\ AllSigned
  /\ Returned = {} \/ \E p \in Returned : ~Combinable(row[p].sent)
  /\ CancelFor("combine")

\* broadcast_tx.  The network may take the transaction whatever we hear back; a
\* txid is heard only for one it has (200, or 409 for one it already had) or
\* for one that conflicts with its mempool (409).
PushTx ==
  /\ task.pc = "push"
  /\ \/ /\ tx' = [tx EXCEPT !.st = IF @ = "unsent" THEN "live" ELSE @]
        /\ task' \in {[task EXCEPT !.pc = "record"], [task EXCEPT !.pc = "ask"]}
     \/ /\ task' = [task EXCEPT !.pc = "ask"]
        /\ UNCHANGED tx
  /\ UNCHANGED <<mix, row, built, blacklist, money, joined, crashes>>

\* A mutant of Rejected: silence is taken for a rejection.
RejectedOrSilent == TRUE

Rejected == SaysUnknown

\* Parked in 'broadcast': a txid, or tx_known said True or could not say.
RecordBroadcast ==
  /\ task.pc \in {"record", "ask"}
  /\ mix' = [mix EXCEPT !.st = "broadcast"]
  /\ task' = NoTask
  /\ UNCHANGED <<row, built, blacklist, money, joined, tx, crashes>>

BroadcastFailed ==
  /\ task.pc = "ask" /\ Rejected
  /\ CancelFor("rejected")

\* The sweep of a broadcast mix: confirmed, or not as far as we can tell.
SweepConfirmed ==
  /\ Idle /\ mix.st = "broadcast" /\ tx.st = "confirmed"
  /\ DestroyMix

SweepUnconfirmed ==
  /\ Idle /\ mix.st = "broadcast"
  /\ task' = [NoTask EXCEPT !.pc = "probe"]
  /\ UNCHANGED <<mix, row, built, blacklist, money, joined, tx, crashes>>

\* _tx_double_spent: nobody knows the transaction and an input of it is spent.
ConflictFound ==
  /\ task.pc = "probe"
  /\ SaysUnknown /\ tx.st \in {"confirmed", "conflicted"}
  /\ CancelFor("conflict")

\* Sent again: the network has it, or this attempt did not get through.
Rebroadcast ==
  /\ task.pc = "probe"
  /\ tx' = [tx EXCEPT !.st = IF @ = "unsent" THEN "live" ELSE @]
  /\ task' = NoTask
  /\ UNCHANGED <<mix, row, built, blacklist, money, joined, crashes>>

RebroadcastLost ==
  /\ task.pc = "probe"
  /\ task' = NoTask
  /\ UNCHANGED <<mix, row, built, blacklist, money, joined, tx, crashes>>

\* A crash, or an exception that escapes the tick.  A refund in flight may or
\* may not have left the wallet; its row stays 'refunding' for good.
Crash ==
  /\ ~Idle /\ crashes < MaxCrashes
  /\ crashes' = crashes + 1
  /\ task' = NoTask
  /\ \/ UNCHANGED payout
     \/ \E p \in task.cur : /\ row[p].st = "refunding"
                            /\ payout' = [payout EXCEPT ![p] = @ + 1]
  /\ UNCHANGED <<mix, row, built, blacklist, owed, joined, tx>>
-----------------------------------------------------------------------------
Handlers ==
  \E p \in Participants :
    \/ Join(p) \/ Commit(p) \/ ProvideAddresses(p) \/ ClearAddresses(p)
    \/ ZapCommitted(p) \/ ZapCancelled(p) \/ Exit(p) \/ AcceptPsbt(p)

Clock == FillDeadlinePasses \/ \E p \in Participants : RowDeadlinePasses(p)

Network == Confirm \/ Evict \/ DoubleSpend

EventLoop ==
  \/ \E p \in Participants :
       \/ CancelRow(p) \/ Drop(p) \/ SettleRefund(p) \/ PayTimeout(p)
       \/ DeleteInterested(p) \/ SendRound(p) \/ MarkSigning(p) \/ MarkGhost(p)
       \/ RecoverSurvivor(p)
  \/ FinishCancel \/ TickCollecting \/ ProceedToAssembling \/ FinishCleanup
  \/ KeepCollecting \/ CancelUnfilled
  \/ TickAssembling \/ StarvedDropped \/ AssemblyRefused \/ BuildSkeleton
  \/ StartSigning
  \/ TickSigning \/ BlacklistGhost \/ GiveUpOnGhosts \/ BeginRecovery
  \/ FinishRecovery \/ KeepSigning \/ Combine \/ CombineFails
  \/ PushTx \/ RecordBroadcast \/ BroadcastFailed
  \/ SweepConfirmed \/ SweepUnconfirmed \/ ConflictFound \/ Rebroadcast
  \/ RebroadcastLost

\* Nothing of the mix is left.
Destroyed == mix.st = "none" /\ UNCHANGED vars

Next == Handlers \/ Clock \/ Network \/ EventLoop \/ Crash \/ Destroyed

Spec == Init /\ [][Next]_vars

\* The event loop runs for ever and swallows exceptions, so some step of it is
\* always taken; clocks advance; a transaction on the network is mined sooner
\* or later, and the chain API is reached and tells the truth now and then.
Fairness ==
  /\ WF_vars(EventLoop)
  /\ WF_vars(FillDeadlinePasses)
  /\ \A p \in Participants : WF_vars(RowDeadlinePasses(p))
  /\ SF_vars(Confirm) /\ SF_vars(Rebroadcast)
  /\ SF_vars(SweepConfirmed) /\ SF_vars(ConflictFound)

FairSpec == Spec /\ Fairness

-----------------------------------------------------------------------------
(***************************************************************************)
(* Safety.                                                                 *)
(***************************************************************************)

\* A service fee is returned at most once: one Lightning payout, and never a
\* payout beside a refunds_owed record (_safe_refund, _scrub_departed).
PayoutOnce ==
  \A p \in Participants : payout[p] <= 1 /\ (p \in owed => payout[p] = 0)

\* No write made on a stale read brings back a participant whose refund was
\* decided: from a settled state only settled states or deletion follow.
SettledStays ==
  [][\A p \in Participants : row[p].st \in Settled =>
        row'[p].st \in Settled \cup {"none"}]_vars

\* While the transaction of this mix is on the network, nobody in it has had
\* the fee back (the C-D comment of _combine_and_broadcast).
LiveTxNotRefunded ==
  tx.st \in {"live", "confirmed"} =>
    \A p \in skel[tx.id] : payout[p] = 0 /\ p \notin owed

\* While a skeleton is out for signing or broadcast, every member of it keeps
\* the coins it spends, unless ghosted: nobody leaves, nobody is dropped (H1).
InputsHeld ==
  /\ mix.st = "signing" =>
       \A p \in skel[nskel] : row[p].inputs \/ row[p].st = "ghosted"
  /\ mix.st = "broadcast" => \A p \in skel[tx.id] : row[p].inputs

\* A round that everybody signed is combined: unless a cancellation had begun
\* before a crash, a skeleton of two or more never ends for lack of matching
\* signatures, whatever crashed on the way (stale-sig, H2, and the ordering of
\* ghost recovery).
CombineSucceeds ==
  task.why = "combine" =>
    \/ Cardinality(skel[nskel]) < 2
    \/ \E p \in skel[nskel] : row[p].st \in Settled \ {"ghosted"}

\* Whoever was in a skeleton never loses a fee silently: when the row goes, the
\* fee was paid back, is owed, paid for the confirmed mix, was forfeited by
\* ghosting, is in an unresolved payout, or cannot be sent anywhere.
MemberFeeAccounted ==
  [][\A p \in Participants :
       (row[p].fee /\ row'[p].st = "none" /\ \E i \in 1..nskel : p \in skel[i])
       => \/ payout'[p] = 1 \/ p \in owed'
          \/ tx.st = "confirmed" /\ p \in skel[tx.id]
          \/ row[p].st \in {"ghosted", "refunding"}
          \/ p \notin Payable]_vars

\* Unless a crash has come between a drop and the test after it, every skeleton
\* sent out meets the target the mix advanced on and joins at least two
\* participants ("otherwise cancel", _assemble_psbt).
SkeletonMeetsTarget ==
  crashes = 0 =>
    \A i \in 1..nskel : /\ Cardinality(skel[i]) >= 2
                        /\ Cardinality(skel[i] \cap NonConforming) >= RequiredNC

\* A ghost is punished and stays so: a mix that re-forms has blacklisted its
\* ghosts, unless a crash has come between the two writes ("past it, the
\* participant is ghosted + blacklisted"), and whoever is blacklisted forfeits the
\* fee, through every later round and cancellation (the FINAL WARNING message).
GhostsPunished ==
  /\ crashes = 0 /\ mix.st = "collecting" => In({"ghosted"}) \subseteq blacklist
  /\ \A p \in blacklist : payout[p] = 0 /\ p \notin owed

\* Nothing is lost of an accepted fee whoever paid it, in or out of the mix.
FeeAccounted ==
  [][\A p \in Participants :
       (row[p].fee /\ row'[p].st = "none")
       => \/ payout'[p] = 1 \/ p \in owed'
          \/ tx.st = "confirmed" /\ p \in skel[tx.id]
          \/ row[p].st \in {"ghosted", "refunding"}
          \/ p \notin Payable]_vars

\* The ledger of RefundLedger, of which this module keeps what settled: an
\* attempt that came to nothing is not remembered, and no answer of the wallet
\* is lost but by a crash, after which the row is left alone.
Promise == INSTANCE RefundLedger WITH asked <- payout, LostAnswers <- {}

\* Whatever the handlers, the loop and the crashes of a mix do to the money is a
\* step of that ledger: a payout is never undone or made a second time, a debt is
\* never forgotten, and none is written down for a fee that has gone back
\* (_safe_refund, _scrub_departed, _destroy_mix).
RoundKeepsLedger == Promise!Spec

-----------------------------------------------------------------------------
(***************************************************************************)
(* Liveness.                                                               *)
(***************************************************************************)

\* Whoever has paid is settled in the end: mixed, refunded, owed or forfeited.
PaidIsSettled ==
  \A p \in Participants :
    row[p].st = "paid" ~> row[p].st \in Settled \cup {"none"}

\* A mix out for signing does not stay there: it is broadcast, re-formed or
\* cancelled, whoever stops answering (_handle_signing, _cancel_and_refund).
SigningEnds == mix.st = "signing" ~> mix.st # "signing"
=============================================================================
