------------------------------ MODULE Refunds ------------------------------
(***************************************************************************)
(* The code that returns service fees, one awaited call at a time.         *)
(*                                                                         *)
(* MixRound takes each direct message as one action.  Here the handler of  *)
(* `cancel' (_cmd_exit_mix) and of zaps, and the four places of the event  *)
(* loop that part with a participant (pay timeout, drop at assembly,       *)
(* cancellation of the mix, its destruction) are coroutines: `job' is what *)
(* each holds in local variables while it awaits.  The event loop is one   *)
(* asyncio task, a handler runs in another, and nothing excludes them from *)
(* each other; Overlap says whether the instance lets them meet.  A crash, *)
(* or an exception that leaves the coroutine, drops `job' at any await.    *)
(***************************************************************************)
EXTENDS Naturals, FiniteSets

CONSTANTS
  Participants,
  Nobody,        \* not a participant
  Payable,       \* those whose profile has a Lightning address
  Overlap,       \* do the event loop and a handler run at the same time?
  LostAnswers    \* those whose payout may settle and yet be reported as failed

ASSUME RefundsAssumption ==
  /\ Nobody \notin Participants
  /\ Payable \subseteq Participants
  /\ Overlap \in BOOLEAN
  /\ LostAnswers \subseteq Participants

VARIABLES
  mix,       \* state of the mix; "gone" once its rows are deleted
  row,       \* state of each participant's row, is a fee on it, are coins on file
  job,       \* local variables of each task between two awaits
  asked,     \* calls of send_refund, per participant
  payout,    \* payouts that left the wallet, per participant
  owed,      \* participants with a refunds_owed record
  taken,     \* participants who were told that their payment is accepted
  flagged    \* participants reported to the operator for want of any record

vars == <<mix, row, job, asked, payout, owed, taken, flagged>>

-----------------------------------------------------------------------------
Tasks == {"loop", "handler"}

\* _REFUND_TERMINAL_STATES, as far as these rows reach them, and no row at all.
Settled == {"refunding", "refunded", "refund_failed", "cancelled", "none"}
Live == {"committed", "paid"}

NoRow == [st |-> "none", fee |-> FALSE, coins |-> FALSE]

Calls == {"-", "zap", "exit", "timeout", "drop", "cancel"}
Steps == {"idle", "expect", "credit", "late", "gate", "fresh", "release", "check",
          "intend", "pay", "record", "close", "scrub", "owe", "delete",
          "next", "destroy"}

\* pc: what is awaited next; call: on whose behalf; who: the participant in
\* hand; ok: what the wallet said; todo: participants the cancellation has yet
\* to treat; fees: participants whose row had a fee on it when it was read.
Idle == [pc |-> "idle", call |-> "-", who |-> Nobody, ok |-> FALSE,
         todo |-> {}, fees |-> {}]

Jobs == [pc : Steps, call : Calls, who : Participants \cup {Nobody},
         ok : BOOLEAN, todo : SUBSET Participants, fees : SUBSET Participants]

TypeOK ==
  /\ mix \in {"collecting", "assembling", "gone"}
  /\ row \in [Participants -> [st : Live \cup Settled, fee : BOOLEAN,
                               coins : BOOLEAN]]
  /\ job \in [Tasks -> Jobs]
  /\ asked \in [Participants -> Nat]
  /\ payout \in [Participants -> Nat]
  /\ owed \subseteq Participants
  /\ taken \subseteq Participants
  /\ flagged \subseteq Participants

\* Everybody has committed coins; some owe no fee and are ready.
Init ==
  /\ mix = "collecting"
  /\ row \in [Participants -> {[st |-> s, fee |-> FALSE, coins |-> TRUE] : s \in Live}]
  /\ job = [t \in Tasks |-> Idle]
  /\ asked = [p \in Participants |-> 0]
  /\ payout = [p \in Participants |-> 0]
  /\ owed = {}
  /\ taken = {}
  /\ flagged = {}

wallet == <<asked, payout>>
books == <<taken, flagged>>

Fees == {p \in Participants : row[p].fee}

\* A task takes up new work when it has none and may run beside the other.
MayStart(t) ==
  /\ job[t].pc = "idle"
  /\ Overlap \/ \A u \in Tasks : job[u].pc = "idle"

\* Task t goes on to step pc of call, with participant p, on what it reads now.
Start(t, call, pc, p) ==
  job' = [job EXCEPT ![t] = [Idle EXCEPT !.call = call, !.pc = pc, !.who = p,
                                         !.fees = Fees]]
GoTo(t, pc) == job' = [job EXCEPT ![t].pc = pc]
Finish(t) == job' = [job EXCEPT ![t] = Idle]

At(t, pc, p) == job[t].pc = pc /\ job[t].who = p

\* An UPDATE of a row that is gone changes nothing.
Write(p, st) == IF row[p].st = "none" THEN row ELSE [row EXCEPT ![p].st = st]

\* The participant in hand is done with; the cancellation takes the next.
AfterRefund(t) ==
  IF job[t].call = "cancel"
  THEN job' = [job EXCEPT ![t].pc = "next", ![t].who = Nobody, ![t].ok = FALSE]
  ELSE job' = [job EXCEPT ![t].pc = "scrub", ![t].ok = FALSE]
-----------------------------------------------------------------------------
(***************************************************************************)
(* The zap handler.                                                        *)
(***************************************************************************)

\* _on_zap reads the sender's rows: one waits for payment, or it timed out.
ZapRead(p) ==
  /\ MayStart("handler")
  /\ \/ row[p].st = "committed" /\ Start("handler", "zap", "expect", p)
     \/ /\ row[p].st = "cancelled" /\ p \in Payable
        /\ Start("handler", "zap", "late", p)
  /\ UNCHANGED <<mix, row, wallet, owed, books>>

\* Then the mix and what is due: too small a payment is refused.
ZapExpect(t, p) ==
  /\ At(t, "expect", p)
  /\ \/ mix # "gone" /\ GoTo(t, "credit")
     \/ Finish(t)
  /\ UNCHANGED <<mix, row, wallet, owed, books>>

\* The fee and the state are one UPDATE; the sender hears that it is accepted.
Credit(t, p) ==
  /\ At(t, "credit", p)
  /\ row' = IF row[p].st = "none" THEN row
            ELSE [row EXCEPT ![p].st = "paid", ![p].fee = TRUE]
  /\ taken' = taken \cup {p}
  /\ Finish(t)
  /\ UNCHANGED <<mix, wallet, owed, flagged>>

LateZap(t, p) ==
  /\ At(t, "late", p)
  /\ owed' = owed \cup {p}
  /\ Finish(t)
  /\ UNCHANGED <<mix, row, wallet, books>>
-----------------------------------------------------------------------------
(***************************************************************************)
(* Where a departure begins.                                               *)
(***************************************************************************)

\* _cmd_exit_mix reads the row, then the mix.
ExitRead(p) ==
  /\ MayStart("handler") /\ row[p].st \in Live
  /\ Start("handler", "exit", "gate", p)
  /\ UNCHANGED <<mix, row, wallet, owed, books>>

ExitGate(t, p) ==
  /\ At(t, "gate", p)
  /\ IF mix = "assembling" THEN Finish(t) ELSE GoTo(t, "release")
  /\ UNCHANGED <<mix, row, wallet, owed, books>>

\* The tick of a collecting mix finds an unpaid slot whose time is up.
Timeout(p) ==
  /\ MayStart("loop") /\ mix = "collecting" /\ row[p].st = "committed"
  /\ Start("loop", "timeout", "release", p)
  /\ UNCHANGED <<mix, row, wallet, owed, books>>

\* The assembly finds a participant to drop among the rows it read; the drop
\* itself reads the row again.
DropRead(p) ==
  /\ MayStart("loop") /\ mix = "assembling" /\ row[p].st = "paid"
  /\ Start("loop", "drop", "fresh", p)
  /\ UNCHANGED <<mix, row, wallet, owed, books>>

DropFresh(t, p) ==
  /\ At(t, "fresh", p)
  /\ IF row[p].st \in Settled THEN Finish(t) ELSE GoTo(t, "release")
  /\ UNCHANGED <<mix, row, wallet, owed, books>>

\* _cancel_and_refund reads all rows once.
CancelRead ==
  /\ MayStart("loop") /\ mix # "gone"
  /\ job' = [job EXCEPT !["loop"] =
       [Idle EXCEPT !.call = "cancel", !.pc = "next", !.fees = Fees,
                    !.todo = {p \in Participants : row[p].st \notin Settled}]]
  /\ UNCHANGED <<mix, row, wallet, owed, books>>

CancelNext(t, p) ==
  /\ job[t].pc = "next" /\ p \in job[t].todo
  /\ job' = [job EXCEPT ![t].todo = @ \ {p}, ![t].who = p,
               ![t].pc = IF p \in job[t].fees \cap Payable THEN "check" ELSE "close"]
  /\ UNCHANGED <<mix, row, wallet, owed, books>>

\* The mix advances, or goes back to collecting when it re-forms.
Advance ==
  /\ MayStart("loop") /\ mix # "gone"
  /\ mix' = IF mix = "collecting" THEN "assembling" ELSE "collecting"
  /\ UNCHANGED <<row, job, wallet, owed, books>>
-----------------------------------------------------------------------------
(***************************************************************************)
(* Coins, refund, scrub: _safe_refund and _scrub_departed.                 *)
(***************************************************************************)

\* The coins go first, then the fee seen at the start decides.
Release(t, p) ==
  /\ At(t, "release", p)
  /\ row' = [row EXCEPT ![p].coins = FALSE]
  /\ GoTo(t, IF p \in job[t].fees \cap Payable /\ job[t].call # "timeout"
             THEN "check" ELSE "close")
  /\ UNCHANGED <<mix, wallet, owed, books>>

\* The row is read again: no second refund of one that is settled or gone.
Check(t, p) ==
  /\ At(t, "check", p)
  /\ IF row[p].st \in Settled THEN AfterRefund(t) ELSE GoTo(t, "intend")
  /\ UNCHANGED <<mix, row, wallet, owed, books>>

\* A mutant of Intend: the state is left for Record to write.
IntendLater(t, p) ==
  /\ At(t, "intend", p)
  /\ GoTo(t, "pay")
  /\ UNCHANGED <<mix, row, wallet, owed, books>>

\* The intent is committed before the wallet is asked.
Intend(t, p) ==
  /\ At(t, "intend", p)
  /\ row' = Write(p, "refunding")
  /\ GoTo(t, "pay")
  /\ UNCHANGED <<mix, wallet, owed, books>>

\* send_refund settles and says so, fails, or settles and is thought to fail.
Pay(t, p) ==
  /\ At(t, "pay", p)
  /\ asked' = [asked EXCEPT ![p] = @ + 1]
  /\ \E ok, settles \in BOOLEAN :
       /\ ok => settles
       /\ (settles /\ ~ok) => p \in LostAnswers
       /\ payout' = IF settles THEN [payout EXCEPT ![p] = @ + 1] ELSE payout
       /\ job' = [job EXCEPT ![t].pc = "record", ![t].ok = ok]
  /\ UNCHANGED <<mix, row, owed, books>>

\* A mutant of Record: a refund that failed may be tried again.
RecordRetry(t, p) ==
  /\ At(t, "record", p)
  /\ row' = Write(p, IF job[t].ok THEN "refunded" ELSE "paid")
  /\ AfterRefund(t)
  /\ UNCHANGED <<mix, wallet, owed, books>>

Record(t, p) ==
  /\ At(t, "record", p)
  /\ row' = Write(p, IF job[t].ok THEN "refunded" ELSE "refund_failed")
  /\ AfterRefund(t)
  /\ UNCHANGED <<mix, wallet, owed, books>>

\* Nothing to return, or nowhere to send it: then the operator is told.
Close(t, p) ==
  /\ At(t, "close", p)
  /\ row' = Write(p, "cancelled")
  /\ flagged' = IF p \in job[t].fees THEN flagged \cup {p} ELSE flagged
  /\ AfterRefund(t)
  /\ UNCHANGED <<mix, wallet, owed, taken>>

\* _scrub_departed: whose row may go, and who is owed before it does.
Indebted(p) == row[p].st = "refund_failed" /\ row[p].fee /\ p \in Payable
Departed(p) ==
  \/ row[p].st = "refunded"
  \/ row[p].st \in {"cancelled", "refund_failed"} /\ ~row[p].fee

Scrub(t, p) ==
  /\ At(t, "scrub", p)
  /\ IF Indebted(p) THEN GoTo(t, "owe")
     ELSE IF Departed(p) THEN GoTo(t, "delete") ELSE Finish(t)
  /\ UNCHANGED <<mix, row, wallet, owed, books>>

Owe(t, p) ==
  /\ At(t, "owe", p)
  /\ owed' = owed \cup {p}
  /\ GoTo(t, "delete")
  /\ UNCHANGED <<mix, row, wallet, books>>

Delete(t, p) ==
  /\ At(t, "delete", p)
  /\ row' = [row EXCEPT ![p] = NoRow]
  /\ Finish(t)
  /\ UNCHANGED <<mix, wallet, owed, books>>

\* A mutant of Debts: the rows go as they are.
NoDebts(t) ==
  /\ job[t].pc = "next" /\ job[t].todo = {}
  /\ GoTo(t, "destroy")
  /\ UNCHANGED <<mix, row, wallet, owed, books>>

\* _destroy_mix reads the rows and records the debts; payouts in flight are
\* reported.  Then everything goes.  The code records the debts one by one; cut
\* short, it leaves fewer, and the next call adds the rest (INSERT OR IGNORE).
Debts(t) ==
  /\ job[t].pc = "next" /\ job[t].todo = {}
  /\ owed' = owed \cup {p \in Participants : Indebted(p)}
  /\ flagged' = flagged \cup {p \in Participants :
       row[p].st \in {"refunding", "refund_failed"} /\ ~Indebted(p)}
  /\ GoTo(t, "destroy")
  /\ UNCHANGED <<mix, row, wallet, taken>>

\* A mutant of Destroy: the mix is kept, under the state the schema has for it.
DestroyRows(t) ==
  /\ job[t].pc = "destroy"
  /\ row' = [p \in Participants |-> NoRow]
  /\ mix' = "completed"
  /\ Finish(t)
  /\ UNCHANGED <<wallet, owed, books>>

Destroy(t) ==
  /\ job[t].pc = "destroy"
  /\ row' = [p \in Participants |-> NoRow]
  /\ mix' = "gone"
  /\ Finish(t)
  /\ UNCHANGED <<wallet, owed, books>>

\* An exception leaves the coroutine; a crash of the bot is this of both tasks.
Abort(t) ==
  /\ job[t].pc # "idle"
  /\ Finish(t)
  /\ UNCHANGED <<mix, row, wallet, owed, books>>

\* Nothing is left to do.
Over == mix = "gone" /\ (\A t \in Tasks : job[t].pc = "idle") /\ UNCHANGED vars
-----------------------------------------------------------------------------
Begin(p) == ZapRead(p) \/ ExitRead(p) \/ Timeout(p) \/ DropRead(p)

Continue(t, p) ==
  \/ ZapExpect(t, p) \/ Credit(t, p) \/ LateZap(t, p) \/ ExitGate(t, p)
  \/ DropFresh(t, p) \/ CancelNext(t, p) \/ Release(t, p) \/ Check(t, p)
  \/ Intend(t, p) \/ Pay(t, p) \/ Record(t, p) \/ Close(t, p) \/ Scrub(t, p)
  \/ Owe(t, p) \/ Delete(t, p)

Next ==
  \/ \E p \in Participants : Begin(p)
  \/ \E t \in Tasks, p \in Participants : Continue(t, p)
  \/ \E t \in Tasks : Debts(t) \/ Destroy(t) \/ Abort(t)
  \/ CancelRead \/ Advance \/ Over

Spec == Init /\ [][Next]_vars

-----------------------------------------------------------------------------
\* "The crash-resume defence against double payouts": however often a call is
\* aborted and made again, the wallet pays a participant at most once, and
\* nobody is owed what was paid (_safe_refund, _scrub_departed).
SinglePayout ==
  \A p \in Participants :
    /\ payout[p] <= 1
    /\ p \in owed => payout[p] = 0 \/ p \in LostAnswers

\* A payment that was accepted is accounted for when its row is gone: paid
\* back, owed, or reported to the operator (_destroy_mix, "no failed-refund
\* debt is lost").
FeeAccounted ==
  \A p \in taken :
    (row[p].st = "none" /\ \A t \in Tasks : job[t].pc = "idle") =>
      payout[p] = 1 \/ p \in owed \cup flagged

\* The wallet is asked only for a row that says so: a crash right after finds
\* the intent on disk.
IntentFirst ==
  [][\A p \in Participants : asked'[p] # asked[p] => row[p].st = "refunding"]_vars

Ledger == INSTANCE RefundLedger WITH asked <- asked, payout <- payout, owed <- owed

\* The promise of RefundLedger is kept.
KeepsLedger == Ledger!Spec
=============================================================================
