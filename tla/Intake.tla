------------------------------- MODULE Intake -------------------------------
(***************************************************************************)
(* The way into the mixes: who finds, opens, joins and fills which, several *)
(* mixes and participants at a time.  Every handler is opened up at its     *)
(* awaits on the network or the database; the daily announcement and the    *)
(* event loop run beside it.  MixRound follows one mix from there, with one *)
(* row to a participant; here somebody may hold rows in several mixes, or   *)
(* several in one.                                                          *)
(***************************************************************************)
EXTENDS Naturals, FiniteSets

CONSTANTS
  Users, Bot,          \* senders of messages; the announcement task
  MaxMixes, MaxRows,   \* bounds: mixes and participant rows ever created
  MaxReopens, MaxCrashes,  \* bounds: recoveries of a mix, crashes
  Coins, Purse,        \* outpoints, and whose they are
  Amount, Kind,        \* of each: amount, input type
  Sizes, DefaultSize,  \* output sizes asked for, DEFAULT_OUTPUT_SIZE
  Required,            \* DEFAULT_REQUIRED_NONCONFORMING
  MaxOpen, MaxPending, Capacity,      \* MAX_OPEN_MIXES, MAX_PENDING_MIXES,
                                      \* MAX_PARTICIPANTS_DEFAULT
  MaxConforming, MaxNonConforming     \* MAX_CONFORMING_UTXOS of a mix,
                                      \* MAX_NONCONFORMING_UTXOS_PER_PARTICIPANT

ASSUME IntakeAssumption ==
  /\ IsFiniteSet(Users) /\ Bot \notin Users /\ IsFiniteSet(Coins)
  /\ MaxMixes \in Nat \ {0} /\ MaxRows \in Nat \ {0}
  /\ MaxReopens \in Nat /\ MaxCrashes \in Nat
  /\ Purse \in [Users -> SUBSET Coins]
  /\ Amount \in [Coins -> Nat] /\ DefaultSize \in Sizes
  /\ \A c \in Coins : Kind[c] # "any"
  /\ Required \in Nat \ {0} /\ MaxOpen \in Nat \ {0} /\ MaxPending \in Nat
  /\ Capacity \in Nat /\ MaxConforming \in Nat /\ MaxNonConforming \in Nat

VARIABLES
  mixes,   \* the mixes rows, in order of creation
  rows,    \* the participants rows, in order of creation
  coin,    \* the utxos rows: the participants row that holds the outpoint
  hand,    \* local variables of the handler of each sender, and of the Bot
  sweep,   \* interested rows the event loop is about to delete
  crashes

vars == <<mixes, rows, coin, hand, sweep, crashes>>

Mixes == 1..MaxMixes
Ids == 1..MaxRows
Types == {Kind[c] : c \in Coins}
Free == 0
Spent == MaxRows + 1
Actors == Users \cup {Bot}

NoMix == [st |-> "none", size |-> DefaultSize, type |-> "any", reopens |-> 0]
GoneMix == [NoMix EXCEPT !.st = "gone"]
NoRow == [st |-> "none", mix |-> 1, user |-> Bot]
Deleted == [NoRow EXCEPT !.st = "gone"]
Idle == [pc |-> "idle", enter |-> TRUE, mix |-> 1, size |-> DefaultSize, type |-> "any", coins |-> {},
         row |-> 1, took |-> {}, locked |-> "any", conf |-> 0]

Exists(r) == rows[r].st \notin {"none", "gone"}

\* Types, and the foreign keys of the schema: an outpoint on file belongs to a
\* participants row, a participants row to a mix.
TypeOK ==
  /\ mixes \in [Mixes -> [st : {"none", "announced", "collecting", "busy", "gone"},
                          size : Sizes, type : Types \cup {"any"}, reopens : 0..MaxReopens]]
  /\ rows \in [Ids -> [st : {"none", "interested", "committed", "paid", "gone"},
                       mix : Mixes, user : Actors]]
  /\ coin \in [Coins -> 0..Spent]
  /\ hand \in [Actors -> [pc : {"idle", "create", "open", "join", "peeked", "take"},
                          enter : BOOLEAN, mix : Mixes, size : Sizes, type : Types \cup {"any"},
                          coins : SUBSET Coins, row : Ids, took : SUBSET Coins,
                          locked : Types \cup {"any"}, conf : Nat]]
  /\ sweep \subseteq Ids /\ crashes \in 0..MaxCrashes
  /\ \A c \in Coins : coin[c] \in Ids => Exists(coin[c])
  /\ \A r \in Ids : Exists(r) => mixes[rows[r].mix].st \notin {"none", "gone"}

Init ==
  /\ mixes = [m \in Mixes |-> NoMix]
  /\ rows = [r \in Ids |-> NoRow]
  /\ coin = [c \in Coins |-> Free]
  /\ hand = [a \in Actors |-> Idle]
  /\ sweep = {} /\ crashes = 0

-----------------------------------------------------------------------------
Least(S) == CHOOSE x \in S : \A y \in S : x <= y
Open == {m \in Mixes : mixes[m].st \in {"announced", "collecting"}}
RowsIn(m) == {r \in Ids : Exists(r) /\ rows[r].mix = m}
RowsOf(u) == {r \in Ids : Exists(r) /\ rows[r].user = u}
Held(R) == {c \in Coins : coin[c] \in R}
Fit(m, C) == {c \in C : Amount[c] = mixes[m].size}

\* The rows of u that hold up the next join.
Unfinished(u) == {r \in RowsOf(u) : rows[r].st \in {"interested", "committed"}}

\* Messages and zaps are handled one after the other.
Quiet == \A u \in Users : hand[u] = Idle

At(a, pc) == hand[a].pc = pc
Done(a) == hand' = [hand EXCEPT ![a] = Idle]
Release(R) ==
  /\ rows' = [r \in Ids |-> IF r \in R THEN Deleted ELSE rows[r]]
  /\ coin' = [c \in Coins |-> IF coin[c] \in R THEN Free ELSE coin[c]]

\* What a commit reads once and goes by to its end: the row, the type its mix is
\* locked to, how many conforming coins that has.
Reading(u, r, m, type, C) ==
  [Idle EXCEPT !.pc = "take", !.coins = C, !.row = r, !.mix = m, !.type = type,
               !.locked = type, !.conf = Cardinality(Fit(m, Held(RowsIn(m))))]
Resume(u, C) ==
  LET r == Least(Unfinished(u)) IN Reading(u, r, rows[r].mix, mixes[rows[r].mix].type, C)

-----------------------------------------------------------------------------
(***************************************************************************)
(* Finding a mix.                                                          *)
(***************************************************************************)

\* A mutant of MayJoin: an unfinished row elsewhere is no obstacle.
MayJoinAgain(u) == Quiet /\ Cardinality(RowsOf(u)) < MaxPending

\* join: nothing unfinished, and not in too many mixes already.
MayJoin(u) == Quiet /\ Unfinished(u) = {} /\ Cardinality(RowsOf(u)) < MaxPending

JoinName(u, m) ==
  /\ MayJoin(u) /\ m \in Open
  /\ hand' = [hand EXCEPT ![u] = [Idle EXCEPT !.pc = "join", !.mix = m]]
  /\ UNCHANGED <<mixes, rows, coin, sweep, crashes>>

\* A mutant of RoomForMix: only mixes that already collect are counted.
RoomForAnother == Cardinality({m \in Open : RowsIn(m) # {}}) < MaxOpen

RoomForMix == Cardinality(Open) < MaxOpen

\* _find_or_create_mix_by_size: the fullest mix of that size, or a new one.
JoinSize(u, s) ==
  /\ MayJoin(u)
  /\ LET same == {m \in Open : mixes[m].size = s} IN
     \/ \E m \in same :
          /\ \A n \in same : Cardinality(RowsIn(n)) <= Cardinality(RowsIn(m))
          /\ hand' = [hand EXCEPT ![u] = [Idle EXCEPT !.pc = "join", !.mix = m]]
     \/ /\ same = {} /\ RoomForMix
        /\ hand' = [hand EXCEPT ![u] = [Idle EXCEPT !.pc = "create", !.size = s]]
  /\ UNCHANGED <<mixes, rows, coin, sweep, crashes>>

\* list and the daily announcement open a default mix when none is open.
OpenDefault(a) ==
  /\ hand[a] = Idle /\ (a = Bot \/ Quiet) /\ Open = {}
  /\ hand' = [hand EXCEPT ![a] = [Idle EXCEPT !.pc = "create", !.enter = FALSE]]
  /\ UNCHANGED <<mixes, rows, coin, sweep, crashes>>

\* create_mix: born 'announced' ...
Create(a) ==
  /\ At(a, "create")
  /\ \E m \in Mixes :
       /\ mixes[m].st = "none" /\ \A n \in Mixes : n < m => mixes[n].st # "none"
       /\ mixes' = [mixes EXCEPT ![m] = [NoMix EXCEPT !.st = "announced", !.size = hand[a].size]]
       /\ hand' = [hand EXCEPT ![a].pc = "open", ![a].mix = m]
  /\ UNCHANGED <<rows, coin, sweep, crashes>>

\* ... and open for joins with the next write, which finds no row if the mix is
\* gone by then.
OpenMix(a) ==
  /\ At(a, "open")
  /\ mixes' = IF mixes[hand[a].mix].st = "gone" THEN mixes
              ELSE [mixes EXCEPT
                      ![hand[a].mix].st = "collecting",
                      ![hand[a].mix].type = IF hand[a].type = "any" THEN @ ELSE hand[a].type]
  /\ IF hand[a].enter THEN hand' = [hand EXCEPT ![a].pc = "join"] ELSE Done(a)
  /\ UNCHANGED <<rows, coin, sweep, crashes>>

\* add_participant and _start_fill_window, whatever the mix has become since it
\* was chosen; if it is gone, the foreign key ends the handler.
Enter(u) ==
  /\ At(u, "join")
  /\ LET m == hand[u].mix IN
     IF mixes[m].st = "gone" THEN Done(u) /\ UNCHANGED rows
     ELSE \E r \in Ids :
            /\ rows[r].st = "none" /\ \A q \in Ids : q < r => rows[q].st # "none"
            /\ rows' = [rows EXCEPT ![r] = [st |-> "interested", mix |-> m, user |-> u]]
            /\ IF hand[u].coins = {} THEN Done(u)
               ELSE hand' = [hand EXCEPT ![u] = Reading(u, r, m, mixes[m].type, hand[u].coins)]
  /\ UNCHANGED <<mixes, coin, sweep, crashes>>

-----------------------------------------------------------------------------
(***************************************************************************)
(* Committing coins.                                                       *)
(***************************************************************************)

\* Outpoints are pasted: for the row in progress, or else the type of the first
\* is looked up.
Paste(u, C) ==
  /\ Quiet /\ C # {} /\ C \subseteq Purse[u]
  /\ IF Unfinished(u) # {}
     THEN hand' = [hand EXCEPT ![u] = Resume(u, C)]
     ELSE \E c \in C :
            hand' = [hand EXCEPT ![u] = [Idle EXCEPT !.pc = "peeked", !.coins = C,
                                                     !.type = Kind[c]]]
  /\ UNCHANGED <<mixes, rows, coin, sweep, crashes>>

\* _find_or_create_mix_for: the oldest mix that takes the type and has room.
Place(u) ==
  /\ At(u, "peeked")
  /\ LET fits == {m \in Open : /\ mixes[m].type \in {"any", hand[u].type}
                               /\ Cardinality(RowsIn(m)) < Capacity} IN
     \/ /\ Unfinished(u) # {}
        /\ hand' = [hand EXCEPT ![u] = Resume(u, hand[u].coins)]
     \/ /\ Unfinished(u) = {}
        /\ \E m \in fits : /\ \A n \in fits : m <= n
                            /\ hand' = [hand EXCEPT ![u].pc = "join", ![u].mix = m]
     \/ /\ Unfinished(u) = {} /\ fits = {}
        /\ IF RoomForMix THEN hand' = [hand EXCEPT ![u].pc = "create"] ELSE Done(u)
  /\ UNCHANGED <<mixes, rows, coin, sweep, crashes>>

\* A mutant of UnderCap: the coins taken by this message are not counted.
UnderCapBlind(u, c) ==
  LET m == hand[u].mix IN
  IF Amount[c] = mixes[m].size
  THEN hand[u].conf < MaxConforming
  ELSE Cardinality(Held({hand[u].row}) \ Fit(m, Coins)) < MaxNonConforming

UnderCap(u, c) ==
  LET m == hand[u].mix IN
  IF Amount[c] = mixes[m].size
  THEN hand[u].conf + Cardinality(Fit(m, hand[u].took)) < MaxConforming
  ELSE Cardinality(Held({hand[u].row}) \ Fit(m, Coins)) < MaxNonConforming

\* An outpoint is looked up, tested and registered, for a row that still exists;
\* the first of a mix without a type proposes its own, even if it is then refused.
Take(u, c) ==
  /\ At(u, "take") /\ c \in hand[u].coins
  /\ LET fits == coin[c] = Free /\ hand[u].type \in {"any", Kind[c]}
         takes == fits /\ UnderCap(u, c) /\ Exists(hand[u].row) IN
     /\ coin' = IF takes THEN [coin EXCEPT ![c] = hand[u].row] ELSE coin
     /\ hand' = [hand EXCEPT ![u].coins = @ \ {c},
                             ![u].type = IF fits THEN Kind[c] ELSE @,
                             ![u].took = IF takes THEN @ \cup {c} ELSE @]
  /\ UNCHANGED <<mixes, rows, sweep, crashes>>

\* If the message brought anything, its type locks the mix and the row is
\* 'committed', if it still exists.
Register(u) ==
  /\ At(u, "take") /\ hand[u].coins = {}
  /\ IF hand[u].took = {} THEN UNCHANGED <<mixes, rows>>
     ELSE /\ mixes' = IF hand[u].locked = "any" /\ mixes[hand[u].mix].st # "gone"
                      THEN [mixes EXCEPT ![hand[u].mix].type = hand[u].type] ELSE mixes
          /\ rows' = IF Exists(hand[u].row)
                     THEN [rows EXCEPT ![hand[u].row].st = "committed"] ELSE rows
  /\ Done(u)
  /\ UNCHANGED <<coin, sweep, crashes>>

\* Addresses for the inputs on file, and the zap if one is due: ready.  A mix
\* still 'announced' is opened by it.
Settle(u) ==
  /\ Quiet
  /\ \E r \in RowsOf(u) :
       /\ rows[r].st = "committed"
       /\ rows' = [rows EXCEPT ![r].st = "paid"]
       /\ mixes' = [mixes EXCEPT ![rows[r].mix].st = IF @ = "announced" THEN "collecting" ELSE @]
  /\ UNCHANGED <<coin, hand, sweep, crashes>>

\* cancel, from a mix that is still open.
Leave(u) ==
  /\ Quiet
  /\ \E r \in RowsOf(u) : rows[r].mix \in Open /\ Release({r})
  /\ UNCHANGED <<mixes, hand, sweep, crashes>>

-----------------------------------------------------------------------------
(***************************************************************************)
(* The event loop.                                                         *)
(***************************************************************************)
Ready(m) == {r \in RowsIn(m) : rows[r].st = "paid"}
BringsOther(m, r) == Held({r}) # Fit(m, Held({r}))

\* _classify_ready, then _proceed_to_assembling.
Proceed(m) ==
  /\ mixes[m].st = "collecting" /\ sweep = {}
  /\ Cardinality({r \in Ready(m) : BringsOther(m, r)}) >= Required
  /\ Required >= 2 \/ Fit(m, Held(Ready(m))) # {}
  /\ mixes' = [mixes EXCEPT ![m].st = "busy"]
  /\ sweep' = {r \in RowsIn(m) : rows[r].st = "interested"}
  /\ UNCHANGED <<rows, coin, hand, crashes>>

\* _cleanup_interested, a row at a time; a row with coins registered meanwhile
\* cannot be deleted, and the exception ends the tick.
Sweep(r) ==
  /\ r \in sweep
  /\ IF Held({r}) = {} THEN Release({r}) /\ sweep' = sweep \ {r}
     ELSE sweep' = {} /\ UNCHANGED <<rows, coin>>
  /\ UNCHANGED <<mixes, hand, crashes>>

\* PAY_DEADLINE_HOURS: only in a mix that collects.
PayTimeout(r) ==
  /\ rows[r].st = "committed" /\ mixes[rows[r].mix].st = "collecting"
  /\ Release({r})
  /\ UNCHANGED <<mixes, hand, sweep, crashes>>

\* A mutant of Cancel: the coins are not released.
CancelHolding(m) ==
  /\ mixes[m].st \in {"collecting", "busy"} /\ sweep = {}
  /\ mixes' = [mixes EXCEPT ![m] = GoneMix]
  /\ rows' = [r \in Ids |-> IF r \in RowsIn(m) THEN Deleted ELSE rows[r]]
  /\ UNCHANGED <<coin, hand, sweep, crashes>>

\* EMPTY_MIX_EXPIRY_HOURS, FILL_DEADLINE_HOURS, or a later failure.
Cancel(m) ==
  /\ mixes[m].st \in {"collecting", "busy"} /\ sweep = {}
  /\ mixes' = [mixes EXCEPT ![m] = GoneMix]
  /\ Release(RowsIn(m))
  /\ UNCHANGED <<hand, sweep, crashes>>

\* Confirmed: the rows are destroyed, the coins of those in it are spent.
Confirm(m) ==
  /\ mixes[m].st = "busy" /\ sweep = {}
  /\ mixes' = [mixes EXCEPT ![m] = GoneMix]
  /\ rows' = [r \in Ids |-> IF r \in RowsIn(m) THEN Deleted ELSE rows[r]]
  /\ coin' = [c \in Coins |-> IF coin[c] \in Ready(m) THEN Spent
                              ELSE IF coin[c] \in RowsIn(m) THEN Free ELSE coin[c]]
  /\ UNCHANGED <<hand, sweep, crashes>>

\* Ghost recovery: one member is out, the mix collects again.
Reopen(m) ==
  /\ mixes[m].st = "busy" /\ sweep = {} /\ mixes[m].reopens < MaxReopens
  /\ mixes' = [mixes EXCEPT ![m].st = "collecting", ![m].reopens = @ + 1]
  /\ \E r \in Ready(m) : Release({r})
  /\ UNCHANGED <<hand, sweep, crashes>>

\* The process dies and comes back: only the tables are left.
Crash ==
  /\ crashes < MaxCrashes
  /\ crashes' = crashes + 1
  /\ hand' = [a \in Actors |-> Idle] /\ sweep' = {}
  /\ UNCHANGED <<mixes, rows, coin>>

Next ==
  \/ Crash
  \/ \E a \in Actors : OpenDefault(a) \/ Create(a) \/ OpenMix(a)
  \/ \E u \in Users :
       \/ \E m \in Mixes : JoinName(u, m)
       \/ \E s \in Sizes : JoinSize(u, s)
       \/ \E C \in SUBSET Coins : Paste(u, C)
       \/ \E c \in Coins : Take(u, c)
       \/ Enter(u) \/ Place(u) \/ Register(u) \/ Settle(u) \/ Leave(u)
  \/ \E m \in Mixes : Proceed(m) \/ Cancel(m) \/ Confirm(m) \/ Reopen(m)
  \/ \E r \in Ids : Sweep(r) \/ PayTimeout(r)

Spec == Init /\ [][Next]_vars
-----------------------------------------------------------------------------
\* "/join and the auto-mix race guard ensure a user has at most one 'committed'
\* participant" (test_coordinator.py:1798): one row before payment, whatever the
\* loop does to the rows while a message is handled.
OneUnfinished == \A u \in Users : Cardinality(Unfinished(u)) <= 1

\* max_conforming_utxos, decided on a count read before the coins are looked up.
ConformingCapped == \A m \in Mixes : Cardinality(Fit(m, Held(RowsIn(m)))) <= MaxConforming

\* The inputs of a mix are of one type, but for a crash before the lock.
OneType == crashes = 0 => \A m \in Mixes : \A c, d \in Held(RowsIn(m)) : Kind[c] = Kind[d]

\* MAX_OPEN_MIXES, not counting those that re-form after ghosts; the daily
\* announcement may come in between a test and its creation.
OpenBounded == Cardinality({m \in Open : mixes[m].reopens = 0}) <= MaxOpen + 1

\* The limits of a mix and of the bot hold, although each is tested on rows read
\* an await or more before the write.
LimitsHold == ConformingCapped /\ OneType /\ OpenBounded

\* "Distinct-party contribution is guaranteed upstream by _classify_ready"
\* (privacy.py:45): a mix advances with two participants at least.
DistinctParties ==
  [][\A m \in Mixes : (mixes[m].st = "collecting" /\ mixes'[m].st = "busy")
       => Cardinality({rows[r].user : r \in Ready(m)}) >= 2]_vars
=============================================================================
