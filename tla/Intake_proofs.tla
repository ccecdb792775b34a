---------------------------- MODULE Intake_proofs ----------------------------
(***************************************************************************)
(* Proofs about Intake, for any number of users, coins, mixes, recoveries  *)
(* and crashes, and any limits.                                            *)
(***************************************************************************)
EXTENDS Intake, FiniteSetTheorems, TLAPS

\* TypeOK in parts.
MixSet == [st : {"none", "announced", "collecting", "busy", "gone"},
           size : Sizes, type : Types \cup {"any"}, reopens : 0..MaxReopens]
RowSet == [st : {"none", "interested", "committed", "paid", "gone"}, mix : Mixes, user : Actors]
HandSet == [pc : {"idle", "create", "open", "join", "peeked", "take"},
            enter : BOOLEAN, mix : Mixes, size : Sizes, type : Types \cup {"any"},
            coins : SUBSET Coins, row : Ids, took : SUBSET Coins,
            locked : Types \cup {"any"}, conf : Nat]
MixT == mixes \in [Mixes -> MixSet]
RowT == rows \in [Ids -> RowSet]
CoinT == coin \in [Coins -> 0..Spent]
HandT == hand \in [Actors -> HandSet]
RestT == sweep \subseteq Ids /\ crashes \in 0..MaxCrashes
CoinKeyOf(c) == coin[c] \in Ids => Exists(coin[c])
CoinKey == \A c \in Coins : CoinKeyOf(c)
RowKey == \A r \in Ids : Exists(r) => mixes[rows[r].mix].st \notin {"none", "gone"}
Typed == MixT /\ RowT /\ CoinT /\ HandT /\ RestT /\ CoinKey /\ RowKey

LEMMA TypedIsTypeOK == Typed <=> TypeOK
  BY DEF Typed, TypeOK, MixT, RowT, CoinT, HandT, RestT, CoinKey, CoinKeyOf, RowKey, MixSet, RowSet, HandSet

\* Of the users, one at a time has a handler under way.
Serial == \A u, v \in Users : hand[u] # Idle /\ hand[v] # Idle => u = v

OneRow == \A u \in Users : \A r, q \in Unfinished(u) : r = q

\* A handler on its way into a mix has no other row in progress; one that commits
\* works on the row in progress, if there still is one.
Way(u) ==
  /\ hand[u].pc \in {"create", "open"} /\ hand[u].enter => Unfinished(u) = {}
  /\ hand[u].pc = "join" => Unfinished(u) = {}
  /\ hand[u].pc = "take" /\ Exists(hand[u].row) => hand[u].row \in Unfinished(u)
OnItsWay == \A u \in Users : Way(u)

\* A mix in hand was created; it may be gone.
Created == \A a \in Actors : hand[a].pc \in {"open", "join"} => mixes[hand[a].mix].st # "none"

RowInv == Typed /\ Serial /\ OneRow /\ OnItsWay /\ Created

-----------------------------------------------------------------------------
LEMMA Constants ==
  /\ 1 \in Mixes /\ 1 \in Ids /\ Spent \notin Ids /\ Free \notin Ids
  /\ Free \in 0..Spent /\ Spent \in 0..Spent /\ Ids \subseteq 0..Spent
  BY IntakeAssumption DEF Mixes, Ids, Spent, Free

LEMMA IdleType == Idle \in HandSet
  BY Constants, IntakeAssumption DEF Idle, HandSet

LEMMA NoMixType == NoMix \in MixSet /\ GoneMix \in MixSet
  BY Constants, IntakeAssumption DEF NoMix, GoneMix, MixSet

LEMMA NoRowType == NoRow \in RowSet /\ Deleted \in RowSet
  BY Constants, IntakeAssumption DEF NoRow, Deleted, RowSet, Actors

LEMMA CoinsFinite ==
  ASSUME NEW C \in SUBSET Coins
  PROVE  IsFiniteSet(C) /\ Cardinality(C) \in Nat
  BY IntakeAssumption, FS_Subset, FS_CardinalityType

\* What a commit starts with.
LEMMA ReadingIs ==
  ASSUME NEW u \in Users, NEW r \in Ids, NEW m \in Mixes, NEW C \in SUBSET Coins,
         NEW type \in Types \cup {"any"}
  PROVE  /\ Reading(u, r, m, type, C) \in HandSet
         /\ Reading(u, r, m, type, C).pc = "take"
         /\ Reading(u, r, m, type, C).row = r
<1>1. Fit(m, Held(RowsIn(m))) \in SUBSET Coins
  BY DEF Fit, Held
<1>2. Cardinality(Fit(m, Held(RowsIn(m)))) \in Nat
  BY <1>1, CoinsFinite
<1> QED
  BY <1>2, IdleType DEF Reading, Idle, HandSet

\* The row in progress of somebody who has one.
LEMMA LeastUnfinished ==
  ASSUME OneRow, NEW u \in Users, Unfinished(u) # {}
  PROVE  Least(Unfinished(u)) \in Unfinished(u)
<1>1. PICK r : r \in Unfinished(u)
  OBVIOUS
<1>2. r \in Nat /\ \A q \in Unfinished(u) : r <= q
  BY <1>1 DEF OneRow, Unfinished, RowsOf, Ids
<1> QED
  BY <1>1, <1>2 DEF Least

LEMMA ResumeIs ==
  ASSUME Typed, OneRow, NEW u \in Users, Unfinished(u) # {}, NEW C \in SUBSET Coins
  PROVE  /\ Resume(u, C) \in HandSet
         /\ Resume(u, C).pc = "take"
         /\ Resume(u, C).row \in Unfinished(u)
<1> DEFINE r == Least(Unfinished(u))
<1>1. r \in Unfinished(u)
  BY LeastUnfinished
<1>2. r \in Ids /\ rows[r].mix \in Mixes /\ mixes[rows[r].mix].type \in Types \cup {"any"}
  BY <1>1 DEF Unfinished, RowsOf, Typed, RowT, RowSet, MixT, MixSet
<1>3. Resume(u, C) = Reading(u, r, rows[r].mix, mixes[rows[r].mix].type, C)
  BY DEF Resume
<1> HIDE DEF r
<1> QED
  BY <1>1, <1>2, <1>3, ReadingIs

-----------------------------------------------------------------------------
\* What most steps do to the rows: some are deleted, those in progress stay so.
RowsLeave ==
  /\ \A r \in Ids : Exists(r)' => Exists(r)
  /\ \A v \in Users : /\ Unfinished(v)' \subseteq Unfinished(v)
                      /\ \A r \in Unfinished(v) : Exists(r)' => r \in Unfinished(v)'
MixesStay == \A m \in Mixes : mixes[m].st # "none" => mixes'[m].st # "none"

LEMMA DeletedLeave ==
  ASSUME RowT, \A r \in Ids : rows'[r] \in {rows[r], Deleted}
  PROVE  RowsLeave
<1>1. \A r \in Ids : Exists(r)' => rows'[r] = rows[r] /\ Exists(r)
  BY DEF Exists, Deleted, NoRow
<1> QED
  BY <1>1 DEF RowsLeave, Unfinished, RowsOf

LEMMA SameRowsLeave ==
  ASSUME rows' = rows
  PROVE  RowsLeave
  BY DEF RowsLeave, Unfinished, RowsOf, Exists

LEMMA SameMixesStay ==
  ASSUME mixes' = mixes
  PROVE  MixesStay
  BY DEF MixesStay

\* A step of the loop leaves every handler where it was.
LEMMA LoopStep ==
  ASSUME RowInv, hand' = hand, RowsLeave, MixesStay
  PROVE  HandT' /\ Serial' /\ OneRow' /\ OnItsWay' /\ Created'
<1> USE DEF RowInv
<1>1. HandT' /\ Serial'
  BY DEF Typed, HandT, Serial
<1>2. OneRow'
  BY DEF OneRow, RowsLeave
<1>3. OnItsWay'
  <2> SUFFICES ASSUME NEW u \in Users
               PROVE  Way(u)'
    BY DEF OnItsWay
  <2>1. hand'[u] = hand[u] /\ hand[u].row \in Ids
    BY DEF Typed, HandT, HandSet, Actors
  <2>2. Way(u)
    BY DEF OnItsWay
  <2> QED
    BY <2>1, <2>2 DEF Way, RowsLeave, Exists
<1>4. Created'
  BY DEF Created, MixesStay, Typed, HandT, HandSet
<1> QED
  BY <1>1, <1>2, <1>3, <1>4

\* One handler moves on, begins or ends, while no row appears.
LEMMA HandStep ==
  ASSUME RowInv, RowsLeave, MixesStay, NEW a \in Actors, NEW h \in HandSet,
         hand' = [hand EXCEPT ![a] = h],
         a \in Users => hand[a] # Idle \/ Quiet \/ h = Idle,
         a \in Users =>
           /\ h.pc \in {"create", "open"} /\ h.enter => Unfinished(a)' = {}
           /\ h.pc = "join" => Unfinished(a)' = {}
           /\ h.pc = "take" => h.row \in Unfinished(a)' \/ ~Exists(h.row)',
         h.pc \in {"open", "join"} => mixes'[h.mix].st # "none"
  PROVE  HandT' /\ Serial' /\ OneRow' /\ OnItsWay' /\ Created'
<1> USE DEF RowInv
<1>1. /\ hand'[a] = h
      /\ \A b \in Actors : b # a => hand'[b] = hand[b]
  BY DEF Typed, HandT
<1>2. HandT'
  BY DEF Typed, HandT
<1>3. Serial'
  BY <1>1 DEF Serial, Quiet, Actors
<1>4. OneRow'
  BY DEF OneRow, RowsLeave
<1>5. OnItsWay'
  <2> SUFFICES ASSUME NEW u \in Users
               PROVE  Way(u)'
    BY DEF OnItsWay
  <2>1. CASE u = a
    BY <1>1, <2>1 DEF Way, Exists
  <2>2. CASE u # a
    <3>1. hand'[u] = hand[u] /\ hand[u].row \in Ids
      BY <1>1, <2>2 DEF Typed, HandT, HandSet, Actors
    <3>2. Way(u)
      BY DEF OnItsWay
    <3> QED
      BY <3>1, <3>2 DEF Way, RowsLeave, Exists
  <2> QED
    BY <2>1, <2>2
<1>6. Created'
  BY <1>1 DEF Created, MixesStay, Typed, HandT, HandSet
<1> QED
  BY <1>2, <1>3, <1>4, <1>5, <1>6

\* Rows are deleted with their coins.
LEMMA ReleaseKeeps ==
  ASSUME Typed, NEW R, Release(R), MixT',
         \A r \in Ids \ R : Exists(r) => mixes'[rows[r].mix].st \notin {"none", "gone"}
  PROVE  RowT' /\ CoinT' /\ CoinKey' /\ RowKey' /\ RowsLeave
<1> USE DEF Typed
<1>1. RowT'
  BY NoRowType DEF Release, RowT
<1>2. CoinT'
  BY Constants DEF Release, CoinT
<1>3. \A r \in Ids : Exists(r)' => r \notin R /\ rows'[r] = rows[r] /\ Exists(r)
  BY DEF Release, Exists, Deleted, NoRow
<1>4. CoinKey'
  <2> SUFFICES ASSUME NEW c \in Coins
               PROVE  CoinKeyOf(c)'
    BY DEF CoinKey
  <2>1. CoinKeyOf(c)
    BY DEF CoinKey
  <2>2. coin'[c] \in Ids => coin[c] \notin R /\ coin'[c] = coin[c]
    BY Constants DEF Release
  <2> QED
    BY <2>1, <2>2 DEF Release, CoinKeyOf, Exists
<1>5. RowKey'
  BY <1>3 DEF RowKey, Exists
<1>6. RowsLeave
  BY DeletedLeave DEF Release
<1> QED
  BY <1>1, <1>2, <1>4, <1>5, <1>6

\* The tables stay.
LEMMA TablesStay ==
  ASSUME Typed, UNCHANGED <<mixes, rows, coin, sweep, crashes>>
  PROVE  /\ MixT' /\ RowT' /\ CoinT' /\ RestT' /\ CoinKey' /\ RowKey'
         /\ RowsLeave /\ MixesStay
  BY SameRowsLeave, SameMixesStay
  DEF Typed, MixT, RowT, CoinT, RestT, CoinKey, CoinKeyOf, RowKey, Exists

-----------------------------------------------------------------------------
\* The users' steps that only look at the tables.
LEMMA JoinNameKeeps ==
  ASSUME RowInv, NEW u \in Users, NEW m \in Mixes, JoinName(u, m)
  PROVE  RowInv'
<1> DEFINE h == [Idle EXCEPT !.pc = "join", !.mix = m]
<1>1. h \in HandSet /\ h.pc = "join" /\ h.mix = m
  BY IdleType DEF Idle, HandSet
<1>2. hand' = [hand EXCEPT ![u] = h] /\ Quiet /\ Unfinished(u)' = {} /\ mixes'[m].st # "none"
  BY DEF JoinName, MayJoin, Open, Unfinished, RowsOf, Exists
<1>3. UNCHANGED <<mixes, rows, coin, sweep, crashes>>
  BY DEF JoinName
<1> HIDE DEF h
<1>4. HandT' /\ Serial' /\ OneRow' /\ OnItsWay' /\ Created'
  BY <1>1, <1>2, <1>3, HandStep, TablesStay DEF RowInv, Actors
<1> QED
  BY <1>3, <1>4, TablesStay DEF RowInv, Typed

LEMMA JoinSizeKeeps ==
  ASSUME RowInv, NEW u \in Users, NEW s \in Sizes, JoinSize(u, s)
  PROVE  RowInv'
<1>1. Quiet /\ Unfinished(u)' = {}
  BY DEF JoinSize, MayJoin, Unfinished, RowsOf, Exists
<1>2. UNCHANGED <<mixes, rows, coin, sweep, crashes>>
  BY DEF JoinSize
<1>3. HandT' /\ Serial' /\ OneRow' /\ OnItsWay' /\ Created'
  <2>1. CASE hand' = [hand EXCEPT ![u] = [Idle EXCEPT !.pc = "create", !.size = s]]
    <3> DEFINE h == [Idle EXCEPT !.pc = "create", !.size = s]
    <3>1. h \in HandSet /\ h.pc = "create"
      BY IdleType DEF Idle, HandSet
    <3> HIDE DEF h
    <3> QED
      BY <1>1, <1>2, <2>1, <3>1, HandStep, TablesStay DEF RowInv, Actors, h
  <2>2. ASSUME NEW m \in Open, hand' = [hand EXCEPT ![u] = [Idle EXCEPT !.pc = "join", !.mix = m]]
        PROVE  HandT' /\ Serial' /\ OneRow' /\ OnItsWay' /\ Created'
    <3> DEFINE h == [Idle EXCEPT !.pc = "join", !.mix = m]
    <3>1. h \in HandSet /\ h.pc = "join" /\ h.mix = m
      BY IdleType DEF Idle, HandSet, Open
    <3>2. mixes'[m].st # "none"
      BY <1>2 DEF Open
    <3> HIDE DEF h
    <3> QED
      BY <1>1, <1>2, <2>2, <3>1, <3>2, HandStep, TablesStay DEF RowInv, Actors, h
  <2> QED
    BY <2>1, <2>2 DEF JoinSize
<1> QED
  BY <1>2, <1>3, TablesStay DEF RowInv, Typed

LEMMA OpenDefaultKeeps ==
  ASSUME RowInv, NEW a \in Actors, OpenDefault(a)
  PROVE  RowInv'
<1> DEFINE h == [Idle EXCEPT !.pc = "create", !.enter = FALSE]
<1>1. h \in HandSet /\ h.pc = "create" /\ h.enter = FALSE
  BY IdleType DEF Idle, HandSet
<1>2. hand' = [hand EXCEPT ![a] = h] /\ (a \in Users => Quiet)
  BY IntakeAssumption DEF OpenDefault
<1>3. UNCHANGED <<mixes, rows, coin, sweep, crashes>>
  BY DEF OpenDefault
<1> HIDE DEF h
<1>4. HandT' /\ Serial' /\ OneRow' /\ OnItsWay' /\ Created'
  BY <1>1, <1>2, <1>3, HandStep, TablesStay DEF RowInv
<1> QED
  BY <1>3, <1>4, TablesStay DEF RowInv, Typed

LEMMA PasteKeeps ==
  ASSUME RowInv, NEW u \in Users, NEW C \in SUBSET Coins, Paste(u, C)
  PROVE  RowInv'
<1>1. Quiet /\ UNCHANGED <<mixes, rows, coin, sweep, crashes>>
  BY DEF Paste
<1>2. Unfinished(u)' = Unfinished(u)
  BY <1>1 DEF Unfinished, RowsOf, Exists
<1>3. HandT' /\ Serial' /\ OneRow' /\ OnItsWay' /\ Created'
  <2>1. CASE Unfinished(u) # {} /\ hand' = [hand EXCEPT ![u] = Resume(u, C)]
    BY <1>1, <1>2, <2>1, ResumeIs, HandStep, TablesStay DEF RowInv, Actors
  <2>2. ASSUME NEW c \in C, hand' = [hand EXCEPT ![u] = [Idle EXCEPT !.pc = "peeked", !.coins = C,
                                                                     !.type = Kind[c]]]
        PROVE  HandT' /\ Serial' /\ OneRow' /\ OnItsWay' /\ Created'
    <3> DEFINE h == [Idle EXCEPT !.pc = "peeked", !.coins = C, !.type = Kind[c]]
    <3>1. h \in HandSet /\ h.pc = "peeked"
      BY IdleType DEF Idle, HandSet, Types
    <3> HIDE DEF h
    <3> QED
      BY <1>1, <2>2, <3>1, HandStep, TablesStay DEF RowInv, Actors, h
  <2> QED
    BY <2>1, <2>2 DEF Paste
<1> QED
  BY <1>1, <1>3, TablesStay DEF RowInv, Typed

LEMMA PlaceKeeps ==
  ASSUME RowInv, NEW u \in Users, Place(u)
  PROVE  RowInv'
<1>1. hand[u] # Idle /\ UNCHANGED <<mixes, rows, coin, sweep, crashes>>
  BY DEF Place, At, Idle
<1>2. Unfinished(u)' = Unfinished(u)
  BY <1>1 DEF Unfinished, RowsOf, Exists
<1>3. hand[u] \in HandSet /\ hand[u].coins \in SUBSET Coins
  BY DEF RowInv, Typed, HandT, HandSet, Actors
<1>4. HandT' /\ Serial' /\ OneRow' /\ OnItsWay' /\ Created'
  <2>1. CASE Unfinished(u) # {} /\ hand' = [hand EXCEPT ![u] = Resume(u, hand[u].coins)]
    BY <1>1, <1>2, <1>3, <2>1, ResumeIs, HandStep, TablesStay DEF RowInv, Actors
  <2>2. ASSUME Unfinished(u) = {}, NEW m \in Open,
               hand' = [hand EXCEPT ![u].pc = "join", ![u].mix = m]
        PROVE  HandT' /\ Serial' /\ OneRow' /\ OnItsWay' /\ Created'
    <3> DEFINE h == [hand[u] EXCEPT !.pc = "join", !.mix = m]
    <3>1. h \in HandSet /\ h.pc = "join" /\ h.mix = m
      BY <1>3 DEF HandSet, Open
    <3>2. hand' = [hand EXCEPT ![u] = h]
      BY <2>2 DEF RowInv, Typed, HandT, Actors
    <3>3. mixes'[m].st # "none"
      BY <1>1 DEF Open
    <3> HIDE DEF h
    <3> QED
      BY <1>1, <1>2, <2>2, <3>1, <3>2, <3>3, HandStep, TablesStay DEF RowInv, Actors
  <2>3. CASE Unfinished(u) = {} /\ hand' = [hand EXCEPT ![u].pc = "create"]
    <3> DEFINE h == [hand[u] EXCEPT !.pc = "create"]
    <3>1. h \in HandSet /\ h.pc = "create"
      BY <1>3 DEF HandSet
    <3>2. hand' = [hand EXCEPT ![u] = h]
      BY <2>3 DEF RowInv, Typed, HandT, Actors
    <3> HIDE DEF h
    <3> QED
      BY <1>1, <1>2, <2>3, <3>1, <3>2, HandStep, TablesStay DEF RowInv, Actors
  <2>4. CASE Done(u)
    <3>1. Idle.pc = "idle"
      BY DEF Idle
    <3> QED
      BY <1>1, <2>4, <3>1, IdleType, HandStep, TablesStay DEF RowInv, Actors, Done
  <2> QED
    BY <2>1, <2>2, <2>3, <2>4 DEF Place
<1> QED
  BY <1>1, <1>4, TablesStay DEF RowInv, Typed

-----------------------------------------------------------------------------
\* The steps that write.
LEMMA CreateKeeps ==
  ASSUME RowInv, NEW a \in Actors, Create(a)
  PROVE  RowInv'
<1>1. PICK m \in Mixes :
        /\ mixes[m].st = "none"
        /\ mixes' = [mixes EXCEPT ![m] = [NoMix EXCEPT !.st = "announced", !.size = hand[a].size]]
        /\ hand' = [hand EXCEPT ![a].pc = "open", ![a].mix = m]
  BY DEF Create
<1> DEFINE x == [NoMix EXCEPT !.st = "announced", !.size = hand[a].size]
           h == [hand[a] EXCEPT !.pc = "open", !.mix = m]
<1>2. hand[a] \in HandSet /\ hand[a].pc = "create" /\ hand[a] # Idle
  BY DEF RowInv, Typed, HandT, Create, At, Idle
<1>3. x \in MixSet /\ x.st = "announced"
  BY <1>2, NoMixType DEF HandSet, MixSet, NoMix
<1>4. h \in HandSet /\ h.pc = "open" /\ h.mix = m /\ h.enter = hand[a].enter
  BY <1>2 DEF HandSet
<1>5. hand' = [hand EXCEPT ![a] = h] /\ mixes' = [mixes EXCEPT ![m] = x]
  BY <1>1 DEF RowInv, Typed, HandT
<1> HIDE DEF x, h
<1>6. UNCHANGED <<rows, coin, sweep, crashes>>
  BY DEF Create
<1>7. MixT' /\ MixesStay /\ mixes'[m].st # "none"
  BY <1>3, <1>5 DEF RowInv, Typed, MixT, MixesStay
<1>8. a \in Users /\ h.enter => Unfinished(a)' = {}
  BY <1>2, <1>4, <1>6 DEF RowInv, OnItsWay, Way, Unfinished, RowsOf, Exists
<1>9. HandT' /\ Serial' /\ OneRow' /\ OnItsWay' /\ Created'
  BY <1>2, <1>4, <1>5, <1>6, <1>7, <1>8, HandStep, SameRowsLeave
<1>10. RowKey'
  BY <1>1, <1>3, <1>5, <1>6 DEF RowInv, Typed, RowKey, Exists, MixT, RowT, RowSet
<1>11. RowT' /\ CoinT' /\ RestT' /\ CoinKey'
  BY <1>6 DEF RowInv, Typed, RowT, CoinT, RestT, CoinKey, CoinKeyOf, Exists
<1> QED
  BY <1>7, <1>9, <1>10, <1>11 DEF RowInv, Typed

LEMMA OpenMixKeeps ==
  ASSUME RowInv, NEW a \in Actors, OpenMix(a)
  PROVE  RowInv'
<1> DEFINE m == hand[a].mix
<1>1. hand[a] \in HandSet /\ hand[a].pc = "open" /\ hand[a] # Idle /\ m \in Mixes
  BY DEF RowInv, Typed, HandT, OpenMix, At, Idle, HandSet
<1>2. UNCHANGED <<rows, coin, sweep, crashes>>
  BY DEF OpenMix
<1>3. MixT' /\ MixesStay /\ \A k \in Mixes : mixes[k].st \notin {"none", "gone"} =>
                                mixes'[k].st \notin {"none", "gone"}
  <2>1. CASE mixes[m].st = "gone"
    <3>1. mixes' = mixes
      BY <2>1 DEF OpenMix
    <3> QED
      BY <3>1, SameMixesStay DEF RowInv, Typed, MixT
  <2>2. CASE mixes[m].st # "gone"
    <3> DEFINE x == [mixes[m] EXCEPT !.st = "collecting",
                                     !.type = IF hand[a].type = "any" THEN @ ELSE hand[a].type]
    <3>1. x \in MixSet /\ x.st = "collecting"
      BY <1>1 DEF RowInv, Typed, MixT, MixSet, HandSet
    <3>2. mixes' = [mixes EXCEPT ![m] = x]
      BY <2>2, <1>1 DEF OpenMix, RowInv, Typed, MixT
    <3> HIDE DEF x
    <3> QED
      BY <1>1, <3>1, <3>2 DEF RowInv, Typed, MixT, MixesStay
  <2> QED
    BY <2>1, <2>2
<1>4. mixes'[m].st # "none"
  BY <1>1, <1>3 DEF RowInv, Created, MixesStay
<1>5. HandT' /\ Serial' /\ OneRow' /\ OnItsWay' /\ Created'
  <2>1. CASE hand[a].enter /\ hand' = [hand EXCEPT ![a].pc = "join"]
    <3> DEFINE h == [hand[a] EXCEPT !.pc = "join"]
    <3>1. h \in HandSet /\ h.pc = "join" /\ h.mix = m
      BY <1>1 DEF HandSet
    <3>2. hand' = [hand EXCEPT ![a] = h]
      BY <2>1 DEF RowInv, Typed, HandT
    <3>3. a \in Users => Unfinished(a)' = {}
      BY <1>1, <1>2, <2>1 DEF RowInv, OnItsWay, Way, Unfinished, RowsOf, Exists
    <3> HIDE DEF h
    <3> QED
      BY <1>1, <1>2, <1>3, <1>4, <3>1, <3>2, <3>3, HandStep, SameRowsLeave
  <2>2. CASE Done(a)
    <3>1. Idle.pc = "idle"
      BY DEF Idle
    <3> QED
      BY <1>1, <1>2, <1>3, <2>2, <3>1, IdleType, HandStep, SameRowsLeave DEF Done
  <2> QED
    BY <2>1, <2>2 DEF OpenMix
<1>6. RowKey'
  BY <1>2, <1>3 DEF RowInv, Typed, RowKey, Exists, RowT, RowSet
<1>7. RowT' /\ CoinT' /\ RestT' /\ CoinKey'
  BY <1>2 DEF RowInv, Typed, RowT, CoinT, RestT, CoinKey, CoinKeyOf, Exists
<1> QED
  BY <1>3, <1>5, <1>6, <1>7 DEF RowInv, Typed

\* The one step that brings a row: nobody else has a handler under way, and who
\* enters has no other row in progress.
LEMMA EnterKeeps ==
  ASSUME RowInv, NEW u \in Users, Enter(u)
  PROVE  RowInv'
<1> DEFINE m == hand[u].mix
<1>1. /\ hand[u] \in HandSet /\ hand[u].pc = "join" /\ hand[u] # Idle /\ m \in Mixes
      /\ u \in Actors /\ hand[u].coins \in SUBSET Coins
  BY DEF RowInv, Typed, HandT, Enter, At, Idle, HandSet, Actors
<1>2. UNCHANGED <<mixes, coin, sweep, crashes>>
  BY DEF Enter
<1>3. Unfinished(u) = {}
  BY <1>1 DEF RowInv, OnItsWay, Way
<1>4. CASE mixes[m].st = "gone"
  <2>1. Done(u) /\ UNCHANGED rows
    BY <1>4 DEF Enter
  <2>2. Idle.pc = "idle"
    BY DEF Idle
  <2>3. HandT' /\ Serial' /\ OneRow' /\ OnItsWay' /\ Created'
    BY <1>1, <1>2, <2>1, <2>2, IdleType, HandStep, TablesStay DEF RowInv, Done
  <2> QED
    BY <1>2, <2>1, <2>3, TablesStay DEF RowInv, Typed
<1>5. CASE mixes[m].st # "gone"
  <2>1. PICK r \in Ids :
          /\ rows[r].st = "none"
          /\ rows' = [rows EXCEPT ![r] = [st |-> "interested", mix |-> m, user |-> u]]
          /\ IF hand[u].coins = {} THEN Done(u)
             ELSE hand' = [hand EXCEPT ![u] = Reading(u, r, m, mixes[m].type, hand[u].coins)]
    BY <1>5 DEF Enter
  <2>2. PICK h \in HandSet : /\ hand' = [hand EXCEPT ![u] = h]
                             /\ h.pc \in {"idle", "take"} /\ (h.pc = "take" => h.row = r)
    <3>1. CASE hand[u].coins = {}
      BY <2>1, <3>1, IdleType DEF Done, Idle
    <3>2. CASE hand[u].coins # {}
      <4>1. mixes[m].type \in Types \cup {"any"}
        BY <1>1 DEF RowInv, Typed, MixT, MixSet
      <4> QED
        BY <1>1, <2>1, <3>2, <4>1, ReadingIs
    <3> QED
      BY <3>1, <3>2
  <2>3. /\ rows'[r] = [st |-> "interested", mix |-> m, user |-> u]
        /\ \A q \in Ids : q # r => rows'[q] = rows[q]
    BY <2>1 DEF RowInv, Typed, RowT
  <2>4. RowT'
    BY <1>1, <2>1 DEF RowInv, Typed, RowT, RowSet
  <2>5. /\ Unfinished(u)' = {r}
        /\ \A v \in Users : v # u => Unfinished(v)' = Unfinished(v)
    <3>1. Unfinished(u)' = {r}
      BY <1>3, <2>3 DEF Unfinished, RowsOf, Exists
    <3>2. \A v \in Users : v # u => Unfinished(v)' = Unfinished(v)
      BY <2>1, <2>3 DEF Unfinished, RowsOf, Exists
    <3> QED
      BY <3>1, <3>2
  <2>6. /\ hand'[u] = h
        /\ \A b \in Actors : b # u => hand'[b] = hand[b]
    BY <1>1, <2>2 DEF RowInv, Typed, HandT
  <2>7. HandT'
    BY <1>1, <2>2 DEF RowInv, Typed, HandT
  <2>8. Serial'
    BY <1>1, <2>6 DEF RowInv, Serial, Actors
  <2>9. OneRow'
    BY <2>5 DEF RowInv, OneRow
  <2>10. OnItsWay'
    <3> SUFFICES ASSUME NEW v \in Users
                 PROVE  Way(v)'
      BY DEF OnItsWay
    <3>1. CASE v = u
      BY <2>2, <2>5, <2>6, <3>1 DEF Way
    <3>2. CASE v # u
      <4>1. hand'[v] = Idle
        BY <1>1, <2>6, <3>2 DEF RowInv, Serial, Actors
      <4> QED
        BY <4>1 DEF Way, Idle
    <3> QED
      BY <3>1, <3>2
  <2>11. Created'
    BY <1>2, <2>2, <2>6 DEF RowInv, Created
  <2>12. RowKey'
    <3>1. mixes[m].st \notin {"none", "gone"}
      BY <1>1, <1>5 DEF RowInv, Created
    <3> QED
      BY <1>2, <2>3, <3>1 DEF RowInv, Typed, RowKey, Exists
  <2>13. CoinKey'
    BY <1>2, <2>1, <2>3 DEF RowInv, Typed, CoinKey, CoinKeyOf, Exists
  <2>14. MixT' /\ CoinT' /\ RestT'
    BY <1>2 DEF RowInv, Typed, MixT, CoinT, RestT
  <2> QED
    BY <2>4, <2>7, <2>8, <2>9, <2>10, <2>11, <2>12, <2>13, <2>14 DEF RowInv, Typed
<1> QED
  BY <1>4, <1>5

LEMMA TakeKeeps ==
  ASSUME RowInv, NEW u \in Users, NEW c \in Coins, Take(u, c)
  PROVE  RowInv'
<1>1. /\ hand[u] \in HandSet /\ hand[u].pc = "take" /\ hand[u] # Idle /\ u \in Actors
      /\ hand[u].row \in Ids
  BY DEF RowInv, Typed, HandT, Take, At, Idle, HandSet, Actors
<1>2. UNCHANGED <<mixes, rows, sweep, crashes>>
  BY DEF Take
<1>3. PICK fits, takes \in BOOLEAN :
        /\ takes => Exists(hand[u].row)
        /\ coin' = IF takes THEN [coin EXCEPT ![c] = hand[u].row] ELSE coin
        /\ hand' = [hand EXCEPT ![u].coins = @ \ {c},
                                ![u].type = IF fits THEN Kind[c] ELSE @,
                                ![u].took = IF takes THEN @ \cup {c} ELSE @]
  BY Zenon DEF Take
<1>4. PICK h \in HandSet :
        h.pc = "take" /\ h.row = hand[u].row /\ hand' = [hand EXCEPT ![u] = h]
  <2> DEFINE x == [hand[u] EXCEPT !.coins = @ \ {c},
                                  !.type = IF fits THEN Kind[c] ELSE @,
                                  !.took = IF takes THEN @ \cup {c} ELSE @]
  <2>1. x \in HandSet /\ x.pc = "take" /\ x.row = hand[u].row
    BY <1>1 DEF HandSet, Types
  <2>2. hand' = [hand EXCEPT ![u] = x]
    BY <1>1, <1>3 DEF RowInv, Typed, HandT
  <2> HIDE DEF x
  <2> QED
    BY <2>1, <2>2
<1>5. Exists(hand[u].row) => hand[u].row \in Unfinished(u)
  BY <1>1 DEF RowInv, OnItsWay, Way
<1>6. h.row \in Unfinished(u)' \/ ~Exists(h.row)'
  BY <1>2, <1>4, <1>5 DEF Unfinished, RowsOf, Exists
<1>7. HandT' /\ Serial' /\ OneRow' /\ OnItsWay' /\ Created'
  BY <1>1, <1>2, <1>4, <1>6, HandStep, SameRowsLeave, SameMixesStay
<1>8. CoinT' /\ CoinKey'
  BY <1>1, <1>2, <1>3, Constants DEF RowInv, Typed, CoinT, CoinKey, CoinKeyOf, Exists
<1>9. MixT' /\ RowT' /\ RestT' /\ RowKey'
  BY <1>2 DEF RowInv, Typed, MixT, RowT, RestT, RowKey, Exists
<1> QED
  BY <1>7, <1>8, <1>9 DEF RowInv, Typed

LEMMA RegisterKeeps ==
  ASSUME RowInv, NEW u \in Users, Register(u)
  PROVE  RowInv'
<1> DEFINE r == hand[u].row
<1>1. /\ hand[u] \in HandSet /\ hand[u].pc = "take" /\ hand[u] # Idle /\ u \in Actors
      /\ r \in Ids /\ hand[u].mix \in Mixes /\ hand[u].type \in Types \cup {"any"}
  BY DEF RowInv, Typed, HandT, Register, At, Idle, HandSet, Actors
<1>2. Done(u) /\ UNCHANGED <<coin, sweep, crashes>>
  BY DEF Register
<1>3. Exists(r) => r \in Unfinished(u)
  BY <1>1 DEF RowInv, OnItsWay, Way
<1>4. rows' = rows \/ (Exists(r) /\ rows' = [rows EXCEPT ![r].st = "committed"])
  BY DEF Register
<1>5. /\ RowT'
      /\ \A q \in Ids : Exists(q)' <=> Exists(q)
      /\ \A q \in Ids : rows'[q].mix = rows[q].mix /\ rows'[q].user = rows[q].user
      /\ \A q \in Ids : rows'[q].st \in {"interested", "committed"} <=>
                        rows[q].st \in {"interested", "committed"}
  <2>1. CASE rows' = rows
    BY <2>1 DEF RowInv, Typed, RowT, Exists
  <2>2. CASE Exists(r) /\ rows' = [rows EXCEPT ![r].st = "committed"]
    <3>1. rows[r].st \in {"interested", "committed"}
      BY <1>3, <2>2 DEF Unfinished
    <3>2. RowT'
      BY <1>1, <2>2 DEF RowInv, Typed, RowT, RowSet
    <3>3. /\ rows'[r].st = "committed" /\ rows'[r].mix = rows[r].mix /\ rows'[r].user = rows[r].user
          /\ \A q \in Ids : q # r => rows'[q] = rows[q]
      BY <1>1, <2>2 DEF RowInv, Typed, RowT, RowSet
    <3> QED
      BY <3>1, <3>2, <3>3 DEF Exists
  <2> QED
    BY <1>4, <2>1, <2>2
<1>6. RowsLeave
  BY <1>5 DEF RowsLeave, Unfinished, RowsOf
<1>7. MixT' /\ \A k \in Mixes : mixes'[k].st = mixes[k].st
  <2>1. \/ mixes' = mixes
        \/ mixes' = [mixes EXCEPT ![hand[u].mix].type = hand[u].type]
    BY DEF Register
  <2> QED
    BY <1>1, <2>1 DEF RowInv, Typed, MixT, MixSet
<1>8. Idle.pc = "idle"
  BY DEF Idle
<1>9. HandT' /\ Serial' /\ OneRow' /\ OnItsWay' /\ Created'
  BY <1>1, <1>2, <1>6, <1>7, <1>8, IdleType, HandStep DEF Done, MixesStay
<1>10. RowKey'
  BY <1>5, <1>7 DEF RowInv, Typed, RowKey, RowT, RowSet
<1>11. CoinT' /\ RestT' /\ CoinKey'
  BY <1>2, <1>5 DEF RowInv, Typed, CoinT, RestT, CoinKey, CoinKeyOf
<1> QED
  BY <1>5, <1>7, <1>9, <1>10, <1>11 DEF RowInv, Typed

LEMMA SettleKeeps ==
  ASSUME RowInv, NEW u \in Users, Settle(u)
  PROVE  RowInv'
<1>1. Quiet /\ UNCHANGED <<coin, hand, sweep, crashes>>
  BY DEF Settle
<1>2. PICK r \in Ids :
        /\ rows[r].st = "committed" /\ rows[r].mix \in Mixes
        /\ rows' = [rows EXCEPT ![r].st = "paid"]
        /\ mixes' = [mixes EXCEPT ![rows[r].mix].st = IF @ = "announced" THEN "collecting" ELSE @]
  BY DEF Settle, RowsOf, RowInv, Typed, RowT, RowSet
<1>3. /\ RowT' /\ rows'[r].st = "paid"
      /\ \A q \in Ids : rows'[q].mix = rows[q].mix /\ rows'[q].user = rows[q].user
      /\ \A q \in Ids : q # r => rows'[q] = rows[q]
  BY <1>2 DEF RowInv, Typed, RowT, RowSet
<1>4. \A q \in Ids : Exists(q)' <=> Exists(q)
  BY <1>2, <1>3 DEF Exists
<1>5. \A v \in Users : Unfinished(v)' \subseteq Unfinished(v)
  BY <1>3, <1>4 DEF Unfinished, RowsOf
<1>6. MixT' /\ \A k \in Mixes : \/ mixes'[k].st = mixes[k].st
                                \/ mixes[k].st = "announced" /\ mixes'[k].st = "collecting"
  BY <1>2 DEF RowInv, Typed, MixT, MixSet
<1>7. HandT' /\ Serial'
  BY <1>1 DEF RowInv, Typed, HandT, Serial
<1>8. OneRow'
  BY <1>5 DEF RowInv, OneRow
<1>9. OnItsWay'
  BY <1>1 DEF OnItsWay, Way, Quiet, Idle
<1>10. Created'
  BY <1>1, <1>6 DEF RowInv, Created, Typed, HandT, HandSet
<1>11. RowKey'
  BY <1>3, <1>4, <1>6 DEF RowInv, Typed, RowKey, RowT, RowSet
<1>12. CoinT' /\ RestT' /\ CoinKey'
  BY <1>1, <1>4 DEF RowInv, Typed, CoinT, RestT, CoinKey, CoinKeyOf
<1> QED
  BY <1>3, <1>6, <1>7, <1>8, <1>9, <1>10, <1>11, <1>12 DEF RowInv, Typed

LEMMA LeaveKeeps ==
  ASSUME RowInv, NEW u \in Users, Leave(u)
  PROVE  RowInv'
<1>1. UNCHANGED <<mixes, hand, sweep, crashes>>
  BY DEF Leave
<1>2. PICK r \in Ids : Release({r})
  BY DEF Leave, RowsOf
<1>3. MixT' /\ RestT' /\ MixesStay
  BY <1>1, SameMixesStay DEF RowInv, Typed, MixT, RestT
<1>4. RowT' /\ CoinT' /\ CoinKey' /\ RowKey' /\ RowsLeave
  BY <1>1, <1>2, <1>3, ReleaseKeeps DEF RowInv, Typed, RowKey
<1>5. HandT' /\ Serial' /\ OneRow' /\ OnItsWay' /\ Created'
  BY <1>1, <1>3, <1>4, LoopStep
<1> QED
  BY <1>3, <1>4, <1>5 DEF RowInv, Typed

-----------------------------------------------------------------------------
\* The steps of the event loop, and a crash.
LEMMA ProceedKeeps ==
  ASSUME RowInv, NEW m \in Mixes, Proceed(m)
  PROVE  RowInv'
<1>1. /\ UNCHANGED <<rows, coin, hand, crashes>>
      /\ mixes' = [mixes EXCEPT ![m].st = "busy"]
      /\ sweep' = {r \in RowsIn(m) : rows[r].st = "interested"}
  BY DEF Proceed
<1>2. MixT' /\ MixesStay /\ \A k \in Mixes : mixes'[k].st \in {mixes[k].st, "busy"}
  BY <1>1 DEF RowInv, Typed, MixT, MixSet, MixesStay
<1>3. HandT' /\ Serial' /\ OneRow' /\ OnItsWay' /\ Created'
  BY <1>1, <1>2, LoopStep, SameRowsLeave
<1>4. RowKey'
  BY <1>1, <1>2 DEF RowInv, Typed, RowKey, Exists, RowT, RowSet
<1>5. RowT' /\ CoinT' /\ RestT' /\ CoinKey'
  BY <1>1 DEF RowInv, Typed, RowT, CoinT, RestT, CoinKey, CoinKeyOf, Exists, RowsIn
<1> QED
  BY <1>2, <1>3, <1>4, <1>5 DEF RowInv, Typed

LEMMA SweepKeeps ==
  ASSUME RowInv, NEW r \in Ids, Sweep(r)
  PROVE  RowInv'
<1>1. UNCHANGED <<mixes, hand, crashes>>
  BY DEF Sweep
<1>2. MixT' /\ RestT' /\ MixesStay
  BY <1>1, SameMixesStay DEF RowInv, Typed, MixT, RestT, Sweep
<1>3. RowT' /\ CoinT' /\ CoinKey' /\ RowKey' /\ RowsLeave
  <2>1. CASE Release({r})
    BY <1>1, <1>2, <2>1, ReleaseKeeps DEF RowInv, Typed, RowKey
  <2>2. CASE UNCHANGED <<rows, coin>>
    BY <1>1, <2>2, SameRowsLeave
    DEF RowInv, Typed, RowT, CoinT, CoinKey, CoinKeyOf, RowKey, Exists
  <2> QED
    BY <2>1, <2>2 DEF Sweep
<1>4. HandT' /\ Serial' /\ OneRow' /\ OnItsWay' /\ Created'
  BY <1>1, <1>2, <1>3, LoopStep
<1> QED
  BY <1>2, <1>3, <1>4 DEF RowInv, Typed

LEMMA PayTimeoutKeeps ==
  ASSUME RowInv, NEW r \in Ids, PayTimeout(r)
  PROVE  RowInv'
<1>1. UNCHANGED <<mixes, hand, sweep, crashes>> /\ Release({r})
  BY DEF PayTimeout
<1>2. MixT' /\ RestT' /\ MixesStay
  BY <1>1, SameMixesStay DEF RowInv, Typed, MixT, RestT
<1>3. RowT' /\ CoinT' /\ CoinKey' /\ RowKey' /\ RowsLeave
  BY <1>1, <1>2, ReleaseKeeps DEF RowInv, Typed, RowKey
<1>4. HandT' /\ Serial' /\ OneRow' /\ OnItsWay' /\ Created'
  BY <1>1, <1>2, <1>3, LoopStep
<1> QED
  BY <1>2, <1>3, <1>4 DEF RowInv, Typed

\* A mix whose row is marked gone, its participants' rows with it.
LEMMA GoneMixIs ==
  ASSUME RowInv, NEW m \in Mixes, mixes' = [mixes EXCEPT ![m] = GoneMix]
  PROVE  /\ MixT' /\ MixesStay
         /\ \A r \in Ids \ RowsIn(m) : Exists(r) => mixes'[rows[r].mix].st \notin {"none", "gone"}
<1>1. MixT'
  BY NoMixType DEF RowInv, Typed, MixT
<1>2. mixes'[m].st = "gone" /\ \A k \in Mixes : k # m => mixes'[k] = mixes[k]
  BY DEF RowInv, Typed, MixT, GoneMix, NoMix
<1>3. MixesStay
  BY <1>2 DEF MixesStay
<1>4. \A r \in Ids \ RowsIn(m) : Exists(r) => rows[r].mix # m /\ rows[r].mix \in Mixes
  BY DEF RowsIn, RowInv, Typed, RowT, RowSet
<1> QED
  BY <1>1, <1>2, <1>3, <1>4 DEF RowInv, Typed, RowKey

LEMMA CancelKeeps ==
  ASSUME RowInv, NEW m \in Mixes, Cancel(m)
  PROVE  RowInv'
<1>1. /\ UNCHANGED <<hand, sweep, crashes>> /\ Release(RowsIn(m))
      /\ mixes' = [mixes EXCEPT ![m] = GoneMix]
  BY DEF Cancel
<1>2. RestT'
  BY <1>1 DEF RowInv, Typed, RestT
<1>3. MixT' /\ MixesStay
  BY <1>1, GoneMixIs
<1>4. RowT' /\ CoinT' /\ CoinKey' /\ RowKey' /\ RowsLeave
  BY <1>1, GoneMixIs, ReleaseKeeps DEF RowInv
<1>5. HandT' /\ Serial' /\ OneRow' /\ OnItsWay' /\ Created'
  BY <1>1, <1>3, <1>4, LoopStep
<1> QED
  BY <1>2, <1>3, <1>4, <1>5 DEF RowInv, Typed

LEMMA ConfirmKeeps ==
  ASSUME RowInv, NEW m \in Mixes, Confirm(m)
  PROVE  RowInv'
<1>1. /\ UNCHANGED <<hand, sweep, crashes>>
      /\ mixes' = [mixes EXCEPT ![m] = GoneMix]
      /\ rows' = [r \in Ids |-> IF r \in RowsIn(m) THEN Deleted ELSE rows[r]]
      /\ \A c \in Coins : coin'[c] = IF coin[c] \in Ready(m) THEN Spent
                                     ELSE IF coin[c] \in RowsIn(m) THEN Free ELSE coin[c]
  BY DEF Confirm
<1>2. RestT'
  BY <1>1 DEF RowInv, Typed, RestT
<1>3. MixT' /\ MixesStay
  BY <1>1, GoneMixIs
<1>4. RowT' /\ CoinT'
  BY Constants, NoRowType DEF Confirm, RowInv, Typed, RowT, CoinT
<1>5. \A r \in Ids : Exists(r)' => r \notin RowsIn(m) /\ rows'[r] = rows[r] /\ Exists(r)
  BY <1>1 DEF Exists, Deleted, NoRow
<1>6. CoinKey'
  <2> SUFFICES ASSUME NEW c \in Coins
               PROVE  CoinKeyOf(c)'
    BY DEF CoinKey
  <2>1. CoinKeyOf(c)
    BY DEF RowInv, Typed, CoinKey
  <2>2. coin'[c] \in Ids => coin[c] \notin RowsIn(m) /\ coin'[c] = coin[c]
    BY <1>1, Constants DEF Ready
  <2> QED
    BY <1>1, <2>1, <2>2 DEF CoinKeyOf, Exists
<1>7. RowKey'
  BY <1>1, <1>5, GoneMixIs DEF RowKey
<1>8. RowsLeave
  BY <1>1, DeletedLeave DEF RowInv, Typed
<1>9. HandT' /\ Serial' /\ OneRow' /\ OnItsWay' /\ Created'
  BY <1>1, <1>3, <1>8, LoopStep
<1> QED
  BY <1>2, <1>3, <1>4, <1>6, <1>7, <1>9 DEF RowInv, Typed

LEMMA ReopenKeeps ==
  ASSUME RowInv, NEW m \in Mixes, Reopen(m)
  PROVE  RowInv'
<1>1. /\ UNCHANGED <<hand, sweep, crashes>>
      /\ mixes' = [mixes EXCEPT ![m].st = "collecting", ![m].reopens = @ + 1]
      /\ mixes[m].st = "busy" /\ mixes[m].reopens < MaxReopens
  BY DEF Reopen
<1>2. PICK r \in Ids : Release({r})
  BY DEF Reopen, Ready, RowsIn
<1>3. MixT' /\ \A k \in Mixes : mixes'[k].st \in {mixes[k].st, "collecting"}
  BY <1>1, IntakeAssumption DEF RowInv, Typed, MixT, MixSet
<1>4. RestT' /\ MixesStay
  BY <1>1, <1>3 DEF RowInv, Typed, RestT, MixesStay
<1>5. RowT' /\ CoinT' /\ CoinKey' /\ RowKey' /\ RowsLeave
  <2>1. \A q \in Ids : Exists(q) => mixes'[rows[q].mix].st \notin {"none", "gone"}
    BY <1>3 DEF RowInv, Typed, RowKey, RowT, RowSet
  <2> QED
    BY <1>2, <1>3, <2>1, ReleaseKeeps DEF RowInv
<1>6. HandT' /\ Serial' /\ OneRow' /\ OnItsWay' /\ Created'
  BY <1>1, <1>4, <1>5, LoopStep
<1> QED
  BY <1>3, <1>4, <1>5, <1>6 DEF RowInv, Typed

LEMMA CrashKeeps ==
  ASSUME RowInv, Crash
  PROVE  RowInv'
<1>1. /\ UNCHANGED <<mixes, rows, coin>> /\ sweep' = {}
      /\ crashes' \in 0..MaxCrashes
      /\ hand' = [a \in Actors |-> Idle]
  BY IntakeAssumption DEF Crash, RowInv, Typed, RestT
<1>2. MixT' /\ RowT' /\ CoinT' /\ RestT' /\ CoinKey' /\ RowKey'
  BY <1>1 DEF RowInv, Typed, MixT, RowT, CoinT, RestT, CoinKey, CoinKeyOf, RowKey, Exists
<1>3. HandT' /\ Serial' /\ OnItsWay' /\ Created'
  BY <1>1, IdleType DEF HandT, Serial, OnItsWay, Way, Created, Idle, Actors
<1>4. OneRow'
  BY <1>1 DEF RowInv, OneRow, Unfinished, RowsOf, Exists
<1> QED
  BY <1>2, <1>3, <1>4 DEF RowInv, Typed

-----------------------------------------------------------------------------
LEMMA InitRowInv == Init => RowInv
<1> SUFFICES ASSUME Init
             PROVE  RowInv
  OBVIOUS
<1>1. MixT /\ RowT /\ CoinT /\ HandT /\ RestT
  BY Constants, IdleType, NoMixType, NoRowType, IntakeAssumption
  DEF Init, MixT, RowT, CoinT, HandT, RestT
<1>2. \A r \in Ids : ~Exists(r)
  BY DEF Init, Exists, NoRow
<1>3. CoinKey /\ RowKey
  BY <1>2, Constants DEF Init, CoinKey, CoinKeyOf, RowKey
<1>4. Serial /\ OneRow
  BY <1>2 DEF Init, Serial, OneRow, Unfinished, RowsOf, Actors
<1>5. OnItsWay /\ Created
  BY DEF Init, OnItsWay, Way, Created, Idle, Actors
<1> QED
  BY <1>1, <1>3, <1>4, <1>5 DEF RowInv, Typed

LEMMA NextRowInv == RowInv /\ [Next]_vars => RowInv'
<1> SUFFICES ASSUME RowInv, [Next]_vars
             PROVE  RowInv'
  OBVIOUS
<1>1. CASE Crash
  BY <1>1, CrashKeeps
<1>2. CASE \E a \in Actors : OpenDefault(a) \/ Create(a) \/ OpenMix(a)
  BY <1>2, OpenDefaultKeeps, CreateKeeps, OpenMixKeeps
<1>3. ASSUME NEW u \in Users,
             \/ \E m \in Mixes : JoinName(u, m)
             \/ \E s \in Sizes : JoinSize(u, s)
             \/ \E C \in SUBSET Coins : Paste(u, C)
             \/ \E c \in Coins : Take(u, c)
             \/ Enter(u) \/ Place(u) \/ Register(u) \/ Settle(u) \/ Leave(u)
      PROVE  RowInv'
  BY <1>3, JoinNameKeeps, JoinSizeKeeps, PasteKeeps, TakeKeeps, EnterKeeps, PlaceKeeps,
     RegisterKeeps, SettleKeeps, LeaveKeeps
<1>4. CASE \E m \in Mixes : Proceed(m) \/ Cancel(m) \/ Confirm(m) \/ Reopen(m)
  BY <1>4, ProceedKeeps, CancelKeeps, ConfirmKeeps, ReopenKeeps
<1>5. CASE \E r \in Ids : Sweep(r) \/ PayTimeout(r)
  BY <1>5, SweepKeeps, PayTimeoutKeeps
<1>6. CASE UNCHANGED vars
  <2>1. UNCHANGED <<mixes, rows, coin, hand, sweep, crashes>>
    BY <1>6 DEF vars
  <2>2. HandT' /\ Serial' /\ OneRow' /\ OnItsWay' /\ Created'
    BY <2>1, LoopStep, SameRowsLeave, SameMixesStay
  <2> QED
    BY <2>1, <2>2, TablesStay DEF RowInv, Typed
<1> QED
  BY <1>1, <1>2, <1>3, <1>4, <1>5, <1>6 DEF Next

LEMMA SpecRowInv == Spec => []RowInv
  BY InitRowInv, NextRowInv, PTL DEF Spec

\* Types and foreign keys, whichever handler a crash cuts short and whatever the
\* event loop deletes under a handler.
THEOREM TypeCorrect == Spec => []TypeOK
<1>1. RowInv => TypeOK
  BY TypedIsTypeOK DEF RowInv
<1> QED
  BY <1>1, SpecRowInv, PTL

LEMMA AtMostOne ==
  ASSUME NEW S, \A r, q \in S : r = q
  PROVE  Cardinality(S) <= 1
<1>1. CASE S = {}
  BY <1>1, FS_EmptySet
<1>2. CASE S # {}
  <2>1. PICK r : S = {r}
    BY <1>2
  <2> QED
    BY <2>1, FS_Singleton
<1> QED
  BY <1>1, <1>2

\* Nobody ever has two rows before payment, in however many mixes the loop and the
\* announcement are at work.
THEOREM NeverTwoUnfinished == Spec => []OneUnfinished
<1>1. RowInv => OneUnfinished
  BY AtMostOne DEF RowInv, OneRow, OneUnfinished
<1> QED
  BY <1>1, SpecRowInv, PTL

=============================================================================
