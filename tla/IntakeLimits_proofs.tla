------------------------- MODULE IntakeLimits_proofs -------------------------
(***************************************************************************)
(* Intake keeps the limits of a mix and of the bot, although each of them   *)
(* is tested on rows read earlier.                                          *)
(***************************************************************************)
EXTENDS Intake_proofs

MixCoins(m) == Held(RowsIn(m))
Conforming(m) == Fit(m, MixCoins(m))

\* A commit goes by what it read: no other handler is under way, and the loop and
\* the announcement only take coins away.
Taking(u) ==
  hand[u].pc = "take" =>
    /\ hand[u].took \cap hand[u].coins = {}
    /\ Exists(hand[u].row) => rows[hand[u].row].mix = hand[u].mix
    /\ mixes[hand[u].mix].st # "none"
    /\ hand[u].locked # "any" => hand[u].type = hand[u].locked
    /\ mixes[hand[u].mix].st # "gone" =>
         /\ mixes[hand[u].mix].type = hand[u].locked
         /\ Cardinality(Conforming(hand[u].mix))
              <= hand[u].conf + Cardinality(Fit(hand[u].mix, hand[u].took))
TakeInv == \A u \in Users : Taking(u)

\* A coin in a mix without a type was taken by the commit that is under way.
Proposes(u, m, c) ==
  /\ hand[u].pc = "take" /\ hand[u].mix = m /\ hand[u].locked = "any"
  /\ c \in hand[u].took /\ hand[u].type = Kind[c]
TypeInv ==
  crashes = 0 =>
    \A m \in Mixes : \A c \in MixCoins(m) :
      \/ mixes[m].type = Kind[c]
      \/ mixes[m].type = "any" /\ \E u \in Users : Proposes(u, m, c)

CapInv == \A m \in Mixes : Cardinality(Conforming(m)) <= MaxConforming

\* Nobody finds the mix a user is about to open; the announcement only opens
\* mixes without a type.
Fresh(u) ==
  hand[u].pc = "open" =>
    /\ RowsIn(hand[u].mix) = {}
    /\ mixes[hand[u].mix].st = "announced" /\ mixes[hand[u].mix].reopens = 0
    /\ hand[Bot].pc = "open" => hand[Bot].mix # hand[u].mix
FreshInv == \A u \in Users : Fresh(u)
BotInv == hand[Bot].pc \in {"idle", "create", "open"} /\ hand[Bot].type = "any"
          /\ (hand[Bot].pc # "idle" => ~hand[Bot].enter)

\* The mixes that count against MAX_OPEN_MIXES, with the one the announcement may
\* still open; each creation under way leaves room for its mix, but for one that
\* came in between a test and its creation.
Counted == {m \in Mixes : \/ m \in Open /\ mixes[m].reopens = 0
                          \/ hand[Bot].pc = "open" /\ m = hand[Bot].mix}
UserCreates == \E u \in Users : hand[u].pc = "create"
OpenInv ==
  /\ Cardinality(Counted) <= MaxOpen + 1
  /\ UserCreates \/ hand[Bot].pc = "create" => Cardinality(Counted) <= MaxOpen
  /\ UserCreates /\ hand[Bot].pc = "create" => Cardinality(Counted) <= MaxOpen - 1

LimitInv == TakeInv /\ TypeInv /\ CapInv /\ FreshInv /\ BotInv /\ OpenInv

-----------------------------------------------------------------------------
LEMMA MixCoinsFinite ==
  ASSUME NEW m
  PROVE  /\ MixCoins(m) \subseteq Coins
         /\ \A C \in SUBSET Coins : IsFiniteSet(Fit(m, C)) /\ Cardinality(Fit(m, C)) \in Nat
         /\ IsFiniteSet(Conforming(m)) /\ Cardinality(Conforming(m)) \in Nat
<1>1. MixCoins(m) \subseteq Coins
  BY DEF MixCoins, Held
<1>2. \A C \in SUBSET Coins : Fit(m, C) \in SUBSET Coins
  BY DEF Fit
<1>3. \A C \in SUBSET Coins : IsFiniteSet(Fit(m, C)) /\ Cardinality(Fit(m, C)) \in Nat
  BY <1>2, CoinsFinite
<1> QED
  BY <1>1, <1>3 DEF Conforming

LEMMA MixesFinite ==
  ASSUME NEW S \in SUBSET Mixes
  PROVE  IsFiniteSet(S) /\ Cardinality(S) \in Nat
<1>1. IsFiniteSet(Mixes)
  BY FS_Interval, IntakeAssumption DEF Mixes
<1> QED
  BY <1>1, FS_Subset, FS_CardinalityType

LEMMA CountedFinite == /\ Counted \in SUBSET Mixes /\ Counted' \in SUBSET Mixes
                       /\ Cardinality(Counted) \in Nat /\ Cardinality(Counted') \in Nat
                       /\ IsFiniteSet(Counted) /\ IsFiniteSet(Counted')
  BY MixesFinite DEF Counted

\* Somebody's handler under way is the only one.
LEMMA OthersIdle ==
  ASSUME RowInv, NEW u \in Users, hand[u] # Idle, NEW v \in Users, v # u
  PROVE  hand[v] = Idle
  BY DEF RowInv, Serial

LEMMA CoinsInMix ==
  ASSUME RowInv, NEW m \in Mixes, NEW c \in MixCoins(m)
  PROVE  mixes[m].st \notin {"none", "gone"} /\ c \in Coins /\ coin[c] \in Ids
  BY DEF MixCoins, Held, RowsIn, RowInv, Typed, RowKey

\* Rows and coins only go.
Shrink ==
  /\ \A r \in Ids : Exists(r)' => Exists(r) /\ rows'[r].mix = rows[r].mix
  /\ \A c \in Coins : coin'[c] \in Ids => coin'[c] = coin[c]
\* A mix keeps its size and its type for as long as it exists.
SizesKept == \A m \in Mixes : mixes[m].st # "none" /\ mixes'[m].st # "gone" =>
               mixes[m].st # "gone" /\ mixes'[m].size = mixes[m].size
TypesKept == \A m \in Mixes : mixes[m].st # "none" /\ mixes'[m].st # "gone" =>
               mixes'[m].type = mixes[m].type

LEMMA ShrinkCoins ==
  ASSUME Shrink, NEW m \in Mixes
  PROVE  MixCoins(m)' \subseteq MixCoins(m) /\ RowsIn(m)' \subseteq RowsIn(m)
<1>1. RowsIn(m)' \subseteq RowsIn(m)
  BY DEF Shrink, RowsIn
<1>2. RowsIn(m) \subseteq Ids /\ RowsIn(m)' \subseteq Ids
  BY DEF RowsIn
<1> QED
  BY <1>1, <1>2 DEF Shrink, MixCoins, Held

LEMMA ShrinkConforming ==
  ASSUME RowInv, RowInv', Shrink, SizesKept, NEW m \in Mixes
  PROVE  Cardinality(Conforming(m)') <= Cardinality(Conforming(m))
<1>1. MixCoins(m)' \subseteq MixCoins(m)
  BY ShrinkCoins
<1>2. Conforming(m)' \subseteq Conforming(m)
  <2> SUFFICES ASSUME NEW c \in Conforming(m)'
               PROVE  c \in Conforming(m)
    OBVIOUS
  <2>1. c \in MixCoins(m)' /\ c \in MixCoins(m) /\ Amount[c] = mixes'[m].size
    BY <1>1 DEF Conforming, Fit
  <2>2. mixes[m].st # "none" /\ mixes'[m].st # "gone"
    <3>1. PICK r \in Ids : Exists(r)' /\ rows'[r].mix = m
      BY <2>1 DEF MixCoins, Held, RowsIn
    <3> QED
      BY <2>1, <3>1, CoinsInMix DEF RowInv, Typed, RowKey
  <2> QED
    BY <2>1, <2>2 DEF SizesKept, Conforming, Fit
<1> QED
  BY <1>2, MixCoinsFinite, FS_Subset

LEMMA CapKept ==
  ASSUME RowInv, RowInv', CapInv, Shrink, SizesKept
  PROVE  CapInv'
<1> SUFFICES ASSUME NEW m \in Mixes
             PROVE  Cardinality(Conforming(m)') <= MaxConforming
  BY DEF CapInv
<1>1. Cardinality(Conforming(m)') \in Nat /\ Cardinality(Conforming(m)) \in Nat
  BY MixCoinsFinite, CoinsFinite DEF Conforming, Fit, MixCoins, Held
<1> QED
  BY <1>1, ShrinkConforming, IntakeAssumption DEF CapInv

LEMMA TypesOfCoinsKept ==
  ASSUME RowInv, RowInv', TypeInv, Shrink, TypesKept, crashes' = crashes,
         \A u \in Users : hand[u].pc = "take" => hand'[u] = hand[u]
  PROVE  TypeInv'
<1> SUFFICES ASSUME crashes = 0, NEW m \in Mixes, NEW c \in MixCoins(m)'
             PROVE  \/ mixes'[m].type = Kind[c]
                    \/ mixes'[m].type = "any" /\ \E u \in Users : Proposes(u, m, c)'
  BY DEF TypeInv
<1>1. c \in MixCoins(m)
  BY ShrinkCoins
<1>2. mixes[m].st # "none" /\ mixes'[m].st # "gone"
  <2>1. PICK r \in Ids : Exists(r)' /\ rows'[r].mix = m
    BY DEF MixCoins, Held, RowsIn
  <2> QED
    BY <1>1, <2>1, CoinsInMix DEF RowInv, Typed, RowKey
<1>3. mixes'[m].type = mixes[m].type
  BY <1>2 DEF TypesKept
<1>4. \A u \in Users : Proposes(u, m, c) => Proposes(u, m, c)'
  BY DEF Proposes
<1> QED
  BY <1>1, <1>3, <1>4 DEF TypeInv

LEMMA TakingKept ==
  ASSUME RowInv, RowInv', Shrink, MixesStay, SizesKept, TypesKept,
         NEW u \in Users, Taking(u), hand'[u] = hand[u]
  PROVE  Taking(u)'
<1> SUFFICES ASSUME hand[u].pc = "take"
             PROVE  Taking(u)'
  BY DEF Taking
<1> DEFINE m == hand[u].mix
           took == hand[u].took
<1>1. m \in Mixes /\ hand[u].row \in Ids /\ took \in SUBSET Coins /\ hand[u].conf \in Nat
  BY DEF RowInv, Typed, HandT, HandSet, Actors
<1>2. mixes[m].st # "none" /\ mixes'[m].st # "none"
  BY <1>1 DEF Taking, MixesStay
<1>3. Exists(hand[u].row)' => rows'[hand[u].row].mix = m
  BY <1>1 DEF Taking, Shrink, Exists
<1>4. ASSUME mixes'[m].st # "gone"
      PROVE  /\ mixes'[m].type = hand[u].locked
             /\ Cardinality(Conforming(m)') <= hand[u].conf + Cardinality(Fit(m, took)')
  <2>1. mixes[m].st # "gone" /\ mixes'[m].size = mixes[m].size /\ mixes'[m].type = mixes[m].type
    BY <1>1, <1>2, <1>4 DEF SizesKept, TypesKept
  <2>2. Fit(m, took)' = Fit(m, took)
    BY <2>1 DEF Fit
  <2>3. Cardinality(Conforming(m)') <= Cardinality(Conforming(m))
    BY <1>1, ShrinkConforming
  <2>4. /\ Cardinality(Conforming(m)') \in Nat /\ Cardinality(Conforming(m)) \in Nat
        /\ Cardinality(Fit(m, took)) \in Nat
    BY <1>1, MixCoinsFinite, CoinsFinite DEF Conforming, Fit, MixCoins, Held
  <2>5. /\ mixes[m].type = hand[u].locked
        /\ Cardinality(Conforming(m)) <= hand[u].conf + Cardinality(Fit(m, took))
    BY <2>1 DEF Taking
  <2> HIDE DEF m, took
  <2> QED
    BY <1>1, <2>1, <2>2, <2>3, <2>4, <2>5
<1>5. /\ took \cap hand[u].coins = {}
      /\ hand[u].locked # "any" => hand[u].type = hand[u].locked
  BY DEF Taking
<1>6. hand'[u] = hand[u]
  OBVIOUS
<1> QED
  BY <1>2, <1>3, <1>4, <1>5, <1>6 DEF Taking, Conforming, Fit, Exists

\* The mixes that count are as many or fewer, and no creation begins.
LEMMA OpenKept ==
  ASSUME OpenInv, Counted' \subseteq Counted,
         \A a \in Actors : hand'[a].pc = "create" => hand[a].pc = "create"
  PROVE  OpenInv'
<1>1. Cardinality(Counted') <= Cardinality(Counted)
  BY CountedFinite, FS_Subset
<1>2. /\ UserCreates' => UserCreates
      /\ hand'[Bot].pc = "create" => hand[Bot].pc = "create"
  BY DEF UserCreates, Actors
<1> QED
  BY <1>1, <1>2, CountedFinite, IntakeAssumption DEF OpenInv

\* A step of the event loop.
LEMMA LoopLimits ==
  ASSUME RowInv, RowInv', LimitInv, hand' = hand, crashes' = crashes,
         Shrink, MixesStay, SizesKept, TypesKept, Counted' \subseteq Counted,
         Quiet \/ \A m \in Mixes : mixes[m].st = "announced" => mixes'[m] = mixes[m]
  PROVE  LimitInv'
<1> USE DEF LimitInv
<1>1. TakeInv'
  BY TakingKept DEF TakeInv
<1>2. TypeInv'
  BY TypesOfCoinsKept
<1>3. CapInv'
  BY CapKept
<1>4. FreshInv'
  <2> SUFFICES ASSUME NEW u \in Users, hand[u].pc = "open"
               PROVE  Fresh(u)'
    BY DEF FreshInv, Fresh
  <2>1. hand[u].mix \in Mixes
    BY DEF RowInv, Typed, HandT, HandSet, Actors
  <2>2. ~Quiet
    BY DEF Quiet, Idle
  <2>3. RowsIn(hand[u].mix)' \subseteq RowsIn(hand[u].mix)
    BY <2>1, ShrinkCoins
  <2>4. Fresh(u)
    BY DEF FreshInv
  <2> QED
    BY <2>1, <2>2, <2>3, <2>4 DEF Fresh, RowsIn
<1>5. BotInv'
  BY DEF BotInv
<1>6. OpenInv'
  BY OpenKept
<1> QED
  BY <1>1, <1>2, <1>3, <1>4, <1>5, <1>6

\* A step that only changes a handler that has not begun to commit.
LEMMA HandLimits ==
  ASSUME RowInv, RowInv', LimitInv, UNCHANGED <<mixes, rows, coin, crashes>>,
         NEW a \in Actors, NEW h \in HandSet, hand' = [hand EXCEPT ![a] = h],
         hand[a].pc # "take", h.pc # "open",
         a = Bot => h.pc \in {"idle", "create"} /\ h.type = "any" /\ (h.pc # "idle" => ~h.enter),
         a \in Users => Taking(a)',
         h.pc = "create" => OpenInv'
  PROVE  LimitInv'
<1> USE DEF LimitInv
<1>1. Shrink /\ SizesKept /\ TypesKept /\ MixesStay
  BY DEF Shrink, SizesKept, TypesKept, MixesStay, Exists, RowInv
<1>2. /\ hand'[a] = h
      /\ \A b \in Actors : b # a => hand'[b] = hand[b]
  BY DEF RowInv, Typed, HandT
<1>3. TakeInv'
  <2> SUFFICES ASSUME NEW u \in Users, u # a
               PROVE  Taking(u)'
    BY DEF TakeInv
  <2>1. hand'[u] = hand[u] /\ Taking(u)
    BY <1>2 DEF TakeInv, Actors
  <2> QED
    BY <1>1, <2>1, TakingKept
<1>4. TypeInv'
  BY <1>1, <1>2, TypesOfCoinsKept DEF Actors
<1>5. CapInv'
  BY <1>1, CapKept
<1>6. FreshInv'
  <2> SUFFICES ASSUME NEW u \in Users, hand'[u].pc = "open"
               PROVE  Fresh(u)'
    BY DEF FreshInv, Fresh
  <2>1. u # a /\ hand'[u] = hand[u] /\ Fresh(u)
    BY <1>2 DEF FreshInv, Actors
  <2>2. hand'[Bot].pc = "open" => hand'[Bot] = hand[Bot]
    BY <1>2 DEF Actors
  <2> QED
    BY <2>1, <2>2 DEF Fresh, RowsIn, Exists
<1>7. BotInv'
  BY <1>2 DEF BotInv, Actors
<1>8. CASE h.pc = "create"
  BY <1>3, <1>4, <1>5, <1>6, <1>7, <1>8
<1>9. CASE h.pc # "create"
  <2>1. Counted' \subseteq Counted
    BY <1>2 DEF Counted, Open, Actors
  <2>2. OpenInv'
    BY <1>2, <1>9, <2>1, OpenKept
  <2> QED
    BY <1>3, <1>4, <1>5, <1>6, <1>7, <2>2
<1> QED
  BY <1>8, <1>9

\* A test of MAX_OPEN_MIXES leaves room for the mix, whatever the announcement
\* is about to do.
LEMMA RoomLeft ==
  ASSUME RowInv, OpenInv, RoomForMix, mixes' = mixes,
         NEW u \in Users, NEW h \in HandSet, hand' = [hand EXCEPT ![u] = h]
  PROVE  OpenInv'
<1>1. hand'[Bot] = hand[Bot]
  BY IntakeAssumption DEF RowInv, Typed, HandT, Actors
<1>2. Open \in SUBSET Mixes /\ IsFiniteSet(Open) /\ Cardinality(Open) \in Nat
  BY MixesFinite DEF Open
<1>3. Cardinality(Open) <= MaxOpen - 1
  BY <1>2, IntakeAssumption DEF RoomForMix
<1>4. CASE hand[Bot].pc = "open"
  <2>1. Counted' \subseteq Open \cup {hand[Bot].mix}
    BY <1>1 DEF Counted, Open
  <2>2. /\ IsFiniteSet(Open \cup {hand[Bot].mix})
        /\ Cardinality(Open \cup {hand[Bot].mix}) <= Cardinality(Open) + 1
    <3>1. Cardinality(Open \cup {hand[Bot].mix}) =
            IF hand[Bot].mix \in Open THEN Cardinality(Open) ELSE Cardinality(Open) + 1
      BY <1>2, FS_AddElement, Zenon
    <3>2. IsFiniteSet(Open \cup {hand[Bot].mix})
      BY <1>2, FS_AddElement, Zenon
    <3> QED
      BY <1>2, <3>1, <3>2
  <2>3. Cardinality(Counted') <= Cardinality(Open \cup {hand[Bot].mix})
    BY <2>1, <2>2, FS_Subset
  <2>4. Cardinality(Open \cup {hand[Bot].mix}) \in Nat
    BY <2>2, FS_CardinalityType
  <2>5. Cardinality(Counted') <= MaxOpen
    BY <1>2, <1>3, <2>2, <2>3, <2>4, CountedFinite, IntakeAssumption
  <2> QED
    BY <1>1, <1>4, <2>5, CountedFinite, IntakeAssumption DEF OpenInv
<1>5. CASE hand[Bot].pc # "open"
  <2>1. Counted' \subseteq Open
    BY <1>1, <1>5 DEF Counted, Open
  <2>2. Cardinality(Counted') <= Cardinality(Open)
    BY <1>2, <2>1, FS_Subset
  <2>3. Cardinality(Counted') <= MaxOpen - 1
    BY <1>2, <1>3, <2>2, CountedFinite, IntakeAssumption
  <2> QED
    BY <2>3, CountedFinite, IntakeAssumption DEF OpenInv
<1> QED
  BY <1>4, <1>5

\* What a commit reads is what it goes by.
LEMMA ReadingTakes ==
  ASSUME NEW u \in Users, NEW r \in Ids, NEW m \in Mixes, NEW C \in SUBSET Coins,
         HandT', hand'[u] = Reading(u, r, m, mixes[m].type, C),
         mixes' = mixes, mixes[m].st # "none", MixCoins(m)' = MixCoins(m),
         Exists(r)' => rows'[r].mix = m
  PROVE  Taking(u)'
<1>1. /\ hand'[u].took = {} /\ hand'[u].mix = m /\ hand'[u].row = r
      /\ hand'[u].type = mixes[m].type /\ hand'[u].locked = mixes[m].type
      /\ hand'[u].conf = Cardinality(Conforming(m))
  BY DEF Reading, Idle, Conforming, MixCoins
<1>2. Conforming(m)' = Conforming(m)
  BY DEF Conforming, Fit
<1>3. Fit(m, {}) = {} /\ Fit(m, {})' = {}
  BY DEF Fit
<1>4. Cardinality(Conforming(m)) <= Cardinality(Conforming(m)) + Cardinality({})
  BY FS_EmptySet, MixCoinsFinite
<1> QED
  BY <1>1, <1>2, <1>3, <1>4 DEF Taking, Exists

-----------------------------------------------------------------------------
LEMMA JoinNameLimits ==
  ASSUME RowInv, RowInv', LimitInv, NEW u \in Users, NEW m \in Mixes, JoinName(u, m)
  PROVE  LimitInv'
<1> DEFINE h == [Idle EXCEPT !.pc = "join", !.mix = m]
<1>1. h \in HandSet /\ h.pc = "join"
  BY IdleType DEF Idle, HandSet
<1>2. hand' = [hand EXCEPT ![u] = h] /\ hand[u].pc # "take" /\ u # Bot /\ u \in Actors
  BY IntakeAssumption DEF JoinName, MayJoin, Quiet, Idle, Actors
<1>3. UNCHANGED <<mixes, rows, coin, crashes>>
  BY DEF JoinName
<1> HIDE DEF h
<1>4. Taking(u)'
  BY <1>1, <1>2 DEF RowInv, Typed, HandT, Taking
<1> QED
  BY <1>1, <1>2, <1>3, <1>4, HandLimits

LEMMA JoinSizeLimits ==
  ASSUME RowInv, RowInv', LimitInv, NEW u \in Users, NEW s \in Sizes, JoinSize(u, s)
  PROVE  LimitInv'
<1>1. hand[u].pc # "take" /\ u # Bot /\ u \in Actors
  <2>1. Quiet
    BY DEF JoinSize, MayJoin
  <2> QED
    BY <2>1, IntakeAssumption DEF Quiet, Idle, Actors
<1>2. UNCHANGED <<mixes, rows, coin, crashes>>
  BY DEF JoinSize
<1>3. CASE RoomForMix /\ hand' = [hand EXCEPT ![u] = [Idle EXCEPT !.pc = "create", !.size = s]]
  <2> DEFINE h == [Idle EXCEPT !.pc = "create", !.size = s]
  <2>1. h \in HandSet /\ h.pc = "create" /\ hand' = [hand EXCEPT ![u] = h]
    BY <1>3, IdleType DEF Idle, HandSet
  <2> HIDE DEF h
  <2>2. Taking(u)'
    BY <1>1, <2>1 DEF RowInv, Typed, HandT, Taking
  <2>3. OpenInv'
    BY <1>2, <1>3, <2>1, RoomLeft DEF LimitInv
  <2> QED
    BY <1>1, <1>2, <2>1, <2>2, <2>3, HandLimits
<1>4. ASSUME NEW m \in Open, hand' = [hand EXCEPT ![u] = [Idle EXCEPT !.pc = "join", !.mix = m]]
      PROVE  LimitInv'
  <2> DEFINE h == [Idle EXCEPT !.pc = "join", !.mix = m]
  <2>1. h \in HandSet /\ h.pc = "join" /\ hand' = [hand EXCEPT ![u] = h]
    BY <1>4, IdleType DEF Idle, HandSet, Open
  <2> HIDE DEF h
  <2>2. Taking(u)'
    BY <1>1, <2>1 DEF RowInv, Typed, HandT, Taking
  <2> QED
    BY <1>1, <1>2, <2>1, <2>2, HandLimits
<1> QED
  BY <1>3, <1>4 DEF JoinSize

LEMMA OpenDefaultLimits ==
  ASSUME RowInv, RowInv', LimitInv, NEW a \in Actors, OpenDefault(a)
  PROVE  LimitInv'
<1> DEFINE h == [Idle EXCEPT !.pc = "create", !.enter = FALSE]
<1>1. h \in HandSet /\ h.pc = "create" /\ h.type = "any" /\ ~h.enter
  BY IdleType DEF Idle, HandSet
<1>2. /\ hand' = [hand EXCEPT ![a] = h] /\ hand[a] = Idle /\ Idle.pc = "idle" /\ Open = {}
      /\ UNCHANGED <<mixes, rows, coin, crashes>>
  BY DEF OpenDefault, Idle
<1> HIDE DEF h
<1>3. hand'[a] = h /\ \A b \in Actors : b # a => hand'[b] = hand[b]
  BY <1>2 DEF RowInv, Typed, HandT
<1>4. a \in Users => Taking(a)'
  BY <1>1, <1>3 DEF Taking
<1>5. OpenInv'
  <2>1. Bot \in Actors
    BY DEF Actors
  <2>2. Cardinality({}) = 0 /\ Cardinality({hand[Bot].mix}) = 1 /\ IsFiniteSet({hand[Bot].mix})
    BY FS_EmptySet, FS_Singleton
  <2>3. CASE a = Bot
    <3>1. Counted' = {}
      BY <1>1, <1>2, <1>3, <2>3 DEF Counted, Open
    <3> QED
      BY <2>2, <3>1, IntakeAssumption DEF OpenInv
  <2>4. CASE a # Bot /\ hand[Bot].pc = "open"
    <3>1. Counted' \subseteq {hand[Bot].mix} /\ hand'[Bot].pc = "open"
      BY <1>2, <1>3, <2>1, <2>4 DEF Counted, Open
    <3>2. Cardinality(Counted') <= 1
      BY <2>2, <3>1, FS_Subset
    <3> QED
      BY <3>1, <3>2, CountedFinite, IntakeAssumption DEF OpenInv
  <2>5. CASE a # Bot /\ hand[Bot].pc # "open"
    <3>1. Counted' = {}
      BY <1>2, <1>3, <2>1, <2>5 DEF Counted, Open
    <3> QED
      BY <2>2, <3>1, IntakeAssumption DEF OpenInv
  <2> QED
    BY <2>3, <2>4, <2>5
<1> QED
  BY <1>1, <1>2, <1>4, <1>5, HandLimits

\* A message for the row in progress.
LEMMA ResumeTakes ==
  ASSUME RowInv, NEW u \in Users, Unfinished(u) # {}, NEW C \in SUBSET Coins,
         HandT', hand'[u] = Resume(u, C), UNCHANGED <<mixes, rows, coin>>
  PROVE  Taking(u)'
<1>1. PICK r \in Unfinished(u) : r = Least(Unfinished(u))
  BY LeastUnfinished DEF RowInv
<1>2. PICK m \in Mixes : m = rows[r].mix /\ r \in Ids /\ mixes[m].st # "none"
  BY <1>1 DEF Unfinished, RowsOf, RowInv, Typed, RowT, RowSet, RowKey
<1>3. hand'[u] = Reading(u, r, m, mixes[m].type, C)
  BY <1>1, <1>2 DEF Resume
<1>4. MixCoins(m)' = MixCoins(m)
  BY DEF MixCoins, Held, RowsIn, Exists
<1>5. rows'[r].mix = m
  BY <1>2
<1> QED
  BY <1>2, <1>3, <1>4, <1>5, ReadingTakes

LEMMA PasteLimits ==
  ASSUME RowInv, RowInv', LimitInv, NEW u \in Users, NEW C \in SUBSET Coins, Paste(u, C)
  PROVE  LimitInv'
<1>1. hand[u].pc # "take" /\ u # Bot /\ u \in Actors
  <2>1. Quiet
    BY DEF Paste
  <2> QED
    BY <2>1, IntakeAssumption DEF Quiet, Idle, Actors
<1>2. UNCHANGED <<mixes, rows, coin, crashes>>
  BY DEF Paste
<1>3. CASE Unfinished(u) # {} /\ hand' = [hand EXCEPT ![u] = Resume(u, C)]
  <2>1. hand'[u] = Resume(u, C)
    BY <1>1, <1>3 DEF RowInv, Typed, HandT
  <2>2. Taking(u)'
    BY <1>2, <1>3, <2>1, ResumeTakes DEF RowInv, Typed
  <2>3. Resume(u, C) \in HandSet /\ Resume(u, C).pc = "take"
    BY <1>3, ResumeIs DEF RowInv
  <2> QED
    BY <1>1, <1>2, <1>3, <2>2, <2>3, HandLimits
<1>4. ASSUME NEW c \in C, hand' = [hand EXCEPT ![u] = [Idle EXCEPT !.pc = "peeked", !.coins = C,
                                                                   !.type = Kind[c]]]
      PROVE  LimitInv'
  <2> DEFINE h == [Idle EXCEPT !.pc = "peeked", !.coins = C, !.type = Kind[c]]
  <2>1. h \in HandSet /\ h.pc = "peeked" /\ hand' = [hand EXCEPT ![u] = h]
    BY <1>4, IdleType DEF Idle, HandSet, Types
  <2> HIDE DEF h
  <2>2. Taking(u)'
    BY <1>1, <2>1 DEF RowInv, Typed, HandT, Taking
  <2> QED
    BY <1>1, <1>2, <2>1, <2>2, HandLimits
<1> QED
  BY <1>3, <1>4 DEF Paste

LEMMA PlaceLimits ==
  ASSUME RowInv, RowInv', LimitInv, NEW u \in Users, Place(u)
  PROVE  LimitInv'
<1>1. /\ hand[u].pc # "take" /\ u # Bot /\ u \in Actors
      /\ hand[u] \in HandSet /\ hand[u].coins \in SUBSET Coins
  BY IntakeAssumption DEF Place, At, Actors, RowInv, Typed, HandT, HandSet
<1>2. UNCHANGED <<mixes, rows, coin, crashes>>
  BY DEF Place
<1>3. CASE Unfinished(u) # {} /\ hand' = [hand EXCEPT ![u] = Resume(u, hand[u].coins)]
  <2>1. hand'[u] = Resume(u, hand[u].coins)
    BY <1>1, <1>3 DEF RowInv, Typed, HandT
  <2>2. Taking(u)'
    BY <1>1, <1>2, <1>3, <2>1, ResumeTakes DEF RowInv, Typed
  <2>3. Resume(u, hand[u].coins) \in HandSet /\ Resume(u, hand[u].coins).pc = "take"
    BY <1>1, <1>3, ResumeIs DEF RowInv
  <2> QED
    BY <1>1, <1>2, <1>3, <2>2, <2>3, HandLimits
<1>4. ASSUME NEW m \in Open, hand' = [hand EXCEPT ![u].pc = "join", ![u].mix = m]
      PROVE  LimitInv'
  <2> DEFINE h == [hand[u] EXCEPT !.pc = "join", !.mix = m]
  <2>1. h \in HandSet /\ h.pc = "join"
    BY <1>1 DEF HandSet, Open
  <2>2. hand' = [hand EXCEPT ![u] = h]
    BY <1>1, <1>4 DEF RowInv, Typed, HandT
  <2> HIDE DEF h
  <2>3. Taking(u)'
    BY <1>1, <2>1, <2>2 DEF RowInv, Typed, HandT, Taking
  <2> QED
    BY <1>1, <1>2, <2>1, <2>2, <2>3, HandLimits
<1>5. CASE RoomForMix /\ hand' = [hand EXCEPT ![u].pc = "create"]
  <2> DEFINE h == [hand[u] EXCEPT !.pc = "create"]
  <2>1. h \in HandSet /\ h.pc = "create"
    BY <1>1 DEF HandSet
  <2>2. hand' = [hand EXCEPT ![u] = h]
    BY <1>1, <1>5 DEF RowInv, Typed, HandT
  <2> HIDE DEF h
  <2>3. Taking(u)'
    BY <1>1, <2>1, <2>2 DEF RowInv, Typed, HandT, Taking
  <2>4. OpenInv'
    BY <1>2, <1>5, <2>1, <2>2, RoomLeft DEF LimitInv
  <2> QED
    BY <1>1, <1>2, <2>1, <2>2, <2>3, <2>4, HandLimits
<1>6. CASE Done(u)
  <2>1. Idle.pc = "idle" /\ hand' = [hand EXCEPT ![u] = Idle]
    BY <1>6 DEF Idle, Done
  <2>2. Taking(u)'
    BY <1>1, <2>1 DEF RowInv, Typed, HandT, Taking
  <2> QED
    BY <1>1, <1>2, <2>1, <2>2, IdleType, HandLimits
<1> QED
  BY <1>3, <1>4, <1>5, <1>6 DEF Place

-----------------------------------------------------------------------------
\* A new mix is found by nobody before it is there, and was counted when its
\* creation began.
LEMMA CreateLimits ==
  ASSUME RowInv, RowInv', LimitInv, NEW a \in Actors, Create(a)
  PROVE  LimitInv'
<1> USE DEF LimitInv
<1>1. PICK m \in Mixes :
        /\ mixes[m].st = "none"
        /\ mixes' = [mixes EXCEPT ![m] = [NoMix EXCEPT !.st = "announced", !.size = hand[a].size]]
        /\ hand' = [hand EXCEPT ![a].pc = "open", ![a].mix = m]
  BY DEF Create
<1>2. hand[a] \in HandSet /\ hand[a].pc = "create" /\ hand[a] # Idle /\ Bot \in Actors
  BY DEF RowInv, Typed, HandT, Create, At, Idle, Actors
<1>3. UNCHANGED <<rows, coin, sweep, crashes>>
  BY DEF Create
<1>4. /\ mixes'[m].st = "announced" /\ mixes'[m].reopens = 0
      /\ \A k \in Mixes : k # m => mixes'[k] = mixes[k]
  BY <1>1, <1>2 DEF RowInv, Typed, MixT, MixSet, HandSet, NoMix
<1>5. /\ hand'[a].pc = "open" /\ hand'[a].mix = m
      /\ hand'[a].type = hand[a].type /\ hand'[a].enter = hand[a].enter
      /\ \A b \in Actors : b # a => hand'[b] = hand[b]
  BY <1>1, <1>2 DEF RowInv, Typed, HandT, HandSet
<1>6. RowsIn(m)' = {}
  BY <1>1, <1>3 DEF RowInv, Typed, RowKey, RowsIn, Exists
<1>7. Shrink /\ SizesKept /\ TypesKept /\ MixesStay
  <2>1. \A k \in Mixes : mixes[k].st = "gone" => mixes'[k] = mixes[k]
    BY <1>1, <1>4
  <2>2. Shrink
    BY <1>3 DEF Shrink, Exists
  <2>3. SizesKept /\ TypesKept /\ MixesStay
    BY <1>1, <1>4, <2>1 DEF SizesKept, TypesKept, MixesStay
  <2> QED
    BY <2>2, <2>3
<1>8. TakeInv'
  <2> SUFFICES ASSUME NEW u \in Users, hand'[u].pc = "take"
               PROVE  Taking(u)'
    BY DEF TakeInv, Taking
  <2>1. hand'[u] = hand[u] /\ Taking(u)
    BY <1>5 DEF TakeInv, Actors
  <2> QED
    BY <1>7, <2>1, TakingKept
<1>9. TypeInv'
  BY <1>2, <1>3, <1>5, <1>7, TypesOfCoinsKept DEF Actors
<1>10. CapInv'
  BY <1>7, CapKept
<1>11. FreshInv'
  <2> SUFFICES ASSUME NEW u \in Users, hand'[u].pc = "open"
               PROVE  Fresh(u)'
    BY DEF FreshInv, Fresh
  <2>1. CASE u = a
    <3>1. hand[Bot].pc = "open" => hand[Bot].mix # m
      BY <1>1, <1>2 DEF RowInv, Created
    <3>2. hand'[Bot] = hand[Bot]
      BY <1>2, <1>5, <2>1, IntakeAssumption
    <3> QED
      BY <1>4, <1>5, <1>6, <2>1, <3>1, <3>2 DEF Fresh, RowsIn, Exists
  <2>2. CASE u # a
    <3>1. hand'[u] = hand[u] /\ Fresh(u) /\ hand[u].mix \in Mixes
      BY <1>5, <2>2 DEF FreshInv, Actors, RowInv, Typed, HandT, HandSet
    <3>2. hand[u].mix # m /\ hand[u].pc = "open"
      BY <1>1, <3>1 DEF Fresh
    <3>3. hand'[Bot].pc = "open" => hand'[Bot].mix # hand[u].mix
      BY <1>2, <1>5, <3>1, <3>2 DEF Fresh
    <3> QED
      BY <1>3, <1>4, <3>1, <3>2, <3>3 DEF Fresh, RowsIn, Exists
  <2> QED
    BY <2>1, <2>2
<1>12. BotInv'
  BY <1>2, <1>5 DEF BotInv
<1>13. OpenInv'
  <2>1. Counted' \subseteq Counted \cup {m}
    BY <1>2, <1>4, <1>5 DEF Counted, Open
  <2>2. Cardinality(Counted') <= Cardinality(Counted) + 1
    <3>1. /\ IsFiniteSet(Counted \cup {m})
          /\ Cardinality(Counted \cup {m}) =
               IF m \in Counted THEN Cardinality(Counted) ELSE Cardinality(Counted) + 1
      BY CountedFinite, FS_AddElement, Zenon
    <3>2. Cardinality(Counted') <= Cardinality(Counted \cup {m})
      BY <2>1, <3>1, FS_Subset
    <3> QED
      BY <3>1, <3>2, CountedFinite
  <2>3. CASE a = Bot
    <3>1. hand'[Bot].pc # "create" /\ (UserCreates' <=> UserCreates)
      BY <1>5, <2>3, IntakeAssumption DEF UserCreates, Actors
    <3> QED
      BY <1>2, <2>2, <2>3, <3>1, CountedFinite, IntakeAssumption DEF OpenInv
  <2>4. CASE a # Bot
    <3>1. hand'[Bot] = hand[Bot] /\ UserCreates
      BY <1>2, <1>5, <2>4 DEF UserCreates, Actors
    <3>2. ~UserCreates'
      BY <1>2, <1>5, <2>4, OthersIdle DEF UserCreates, Actors, Idle
    <3> QED
      BY <2>2, <3>1, <3>2, CountedFinite, IntakeAssumption DEF OpenInv
  <2> QED
    BY <2>3, <2>4
<1> QED
  BY <1>8, <1>9, <1>10, <1>11, <1>12, <1>13

\* Opening gives the mix a type only where nobody has brought a coin yet.
LEMMA OpenMixLimits ==
  ASSUME RowInv, RowInv', LimitInv, NEW a \in Actors, OpenMix(a)
  PROVE  LimitInv'
<1> USE DEF LimitInv
<1>1. PICK m \in Mixes : m = hand[a].mix
  BY DEF RowInv, Typed, HandT, HandSet
<1>2. hand[a] \in HandSet /\ hand[a].pc = "open" /\ hand[a] # Idle /\ Bot \in Actors
  BY DEF RowInv, Typed, HandT, OpenMix, At, Idle, Actors
<1>3. UNCHANGED <<rows, coin, sweep, crashes>>
  BY DEF OpenMix
<1>4. /\ \A k \in Mixes : k # m => mixes'[k] = mixes[k]
      /\ mixes[m].st = "gone" => mixes'[m] = mixes[m]
      /\ mixes[m].st # "gone" =>
           /\ mixes'[m].st = "collecting"
           /\ mixes'[m].size = mixes[m].size /\ mixes'[m].reopens = mixes[m].reopens
           /\ mixes'[m].type = IF hand[a].type = "any" THEN mixes[m].type ELSE hand[a].type
  BY <1>1 DEF OpenMix, RowInv, Typed, MixT, MixSet
<1>5. /\ hand'[a].pc \in {"join", "idle"} /\ hand'[a].type \in {hand[a].type, "any"}
      /\ (hand'[a].pc = "join" => hand[a].enter)
      /\ \A b \in Actors : b # a => hand'[b] = hand[b]
  BY <1>2 DEF OpenMix, Done, Idle, RowInv, Typed, HandT, HandSet
<1>6. Shrink /\ SizesKept /\ MixesStay
  <2>1. Shrink
    BY <1>3 DEF Shrink, Exists
  <2>2. SizesKept
    BY <1>4 DEF SizesKept
  <2>3. MixesStay
    BY <1>4 DEF MixesStay
  <2> QED
    BY <2>1, <2>2, <2>3
<1>7. CapInv'
  BY <1>6, CapKept
<1>8. \A b \in Actors : hand'[b].pc = "create" => hand[b].pc = "create"
  BY <1>5
<1>9. CASE a = Bot
  <2>1. hand[a].type = "any" /\ ~hand[a].enter /\ hand'[a].pc = "idle"
    BY <1>2, <1>5, <1>9 DEF BotInv
  <2>2. TypesKept
    BY <1>4, <2>1 DEF TypesKept
  <2>3. \A u \in Users : u # a /\ hand'[u] = hand[u]
    BY <1>5, <1>9, IntakeAssumption DEF Actors
  <2>4. TakeInv'
    BY <1>6, <2>2, <2>3, TakingKept DEF TakeInv
  <2>5. TypeInv'
    BY <1>3, <1>6, <2>2, <2>3, TypesOfCoinsKept
  <2>6. FreshInv'
    <3> SUFFICES ASSUME NEW u \in Users, hand[u].pc = "open"
                 PROVE  Fresh(u)'
      BY <2>3 DEF FreshInv, Fresh
    <3>1. Fresh(u) /\ hand[u].mix \in Mixes
      BY DEF FreshInv, Actors, RowInv, Typed, HandT, HandSet
    <3>2. mixes'[hand[u].mix] = mixes[hand[u].mix]
      BY <1>1, <1>2, <1>4, <1>9, <3>1 DEF Fresh
    <3> QED
      BY <1>3, <1>9, <2>1, <2>3, <3>1, <3>2 DEF Fresh, RowsIn, Exists
  <2>7. BotInv'
    BY <1>5, <1>9, <2>1 DEF BotInv
  <2>8. Counted' \subseteq Counted
    BY <1>1, <1>2, <1>4, <1>9, <2>1 DEF Counted, Open
  <2> QED
    BY <1>7, <1>8, <2>4, <2>5, <2>6, <2>7, <2>8, OpenKept
<1>10. CASE a # Bot
  <2>1. a \in Users /\ hand'[Bot] = hand[Bot]
    BY <1>2, <1>5, <1>10 DEF Actors
  <2>2. /\ RowsIn(m) = {} /\ mixes[m].st = "announced" /\ mixes[m].reopens = 0
    BY <1>1, <1>2, <2>1 DEF FreshInv, Fresh
  <2>3. \A u \in Users : hand'[u].pc \notin {"take", "open"} /\ hand[u].pc # "take"
    BY <1>2, <1>5, <2>1, OthersIdle DEF Idle, Actors
  <2>4. TakeInv' /\ FreshInv'
    BY <2>3 DEF TakeInv, Taking, FreshInv, Fresh
  <2>5. TypeInv'
    <3> SUFFICES ASSUME crashes = 0, NEW k \in Mixes, NEW c \in MixCoins(k)'
                 PROVE  mixes'[k].type = Kind[c]
      BY <1>3 DEF TypeInv
    <3>1. c \in MixCoins(k)
      BY <1>6, ShrinkCoins
    <3>2. k # m
      BY <2>2, <3>1 DEF MixCoins, Held
    <3>3. \A u \in Users : ~Proposes(u, k, c)
      BY <2>3 DEF Proposes
    <3> QED
      BY <1>4, <3>1, <3>2, <3>3 DEF TypeInv
  <2>6. BotInv'
    BY <2>1 DEF BotInv
  <2>7. Counted' \subseteq Counted
    BY <1>4, <2>1, <2>2 DEF Counted, Open
  <2> QED
    BY <1>7, <1>8, <2>4, <2>5, <2>6, <2>7, OpenKept
<1> QED
  BY <1>9, <1>10

\* A new row holds no coins.
LEMMA EnterLimits ==
  ASSUME RowInv, RowInv', LimitInv, NEW u \in Users, Enter(u)
  PROVE  LimitInv'
<1> USE DEF LimitInv
<1>1. PICK m \in Mixes : m = hand[u].mix
  BY DEF RowInv, Typed, HandT, HandSet, Actors
<1>2. /\ hand[u] \in HandSet /\ hand[u].pc = "join" /\ hand[u] # Idle /\ u \in Actors /\ u # Bot
      /\ hand[u].coins \in SUBSET Coins /\ Bot \in Actors
  BY IntakeAssumption DEF RowInv, Typed, HandT, HandSet, Enter, At, Idle, Actors
<1>3. UNCHANGED <<mixes, coin, sweep, crashes>>
  BY DEF Enter
<1>4. CASE mixes[m].st = "gone"
  <2>1. hand' = [hand EXCEPT ![u] = Idle] /\ UNCHANGED rows /\ Idle.pc = "idle"
    BY <1>1, <1>4 DEF Enter, Done, Idle
  <2>2. Taking(u)'
    BY <1>2, <2>1 DEF RowInv, Typed, HandT, Taking
  <2> QED
    BY <1>2, <1>3, <2>1, <2>2, IdleType, HandLimits
<1>5. CASE mixes[m].st # "gone"
  <2>1. PICK r \in Ids :
          /\ rows[r].st = "none"
          /\ rows' = [rows EXCEPT ![r] = [st |-> "interested", mix |-> m, user |-> u]]
          /\ IF hand[u].coins = {} THEN Done(u)
             ELSE hand' = [hand EXCEPT ![u] = Reading(u, r, m, mixes[m].type, hand[u].coins)]
    BY <1>1, <1>5 DEF Enter
  <2>2. /\ rows'[r].mix = m
        /\ \A q \in Ids : q # r => rows'[q] = rows[q]
    BY <2>1 DEF RowInv, Typed, RowT
  <2>3. \A k \in Mixes : MixCoins(k)' = MixCoins(k)
    <3> SUFFICES ASSUME NEW k \in Mixes, NEW c \in Coins
                 PROVE  c \in MixCoins(k)' <=> c \in MixCoins(k)
      BY DEF MixCoins, Held
    <3>1. coin[c] # r
      BY <2>1 DEF RowInv, Typed, CoinKey, CoinKeyOf, Exists
    <3> QED
      BY <1>3, <2>2, <3>1 DEF MixCoins, Held, RowsIn, Exists
  <2>4. \A b \in Actors : b # u => hand'[b] = hand[b]
    BY <1>2, <2>1 DEF Done, RowInv, Typed, HandT
  <2>5. hand'[u].pc \in {"idle", "take"}
    <3>1. hand'[u] = Idle \/ hand'[u] = Reading(u, r, m, mixes[m].type, hand[u].coins)
      BY <1>2, <2>1 DEF Done, RowInv, Typed, HandT
    <3>2. Reading(u, r, m, mixes[m].type, hand[u].coins).pc = "take"
      BY DEF Reading, Idle
    <3>3. Idle.pc = "idle"
      BY DEF Idle
    <3> QED
      BY <3>1, <3>2, <3>3
  <2>6. \A v \in Users : v # u => hand'[v] = Idle /\ hand[v] = Idle /\ Idle.pc = "idle"
    BY <1>2, <2>4, OthersIdle DEF Actors, Idle
  <2>7. Taking(u)'
    <3>1. CASE hand[u].coins = {}
      <4>1. hand'[u].pc = "idle"
        BY <1>2, <2>1, <3>1 DEF Done, Idle, RowInv, Typed, HandT
      <4> QED
        BY <4>1 DEF Taking
    <3>2. CASE hand[u].coins # {}
      <4>1. hand'[u] = Reading(u, r, m, mixes[m].type, hand[u].coins)
        BY <1>2, <2>1, <3>2 DEF RowInv, Typed, HandT
      <4>2. mixes[m].st # "none"
        BY <1>1, <1>2 DEF RowInv, Created
      <4>3. PICK C \in SUBSET Coins : C = hand[u].coins
        BY <1>2
      <4>4. hand'[u] = Reading(u, r, m, mixes[m].type, C)
        BY <4>1, <4>3
      <4> QED
        BY <1>3, <2>2, <2>3, <4>2, <4>4, ReadingTakes DEF RowInv, Typed
    <3> QED
      BY <3>1, <3>2
  <2>8. TakeInv'
    BY <2>6, <2>7 DEF TakeInv, Taking
  <2>9. TypeInv'
    <3> SUFFICES ASSUME crashes = 0, NEW k \in Mixes, NEW c \in MixCoins(k)
                 PROVE  mixes[k].type = Kind[c]
      BY <1>3, <2>3 DEF TypeInv
    <3>1. \A v \in Users : ~Proposes(v, k, c)
      BY <1>2, <2>6 DEF Proposes
    <3> QED
      BY <3>1 DEF TypeInv
  <2>10. CapInv'
    BY <1>3, <2>3 DEF CapInv, Conforming, Fit
  <2>11. FreshInv'
    BY <2>5, <2>6 DEF FreshInv, Fresh
  <2>12. BotInv' /\ Counted' \subseteq Counted
    BY <1>2, <1>3, <2>4 DEF BotInv, Counted, Open
  <2>13. \A b \in Actors : hand'[b].pc = "create" => hand[b].pc = "create"
    BY <2>4, <2>5
  <2> QED
    BY <2>8, <2>9, <2>10, <2>11, <2>12, <2>13, OpenKept
<1> QED
  BY <1>4, <1>5

\* A coin is taken for the mix that was read, under its type and within its cap.
LEMMA TakeLimits ==
  ASSUME RowInv, RowInv', LimitInv, NEW u \in Users, NEW c \in Coins, Take(u, c)
  PROVE  LimitInv'
<1> USE DEF LimitInv
<1>1. PICK m \in Mixes, r \in Ids, took \in SUBSET Coins, conf \in Nat :
        /\ m = hand[u].mix /\ r = hand[u].row /\ took = hand[u].took /\ conf = hand[u].conf
  BY DEF RowInv, Typed, HandT, HandSet, Actors
<1>2. /\ hand[u] \in HandSet /\ hand[u].pc = "take" /\ hand[u] # Idle
      /\ u \in Actors /\ u # Bot /\ Bot \in Actors
  BY IntakeAssumption DEF RowInv, Typed, HandT, Take, At, Idle, Actors
<1>3. UNCHANGED <<mixes, rows, crashes>>
  BY DEF Take
<1>4. PICK fits, takes \in BOOLEAN :
        /\ fits <=> coin[c] = Free /\ hand[u].type \in {"any", Kind[c]}
        /\ takes <=> fits /\ UnderCap(u, c) /\ Exists(r)
        /\ coin' = IF takes THEN [coin EXCEPT ![c] = r] ELSE coin
        /\ hand' = [hand EXCEPT ![u].coins = @ \ {c},
                                ![u].type = IF fits THEN Kind[c] ELSE @,
                                ![u].took = IF takes THEN @ \cup {c} ELSE @]
  <2> DEFINE f == coin[c] = Free /\ hand[u].type \in {"any", Kind[c]}
             t == f /\ UnderCap(u, c) /\ Exists(hand[u].row)
  <2>1. /\ coin' = IF t THEN [coin EXCEPT ![c] = hand[u].row] ELSE coin
        /\ hand' = [hand EXCEPT ![u].coins = @ \ {c},
                                ![u].type = IF f THEN Kind[c] ELSE @,
                                ![u].took = IF t THEN @ \cup {c} ELSE @]
    BY DEF Take
  <2>2. f \in BOOLEAN /\ t \in BOOLEAN
    OBVIOUS
  <2> QED
    BY <1>1, <2>1, <2>2
<1>5. /\ hand'[u].pc = "take" /\ hand'[u].mix = m /\ hand'[u].row = r
      /\ hand'[u].conf = conf /\ hand'[u].locked = hand[u].locked
      /\ hand'[u].coins = hand[u].coins \ {c}
      /\ hand'[u].type = (IF fits THEN Kind[c] ELSE hand[u].type)
      /\ hand'[u].took = (IF takes THEN took \cup {c} ELSE took)
      /\ \A b \in Actors : b # u => hand'[b] = hand[b]
  BY <1>1, <1>2, <1>4 DEF RowInv, Typed, HandT, HandSet
<1>6. \A v \in Users : v # u => hand'[v] = Idle /\ hand[v] = Idle /\ Idle.pc = "idle"
  BY <1>2, <1>5, OthersIdle DEF Actors, Idle
<1>7. /\ took \cap hand[u].coins = {} /\ c \notin took
      /\ Exists(r) => rows[r].mix = m /\ mixes[m].st # "gone"
      /\ mixes[m].st # "none"
      /\ hand[u].locked # "any" => hand[u].type = hand[u].locked
      /\ mixes[m].st # "gone" =>
           /\ mixes[m].type = hand[u].locked
           /\ Cardinality(Conforming(m)) <= conf + Cardinality(Fit(m, took))
  <2>1. Taking(u) /\ c \in hand[u].coins
    BY DEF TakeInv, Take
  <2>2. Exists(r) => mixes[rows[r].mix].st # "gone"
    BY DEF RowInv, Typed, RowKey
  <2> QED
    BY <1>1, <1>2, <2>1, <2>2 DEF Taking
<1>8. /\ \A k \in Mixes : ~takes \/ k # m => MixCoins(k)' = MixCoins(k)
      /\ takes => MixCoins(m)' = MixCoins(m) \cup {c} /\ c \notin MixCoins(m)
  <2>1. \A k \in Mixes : RowsIn(k)' = RowsIn(k)
    BY <1>3 DEF RowsIn, Exists
  <2>2. takes => \A k \in Mixes : r \in RowsIn(k) <=> k = m
    BY <1>4, <1>7 DEF RowsIn
  <2>3. takes => \A k \in Mixes : coin[c] \notin RowsIn(k)
    BY <1>4, Constants DEF RowsIn
  <2>4. takes => coin'[c] = r /\ \A d \in Coins : d # c => coin'[d] = coin[d]
    BY <1>4 DEF RowInv, Typed, CoinT
  <2>5. ~takes => coin' = coin
    BY <1>4
  <2> QED
    BY <2>1, <2>2, <2>3, <2>4, <2>5 DEF MixCoins, Held
\* The count goes up by one where the reading does.
<1>9. ASSUME takes
      PROVE  /\ Cardinality(Conforming(m)') <= MaxConforming
             /\ Cardinality(Conforming(m)') <= conf + Cardinality(Fit(m, took \cup {c}))
  <2>1. /\ Cardinality(Conforming(m)) \in Nat /\ IsFiniteSet(Conforming(m))
        /\ Cardinality(Fit(m, took)) \in Nat /\ IsFiniteSet(Fit(m, took))
    BY MixCoinsFinite
  <2>2. Cardinality(Conforming(m)) <= conf + Cardinality(Fit(m, took))
    BY <1>4, <1>7, <1>9
  <2>3. Cardinality(Conforming(m)) <= MaxConforming
    BY DEF CapInv
  <2>4. CASE Amount[c] = mixes[m].size
    <3>1. conf + Cardinality(Fit(m, took)) < MaxConforming
      BY <1>1, <1>4, <1>9, <2>4 DEF UnderCap
    <3>2. Conforming(m)' = Conforming(m) \cup {c} /\ c \notin Conforming(m)
      BY <1>3, <1>8, <1>9, <2>4 DEF Conforming, Fit
    <3>3. Fit(m, took \cup {c}) = Fit(m, took) \cup {c} /\ c \notin Fit(m, took)
      BY <1>7, <2>4 DEF Fit
    <3>4. Cardinality(Conforming(m)') = Cardinality(Conforming(m)) + 1
      BY <2>1, <3>2, FS_AddElement, Zenon
    <3>5. Cardinality(Fit(m, took \cup {c})) = Cardinality(Fit(m, took)) + 1
      BY <2>1, <3>3, FS_AddElement, Zenon
    <3> QED
      BY <2>1, <2>2, <3>1, <3>4, <3>5, IntakeAssumption
  <2>5. CASE Amount[c] # mixes[m].size
    <3>1. Conforming(m)' = Conforming(m) /\ Fit(m, took \cup {c}) = Fit(m, took)
      BY <1>3, <1>8, <1>9, <2>5 DEF Conforming, Fit
    <3> QED
      BY <2>2, <2>3, <3>1
  <2> QED
    BY <2>4, <2>5
<1>10. \A k \in Mixes : ~takes \/ k # m => Conforming(k)' = Conforming(k)
  BY <1>3, <1>8 DEF Conforming, Fit
<1>11. TakeInv'
  <2>1. Fit(m, took)' = Fit(m, took) /\ Fit(m, took \cup {c})' = Fit(m, took \cup {c})
    BY <1>3 DEF Fit
  <2>2. /\ hand'[u].took \cap hand'[u].coins = {}
        /\ Exists(r)' => rows'[r].mix = m
        /\ mixes'[m].st # "none"
    BY <1>3, <1>5, <1>7 DEF Exists
  <2>3. hand'[u].locked # "any" => hand'[u].type = hand'[u].locked
    BY <1>4, <1>5, <1>7
  <2>4. mixes'[m].st # "gone" =>
           /\ mixes'[m].type = hand'[u].locked
           /\ Cardinality(Conforming(m)') <= conf + Cardinality(Fit(m, hand'[u].took))
    BY <1>3, <1>5, <1>7, <1>9, <1>10
  <2>5. Fit(m, hand'[u].took) = Fit(m, hand[u].took)'
    BY <1>3 DEF Fit
  <2>6. Taking(u)'
    BY <1>5, <2>2, <2>3, <2>4, <2>5 DEF Taking, Exists
  <2> QED
    BY <1>6, <2>6 DEF TakeInv, Taking
<1>12. TypeInv'
  <2> SUFFICES ASSUME crashes = 0, NEW k \in Mixes, NEW d \in MixCoins(k)'
               PROVE  \/ mixes'[k].type = Kind[d]
                      \/ mixes'[k].type = "any" /\ Proposes(u, k, d)'
    BY <1>3 DEF TypeInv
  <2>1. CASE d \in MixCoins(k)
    <3>1. mixes[k].type = Kind[d] \/ (mixes[k].type = "any" /\ Proposes(u, k, d))
      BY <1>6, <2>1 DEF TypeInv, Proposes
    <3>2. Proposes(u, k, d) => Proposes(u, k, d)'
      <4> SUFFICES ASSUME Proposes(u, k, d)
                   PROVE  Proposes(u, k, d)'
        OBVIOUS
      <4>1. hand[u].type = Kind[d] /\ d \in took /\ m = k /\ hand[u].locked = "any"
        BY <1>1 DEF Proposes
      <4>2. d \in Coins /\ Kind[d] # "any"
        BY <4>1, IntakeAssumption
      <4>3. hand'[u].type = Kind[d]
        BY <1>4, <1>5, <4>1, <4>2
      <4> QED
        BY <1>5, <4>1, <4>3 DEF Proposes
    <3> QED
      BY <1>3, <3>1, <3>2
  <2>2. CASE d \notin MixCoins(k)
    <3>1. takes /\ k = m /\ d = c
      BY <1>8, <2>2
    <3>2. hand'[u].type = Kind[c] /\ c \in hand'[u].took /\ mixes[m].type = hand[u].locked
      <4>1. takes /\ fits /\ Exists(r)
        BY <1>4, <3>1
      <4>2. mixes[m].type = hand[u].locked
        BY <1>7, <4>1
      <4> QED
        BY <1>5, <4>1, <4>2
    <3>3. hand[u].locked # "any" => hand[u].locked = Kind[c]
      BY <1>4, <1>7, <3>1
    <3> QED
      BY <1>3, <1>5, <3>1, <3>2, <3>3 DEF Proposes
  <2> QED
    BY <2>1, <2>2
<1>13. CapInv'
  BY <1>9, <1>10 DEF CapInv
<1>14. FreshInv'
  BY <1>5, <1>6 DEF FreshInv, Fresh
<1>15. BotInv' /\ Counted' \subseteq Counted
  BY <1>2, <1>3, <1>5 DEF BotInv, Counted, Open
<1>16. \A b \in Actors : hand'[b].pc = "create" => hand[b].pc = "create"
  BY <1>5
<1> QED
  BY <1>11, <1>12, <1>13, <1>14, <1>15, <1>16, OpenKept

\* The type proposed becomes the type of the mix.
LEMMA RegisterLimits ==
  ASSUME RowInv, RowInv', LimitInv, NEW u \in Users, Register(u)
  PROVE  LimitInv'
<1> USE DEF LimitInv
<1>1. PICK m \in Mixes, r \in Ids : m = hand[u].mix /\ r = hand[u].row
  BY DEF RowInv, Typed, HandT, HandSet, Actors
<1>2. /\ hand[u] \in HandSet /\ hand[u].pc = "take" /\ hand[u] # Idle
      /\ u \in Actors /\ u # Bot /\ Bot \in Actors /\ Idle.pc = "idle"
  BY IntakeAssumption DEF RowInv, Typed, HandT, Register, At, Idle, Actors
<1>3. UNCHANGED <<coin, sweep, crashes>> /\ hand' = [hand EXCEPT ![u] = Idle]
  BY DEF Register, Done
<1>4. hand'[u] = Idle /\ \A b \in Actors : b # u => hand'[b] = hand[b]
  BY <1>2, <1>3 DEF RowInv, Typed, HandT
<1>5. \A v \in Users : hand'[v].pc = "idle"
  BY <1>2, <1>4, OthersIdle DEF Actors
<1>6. rows' = rows \/ (Exists(r) /\ rows' = [rows EXCEPT ![r].st = "committed"])
  BY <1>1 DEF Register
<1>7. Shrink
  <2>1. CASE rows' = rows
    BY <1>3, <2>1 DEF Shrink, Exists
  <2>2. CASE Exists(r) /\ rows' = [rows EXCEPT ![r].st = "committed"]
    <3>1. \A q \in Ids : rows'[q].mix = rows[q].mix /\ (q # r => rows'[q] = rows[q])
      BY <2>2 DEF RowInv, Typed, RowT, RowSet
    <3> QED
      BY <1>3, <2>2, <3>1 DEF Shrink, Exists
  <2> QED
    BY <1>6, <2>1, <2>2
<1>8. /\ \A k \in Mixes : k # m => mixes'[k] = mixes[k]
      /\ mixes'[m].st = mixes[m].st /\ mixes'[m].size = mixes[m].size
      /\ mixes'[m].reopens = mixes[m].reopens
      /\ mixes'[m].type = IF hand[u].took # {} /\ hand[u].locked = "any" /\ mixes[m].st # "gone"
                          THEN hand[u].type ELSE mixes[m].type
  <2>1. mixes' = IF hand[u].took # {} /\ hand[u].locked = "any" /\ mixes[m].st # "gone"
                 THEN [mixes EXCEPT ![m].type = hand[u].type] ELSE mixes
    BY <1>1 DEF Register
  <2> QED
    BY <2>1 DEF RowInv, Typed, MixT, MixSet
<1>9. SizesKept
  BY <1>8 DEF SizesKept
<1>10. TakeInv' /\ FreshInv'
  BY <1>5 DEF TakeInv, Taking, FreshInv, Fresh
<1>11. TypeInv'
  <2> SUFFICES ASSUME crashes = 0, NEW k \in Mixes, NEW c \in MixCoins(k)'
               PROVE  mixes'[k].type = Kind[c]
    BY <1>3 DEF TypeInv
  <2>1. c \in MixCoins(k) /\ c \in Coins /\ mixes[k].st # "gone" /\ Kind[c] # "any"
    BY <1>7, ShrinkCoins, CoinsInMix, IntakeAssumption
  <2>2. \/ mixes[k].type = Kind[c]
        \/ mixes[k].type = "any" /\ \E v \in Users : Proposes(v, k, c)
    BY <2>1 DEF TypeInv
  <2>3. \A v \in Users : Proposes(v, k, c) => v = u
    BY <1>2, OthersIdle DEF Proposes, Idle
  <2>4. CASE mixes[k].type = Kind[c]
    <3>1. k = m => hand[u].locked # "any"
      BY <1>1, <1>2, <2>1, <2>4 DEF TakeInv, Taking
    <3> QED
      BY <1>8, <2>4, <3>1
  <2>5. CASE Proposes(u, k, c)
    <3>1. k = m /\ hand[u].took # {} /\ hand[u].locked = "any" /\ hand[u].type = Kind[c]
      BY <1>1, <2>5 DEF Proposes
    <3> QED
      BY <1>8, <2>1, <3>1
  <2> QED
    BY <2>2, <2>3, <2>4, <2>5
<1>12. CapInv'
  BY <1>7, <1>9, CapKept
<1>13. BotInv' /\ Counted' \subseteq Counted
  BY <1>2, <1>4, <1>8 DEF BotInv, Counted, Open
<1>14. \A b \in Actors : hand'[b].pc = "create" => hand[b].pc = "create"
  BY <1>2, <1>4
<1> QED
  BY <1>10, <1>11, <1>12, <1>13, <1>14, OpenKept

LEMMA SettleLimits ==
  ASSUME RowInv, RowInv', LimitInv, NEW u \in Users, Settle(u)
  PROVE  LimitInv'
<1>1. Quiet /\ UNCHANGED <<coin, hand, sweep, crashes>>
  BY DEF Settle
<1>2. PICK r \in RowsOf(u) :
        /\ rows' = [rows EXCEPT ![r].st = "paid"]
        /\ mixes' = [mixes EXCEPT ![rows[r].mix].st = IF @ = "announced" THEN "collecting" ELSE @]
  BY DEF Settle
<1>3. Shrink
  <2>1. Exists(r) /\ r \in Ids
    BY DEF RowsOf
  <2>2. \A q \in Ids : rows'[q].mix = rows[q].mix /\ (q # r => rows'[q] = rows[q])
    BY <1>2 DEF RowInv, Typed, RowT, RowSet
  <2> QED
    BY <1>1, <2>1, <2>2 DEF Shrink, Exists
<1>4. \A k \in Mixes :
        /\ \/ mixes'[k].st = mixes[k].st
           \/ mixes[k].st = "announced" /\ mixes'[k].st = "collecting"
        /\ mixes'[k].size = mixes[k].size /\ mixes'[k].type = mixes[k].type
        /\ mixes'[k].reopens = mixes[k].reopens
  BY <1>2 DEF RowInv, Typed, MixT, MixSet
<1>5. MixesStay /\ SizesKept /\ TypesKept
  BY <1>4 DEF MixesStay, SizesKept, TypesKept
<1>6. Counted' \subseteq Counted
  BY <1>1, <1>4 DEF Counted, Open
<1> QED
  BY <1>1, <1>3, <1>5, <1>6, LoopLimits

LEMMA ReleaseShrinks ==
  ASSUME NEW R, Release(R)
  PROVE  Shrink
<1>1. \A r \in Ids : Exists(r)' => Exists(r) /\ rows'[r] = rows[r]
  BY DEF Release, Exists, Deleted, NoRow
<1>2. \A c \in Coins : coin'[c] \in Ids => coin'[c] = coin[c]
  BY Constants DEF Release
<1> QED
  BY <1>1, <1>2 DEF Shrink

\* Rows are released; the mixes stay as they are.
LEMMA ReleaseLimits ==
  ASSUME RowInv, RowInv', LimitInv, NEW R, Release(R), UNCHANGED <<mixes, hand, crashes>>
  PROVE  LimitInv'
<1>1. MixesStay /\ SizesKept /\ TypesKept
  BY DEF MixesStay, SizesKept, TypesKept
<1>2. Counted' \subseteq Counted
  BY DEF Counted, Open
<1> QED
  BY <1>1, <1>2, ReleaseShrinks, LoopLimits

LEMMA ProceedLimits ==
  ASSUME RowInv, RowInv', LimitInv, NEW m \in Mixes, Proceed(m)
  PROVE  LimitInv'
<1>1. /\ UNCHANGED <<rows, coin, hand, crashes>> /\ mixes[m].st = "collecting"
      /\ mixes' = [mixes EXCEPT ![m].st = "busy"]
  BY DEF Proceed
<1>2. /\ \A k \in Mixes : k # m => mixes'[k] = mixes[k]
      /\ mixes'[m].st = "busy" /\ mixes'[m].size = mixes[m].size
      /\ mixes'[m].type = mixes[m].type
  BY <1>1 DEF RowInv, Typed, MixT, MixSet
<1>3. Shrink
  BY <1>1 DEF Shrink, Exists
<1>4. MixesStay /\ SizesKept /\ TypesKept
  BY <1>1, <1>2 DEF MixesStay, SizesKept, TypesKept
<1>5. Counted' \subseteq Counted
  BY <1>1, <1>2 DEF Counted, Open
<1>6. \A k \in Mixes : mixes[k].st = "announced" => mixes'[k] = mixes[k]
  BY <1>1, <1>2
<1> QED
  BY <1>1, <1>3, <1>4, <1>5, <1>6, LoopLimits

\* A mix is gone.
LEMMA GoneLimits ==
  ASSUME RowInv, RowInv', LimitInv, NEW m \in Mixes, mixes[m].st \in {"collecting", "busy"},
         mixes' = [mixes EXCEPT ![m] = GoneMix], hand' = hand, crashes' = crashes, Shrink
  PROVE  LimitInv'
<1>1. /\ \A k \in Mixes : k # m => mixes'[k] = mixes[k]
      /\ mixes'[m].st = "gone"
  BY DEF RowInv, Typed, MixT, GoneMix, NoMix
<1>2. MixesStay /\ SizesKept /\ TypesKept
  <2>1. MixesStay
    BY <1>1 DEF MixesStay
  <2>2. \A k \in Mixes : mixes'[k].st # "gone" => k # m
    BY <1>1
  <2> QED
    BY <1>1, <2>1, <2>2 DEF SizesKept, TypesKept
<1>3. Counted' \subseteq Counted
  BY <1>1 DEF Counted, Open
<1>4. \A k \in Mixes : mixes[k].st = "announced" => mixes'[k] = mixes[k]
  BY <1>1
<1> QED
  BY <1>2, <1>3, <1>4, LoopLimits

LEMMA ConfirmLimits ==
  ASSUME RowInv, RowInv', LimitInv, NEW m \in Mixes, Confirm(m)
  PROVE  LimitInv'
<1>1. /\ UNCHANGED <<hand, crashes>> /\ mixes[m].st \in {"collecting", "busy"}
      /\ mixes' = [mixes EXCEPT ![m] = GoneMix]
      /\ rows' = [r \in Ids |-> IF r \in RowsIn(m) THEN Deleted ELSE rows[r]]
      /\ \A c \in Coins : coin'[c] = IF coin[c] \in Ready(m) THEN Spent
                                     ELSE IF coin[c] \in RowsIn(m) THEN Free ELSE coin[c]
  BY DEF Confirm
<1>2. \A r \in Ids : Exists(r)' => Exists(r) /\ rows'[r] = rows[r]
  BY <1>1 DEF Exists, Deleted, NoRow
<1>3. \A c \in Coins : coin'[c] \in Ids => coin'[c] = coin[c]
  BY <1>1, Constants
<1>4. Shrink
  BY <1>2, <1>3 DEF Shrink
<1> QED
  BY <1>1, <1>4, GoneLimits

LEMMA ReopenLimits ==
  ASSUME RowInv, RowInv', LimitInv, NEW m \in Mixes, Reopen(m)
  PROVE  LimitInv'
<1>1. /\ UNCHANGED <<hand, crashes>> /\ mixes[m].st = "busy"
      /\ mixes' = [mixes EXCEPT ![m].st = "collecting", ![m].reopens = @ + 1]
  BY DEF Reopen
<1>2. PICK r : Release({r})
  BY DEF Reopen
<1>3. /\ \A k \in Mixes : k # m => mixes'[k] = mixes[k]
      /\ mixes'[m].st = "collecting" /\ mixes'[m].size = mixes[m].size
      /\ mixes'[m].type = mixes[m].type /\ mixes'[m].reopens = mixes[m].reopens + 1
      /\ mixes[m].reopens \in Nat
  BY <1>1, IntakeAssumption DEF RowInv, Typed, MixT, MixSet
<1>4. MixesStay /\ SizesKept /\ TypesKept
  BY <1>1, <1>3 DEF MixesStay, SizesKept, TypesKept
<1>5. Counted' \subseteq Counted
  <2>1. mixes'[m].reopens # 0
    BY <1>3
  <2> QED
    BY <1>1, <1>3, <2>1 DEF Counted, Open
<1>6. \A k \in Mixes : mixes[k].st = "announced" => mixes'[k] = mixes[k]
  BY <1>1, <1>3
<1> QED
  BY <1>1, <1>2, <1>4, <1>5, <1>6, ReleaseShrinks, LoopLimits

LEMMA CrashLimits ==
  ASSUME RowInv, RowInv', LimitInv, Crash
  PROVE  LimitInv'
<1> USE DEF LimitInv
<1>1. /\ UNCHANGED <<mixes, rows, coin>> /\ hand' = [a \in Actors |-> Idle]
      /\ crashes' = crashes + 1 /\ crashes \in Nat
  BY IntakeAssumption DEF Crash, RowInv, Typed, RestT
<1>2. Bot \in Actors /\ \A a \in Actors : hand'[a].pc = "idle" /\ hand'[a].type = "any"
  BY <1>1 DEF Idle, Actors
<1>3. TakeInv' /\ FreshInv' /\ BotInv'
  BY <1>2 DEF TakeInv, Taking, FreshInv, Fresh, BotInv, Actors
<1>4. TypeInv'
  BY <1>1 DEF TypeInv
<1>5. CapInv'
  <2>1. Shrink /\ SizesKept
    BY <1>1 DEF Shrink, SizesKept, Exists
  <2> QED
    BY <2>1, CapKept
<1>6. Counted' \subseteq Counted
  BY <1>1, <1>2 DEF Counted, Open
<1>7. OpenInv'
  BY <1>2, <1>6, OpenKept
<1> QED
  BY <1>3, <1>4, <1>5, <1>7

-----------------------------------------------------------------------------
LEMMA InitLimits == Init => LimitInv
<1> SUFFICES ASSUME Init
             PROVE  LimitInv
  OBVIOUS
<1>1. \A m \in Mixes : RowsIn(m) = {} /\ MixCoins(m) = {}
  BY DEF Init, RowsIn, MixCoins, Held, Exists, NoRow
<1>2. \A a \in Actors : hand[a] = Idle /\ Idle.pc = "idle" /\ Idle.type = "any"
  BY DEF Init, Idle
<1>3. TakeInv /\ FreshInv /\ BotInv
  BY <1>2 DEF TakeInv, Taking, FreshInv, Fresh, BotInv, Actors
<1>4. TypeInv
  BY <1>1 DEF TypeInv
<1>5. CapInv
  <2>1. \A m \in Mixes : Conforming(m) = {}
    BY <1>1 DEF Conforming, Fit
  <2>2. Cardinality({}) = 0 /\ MaxConforming \in Nat
    BY FS_EmptySet, IntakeAssumption
  <2>3. \A m \in Mixes : Cardinality(Conforming(m)) = 0
    BY <2>1, <2>2, Zenon
  <2> QED
    BY <2>2, <2>3 DEF CapInv
<1>6. OpenInv
  <2>1. Counted = {}
    BY <1>2 DEF Init, Counted, Open, NoMix, Actors
  <2>2. ~UserCreates /\ hand[Bot].pc # "create"
    BY <1>2 DEF UserCreates, Actors
  <2> QED
    BY <2>1, <2>2, FS_EmptySet, IntakeAssumption DEF OpenInv
<1> QED
  BY <1>3, <1>4, <1>5, <1>6 DEF LimitInv

LEMMA NextLimits == RowInv /\ LimitInv /\ [Next]_vars => LimitInv'
<1> SUFFICES ASSUME RowInv, LimitInv, [Next]_vars
             PROVE  LimitInv'
  OBVIOUS
<1>1. RowInv'
  BY NextRowInv
<1>2. CASE Crash
  BY <1>1, <1>2, CrashLimits
<1>3. CASE \E a \in Actors : OpenDefault(a) \/ Create(a) \/ OpenMix(a)
  BY <1>1, <1>3, OpenDefaultLimits, CreateLimits, OpenMixLimits
<1>4. ASSUME NEW u \in Users, Leave(u)
      PROVE  LimitInv'
  <2>1. PICK r : Release({r}) /\ UNCHANGED <<mixes, hand, crashes>>
    BY <1>4 DEF Leave
  <2> QED
    BY <1>1, <2>1, ReleaseLimits
<1>5. ASSUME NEW u \in Users,
             \/ \E m \in Mixes : JoinName(u, m)
             \/ \E s \in Sizes : JoinSize(u, s)
             \/ \E C \in SUBSET Coins : Paste(u, C)
             \/ \E c \in Coins : Take(u, c)
             \/ Enter(u) \/ Place(u) \/ Register(u) \/ Settle(u) \/ Leave(u)
      PROVE  LimitInv'
  BY <1>1, <1>4, <1>5, JoinNameLimits, JoinSizeLimits, PasteLimits, TakeLimits, EnterLimits,
     PlaceLimits, RegisterLimits, SettleLimits
<1>6. CASE \E m \in Mixes : Proceed(m) \/ Cancel(m) \/ Confirm(m) \/ Reopen(m)
  <2>1. ASSUME NEW m \in Mixes, Cancel(m)
        PROVE  LimitInv'
    <3>1. /\ UNCHANGED <<hand, crashes>> /\ mixes[m].st \in {"collecting", "busy"}
          /\ mixes' = [mixes EXCEPT ![m] = GoneMix] /\ Release(RowsIn(m))
      BY <2>1 DEF Cancel
    <3> QED
      BY <1>1, <3>1, ReleaseShrinks, GoneLimits
  <2> QED
    BY <1>1, <1>6, <2>1, ProceedLimits, ConfirmLimits, ReopenLimits
<1>7. CASE \E r \in Ids : Sweep(r) \/ PayTimeout(r)
  <2>1. ASSUME NEW r \in Ids, Release({r}), PayTimeout(r) \/ Sweep(r)
        PROVE  LimitInv'
    <3>1. UNCHANGED <<mixes, hand, crashes>>
      BY <2>1 DEF PayTimeout, Sweep
    <3> QED
      BY <1>1, <2>1, <3>1, ReleaseLimits
  <2>2. ASSUME NEW r \in Ids, Sweep(r), UNCHANGED <<rows, coin>>
        PROVE  LimitInv'
    <3>1. UNCHANGED <<mixes, rows, coin, hand, crashes>>
      BY <2>2 DEF Sweep
    <3>2. Shrink /\ MixesStay /\ SizesKept /\ TypesKept
      BY <3>1 DEF Shrink, MixesStay, SizesKept, TypesKept, Exists
    <3>3. Counted' \subseteq Counted
      BY <3>1 DEF Counted, Open
    <3> QED
      BY <1>1, <3>1, <3>2, <3>3, LoopLimits
  <2> QED
    BY <1>7, <2>1, <2>2 DEF Sweep, PayTimeout
<1>8. CASE UNCHANGED vars
  <2>1. UNCHANGED <<mixes, rows, coin, hand, crashes>>
    BY <1>8 DEF vars
  <2>2. Shrink /\ MixesStay /\ SizesKept /\ TypesKept
    BY <2>1 DEF Shrink, MixesStay, SizesKept, TypesKept, Exists
  <2>3. Counted' \subseteq Counted
    BY <2>1 DEF Counted, Open
  <2> QED
    BY <1>1, <2>1, <2>2, <2>3, LoopLimits
<1> QED
  BY <1>2, <1>3, <1>5, <1>6, <1>7, <1>8 DEF Next

LEMMA InvLimits ==
  ASSUME RowInv, LimitInv
  PROVE  LimitsHold
<1> USE DEF LimitInv
<1>1. ConformingCapped
  BY DEF CapInv, ConformingCapped, Conforming, MixCoins
<1>2. OneType
  <2> SUFFICES ASSUME crashes = 0, NEW m \in Mixes, NEW c \in MixCoins(m), NEW d \in MixCoins(m)
               PROVE  Kind[c] = Kind[d]
    BY DEF OneType, MixCoins
  <2>1. Kind[c] # "any" /\ Kind[d] # "any"
    BY CoinsInMix, IntakeAssumption
  <2>2. CASE mixes[m].type # "any"
    BY <2>2 DEF TypeInv
  <2>3. CASE mixes[m].type = "any"
    <3>1. PICK u \in Users, v \in Users : Proposes(u, m, c) /\ Proposes(v, m, d)
      BY <2>1, <2>3 DEF TypeInv
    <3>2. u = v
      BY <3>1 DEF Proposes, RowInv, Serial, Idle
    <3> QED
      BY <3>1, <3>2 DEF Proposes
  <2> QED
    BY <2>2, <2>3
<1>3. OpenBounded
  <2>1. {m \in Open : mixes[m].reopens = 0} \subseteq Counted
    BY DEF Counted, Open
  <2>2. {m \in Open : mixes[m].reopens = 0} \in SUBSET Mixes
    BY DEF Open
  <2>3. Cardinality({m \in Open : mixes[m].reopens = 0}) <= Cardinality(Counted)
    BY <2>1, CountedFinite, FS_Subset
  <2> QED
    BY <2>2, <2>3, CountedFinite, MixesFinite, IntakeAssumption DEF OpenInv, OpenBounded
<1> QED
  BY <1>1, <1>2, <1>3 DEF LimitsHold

\* Not more conforming coins than the mix takes, all of one type while no crash cuts
\* a commit short, and not more open mixes than allowed but for one that came in
\* between a test and its creation.
THEOREM LimitsKept == Spec => []LimitsHold
<1>1. Spec => []LimitInv
  BY InitLimits, NextLimits, SpecRowInv, PTL DEF Spec
<1>2. RowInv /\ LimitInv => LimitsHold
  BY InvLimits
<1> QED
  BY <1>1, <1>2, SpecRowInv, PTL

=============================================================================
