--------------------------- MODULE Signing_proofs ---------------------------
(***************************************************************************)
(* Proofs about Signing, for any number of participants, recoveries,       *)
(* failed messages and crashes: the type invariant and the phases, then    *)
(* what comes back of each skeleton, then who is reminded, and how often.  *)
(***************************************************************************)
EXTENDS Signing, FiniteSetTheorems, TLAPS

\* TypeOK in parts.
Rows == [st : {"paid", "signing", "signed", "ghosted"}, outs : BOOLEAN, count : 0..3]
Pcs == {"idle", "send", "deliver", "mark", "sign", "count", "blacklist", "recover", "reset"}
MixT == mix \in [st : {"assembling", "signing", "collecting", "broadcast", "cancelled"},
                 retries : 0..MaxGhostRetries]
RowT == row \in [Participants -> Rows]
RoundT == round \in [Participants -> [Numbers -> [sent : Skeletons, ret : Skeletons]]]
LoopT == loop \in [pc : Pcs, todo : SUBSET Participants, cur : SUBSET Participants,
                   age : 0..4, counts : [Participants -> 0..3]]
HandT == hand \in [pc : {"idle", "store", "mark"}, who : SUBSET Participants,
                   num : Numbers, psbt : Skeletons]
TimeT == age \in 0..4 /\ down \in 0..Up /\ ticked \in BOOLEAN
SentT == nskel \in Skeletons /\ got \in [Participants -> Skeletons]
FaultT == lost \subseteq Vanishing /\ fails \in 0..MaxFaults /\ crashes \in 0..MaxFaults
WarnT == warned \in [Participants -> SUBSET (1..3)] /\ dms \in [Participants -> Nat]
SetT == blacklist \subseteq Participants /\ punctual \subseteq Participants /\ late \subseteq Participants
Typed == /\ MixT /\ RowT /\ RoundT /\ LoopT /\ HandT
         /\ TimeT /\ SentT /\ FaultT /\ WarnT /\ SetT

LEMMA TypedIsTypeOK == Typed <=> TypeOK
  BY DEF Typed, TypeOK, MixT, RowT, RoundT, LoopT, HandT, TimeT, SentT, FaultT, WarnT, SetT,
     Rows, Pcs

\* The mix the loop is working on is in the phase the loop found it in.
PhaseOK ==
  /\ loop.pc \in {"send", "deliver", "mark"} => mix.st = "assembling"
  /\ loop.pc \in {"sign", "count", "blacklist", "recover", "reset"} => mix.st = "signing"
  /\ loop.pc \in {"recover", "reset"} => mix.retries < MaxGhostRetries

\* Nothing is in hand while the process is down, and no band passes in a tick.
ClockOK ==
  /\ down # Up => loop = NoLoop
  /\ loop.pc \in {"sign", "count", "blacklist"} => loop.age = age
  /\ loop.pc = "count" => loop.age < 4
  /\ loop.pc = "blacklist" => loop.age = 4

\* A tick that ghosts has no punctual signer among its rows.
SparingOK ==
  /\ \A p \in punctual : row[p].st \in {"signed", "paid"}
  /\ loop.pc \in {"sign", "count", "blacklist"} =>
       \A p \in punctual \cap loop.todo : loop.age < 4
  /\ loop.pc = "blacklist" => loop.cur \cap punctual = {}

\* Whoever still counts as a signer in a recovery is yet to start over.
RecoveryOK ==
  /\ loop.pc = "recover" => loop.cur = {}
  /\ \A p, q \in loop.cur : p = q
  /\ loop.pc \in {"recover", "reset"} =>
       In({"signing", "signed"}) \subseteq loop.todo \cup loop.cur \cup late
  /\ mix.st = "collecting" => In({"signing", "signed"}) \subseteq late

SigningInv == Typed /\ PhaseOK /\ ClockOK /\ SparingOK /\ RecoveryOK

LEMMA TimePassesKeeps ==
  ASSUME SigningInv, TimePasses
  PROVE  SigningInv'
<1> USE DEF SigningInv, Typed, TimePasses, At, db, history, outside
<1>1. MixT' /\ RowT' /\ RoundT' /\ LoopT' /\ HandT' /\ SentT' /\ FaultT' /\ WarnT' /\ SetT'
  BY DEF MixT, RowT, RoundT, LoopT, HandT, SentT, FaultT, WarnT, SetT
<1>2. TimeT'
  <2>1. age' \in 0..4
    BY DEF TimeT
  <2>2. CASE down' = down
    BY <2>1, <2>2 DEF TimeT, Up
  <2>3. CASE down < MaxSkip /\ down' = down + 1
    <3>1. down' \in 0..Up
      BY <2>3, SigningAssumption DEF TimeT, Up
    <3> QED
      BY <2>1, <3>1 DEF TimeT, Up
  <2> QED
    BY <2>2, <2>3
<1>3. PhaseOK'
  BY DEF PhaseOK, NoLoop, RowT, Rows, LoopT, SetT, MixT, TimeT
<1>4. ClockOK'
  BY SigningAssumption DEF ClockOK, NoLoop, Up, TimeT
<1>5. SparingOK'
  BY DEF SparingOK, NoLoop, ClockOK, RowT, Rows, LoopT, SetT, MixT, TimeT
<1>6. RecoveryOK'
  BY DEF RecoveryOK, NoLoop, In, RowT, Rows, LoopT, SetT, MixT, TimeT
<1> QED
  BY <1>1, <1>2, <1>3, <1>4, <1>5, <1>6

LEMMA CrashKeeps ==
  ASSUME SigningInv, Crash
  PROVE  SigningInv'
<1> USE DEF SigningInv, Typed, Crash, At, db, history, outside
<1>1. MixT' /\ RowT' /\ RoundT' /\ SentT' /\ WarnT' /\ SetT'
  BY DEF MixT, RowT, RoundT, SentT, WarnT, SetT
<1>2. LoopT'
  BY SigningAssumption DEF LoopT, NoLoop, Pcs
<1>3. HandT'
  BY SigningAssumption DEF HandT, NoHand, Numbers, Skeletons, RoundNum, MixT
<1>4. TimeT'
  BY SigningAssumption DEF TimeT, Up
<1>5. FaultT'
  BY SigningAssumption DEF FaultT
<1>6. PhaseOK'
  BY DEF PhaseOK, NoLoop, RowT, Rows, LoopT, SetT, MixT, TimeT
<1>7. ClockOK'
  BY DEF ClockOK, NoLoop, Up, RowT, Rows, LoopT, SetT, MixT, TimeT
<1>8. SparingOK'
  BY DEF SparingOK, NoLoop, ClockOK, RowT, Rows, LoopT, SetT, MixT, TimeT
<1>9. RecoveryOK'
  BY DEF RecoveryOK, NoLoop, In, RowT, Rows, LoopT, SetT, MixT, TimeT
<1> QED
  BY <1>1, <1>2, <1>3, <1>4, <1>5, <1>6, <1>7, <1>8, <1>9

LEMMA RestartKeeps ==
  ASSUME SigningInv, Restart
  PROVE  SigningInv'
<1> USE DEF SigningInv, Typed, Restart, At, db, history, outside
<1>1. MixT' /\ RowT' /\ RoundT' /\ LoopT' /\ HandT' /\ SentT' /\ FaultT' /\ WarnT' /\ SetT'
  BY DEF MixT, RowT, RoundT, LoopT, HandT, SentT, FaultT, WarnT, SetT
<1>2. TimeT'
  BY SigningAssumption DEF TimeT, Up
<1>3. PhaseOK'
  BY DEF PhaseOK, NoLoop, RowT, Rows, LoopT, SetT, MixT, TimeT
<1>4. ClockOK'
  BY DEF ClockOK, NoLoop, Up, RowT, Rows, LoopT, SetT, MixT, TimeT
<1>5. SparingOK'
  BY DEF SparingOK, NoLoop, ClockOK, RowT, Rows, LoopT, SetT, MixT, TimeT
<1>6. RecoveryOK'
  BY DEF RecoveryOK, NoLoop, In, RowT, Rows, LoopT, SetT, MixT, TimeT
<1> QED
  BY <1>1, <1>2, <1>3, <1>4, <1>5, <1>6

LEMMA AssembleKeeps ==
  ASSUME SigningInv, Assemble
  PROVE  SigningInv'
<1> USE DEF SigningInv, Typed, Assemble, At, db, history, outside
<1>1. MixT' /\ RowT' /\ RoundT' /\ HandT' /\ TimeT' /\ FaultT' /\ WarnT' /\ SetT'
  BY DEF MixT, RowT, RoundT, HandT, TimeT, FaultT, WarnT, SetT
<1>2. LoopT'
  <2>1. [p \in Participants |-> 0] \in [Participants -> 0..3] /\ 0 \in 0..4
    OBVIOUS
  <2>2. In({"paid", "signing", "signed"}) \subseteq Participants
    BY DEF In
  <2> QED
    BY <2>1, <2>2 DEF LoopT, NoLoop, Pcs
<1>3. SentT'
  BY SigningAssumption DEF SentT, Skeletons
<1>4. PhaseOK'
  BY DEF PhaseOK, NoLoop, RowT, Rows, LoopT, SetT, MixT, TimeT
<1>5. ClockOK'
  BY DEF ClockOK, NoLoop, Up, RowT, Rows, LoopT, SetT, MixT, TimeT
<1>6. SparingOK'
  BY DEF SparingOK, NoLoop, ClockOK, RowT, Rows, LoopT, SetT, MixT, TimeT
<1>7. RecoveryOK'
  BY DEF RecoveryOK, NoLoop, In, RowT, Rows, LoopT, SetT, MixT, TimeT
<1> QED
  BY <1>1, <1>2, <1>3, <1>4, <1>5, <1>6, <1>7

LEMMA BeginSigningKeeps ==
  ASSUME SigningInv, BeginSigning
  PROVE  SigningInv'
<1> USE DEF SigningInv, Typed, BeginSigning, At, db, history, outside
<1>1. RowT' /\ RoundT' /\ HandT' /\ SentT' /\ FaultT' /\ WarnT' /\ SetT'
  BY DEF RowT, RoundT, HandT, SentT, FaultT, WarnT, SetT
<1>2. MixT'
  BY SigningAssumption DEF MixT
<1>3. LoopT'
  BY SigningAssumption DEF LoopT, NoLoop, Pcs
<1>4. TimeT'
  BY SigningAssumption DEF TimeT, Up
<1>5. PhaseOK'
  BY DEF PhaseOK, NoLoop, RowT, Rows, LoopT, SetT, MixT, TimeT
<1>6. ClockOK'
  BY DEF ClockOK, NoLoop, Up, RowT, Rows, LoopT, SetT, MixT, TimeT
<1>7. SparingOK'
  BY DEF SparingOK, NoLoop, ClockOK, RowT, Rows, LoopT, SetT, MixT, TimeT
<1>8. RecoveryOK'
  BY DEF RecoveryOK, NoLoop, In, RowT, Rows, LoopT, SetT, MixT, TimeT
<1> QED
  BY <1>1, <1>2, <1>3, <1>4, <1>5, <1>6, <1>7, <1>8

LEMMA BeginTickKeeps ==
  ASSUME SigningInv, BeginTick
  PROVE  SigningInv'
<1> USE DEF SigningInv, Typed, BeginTick, At, db, history, outside
<1>1. MixT' /\ RowT' /\ RoundT' /\ HandT' /\ TimeT' /\ SentT' /\ FaultT' /\ WarnT' /\ SetT'
  BY DEF MixT, RowT, RoundT, HandT, TimeT, SentT, FaultT, WarnT, SetT
<1>2. LoopT'
  <2>1. [p \in Participants |-> row[p].count] \in [Participants -> 0..3]
    BY DEF RowT, Rows
  <2>2. Pending \subseteq Participants
    BY DEF Pending, In
  <2> QED
    BY <2>1, <2>2 DEF LoopT, TimeT, Pcs
<1>3. PhaseOK'
  BY DEF PhaseOK, NoLoop, RowT, Rows, LoopT, SetT, MixT, TimeT
<1>4. ClockOK'
  BY DEF ClockOK, NoLoop, Up, RowT, Rows, LoopT, SetT, MixT, TimeT
<1>5. SparingOK'
  <2>1. punctual \cap Pending = {}
    BY DEF SparingOK, Pending, In, SetT
  <2>2. loop'.todo = Pending /\ loop'.pc = "sign" /\ punctual' = punctual /\ row' = row
    OBVIOUS
  <2> QED
    BY <2>1, <2>2 DEF SparingOK
<1>6. RecoveryOK'
  BY DEF RecoveryOK, NoLoop, In, RowT, Rows, LoopT, SetT, MixT, TimeT
<1> QED
  BY <1>1, <1>2, <1>3, <1>4, <1>5, <1>6

LEMMA WaitKeeps ==
  ASSUME SigningInv, Wait
  PROVE  SigningInv'
<1> USE DEF SigningInv, Typed, Wait, At, db, history, outside
<1>1. MixT' /\ RowT' /\ RoundT' /\ HandT' /\ SentT' /\ FaultT' /\ WarnT' /\ SetT'
  BY DEF MixT, RowT, RoundT, HandT, SentT, FaultT, WarnT, SetT
<1>2. LoopT'
  BY SigningAssumption DEF LoopT, NoLoop, Pcs
<1>3. TimeT'
  BY SigningAssumption DEF TimeT, Up
<1>4. PhaseOK'
  BY DEF PhaseOK, NoLoop, RowT, Rows, LoopT, SetT, MixT, TimeT
<1>5. ClockOK'
  BY DEF ClockOK, NoLoop, Up, RowT, Rows, LoopT, SetT, MixT, TimeT
<1>6. SparingOK'
  BY DEF SparingOK, NoLoop, ClockOK, RowT, Rows, LoopT, SetT, MixT, TimeT
<1>7. RecoveryOK'
  BY DEF RecoveryOK, NoLoop, In, RowT, Rows, LoopT, SetT, MixT, TimeT
<1> QED
  BY <1>1, <1>2, <1>3, <1>4, <1>5, <1>6, <1>7

LEMMA CombineKeeps ==
  ASSUME SigningInv, Combine
  PROVE  SigningInv'
<1> USE DEF SigningInv, Typed, Combine, At, db, history, outside
<1>1. RowT' /\ RoundT' /\ HandT' /\ TimeT' /\ SentT' /\ FaultT' /\ WarnT' /\ SetT'
  BY DEF RowT, RoundT, HandT, TimeT, SentT, FaultT, WarnT, SetT
<1>2. MixT'
  BY SigningAssumption DEF MixT
<1>3. LoopT'
  BY SigningAssumption DEF LoopT, NoLoop, Pcs
<1>4. PhaseOK'
  BY DEF PhaseOK, NoLoop, RowT, Rows, LoopT, SetT, MixT, TimeT
<1>5. ClockOK'
  BY DEF ClockOK, NoLoop, Up, RowT, Rows, LoopT, SetT, MixT, TimeT
<1>6. SparingOK'
  BY DEF SparingOK, NoLoop, ClockOK, RowT, Rows, LoopT, SetT, MixT, TimeT
<1>7. RecoveryOK'
  BY DEF RecoveryOK, NoLoop, In, RowT, Rows, LoopT, SetT, MixT, TimeT
<1> QED
  BY <1>1, <1>2, <1>3, <1>4, <1>5, <1>6, <1>7

LEMMA TooManyGhostsKeeps ==
  ASSUME SigningInv, TooManyGhosts
  PROVE  SigningInv'
<1> USE DEF SigningInv, Typed, TooManyGhosts, At, db, history, outside
<1>1. RowT' /\ RoundT' /\ HandT' /\ TimeT' /\ SentT' /\ FaultT' /\ WarnT' /\ SetT'
  BY DEF RowT, RoundT, HandT, TimeT, SentT, FaultT, WarnT, SetT
<1>2. MixT'
  BY SigningAssumption DEF MixT
<1>3. LoopT'
  BY SigningAssumption DEF LoopT, NoLoop, Pcs
<1>4. PhaseOK'
  BY DEF PhaseOK, NoLoop, RowT, Rows, LoopT, SetT, MixT, TimeT
<1>5. ClockOK'
  BY DEF ClockOK, NoLoop, Up, RowT, Rows, LoopT, SetT, MixT, TimeT
<1>6. SparingOK'
  BY DEF SparingOK, NoLoop, ClockOK, RowT, Rows, LoopT, SetT, MixT, TimeT
<1>7. RecoveryOK'
  BY DEF RecoveryOK, NoLoop, In, RowT, Rows, LoopT, SetT, MixT, TimeT
<1> QED
  BY <1>1, <1>2, <1>3, <1>4, <1>5, <1>6, <1>7

LEMMA RecoverKeeps ==
  ASSUME SigningInv, Recover
  PROVE  SigningInv'
<1> USE DEF SigningInv, Typed, Recover, At, db, history, outside
<1>1. MixT' /\ RoundT' /\ HandT' /\ TimeT' /\ SentT' /\ FaultT' /\ WarnT' /\ SetT'
  BY DEF MixT, RoundT, HandT, TimeT, SentT, FaultT, WarnT, SetT
<1>2. RowT'
  BY SigningAssumption DEF RowT, Rows
<1>3. LoopT'
  <2>1. [p \in Participants |-> 0] \in [Participants -> 0..3] /\ 0 \in 0..4
    OBVIOUS
  <2>2. Remaining \subseteq Participants
    BY DEF Remaining, In
  <2> QED
    BY <2>1, <2>2 DEF LoopT, NoLoop, Pcs
<1>4. PhaseOK'
  BY DEF PhaseOK, NoLoop, RowT, Rows, LoopT, SetT, MixT, TimeT
<1>5. ClockOK'
  BY DEF ClockOK, NoLoop, Up, RowT, Rows, LoopT, SetT, MixT, TimeT
<1>6. SparingOK'
  BY DEF SparingOK, NoLoop, ClockOK, RowT, Rows, LoopT, SetT, MixT, TimeT
<1>7. RecoveryOK'
  <2>1. loop'.pc = "recover" /\ loop'.cur = {} /\ loop'.todo = Remaining
    BY DEF NoLoop
  <2>2. \A p \in Participants : row'[p].st = row[p].st
    BY DEF RowT, Rows
  <2>3. mix'.st = "signing"
    BY DEF PhaseOK
  <2>4. In({"signing", "signed"})' = Remaining
    BY <2>2 DEF In, Remaining
  <2> QED
    BY <2>1, <2>3, <2>4 DEF RecoveryOK
<1> QED
  BY <1>1, <1>2, <1>3, <1>4, <1>5, <1>6, <1>7

LEMMA ReopenKeeps ==
  ASSUME SigningInv, Reopen
  PROVE  SigningInv'
<1> USE DEF SigningInv, Typed, Reopen, At, db, history, outside
<1>1. RowT' /\ RoundT' /\ HandT' /\ TimeT' /\ SentT' /\ FaultT' /\ WarnT' /\ SetT'
  BY DEF RowT, RoundT, HandT, TimeT, SentT, FaultT, WarnT, SetT
<1>2. MixT'
  <2>1. mix.retries < MaxGhostRetries
    BY DEF PhaseOK
  <2> QED
    BY <2>1, SigningAssumption DEF MixT
<1>3. LoopT'
  BY SigningAssumption DEF LoopT, NoLoop, Pcs
<1>4. PhaseOK'
  BY DEF PhaseOK, NoLoop, RowT, Rows, LoopT, SetT, MixT, TimeT
<1>5. ClockOK'
  BY DEF ClockOK, NoLoop, Up, RowT, Rows, LoopT, SetT, MixT, TimeT
<1>6. SparingOK'
  BY DEF SparingOK, NoLoop, ClockOK, RowT, Rows, LoopT, SetT, MixT, TimeT
<1>7. RecoveryOK'
  BY DEF RecoveryOK, NoLoop, In, RowT, Rows, LoopT, SetT, MixT, TimeT
<1> QED
  BY <1>1, <1>2, <1>3, <1>4, <1>5, <1>6, <1>7

LEMMA AdvanceKeeps ==
  ASSUME SigningInv, Advance
  PROVE  SigningInv'
<1> USE DEF SigningInv, Typed, Advance, At, db, history, outside
<1>1. RowT' /\ RoundT' /\ LoopT' /\ HandT' /\ TimeT' /\ SentT' /\ FaultT' /\ WarnT' /\ SetT'
  BY DEF RowT, RoundT, LoopT, HandT, TimeT, SentT, FaultT, WarnT, SetT
<1>2. MixT'
  BY SigningAssumption DEF MixT
<1>3. PhaseOK'
  BY DEF PhaseOK, NoLoop, RowT, Rows, LoopT, SetT, MixT, TimeT
<1>4. ClockOK'
  BY DEF ClockOK, NoLoop, Up, RowT, Rows, LoopT, SetT, MixT, TimeT
<1>5. SparingOK'
  BY DEF SparingOK, NoLoop, ClockOK, RowT, Rows, LoopT, SetT, MixT, TimeT
<1>6. RecoveryOK'
  BY DEF RecoveryOK, NoLoop, In, RowT, Rows, LoopT, SetT, MixT, TimeT
<1> QED
  BY <1>1, <1>2, <1>3, <1>4, <1>5, <1>6

LEMMA SendFailsKeeps ==
  ASSUME SigningInv, NEW p \in Participants, SendFails(p)
  PROVE  SigningInv'
<1> USE DEF SigningInv, Typed, SendFails, At, db, history, outside
<1>1. MixT' /\ RowT' /\ RoundT' /\ HandT' /\ SentT' /\ WarnT' /\ SetT'
  BY DEF MixT, RowT, RoundT, HandT, SentT, WarnT, SetT
<1>2. LoopT'
  BY SigningAssumption DEF LoopT, NoLoop, Pcs
<1>3. TimeT'
  BY SigningAssumption DEF TimeT, Up
<1>4. FaultT'
  BY SigningAssumption DEF FaultT
<1>5. PhaseOK'
  BY DEF PhaseOK, NoLoop, RowT, Rows, LoopT, SetT, MixT, TimeT
<1>6. ClockOK'
  BY DEF ClockOK, NoLoop, Up, RowT, Rows, LoopT, SetT, MixT, TimeT
<1>7. SparingOK'
  BY DEF SparingOK, NoLoop, ClockOK, RowT, Rows, LoopT, SetT, MixT, TimeT
<1>8. RecoveryOK'
  BY DEF RecoveryOK, NoLoop, In, RowT, Rows, LoopT, SetT, MixT, TimeT
<1> QED
  BY <1>1, <1>2, <1>3, <1>4, <1>5, <1>6, <1>7, <1>8

LEMMA VanishKeeps ==
  ASSUME SigningInv, NEW p \in Participants, Vanish(p)
  PROVE  SigningInv'
<1> USE DEF SigningInv, Typed, Vanish, At, db, history, outside
<1>1. MixT' /\ RowT' /\ RoundT' /\ LoopT' /\ HandT' /\ TimeT' /\ SentT' /\ WarnT' /\ SetT'
  BY DEF MixT, RowT, RoundT, LoopT, HandT, TimeT, SentT, WarnT, SetT
<1>2. FaultT'
  BY SigningAssumption DEF FaultT
<1>3. PhaseOK'
  BY DEF PhaseOK, NoLoop, RowT, Rows, LoopT, SetT, MixT, TimeT
<1>4. ClockOK'
  BY DEF ClockOK, NoLoop, Up, RowT, Rows, LoopT, SetT, MixT, TimeT
<1>5. SparingOK'
  BY DEF SparingOK, NoLoop, ClockOK, RowT, Rows, LoopT, SetT, MixT, TimeT
<1>6. RecoveryOK'
  BY DEF RecoveryOK, NoLoop, In, RowT, Rows, LoopT, SetT, MixT, TimeT
<1> QED
  BY <1>1, <1>2, <1>3, <1>4, <1>5, <1>6

LEMMA ReceiveKeeps ==
  ASSUME SigningInv, NEW p \in Participants, Receive(p)
  PROVE  SigningInv'
<1> USE DEF SigningInv, Typed, Receive, At, db, history, outside
<1>1. MixT' /\ RowT' /\ RoundT' /\ LoopT' /\ TimeT' /\ SentT' /\ FaultT' /\ WarnT' /\ SetT'
  BY DEF MixT, RowT, RoundT, LoopT, TimeT, SentT, FaultT, WarnT, SetT
<1>2. HandT'
  <2>1. RoundNum \in Numbers
    BY SigningAssumption DEF RoundNum, Numbers, MixT
  <2>2. got[p] \in Skeletons
    BY DEF SentT
  <2> QED
    BY <2>1, <2>2 DEF HandT
<1>3. PhaseOK'
  BY DEF PhaseOK, NoLoop, RowT, Rows, LoopT, SetT, MixT, TimeT
<1>4. ClockOK'
  BY DEF ClockOK, NoLoop, Up, RowT, Rows, LoopT, SetT, MixT, TimeT
<1>5. SparingOK'
  BY DEF SparingOK, NoLoop, ClockOK, RowT, Rows, LoopT, SetT, MixT, TimeT
<1>6. RecoveryOK'
  BY DEF RecoveryOK, NoLoop, In, RowT, Rows, LoopT, SetT, MixT, TimeT
<1> QED
  BY <1>1, <1>2, <1>3, <1>4, <1>5, <1>6

LEMMA StoreKeeps ==
  ASSUME SigningInv, NEW p \in Participants, Store(p)
  PROVE  SigningInv'
<1> USE DEF SigningInv, Typed, Store, At, db, history, outside
<1>1. MixT' /\ RowT' /\ LoopT' /\ TimeT' /\ SentT' /\ FaultT' /\ WarnT' /\ SetT'
  BY DEF MixT, RowT, LoopT, TimeT, SentT, FaultT, WarnT, SetT
<1>2. RoundT'
  <2>1. hand.num \in Numbers /\ hand.psbt \in Skeletons
    BY DEF HandT
  <2>2. round[p] \in [Numbers -> [sent : Skeletons, ret : Skeletons]]
    BY DEF RoundT
  <2>3. [round[p][hand.num] EXCEPT !.ret = hand.psbt] \in [sent : Skeletons, ret : Skeletons]
    BY <2>1, <2>2
  <2>4. [round[p] EXCEPT ![hand.num] = [@ EXCEPT !.ret = hand.psbt]]
          \in [Numbers -> [sent : Skeletons, ret : Skeletons]]
    BY <2>1, <2>2, <2>3
  <2> QED
    BY <2>1, <2>4 DEF RoundT
<1>3. HandT'
  BY SigningAssumption DEF HandT, NoHand, Numbers, Skeletons, RoundNum, MixT
<1>4. PhaseOK'
  BY DEF PhaseOK, NoLoop, RowT, Rows, LoopT, SetT, MixT, TimeT
<1>5. ClockOK'
  BY DEF ClockOK, NoLoop, Up, RowT, Rows, LoopT, SetT, MixT, TimeT
<1>6. SparingOK'
  BY DEF SparingOK, NoLoop, ClockOK, RowT, Rows, LoopT, SetT, MixT, TimeT
<1>7. RecoveryOK'
  BY DEF RecoveryOK, NoLoop, In, RowT, Rows, LoopT, SetT, MixT, TimeT
<1> QED
  BY <1>1, <1>2, <1>3, <1>4, <1>5, <1>6, <1>7

LEMMA AcceptKeeps ==
  ASSUME SigningInv, NEW p \in Participants, Accept(p)
  PROVE  SigningInv'
<1> USE DEF SigningInv, Typed, Accept, At, db, history, outside
<1>1. MixT' /\ RoundT' /\ LoopT' /\ TimeT' /\ SentT' /\ FaultT' /\ WarnT'
  BY DEF MixT, RoundT, LoopT, TimeT, SentT, FaultT, WarnT
<1>2. RowT'
  BY SigningAssumption DEF RowT, Rows
<1>3. HandT'
  BY SigningAssumption DEF HandT, NoHand, Numbers, Skeletons, RoundNum, MixT
<1>4. SetT'
  BY SigningAssumption DEF SetT
<1>5. PhaseOK'
  BY DEF PhaseOK, NoLoop, RowT, Rows, LoopT, SetT, MixT, TimeT
<1>6. ClockOK'
  BY DEF ClockOK, NoLoop, Up, RowT, Rows, LoopT, SetT, MixT, TimeT
<1>7. SparingOK'
  BY DEF SparingOK, NoLoop, ClockOK, RowT, Rows, LoopT, SetT, MixT, TimeT
<1>8. RecoveryOK'
  BY DEF RecoveryOK, NoLoop, In, RowT, Rows, LoopT, SetT, MixT, TimeT
<1> QED
  BY <1>1, <1>2, <1>3, <1>4, <1>5, <1>6, <1>7, <1>8

LEMMA ReaddressKeeps ==
  ASSUME SigningInv, NEW p \in Participants, Readdress(p)
  PROVE  SigningInv'
<1> USE DEF SigningInv, Typed, Readdress, At, db, history, outside
<1>1. MixT' /\ RoundT' /\ LoopT' /\ HandT' /\ TimeT' /\ SentT' /\ FaultT' /\ WarnT' /\ SetT'
  BY DEF MixT, RoundT, LoopT, HandT, TimeT, SentT, FaultT, WarnT, SetT
<1>2. RowT'
  BY SigningAssumption DEF RowT, Rows
<1>3. PhaseOK'
  BY DEF PhaseOK, NoLoop, RowT, Rows, LoopT, SetT, MixT, TimeT
<1>4. ClockOK'
  BY DEF ClockOK, NoLoop, Up, RowT, Rows, LoopT, SetT, MixT, TimeT
<1>5. SparingOK'
  BY DEF SparingOK, NoLoop, ClockOK, RowT, Rows, LoopT, SetT, MixT, TimeT
<1>6. RecoveryOK'
  BY DEF RecoveryOK, NoLoop, In, RowT, Rows, LoopT, SetT, MixT, TimeT
<1> QED
  BY <1>1, <1>2, <1>3, <1>4, <1>5, <1>6

LEMMA RecordKeeps ==
  ASSUME SigningInv, NEW p \in Participants, Record(p)
  PROVE  SigningInv'
<1> USE DEF SigningInv, Typed, Record, At, db, history, outside
<1>1. MixT' /\ RowT' /\ HandT' /\ TimeT' /\ SentT' /\ FaultT' /\ WarnT' /\ SetT'
  BY DEF MixT, RowT, HandT, TimeT, SentT, FaultT, WarnT, SetT
<1>2. RoundT'
  <2>1. RoundNum \in Numbers
    BY SigningAssumption DEF RoundNum, Numbers, MixT
  <2>2. [sent |-> nskel, ret |-> 0] \in [sent : Skeletons, ret : Skeletons]
    BY SigningAssumption DEF SentT, Skeletons
  <2>3. round[p] \in [Numbers -> [sent : Skeletons, ret : Skeletons]]
    BY DEF RoundT
  <2>4. [round[p] EXCEPT ![RoundNum] = [sent |-> nskel, ret |-> 0]]
          \in [Numbers -> [sent : Skeletons, ret : Skeletons]]
    BY <2>1, <2>2, <2>3
  <2> QED
    BY <2>4 DEF RoundT
<1>3. LoopT'
  BY SigningAssumption DEF LoopT, NoLoop, Pcs
<1>4. PhaseOK'
  BY DEF PhaseOK, NoLoop, RowT, Rows, LoopT, SetT, MixT, TimeT
<1>5. ClockOK'
  BY DEF ClockOK, NoLoop, Up, RowT, Rows, LoopT, SetT, MixT, TimeT
<1>6. SparingOK'
  BY DEF SparingOK, NoLoop, ClockOK, RowT, Rows, LoopT, SetT, MixT, TimeT
<1>7. RecoveryOK'
  BY DEF RecoveryOK, NoLoop, In, RowT, Rows, LoopT, SetT, MixT, TimeT
<1> QED
  BY <1>1, <1>2, <1>3, <1>4, <1>5, <1>6, <1>7

LEMMA DeliverKeeps ==
  ASSUME SigningInv, NEW p \in Participants, Deliver(p)
  PROVE  SigningInv'
<1> USE DEF SigningInv, Typed, At, db, history, outside
<1>1. CASE SendFails(p)
  BY <1>1, SendFailsKeeps
<1>2. CASE /\ p \notin lost
              /\ At("deliver") /\ p \in loop.cur
              /\ got' = [got EXCEPT ![p] = nskel]
              /\ loop' = [loop EXCEPT !.pc = "mark"]
              /\ UNCHANGED <<db, nskel, hand, ticked, fails, outside, history>>
  <2>1. MixT' /\ RowT' /\ RoundT' /\ HandT' /\ TimeT' /\ FaultT' /\ WarnT' /\ SetT'
    BY <1>2 DEF MixT, RowT, RoundT, HandT, TimeT, FaultT, WarnT, SetT
  <2>2. LoopT'
    BY <1>2 DEF LoopT, Pcs
  <2>3. SentT'
    BY <1>2 DEF SentT
  <2>4. PhaseOK'
    BY <1>2 DEF PhaseOK, NoLoop, RowT, Rows, LoopT, SetT, MixT, TimeT, Deliver
  <2>5. ClockOK'
    BY <1>2 DEF ClockOK, NoLoop, Up, RowT, Rows, LoopT, SetT, MixT, TimeT, Deliver
  <2>6. SparingOK'
    BY <1>2 DEF SparingOK, NoLoop, ClockOK, RowT, Rows, LoopT, SetT, MixT, TimeT, Deliver
  <2>7. RecoveryOK'
    BY <1>2 DEF RecoveryOK, NoLoop, In, RowT, Rows, LoopT, SetT, MixT, TimeT, Deliver
  <2> QED
    BY <2>1, <2>2, <2>3, <2>4, <2>5, <2>6, <2>7
<1> QED
  BY <1>1, <1>2 DEF Deliver

LEMMA MarkSigningKeeps ==
  ASSUME SigningInv, NEW p \in Participants, MarkSigning(p)
  PROVE  SigningInv'
<1> USE DEF SigningInv, Typed, MarkSigning, At, db, history, outside
<1>1. MixT' /\ RoundT' /\ HandT' /\ SentT' /\ FaultT'
  BY DEF MixT, RoundT, HandT, SentT, FaultT
<1>2. RowT'
  BY SigningAssumption DEF RowT, Rows
<1>3. LoopT'
  BY SigningAssumption DEF LoopT, NoLoop, Pcs
<1>4. TimeT'
  BY SigningAssumption DEF TimeT, Up
<1>5. WarnT'
  BY SigningAssumption DEF WarnT, LoopT, Level
<1>6. SetT'
  BY SigningAssumption DEF SetT
<1>7. PhaseOK'
  BY DEF PhaseOK, NoLoop, RowT, Rows, LoopT, SetT, MixT, TimeT
<1>8. ClockOK'
  BY DEF ClockOK, NoLoop, Up, RowT, Rows, LoopT, SetT, MixT, TimeT
<1>9. SparingOK'
  BY DEF SparingOK, NoLoop, ClockOK, RowT, Rows, LoopT, SetT, MixT, TimeT
<1>10. RecoveryOK'
  BY DEF RecoveryOK, PhaseOK
<1> QED
  BY <1>1, <1>2, <1>3, <1>4, <1>5, <1>6, <1>7, <1>8, <1>9, <1>10

LEMMA GhostKeeps ==
  ASSUME SigningInv, NEW p \in Participants, Ghost(p)
  PROVE  SigningInv'
<1> USE DEF SigningInv, Typed, Ghost, At, db, history, outside
<1>1. MixT' /\ RoundT' /\ HandT' /\ TimeT' /\ SentT' /\ FaultT' /\ WarnT' /\ SetT'
  BY DEF MixT, RoundT, HandT, TimeT, SentT, FaultT, WarnT, SetT
<1>2. RowT'
  BY SigningAssumption DEF RowT, Rows
<1>3. LoopT'
  BY SigningAssumption DEF LoopT, NoLoop, Pcs
<1>4. PhaseOK'
  BY DEF PhaseOK, NoLoop, RowT, Rows, LoopT, SetT, MixT, TimeT
<1>5. ClockOK'
  BY DEF ClockOK, NoLoop, Up, RowT, Rows, LoopT, SetT, MixT, TimeT
<1>6. SparingOK'
  BY DEF SparingOK, NoLoop, ClockOK, RowT, Rows, LoopT, SetT, MixT, TimeT
<1>7. RecoveryOK'
  BY DEF RecoveryOK, NoLoop, In, RowT, Rows, LoopT, SetT, MixT, TimeT
<1> QED
  BY <1>1, <1>2, <1>3, <1>4, <1>5, <1>6, <1>7

LEMMA BlacklistKeeps ==
  ASSUME SigningInv, NEW p \in Participants, Blacklist(p)
  PROVE  SigningInv'
<1> USE DEF SigningInv, Typed, Blacklist, At, db, history, outside
<1>1. MixT' /\ RowT' /\ RoundT' /\ HandT' /\ TimeT' /\ SentT' /\ FaultT' /\ WarnT'
  BY DEF MixT, RowT, RoundT, HandT, TimeT, SentT, FaultT, WarnT
<1>2. LoopT'
  BY SigningAssumption DEF LoopT, NoLoop, Pcs
<1>3. SetT'
  BY SigningAssumption DEF SetT
<1>4. PhaseOK'
  BY DEF PhaseOK, NoLoop, RowT, Rows, LoopT, SetT, MixT, TimeT
<1>5. ClockOK'
  BY DEF ClockOK, NoLoop, Up, RowT, Rows, LoopT, SetT, MixT, TimeT
<1>6. SparingOK'
  BY DEF SparingOK, NoLoop, ClockOK, RowT, Rows, LoopT, SetT, MixT, TimeT
<1>7. RecoveryOK'
  BY DEF RecoveryOK, NoLoop, In, RowT, Rows, LoopT, SetT, MixT, TimeT
<1> QED
  BY <1>1, <1>2, <1>3, <1>4, <1>5, <1>6, <1>7

LEMMA QuietKeeps ==
  ASSUME SigningInv, NEW p \in Participants, Quiet(p)
  PROVE  SigningInv'
<1> USE DEF SigningInv, Typed, Quiet, At, db, history, outside
<1>1. MixT' /\ RowT' /\ RoundT' /\ HandT' /\ TimeT' /\ SentT' /\ FaultT' /\ WarnT' /\ SetT'
  BY DEF MixT, RowT, RoundT, HandT, TimeT, SentT, FaultT, WarnT, SetT
<1>2. LoopT'
  BY SigningAssumption DEF LoopT, NoLoop, Pcs
<1>3. PhaseOK'
  BY DEF PhaseOK, NoLoop, RowT, Rows, LoopT, SetT, MixT, TimeT
<1>4. ClockOK'
  BY DEF ClockOK, NoLoop, Up, RowT, Rows, LoopT, SetT, MixT, TimeT
<1>5. SparingOK'
  BY DEF SparingOK, NoLoop, ClockOK, RowT, Rows, LoopT, SetT, MixT, TimeT
<1>6. RecoveryOK'
  BY DEF RecoveryOK, NoLoop, In, RowT, Rows, LoopT, SetT, MixT, TimeT
<1> QED
  BY <1>1, <1>2, <1>3, <1>4, <1>5, <1>6

LEMMA RemindKeeps ==
  ASSUME SigningInv, NEW p \in Participants, Remind(p)
  PROVE  SigningInv'
<1> USE DEF SigningInv, Typed, At, db, history, outside
<1>1. CASE SendFails(p)
  BY <1>1, SendFailsKeeps
<1>2. CASE /\ At("sign") /\ p \in loop.todo /\ loop.age < 4 /\ Level(p) > loop.counts[p]
              /\ warned' = [warned EXCEPT ![p] = @ \cup {Level(p)}]
              /\ dms' = [dms EXCEPT ![p] = @ + 1]
              /\ loop' = [loop EXCEPT !.pc = "count", !.cur = {p}, !.todo = @ \ {p}]
              /\ UNCHANGED <<db, nskel, got, hand, ticked, fails, outside, punctual, late>>
  <2>1. MixT' /\ RowT' /\ RoundT' /\ HandT' /\ TimeT' /\ SentT' /\ FaultT' /\ SetT'
    BY <1>2 DEF MixT, RowT, RoundT, HandT, TimeT, SentT, FaultT, SetT
  <2>2. LoopT'
    BY <1>2 DEF LoopT, Pcs
  <2>3. WarnT'
    <3>1. Level(p) \in 1..3
      BY <1>2 DEF Level, LoopT
    <3>2. warned[p] \cup {Level(p)} \in SUBSET (1..3) /\ dms[p] + 1 \in Nat
      BY <3>1 DEF WarnT
    <3> QED
      BY <1>2, <3>2 DEF WarnT
  <2>4. PhaseOK'
    BY <1>2 DEF PhaseOK, NoLoop, RowT, Rows, LoopT, SetT, MixT, TimeT, Remind
  <2>5. ClockOK'
    BY <1>2 DEF ClockOK, NoLoop, Up, RowT, Rows, LoopT, SetT, MixT, TimeT, Remind
  <2>6. SparingOK'
    BY <1>2 DEF SparingOK, NoLoop, ClockOK, RowT, Rows, LoopT, SetT, MixT, TimeT, Remind
  <2>7. RecoveryOK'
    BY <1>2 DEF RecoveryOK, NoLoop, In, RowT, Rows, LoopT, SetT, MixT, TimeT, Remind
  <2> QED
    BY <2>1, <2>2, <2>3, <2>4, <2>5, <2>6, <2>7
<1> QED
  BY <1>1, <1>2 DEF Remind

LEMMA CountKeeps ==
  ASSUME SigningInv, NEW p \in Participants, Count(p)
  PROVE  SigningInv'
<1> USE DEF SigningInv, Typed, Count, At, db, history, outside
<1>1. MixT' /\ RoundT' /\ HandT' /\ TimeT' /\ SentT' /\ FaultT' /\ WarnT' /\ SetT'
  BY DEF MixT, RoundT, HandT, TimeT, SentT, FaultT, WarnT, SetT
<1>2. RowT'
  <2>1. Level(p) \in 0..3
    BY DEF Level, ClockOK, TimeT
  <2>2. row[p] \in Rows
    BY DEF RowT
  <2>3. [row[p] EXCEPT !.count = Level(p)] \in Rows
    BY <2>1, <2>2 DEF Rows
  <2> QED
    BY <2>3 DEF RowT
<1>3. LoopT'
  BY SigningAssumption DEF LoopT, NoLoop, Pcs
<1>4. PhaseOK'
  BY DEF PhaseOK, NoLoop, RowT, Rows, LoopT, SetT, MixT, TimeT
<1>5. ClockOK'
  BY DEF ClockOK, NoLoop, Up, RowT, Rows, LoopT, SetT, MixT, TimeT
<1>6. SparingOK'
  BY DEF SparingOK, NoLoop, ClockOK, RowT, Rows, LoopT, SetT, MixT, TimeT
<1>7. RecoveryOK'
  BY DEF RecoveryOK, NoLoop, In, RowT, Rows, LoopT, SetT, MixT, TimeT
<1> QED
  BY <1>1, <1>2, <1>3, <1>4, <1>5, <1>6, <1>7

LEMMA ClearOutputsKeeps ==
  ASSUME SigningInv, NEW p \in Participants, ClearOutputs(p)
  PROVE  SigningInv'
<1> USE DEF SigningInv, Typed, ClearOutputs, At, db, history, outside
<1>1. MixT' /\ RoundT' /\ HandT' /\ TimeT' /\ SentT' /\ FaultT' /\ WarnT' /\ SetT'
  BY DEF MixT, RoundT, HandT, TimeT, SentT, FaultT, WarnT, SetT
<1>2. RowT'
  BY SigningAssumption DEF RowT, Rows
<1>3. LoopT'
  BY SigningAssumption DEF LoopT, NoLoop, Pcs
<1>4. PhaseOK'
  BY DEF PhaseOK, NoLoop, RowT, Rows, LoopT, SetT, MixT, TimeT
<1>5. ClockOK'
  BY DEF ClockOK, NoLoop, Up, RowT, Rows, LoopT, SetT, MixT, TimeT
<1>6. SparingOK'
  BY DEF SparingOK, NoLoop, ClockOK, RowT, Rows, LoopT, SetT, MixT, TimeT
<1>7. RecoveryOK'
  BY DEF RecoveryOK, NoLoop, In, RowT, Rows, LoopT, SetT, MixT, TimeT
<1> QED
  BY <1>1, <1>2, <1>3, <1>4, <1>5, <1>6, <1>7

LEMMA ResetKeeps ==
  ASSUME SigningInv, NEW p \in Participants, Reset(p)
  PROVE  SigningInv'
<1> USE DEF SigningInv, Typed, Reset, At, db, history, outside
<1>1. MixT' /\ RoundT' /\ HandT' /\ TimeT' /\ SentT' /\ FaultT' /\ WarnT' /\ SetT'
  BY DEF MixT, RoundT, HandT, TimeT, SentT, FaultT, WarnT, SetT
<1>2. RowT'
  <2> DEFINE paid == [row EXCEPT ![p].st = "paid"]
  <2>1. paid \in [Participants -> Rows]
    BY DEF RowT, Rows
  <2>2. row' = [paid EXCEPT ![p].count = 0]
    OBVIOUS
  <2> HIDE DEF paid
  <2>3. [paid[p] EXCEPT !.count = 0] \in Rows
    BY <2>1 DEF Rows
  <2> QED
    BY <2>1, <2>2, <2>3 DEF RowT
<1>3. LoopT'
  BY SigningAssumption DEF LoopT, NoLoop, Pcs
<1>4. PhaseOK'
  BY DEF PhaseOK, NoLoop, RowT, Rows, LoopT, SetT, MixT, TimeT
<1>5. ClockOK'
  BY DEF ClockOK, NoLoop, Up, RowT, Rows, LoopT, SetT, MixT, TimeT
<1>6. SparingOK'
  BY DEF SparingOK, NoLoop, ClockOK, RowT, Rows, LoopT, SetT, MixT, TimeT
<1>7. RecoveryOK'
  BY DEF RecoveryOK, NoLoop, In, RowT, Rows, LoopT, SetT, MixT, TimeT
<1> QED
  BY <1>1, <1>2, <1>3, <1>4, <1>5, <1>6, <1>7

LEMMA InitSatisfies == Init => SigningInv
<1> SUFFICES ASSUME Init PROVE SigningInv
  OBVIOUS
<1> USE DEF Init
<1>1. MixT
  BY SigningAssumption DEF MixT
<1>2. TimeT
  <2>1. Up \in Nat
    BY SigningAssumption DEF Up
  <2>2. Up \in 0..Up /\ 0 \in 0..4
    BY <2>1
  <2> QED
    BY <2>2 DEF TimeT
<1>3. FaultT
  BY SigningAssumption DEF FaultT
<1>4. [st |-> "paid", outs |-> TRUE, count |-> 0] \in Rows
  BY DEF Rows
<1>5. RowT /\ SetT
  BY <1>4 DEF RowT, SetT
<1>6. [n \in Numbers |-> NoRound] \in [Numbers -> [sent : Skeletons, ret : Skeletons]]
  BY SigningAssumption DEF NoRound, Skeletons
<1>7. RoundT
  BY <1>6 DEF RoundT
<1>9. [p \in Participants |-> 0] \in [Participants -> 0..3] /\ 0 \in 0..4
  OBVIOUS
<1>10. LoopT
  BY <1>9 DEF LoopT, NoLoop, Pcs
<1>11. HandT
  BY SigningAssumption DEF HandT, NoHand, Numbers, Skeletons
<1>12. SentT /\ WarnT
  BY SigningAssumption DEF SentT, WarnT, Skeletons
<1>13. PhaseOK /\ ClockOK /\ SparingOK /\ RecoveryOK
  BY DEF PhaseOK, ClockOK, SparingOK, RecoveryOK, NoLoop
<1> QED
  BY <1>1, <1>2, <1>3, <1>5, <1>7, <1>10, <1>11, <1>12, <1>13 DEF SigningInv, Typed

LEMMA StutterKeeps == SigningInv /\ UNCHANGED vars => SigningInv'
  BY DEF SigningInv, Typed, MixT, RowT, RoundT, LoopT, HandT, TimeT, SentT, FaultT, WarnT,
         SetT, PhaseOK, ClockOK, SparingOK, RecoveryOK, In, vars

LEMMA NextKeeps == SigningInv /\ [Next]_vars => SigningInv'
<1> SUFFICES ASSUME SigningInv, [Next]_vars PROVE SigningInv'
  OBVIOUS
<1>1. CASE Loop
  BY <1>1, AssembleKeeps, BeginSigningKeeps, BeginTickKeeps, WaitKeeps, CombineKeeps,
     TooManyGhostsKeeps, RecoverKeeps, ReopenKeeps, AdvanceKeeps,
     RecordKeeps, DeliverKeeps, MarkSigningKeeps, GhostKeeps, BlacklistKeeps, QuietKeeps, RemindKeeps, CountKeeps, ClearOutputsKeeps, ResetKeeps
     DEF Loop
<1>2. CASE Handler
  BY <1>2, ReceiveKeeps, StoreKeeps, AcceptKeeps, ReaddressKeeps DEF Handler
<1>3. CASE TimePasses \/ Crash \/ Restart
  BY <1>3, TimePassesKeeps, CrashKeeps, RestartKeeps
<1>4. CASE \E p \in Participants : Vanish(p)
  BY <1>4, VanishKeeps
<1>5. CASE UNCHANGED vars
  BY <1>5, StutterKeeps
<1> QED
  BY <1>1, <1>2, <1>3, <1>4, <1>5 DEF Next, Over

\* The invariant of the two processes holds in every reachable state.
THEOREM SigningInvariant == Spec => []SigningInv
<1>1. Init => SigningInv
  BY InitSatisfies
<1>2. SigningInv /\ [Next]_vars => SigningInv'
  BY NextKeeps
<1> QED
  BY <1>1, <1>2, PTL DEF Spec

\* Every variable of the signing phase keeps its type, the bound on recoveries
\* (_handle_signing cancels at MAX_GHOST_RETRIES) among them.
THEOREM TypeCorrect == Spec => []TypeOK
<1>1. SigningInv => TypeOK
  BY TypedIsTypeOK DEF SigningInv
<1> QED
  BY <1>1, SigningInvariant, PTL

\* When a mix reopens no survivor is left in a state that can no longer give
\* addresses, however the loop's rows and the handlers interleave and wherever
\* the process crashes.
THEOREM SurvivorsReadress == Spec => []SurvivorsCanReadress
<1>1. SigningInv => SurvivorsCanReadress
  BY DEF SigningInv, RecoveryOK, SurvivorsCanReadress
<1> QED
  BY <1>1, SigningInvariant, PTL

LEMMA StepSpares ==
  ASSUME SigningInv, Next
  PROVE  \A p \in punctual : row'[p].st # "ghosted" /\ p \notin blacklist' \ blacklist
<1> SUFFICES ASSUME NEW q \in punctual
             PROVE  row'[q].st # "ghosted" /\ q \notin blacklist' \ blacklist
  OBVIOUS
<1> USE DEF SigningInv, Typed, At, db, history, outside
<1>1. q \in Participants /\ row[q].st \in {"signed", "paid"}
  BY DEF SetT, SparingOK
<1>2. ASSUME NEW p \in Participants, Ghost(p) PROVE p # q
  BY <1>2 DEF Ghost, SparingOK, LoopT, TimeT
<1>3. ASSUME NEW p \in Participants, Blacklist(p) PROVE p # q
  BY <1>3 DEF Blacklist, SparingOK
<1>4. CASE \E p \in Participants : Ghost(p)
  BY <1>1, <1>2, <1>4 DEF Ghost, RowT
<1>5. CASE \E p \in Participants : Blacklist(p)
  BY <1>1, <1>3, <1>5 DEF Blacklist
<1>6. CASE \E p \in Participants : Count(p) \/ ClearOutputs(p) \/ Reset(p) \/ MarkSigning(p)
  BY <1>1, <1>6 DEF Count, ClearOutputs, Reset, MarkSigning, RowT, Rows
<1>7. CASE \E p \in Participants : Accept(p) \/ Readdress(p)
  BY <1>1, <1>7 DEF Accept, Readdress, RowT, Rows
<1>8. CASE Recover
  BY <1>1, <1>8 DEF Recover, RowT, Rows
<1>9. CASE UNCHANGED <<row, blacklist>>
  BY <1>1, <1>9
<1>10. CASE \/ Assemble \/ BeginSigning \/ BeginTick \/ Wait \/ Combine \/ TooManyGhosts
            \/ Reopen \/ Advance \/ TimePasses \/ Crash \/ Restart \/ Over
  BY <1>9, <1>10 DEF Assemble, BeginSigning, BeginTick, Wait, Combine, TooManyGhosts,
                     Reopen, Advance, TimePasses, Crash, Restart, Over, vars
<1>11. CASE \E p \in Participants : Record(p) \/ Deliver(p) \/ Quiet(p) \/ Remind(p)
  BY <1>9, <1>11 DEF Record, Deliver, Quiet, Remind, SendFails
<1>12. CASE \E p \in Participants : Receive(p) \/ Store(p) \/ Vanish(p)
  BY <1>9, <1>12 DEF Receive, Store, Vanish
<1> QED
  BY <1>4, <1>5, <1>6, <1>7, <1>8, <1>10, <1>11, <1>12 DEF Next, Loop, Handler

\* A signature accepted within the deadline is never held against the signer by
\* a tick that works on older rows: neither ghosted nor blacklisted.
THEOREM PunctualIsSpared == Spec => PunctualSpared
<1>1. SigningInv /\ [Next]_vars =>
        [\A p \in punctual : row'[p].st # "ghosted" /\ p \notin blacklist' \ blacklist]_vars
  BY StepSpares
<1> QED
  BY <1>1, SigningInvariant, PTL DEF Spec, PunctualSpared

-----------------------------------------------------------------------------
(***************************************************************************)
(* Returns.                                                                *)
(***************************************************************************)
Sending == loop.pc \in {"send", "deliver", "mark"}

\* A skeleton belongs to one round, and the one being sent is newer than what is
\* on record for those it has yet to reach.
SkeletonOK ==
  /\ \A p \in Participants, n \in Numbers :
       /\ round[p][n].sent <= nskel
       /\ Sending /\ (n # RoundNum \/ p \in loop.todo) => round[p][n].sent < nskel
  /\ \A p \in Participants, m, n \in Numbers :
       m # n /\ round[p][m].sent # 0 => round[p][m].sent # round[p][n].sent

\* What the handler holds of p was sent in the round it was returned for, and stays
\* the return on record until another skeleton is.
Held(p) ==
  /\ row[p].st # "signed"
  /\ hand.psbt # 0 /\ hand.psbt <= nskel
  /\ Sending /\ (hand.num # RoundNum \/ p \in loop.todo) => hand.psbt < nskel
  /\ \A n \in Numbers \ {hand.num} : round[p][n].sent # hand.psbt
  /\ hand.pc = "mark" /\ round[p][hand.num].sent = hand.psbt
       => round[p][hand.num].ret = hand.psbt

HandOK ==
  /\ \A p, q \in hand.who : p = q
  /\ hand.pc # "idle" => \A p \in hand.who : Held(p)

\* The skeleton of this round came back from p.
Back(p) == round[p][RoundNum].ret # 0 /\ round[p][RoundNum].ret = round[p][RoundNum].sent

\* It came back from whoever counts as signed, but for those the skeleton has yet
\* to reach.
ReturnOK ==
  /\ loop.pc = "send" => loop.cur = {}
  /\ \A p \in In({"signed"}) \ late :
       mix.st = "signing" \/ (Sending /\ p \notin loop.todo \cup loop.cur) => Back(p)

ReturnInv == SigningInv /\ SkeletonOK /\ HandOK /\ ReturnOK

\* What the steps that are not about skeletons leave alone.
LEMMA Elsewhere ==
  ASSUME SigningInv, [Next]_vars, ~Assemble, ~BeginSigning,
         ~ \E p \in Participants : Record(p) \/ Deliver(p) \/ MarkSigning(p) \/ Store(p)
  PROVE  /\ round' = round /\ nskel' = nskel
         /\ ~Sending' \/ (loop' = loop /\ mix' = mix)
         /\ mix'.st = "signing" => mix' = mix
<1> USE DEF Sending, NoLoop, db, history, outside
<1>1. CASE BeginTick \/ Wait \/ Combine \/ TooManyGhosts \/ Recover
  <2>1. CASE BeginTick \/ Wait \/ Recover
    <3>1. mix' = mix /\ round' = round /\ nskel' = nskel
      BY <2>1 DEF BeginTick, Wait, Recover
    <3>2. CASE BeginTick \/ Wait
      BY <3>1, <3>2 DEF BeginTick, Wait
    <3>3. CASE Recover
      BY <3>1, <3>3 DEF Recover
    <3> QED
      BY <2>1, <3>2, <3>3
  <2>2. CASE Combine \/ TooManyGhosts
    <3>1. mix'.st \in {"broadcast", "cancelled"} /\ round' = round /\ nskel' = nskel /\ loop'.pc = "idle"
      BY <2>2 DEF Combine, TooManyGhosts, SigningInv, Typed, MixT
    <3> QED
      BY <3>1
  <2> QED
    BY <1>1, <2>1, <2>2
<1>2. CASE Reopen \/ Advance
  BY <1>2 DEF Reopen, Advance, SigningInv, Typed, MixT, At
<1>3. CASE \E p \in Participants :
             \/ Ghost(p) \/ Blacklist(p) \/ Quiet(p)
             \/ Count(p) \/ ClearOutputs(p) \/ Reset(p)
  BY <1>3 DEF Ghost, Blacklist, Quiet, Count, ClearOutputs, Reset, At, SigningInv, Typed, LoopT
<1>4. CASE \E p \in Participants : Remind(p)
  <2>1. mix' = mix /\ round' = round /\ nskel' = nskel
    BY <1>4 DEF Remind, SendFails
  <2>2. PICK p \in Participants : Remind(p)
    BY <1>4
  <2>3. loop'.pc = "idle" \/ loop'.pc = "count"
    <3>1. CASE SendFails(p)
      BY <3>1 DEF SendFails
    <3>2. CASE loop' = [loop EXCEPT !.pc = "count", !.cur = {p}, !.todo = @ \ {p}]
      BY <3>2 DEF SigningInv, Typed, LoopT
    <3> QED
      BY <2>2, <3>1, <3>2 DEF Remind
  <2> QED
    BY <2>1, <2>3
<1>5. CASE \E p \in Participants : Receive(p) \/ Accept(p) \/ Readdress(p) \/ Vanish(p)
  BY <1>5 DEF Receive, Accept, Readdress, Vanish
<1>6. CASE TimePasses \/ Crash \/ Restart \/ UNCHANGED vars
  BY <1>6 DEF TimePasses, Crash, Restart, vars
<1> QED
  BY <1>1, <1>2, <1>3, <1>4, <1>5, <1>6 DEF Next, Loop, Handler, Over

\* Only an acceptance makes a signer.
LEMMA NotSigned ==
  ASSUME SigningInv, [Next]_vars, ~ \E p \in Participants : Accept(p),
         NEW q \in Participants, row'[q].st = "signed"
  PROVE  row[q].st = "signed" /\ ~MarkSigning(q) /\ late' = late
<1>0. row \in [Participants -> Rows]
  BY DEF SigningInv, Typed, RowT
<1> USE DEF db, history, outside
<1>1. CASE \E p \in Participants :
             \/ MarkSigning(p) \/ Ghost(p)
             \/ Count(p) \/ ClearOutputs(p) \/ Reset(p)
  BY <1>0, <1>1 DEF MarkSigning, Ghost, Count, ClearOutputs, Reset, Rows
<1>2. CASE Recover
  BY <1>0, <1>2 DEF Recover, Rows, MarkSigning, At
<1>3. CASE \E p \in Participants : Readdress(p)
  BY <1>0, <1>3 DEF Readdress, Rows, MarkSigning, SigningInv, PhaseOK, At
<1>4. CASE row' = row /\ late' = late
  BY <1>0, <1>4 DEF MarkSigning, Rows
<1>5. CASE BeginTick \/ Wait \/ Combine \/ TooManyGhosts \/ Reopen \/ Advance \/ Assemble \/ BeginSigning
  BY <1>4, <1>5 DEF BeginTick, Wait, Combine, TooManyGhosts, Reopen, Advance, Assemble, BeginSigning
<1>6. CASE \E p \in Participants : Record(p) \/ Deliver(p) \/ Blacklist(p) \/ Quiet(p) \/ Remind(p)
  BY <1>4, <1>6 DEF Record, Deliver, Blacklist, Quiet, Remind, SendFails
<1>7. CASE \E p \in Participants : Receive(p) \/ Store(p) \/ Vanish(p)
  BY <1>4, <1>7 DEF Receive, Store, Vanish
<1>8. CASE TimePasses \/ Crash \/ Restart \/ UNCHANGED vars
  BY <1>4, <1>8 DEF TimePasses, Crash, Restart, vars
<1> QED
  BY <1>1, <1>2, <1>3, <1>5, <1>6, <1>7, <1>8 DEF Next, Loop, Handler, Over

\* The types, for what the proofs about returns compute with.
LEMMA ReturnTypes ==
  ASSUME SigningInv
  PROVE  /\ RoundNum \in Numbers /\ nskel \in Nat /\ hand.num \in Numbers /\ hand.psbt \in Nat
         /\ \A p \in Participants : got[p] \in Nat
         /\ round \in [Participants -> [Numbers -> [sent : Skeletons, ret : Skeletons]]]
         /\ \A p \in Participants, n \in Numbers :
              round[p][n].sent \in Nat /\ round[p][n].ret \in Nat
<1>1. RoundNum \in Numbers
  BY SigningAssumption DEF RoundNum, Numbers, SigningInv, Typed, MixT
<1>2. Skeletons \subseteq Nat
  BY SigningAssumption DEF Skeletons
<1>3. nskel \in Nat /\ hand.num \in Numbers /\ hand.psbt \in Nat
  BY <1>2 DEF SigningInv, Typed, SentT, HandT
<1>4. \A p \in Participants : got[p] \in Nat
  BY <1>2 DEF SigningInv, Typed, SentT
<1>5. round \in [Participants -> [Numbers -> [sent : Skeletons, ret : Skeletons]]]
  BY DEF SigningInv, Typed, RoundT
<1>6. \A p \in Participants, n \in Numbers : round[p][n] \in [sent : Skeletons, ret : Skeletons]
  BY <1>5
<1>7. \A p \in Participants, n \in Numbers :
        round[p][n].sent \in Nat /\ round[p][n].ret \in Nat
  BY <1>2, <1>6
<1> QED
  BY <1>1, <1>3, <1>4, <1>5, <1>7

\* What Record and Store write.
LEMMA RoundWritten ==
  ASSUME round \in [Participants -> [Numbers -> [sent : Skeletons, ret : Skeletons]]],
         NEW p \in Participants, NEW k \in Numbers, NEW r,
         round' = [round EXCEPT ![p][k] = r]
  PROVE  /\ round'[p][k] = r
         /\ \A q \in Participants, n \in Numbers :
              q # p \/ n # k => round'[q][n] = round[q][n]
<1>1. round[p] \in [Numbers -> [sent : Skeletons, ret : Skeletons]]
  OBVIOUS
<1>2. round' = [round EXCEPT ![p] = [round[p] EXCEPT ![k] = r]]
  OBVIOUS
<1>3. round'[p] = [round[p] EXCEPT ![k] = r] /\ \A q \in Participants : q # p => round'[q] = round[q]
  BY <1>2
<1> QED
  BY <1>1, <1>3

\* A round on record: the skeleton just built, and nothing returned.
LEMMA RecordEffect ==
  ASSUME SigningInv, NEW p \in Participants, Record(p)
  PROVE  /\ round'[p][RoundNum] = [sent |-> nskel, ret |-> 0]
         /\ \A q \in Participants, n \in Numbers :
              q # p \/ n # RoundNum => round'[q][n] = round[q][n]
         /\ loop'.pc = "deliver" /\ loop'.cur = {p} /\ loop'.todo = loop.todo \ {p}
         /\ p \in loop.todo /\ loop.pc = "send" /\ nskel' = nskel /\ RoundNum' = RoundNum
<1>1. round' = [round EXCEPT ![p][RoundNum] = [sent |-> nskel, ret |-> 0]]
  BY DEF Record
<1>2. RoundNum \in Numbers
  BY ReturnTypes
<1>3. loop \in [pc : Pcs, todo : SUBSET Participants, cur : SUBSET Participants,
                age : 0..4, counts : [Participants -> 0..3]]
  BY DEF SigningInv, Typed, LoopT
<1> QED
  BY <1>1, <1>2, <1>3, ReturnTypes, RoundWritten DEF Record, At, RoundNum

\* Only the handler's own round gets a return, and no skeleton changes.
LEMMA StoreEffect ==
  ASSUME SigningInv, NEW p \in Participants, Store(p)
  PROVE  /\ round'[p][hand.num] = [sent |-> round[p][hand.num].sent, ret |-> hand.psbt]
         /\ \A q \in Participants, n \in Numbers :
              q # p \/ n # hand.num => round'[q][n] = round[q][n]
         /\ \A q \in Participants, n \in Numbers : round'[q][n].sent = round[q][n].sent
         /\ hand'.pc = "mark" /\ hand'.who = hand.who /\ hand'.num = hand.num
         /\ hand'.psbt = hand.psbt
         /\ nskel' = nskel /\ RoundNum' = RoundNum
<1> DEFINE r == [round[p][hand.num] EXCEPT !.ret = hand.psbt]
<1>1. round' = [round EXCEPT ![p][hand.num] = r]
  BY DEF Store
<1>2. round[p][hand.num] \in [sent : Skeletons, ret : Skeletons]
  BY ReturnTypes
<1>3. r = [sent |-> round[p][hand.num].sent, ret |-> hand.psbt]
  BY <1>2
<1> HIDE DEF r
<1>4. /\ round'[p][hand.num] = r
      /\ \A q \in Participants, n \in Numbers :
           q # p \/ n # hand.num => round'[q][n] = round[q][n]
  BY <1>1, ReturnTypes, RoundWritten
<1>5. \A q \in Participants, n \in Numbers : round'[q][n].sent = round[q][n].sent
  BY <1>3, <1>4
<1>6. hand \in [pc : {"idle", "store", "mark"}, who : SUBSET Participants,
                num : Numbers, psbt : Skeletons]
  BY DEF SigningInv, Typed, HandT
<1> QED
  BY <1>3, <1>4, <1>5, <1>6 DEF Store, RoundNum

\* A delivery and the mark after it do not change what is on record.
LEMMA SendingGoesOn ==
  ASSUME SigningInv, BeginSigning \/ \E p \in Participants : Deliver(p) \/ MarkSigning(p)
  PROVE  /\ round' = round /\ nskel' = nskel
         /\ ~Sending' \/ (Sending /\ loop'.todo = loop.todo /\ RoundNum' = RoundNum)
<1> USE DEF Sending, NoLoop, RoundNum, db, history, outside, At, SigningInv, Typed, LoopT
<1>1. CASE BeginSigning
  BY <1>1 DEF BeginSigning
<1>2. ASSUME NEW p \in Participants, Deliver(p), p \notin lost, got' = [got EXCEPT ![p] = nskel],
             loop' = [loop EXCEPT !.pc = "mark"],
             UNCHANGED <<db, nskel, hand, ticked, fails, outside, history>>
      PROVE  /\ round' = round /\ nskel' = nskel
             /\ ~Sending' \/ (Sending /\ loop'.todo = loop.todo /\ RoundNum' = RoundNum)
  <2>1. loop.pc = "deliver"
    BY <1>2 DEF Deliver
  <2> QED
    BY <1>2, <2>1
<1>3. ASSUME NEW p \in Participants, SendFails(p)
      PROVE  /\ round' = round /\ nskel' = nskel
             /\ ~Sending' \/ (Sending /\ loop'.todo = loop.todo /\ RoundNum' = RoundNum)
  BY <1>3 DEF SendFails
<1>4. ASSUME NEW p \in Participants, MarkSigning(p)
      PROVE  /\ round' = round /\ nskel' = nskel
             /\ ~Sending' \/ (Sending /\ loop'.todo = loop.todo /\ RoundNum' = RoundNum)
  BY <1>4 DEF MarkSigning
<1>5. ASSUME NEW p \in Participants, Deliver(p)
      PROVE  /\ round' = round /\ nskel' = nskel
             /\ ~Sending' \/ (Sending /\ loop'.todo = loop.todo /\ RoundNum' = RoundNum)
  BY <1>5, <1>2, <1>3 DEF Deliver
<1> QED
  BY <1>1, <1>4, <1>5

\* Every step keeps the order of the skeletons on record,
LEMMA SkeletonStep ==
  ASSUME ReturnInv, [Next]_vars
  PROVE  SkeletonOK'
<1>0. /\ SigningInv /\ SkeletonOK
      /\ RoundNum \in Numbers /\ nskel \in Nat
      /\ \A p \in Participants, n \in Numbers : round[p][n].sent \in Nat
  BY ReturnTypes DEF ReturnInv
<1>1. CASE Assemble
  <2>1. nskel' = nskel + 1 /\ round' = round
    BY <1>1 DEF Assemble, db
  <2>2. \A p \in Participants, n \in Numbers : round'[p][n].sent < nskel'
    BY <1>0, <2>1 DEF SkeletonOK
  <2> QED
    BY <1>0, <2>1, <2>2 DEF SkeletonOK
<1>2. ASSUME NEW p \in Participants, Record(p) PROVE SkeletonOK'
  <2>1. /\ round'[p][RoundNum].sent = nskel
        /\ \A q \in Participants, n \in Numbers :
             q # p \/ n # RoundNum => round'[q][n].sent = round[q][n].sent
        /\ loop'.todo = loop.todo \ {p} /\ p \in loop.todo /\ Sending
        /\ nskel' = nskel /\ RoundNum' = RoundNum
    BY <1>0, <1>2, RecordEffect DEF Sending
  <2>2. ASSUME NEW q \in Participants, NEW n \in Numbers
        PROVE  /\ round'[q][n].sent <= nskel'
               /\ n # RoundNum' \/ q \in loop'.todo => round'[q][n].sent < nskel'
    BY <1>0, <2>1 DEF SkeletonOK
  <2>3. ASSUME NEW q \in Participants, NEW m \in Numbers, NEW n \in Numbers,
               m # n, round'[q][m].sent # 0
        PROVE  round'[q][m].sent # round'[q][n].sent
    BY <1>0, <2>1, <2>3 DEF SkeletonOK
  <2> QED
    BY <2>2, <2>3 DEF SkeletonOK
<1>3. ASSUME NEW p \in Participants, Store(p) PROVE SkeletonOK'
  <2>1. /\ \A q \in Participants, n \in Numbers : round'[q][n].sent = round[q][n].sent
        /\ nskel' = nskel /\ RoundNum' = RoundNum /\ loop' = loop
    BY <1>0, <1>3, StoreEffect DEF Store
  <2> QED
    BY <1>0, <2>1 DEF SkeletonOK, Sending
<1>4. CASE BeginSigning \/ \E p \in Participants : Deliver(p) \/ MarkSigning(p)
  <2>1. /\ round' = round /\ nskel' = nskel
        /\ ~Sending' \/ (Sending /\ loop'.todo = loop.todo /\ RoundNum' = RoundNum)
    BY <1>0, <1>4, SendingGoesOn
  <2> QED
    BY <1>0, <2>1 DEF SkeletonOK
<1>5. CASE /\ ~Assemble /\ ~BeginSigning
           /\ ~ \E p \in Participants : Record(p) \/ Deliver(p) \/ MarkSigning(p) \/ Store(p)
  <2>1. /\ round' = round /\ nskel' = nskel
        /\ ~Sending' \/ (loop' = loop /\ mix' = mix)
    BY <1>0, <1>5, Elsewhere
  <2>2. ~Sending' \/ (Sending /\ loop' = loop /\ RoundNum' = RoundNum)
    BY <2>1 DEF Sending, RoundNum
  <2> QED
    BY <1>0, <2>1, <2>2 DEF SkeletonOK
<1> QED
  BY <1>1, <1>2, <1>3, <1>4, <1>5

\* what the handler holds,
LEMMA HandStep ==
  ASSUME ReturnInv, [Next]_vars
  PROVE  HandOK'
<1>0. /\ SigningInv /\ SkeletonOK /\ HandOK
      /\ RoundNum \in Numbers /\ nskel \in Nat /\ hand.num \in Numbers /\ hand.psbt \in Nat
      /\ \A p \in Participants : got[p] \in Nat
      /\ \A p \in Participants, n \in Numbers : round[p][n].sent \in Nat
      /\ hand.who \subseteq Participants
  BY ReturnTypes DEF ReturnInv, SigningInv, Typed, HandT
<1>1. ASSUME NEW p \in Participants, Receive(p) PROVE HandOK'
  <2>1. /\ hand'.who = {p} /\ hand'.num = RoundNum /\ hand'.psbt = got[p] /\ hand'.pc = "store"
        /\ got[p] # 0 /\ got[p] = round[p][RoundNum].sent /\ row[p].st = "signing"
        /\ row' = row /\ nskel' = nskel /\ round' = round /\ loop' = loop /\ RoundNum' = RoundNum
    BY <1>1 DEF Receive, db, RoundNum
  <2>2. Held(p)'
    BY <1>0, <2>1 DEF Held, SkeletonOK, Sending
  <2> QED
    BY <2>1, <2>2 DEF HandOK
<1>2. ASSUME NEW p \in Participants, Store(p) PROVE HandOK'
  <2>1. Held(p) /\ hand.who = {p}
    BY <1>0, <1>2 DEF HandOK, Store
  <2>2. /\ round'[p][hand.num].ret = hand.psbt /\ round'[p][hand.num].sent = round[p][hand.num].sent
        /\ \A n \in Numbers : round'[p][n].sent = round[p][n].sent
        /\ hand'.who = hand.who /\ hand'.num = hand.num /\ hand'.psbt = hand.psbt
        /\ nskel' = nskel /\ RoundNum' = RoundNum
    <3>1. SigningInv /\ Store(p)
      BY <1>0, <1>2
    <3>2. /\ round'[p][hand.num] = [sent |-> round[p][hand.num].sent, ret |-> hand.psbt]
          /\ \A q \in Participants, n \in Numbers :
               q # p \/ n # hand.num => round'[q][n] = round[q][n]
          /\ \A q \in Participants, n \in Numbers : round'[q][n].sent = round[q][n].sent
          /\ hand'.pc = "mark" /\ hand'.who = hand.who /\ hand'.num = hand.num
          /\ hand'.psbt = hand.psbt
          /\ nskel' = nskel /\ RoundNum' = RoundNum
      BY <3>1, StoreEffect
    <3> QED
      BY <1>0, <3>2
  <2>3. row' = row /\ loop' = loop
    BY <1>2 DEF Store
  <2>4. Held(p)'
    BY <2>1, <2>2, <2>3 DEF Held, Sending
  <2> QED
    BY <2>1, <2>2, <2>4 DEF HandOK
<1>3. CASE Crash \/ \E p \in Participants : Accept(p)
  BY <1>3 DEF Crash, Accept, NoHand, HandOK
<1>4. CASE /\ ~Crash
           /\ ~ \E p \in Participants : Receive(p) \/ Store(p) \/ Accept(p)
  <2>1. hand' = hand
    BY <1>4 DEF Next, Loop, Handler, Over, vars, Assemble, BeginSigning, BeginTick, Wait,
       Combine, TooManyGhosts, Recover, Reopen, Advance, Record, Deliver, SendFails, MarkSigning,
       Ghost, Blacklist, Quiet, Remind, Count, ClearOutputs, Reset, Readdress, TimePasses,
       Restart, Vanish
  <2> SUFFICES ASSUME hand.pc # "idle", NEW q \in hand.who PROVE Held(q)'
    BY <1>0, <2>1 DEF HandOK
  <2>2. Held(q) /\ q \in Participants /\ row'[q].st # "signed"
    BY <1>0, <1>4, NotSigned DEF HandOK, Held
  <2>3. CASE Assemble
    BY <1>0, <2>1, <2>2, <2>3 DEF Assemble, Held, db, Sending
  <2>4. ASSUME NEW p \in Participants, Record(p) PROVE Held(q)'
    <3>1. /\ round'[p][RoundNum].sent = nskel
          /\ \A i \in Participants, n \in Numbers :
               i # p \/ n # RoundNum => round'[i][n] = round[i][n]
          /\ loop'.todo = loop.todo \ {p} /\ p \in loop.todo /\ Sending /\ Sending'
          /\ nskel' = nskel /\ RoundNum' = RoundNum
      BY <1>0, <2>4, RecordEffect DEF Sending
    <3>2. CASE q # p
      BY <1>0, <2>1, <2>2, <3>1, <3>2 DEF Held
    <3>3. CASE q = p
      <4>1. hand.psbt < nskel
        BY <2>2, <3>1, <3>3 DEF Held
      <4>2. \A n \in Numbers \ {hand.num} : round'[q][n].sent # hand.psbt
        BY <1>0, <2>2, <3>1, <3>3, <4>1 DEF Held
      <4>3. round'[q][hand.num].sent = hand.psbt => round'[q][hand.num] = round[q][hand.num]
        BY <1>0, <2>2, <3>1, <3>3, <4>1
      <4> QED
        BY <1>0, <2>1, <2>2, <3>1, <4>1, <4>2, <4>3 DEF Held
    <3> QED
      BY <3>2, <3>3
  <2>5. CASE BeginSigning \/ \E p \in Participants : Deliver(p) \/ MarkSigning(p)
    <3>1. /\ round' = round /\ nskel' = nskel
          /\ ~Sending' \/ (Sending /\ loop'.todo = loop.todo /\ RoundNum' = RoundNum)
      BY <1>0, <2>5, SendingGoesOn
    <3> QED
      BY <2>1, <2>2, <3>1 DEF Held
  <2>6. CASE /\ ~Assemble /\ ~BeginSigning
             /\ ~ \E p \in Participants : Record(p) \/ Deliver(p) \/ MarkSigning(p)
    <3>1. /\ round' = round /\ nskel' = nskel
          /\ ~Sending' \/ (loop' = loop /\ mix' = mix)
      BY <1>0, <1>4, <2>6, Elsewhere
    <3>2. ~Sending' \/ (Sending /\ loop' = loop /\ RoundNum' = RoundNum)
      BY <3>1 DEF Sending, RoundNum
    <3> QED
      BY <2>1, <2>2, <3>1, <3>2 DEF Held
  <2> QED
    BY <2>3, <2>4, <2>5, <2>6
<1> QED
  BY <1>1, <1>2, <1>3, <1>4

\* and the returns of those who count as signed.
LEMMA ReturnStep ==
  ASSUME ReturnInv, [Next]_vars
  PROVE  ReturnOK'
<1>0. /\ SigningInv /\ SkeletonOK /\ HandOK /\ ReturnOK
      /\ RoundNum \in Numbers /\ nskel \in Nat /\ hand.num \in Numbers /\ hand.psbt \in Nat
      /\ \A p \in Participants, n \in Numbers :
           round[p][n].sent \in Nat /\ round[p][n].ret \in Nat
      /\ row \in [Participants -> Rows] /\ hand.who \subseteq Participants
  BY ReturnTypes DEF ReturnInv, SigningInv, Typed, RowT, HandT
<1>1. (loop.pc = "send" => loop.cur = {})'
  <2>1. loop.pc # "send" \/ loop.cur = {}
    BY <1>0 DEF ReturnOK
  <2>2. CASE loop' = loop \/ loop' = NoLoop
    BY <2>1, <2>2 DEF NoLoop
  <2>3. CASE Assemble \/ \E p \in Participants : Record(p)
    BY <1>0, <2>3, RecordEffect DEF Assemble, NoLoop
  <2>4. CASE \E p \in Participants : MarkSigning(p)
    BY <1>0, <2>4 DEF MarkSigning, SigningInv, Typed, LoopT
  <2>5. CASE \E p \in Participants : Deliver(p) \/ Remind(p)
    BY <1>0, <2>2, <2>5 DEF Deliver, Remind, SendFails, SigningInv, Typed, LoopT
  <2>6. CASE BeginTick
    BY <2>6 DEF BeginTick
  <2>10. CASE Recover
    <3>1. loop'.cur = {}
      BY <2>10 DEF Recover, NoLoop
    <3> QED
      BY <3>1
  <2>7. CASE \E p \in Participants :
               \/ Ghost(p) \/ Blacklist(p) \/ Quiet(p)
               \/ Count(p) \/ ClearOutputs(p) \/ Reset(p)
    BY <1>0, <2>7 DEF Ghost, Blacklist, Quiet, Count, ClearOutputs, Reset, At, SigningInv,
       Typed, LoopT
  <2>8. CASE BeginSigning \/ Wait \/ Combine \/ TooManyGhosts \/ Reopen \/ Advance
    BY <2>2, <2>8 DEF BeginSigning, Wait, Combine, TooManyGhosts, Reopen, Advance
  <2>9. CASE Handler \/ TimePasses \/ Crash \/ Restart \/ UNCHANGED vars \/ \E p \in Participants : Vanish(p)
    BY <2>2, <2>9 DEF Handler, Receive, Store, Accept, Readdress, TimePasses, Crash, Restart,
       vars, Vanish
  <2> QED
    BY <2>3, <2>4, <2>5, <2>6, <2>7, <2>8, <2>9, <2>10 DEF Next, Loop, Over
<1> SUFFICES ASSUME NEW q \in Participants, row'[q].st = "signed", q \notin late',
                    \/ mix'.st = "signing"
                    \/ Sending' /\ q \notin loop'.todo \cup loop'.cur
             PROVE  Back(q)'
  BY <1>1 DEF ReturnOK, In
<1>2. ASSUME NEW p \in Participants, Accept(p) PROVE Back(q)'
  <2>1. /\ round' = round /\ RoundNum' = RoundNum /\ loop' = loop /\ mix' = mix
        /\ p \in hand.who /\ hand.pc = "mark" /\ late \subseteq late'
        /\ (row[p].st = "signing" /\ round[p][RoundNum].sent = hand.psbt) \/ p \in late'
    BY <1>2 DEF Accept, outside, RoundNum
  <2>2. CASE q = p
    <3>1. Held(p) /\ round[p][RoundNum].sent = hand.psbt
      BY <1>0, <2>1, <2>2 DEF HandOK
    <3>2. RoundNum = hand.num
      BY <1>0, <3>1 DEF Held
    <3> QED
      BY <1>0, <2>1, <2>2, <3>1, <3>2 DEF Held, Back
  <2>3. CASE q # p
    <3>1. row[q].st = "signed" /\ q \notin late
      BY <1>0, <1>2, <2>1, <2>3 DEF Accept, Rows
    <3>2. Back(q)
      BY <1>0, <2>1, <3>1 DEF ReturnOK, In, Sending
    <3> QED
      BY <2>1, <3>2 DEF Back
  <2> QED
    BY <2>2, <2>3
<1>3. CASE ~ \E p \in Participants : Accept(p)
  <2>0. row[q].st = "signed" /\ q \notin late /\ ~MarkSigning(q)
    BY <1>0, <1>3, NotSigned
  <2>1. CASE Assemble
    <3>1. q \in loop'.todo /\ mix'.st = "assembling"
      BY <2>0, <2>1 DEF Assemble, In, NoLoop, db
    <3> QED
      BY <3>1
  <2>2. ASSUME NEW p \in Participants, Record(p) PROVE Back(q)'
    <3>1. mix' = mix /\ mix.st = "assembling"
      BY <1>0, <2>2 DEF Record, SigningInv, PhaseOK, At
    <3>2. /\ q # p /\ q \notin loop.todo /\ Sending /\ loop.cur = {}
          /\ \A n \in Numbers : round'[q][n] = round[q][n]
          /\ RoundNum' = RoundNum
      BY <1>0, <2>2, <3>1, RecordEffect DEF ReturnOK, Sending
    <3>3. Back(q)
      BY <1>0, <2>0, <3>2 DEF ReturnOK, In
    <3> QED
      BY <1>0, <3>2, <3>3 DEF Back
  <2>3. ASSUME NEW p \in Participants, Store(p) PROVE Back(q)'
    <3>1. Held(p) /\ q # p /\ loop' = loop /\ mix' = mix
      BY <1>0, <2>0, <2>3 DEF HandOK, Held, Store
    <3>2. Back(q)
      BY <1>0, <2>0, <3>1 DEF ReturnOK, In, Sending
    <3>3. (\A n \in Numbers : round'[q][n] = round[q][n]) /\ RoundNum' = RoundNum
      <4>1. SigningInv /\ Store(p)
        BY <1>0, <2>3
      <4>2. /\ \A i \in Participants, n \in Numbers :
                 i # p \/ n # hand.num => round'[i][n] = round[i][n]
            /\ RoundNum' = RoundNum
        BY <4>1, StoreEffect
      <4> QED
        BY <3>1, <4>2
    <3> QED
      BY <1>0, <3>2, <3>3 DEF Back
  <2>4. ASSUME NEW p \in Participants, MarkSigning(p) PROVE Back(q)'
    <3>1. /\ round' = round /\ mix' = mix /\ mix.st = "assembling" /\ q # p
          /\ loop'.todo = loop.todo /\ p \in loop.cur /\ Sending
      BY <1>0, <2>0, <2>4 DEF MarkSigning, SigningInv, PhaseOK, At, Typed, LoopT, Sending
    <3>2. q \notin loop.cur /\ q \notin loop.todo
      BY <1>0, <3>1 DEF SigningInv, RecoveryOK
    <3>3. Back(q)
      BY <1>0, <2>0, <3>1, <3>2 DEF ReturnOK, In
    <3> QED
      BY <3>1, <3>3 DEF Back, RoundNum
  <2>5. ASSUME NEW p \in Participants, Deliver(p) PROVE Back(q)'
    <3>1. /\ round' = round /\ mix' = mix /\ mix.st = "assembling" /\ Sending
          /\ loop' = NoLoop \/ (loop'.todo = loop.todo /\ loop'.cur = loop.cur)
      BY <1>0, <2>5 DEF Deliver, SendFails, SigningInv, PhaseOK, At, Typed, LoopT, Sending, db
    <3>2. Back(q)
      BY <1>0, <2>0, <3>1 DEF ReturnOK, In, Sending, NoLoop
    <3> QED
      BY <3>1, <3>2 DEF Back, RoundNum
  <2>6. CASE BeginSigning
    <3>1. /\ round' = round /\ RoundNum' = RoundNum /\ loop.pc = "send" /\ loop.todo = {}
      BY <1>0, <2>6 DEF BeginSigning, At, RoundNum, SigningInv, Typed, MixT
    <3>2. Back(q)
      BY <1>0, <2>0, <3>1 DEF ReturnOK, In, Sending
    <3> QED
      BY <3>1, <3>2 DEF Back
  <2>7. CASE /\ ~Assemble /\ ~BeginSigning
             /\ ~ \E p \in Participants : Record(p) \/ Deliver(p) \/ MarkSigning(p) \/ Store(p)
    <3>1. /\ round' = round
          /\ ~Sending' \/ (loop' = loop /\ mix' = mix)
          /\ mix'.st = "signing" => mix' = mix
      BY <1>0, <2>7, Elsewhere
    <3>2. mix' = mix /\ (mix.st = "signing" \/ (loop' = loop /\ Sending))
      BY <3>1 DEF Sending
    <3>3. Back(q)
      BY <1>0, <2>0, <3>2 DEF ReturnOK, In
    <3> QED
      BY <3>1, <3>2, <3>3 DEF Back, RoundNum
  <2> QED
    BY <2>1, <2>2, <2>3, <2>4, <2>5, <2>6, <2>7
<1> QED
  BY <1>2, <1>3

\* The inductive invariant of the returns.
THEOREM ReturnInvariant == Spec => []ReturnInv
<1>1. Init => ReturnInv
  <2> SUFFICES ASSUME Init PROVE ReturnInv
    OBVIOUS
  <2>1. SigningInv
    BY InitSatisfies
  <2>2. \A p \in Participants, n \in Numbers : round[p][n].sent = 0 /\ nskel = 0
    BY DEF Init, NoRound
  <2>3. SkeletonOK
    BY <2>2 DEF SkeletonOK, Sending, Init, NoLoop
  <2>4. HandOK
    BY DEF HandOK, Init, NoHand
  <2>5. ReturnOK
    BY DEF ReturnOK, In, Init, NoLoop
  <2> QED
    BY <2>1, <2>3, <2>4, <2>5 DEF ReturnInv
<1>2. ReturnInv /\ [Next]_vars => ReturnInv'
  BY NextKeeps, SkeletonStep, HandStep, ReturnStep DEF ReturnInv
<1> QED
  BY <1>1, <1>2, PTL DEF Spec

\* SignedHasReturn: during signing, whoever counts as signed has returned the skeleton
\* of this round (_handle_psbt_accept against _assemble_psbt), but for a late acceptance.
THEOREM SignedReturned == Spec => []SignedHasReturn
<1>1. ReturnInv => SignedHasReturn
  BY DEF ReturnInv, ReturnOK, SignedHasReturn, Returned, Remaining, In, Back
<1> QED
  BY <1>1, ReturnInvariant, PTL

-----------------------------------------------------------------------------
(***************************************************************************)
(* Reminders.                                                              *)
(***************************************************************************)
Ticking == loop.pc \in {"sign", "count", "blacklist"}

\* The tick may still have something to say to p about this round.
Watched(p) == mix.st = "signing" /\ (row[p].st = "signing" \/ (Ticking /\ p \in loop.todo))

\* p got a reminder of a band that reminder_count has not reached.
Unrecorded(p) == \E l \in warned[p] : l > row[p].count

Counting(p) == loop.pc = "count" /\ p \in loop.cur

\* Every message about a level p had already been told of was paid for by a crash:
\* a reminder that is not on record yet is being recorded, or its tick was cut off.
Reminded(p) ==
  /\ dms[p] <= Cardinality(warned[p]) + crashes
  /\ Watched(p) => \A l \in warned[p] : l <= age
  /\ Watched(p) /\ Unrecorded(p) => Counting(p) \/ dms[p] < Cardinality(warned[p]) + crashes
  /\ Ticking /\ p \in loop.todo => loop.counts[p] = row[p].count
  /\ mix.st = "assembling" /\ row[p].st = "signing" => warned[p] = {} /\ dms[p] = 0 /\ age = 0
  /\ mix.st = "collecting" => row[p].st # "signing"
  /\ loop.pc \in {"recover", "reset"} /\ row[p].st = "signing" => p \in loop.todo \cup loop.cur
  /\ p \in loop.cur => p \notin loop.todo

\* The bands the process has been down for, counting an outage in full once it is over.
Skipped == IF down = Up THEN crashes * MaxSkip ELSE crashes * MaxSkip - MaxSkip + down

\* Whoever has had no reminder of this round was watched by the last tick of every
\* band, so that at most one band has passed but for those the process was down.
Warned(p) ==
  /\ row[p].st = "paid" => row[p].count = 0
  /\ Sending /\ p \in loop.todo \cup loop.cur => row[p].st # "ghosted"
  /\ Ticking /\ p \in loop.todo => row[p].st # "paid"
  /\ Counting(p) => warned[p] # {} /\ row[p].st # "paid"
  /\ p \notin late =>
       /\ mix.st \in {"assembling", "collecting"} /\ row[p].st # "ghosted" => row[p].count = 0
       /\ Watched(p) /\ row[p].count # 0 => warned[p] # {}
       /\ lost = {} /\ warned[p] = {} =>
            /\ Watched(p) => (ticked => age = 0) /\ age <= 1 + Skipped
            /\ Ticking /\ row[p].st = "signing" /\ p \notin loop.todo => age = 0

TickOK == Ticking => ~ticked

WaryInv == SigningInv /\ TickOK /\ \A p \in Participants : Reminded(p) /\ Warned(p)

\* What most steps leave alone of what the invariant says of p,
Still(p) ==
  /\ row'[p].st = row[p].st /\ row'[p].count = row[p].count
  /\ warned'[p] = warned[p] /\ dms'[p] = dms[p]
  /\ age' = age /\ crashes' = crashes /\ down' = down
  /\ lost \subseteq lost' /\ late \subseteq late'

\* and how they may move the loop.
Eased(p) ==
  /\ mix'.st = mix.st \/ mix'.st \in {"broadcast", "cancelled"}
  /\ Counting(p)' <=> Counting(p)
  /\ Ticking' => Ticking /\ (p \in loop'.todo <=> p \in loop.todo) /\ loop'.counts = loop.counts
  /\ loop'.pc \in {"recover", "reset"} =>
       /\ loop.pc \in {"recover", "reset"}
       /\ p \in loop.todo \cup loop.cur => p \in loop'.todo \cup loop'.cur
  /\ p \in loop'.cur => p \notin loop'.todo
  /\ Sending' /\ p \in loop'.todo \cup loop'.cur => Sending /\ p \in loop.todo \cup loop.cur
  /\ ticked' => ticked \/ lost' # {}

\* Steps that do neither more nor less keep what the invariant says of a participant.
LEMMA EasedKeeps ==
  ASSUME NEW q \in Participants, Reminded(q), Warned(q), Still(q), Eased(q)
  PROVE  Reminded(q)' /\ Warned(q)'
<1>1. Skipped' = Skipped
  BY DEF Skipped, Still
<1>2. Watched(q)' => Watched(q)
  BY DEF Watched, Still, Eased
<1>3. Unrecorded(q)' => Unrecorded(q)
  BY DEF Unrecorded, Still
<1>4. Reminded(q)'
  BY <1>2, <1>3 DEF Reminded, Still, Eased
<1>5. q \notin late' => q \notin late
  BY DEF Still
<1>6. lost' = {} => lost = {}
  BY DEF Still
<1>7. (q \notin late /\ lost = {} /\ warned[q] = {} =>
            /\ Watched(q) => (ticked => age = 0) /\ age <= 1 + Skipped
            /\ Ticking /\ row[q].st = "signing" /\ q \notin loop.todo => age = 0)'
  BY <1>1, <1>2, <1>5, <1>6 DEF Warned, Still, Eased
<1>8. Warned(q)'
  BY <1>2, <1>5, <1>7 DEF Warned, Still, Eased
<1> QED
  BY <1>4, <1>8

\* The steps that leave the row, the reminders and the clock of q alone.
LEMMA Stills ==
  ASSUME SigningInv, NEW q \in Participants,
         \/ Combine \/ TooManyGhosts \/ Wait \/ BeginTick \/ Assemble \/ BeginSigning
         \/ Recover \/ Reopen \/ Advance \/ UNCHANGED vars
         \/ \E p \in Participants :
              \/ Record(p) \/ Deliver(p) \/ Blacklist(p) \/ Quiet(p) \/ ClearOutputs(p)
              \/ Vanish(p) \/ Receive(p) \/ Store(p) \/ Readdress(p)
         \/ \E p \in Participants \ {q} :
              Ghost(p) \/ Remind(p) \/ Count(p) \/ Reset(p) \/ Accept(p)
  PROVE  Still(q)
<1> USE DEF Still, db, history, outside
<1>0. row \in [Participants -> Rows]
  BY DEF SigningInv, Typed, RowT
<1>1. CASE Combine \/ TooManyGhosts \/ Wait \/ BeginTick \/ Assemble \/ BeginSigning
  BY <1>1 DEF Combine, TooManyGhosts, Wait, BeginTick, Assemble, BeginSigning
<1>2. CASE Reopen \/ Advance \/ UNCHANGED vars
  BY <1>2 DEF Reopen, Advance, vars
<1>3. CASE Recover
  BY <1>0, <1>3 DEF Recover, Rows
<1>4. ASSUME NEW p \in Participants, Record(p) \/ Blacklist(p) \/ Quiet(p) \/ Vanish(p) \/ Receive(p) \/ Store(p)
      PROVE  Still(q)
  BY <1>4 DEF Record, Blacklist, Quiet, Vanish, Receive, Store
<1>5. ASSUME NEW p \in Participants, SendFails(p) PROVE Still(q)
  BY <1>5 DEF SendFails
<1>6. ASSUME NEW p \in Participants, Deliver(p) PROVE Still(q)
  BY <1>5, <1>6 DEF Deliver
<1>7. ASSUME NEW p \in Participants, ClearOutputs(p) \/ Readdress(p) PROVE Still(q)
  <2>1. row' = [row EXCEPT ![p].outs = FALSE] \/ row' = [row EXCEPT ![p].outs = TRUE]
    BY <1>7 DEF ClearOutputs, Readdress
  <2>2. row'[q].st = row[q].st /\ row'[q].count = row[q].count
    BY <1>0, <2>1 DEF Rows
  <2> QED
    BY <1>7, <2>2 DEF ClearOutputs, Readdress
<1>8. ASSUME NEW p \in Participants \ {q}, Ghost(p) \/ Count(p) \/ Reset(p) \/ Accept(p)
      PROVE  Still(q)
  <2>1. row'[q] = row[q]
    BY <1>0, <1>8 DEF Ghost, Count, Reset, Accept
  <2> QED
    BY <1>8, <2>1 DEF Ghost, Count, Reset, Accept
<1>9. ASSUME NEW p \in Participants \ {q}, Remind(p) PROVE Still(q)
  <2>1. warned'[q] = warned[q] /\ dms'[q] = dms[q]
    BY <1>9 DEF Remind, SendFails, SigningInv, Typed, WarnT
  <2> QED
    BY <1>5, <1>9, <2>1 DEF Remind
<1> QED
  BY <1>1, <1>2, <1>3, <1>4, <1>5, <1>6, <1>7, <1>8, <1>9

\* The steps that move the loop no further for q than that.
LEMMA Eases ==
  ASSUME WaryInv, NEW q \in Participants,
         \/ Combine \/ TooManyGhosts \/ UNCHANGED vars
         \/ \E p \in Participants :
              \/ Record(p) \/ Deliver(p) \/ Blacklist(p) \/ ClearOutputs(p)
              \/ Vanish(p) \/ Receive(p) \/ Store(p) \/ Readdress(p)
         \/ \E p \in Participants \ {q} :
              Ghost(p) \/ Quiet(p) \/ Remind(p) \/ Count(p) \/ Reset(p) \/ Accept(p)
  PROVE  Eased(q)
<1> USE DEF Eased, Counting, Ticking, Sending, db, history, outside
<1>0. /\ loop \in [pc : Pcs, todo : SUBSET Participants, cur : SUBSET Participants,
                   age : 0..4, counts : [Participants -> 0..3]]
      /\ q \in loop.cur => q \notin loop.todo
      /\ \A i, j \in loop.cur : i = j
      /\ mix \in [st : {"assembling", "signing", "collecting", "broadcast", "cancelled"},
                  retries : 0..MaxGhostRetries]
  BY DEF WaryInv, Reminded, SigningInv, Typed, LoopT, MixT, RecoveryOK
<1>1. CASE Combine \/ TooManyGhosts
  BY <1>0, <1>1 DEF Combine, TooManyGhosts, NoLoop, At
<1>2. ASSUME loop' = loop, mix' = mix, ticked' = ticked PROVE Eased(q)
  BY <1>0, <1>2
<1>3. ASSUME NEW p \in Participants, Vanish(p) \/ Receive(p) \/ Store(p) \/ Readdress(p)
      PROVE  Eased(q)
  BY <1>2, <1>3 DEF Vanish, Receive, Store, Readdress
<1>4. ASSUME NEW p \in Participants, SendFails(p), loop.pc # "count" PROVE Eased(q)
  BY <1>0, <1>4 DEF SendFails, NoLoop
<1>5. ASSUME NEW p \in Participants, Record(p) PROVE Eased(q)
  <2>1. /\ loop'.pc = "deliver" /\ loop'.cur = {p} /\ loop'.todo = loop.todo \ {p}
        /\ loop.pc = "send" /\ p \in loop.todo /\ mix' = mix /\ ticked' = ticked
    BY <1>0, <1>5 DEF Record, At
  <2> QED
    BY <1>0, <2>1
<1>6. ASSUME NEW p \in Participants, Deliver(p) PROVE Eased(q)
  <2>1. loop.pc = "deliver"
    BY <1>6 DEF Deliver, At
  <2>2. CASE SendFails(p)
    BY <1>4, <2>1, <2>2
  <2>3. CASE ~SendFails(p)
    <3>1. /\ loop'.pc = "mark" /\ loop'.cur = loop.cur /\ loop'.todo = loop.todo
          /\ mix' = mix /\ ticked' = ticked
      BY <1>0, <1>6, <2>3 DEF Deliver
    <3> QED
      BY <1>0, <2>1, <3>1
  <2> QED
    BY <2>2, <2>3
<1>7. ASSUME NEW p \in Participants, Blacklist(p) PROVE Eased(q)
  <2>1. /\ loop'.pc = "sign" /\ loop'.cur = {} /\ loop'.todo = loop.todo /\ loop'.counts = loop.counts
        /\ loop.pc = "blacklist" /\ mix' = mix /\ ticked' = ticked
    BY <1>0, <1>7 DEF Blacklist, At
  <2> QED
    BY <1>0, <2>1
<1>8. ASSUME NEW p \in Participants, ClearOutputs(p) PROVE Eased(q)
  <2>1. /\ loop'.pc = "reset" /\ loop'.cur = {p} /\ loop'.todo = loop.todo \ {p}
        /\ loop.pc = "recover" /\ mix' = mix /\ ticked' = ticked /\ loop.cur = {}
    BY <1>0, <1>8 DEF ClearOutputs, At, WaryInv, SigningInv, RecoveryOK
  <2> QED
    BY <1>0, <2>1
<1>9. ASSUME NEW p \in Participants \ {q}, Ghost(p) PROVE Eased(q)
  <2>1. /\ loop'.pc = "blacklist" /\ loop'.cur = {p} /\ loop'.todo = loop.todo \ {p}
        /\ loop'.counts = loop.counts /\ loop.pc = "sign" /\ mix' = mix /\ ticked' = ticked
    BY <1>0, <1>9 DEF Ghost, At
  <2> QED
    BY <1>0, <1>9, <2>1
<1>10. ASSUME NEW p \in Participants \ {q}, Quiet(p) PROVE Eased(q)
  <2>1. /\ loop'.pc = "sign" /\ loop'.cur = loop.cur /\ loop'.todo = loop.todo \ {p}
        /\ loop'.counts = loop.counts /\ loop.pc = "sign" /\ mix' = mix /\ ticked' = ticked
    BY <1>0, <1>10 DEF Quiet, At
  <2> QED
    BY <1>0, <1>10, <2>1
<1>11. ASSUME NEW p \in Participants \ {q}, Remind(p) PROVE Eased(q)
  <2>1. loop.pc = "sign"
    BY <1>11 DEF Remind, At
  <2>2. CASE SendFails(p)
    BY <1>4, <2>1, <2>2
  <2>3. CASE ~SendFails(p)
    <3>1. /\ loop'.pc = "count" /\ loop'.cur = {p} /\ loop'.todo = loop.todo \ {p}
          /\ loop'.counts = loop.counts /\ mix' = mix /\ ticked' = ticked
      BY <1>0, <1>11, <2>3 DEF Remind
    <3> QED
      BY <1>0, <1>11, <2>1, <3>1
  <2> QED
    BY <2>2, <2>3
<1>12. ASSUME NEW p \in Participants \ {q}, Count(p) PROVE Eased(q)
  <2>1. /\ loop'.pc = "sign" /\ loop'.cur = {} /\ loop'.todo = loop.todo /\ loop'.counts = loop.counts
        /\ loop.pc = "count" /\ p \in loop.cur /\ mix' = mix /\ ticked' = ticked
    BY <1>0, <1>12 DEF Count, At
  <2> QED
    BY <1>0, <1>12, <2>1
<1>13. ASSUME NEW p \in Participants \ {q}, Reset(p) PROVE Eased(q)
  <2>1. /\ loop'.pc = "recover" /\ loop'.cur = {} /\ loop'.todo = loop.todo
        /\ loop.pc = "reset" /\ p \in loop.cur /\ mix' = mix /\ ticked' = ticked
    BY <1>0, <1>13 DEF Reset, At
  <2> QED
    BY <1>0, <1>13, <2>1
<1>14. ASSUME NEW p \in Participants \ {q}, Accept(p) PROVE Eased(q)
  BY <1>2, <1>14 DEF Accept
<1>15. CASE UNCHANGED vars
  BY <1>2, <1>15 DEF vars
<1> QED
  BY <1>1, <1>3, <1>5, <1>6, <1>7, <1>8, <1>9, <1>10, <1>11, <1>12, <1>13, <1>14, <1>15

\* The types and cardinalities the proofs about reminders compute with.
LEMMA WaryTypes ==
  ASSUME SigningInv, NEW q \in Participants
  PROVE  /\ Cardinality(warned[q]) \in Nat /\ dms[q] \in Nat /\ crashes \in Nat
         /\ age \in 0..4 /\ down \in 0..(MaxSkip + 1) /\ ticked \in BOOLEAN
         /\ warned[q] \subseteq 1..3 /\ row[q] \in Rows /\ row[q].count \in 0..3
         /\ crashes * MaxSkip \in Nat
         /\ (crashes + 1) * MaxSkip = crashes * MaxSkip + MaxSkip
         /\ \A l \in 1..3 : /\ Cardinality(warned[q] \cup {l}) \in Nat
                            /\ l \notin warned[q] =>
                                 Cardinality(warned[q] \cup {l}) = Cardinality(warned[q]) + 1
                            /\ l \in warned[q] =>
                                 Cardinality(warned[q] \cup {l}) = Cardinality(warned[q])
<1>1. warned[q] \subseteq 1..3 /\ dms[q] \in Nat /\ crashes \in Nat /\ row[q] \in Rows
      /\ age \in 0..4 /\ down \in 0..(MaxSkip + 1) /\ ticked \in BOOLEAN
  BY SigningAssumption DEF SigningInv, Typed, WarnT, FaultT, RowT, TimeT, Up
<1>2. IsFiniteSet(warned[q])
  <2>0. \A a \in Int, b \in Int : IsFiniteSet(a..b)
    BY FS_Interval
  <2>1. IsFiniteSet(1..3)
    <3>1. 1 \in Int /\ 3 \in Int
      OBVIOUS
    <3> QED
      BY <2>0, <3>1, Zenon
  <2>2. warned[q] \in SUBSET (1..3)
    BY <1>1
  <2> QED
    BY <2>1, <2>2, FS_Subset
<1>3. \A l : /\ Cardinality(warned[q] \cup {l}) \in Nat
             /\ Cardinality(warned[q] \cup {l}) =
                  IF l \in warned[q] THEN Cardinality(warned[q]) ELSE Cardinality(warned[q]) + 1
  BY <1>2, FS_AddElement, FS_CardinalityType
<1>4. crashes * MaxSkip \in Nat /\ (crashes + 1) * MaxSkip = crashes * MaxSkip + MaxSkip
  BY <1>1, SigningAssumption
<1>5. row[q].count \in 0..3
  BY <1>1 DEF Rows
<1> QED
  BY <1>1, <1>2, <1>3, <1>4, <1>5, FS_CardinalityType

\* A band passes.
LEMMA TimeWary ==
  ASSUME WaryInv, NEW q \in Participants, TimePasses
  PROVE  Reminded(q)' /\ Warned(q)'
<1> USE DEF db, history
<1>0. SigningInv /\ Reminded(q) /\ Warned(q) /\ loop = NoLoop
  BY SigningAssumption DEF WaryInv, TimePasses, SigningInv, ClockOK, Typed, TimeT, Up
<1>1. /\ mix' = mix /\ row' = row /\ warned' = warned /\ dms' = dms /\ loop' = loop
      /\ crashes' = crashes /\ lost' = lost /\ late' = late /\ age' = age + 1
      /\ mix.st = "signing" /\ ticked' = FALSE
  BY DEF TimePasses
<1>2. age \in 0..4 /\ warned[q] \subseteq 1..3 /\ crashes * MaxSkip \in Nat
      /\ down \in 0..(MaxSkip + 1) /\ MaxSkip \in Nat
  BY <1>0, WaryTypes, SigningAssumption
<1>3. (Watched(q)' <=> Watched(q)) /\ (Unrecorded(q)' <=> Unrecorded(q))
      /\ (Counting(q)' <=> Counting(q)) /\ ~Counting(q) /\ ~Ticking /\ ~Ticking' /\ ~Sending'
  BY <1>0, <1>1 DEF Watched, Unrecorded, Counting, Ticking, Sending, NoLoop
<1>4. Reminded(q)'
  <2>1. Watched(q)' => \A l \in warned'[q] : l <= age'
    BY <1>0, <1>1, <1>2, <1>3 DEF Reminded
  <2> QED
    BY <1>0, <1>1, <1>3, <2>1 DEF Reminded
<1>5. CASE down = Up /\ ticked /\ down' = down
  <2>1. Skipped' = crashes * MaxSkip
    BY <1>1, <1>5 DEF Skipped
  <2>2. q \notin late' /\ lost' = {} /\ warned'[q] = {} /\ Watched(q)' => age' <= 1 + Skipped'
    BY <1>0, <1>1, <1>2, <1>3, <1>5, <2>1 DEF Warned
  <2> QED
    BY <1>0, <1>1, <1>3, <1>4, <2>2 DEF Warned
<1>6. CASE down < MaxSkip /\ down' = down + 1
  <2>1. Skipped' = Skipped + 1 /\ Skipped \in Int
    BY <1>1, <1>2, <1>6 DEF Skipped, Up
  <2>2. q \notin late' /\ lost' = {} /\ warned'[q] = {} /\ Watched(q)' => age' <= 1 + Skipped'
    BY <1>0, <1>1, <1>2, <1>3, <2>1 DEF Warned
  <2> QED
    BY <1>0, <1>1, <1>3, <1>4, <2>2 DEF Warned
<1> QED
  BY <1>5, <1>6 DEF TimePasses

\* A crash allows for the reminder it keeps from being recorded.
LEMMA CrashWary ==
  ASSUME WaryInv, NEW q \in Participants, Crash
  PROVE  Reminded(q)' /\ Warned(q)'
<1> USE DEF db, history
<1>0. SigningInv /\ Reminded(q) /\ Warned(q)
  BY DEF WaryInv
<1>1. /\ mix' = mix /\ row' = row /\ warned' = warned /\ dms' = dms /\ loop' = NoLoop
      /\ crashes' = crashes + 1 /\ lost' = lost /\ late' = late /\ age' = age /\ ticked' = ticked
      /\ down = Up /\ down' = 0
  BY DEF Crash
<1>2. age \in 0..4 /\ crashes * MaxSkip \in Nat /\ crashes \in Nat /\ dms[q] \in Nat
      /\ Cardinality(warned[q]) \in Nat /\ MaxSkip \in Nat
      /\ (crashes + 1) * MaxSkip = crashes * MaxSkip + MaxSkip
  BY <1>0, WaryTypes, SigningAssumption
<1>3. (Watched(q)' => Watched(q)) /\ (Unrecorded(q)' <=> Unrecorded(q))
      /\ ~Counting(q)' /\ ~Ticking' /\ ~Sending' /\ loop'.cur = {} /\ loop'.pc = "idle"
  BY <1>1 DEF Watched, Unrecorded, Counting, Ticking, Sending, NoLoop
<1>4. dms[q] < Cardinality(warned[q]) + (crashes + 1)
  BY <1>0, <1>2 DEF Reminded
<1>5. Reminded(q)'
  BY <1>0, <1>1, <1>2, <1>3, <1>4 DEF Reminded
<1>6. Skipped' = Skipped
  BY <1>1, <1>2 DEF Skipped, Up
<1>7. Warned(q)'
  BY <1>0, <1>1, <1>3, <1>6 DEF Warned
<1> QED
  BY <1>5, <1>7

\* An outage that is over counts for all the bands it might have lasted.
LEMMA RestartWary ==
  ASSUME WaryInv, NEW q \in Participants, Restart
  PROVE  Reminded(q)' /\ Warned(q)'
<1> USE DEF db, history, outside
<1>0. SigningInv /\ Reminded(q) /\ Warned(q)
  BY DEF WaryInv
<1>1. /\ mix' = mix /\ row' = row /\ warned' = warned /\ dms' = dms /\ loop' = loop
      /\ crashes' = crashes /\ lost' = lost /\ late' = late /\ age' = age /\ ticked' = ticked
      /\ down # Up /\ down' = Up
  BY DEF Restart
<1>2. age \in 0..4 /\ crashes * MaxSkip \in Nat /\ MaxSkip \in Nat /\ down \in 0..(MaxSkip + 1)
  BY <1>0, WaryTypes, SigningAssumption
<1>3. (Watched(q)' <=> Watched(q)) /\ (Unrecorded(q)' <=> Unrecorded(q))
      /\ (Counting(q)' <=> Counting(q)) /\ (Ticking' <=> Ticking) /\ (Sending' <=> Sending)
  BY <1>1 DEF Watched, Unrecorded, Counting, Ticking, Sending
<1>4. Reminded(q)'
  BY <1>0, <1>1, <1>3 DEF Reminded
<1>5. Skipped \in Int /\ Skipped' \in Int /\ Skipped <= Skipped'
  BY <1>1, <1>2 DEF Skipped, Up
<1>6. age <= 1 + Skipped => age' <= 1 + Skipped'
  <2>1. PICK s \in Int : s = Skipped
    BY <1>5
  <2>2. PICK t \in Int : t = Skipped'
    BY <1>5
  <2>3. s <= t
    BY <1>5, <2>1, <2>2
  <2>4. age <= 1 + s => age <= 1 + t
    BY <1>2, <2>3
  <2> QED
    BY <1>1, <2>1, <2>2, <2>4
<1>7. Warned(q)'
  BY <1>0, <1>1, <1>3, <1>6 DEF Warned
<1> QED
  BY <1>4, <1>7

\* The round starts for p.
LEMMA MarkWary ==
  ASSUME WaryInv, NEW q \in Participants, NEW p \in Participants, MarkSigning(p)
  PROVE  Reminded(q)' /\ Warned(q)'
<1>0. SigningInv /\ Reminded(q) /\ Warned(q)
  BY DEF WaryInv
<1>1. /\ mix' = mix /\ crashes' = crashes /\ lost' = lost /\ late' = late /\ age' = 0
      /\ loop.pc = "mark" /\ p \in loop.cur /\ loop'.pc = "send" /\ loop'.cur = {}
      /\ loop'.todo = loop.todo /\ mix.st = "assembling"
  BY <1>0 DEF MarkSigning, At, SigningInv, PhaseOK, Typed, LoopT
<1>2. ~Watched(q)' /\ ~Counting(q)' /\ ~Ticking' /\ Sending
  BY <1>1 DEF Watched, Counting, Ticking, Sending
<1>3. CASE q = p
  <2>1. row'[q].st = "signing" /\ row'[q].count = row[q].count
    BY <1>0, <1>3 DEF MarkSigning, SigningInv, Typed, RowT, Rows
  <2>2. warned'[q] = {} /\ dms'[q] = 0
    BY <1>0, <1>3 DEF MarkSigning, SigningInv, Typed, WarnT
  <2>3. Cardinality(warned'[q]) = 0 /\ crashes' \in Nat
    BY <1>0, <1>1, <2>2, WaryTypes, FS_EmptySet
  <2>4. Reminded(q)'
    BY <1>1, <1>2, <2>1, <2>2, <2>3 DEF Reminded
  <2>5. Warned(q)'
    BY <1>0, <1>1, <1>2, <1>3, <2>1 DEF Warned
  <2> QED
    BY <2>4, <2>5
<1>4. CASE q # p
  <2>1. row'[q] = row[q] /\ warned'[q] = warned[q] /\ dms'[q] = dms[q]
    BY <1>0, <1>4 DEF MarkSigning, SigningInv, Typed, WarnT, RowT
  <2>2. Reminded(q)'
    BY <1>0, <1>1, <1>2, <2>1 DEF Reminded
  <2>3. Warned(q)'
    BY <1>0, <1>1, <1>2, <2>1 DEF Warned
  <2> QED
    BY <2>2, <2>3
<1> QED
  BY <1>3, <1>4

\* A tick begins with the rows as they are.
LEMMA TickWary ==
  ASSUME WaryInv, NEW q \in Participants, BeginTick
  PROVE  Reminded(q)' /\ Warned(q)'
<1>0. SigningInv /\ Reminded(q) /\ Warned(q) /\ Still(q) /\ row[q] \in Rows
  BY Stills DEF WaryInv, SigningInv, Typed, RowT
<1>1. /\ mix' = mix /\ ticked' = ticked /\ lost' = lost /\ late' = late
      /\ loop'.pc = "sign" /\ loop'.cur = {} /\ loop'.todo = In({"signing"})
      /\ loop'.counts[q] = row[q].count
      /\ loop.pc = "idle" /\ mix.st = "signing"
  BY DEF BeginTick, At, Pending, db, outside, history
<1>2. q \in loop'.todo <=> row[q].st = "signing"
  BY <1>1 DEF In
<1>3. (Watched(q)' => Watched(q)) /\ (Unrecorded(q)' <=> Unrecorded(q))
      /\ ~Counting(q) /\ ~Counting(q)' /\ ~Sending'
  BY <1>0, <1>1, <1>2 DEF Watched, Unrecorded, Counting, Ticking, Sending, Still
<1>4. Skipped' = Skipped
  BY <1>0 DEF Skipped, Still
<1>5. Reminded(q)'
  BY <1>0, <1>1, <1>2, <1>3 DEF Reminded, Still
<1>6. Warned(q)'
  BY <1>0, <1>1, <1>2, <1>3, <1>4 DEF Warned, Still
<1> QED
  BY <1>5, <1>6

\* A tick that ran its course leaves nobody unwarned once the first band has passed.
LEMMA WaitWary ==
  ASSUME WaryInv, NEW q \in Participants, Wait
  PROVE  Reminded(q)' /\ Warned(q)'
<1>0. SigningInv /\ Reminded(q) /\ Warned(q) /\ Still(q)
  BY Stills DEF WaryInv
<1>1. /\ mix' = mix /\ ticked' = TRUE /\ lost' = lost /\ late' = late
      /\ loop' = NoLoop /\ loop.pc = "sign" /\ loop.todo = {} /\ mix.st = "signing"
  BY <1>0 DEF Wait, At, db, outside, history, SigningInv, PhaseOK
<1>3. /\ Watched(q)' => Watched(q) /\ Ticking /\ row[q].st = "signing" /\ q \notin loop.todo
      /\ Unrecorded(q)' <=> Unrecorded(q)
      /\ ~Counting(q) /\ ~Counting(q)' /\ ~Sending' /\ ~Ticking' /\ loop'.pc = "idle"
      /\ loop'.cur = {}
  BY <1>0, <1>1 DEF Watched, Unrecorded, Counting, Ticking, Sending, Still, NoLoop
<1>4. Skipped' = Skipped
  BY <1>0 DEF Skipped, Still
<1>5. Reminded(q)'
  BY <1>0, <1>1, <1>3 DEF Reminded, Still
<1>6. Warned(q)'
  BY <1>0, <1>1, <1>3, <1>4 DEF Warned, Still
<1> QED
  BY <1>5, <1>6

\* The clock has just started for those who are waited for.
LEMMA BeginWary ==
  ASSUME WaryInv, NEW q \in Participants, BeginSigning
  PROVE  Reminded(q)' /\ Warned(q)'
<1>0. SigningInv /\ Reminded(q) /\ Warned(q) /\ Still(q) /\ age \in 0..4
  BY Stills DEF WaryInv, SigningInv, Typed, TimeT
<1>1. /\ mix'.st = "signing" /\ ticked' = FALSE /\ lost' = lost /\ late' = late
      /\ loop' = NoLoop /\ loop.pc = "send" /\ mix.st = "assembling" /\ down = Up
  BY <1>0 DEF BeginSigning, At, db, outside, history, SigningInv, PhaseOK, Typed, MixT
<1>3. /\ Watched(q)' => row[q].st = "signing"
      /\ Unrecorded(q)' <=> Unrecorded(q)
      /\ ~Counting(q)' /\ ~Sending' /\ ~Ticking' /\ loop'.pc = "idle" /\ loop'.cur = {}
  BY <1>0, <1>1 DEF Watched, Unrecorded, Counting, Ticking, Sending, Still, NoLoop
<1>4. Skipped' = Skipped /\ Skipped \in Nat
  BY <1>0, <1>1, WaryTypes DEF Skipped, Still
<1>5. row[q].st = "signing" => warned[q] = {} /\ dms[q] = 0 /\ age = 0
  BY <1>0, <1>1 DEF Reminded
<1>6. ~(Watched(q)' /\ Unrecorded(q)')
  BY <1>3, <1>5 DEF Unrecorded
<1>7. Reminded(q)'
  BY <1>0, <1>1, <1>3, <1>5, <1>6 DEF Reminded, Still
<1>8. row[q].st = "signing" => age' <= 1 + Skipped'
  BY <1>0, <1>4, <1>5 DEF Still
<1>9. Warned(q)'
  BY <1>0, <1>1, <1>3, <1>8 DEF Warned, Still
<1> QED
  BY <1>7, <1>9

\* No ghost is put into a round.
LEMMA AssembleWary ==
  ASSUME WaryInv, NEW q \in Participants, Assemble
  PROVE  Reminded(q)' /\ Warned(q)'
<1>0. SigningInv /\ Reminded(q) /\ Warned(q) /\ Still(q)
  BY Stills DEF WaryInv
<1>1. /\ mix' = mix /\ lost' = lost /\ late' = late
      /\ loop'.pc = "send" /\ loop'.cur = {} /\ loop'.todo = In({"paid", "signing", "signed"})
      /\ mix.st = "assembling"
  BY DEF Assemble, NoLoop, db, outside, history
<1>3. ~Watched(q)' /\ ~Counting(q)' /\ ~Ticking'
  BY <1>1 DEF Watched, Counting, Ticking
<1>4. q \in loop'.todo => row[q].st # "ghosted"
  BY <1>1 DEF In
<1>5. Reminded(q)'
  BY <1>0, <1>1, <1>3 DEF Reminded, Still
<1>6. Warned(q)'
  BY <1>0, <1>1, <1>3, <1>4 DEF Warned, Still
<1> QED
  BY <1>5, <1>6

\* Whoever is still signing is to start over.
LEMMA RecoverWary ==
  ASSUME WaryInv, NEW q \in Participants, Recover
  PROVE  Reminded(q)' /\ Warned(q)'
<1>0. SigningInv /\ Reminded(q) /\ Warned(q) /\ Still(q) /\ mix.st = "signing"
  BY Stills DEF WaryInv, Recover, At, SigningInv, PhaseOK
<1>1. /\ mix' = mix /\ lost' = lost /\ late' = late /\ ticked' = ticked
      /\ loop'.pc = "recover" /\ loop'.cur = {} /\ loop'.todo = In({"signing", "signed"})
      /\ loop.pc = "sign"
  BY DEF Recover, At, NoLoop, Remaining, outside, history
<1>3. (Watched(q)' => Watched(q)) /\ (Unrecorded(q)' <=> Unrecorded(q))
      /\ ~Counting(q) /\ ~Counting(q)' /\ ~Sending' /\ ~Ticking'
  BY <1>0, <1>1 DEF Watched, Unrecorded, Counting, Ticking, Sending, Still
<1>4. row[q].st = "signing" => q \in loop'.todo
  BY <1>1 DEF In
<1>5. Skipped' = Skipped
  BY <1>0 DEF Skipped, Still
<1>6. Reminded(q)'
  BY <1>0, <1>1, <1>3, <1>4 DEF Reminded, Still
<1>7. Warned(q)'
  BY <1>0, <1>1, <1>3, <1>5 DEF Warned, Still
<1> QED
  BY <1>6, <1>7

\* A mix that reopens has started everybody over but for those who were late.
LEMMA ReopenWary ==
  ASSUME WaryInv, NEW q \in Participants, Reopen \/ Advance
  PROVE  Reminded(q)' /\ Warned(q)'
<1>0. SigningInv /\ Reminded(q) /\ Warned(q) /\ Still(q) /\ row[q] \in Rows
  BY Stills DEF WaryInv, SigningInv, Typed, RowT
<1>1. /\ lost' = lost /\ late' = late /\ loop'.pc = "idle"
      /\ q \in loop'.cur => q \notin loop'.todo
  <2>1. CASE Reopen
    BY <2>1 DEF Reopen, NoLoop, outside, history
  <2>2. CASE Advance
    BY <1>0, <2>2 DEF Advance, At, Reminded, outside, history
  <2> QED
    BY <2>1, <2>2
<1>2. /\ mix'.st \in {"collecting", "assembling", "cancelled"}
      /\ mix'.st = "assembling" => mix.st = "collecting"
      /\ row[q].st # "signing"
      /\ q \notin late /\ row[q].st # "ghosted" => row[q].count = 0
  <2>1. CASE Reopen
    <3>1. loop.pc = "recover" /\ loop.cur = {} /\ loop.todo = {} /\ mix'.st = "collecting"
      BY <1>0, <2>1 DEF Reopen, At, SigningInv, RecoveryOK
    <3>2. row[q].st # "signing"
      BY <1>0, <3>1 DEF Reminded
    <3>3. q \notin late => row[q].st \notin {"signing", "signed"}
      BY <1>0, <3>1 DEF SigningInv, RecoveryOK, In
    <3>4. q \notin late /\ row[q].st # "ghosted" => row[q].st = "paid"
      BY <1>0, <3>3 DEF Rows
    <3> QED
      BY <1>0, <3>1, <3>2, <3>4 DEF Warned
  <2>2. CASE Advance
    <3>1. mix.st = "collecting" /\ mix'.st \in {"assembling", "cancelled"}
      BY <1>0, <2>2 DEF Advance, SigningInv, Typed, MixT
    <3> QED
      BY <1>0, <3>1 DEF Reminded, Warned
  <2> QED
    BY <2>1, <2>2
<1>3. ~Watched(q)' /\ ~Counting(q)' /\ ~Ticking' /\ ~Sending'
  BY <1>1, <1>2 DEF Watched, Counting, Ticking, Sending
<1>4. Reminded(q)'
  BY <1>0, <1>1, <1>2, <1>3 DEF Reminded, Still
<1>5. Warned(q)'
  BY <1>0, <1>1, <1>2, <1>3 DEF Warned, Still
<1> QED
  BY <1>4, <1>5

\* A ghost is no longer watched.
LEMMA GhostWary ==
  ASSUME WaryInv, NEW q \in Participants, Ghost(q)
  PROVE  Reminded(q)' /\ Warned(q)'
<1> USE DEF db, history, outside
<1>0. SigningInv /\ Reminded(q) /\ Warned(q)
  BY DEF WaryInv
<1>1. /\ mix' = mix /\ warned' = warned /\ dms' = dms /\ crashes' = crashes
      /\ lost' = lost /\ late' = late /\ age' = age
      /\ loop'.pc = "blacklist" /\ loop'.cur = {q} /\ loop'.todo = loop.todo \ {q}
      /\ row'[q].st = "ghosted" /\ loop.pc = "sign"
  BY <1>0 DEF Ghost, At, SigningInv, Typed, LoopT, RowT, Rows
<1>2. ~Watched(q)' /\ ~Counting(q)' /\ ~Sending' /\ q \notin loop'.todo /\ mix.st = "signing"
  BY <1>0, <1>1 DEF Watched, Counting, Sending, SigningInv, PhaseOK
<1>3. Reminded(q)'
  BY <1>0, <1>1, <1>2 DEF Reminded
<1>4. Warned(q)'
  BY <1>0, <1>1, <1>2 DEF Warned
<1> QED
  BY <1>3, <1>4

\* Whoever is passed over has had a reminder on record, unless no band has passed.
LEMMA QuietWary ==
  ASSUME WaryInv, NEW q \in Participants, Quiet(q)
  PROVE  Reminded(q)' /\ Warned(q)'
<1>0. SigningInv /\ Reminded(q) /\ Warned(q) /\ Still(q) /\ row[q].count \in 0..3 /\ age \in 0..4
  BY Stills, WaryTypes DEF WaryInv
<1>1. /\ mix' = mix /\ lost' = lost /\ late' = late /\ ticked' = ticked
      /\ loop'.pc = "sign" /\ loop'.cur = loop.cur /\ loop'.todo = loop.todo \ {q}
      /\ loop.pc = "sign" /\ q \in loop.todo /\ loop.age <= loop.counts[q] /\ mix.st = "signing"
      /\ loop.age = age
  BY <1>0 DEF Quiet, At, Level, SigningInv, Typed, LoopT, PhaseOK, ClockOK, db, outside, history
<1>2. age <= row[q].count /\ Ticking /\ Ticking' /\ Watched(q)
  BY <1>0, <1>1 DEF Reminded, Ticking, Watched
<1>3. (Unrecorded(q)' <=> Unrecorded(q)) /\ ~Counting(q) /\ ~Counting(q)' /\ ~Sending'
      /\ q \notin loop'.todo
  BY <1>0, <1>1 DEF Unrecorded, Counting, Sending, Still
<1>4. q \notin late /\ warned[q] = {} => age = 0
  <2>1. q \notin late /\ warned[q] = {} => row[q].count = 0
    BY <1>0, <1>2 DEF Warned
  <2> QED
    BY <1>0, <1>2, <2>1
<1>5. Skipped' = Skipped
  BY <1>0 DEF Skipped, Still
<1>6. Reminded(q)'
  BY <1>0, <1>1, <1>2, <1>3 DEF Reminded, Still
<1>7. Warned(q)'
  BY <1>0, <1>1, <1>2, <1>3, <1>4, <1>5 DEF Warned, Still
<1> QED
  BY <1>6, <1>7

\* A level p had already been told of is sent again only when a crash cut off its record.
LEMMA RemindWary ==
  ASSUME WaryInv, NEW q \in Participants, Remind(q), ~SendFails(q)
  PROVE  Reminded(q)' /\ Warned(q)'
<1> USE DEF db, history, outside
<1>0. SigningInv /\ Reminded(q) /\ Warned(q)
  BY DEF WaryInv
<1>1. /\ mix' = mix /\ row' = row /\ crashes' = crashes /\ lost' = lost /\ late' = late /\ age' = age
      /\ loop'.pc = "count" /\ loop'.cur = {q} /\ loop'.todo = loop.todo \ {q}
      /\ loop.pc = "sign" /\ q \in loop.todo /\ loop.age < 4 /\ loop.age > loop.counts[q]
      /\ mix.st = "signing" /\ loop.age = age
  BY <1>0 DEF Remind, At, Level, SigningInv, Typed, LoopT, PhaseOK, ClockOK
<1>2. warned'[q] = warned[q] \cup {age} /\ dms'[q] = dms[q] + 1
  <2>1. warned' = [warned EXCEPT ![q] = @ \cup {age}] /\ dms' = [dms EXCEPT ![q] = @ + 1]
    BY <1>1 DEF Remind, Level
  <2> QED
    BY <1>0, <2>1 DEF SigningInv, Typed, WarnT
<1>3. /\ Cardinality(warned[q]) \in Nat /\ dms[q] \in Nat /\ crashes \in Nat
      /\ row[q].count \in 0..3 /\ age \in 0..4
      /\ \A l \in 1..3 : /\ Cardinality(warned[q] \cup {l}) \in Nat
                         /\ l \notin warned[q] =>
                              Cardinality(warned[q] \cup {l}) = Cardinality(warned[q]) + 1
                         /\ l \in warned[q] =>
                              Cardinality(warned[q] \cup {l}) = Cardinality(warned[q])
  BY <1>0, WaryTypes
<1>4. Watched(q) /\ Ticking /\ Ticking' /\ ~Counting(q) /\ Counting(q)' /\ ~Sending' /\ q \notin loop'.todo
  BY <1>1 DEF Watched, Ticking, Counting, Sending
<1>5. age > row[q].count /\ age \in 1..3
  <2>1. loop.counts[q] = row[q].count
    BY <1>0, <1>1, <1>4 DEF Reminded
  <2> QED
    BY <1>1, <1>3, <2>1
<1>6. dms'[q] <= Cardinality(warned'[q]) + crashes
  <2>1. CASE age \notin warned[q]
    <3>1. Cardinality(warned'[q]) = Cardinality(warned[q]) + 1
      BY <1>2, <1>3, <1>5, <2>1
    <3>2. dms[q] <= Cardinality(warned[q]) + crashes
      BY <1>0 DEF Reminded
    <3> QED
      BY <1>2, <1>3, <3>1, <3>2
  <2>2. CASE age \in warned[q]
    <3>1. Cardinality(warned'[q]) = Cardinality(warned[q])
      BY <1>2, <1>3, <1>5, <2>2
    <3>2. Unrecorded(q)
      BY <1>5, <2>2 DEF Unrecorded
    <3>3. dms[q] < Cardinality(warned[q]) + crashes
      BY <1>0, <1>4, <3>2 DEF Reminded
    <3> QED
      BY <1>2, <1>3, <3>1, <3>3
  <2> QED
    BY <2>1, <2>2
<1>7. \A l \in warned'[q] : l <= age
  <2>1. \A l \in warned[q] : l <= age
    BY <1>0, <1>4 DEF Reminded
  <2> QED
    BY <1>2, <1>3, <2>1
<1>8. Reminded(q)'
  BY <1>1, <1>4, <1>6, <1>7 DEF Reminded
<1>9. warned'[q] # {}
  BY <1>2
<1>10. Warned(q)'
  BY <1>0, <1>1, <1>4, <1>9 DEF Warned
<1> QED
  BY <1>8, <1>10

\* What has been sent is on record.
LEMMA CountWary ==
  ASSUME WaryInv, NEW q \in Participants, Count(q)
  PROVE  Reminded(q)' /\ Warned(q)'
<1> USE DEF db, history, outside
<1>0. SigningInv /\ Reminded(q) /\ Warned(q)
  BY DEF WaryInv
<1>1. /\ mix' = mix /\ warned' = warned /\ dms' = dms /\ crashes' = crashes /\ down' = down
      /\ lost' = lost /\ late' = late /\ age' = age /\ ticked' = ticked
      /\ loop'.pc = "sign" /\ loop'.cur = {} /\ loop'.todo = loop.todo
      /\ loop.pc = "count" /\ q \in loop.cur /\ loop.age = age /\ mix.st = "signing"
  BY <1>0 DEF Count, At, SigningInv, Typed, LoopT, PhaseOK, ClockOK
<1>2. row'[q].st = row[q].st /\ row'[q].count = age
  BY <1>0, <1>1 DEF Count, Level, SigningInv, Typed, RowT, Rows
<1>3. /\ Watched(q)' => Watched(q)
      /\ Counting(q) /\ ~Counting(q)' /\ ~Sending' /\ q \notin loop'.todo
      /\ warned[q] \subseteq 1..3 /\ age \in 0..4
  BY <1>0, <1>1, <1>2, WaryTypes DEF Watched, Counting, Ticking, Sending, Reminded
<1>4. ~(Watched(q)' /\ Unrecorded(q)')
  <2>1. Watched(q)' => \A l \in warned[q] : l <= age
    BY <1>0, <1>3 DEF Reminded
  <2> QED
    BY <1>1, <1>2, <1>3, <2>1 DEF Unrecorded
<1>5. Reminded(q)'
  BY <1>0, <1>1, <1>2, <1>3, <1>4 DEF Reminded
<1>6. warned[q] # {} /\ row[q].st # "paid"
  BY <1>0, <1>3 DEF Warned
<1>7. Warned(q)'
  BY <1>0, <1>1, <1>2, <1>3, <1>6 DEF Warned
<1> QED
  BY <1>5, <1>7

\* Whoever starts over has no reminder on record.
LEMMA ResetWary ==
  ASSUME WaryInv, NEW q \in Participants, Reset(q)
  PROVE  Reminded(q)' /\ Warned(q)'
<1> USE DEF db, history, outside
<1>0. SigningInv /\ Reminded(q) /\ Warned(q)
  BY DEF WaryInv
<1>1. /\ mix' = mix /\ warned' = warned /\ dms' = dms /\ crashes' = crashes
      /\ lost' = lost /\ late' = late /\ age' = age
      /\ loop'.pc = "recover" /\ loop'.cur = {} /\ mix.st = "signing"
      /\ row'[q].st = "paid" /\ row'[q].count = 0
  BY <1>0 DEF Reset, At, SigningInv, Typed, LoopT, PhaseOK, RowT, Rows
<1>2. ~Watched(q)' /\ ~Counting(q)' /\ ~Sending' /\ ~Ticking'
  BY <1>1 DEF Watched, Counting, Sending, Ticking
<1>3. Reminded(q)'
  BY <1>0, <1>1, <1>2 DEF Reminded
<1>4. Warned(q)'
  BY <1>0, <1>1, <1>2 DEF Warned
<1> QED
  BY <1>3, <1>4

\* A signer is no longer reminded, unless the tick has read the older row.
LEMMA AcceptWary ==
  ASSUME WaryInv, NEW q \in Participants, Accept(q)
  PROVE  Reminded(q)' /\ Warned(q)'
<1> USE DEF db, history, outside
<1>0. SigningInv /\ Reminded(q) /\ Warned(q)
  BY DEF WaryInv
<1>1. /\ mix' = mix /\ warned' = warned /\ dms' = dms /\ crashes' = crashes /\ down' = down
      /\ lost' = lost /\ age' = age /\ loop' = loop /\ ticked' = ticked
      /\ row'[q].st = "signed" /\ row'[q].count = row[q].count
      /\ late \subseteq late' /\ (row[q].st = "signing" \/ q \in late')
  BY <1>0 DEF Accept, SigningInv, Typed, RowT, Rows
<1>2. /\ Watched(q)' => Watched(q)
      /\ (Counting(q)' <=> Counting(q)) /\ (Sending' <=> Sending) /\ (Ticking' <=> Ticking)
      /\ (Unrecorded(q)' <=> Unrecorded(q)) /\ Skipped' = Skipped
  BY <1>1 DEF Watched, Counting, Sending, Ticking, Unrecorded, Skipped
<1>3. Reminded(q)'
  BY <1>0, <1>1, <1>2 DEF Reminded
<1>4. Warned(q)'
  BY <1>0, <1>1, <1>2 DEF Warned
<1> QED
  BY <1>3, <1>4

\* A message that cannot be sent drops what the loop had in hand.
LEMMA FailEases ==
  ASSUME SigningInv, NEW q \in Participants, NEW p \in Participants, SendFails(p), loop.pc # "count"
  PROVE  Still(q) /\ Eased(q)
<1>1. Still(q)
  BY DEF SendFails, Still, db, history, outside
<1>2. Eased(q)
  BY DEF SendFails, NoLoop, Eased, Counting, Ticking, Sending, db, history, outside
<1> QED
  BY <1>1, <1>2

\* Only a tick past the deadline ghosts.
LEMMA GhostedBy ==
  ASSUME SigningInv, [Next]_vars, NEW q \in Participants,
         row'[q].st = "ghosted", row[q].st # "ghosted"
  PROVE  Ghost(q)
<1>0. row \in [Participants -> Rows]
  BY DEF SigningInv, Typed, RowT
<1> USE DEF db, history, outside
<1>1. ASSUME NEW p \in Participants, Ghost(p) PROVE p = q
  BY <1>0, <1>1 DEF Ghost
<1>2. CASE row'[q].st = row[q].st
  BY <1>2
<1>3. ASSUME NEW p \in Participants, MarkSigning(p) \/ Count(p) \/ Reset(p) \/ Accept(p)
      PROVE  FALSE
  BY <1>0, <1>3 DEF MarkSigning, Count, Reset, Accept, Rows
<1>4. ASSUME NEW p \in Participants, Remind(p) PROVE row' = row
  BY <1>4 DEF Remind, SendFails
<1>5. CASE TimePasses \/ Crash \/ Restart
  BY <1>5 DEF TimePasses, Crash, Restart
<1> QED
  BY <1>1, <1>2, <1>3, <1>4, <1>5, Stills DEF Next, Loop, Handler, Over, Still

\* Every step keeps what the invariant says of every participant,
LEMMA WaryStep ==
  ASSUME WaryInv, [Next]_vars, NEW q \in Participants
  PROVE  Reminded(q)' /\ Warned(q)'
<1>0. SigningInv /\ Reminded(q) /\ Warned(q)
  BY DEF WaryInv
<1>1. CASE \/ Combine \/ TooManyGhosts \/ UNCHANGED vars
           \/ \E p \in Participants :
                \/ Record(p) \/ Deliver(p) \/ Blacklist(p) \/ ClearOutputs(p)
                \/ Vanish(p) \/ Receive(p) \/ Store(p) \/ Readdress(p)
           \/ \E p \in Participants \ {q} :
                Ghost(p) \/ Quiet(p) \/ Remind(p) \/ Count(p) \/ Reset(p) \/ Accept(p)
  <2>1. Eased(q)
    BY <1>1, Eases
  <2>2. Still(q)
    BY <1>0, <1>1, Stills
  <2> QED
    BY <1>0, <2>1, <2>2, EasedKeeps
<1>2. CASE TimePasses \/ Crash \/ Restart \/ \E p \in Participants : MarkSigning(p)
  BY <1>2, TimeWary, CrashWary, RestartWary, MarkWary
<1>3. CASE BeginTick \/ Wait \/ BeginSigning \/ Assemble \/ Recover \/ Reopen \/ Advance
  BY <1>3, TickWary, WaitWary, BeginWary, AssembleWary, RecoverWary, ReopenWary
<1>4. CASE Ghost(q) \/ Quiet(q) \/ Count(q) \/ Reset(q) \/ Accept(q)
  BY <1>4, GhostWary, QuietWary, CountWary, ResetWary, AcceptWary
<1>5. CASE Remind(q)
  <2>1. CASE SendFails(q)
    <3>1. loop.pc = "sign"
      BY <1>5 DEF Remind, At
    <3>2. Still(q) /\ Eased(q)
      BY <1>0, <2>1, <3>1, FailEases
    <3> QED
      BY <1>0, <3>2, EasedKeeps
  <2> QED
    BY <1>5, <2>1, RemindWary
<1> QED
  BY <1>1, <1>2, <1>3, <1>4, <1>5 DEF Next, Loop, Handler, Over

\* and no tick is at work that has run its course.
LEMMA TickStep ==
  ASSUME TickOK, SigningInv, [Next]_vars
  PROVE  TickOK'
<1> USE DEF TickOK, Ticking
<1>1. CASE Assemble \/ Recover
  BY <1>1 DEF Assemble, Recover, NoLoop
<1>2. CASE BeginSigning \/ Wait \/ Combine \/ TooManyGhosts \/ Reopen \/ Crash
  BY <1>2 DEF BeginSigning, Wait, Combine, TooManyGhosts, Reopen, Crash, NoLoop
<1>3. CASE BeginTick \/ TimePasses
  BY <1>3 DEF BeginTick, TimePasses
<1>4. ASSUME NEW p \in Participants, SendFails(p) PROVE TickOK'
  BY <1>4 DEF SendFails, NoLoop
<1>5. ASSUME NEW p \in Participants, Deliver(p) \/ Remind(p), ~SendFails(p) PROVE TickOK'
  <2>1. ticked' = ticked /\ loop'.pc # "sign" /\ loop'.pc # "blacklist"
        /\ (loop'.pc = "count" => loop.pc = "sign")
    BY <1>5 DEF Deliver, Remind, At, SigningInv, Typed, LoopT
  <2> QED
    BY <2>1
<1>6. ASSUME NEW p \in Participants, Record(p) \/ MarkSigning(p) \/ ClearOutputs(p) \/ Reset(p)
      PROVE  TickOK'
  <2>1. loop'.pc \in {"deliver", "send", "reset", "recover"}
    BY <1>6 DEF Record, MarkSigning, ClearOutputs, Reset, SigningInv, Typed, LoopT
  <2> QED
    BY <2>1
<1>7. ASSUME NEW p \in Participants, Ghost(p) \/ Blacklist(p) \/ Quiet(p) \/ Count(p)
      PROVE  TickOK'
  <2>1. ticked' = ticked /\ Ticking
    BY <1>7 DEF Ghost, Blacklist, Quiet, Count, At
  <2> QED
    BY <2>1
<1>8. CASE Advance \/ Restart \/ UNCHANGED vars \/ \E p \in Participants : Vanish(p)
  BY <1>8 DEF Advance, Restart, vars, Vanish
<1>9. CASE Handler
  BY <1>9 DEF Handler, Receive, Store, Accept, Readdress
<1> QED
  BY <1>1, <1>2, <1>3, <1>4, <1>5, <1>6, <1>7, <1>8, <1>9 DEF Next, Loop, Over

\* The inductive invariant of the reminders.
THEOREM WaryInvariant == Spec => []WaryInv
<1>1. Init => WaryInv
  <2> SUFFICES ASSUME Init PROVE WaryInv
    OBVIOUS
  <2>1. SigningInv
    BY InitSatisfies
  <2>2. TickOK
    BY DEF Init, TickOK, Ticking, NoLoop
  <2>3. ASSUME NEW q \in Participants PROVE Reminded(q) /\ Warned(q)
    <3>1. /\ row[q].st = "paid" /\ row[q].count = 0 /\ warned[q] = {} /\ dms[q] = 0 /\ crashes = 0
          /\ mix.st = "assembling" /\ loop.pc = "idle" /\ loop.cur = {}
      BY DEF Init, NoLoop
    <3>2. Cardinality(warned[q]) = 0
      BY <3>1, FS_EmptySet
    <3>3. ~Watched(q) /\ ~Counting(q) /\ ~Ticking /\ ~Sending
      BY <3>1 DEF Watched, Counting, Ticking, Sending
    <3> QED
      BY <3>1, <3>2, <3>3 DEF Reminded, Warned
  <2> QED
    BY <2>1, <2>2, <2>3 DEF WaryInv
<1>2. WaryInv /\ [Next]_vars => WaryInv'
  <2> SUFFICES ASSUME WaryInv, [Next]_vars PROVE WaryInv'
    OBVIOUS
  <2>1. \A q \in Participants : Reminded(q)' /\ Warned(q)'
    BY WaryStep
  <2> QED
    BY <2>1, NextKeeps, TickStep DEF WaryInv
<1> QED
  BY <1>1, <1>2, PTL DEF Spec

\* RemindedOnce: nobody gets the same reminder of a round twice but for crashes
\* between the message and reminder_count (_handle_signing).
THEOREM RemindersOnce == Spec => []RemindedOnce
<1>1. WaryInv => RemindedOnce
  BY DEF WaryInv, Reminded, RemindedOnce
<1> QED
  BY <1>1, WaryInvariant, PTL

\* Whoever is ghosted without a reminder of this round, while everybody is within reach,
\* was due each of the three in an outage.
THEOREM UnwarnedByOutage ==
  Spec => [][\A p \in Participants :
               (lost = {} /\ p \notin late /\ row'[p].st = "ghosted" /\ row[p].st # "ghosted")
                 => warned[p] # {} \/ crashes * MaxSkip >= 3]_vars
<1>1. WaryInv /\ [Next]_vars =>
        [\A p \in Participants :
           (lost = {} /\ p \notin late /\ row'[p].st = "ghosted" /\ row[p].st # "ghosted")
             => warned[p] # {} \/ crashes * MaxSkip >= 3]_vars
  <2> SUFFICES ASSUME WaryInv, [Next]_vars, NEW p \in Participants, warned[p] = {},
                      lost = {}, p \notin late, row'[p].st = "ghosted", row[p].st # "ghosted"
               PROVE  crashes * MaxSkip >= 3
    OBVIOUS
  <2>1. Ghost(p)
    BY GhostedBy DEF WaryInv
  <2>2. /\ loop.age = 4 /\ p \in loop.todo /\ loop.pc = "sign" /\ down = Up
        /\ mix.st = "signing" /\ age = 4
    BY <2>1 DEF Ghost, At, WaryInv, SigningInv, PhaseOK, ClockOK
  <2>3. Watched(p)
    BY <2>2 DEF Watched, Ticking
  <2>4. Skipped = crashes * MaxSkip
    BY <2>2 DEF Skipped
  <2>5. crashes * MaxSkip \in Nat
    BY WaryTypes DEF WaryInv
  <2>6. age <= 1 + Skipped
    BY <2>3 DEF WaryInv, Warned
  <2> QED
    BY <2>2, <2>4, <2>5, <2>6
<1> QED
  BY <1>1, WaryInvariant, PTL DEF Spec

\* GhostsWarned: nobody is ghosted without a reminder when the outages leave out at most
\* two of the three bands a reminder is due in (_handle_signing).
THEOREM GhostsAreWarned ==
  ASSUME MaxFaults * MaxSkip <= 2
  PROVE  Spec => GhostsWarned
<1>1. SigningInv => crashes * MaxSkip \in Nat /\ crashes * MaxSkip <= 2
  <2> SUFFICES ASSUME SigningInv PROVE crashes * MaxSkip \in Nat /\ crashes * MaxSkip <= 2
    OBVIOUS
  <2>1. crashes \in 0..MaxFaults /\ MaxSkip \in Nat /\ MaxFaults \in Nat
    BY SigningAssumption DEF SigningInv, Typed, FaultT
  <2>2. \A a \in Nat, b \in Nat, m \in Nat : a <= b => a * m \in Nat /\ a * m <= b * m
    OBVIOUS
  <2>3. crashes * MaxSkip \in Nat /\ crashes * MaxSkip <= MaxFaults * MaxSkip
    BY <2>1, <2>2
  <2>4. MaxFaults * MaxSkip \in Nat
    BY <2>1
  <2> QED
    BY <2>3, <2>4
<1>2. /\ SigningInv
      /\ [\A p \in Participants :
            (lost = {} /\ p \notin late /\ row'[p].st = "ghosted" /\ row[p].st # "ghosted")
              => warned[p] # {} \/ crashes * MaxSkip >= 3]_vars
      => [\A p \in Participants :
            (lost = {} /\ p \notin late /\ row'[p].st = "ghosted" /\ row[p].st # "ghosted")
              => warned[p] # {}]_vars
  BY <1>1
<1> QED
  BY <1>2, SigningInvariant, UnwarnedByOutage, PTL DEF GhostsWarned
=============================================================================
