------------------------------ MODULE Signing ------------------------------
(***************************************************************************)
(* One mix from assembly to the end of signing, an await at a time: the    *)
(* event loop sends the skeleton, reminds, ghosts and recovers, while the  *)
(* handler of a returned PSBT reads, stores and marks.  A direct message   *)
(* that cannot be sent raises and ends the loop's work on this mix; a      *)
(* crash forgets what the two have in hand.  MixRound has the same phase   *)
(* in coarser steps, with the money.                                       *)
(***************************************************************************)
EXTENDS Naturals, FiniteSets

CONSTANTS
  Participants,
  Required,         \* how many it takes to advance again (required_nonconforming)
  MaxGhostRetries,
  Vanishing,        \* those who may become unreachable by direct message
  MaxSkip,          \* bound: reminder bands an outage may last
  MaxSkeletons, MaxFaults   \* bounds: builds, failed messages and crashes

ASSUME SigningAssumption ==
  /\ IsFiniteSet(Participants) /\ Vanishing \subseteq Participants
  /\ Required \in Nat \ {0} /\ MaxGhostRetries \in Nat
  /\ MaxSkip \in Nat /\ MaxSkeletons \in Nat /\ MaxFaults \in Nat

VARIABLES
  mix,         \* the mixes row: state and ghost_retries
  row,         \* the participants rows: state, addresses on file, reminder_count
  round,       \* psbt_rounds, by participant and number: skeleton sent, returned
  blacklist,
  age,         \* bands of SIGNING_DEADLINE passed since the skeleton was sent:
               \* an eighth, a quarter, half, all of it
  nskel,       \* skeletons built
  got,         \* the last skeleton each participant has received
  loop, hand,  \* local variables of the event loop and of the handler
  ticked,      \* has a tick run its course since the band began?
  lost,        \* participants no message reaches any more
  down,        \* bands the process has been down for, or Up
  fails, crashes,
  warned, dms, \* history: reminder levels a participant got, how many messages
  punctual,    \* history: those whose signature was accepted within the deadline,
  late         \* and those ever marked when the loop had moved on from what was read

vars == <<mix, row, round, blacklist, age, nskel, got, loop, hand, ticked, lost,
          down, fails, crashes, warned, dms, punctual, late>>
db == <<mix, row, round, blacklist>>
history == <<warned, dms, punctual, late>>
outside == <<age, lost, down, crashes>>

Up == MaxSkip + 1
Numbers == 1..(MaxGhostRetries + 1)
Skeletons == 0..MaxSkeletons
RoundNum == mix.retries + 1
NoRound == [sent |-> 0, ret |-> 0]
NoLoop == [pc |-> "idle", todo |-> {}, cur |-> {}, age |-> 0, counts |-> [p \in Participants |-> 0]]
NoHand == [pc |-> "idle", who |-> {}, num |-> 1, psbt |-> 0]
In(S) == {p \in Participants : row[p].st \in S}

TypeOK ==
  /\ mix \in [st : {"assembling", "signing", "collecting", "broadcast", "cancelled"},
              retries : 0..MaxGhostRetries]
  /\ row \in [Participants -> [st : {"paid", "signing", "signed", "ghosted"},
                               outs : BOOLEAN, count : 0..3]]
  /\ round \in [Participants -> [Numbers -> [sent : Skeletons, ret : Skeletons]]]
  /\ blacklist \subseteq Participants
  /\ age \in 0..4 /\ nskel \in Skeletons
  /\ got \in [Participants -> Skeletons]
  /\ loop \in [pc : {"idle", "send", "deliver", "mark", "sign", "count", "blacklist",
                     "recover", "reset"},
               todo : SUBSET Participants, cur : SUBSET Participants,
               age : 0..4, counts : [Participants -> 0..3]]
  /\ hand \in [pc : {"idle", "store", "mark"}, who : SUBSET Participants,
               num : Numbers, psbt : Skeletons]
  /\ ticked \in BOOLEAN /\ lost \subseteq Vanishing /\ down \in 0..Up
  /\ fails \in 0..MaxFaults /\ crashes \in 0..MaxFaults
  /\ warned \in [Participants -> SUBSET (1..3)] /\ dms \in [Participants -> Nat]
  /\ punctual \subseteq Participants /\ late \subseteq Participants

\* Everybody has paid and given addresses.
Init ==
  /\ mix = [st |-> "assembling", retries |-> 0]
  /\ row = [p \in Participants |-> [st |-> "paid", outs |-> TRUE, count |-> 0]]
  /\ round = [p \in Participants |-> [n \in Numbers |-> NoRound]]
  /\ blacklist = {} /\ age = 0 /\ nskel = 0
  /\ got = [p \in Participants |-> 0]
  /\ loop = NoLoop /\ hand = NoHand
  /\ ticked = FALSE /\ lost = {} /\ down = Up /\ fails = 0 /\ crashes = 0
  /\ warned = [p \in Participants |-> {}]
  /\ dms = [p \in Participants |-> 0]
  /\ punctual = {} /\ late = {}

-----------------------------------------------------------------------------
(***************************************************************************)
(* Time and failures.                                                      *)
(***************************************************************************)

\* The loop ticks every minute and a band lasts hours: one tick at least runs
\* its course, failing only for those out of reach.  A handler takes seconds.
TimePasses ==
  /\ mix.st = "signing" /\ age < 4
  /\ \/ down = Up /\ ticked /\ loop = NoLoop /\ hand = NoHand /\ UNCHANGED down
     \/ down < MaxSkip /\ down' = down + 1
  /\ age' = age + 1
  /\ ticked' = FALSE
  /\ UNCHANGED <<db, nskel, got, loop, hand, lost, fails, crashes, history>>

Vanish(p) ==
  /\ p \in Vanishing \ lost
  /\ lost' = lost \cup {p}
  /\ UNCHANGED <<db, age, nskel, got, loop, hand, ticked, down, fails, crashes, history>>

Crash ==
  /\ down = Up /\ fails + crashes < MaxFaults
  /\ crashes' = crashes + 1
  /\ down' = 0 /\ loop' = NoLoop /\ hand' = NoHand
  /\ UNCHANGED <<db, age, nskel, got, ticked, lost, fails, history>>

Restart ==
  /\ down # Up
  /\ down' = Up
  /\ UNCHANGED <<db, age, nskel, got, loop, hand, ticked, lost, fails, crashes, history>>

\* The message to p in hand cannot be sent: _tick logs it and goes on to the
\* next mix.
SendFails(p) ==
  /\ \/ p \in lost /\ ticked' = (mix.st = "signing") /\ UNCHANGED fails
     \/ p \notin lost /\ fails + crashes < MaxFaults /\ fails' = fails + 1 /\ UNCHANGED ticked
  /\ loop' = NoLoop
  /\ UNCHANGED <<db, nskel, got, hand, outside, history>>

-----------------------------------------------------------------------------
(***************************************************************************)
(* psbt_accept.                                                            *)
(***************************************************************************)

\* Only a row in 'signing' is looked for, and the PSBT must be that row's
\* skeleton of this round.
Receive(p) ==
  /\ hand = NoHand /\ down = Up
  /\ row[p].st = "signing" /\ got[p] # 0
  /\ round[p][RoundNum].sent = got[p]
  /\ hand' = [pc |-> "store", who |-> {p}, num |-> RoundNum, psbt |-> got[p]]
  /\ UNCHANGED <<db, nskel, got, loop, ticked, fails, outside, history>>

Store(p) ==
  /\ hand.pc = "store" /\ p \in hand.who
  /\ round' = [round EXCEPT ![p][hand.num].ret = hand.psbt]
  /\ hand' = [hand EXCEPT !.pc = "mark"]
  /\ UNCHANGED <<mix, row, blacklist, nskel, got, loop, ticked, fails, outside, history>>

\* The state is written whatever it is by now, and the participant is told.
Accept(p) ==
  /\ hand.pc = "mark" /\ p \in hand.who
  /\ row' = [row EXCEPT ![p].st = "signed"]
  /\ LET current == row[p].st = "signing" /\ round[p][RoundNum].sent = hand.psbt IN
     /\ late' = IF current THEN late ELSE late \cup {p}
     /\ punctual' = IF current /\ age < 4 THEN punctual \cup {p} ELSE punctual
  /\ hand' = NoHand
  /\ UNCHANGED <<mix, round, blacklist, nskel, got, loop, ticked, fails, outside, warned, dms>>

\* addresses, from a survivor of a recovery.
Readdress(p) ==
  /\ mix.st = "collecting" /\ row[p].st = "paid" /\ ~row[p].outs /\ down = Up
  /\ row' = [row EXCEPT ![p].outs = TRUE]
  /\ UNCHANGED <<mix, round, blacklist, nskel, got, loop, hand, ticked, fails, outside, history>>

Handler ==
  \E p \in Participants :
    Receive(p) \/ Store(p) \/ Accept(p) \/ Readdress(p)

-----------------------------------------------------------------------------
(***************************************************************************)
(* The event loop.                                                         *)
(***************************************************************************)
At(pc) == loop.pc = pc /\ down = Up

\* The tail of _assemble_psbt, which puts every active row into the round.
Assemble ==
  /\ At("idle") /\ mix.st = "assembling" /\ nskel < MaxSkeletons
  /\ nskel' = nskel + 1
  /\ loop' = [NoLoop EXCEPT !.pc = "send", !.todo = In({"paid", "signing", "signed"})]
  /\ UNCHANGED <<db, got, hand, ticked, fails, outside, history>>

\* add_psbt_round and update_psbt_round.
Record(p) ==
  /\ At("send") /\ p \in loop.todo
  /\ round' = [round EXCEPT ![p][RoundNum] = [sent |-> nskel, ret |-> 0]]
  /\ loop' = [loop EXCEPT !.pc = "deliver", !.cur = {p}, !.todo = @ \ {p}]
  /\ UNCHANGED <<mix, row, blacklist, nskel, got, hand, ticked, fails, outside, history>>

Deliver(p) ==
  /\ At("deliver") /\ p \in loop.cur
  /\ \/ /\ p \notin lost
        /\ got' = [got EXCEPT ![p] = nskel]
        /\ loop' = [loop EXCEPT !.pc = "mark"]
        /\ UNCHANGED <<db, nskel, hand, ticked, fails, outside, history>>
     \/ SendFails(p)

\* A mutant of MarkSigning: whoever has signed an earlier build stays signed.
MarkUnsigned(p) ==
  /\ At("mark") /\ p \in loop.cur
  /\ row' = [row EXCEPT ![p].st = IF @ = "signed" THEN @ ELSE "signing"]
  /\ age' = 0
  /\ warned' = [warned EXCEPT ![p] = {}] /\ dms' = [dms EXCEPT ![p] = 0]
  /\ punctual' = punctual \ {p}
  /\ loop' = [loop EXCEPT !.pc = "send", !.cur = {}]
  /\ UNCHANGED <<mix, round, blacklist, nskel, got, hand, ticked, lost, down, fails, crashes, late>>

\* The clock of the round starts here.
MarkSigning(p) ==
  /\ At("mark") /\ p \in loop.cur
  /\ row' = [row EXCEPT ![p].st = "signing"]
  /\ age' = 0
  /\ warned' = [warned EXCEPT ![p] = {}] /\ dms' = [dms EXCEPT ![p] = 0]
  /\ punctual' = punctual \ {p}
  /\ loop' = [loop EXCEPT !.pc = "send", !.cur = {}]
  /\ UNCHANGED <<mix, round, blacklist, nskel, got, hand, ticked, lost, down, fails, crashes, late>>

BeginSigning ==
  /\ At("send") /\ loop.todo = {}
  /\ mix' = [mix EXCEPT !.st = "signing"]
  /\ loop' = NoLoop
  /\ ticked' = FALSE
  /\ UNCHANGED <<row, round, blacklist, nskel, got, hand, fails, outside, history>>

\* A mutant of Pending: those who have signed are held to the deadline too.
PendingAll == In({"signing", "signed"})

\* Whom the tick has still to hear from.
Pending == In({"signing"})

\* _handle_signing works through the rows as _process_mix has read them.
BeginTick ==
  /\ At("idle") /\ mix.st = "signing" /\ ~ticked
  /\ loop' = [pc |-> "sign", todo |-> Pending, cur |-> {}, age |-> age,
              counts |-> [p \in Participants |-> row[p].count]]
  /\ UNCHANGED <<db, nskel, got, hand, ticked, fails, outside, history>>

Ghost(p) ==
  /\ At("sign") /\ p \in loop.todo /\ loop.age = 4
  /\ row' = [row EXCEPT ![p].st = "ghosted"]
  /\ loop' = [loop EXCEPT !.pc = "blacklist", !.cur = {p}, !.todo = @ \ {p}]
  /\ UNCHANGED <<mix, round, blacklist, nskel, got, hand, ticked, fails, outside, history>>

Blacklist(p) ==
  /\ At("blacklist") /\ p \in loop.cur
  /\ blacklist' = blacklist \cup {p}
  /\ loop' = [loop EXCEPT !.pc = "sign", !.cur = {}]
  /\ UNCHANGED <<mix, row, round, nskel, got, hand, ticked, fails, outside, history>>

\* A mutant of Level: every band waits for the one before to have been announced.
LevelByLevel(p) == IF loop.age = loop.counts[p] + 1 THEN loop.age ELSE 0

\* The reminder that is due by the clock alone (S-D).
Level(p) == loop.age

Quiet(p) ==
  /\ At("sign") /\ p \in loop.todo /\ loop.age < 4 /\ Level(p) <= loop.counts[p]
  /\ loop' = [loop EXCEPT !.todo = @ \ {p}]
  /\ UNCHANGED <<db, nskel, got, hand, ticked, fails, outside, history>>

Remind(p) ==
  /\ At("sign") /\ p \in loop.todo /\ loop.age < 4 /\ Level(p) > loop.counts[p]
  /\ \/ /\ p \notin lost
        /\ warned' = [warned EXCEPT ![p] = @ \cup {Level(p)}]
        /\ dms' = [dms EXCEPT ![p] = @ + 1]
        /\ loop' = [loop EXCEPT !.pc = "count", !.cur = {p}, !.todo = @ \ {p}]
        /\ UNCHANGED <<db, nskel, got, hand, ticked, fails, outside, punctual, late>>
     \/ SendFails(p)

\* A mutant of Count: the reminder is not recorded.
CountNothing(p) ==
  /\ At("count") /\ p \in loop.cur
  /\ loop' = [loop EXCEPT !.pc = "sign", !.cur = {}]
  /\ UNCHANGED <<db, nskel, got, hand, ticked, fails, outside, history>>

Count(p) ==
  /\ At("count") /\ p \in loop.cur
  /\ row' = [row EXCEPT ![p].count = Level(p)]
  /\ loop' = [loop EXCEPT !.pc = "sign", !.cur = {}]
  /\ UNCHANGED <<mix, round, blacklist, nskel, got, hand, ticked, fails, outside, history>>

\* A mutant of RoundGhosts: they are looked up under the number of the next round.
RoundGhostsNext ==
  {p \in In({"ghosted"}) : RoundNum < MaxGhostRetries + 1 /\ round[p][RoundNum + 1] # NoRound}

\* Members of the round, as the database has them at the end of the tick.
Remaining == In({"signing", "signed"})
RoundGhosts == {p \in In({"ghosted"}) : round[p][RoundNum] # NoRound}

\* The returns that are signatures of the skeleton sent (_combine_and_broadcast).
Returned == {p \in Remaining : round[p][RoundNum].ret # 0
                               /\ round[p][RoundNum].ret = round[p][RoundNum].sent}

\* Nobody is missing and not everybody has signed: wait.
Wait ==
  /\ At("sign") /\ loop.todo = {} /\ RoundGhosts = {}
  /\ Remaining = {} \/ ~(Remaining \subseteq In({"signed"}))
  /\ loop' = NoLoop /\ ticked' = TRUE
  /\ UNCHANGED <<db, nskel, got, hand, fails, outside, history>>

Combine ==
  /\ At("sign") /\ loop.todo = {} /\ RoundGhosts = {}
  /\ Remaining # {} /\ Remaining \subseteq In({"signed"})
  /\ mix' = [mix EXCEPT !.st = IF Returned = Remaining /\ Cardinality(Remaining) >= 2
                               THEN "broadcast" ELSE "cancelled"]
  /\ loop' = NoLoop
  /\ UNCHANGED <<row, round, blacklist, nskel, got, hand, ticked, fails, outside, history>>

TooManyGhosts ==
  /\ At("sign") /\ loop.todo = {} /\ RoundGhosts # {}
  /\ mix.retries = MaxGhostRetries
  /\ mix' = [mix EXCEPT !.st = "cancelled"]
  /\ loop' = NoLoop
  /\ UNCHANGED <<row, round, blacklist, nskel, got, hand, ticked, fails, outside, history>>

\* A mutant of Recover: one recovery too many.
RecoverOnceMore ==
  /\ At("sign") /\ loop.todo = {} /\ RoundGhosts # {}
  /\ row' = [p \in Participants |->
               IF p \in RoundGhosts THEN [row[p] EXCEPT !.outs = FALSE] ELSE row[p]]
  /\ loop' = [NoLoop EXCEPT !.pc = "recover", !.todo = Remaining]
  /\ UNCHANGED <<mix, round, blacklist, nskel, got, hand, ticked, fails, outside, history>>

\* A mutant of Recover: those who have signed are left alone.
RecoverUnsigned ==
  /\ At("sign") /\ loop.todo = {} /\ RoundGhosts # {}
  /\ mix.retries < MaxGhostRetries
  /\ row' = [p \in Participants |->
               IF p \in RoundGhosts THEN [row[p] EXCEPT !.outs = FALSE] ELSE row[p]]
  /\ loop' = [NoLoop EXCEPT !.pc = "recover", !.todo = In({"signing"})]
  /\ UNCHANGED <<mix, round, blacklist, nskel, got, hand, ticked, fails, outside, history>>

\* Recovery: the ghosts' inputs and outputs go first, row by row the survivors
\* start over, and the mix reopens last.
Recover ==
  /\ At("sign") /\ loop.todo = {} /\ RoundGhosts # {}
  /\ mix.retries < MaxGhostRetries
  /\ row' = [p \in Participants |->
               IF p \in RoundGhosts THEN [row[p] EXCEPT !.outs = FALSE] ELSE row[p]]
  /\ loop' = [NoLoop EXCEPT !.pc = "recover", !.todo = Remaining]
  /\ UNCHANGED <<mix, round, blacklist, nskel, got, hand, ticked, fails, outside, history>>

ClearOutputs(p) ==
  /\ At("recover") /\ p \in loop.todo
  /\ row' = [row EXCEPT ![p].outs = FALSE]
  /\ loop' = [loop EXCEPT !.pc = "reset", !.cur = {p}, !.todo = @ \ {p}]
  /\ UNCHANGED <<mix, round, blacklist, nskel, got, hand, ticked, fails, outside, history>>

\* A mutant of Reset: the reminders of the last round still count.
ResetState(p) ==
  /\ At("reset") /\ p \in loop.cur
  /\ row' = [row EXCEPT ![p].st = "paid"]
  /\ loop' = [loop EXCEPT !.pc = "recover", !.cur = {}]
  /\ UNCHANGED <<mix, round, blacklist, nskel, got, hand, ticked, fails, outside, history>>

Reset(p) ==
  /\ At("reset") /\ p \in loop.cur
  /\ row' = [row EXCEPT ![p].st = "paid", ![p].count = 0]
  /\ loop' = [loop EXCEPT !.pc = "recover", !.cur = {}]
  /\ UNCHANGED <<mix, round, blacklist, nskel, got, hand, ticked, fails, outside, history>>

Reopen ==
  /\ At("recover") /\ loop.todo = {}
  /\ mix' = [st |-> "collecting", retries |-> mix.retries + 1]
  /\ loop' = NoLoop
  /\ UNCHANGED <<row, round, blacklist, nskel, got, hand, ticked, fails, outside, history>>

\* _classify_ready is met again, or FILL_DEADLINE passes first.
Advance ==
  /\ At("idle") /\ mix.st = "collecting"
  /\ \/ /\ Cardinality({p \in In({"paid"}) : row[p].outs}) >= Required
        /\ mix' = [mix EXCEPT !.st = "assembling"]
     \/ mix' = [mix EXCEPT !.st = "cancelled"]
  /\ UNCHANGED <<row, round, blacklist, nskel, got, loop, hand, ticked, fails, outside, history>>

Loop ==
  \/ Assemble \/ BeginSigning \/ BeginTick \/ Wait \/ Combine \/ TooManyGhosts
  \/ Recover \/ Reopen \/ Advance
  \/ \E p \in Participants :
       \/ Record(p) \/ Deliver(p) \/ MarkSigning(p) \/ Ghost(p) \/ Blacklist(p)
       \/ Quiet(p) \/ Remind(p) \/ Count(p) \/ ClearOutputs(p) \/ Reset(p)

\* The mix is over, or needs one more skeleton than the bound allows.
Over ==
  /\ mix.st \in {"broadcast", "cancelled"} \/ nskel = MaxSkeletons
  /\ UNCHANGED vars

Next ==
  \/ Loop \/ Handler \/ TimePasses \/ Crash \/ Restart \/ Over
  \/ \E p \in Participants : Vanish(p)

Spec == Init /\ [][Next]_vars

\* The loop and the clock go on, the process is restarted, a handler ends.
FairSpec ==
  /\ Spec
  /\ WF_vars(Loop) /\ WF_vars(TimePasses) /\ WF_vars(Restart)
  /\ WF_vars(\E p \in Participants : Store(p) \/ Accept(p))
-----------------------------------------------------------------------------
\* "So they always get at least one warning before the deadline" (S-D): while
\* everybody is within reach, whoever is ghosted has had a reminder of this
\* round, after an outage too.
GhostsWarned ==
  [][\A p \in Participants :
       (lost = {} /\ p \notin late /\ row'[p].st = "ghosted" /\ row[p].st # "ghosted")
         => warned[p] # {}]_vars

\* No reminder is sent twice, but for a crash between the message and its record.
RemindedOnce ==
  \A p \in Participants : dms[p] <= Cardinality(warned[p]) + crashes

\* A signature accepted within the deadline is never held against the signer by
\* a tick that works on older rows.
PunctualSpared ==
  [][\A p \in punctual : row'[p].st # "ghosted" /\ p \notin blacklist' \ blacklist]_vars

\* Whoever counts as signed has returned this round's skeleton, but for an
\* acceptance written when the loop had moved on.
SignedHasReturn == mix.st = "signing" => In({"signed"}) \ late \subseteq Returned

\* When a mix reopens no survivor is left in a state that can no longer give
\* addresses, but for an acceptance written when the loop had moved on.
SurvivorsCanReadress ==
  mix.st = "collecting" => In({"signing", "signed"}) \subseteq late

\* Signing ends, whoever is out of reach.
SigningEnds == mix.st = "signing" ~> mix.st # "signing"
=============================================================================
