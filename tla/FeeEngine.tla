----------------------------- MODULE FeeEngine -----------------------------
(***************************************************************************)
(* Who pays what for the transaction: calculate_all_fees, which computes   *)
(* the miner fee and the outputs from each other in at most three passes,  *)
(* and the part of _assemble_psbt around it, which drops those who cannot  *)
(* fund an output, lays the outputs out and checks the sum before anything *)
(* is sent.  Amounts are exact; a script type is its size in vbytes.       *)
(***************************************************************************)
EXTENDS Integers, FiniteSetsExt, Functions

CONSTANTS
  N,           \* number of participants; 1..N is the order of their rows
  Coins,       \* what a participant may have on file, see Files
  Size,        \* size of an equal output (output_size)
  Dust,        \* MINIMUM_UTXO_SIZE
  InV, OutV,   \* vsize of an input and an output of the types the mix accepts
  Overhead,    \* TX_OVERHEAD_VSIZE
  RateUnit,    \* a rate of RateUnit is one sat per vbyte
  MinRate,     \* MIN_FEE_RATE_SATS, in this unit
  Rates,       \* the estimates the chain monitor may come up with
  Required,    \* required_nonconforming of the mix
  Donation     \* is a DONATION_ADDRESS configured?

\* nc: sum of the non-conforming inputs; ins: how many they are; conf: number
\* of conforming inputs; addrs: number of output addresses.
Files == [nc : Nat, ins : Nat, conf : Nat, addrs : Nat]

ASSUME FeeAssumption ==
  /\ N \in Nat \ {0} /\ Size \in Nat \ {0} /\ Dust \in Nat \ {0}
  /\ InV \in Nat \ {0} /\ OutV \in Nat /\ Overhead \in Nat
  /\ RateUnit \in Nat \ {0} /\ MinRate \in Nat \ {0}
  /\ Rates \subseteq {r \in Nat : r >= MinRate}
  /\ Required \in Nat \ {0} /\ Donation \in BOOLEAN
  /\ Coins \subseteq Files
  /\ \A c \in Coins : (c.ins = 0 <=> c.nc = 0) /\ c.ins + c.conf > 0

VARIABLES
  file,      \* what each participant has on file
  rate,      \* the fee rate of this assembly
  active,    \* who takes part
  pass,      \* passes made of the fixpoint loop
  share,     \* each participant's share of the miner fee (fee_shares)
  portion,   \* vsize the non-conforming participants pay for (nc_portion_vsize)
  dropped,   \* have participants been dropped?
  pc,        \* "share", "check", "build"; "sent" or why the mix is cancelled
  fee        \* what the transaction leaves to the miner

vars == <<file, rate, active, pass, share, portion, dropped, pc, fee>>

-----------------------------------------------------------------------------
(***************************************************************************)
(* nc_output_plan and calculate_all_fees.                                  *)
(***************************************************************************)
Fee(vsize, r) == (vsize * r) \div RateUnit

\* Outputs for one participant: how many equal ones, is there one for change,
\* and how much is that.
Layouts == [equal : Nat, change : {0, 1}, sats : Nat]
Nothing == [equal |-> 0, change |-> 0, sats |-> 0]

\* A mutant of Plan: the last address goes to an equal output, not to change.
GreedyPlan(nc, addrs, cost) ==
  LET left == nc - cost
      equal == IF left \div Size < addrs THEN left \div Size ELSE addrs
      over == left - equal * Size
  IN  IF left <= 0 \/ addrs <= 0 \/ equal = 0 THEN Nothing
      ELSE [equal |-> equal, change |-> IF over < Dust THEN 0 ELSE 1,
            sats |-> IF over < Dust THEN 0 ELSE over]

\* As many equal outputs as funds and addresses allow; what is left over is
\* change unless it is dust, if need be on the address of the last equal output.
Plan(nc, addrs, cost) ==
  LET left == nc - cost
      equal == IF left \div Size < addrs THEN left \div Size ELSE addrs
      over == left - equal * Size
  IN  IF left <= 0 \/ addrs <= 0 \/ equal = 0 THEN Nothing
      ELSE IF over < Dust THEN [equal |-> equal, change |-> 0, sats |-> 0]
      ELSE IF equal = addrs /\ addrs >= 2
      THEN [equal |-> equal - 1, change |-> 1, sats |-> over + Size]
      ELSE [equal |-> equal, change |-> 1, sats |-> over]

Payers == {i \in active : file[i].ins > 0}
Spare(i) == IF file[i].addrs > file[i].conf THEN file[i].addrs - file[i].conf ELSE 0

\* A mutant of Layout: the outputs of the first pass, before any fee.
LayoutBeforeFee(i) ==
  IF i \in Payers THEN Plan(file[i].nc, Spare(i), 0) ELSE Nothing

Layout(i) == IF i \in Payers THEN Plan(file[i].nc, Spare(i), share[i]) ELSE Nothing

ConfVsize == SumFunction([i \in active |-> file[i].conf]) * (InV + OutV)

\* A mutant of Weight: the outputs are forgotten.
InputWeight(i) == file[i].ins * InV

Weight(i) == file[i].ins * InV + (Layout(i).equal + Layout(i).change) * OutV

AtLeastZero(x) == IF x > 0 THEN x ELSE 0

NcVsize == SumFunction([i \in Payers |-> Weight(i)])

\* A mutant of NewShares: nobody takes the remainders of the divisions.
RoundedShares ==
  LET nc == Fee(Overhead + NcVsize, rate)
      conforming == Fee(ConfVsize, rate)
  IN  [i \in 1..N |->
         IF i \notin Payers THEN 0
         ELSE (nc * Weight(i)) \div NcVsize + conforming \div Cardinality(Payers)]

\* Everybody pays by weight, and evenly for the conforming coins; the last one
\* makes up for the rounding.
NewShares ==
  LET nc == Fee(Overhead + NcVsize, rate)
      conforming == Fee(ConfVsize, rate)
      own(i) == (nc * Weight(i)) \div NcVsize
      even == conforming \div Cardinality(Payers)
      others == Payers \ {Max(Payers)}
  IN  [i \in 1..N |->
         IF i \notin Payers THEN 0
         ELSE IF i \in others THEN AtLeastZero(own(i)) + AtLeastZero(even)
         ELSE AtLeastZero(nc - SumFunction([j \in others |-> own(j)]))
              + AtLeastZero(conforming - even * Cardinality(others))]

TotalVsize == portion + ConfVsize
TotalFee == Fee(portion, rate) + Fee(ConfVsize, rate)

\* One pass of the loop, which stops when it changes nothing.
Pass ==
  /\ pc = "share"
  /\ share' = NewShares
  /\ portion' = Overhead + NcVsize
  /\ pass' = pass + 1
  /\ pc' = IF share' = share \/ pass' = 3 THEN "check" ELSE "share"
  /\ UNCHANGED <<file, rate, active, dropped, fee>>
-----------------------------------------------------------------------------
(***************************************************************************)
(* _assemble_psbt.                                                         *)
(***************************************************************************)
TypeOK ==
  /\ file \in [1..N -> Coins] /\ rate \in Rates
  /\ active \subseteq 1..N
  /\ pass \in 0..3 /\ share \in [1..N -> Nat] /\ portion \in Nat
  /\ dropped \in BOOLEAN /\ fee \in Nat
  /\ pc \in {"share", "check", "build", "sent", "few", "under", "over"}

Enough(S) ==
  /\ Cardinality(S) >= 2
  /\ Cardinality({i \in S : file[i].ins > 0}) >= Required

\* The mix has met its target, and nobody is short of addresses: neither intake
\* nor the test for starved participants lets such a one through.
Init ==
  /\ file \in [1..N -> {c \in Coins : c.addrs >= c.conf + (IF c.ins > 0 THEN 1 ELSE 0)}]
  /\ rate \in Rates
  /\ active = 1..N
  /\ Enough(active)
  /\ pass = 0
  /\ share = [i \in 1..N |-> 0]
  /\ portion = Overhead
  /\ dropped = FALSE
  /\ pc = "share"
  /\ fee = 0

\* Those who cannot fund one equal output after their share.
Underfunded == {i \in Payers : Layout(i).equal = 0}

Proceed ==
  /\ pc = "check" /\ Underfunded = {} /\ TotalFee > 0
  /\ pc' = "build"
  /\ UNCHANGED <<file, rate, active, pass, share, portion, dropped, fee>>

\* A mutant of DropUnderfunded: the loop goes on counting its passes.
DropAndGoOn ==
  /\ pc = "check" /\ Underfunded # {} /\ TotalFee > 0 /\ ~dropped
  /\ active' = active \ Underfunded
  /\ dropped' = TRUE
  /\ share' = [i \in 1..N |-> 0]
  /\ pc' = IF Enough(active') THEN "share" ELSE "few"
  /\ UNCHANGED <<file, rate, pass, portion, fee>>

\* They go, and the rest starts anew.
DropUnderfunded ==
  /\ pc = "check" /\ Underfunded # {} /\ TotalFee > 0 /\ ~dropped
  /\ active' = active \ Underfunded
  /\ dropped' = TRUE
  /\ pass' = 0
  /\ share' = [i \in 1..N |-> 0]
  /\ pc' = IF Enough(active') THEN "share" ELSE "few"
  /\ UNCHANGED <<file, rate, portion, fee>>

\* No second round of drops: the mix is cancelled.
GiveUp ==
  /\ pc = "check"
  /\ TotalFee <= 0 \/ (dropped /\ Underfunded # {})
  /\ pc' = "few"
  /\ UNCHANGED <<file, rate, active, pass, share, portion, dropped, fee>>

\* Addresses are used in order: conforming coins, equal outputs, change.
Placed(i) == Min({file[i].conf + Layout(i).equal, file[i].addrs})
ChangeSent(i) == Layout(i).change = 1 /\ (Placed(i) < file[i].addrs \/ Donation)

\* A mutant of Returned: coins that pass through get no output.
ReturnedCarved(i) ==
  Layout(i).equal * Size + (IF ChangeSent(i) THEN Layout(i).sats ELSE 0)

Brought(i) == file[i].nc + file[i].conf * Size
Returned(i) == Placed(i) * Size + (IF ChangeSent(i) THEN Layout(i).sats ELSE 0)

\* Left to the miner on purpose, for want of an address.
Folded(i) == IF Layout(i).change = 1 /\ ~ChangeSent(i) THEN Layout(i).sats ELSE 0

MinRequired == Fee(TotalVsize, MinRate)
MaxExpected ==
  TotalFee + SumFunction([i \in active |-> Folded(i)]) + Cardinality(active) * Dust

\* The outputs are laid out and the sum is checked from both sides.
Build ==
  /\ pc = "build"
  /\ fee' = SumFunction([i \in active |-> Brought(i) - Returned(i)])
  /\ pc' = IF fee' < MinRequired THEN "under"
           ELSE IF fee' > MaxExpected THEN "over" ELSE "sent"
  /\ UNCHANGED <<file, rate, active, pass, share, portion, dropped>>

Over == pc \in {"sent", "few", "under", "over"} /\ UNCHANGED vars

Next == Pass \/ Proceed \/ DropUnderfunded \/ GiveUp \/ Build \/ Over

Spec == Init /\ [][Next]_vars

-----------------------------------------------------------------------------
\* "So the shares sum exactly to total_miner_fee" (calculate_all_fees), whether
\* or not the loop has converged.
SharesSum ==
  pc \in {"check", "build", "sent"} => SumFunctionOnSet(share, Payers) = TotalFee

\* "NEVER burn an above-dust leftover when the participant gave us somewhere to
\* send it" (nc_output_plan): who has two addresses to spare, or a donation
\* address, pays dust at most beyond the share.
LeftoverReturned ==
  pc = "sent" => \A i \in active :
    Spare(i) # 1 \/ Donation => Brought(i) - Returned(i) - share[i] \in 0..(Dust - 1)

\* The test against "a funded output may have been dropped" never fires on the
\* engine's own results.
NeverOvercollects == pc # "over"

\* Vsize of the transaction as laid out.
ActualVsize ==
  Overhead + SumFunction([i \in active |->
    (file[i].ins + file[i].conf) * InV
      + (Placed(i) + (IF ChangeSent(i) THEN 1 ELSE 0)) * OutV])

\* "So the total fee matches the real tx vsize at the target rate": the layout
\* may be a pass ahead of the fee, when the loop does not converge, but then the
\* transaction is short of its rate by one output per payer at most.
ShortfallBounded ==
  pc = "sent" => fee >= Fee(ActualVsize - OutV * Cardinality(Payers), rate) - 1

\* Why it is bounded: an equal output is not dust; an output costs more than the
\* overhead and the rounding of the shares, N at most; and those cost less than dust.
Damped ==
  /\ Dust <= Size /\ Overhead <= OutV
  /\ \A r \in Rates : Fee(Overhead, r) + N + 2 <= Dust /\ Fee(OutV - Overhead, r) > N

\* When the fee is found to be too low, a sat lost to rounding is all it lacks.
RoundingOnly == pc = "under" => fee = MinRequired - 1
=============================================================================
