------------------------- MODULE PsbtReturns_proofs -------------------------
(***************************************************************************)
(* Proofs about PsbtReturns, for any mixes, users and inputs, and whatever *)
(* the dishonest ones return: the types, and that what was accepted        *)
(* combines.  A return on file is valid for the last skeleton of its mix,  *)
(* since a new skeleton throws the returns for the one before away; and    *)
(* the round is over only when every member has one.                       *)
(***************************************************************************)
EXTENDS PsbtReturns, TLAPS

\* What is on file.
FilesTyped ==
  /\ mix \in [Mixes -> {"signing", "broadcast", "cancelled"}]
  /\ skel \in [Mixes -> Builds \ {0}]
  /\ row \in [Mixes -> [Users -> {"none", "signing", "signed"}]]
  /\ ret \in [Mixes -> [Users -> Psbts \cup {None}]]
  /\ \A m \in Mixes, u \in Users : ret[m][u] # None <=> row[m][u] = "signed"

\* A return is valid for the skeleton that is out.
Fitting(u, m) == ret[m][u] # None => Valid(u, m, ret[m][u])
Matched == \A m \in Mixes, u \in Users : Fitting(u, m)

\* No mix is given up, and one is broadcast with the returns of all.
Signs(m) == \A u \in Members(m) : row[m][u] = "signed"
Finished == \A m \in Mixes : mix[m] # "cancelled" /\ (mix[m] = "broadcast" => Signs(m))

FilesInv == FilesTyped /\ Matched /\ Finished

\* What is on its way.
TrafficInv ==
  /\ latest \in [Users -> [Mixes -> Uploads \cup {None}]]
  /\ sent \in [Users -> SUBSET Uploads]
  /\ buf \in [Users -> [Mixes -> [Indices -> Uploads \cup {None}]]]
  /\ old \subseteq Users \X Mixes
  /\ strays \in 0..MaxStrays

IInv == FilesInv /\ TrafficInv

LEMMA NoneIsNoPsbt == None \notin Psbts
  BY PsbtAssumption DEF None, Psbts

LEMMA MembersAreUsers ==
  ASSUME NEW m \in Mixes PROVE Members(m) \subseteq Users
  BY PsbtAssumption DEF Members

LEMMA EmptyTyped == Empty \in [Indices -> Uploads \cup {None}]
  BY DEF Empty

-----------------------------------------------------------------------------
(***************************************************************************)
(* The messages.                                                           *)
(***************************************************************************)

LEMMA SignedIsPsbt ==
  ASSUME FilesTyped, NEW u \in Users, NEW m \in Mixes
  PROVE  Signed(u, m) \in Psbts
<1>1. skel[m] \in Builds
  BY DEF FilesTyped
<1> QED
  BY <1>1 DEF Signed, Psbts

LEMMA MadeIsPsbt ==
  ASSUME FilesTyped, NEW u \in Users, NEW x \in Makes(u)
  PROVE  x \in Psbts
<1>1. CASE u \in Honest
  BY <1>1, SignedIsPsbt DEF Makes
<1>2. CASE u \notin Honest
  BY <1>2 DEF Makes, Makeable
<1> QED
  BY <1>1, <1>2

\* Parts put together are a PSBT somebody sent, or do not parse.
LEMMA AssembledTyped ==
  ASSUME NEW parts \in [Indices -> Uploads \cup {None}]
  PROVE  Assembled(parts) \in Psbts \cup {None}
<1> DEFINE have == {i \in Indices : parts[i] # None}
<1>1. CASE \E i \in have : \A j \in have : parts[j] = parts[i] /\ have = 1..parts[i].total
  <2>1. PICK i \in have : TRUE
    BY <1>1
  <2>2. (CHOOSE k \in have : TRUE) \in have
    BY <2>1
  <2>3. parts[CHOOSE k \in have : TRUE] \in Uploads
    BY <2>2
  <2>4. parts[CHOOSE k \in have : TRUE].psbt \in Psbts
    BY <2>3 DEF Uploads
  <2>5. Assembled(parts) = parts[CHOOSE k \in have : TRUE].psbt
    BY <1>1 DEF Assembled
  <2> QED
    BY <2>4, <2>5
<1>2. CASE ~ \E i \in have : \A j \in have : parts[j] = parts[i] /\ have = 1..parts[i].total
  BY <1>2 DEF Assembled
<1> QED
  BY <1>1, <1>2

-----------------------------------------------------------------------------
(***************************************************************************)
(* The files, handler by handler.                                          *)
(***************************************************************************)

\* The files stay as they are.
LEMMA FilesStill ==
  ASSUME FilesInv, UNCHANGED files
  PROVE  FilesInv'
<1>1. FilesTyped'
  BY DEF FilesInv, FilesTyped, files
<1>2. Matched'
  BY DEF FilesInv, Matched, Fitting, files, Valid, SameTx, SignsOwn, Verified
<1>3. Finished'
  BY DEF FilesInv, Finished, Signs, files
<1> QED
  BY <1>1, <1>2, <1>3 DEF FilesInv

\* psbt_accept puts a valid return on file, of a mix whose round is still on for
\* the sender.
LEMMA AcceptKeeps ==
  ASSUME FilesInv, NEW u \in Users, NEW x \in Psbts \cup {None},
         Accept(u, x), UNCHANGED <<mix, skel>>
  PROVE  FilesInv'
<1>1. CASE Fits(u, x) = {}
  BY <1>1, FilesStill DEF Accept, files
<1>2. CASE Fits(u, x) # {}
  <2>1. PICK m \in Oldest(Fits(u, x)) :
          /\ row' = [row EXCEPT ![m][u] = "signed"]
          /\ ret' = [ret EXCEPT ![m][u] = x]
    BY <1>2 DEF Accept
  <2>2. x # None /\ x \in Psbts
    BY <1>2 DEF Fits
  <2>3. m \in Mixes /\ row[m][u] = "signing" /\ Valid(u, m, x)
    BY <2>1, <2>2 DEF Oldest, Fits, Pending
  <2>4. FilesTyped'
    BY <2>1, <2>2, <2>3 DEF FilesInv, FilesTyped
  <2>5. Matched'
    <3> SUFFICES ASSUME NEW n \in Mixes, NEW v \in Users PROVE Fitting(v, n)'
      BY DEF Matched
    <3>1. CASE n = m /\ v = u
      <4>1. ret'[n][v] = x /\ Valid(v, n, x)
        BY <3>1, <2>1, <2>3 DEF FilesInv, FilesTyped
      <4> QED
        BY <4>1 DEF Fitting, Valid, SameTx, SignsOwn, Verified
    <3>2. CASE ~(n = m /\ v = u)
      <4>1. ret'[n][v] = ret[n][v]
        BY <3>2, <2>1 DEF FilesInv, FilesTyped
      <4>2. Fitting(v, n)
        BY DEF FilesInv, Matched
      <4> QED
        BY <4>1, <4>2 DEF Fitting, Valid, SameTx, SignsOwn, Verified
    <3> QED
      BY <3>1, <3>2
  <2>6. Finished'
    <3> SUFFICES ASSUME NEW n \in Mixes
                 PROVE  mix'[n] # "cancelled" /\ (mix'[n] = "broadcast" => Signs(n)')
      BY DEF Finished
    <3>1. ASSUME mix'[n] = "broadcast" PROVE Signs(n)'
      <4> SUFFICES ASSUME NEW v \in Members(n) PROVE row'[n][v] = "signed"
        BY DEF Signs, Members
      <4>1. v \in Users /\ row[n][v] = "signed"
        BY <3>1, MembersAreUsers DEF FilesInv, Finished, Signs
      <4> QED
        BY <4>1, <2>1, <2>3 DEF FilesInv, FilesTyped
    <3> QED
      BY <3>1 DEF FilesInv, Finished
  <2> QED
    BY <2>4, <2>5, <2>6 DEF FilesInv
<1> QED
  BY <1>1, <1>2

\* A new skeleton: nothing is on file for it yet.
LEMMA RebuildKeeps ==
  ASSUME FilesInv, NEW m \in Mixes, Rebuild(m)
  PROVE  FilesInv'
<1>1. mix[m] = "signing" /\ mix' = mix
  BY DEF Rebuild
<1>2. FilesTyped'
  <2>1. skel[m] \in Nat /\ MaxBuilds[m] \in Nat
    <3>1. Builds \subseteq Nat
      BY PsbtAssumption DEF Builds
    <3> QED
      BY <3>1, PsbtAssumption DEF FilesInv, FilesTyped
  <2>2. skel[m] + 1 \in 0..MaxBuilds[m] /\ skel[m] + 1 # 0
    BY <2>1 DEF Rebuild
  <2>3. skel[m] + 1 \in Builds \ {0}
    BY <2>2 DEF Builds
  <2>4. skel' \in [Mixes -> Builds \ {0}]
    BY <2>3 DEF Rebuild, FilesInv, FilesTyped
  <2>5. row' \in [Mixes -> [Users -> {"none", "signing", "signed"}]]
    BY DEF Rebuild, FilesInv, FilesTyped
  <2>6. ret' \in [Mixes -> [Users -> Psbts \cup {None}]]
    BY DEF Rebuild, FilesInv, FilesTyped
  <2>7. \A n \in Mixes, v \in Users : ret'[n][v] # None <=> row'[n][v] = "signed"
    BY DEF Rebuild, FilesInv, FilesTyped
  <2> QED
    BY <1>1, <2>4, <2>5, <2>6, <2>7 DEF FilesInv, FilesTyped
<1>3. Matched'
  <2> SUFFICES ASSUME NEW n \in Mixes, NEW v \in Users PROVE Fitting(v, n)'
    BY DEF Matched
  <2>1. CASE n = m
    <3>1. ret'[n][v] = None
      BY <2>1 DEF Rebuild, FilesInv, FilesTyped
    <3> QED
      BY <3>1 DEF Fitting
  <2>2. CASE n # m
    <3>1. ret'[n][v] = ret[n][v] /\ skel'[n] = skel[n]
      BY <2>2 DEF Rebuild, FilesInv, FilesTyped
    <3>2. Fitting(v, n)
      BY DEF FilesInv, Matched
    <3> QED
      BY <3>1, <3>2 DEF Fitting, Valid, SameTx, SignsOwn, Verified
  <2> QED
    BY <2>1, <2>2
<1>4. Finished'
  <2> SUFFICES ASSUME NEW n \in Mixes
               PROVE  mix'[n] # "cancelled" /\ (mix'[n] = "broadcast" => Signs(n)')
    BY DEF Finished
  <2>1. ASSUME mix'[n] = "broadcast" PROVE Signs(n)'
    <3>1. n # m /\ Signs(n)
      BY <1>1, <2>1 DEF FilesInv, Finished
    <3>2. row'[n] = row[n]
      BY <3>1 DEF Rebuild, FilesInv, FilesTyped
    <3> QED
      BY <3>1, <3>2 DEF Signs, Members
  <2> QED
    BY <1>1, <2>1 DEF FilesInv, Finished
<1> QED
  BY <1>2, <1>3, <1>4 DEF FilesInv

\* What valid returns of all members come to: every owner's good signature on
\* every input, and no other.
LEMMA AllSigned ==
  ASSUME FilesTyped, Matched, NEW m \in Mixes, Signs(m)
  PROVE  /\ Current(m) = Members(m)
         /\ \A i \in Inputs : Merged(m, i) = {"good"}
<1>1. \A u \in Members(m) : ret[m][u] # None /\ Valid(u, m, ret[m][u]) /\ ret[m][u] \in Psbts
  BY MembersAreUsers DEF Signs, FilesTyped, Matched, Fitting
<1>2. Current(m) = Members(m)
  BY <1>1 DEF Current, Valid
<1>3. ASSUME NEW i \in Inputs PROVE Merged(m, i) = {"good"}
  <2>1. \A u \in Current(m) : ret[m][u].sigs[i] \in {"none", "good"}
    BY <1>1, <1>2, <1>3 DEF Psbts, Valid, Verified
  <2>2. Owner[m][i] \in Current(m) /\ i \in Own(Owner[m][i], m)
    BY <1>2, <1>3 DEF Members, Own
  <2>3. ret[m][Owner[m][i]].sigs[i] # "none"
    BY <1>1, <1>2, <2>2 DEF Valid, SignsOwn
  <2> QED
    BY <2>1, <2>2, <2>3 DEF Merged
<1> QED
  BY <1>2, <1>3

\* Everybody has signed: it is broadcast.
LEMMA CombineKeeps ==
  ASSUME FilesInv, NEW m \in Mixes, Combine(m)
  PROVE  FilesInv'
<1>1. Signs(m)
  BY DEF Combine, Signs
<1>2. Cardinality(Current(m)) >= 2 /\ \A i \in Inputs : Merged(m, i) # {}
  BY <1>1, AllSigned, TwoSides DEF FilesInv, Members
<1>3. mix' = [mix EXCEPT ![m] = "broadcast"] /\ UNCHANGED <<skel, row, ret>>
  BY <1>2 DEF Combine
<1>4. FilesTyped'
  BY <1>3 DEF FilesInv, FilesTyped
<1>5. Matched'
  BY <1>3 DEF FilesInv, Matched, Fitting, Valid, SameTx, SignsOwn, Verified
<1>6. Finished'
  BY <1>1, <1>3 DEF FilesInv, FilesTyped, Finished, Signs
<1> QED
  BY <1>4, <1>5, <1>6 DEF FilesInv

-----------------------------------------------------------------------------
(***************************************************************************)
(* The buffers, and every step.                                            *)
(***************************************************************************)

LEMMA ChunkKeeps ==
  ASSUME IInv, NEW u \in Users, NEW up \in Uploads, NEW i \in Indices, Chunk(u, up, i)
  PROVE  /\ FilesInv'
         /\ buf' \in [Users -> [Mixes -> [Indices -> Uploads \cup {None}]]]
         /\ old' \subseteq Users \X Mixes
         /\ UNCHANGED <<latest, sent>>
<1>1. PICK k \in Oldest(Pending(u)) :
        LET parts == [buf[u][k] EXCEPT ![i] = up]
            full == Cardinality({j \in Indices : parts[j] # None}) = up.total IN
        /\ buf' = [buf EXCEPT ![u][k] = IF full THEN Empty ELSE parts]
        /\ old' = IF full \/ buf[u][k] = Empty THEN old \ {<<u, k>>} ELSE old
        /\ IF full THEN Accept(u, Assembled(parts)) ELSE UNCHANGED <<row, ret>>
  BY DEF Chunk
<1> DEFINE parts == [buf[u][k] EXCEPT ![i] = up]
           full == Cardinality({j \in Indices : parts[j] # None}) = up.total
<1>2. k \in Mixes
  BY <1>1 DEF Oldest, Pending
<1>3. parts \in [Indices -> Uploads \cup {None}]
  BY <1>2 DEF IInv, TrafficInv
<1>4. UNCHANGED <<mix, skel, latest, sent>>
  BY DEF Chunk
<1>5. FilesInv'
  <2>1. CASE full
    <3>1. Accept(u, Assembled(parts))
      BY <1>1, <2>1
    <3> QED
      BY <3>1, <1>3, <1>4, AssembledTyped, AcceptKeeps DEF IInv
  <2>2. CASE ~full
    <3>1. UNCHANGED <<row, ret>>
      BY <1>1, <2>2
    <3> QED
      BY <3>1, <1>4, FilesStill DEF IInv, files
  <2> QED
    BY <2>1, <2>2
<1>6. buf' \in [Users -> [Mixes -> [Indices -> Uploads \cup {None}]]]
  <2>1. (IF full THEN Empty ELSE parts) \in [Indices -> Uploads \cup {None}]
    BY <1>3, EmptyTyped
  <2>2. buf' = [buf EXCEPT ![u][k] = IF full THEN Empty ELSE parts]
    BY <1>1
  <2> HIDE DEF full, parts
  <2> QED
    BY <2>1, <2>2, <1>2 DEF IInv, TrafficInv
<1>7. old' \subseteq Users \X Mixes
  <2>1. old' \subseteq old
    BY <1>1
  <2> QED
    BY <2>1 DEF IInv, TrafficInv
<1> QED
  BY <1>4, <1>5, <1>6, <1>7

LEMMA InitEstablishes == Init => IInv
<1> SUFFICES ASSUME Init PROVE IInv
  OBVIOUS
<1>1. \A m \in Mixes : 1 \in Builds \ {0}
  BY PsbtAssumption DEF Builds
<1>2. FilesTyped
  BY <1>1, PsbtAssumption DEF Init, FilesTyped
<1>3. Matched
  BY DEF Init, Matched, Fitting
<1>4. Finished
  BY DEF Init, Finished
<1>5. TrafficInv
  BY EmptyTyped, PsbtAssumption DEF Init, TrafficInv
<1> QED
  BY <1>2, <1>3, <1>4, <1>5 DEF IInv, FilesInv

LEMMA NextKeeps == IInv /\ [Next]_vars => IInv'
<1> SUFFICES ASSUME IInv, [Next]_vars PROVE IInv'
  OBVIOUS
<1> USE DEF IInv
<1>1. ASSUME NEW u \in Users, NEW m \in Mixes, Begin(u, m) PROVE IInv'
  <2>1. PICK n \in Parts[m] \ {1} :
          LET up == [psbt |-> Signed(u, m), total |-> n] IN
          /\ latest' = [latest EXCEPT ![u][m] = up]
          /\ sent' = [sent EXCEPT ![u] = @ \cup {up}]
    BY <1>1 DEF Begin
  <2>2. n \in Indices
    BY <2>1, PsbtAssumption DEF Indices, PartsOf
  <2>3. [psbt |-> Signed(u, m), total |-> n] \in Uploads
    BY <2>2, SignedIsPsbt DEF Uploads, FilesInv
  <2>4. FilesInv' /\ UNCHANGED <<buf, old, strays>>
    BY <1>1, FilesStill DEF Begin
  <2>5. latest' \in [Users -> [Mixes -> Uploads \cup {None}]]
    BY <2>1, <2>3 DEF TrafficInv
  <2>6. sent' \in [Users -> SUBSET Uploads]
    BY <2>1, <2>3 DEF TrafficInv
  <2> QED
    BY <2>4, <2>5, <2>6 DEF TrafficInv
<1>2. ASSUME NEW u \in Users, NEW m \in Mixes, Age(u, m) PROVE IInv'
  BY <1>2, FilesStill DEF Age, TrafficInv
<1>3. ASSUME NEW u \in Users, NEW m \in Mixes, NEW i \in Indices, Send(u, m, i) PROVE IInv'
  <2>1. latest[u][m] \in Uploads
    BY <1>3 DEF Send, Sending, TrafficInv
  <2>2. Chunk(u, latest[u][m], i) /\ strays' = strays
    BY <1>3 DEF Send
  <2> QED
    BY <2>1, <2>2, ChunkKeeps DEF TrafficInv
<1>4. ASSUME NEW u \in Users, NEW up \in sent[u], NEW i \in Indices, Stray(u, up, i)
      PROVE  IInv'
  <2>1. up \in Uploads
    BY <1>4 DEF TrafficInv
  <2>2. Chunk(u, up, i)
    BY <1>4 DEF Stray
  <2>3. strays' \in 0..MaxStrays
    BY <1>4, PsbtAssumption DEF Stray, TrafficInv
  <2> QED
    BY <2>1, <2>2, <2>3, ChunkKeeps DEF TrafficInv
<1>5. ASSUME NEW u \in Users, NEW x \in Makes(u), Whole(u, x) PROVE IInv'
  <2>1. x \in Psbts
    BY <1>5, MadeIsPsbt DEF FilesInv
  <2>2. FilesInv'
    BY <1>5, <2>1, AcceptKeeps DEF Whole
  <2> QED
    BY <1>5, <2>2 DEF Whole, TrafficInv
<1>6. ASSUME NEW m \in Mixes, Rebuild(m) PROVE IInv'
  BY <1>6, RebuildKeeps DEF Rebuild, TrafficInv
<1>7. ASSUME NEW m \in Mixes, Combine(m) PROVE IInv'
  BY <1>7, CombineKeeps DEF Combine, TrafficInv
<1>8. CASE Cleanup
  BY <1>8, FilesStill, EmptyTyped DEF Cleanup, TrafficInv
<1>9. CASE Crash
  <2>1. strays' \in 0..MaxStrays
    BY <1>9, PsbtAssumption DEF Crash, TrafficInv
  <2> QED
    BY <1>9, <2>1, FilesStill, EmptyTyped DEF Crash, TrafficInv
<1>10. CASE UNCHANGED vars
  BY <1>10, FilesStill DEF vars, files, TrafficInv
<1> QED
  BY <1>1, <1>2, <1>3, <1>4, <1>5, <1>6, <1>7, <1>8, <1>9, <1>10 DEF Next, Over

-----------------------------------------------------------------------------
(***************************************************************************)
(* The theorems.                                                           *)
(***************************************************************************)

\* The inductive invariant: a return on file is valid for the skeleton that is
\* out (Rebuild discards those for the one before), and a mix is broadcast with
\* the returns of all its members.
THEOREM ReturnsInvariant == Spec => []IInv
  BY InitEstablishes, NextKeeps, PTL DEF Spec

\* Types, and: a row is 'signed' when and only when its return is on file.
THEOREM TypeCorrect == Spec => []TypeOK
<1>1. IInv => TypeOK
  BY DEF IInv, FilesInv, FilesTyped, TrafficInv, TypeOK
<1> QED
  BY <1>1, ReturnsInvariant, PTL

\* Whatever was accepted combines: no signature that does not verify is merged,
\* none is missing, and no mix is given up when all have signed
\* (_cmd_accept_psbt, _combine_and_broadcast).
THEOREM AcceptedAlwaysCombine == Spec => []AcceptedCombine
<1>1. IInv => AcceptedCombine
  BY AllSigned DEF IInv, FilesInv, Finished, AcceptedCombine
<1> QED
  BY <1>1, ReturnsInvariant, PTL
=============================================================================
