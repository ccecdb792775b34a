---------------------------- MODULE PsbtReturns ----------------------------
(***************************************************************************)
(* Signed PSBTs on their way back, input by input: cut into chunks that    *)
(* arrive in any order, put together in a buffer, matched against the      *)
(* skeletons the sender has yet to sign, verified, and merged into one     *)
(* transaction per mix.  Signing follows the same round along its clock;   *)
(* here nobody is late, but some return anything they can make.            *)
(***************************************************************************)
EXTENDS Naturals, FiniteSets

CONSTANTS
  Mixes,        \* 1, 2, ...: in the order their members joined
  Users, Honest,
  Inputs,       \* of every transaction
  Owner,        \* whose each input of a mix is (input_indices)
  Parts,        \* how many messages the PSBT of a mix may be cut into; 1: it fits one
  MaxBuilds, MaxStrays   \* bounds: skeletons of a mix, late messages

ASSUME PsbtAssumption ==
  /\ Mixes \subseteq Nat \ {0} /\ IsFiniteSet(Mixes) /\ IsFiniteSet(Users) /\ Honest \subseteq Users
  /\ IsFiniteSet(Inputs)
  /\ Owner \in [Mixes -> [Inputs -> Users]]
  /\ Parts \in [Mixes -> SUBSET (Nat \ {0})]
  /\ MaxBuilds \in [Mixes -> Nat \ {0}] /\ MaxStrays \in Nat

\* Members of two users at least: fewer returns are not combined.
ASSUME TwoSides == \A m \in Mixes : Cardinality({Owner[m][i] : i \in Inputs}) >= 2

VARIABLES
  mix,      \* state of each mix: "signing", "broadcast" or "cancelled"
  skel,     \* the skeleton last sent in each (psbt_sent)
  row,      \* participants rows: "none", "signing" or "signed"
  ret,      \* psbt_returned
  latest,   \* what each user is sending for each mix: a PSBT, cut into so many parts
  sent,     \* all a user ever began to send in parts
  buf,      \* _psbt_chunks: by user and mix, the part on file for each index
  old,      \* the buffers that were begun more than STALE_CHUNK_TIMEOUT ago
  strays

vars == <<mix, skel, row, ret, latest, sent, buf, old, strays>>
files == <<mix, skel, row, ret>>

None == [mix |-> 0]
Builds == UNION {0..MaxBuilds[m] : m \in Mixes}   \* 0: a transaction that is no skeleton
Psbts == [mix : Mixes, build : Builds, sigs : [Inputs -> {"none", "good", "bad"}]]
PartsOf(m) == UNION {1..n : n \in Parts[m] \ {1}}
Indices == UNION {PartsOf(m) : m \in Mixes}
Uploads == [psbt : Psbts, total : Indices]
Empty == [i \in Indices |-> None]
Members(m) == {Owner[m][i] : i \in Inputs}

\* Of some mixes of a user, the one joined first.
Oldest(S) == {m \in S : \A n \in S : m <= n}

\* Types, and: who counts as signed has a return on file.
TypeOK ==
  /\ mix \in [Mixes -> {"signing", "broadcast", "cancelled"}]
  /\ skel \in [Mixes -> Builds \ {0}]
  /\ row \in [Mixes -> [Users -> {"none", "signing", "signed"}]]
  /\ ret \in [Mixes -> [Users -> Psbts \cup {None}]]
  /\ latest \in [Users -> [Mixes -> Uploads \cup {None}]]
  /\ sent \in [Users -> SUBSET Uploads]
  /\ buf \in [Users -> [Mixes -> [Indices -> Uploads \cup {None}]]]
  /\ old \subseteq Users \X Mixes
  /\ strays \in 0..MaxStrays
  /\ \A m \in Mixes, u \in Users : ret[m][u] # None <=> row[m][u] = "signed"

\* Round one is out in every mix.
Init ==
  /\ mix = [m \in Mixes |-> "signing"]
  /\ skel = [m \in Mixes |-> 1]
  /\ row = [m \in Mixes |-> [u \in Users |-> IF u \in Members(m) THEN "signing" ELSE "none"]]
  /\ ret = [m \in Mixes |-> [u \in Users |-> None]]
  /\ latest = [u \in Users |-> [m \in Mixes |-> None]]
  /\ sent = [u \in Users |-> {}]
  /\ buf = [u \in Users |-> [m \in Mixes |-> Empty]]
  /\ old = {} /\ strays = 0

-----------------------------------------------------------------------------
(***************************************************************************)
(* The participants and their wallets.                                     *)
(***************************************************************************)
Own(u, m) == {i \in Inputs : Owner[m][i] = u}

\* The skeleton of m as an honest wallet returns it.
Signed(u, m) ==
  [mix |-> m, build |-> skel[m],
   sigs |-> [i \in Inputs |-> IF i \in Own(u, m) THEN "good" ELSE "none"]]

\* All that somebody else can make: only an owner's key signs.
Makeable ==
  [u \in Users |-> {x \in Psbts : \A i \in Inputs : x.sigs[i] = "good" => i \in Own(u, x.mix)}]
Makes(u) == IF u \in Honest THEN {Signed(u, m) : m \in Mixes} ELSE Makeable[u]

Sending(u, m) == latest[u][m] # None /\ latest[u][m].psbt = Signed(u, m)

\* The user takes the PSBT of m apart, once per skeleton.
Begin(u, m) ==
  /\ u \in Honest /\ row[m][u] = "signing" /\ ~Sending(u, m)
  /\ \E n \in Parts[m] \ {1} :
       LET up == [psbt |-> Signed(u, m), total |-> n] IN
       /\ latest' = [latest EXCEPT ![u][m] = up]
       /\ sent' = [sent EXCEPT ![u] = @ \cup {up}]
  /\ UNCHANGED <<files, buf, old, strays>>

-----------------------------------------------------------------------------
(***************************************************************************)
(* validate_returned.                                                      *)
(***************************************************************************)

\* The transaction is the skeleton's: inputs, sequence numbers, outputs, version
\* and lock time.
SameTx(m, x) == x.mix = m /\ x.build = skel[m]

\* A new signature on each input of the sender, and on no other.
SignsOwn(u, m, x) == {i \in Inputs : x.sigs[i] # "none"} = Own(u, m)

\* A mutant of Verified: that a signature is there is enough.
Unverified(x) == TRUE

\* Every new signature is the owner's, over the skeleton.
Verified(x) == \A i \in Inputs : x.sigs[i] # "bad"

Valid(u, m, x) == SameTx(m, x) /\ SignsOwn(u, m, x) /\ Verified(x)

-----------------------------------------------------------------------------
(***************************************************************************)
(* psbt_accept and psbt_chunk.                                             *)
(***************************************************************************)

\* The mixes whose row of this user is in 'signing', oldest row first.
Pending(u) == {m \in Mixes : row[m][u] = "signing"}

\* psbt_accept: the first skeleton that matches; None, which does not parse, fits
\* nowhere, and nothing changes.
Fits(u, x) == IF x = None THEN {} ELSE {m \in Pending(u) : Valid(u, m, x)}
Accept(u, x) ==
  IF Fits(u, x) = {} THEN UNCHANGED <<row, ret>>
  ELSE \E m \in Oldest(Fits(u, x)) :
         /\ row' = [row EXCEPT ![m][u] = "signed"]
         /\ ret' = [ret EXCEPT ![m][u] = x]

\* A PSBT in one message that is not refused.
Whole(u, x) ==
  /\ x \in Makes(u) /\ Fits(u, x) # {}
  /\ u \in Honest => 1 \in Parts[x.mix]
  /\ Accept(u, x)
  /\ UNCHANGED <<mix, skel, latest, sent, buf, old, strays>>

\* The parts in a buffer, by index: a PSBT if they are all those of one upload,
\* bytes that do not parse or do not match otherwise.
Assembled(parts) ==
  LET have == {i \in Indices : parts[i] # None} IN
  IF \E i \in have : \A j \in have : parts[j] = parts[i] /\ have = 1..parts[i].total
  THEN parts[CHOOSE i \in have : TRUE].psbt ELSE None

\* A mutant of Chunk: every part renews the buffer.
ChunkRenewing(u, up, i) ==
  /\ \E k \in Oldest(Pending(u)) :
     LET parts == [buf[u][k] EXCEPT ![i] = up]
         full == Cardinality({j \in Indices : parts[j] # None}) = up.total IN
     /\ buf' = [buf EXCEPT ![u][k] = IF full THEN Empty ELSE parts]
     /\ old' = old \ {<<u, k>>}
     /\ IF full THEN Accept(u, Assembled(parts)) ELSE UNCHANGED <<row, ret>>
  /\ UNCHANGED <<mix, skel, latest, sent>>

\* One part arrives: it goes to the buffer of the user's first pending mix,
\* whatever mix it is of; when there are as many as the message says, they are
\* put together and the buffer is deleted.
Chunk(u, up, i) ==
  /\ \E k \in Oldest(Pending(u)) :
     LET parts == [buf[u][k] EXCEPT ![i] = up]
         full == Cardinality({j \in Indices : parts[j] # None}) = up.total IN
     /\ buf' = [buf EXCEPT ![u][k] = IF full THEN Empty ELSE parts]
     /\ old' = IF full \/ buf[u][k] = Empty THEN old \ {<<u, k>>} ELSE old
     /\ IF full THEN Accept(u, Assembled(parts)) ELSE UNCHANGED <<row, ret>>
  /\ UNCHANGED <<mix, skel, latest, sent>>

\* The user repeats the parts until told that the PSBT is accepted.
Send(u, m, i) ==
  /\ row[m][u] = "signing" /\ Sending(u, m)
  /\ i \in 1..latest[u][m].total
  /\ Chunk(u, latest[u][m], i)
  /\ UNCHANGED strays

\* A part of anything sent before arrives late, or again.
Stray(u, up, i) ==
  /\ strays < MaxStrays /\ up \in sent[u] /\ i \in 1..up.total
  /\ strays' = strays + 1
  /\ Chunk(u, up, i)

-----------------------------------------------------------------------------
(***************************************************************************)
(* The event loop.                                                         *)
(***************************************************************************)

\* STALE_CHUNK_TIMEOUT passes; who is sending repeats every part within it.
Age(u, m) ==
  /\ buf[u][m] # Empty
  /\ \A n \in Pending(u) :
       Sending(u, n) /\ m \in Oldest(Pending(u)) =>
         \A i \in 1..latest[u][n].total : buf[u][m][i] = latest[u][n]
  /\ old' = old \cup {<<u, m>>}
  /\ old' # old
  /\ UNCHANGED <<files, latest, sent, buf, strays>>

\* Stale chunk sets are discarded at the end of a tick.
Cleanup ==
  /\ old # {}
  /\ buf' = [u \in Users |-> [m \in Mixes |-> IF <<u, m>> \in old THEN Empty ELSE buf[u][m]]]
  /\ old' = {}
  /\ UNCHANGED <<files, latest, sent, strays>>

\* A mutant of Rebuild: returns for the last skeleton stay on file.
RebuildKeeping(m) ==
  /\ mix[m] = "signing" /\ skel[m] < MaxBuilds[m]
  /\ skel' = [skel EXCEPT ![m] = @ + 1]
  /\ row' = [row EXCEPT ![m] = [u \in Users |-> IF @[u] = "none" THEN "none" ELSE "signing"]]
  /\ UNCHANGED <<mix, ret, latest, sent, buf, old, strays>>

\* The mix is assembled again, after ghosts or a crash, and everybody is asked to
\* sign anew.
Rebuild(m) ==
  /\ mix[m] = "signing" /\ skel[m] < MaxBuilds[m]
  /\ skel' = [skel EXCEPT ![m] = @ + 1]
  /\ row' = [row EXCEPT ![m] = [u \in Users |-> IF @[u] = "none" THEN "none" ELSE "signing"]]
  /\ ret' = [ret EXCEPT ![m] = [u \in Users |-> None]]
  /\ UNCHANGED <<mix, latest, sent, buf, old, strays>>

\* The returns for this skeleton, and the signatures they bring for an input.
Current(m) == {u \in Members(m) : ret[m][u] # None /\ SameTx(m, ret[m][u])}
Merged(m, i) == {ret[m][u].sigs[i] : u \in Current(m)} \ {"none"}

\* Everybody has signed: combine, finalize and broadcast, or give up.
Combine(m) ==
  /\ mix[m] = "signing" /\ \A u \in Members(m) : row[m][u] = "signed"
  /\ mix' = [mix EXCEPT ![m] =
       IF Cardinality(Current(m)) >= 2 /\ \A i \in Inputs : Merged(m, i) # {}
       THEN "broadcast" ELSE "cancelled"]
  /\ UNCHANGED <<skel, row, ret, latest, sent, buf, old, strays>>

\* The buffers are in memory only.
Crash ==
  /\ buf' = [u \in Users |-> [m \in Mixes |-> Empty]]
  /\ old' = {}
  /\ strays < MaxStrays /\ strays' = strays + 1
  /\ UNCHANGED <<files, latest, sent>>

Over == (\A m \in Mixes : mix[m] # "signing") /\ UNCHANGED vars

Next ==
  \/ \E u \in Users :
       \/ \E m \in Mixes : Begin(u, m) \/ Age(u, m) \/ \E i \in Indices : Send(u, m, i)
       \/ \E up \in sent[u], i \in Indices : Stray(u, up, i)
       \/ \E x \in Makes(u) : Whole(u, x)
  \/ \E m \in Mixes : Rebuild(m) \/ Combine(m)
  \/ Cleanup \/ Crash \/ Over

Spec == Init /\ [][Next]_vars

\* Time passes, the loop ticks, and honest users go on sending.
FairSpec ==
  /\ Spec /\ WF_vars(Cleanup)
  /\ \A u \in Honest, m \in Mixes :
       /\ WF_vars(Age(u, m)) /\ WF_vars(Begin(u, m)) /\ WF_vars(Whole(u, Signed(u, m)))
       /\ \A i \in PartsOf(m) : WF_vars(Send(u, m, i))
-----------------------------------------------------------------------------
\* When everybody's return was accepted, whatever they sent: the merged PSBT is
\* complete, and every input of the transaction is signed by its owner
\* (validate_returned: a bad one must not be "only caught when the network
\* rejects the broadcast").
AcceptedCombine ==
  \A m \in Mixes :
    /\ mix[m] # "cancelled"
    /\ mix[m] = "broadcast" => \A i \in Inputs : Merged(m, i) = {"good"}

\* Who goes on sending gets rid of every PSBT due, whatever is left in the buffers
\* from an earlier one (_cmd_accept_psbt_chunk, STALE_CHUNK_TIMEOUT).
UploadsAccepted == \A u \in Honest : []<>(Pending(u) = {})
=============================================================================
