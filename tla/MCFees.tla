------------------------------- MODULE MCFees -------------------------------
(* Instances of FeeEngine for TLC: real vsizes, rates in half sats. *)
EXTENDS FeeEngine

Bag(nc, ins, conf, addrs) == [nc |-> nc, ins |-> ins, conf |-> conf, addrs |-> addrs]

\* Coins for no output, and for one to three with dust or more left over; some
\* come with a conforming coin, one is nothing else.
Bags ==
  {Bag(nc, 1, 0, a) : nc \in {40000, 65000, 164000, 181500}, a \in {1, 2, 4}}
    \cup {Bag(115000, ins, 1, a) : ins \in 1..2, a \in {2, 3, 5}}
    \cup {Bag(0, 0, 1, 1)}

\* 1.5, the least, 100 and 300 sats per vbyte.
Any == {3, 200, 600}

\* These are as the proof for all instances assumes them to be.
ASSUME InstanceDamped == Damped
=============================================================================
