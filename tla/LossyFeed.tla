------------------------------- MODULE LossyFeed -------------------------------
(* What the market feed promises its consumers: of each stream they get some of *)
(* the exchange's messages, in the order it sent them and none twice, however   *)
(* often the connection is replaced. How many are lost is not promised.         *)
EXTENDS Naturals

CONSTANTS Streams

VARIABLES
    sent,       \* messages the exchange has sent, per stream
    got         \* the last one the consumer has had, 0 for none

vars == <<sent, got>>

Init == sent = [s \in Streams |-> 0] /\ got = [s \in Streams |-> 0]

Send(s) == sent' = [sent EXCEPT ![s] = @ + 1] /\ UNCHANGED got

(* The messages between the last one and n are lost for good.                   *)
Deliver(s, n) ==
    /\ got[s] < n
    /\ got' = [got EXCEPT ![s] = n]
    /\ UNCHANGED sent

Next == \E s \in Streams : Send(s) \/ \E n \in 1..sent[s] : Deliver(s, n)

Spec == Init /\ [][Next]_vars
================================================================================
