---------------------------- MODULE MarketFeedProofs ---------------------------
(* Theorems about MarketFeed for channels of any size and any number of         *)
(* connections and messages.                                                    *)
EXTENDS MarketFeed, SequenceTheorems, TLAPS

(* What a connection has read and not passed on, in the order it was read.      *)
Pending(c) == msgCh[c] \o held[c]

(* A sequence of messages that is in order on each stream, up to what was sent. *)
InOrder(q, top) ==
    /\ \A i, j \in 1..Len(q) : i < j /\ q[i].stream = q[j].stream => q[i].n < q[j].n
    /\ \A i \in 1..Len(q) : q[i].n <= top[q[i].stream]

(* Later than what a stream's consumer has had, or has coming.                  *)
Later(m, had, coming) ==
    /\ had[m.stream] < m.n
    /\ \A j \in 1..Len(coming[m.stream]) : coming[m.stream][j].n < m.n

ConnInv == \A c \in Conns : InOrder(Pending(c), sent)

ChanInv ==
    \A s \in Streams : /\ InOrder(chan[s], sent)
                       /\ seen[s] <= sent[s]
                       /\ \A i \in 1..Len(chan[s]) : chan[s][i].stream = s /\ seen[s] < chan[s][i].n

(* The loop's own connection has only messages later than those passed on: the  *)
(* older connections, whose messages may be older, are read by nobody.          *)
LoopInv ==
    \A c \in Conns : up /\ c = conn =>
        \A i \in 1..Len(Pending(c)) : Later(Pending(c)[i], seen, chan)

OrderInv == ConnInv /\ ChanInv /\ LoopInv

(* A connection that was never made has no messages.                            *)
FreshInv == \A c \in Conns : pump[c] = "none" => msgCh[c] = <<>>

IInv == TypeOK /\ FreshInv /\ ReadIsDispatched /\ OrderInv

--------------------------------------------------------------------------------
(* Types of the constants and of what the steps take apart.                     *)
LEMMA CapTypes ==
    PumpCap \in Nat \ {0} /\ MaxConns \in Nat /\ \A s \in Streams : ChanCap[s] \in Nat \ {0}
    BY CapAssumption, SentAssumption

(* Sequences, without the specification around them.                            *)
LEMMA Joined ==
    ASSUME NEW a \in Seq(Message), NEW b \in Seq(Message), Len(b) = 1
    PROVE  a \o b \in Seq(Message) /\ Len(a \o b) = Len(a) + 1 /\ Len(a) \in Nat
    BY ConcatProperties, LenProperties

(* Putting a sequence of the right length in place of another.                *)
LEMMA SequencePut ==
    ASSUME NEW S, NEW f \in [S -> Seq(Message)], NEW s \in S, NEW q \in Seq(Message),
           NEW l \in [S -> Nat], \A t \in S : Len(f[t]) <= l[t], Len(q) <= l[s]
    PROVE  LET g == [f EXCEPT ![s] = q]
           IN  g \in [S -> Seq(Message)] /\ \A t \in S : Len(g[t]) <= l[t]
    OBVIOUS

(* Types of a connection's two stores; the pump holds one message or none.    *)
LEMMA PendingTypes ==
    ASSUME TypeOK, NEW c \in Conns
    PROVE  /\ Pending(c) \in Seq(Message)
           /\ held[c] = <<>> => Pending(c) = msgCh[c]
           /\ msgCh[c] \in Seq(Message) /\ held[c] \in Seq(Message)
           /\ pump[c] # "holding" => held[c] = <<>>
           /\ pump[c] = "holding" => Len(held[c]) = 1
    <1>1. msgCh[c] \in Seq(Message) /\ held[c] \in Seq(Message)
        BY DEF TypeOK, ConnTypes
    <1>2. Len(held[c]) = IF pump[c] = "holding" THEN 1 ELSE 0
        BY DEF TypeOK, ConnTypes
    <1>3. pump[c] # "holding" => held[c] = <<>>
        BY <1>1, <1>2
    <1>4. msgCh[c] \o held[c] \in Seq(Message)
        BY <1>1
    <1>5. msgCh[c] \o <<>> = msgCh[c]
        BY <1>1
    <1> QED BY <1>1, <1>2, <1>3, <1>4, <1>5 DEF Pending

(* The first of two joined sequences is taken apart from the front.             *)
LEMMA JoinedTail ==
    ASSUME NEW a \in Seq(Message), a # <<>>, NEW b \in Seq(Message)
    PROVE  /\ a \o b \in Seq(Message) /\ a \o b # <<>> /\ Head(a \o b) = Head(a)
           /\ Tail(a \o b) = Tail(a) \o b
    <1> DEFINE q == a \o b
               r == Tail(a) \o b
    <1>1. /\ Len(a) \in Nat \ {0} /\ Len(b) \in Nat /\ Head(a) = a[1]
          /\ Tail(a) \in Seq(Message) /\ Len(Tail(a)) = Len(a) - 1
          /\ \A i \in 1..Len(Tail(a)) : Tail(a)[i] = a[i + 1]
        OBVIOUS
    <1>2. /\ q \in Seq(Message) /\ Len(q) = Len(a) + Len(b)
          /\ \A i \in 1..(Len(a) + Len(b)) : q[i] = IF i <= Len(a) THEN a[i] ELSE b[i - Len(a)]
        BY ConcatProperties
    <1>3. /\ r \in Seq(Message) /\ Len(r) = Len(a) - 1 + Len(b)
          /\ \A i \in 1..(Len(a) - 1 + Len(b)) :
                 r[i] = IF i <= Len(a) - 1 THEN a[i + 1] ELSE b[i - (Len(a) - 1)]
        <2>1. /\ r \in Seq(Message) /\ Len(r) = Len(Tail(a)) + Len(b)
              /\ \A i \in 1..(Len(Tail(a)) + Len(b)) :
                     r[i] = IF i <= Len(Tail(a)) THEN Tail(a)[i] ELSE b[i - Len(Tail(a))]
            BY <1>1, ConcatProperties
        <2> HIDE DEF r
        <2> QED BY <1>1, <2>1
    <1> HIDE DEF q, r
    <1>4. q # <<>> /\ Head(q) = a[1]
        <2>1. Len(q) \in Nat \ {0} /\ 1 \in 1..(Len(a) + Len(b)) /\ 1 <= Len(a)
            BY <1>1, <1>2
        <2>2. q[1] = a[1]
            BY <1>2, <2>1
        <2> QED BY <1>2, <2>1, <2>2
    <1>5. /\ Tail(q) \in Seq(Message) /\ Len(Tail(q)) = Len(q) - 1
          /\ \A i \in 1..Len(Tail(q)) : Tail(q)[i] = q[i + 1]
        BY <1>2, <1>4
    <1>6. Len(Tail(q)) = Len(r)
        BY <1>1, <1>2, <1>3, <1>5
    <1>7. ASSUME NEW i \in 1..Len(Tail(q)) PROVE Tail(q)[i] = r[i]
        <2>1. i \in 1..(Len(a) - 1 + Len(b)) /\ i + 1 \in 1..(Len(a) + Len(b))
            BY <1>1, <1>2, <1>5
        <2>2. Tail(q)[i] = IF i + 1 <= Len(a) THEN a[i + 1] ELSE b[(i + 1) - Len(a)]
            BY <1>2, <1>5, <2>1
        <2>3. (i + 1 <= Len(a) <=> i <= Len(a) - 1) /\ (i + 1) - Len(a) = i - (Len(a) - 1)
            BY <1>1, <2>1
        <2> QED BY <1>3, <2>1, <2>2, <2>3
    <1>8. Tail(q) = r
        BY <1>3, <1>5, <1>6, <1>7, SeqEqual
    <1> QED BY <1>1, <1>2, <1>4, <1>8 DEF q, r

(* What a message in a sequence is.                                             *)
LEMMA Members ==
    ASSUME NEW q \in Seq(Message)
    PROVE  /\ Len(q) \in Nat
           /\ \A i \in 1..Len(q) : /\ q[i] \in Message /\ q[i].stream \in Streams
                                   /\ q[i].n \in Nat
    <1>1. \A i \in 1..Len(q) : q[i] \in Message
        BY ElementOfSeq
    <1> QED BY <1>1, LenProperties DEF Message

(* A later message at the end of a sequence leaves it in order, and what was    *)
(* sent can only grow.                                                          *)
LEMMA AppendInOrder ==
    ASSUME NEW q \in Seq(Message), NEW m \in Message, NEW top \in [Streams -> Nat],
           NEW top2 \in [Streams -> Nat], InOrder(q, top),
           \A t \in Streams : top[t] <= top2[t],
           m.n <= top2[m.stream],
           \A i \in 1..Len(q) : q[i].stream = m.stream => q[i].n < m.n
    PROVE  InOrder(Append(q, m), top2)
    <1> DEFINE r == Append(q, m)
    <1>1. Len(r) = Len(q) + 1 /\ r[Len(q) + 1] = m /\ \A i \in 1..Len(q) : r[i] = q[i]
        OBVIOUS
    <1>2. \A i \in 1..Len(r) : i \in 1..Len(q) \/ i = Len(q) + 1
        BY <1>1, Members
    <1> HIDE DEF r
    <1>3. \A i, j \in 1..Len(r) : i < j => i \in 1..Len(q)
        BY <1>1, <1>2, Members
    <1>4. \A i, j \in 1..Len(r) : i < j /\ r[i].stream = r[j].stream => r[i].n < r[j].n
        BY <1>1, <1>2, <1>3 DEF InOrder
    <1>5. \A i \in 1..Len(q) : q[i].n <= top2[q[i].stream]
        <2> SUFFICES ASSUME NEW i \in 1..Len(q) PROVE q[i].n <= top2[q[i].stream]
            OBVIOUS
        <2>1. q[i].stream \in Streams /\ q[i].n \in Nat
            BY Members
        <2>2. q[i].n <= top[q[i].stream] /\ top[q[i].stream] <= top2[q[i].stream]
              /\ top[q[i].stream] \in Nat /\ top2[q[i].stream] \in Nat
            BY <2>1 DEF InOrder
        <2> QED BY <2>1, <2>2
    <1>6. \A i \in 1..Len(r) : r[i].n <= top2[r[i].stream]
        BY <1>1, <1>2, <1>5
    <1> QED BY <1>4, <1>6 DEF InOrder, r

(* What was sent growing leaves a sequence in order.                          *)
LEMMA GrowInOrder ==
    ASSUME NEW q \in Seq(Message), NEW top \in [Streams -> Nat], NEW top2 \in [Streams -> Nat],
           InOrder(q, top), \A t \in Streams : top[t] <= top2[t]
    PROVE  InOrder(q, top2)
    <1> SUFFICES ASSUME NEW i \in 1..Len(q) PROVE q[i].n <= top2[q[i].stream]
        BY DEF InOrder
    <1>1. q[i].stream \in Streams /\ q[i].n \in Nat
        BY Members
    <1>2. q[i].n <= top[q[i].stream] /\ top[q[i].stream] <= top2[q[i].stream]
          /\ top[q[i].stream] \in Nat /\ top2[q[i].stream] \in Nat
        BY <1>1 DEF InOrder
    <1> QED BY <1>1, <1>2

(* Taking the first message leaves the others in order, and later than it.      *)
LEMMA TailInOrder ==
    ASSUME NEW q \in Seq(Message), q # <<>>, NEW top \in [Streams -> Nat], InOrder(q, top)
    PROVE  /\ Tail(q) \in Seq(Message) /\ Len(Tail(q)) = Len(q) - 1 /\ Len(q) \in Nat \ {0}
           /\ \A i \in 1..Len(Tail(q)) : Tail(q)[i] = q[i + 1] /\ i + 1 \in 1..Len(q)
           /\ Head(q) = q[1] /\ Head(q) \in Message /\ 1 \in 1..Len(q)
           /\ InOrder(Tail(q), top)
           /\ \A i \in 1..Len(Tail(q)) : Tail(q)[i].stream = Head(q).stream
                                           => Head(q).n < Tail(q)[i].n
    <1>1. /\ Tail(q) \in Seq(Message) /\ Len(Tail(q)) = Len(q) - 1 /\ Len(q) \in Nat \ {0}
          /\ \A i \in 1..Len(Tail(q)) : Tail(q)[i] = q[i + 1]
          /\ Head(q) = q[1] /\ Head(q) \in Message
        OBVIOUS
    <1>2. 1 \in 1..Len(q) /\ \A i \in 1..Len(Tail(q)) : i \in Nat \ {0} /\ i + 1 \in 1..Len(q)
        BY <1>1
    <1>3. \A i, j \in 1..Len(Tail(q)) : i < j => i + 1 < j + 1
        BY <1>1
    <1>4. \A i \in 1..Len(Tail(q)) : 1 < i + 1
        BY <1>2
    <1>5. \A i, j \in 1..Len(Tail(q)) : i < j /\ q[i + 1].stream = q[j + 1].stream
                                         => q[i + 1].n < q[j + 1].n
        BY <1>2, <1>3 DEF InOrder
    <1>6. \A i \in 1..Len(Tail(q)) : q[1].stream = q[i + 1].stream => q[1].n < q[i + 1].n
        BY <1>2, <1>4 DEF InOrder
    <1>7. \A i \in 1..Len(Tail(q)) : q[i + 1].n <= top[q[i + 1].stream]
        BY <1>2 DEF InOrder
    <1>8. InOrder(Tail(q), top)
        BY <1>1, <1>5, <1>7 DEF InOrder
    <1> QED BY <1>1, <1>2, <1>6, <1>8

--------------------------------------------------------------------------------
(* Types, one action at a time: first of the connections.                       *)
LEMMA ConnTypeStep ==
    ASSUME TypeOK, [Next]_vars
    PROVE  ConnTypes'
    <1> USE CapTypes DEF TypeOK, ConnTypes, Conns
    <1>1. CASE Connect
        <2>1. conn' = conn + 1 /\ conn' \in 1..MaxConns
            BY <1>1 DEF Connect
        <2>2. pump' = [pump EXCEPT ![conn + 1] = "reading"]
            BY <1>1 DEF Connect
        <2>3. \A c \in 1..MaxConns : pump'[c] = "none" <=> c > conn'
            BY <2>1, <2>2
        <2>4. closed' \subseteq 1..conn' /\ pinged' \subseteq 1..conn'
            BY <1>1, <2>1 DEF Connect
        <2>5. up' \in BOOLEAN
            BY <1>1, Zenon DEF Connect
        <2> QED BY <1>1, <2>1, <2>2, <2>3, <2>4, <2>5 DEF Connect
    <1>2. CASE Break
        BY <1>2 DEF Break
    <1>3. CASE ChannelClosed
        <2>1. up' \in BOOLEAN /\ ~up' /\ up
            BY <1>3, Zenon DEF ChannelClosed
        <2>2. conn \in 1..conn
            BY <2>1
        <2> QED BY <1>3, <2>1, <2>2 DEF ChannelClosed
    <1>4. CASE PingFails
        <2>1. up' \in BOOLEAN /\ ~up' /\ up
            BY <1>4, Zenon DEF PingFails
        <2>2. conn \in 1..conn
            BY <2>1
        <2> QED BY <1>4, <2>1, <2>2 DEF PingFails
    <1>5. ASSUME NEW s \in Streams, NEW m \in NextMessage(s), NEW c \in Conns, Read(c, m)
          PROVE  ConnTypes'
        <2>1. m \in Message /\ <<m>> \in Seq(Message) /\ Len(<<m>>) = 1
            BY <1>5 DEF Read, Sends, NextMessage, Message, ChanTypes
        <2> QED BY <1>5, <2>1 DEF Read
    <1>6. ASSUME NEW c \in Conns, Push(c) PROVE ConnTypes'
        <2>1. /\ msgCh[c] \o held[c] \in Seq(Message)
              /\ Len(msgCh[c] \o held[c]) = Len(msgCh[c]) + 1
            <3>1. msgCh[c] \in Seq(Message) /\ held[c] \in Seq(Message) /\ Len(held[c]) = 1
                BY <1>6, PendingTypes DEF Push
            <3> QED BY <3>1, Joined
        <2> DEFINE q == msgCh[c] \o held[c]
        <2>2. /\ pump[c] = "holding" /\ Len(msgCh[c]) < PumpCap /\ Len(msgCh[c]) \in Nat
              /\ msgCh' = [msgCh EXCEPT ![c] = q] /\ held' = [held EXCEPT ![c] = <<>>]
              /\ pump' = [pump EXCEPT ![c] = "reading"]
              /\ UNCHANGED <<conn, up, closed, pinged>>
            BY <1>6 DEF Push
        <2>3. Len(q) <= PumpCap /\ q \in Seq(Message)
            BY <2>1, <2>2
        <2> HIDE DEF q
        <2>4. msgCh' \in [Conns -> Seq(Message)] /\ \A d \in Conns : Len(msgCh'[d]) <= PumpCap
            BY <2>2, <2>3
        <2>5. held' \in [Conns -> Seq(Message)] /\ Len(held'[c]) = 0
              /\ \A d \in Conns \ {c} : held'[d] = held[d]
            BY <2>2
        <2>6. pump' \in [Conns -> {"none", "reading", "holding", "done"}] /\ pump'[c] = "reading"
              /\ \A d \in Conns \ {c} : pump'[d] = pump[d]
            BY <2>2
        <2>7. \A d \in Conns : /\ pump'[d] = "none" <=> d > conn'
                               /\ Len(held'[d]) = IF pump'[d] = "holding" THEN 1 ELSE 0
                               /\ pump'[d] = "done" => d \in closed'
            <3>1. ~(c > conn) /\ conn' = conn /\ closed' = closed
                BY <2>2
            <3>2. Len(held'[c]) = 0 /\ pump'[c] = "reading"
                BY <2>5, <2>6
            <3>3. ASSUME NEW d \in Conns \ {c}
                  PROVE  /\ pump'[d] = "none" <=> d > conn'
                         /\ Len(held'[d]) = IF pump'[d] = "holding" THEN 1 ELSE 0
                         /\ pump'[d] = "done" => d \in closed'
                BY <2>5, <2>6, <3>1
            <3> QED BY <3>1, <3>2, <3>3
        <2> QED BY <2>2, <2>4, <2>5, <2>6, <2>7
    <1>7. ASSUME NEW c \in Conns, PumpEnds(c) PROVE ConnTypes'
        BY <1>7 DEF PumpEnds
    <1>8. CASE Dispatch
        <2>1. conn \in Conns /\ msgCh[conn] \in Seq(Message) /\ msgCh[conn] # <<>>
            BY <1>8 DEF Dispatch, Source
        <2>2. /\ Tail(msgCh[conn]) \in Seq(Message)
              /\ Len(Tail(msgCh[conn])) <= Len(msgCh[conn])
            BY <2>1
        <2> QED BY <1>8, <2>1, <2>2 DEF Dispatch, Source
    <1>9. CASE UNCHANGED connVars
        BY <1>9 DEF connVars
    <1> QED BY <1>1, <1>2, <1>3, <1>4, <1>5, <1>6, <1>7, <1>8, <1>9
            DEF Next, Skip, TakeTrade, TakeDepth, TakeMark, TakeKline, Take, vars

(* What a message taken from a channel is.                                      *)
LEMMA TakeTypes ==
    ASSUME TypeOK, NEW s \in Streams, Take(s)
    PROVE  /\ chan[s] \in Seq(Message) /\ chan[s] # <<>>
           /\ Head(chan[s]) \in Message /\ Head(chan[s]).n \in Nat
           /\ Tail(chan[s]) \in Seq(Message) /\ Len(Tail(chan[s])) <= Len(chan[s])
    <1>1. chan[s] \in Seq(Message) /\ chan[s] # <<>>
        BY DEF Take, TypeOK, ChanTypes
    <1>2. Head(chan[s]) \in Message
        BY <1>1
    <1> QED BY <1>1, <1>2 DEF Message

(* A message on its way is put in its stream's channel or dropped.              *)
LEMMA DispatchOffers ==
    ASSUME TypeOK, Dispatch
    PROVE  LET m == Head(msgCh[conn])
           IN  /\ m \in Message /\ m.stream \in Streams /\ chan[m.stream] \in Seq(Message)
               /\ \/ UNCHANGED chan
                  \/ /\ Len(chan[m.stream]) < ChanCap[m.stream]
                     /\ chan' = [chan EXCEPT ![m.stream] = Append(chan[m.stream], m)]
               /\ lost' \subseteq Nat
    <1> DEFINE m == Head(msgCh[conn])
    <1>1. conn \in Conns /\ msgCh[conn] \in Seq(Message) /\ msgCh[conn] # <<>>
        BY CapTypes DEF Dispatch, Source, TypeOK, ConnTypes, Conns
    <1>2. m \in Message
        BY <1>1
    <1>3. m.stream \in Streams /\ m.n \in Nat
        BY <1>2 DEF Message
    <1>4. Offer(m) \/ Refuse(m)
        BY DEF Dispatch, Source, AggTradeHandler, DepthHandler, MarkPriceHandler, KlineHandler
    <1> HIDE DEF m
    <1>5. lost' \subseteq Nat
        BY <1>3, <1>4 DEF Offer, Refuse, Lose, TypeOK, ChanTypes
    <1>6. \/ UNCHANGED chan
          \/ /\ Len(chan[m.stream]) < ChanCap[m.stream]
             /\ chan' = [chan EXCEPT ![m.stream] = Append(chan[m.stream], m)]
        BY <1>4 DEF Offer, Refuse
    <1>7. chan[m.stream] \in Seq(Message)
        BY <1>3 DEF TypeOK, ChanTypes
    <1> QED BY <1>2, <1>3, <1>5, <1>6, <1>7 DEF m

(* Types of the channels and of what the exchange has sent.                     *)
LEMMA ChanTypeStep ==
    ASSUME TypeOK, [Next]_vars
    PROVE  ChanTypes'
    <1> USE CapTypes DEF TypeOK, ChanTypes
    <1>1. ASSUME NEW s \in Streams, NEW m \in NextMessage(s), Sends(m),
                 UNCHANGED chan, lost' \subseteq Nat
          PROVE  ChanTypes'
        <2>1. m.stream \in Streams /\ m.n \in Nat /\ m.form \in Forms
            BY DEF NextMessage
        <2>2. sent' \in [Streams -> Nat]
            BY <1>1, <2>1 DEF Sends
        <2>3. ended' \subseteq [n : Nat, form : Forms]
            <3>1. [n |-> m.n, form |-> m.form] \in [n : Nat, form : Forms]
                BY <2>1
            <3>2. ended' = ended \/ ended' = ended \union {[n |-> m.n, form |-> m.form]}
                BY <1>1 DEF Sends
            <3> QED BY <3>1, <3>2
        <2> QED BY <1>1, <2>2, <2>3
    <1>2. ASSUME NEW s \in Streams, NEW m \in NextMessage(s), Skip(m) PROVE ChanTypes'
        <2>1. m.n \in Nat
            BY DEF NextMessage
        <2>2. lost' \subseteq Nat
            BY <1>2, <2>1 DEF Skip, Lose
        <2> QED BY <1>1, <1>2, <2>2 DEF Skip
    <1>3. ASSUME NEW s \in Streams, NEW m \in NextMessage(s), NEW c \in Conns, Read(c, m)
          PROVE  ChanTypes'
        BY <1>1, <1>3 DEF Read
    <1>4. CASE Dispatch
        <2> DEFINE m == Head(msgCh[conn])
        <2>1. /\ m \in Message /\ m.stream \in Streams /\ chan[m.stream] \in Seq(Message)
              /\ \/ UNCHANGED chan
                 \/ /\ Len(chan[m.stream]) < ChanCap[m.stream]
                    /\ chan' = [chan EXCEPT ![m.stream] = Append(chan[m.stream], m)]
              /\ lost' \subseteq Nat
            BY <1>4, DispatchOffers
        <2> HIDE DEF m
        <2>2. /\ Append(chan[m.stream], m) \in Seq(Message)
              /\ Len(Append(chan[m.stream], m)) = Len(chan[m.stream]) + 1
              /\ Len(chan[m.stream]) \in Nat
            BY <2>1
        <2>3. chan' \in [Streams -> Seq(Message)] /\ \A s \in Streams : Len(chan'[s]) <= ChanCap[s]
            <3>1. CASE UNCHANGED chan
                BY <3>1
            <3>2. CASE /\ Len(chan[m.stream]) < ChanCap[m.stream]
                       /\ chan' = [chan EXCEPT ![m.stream] = Append(chan[m.stream], m)]
                <4>1. ChanCap \in [Streams -> Nat]
                    BY CapAssumption
                <4>2. Len(Append(chan[m.stream], m)) <= ChanCap[m.stream]
                    BY <2>1, <2>2, <3>2, <4>1
                <4> QED BY <2>1, <2>2, <3>2, <4>1, <4>2, SequencePut
            <3> QED BY <2>1, <3>1, <3>2
        <2> QED BY <1>4, <2>1, <2>3 DEF Dispatch
    <1>5. ASSUME NEW s \in Streams, Take(s) PROVE ChanTypes'
        <2>1. \A t \in Streams : Len(chan[t]) \in Nat /\ Len(chan[t]) <= ChanCap[t]
            OBVIOUS
        <2>2. /\ Tail(chan[s]) \in Seq(Message) /\ Len(Tail(chan[s])) <= Len(chan[s])
              /\ Len(Tail(chan[s])) \in Nat
            BY <1>5, TakeTypes
        <2>3. chan' = [chan EXCEPT ![s] = Tail(chan[s])] /\ UNCHANGED <<sent, ended, lost>>
            BY <1>5 DEF Take
        <2>4. \A t \in Streams : Len(chan'[t]) <= ChanCap[t]
            BY <2>1, <2>2, <2>3
        <2> QED BY <2>2, <2>3, <2>4
    <1>6. CASE UNCHANGED <<chan, sent, ended, lost>>
        BY <1>6
    <1>7. \/ \E s \in Streams : \E m \in NextMessage(s) : Skip(m) \/ \E c \in Conns : Read(c, m)
          \/ Dispatch \/ \E s \in Streams : Take(s)
          \/ UNCHANGED <<chan, sent, ended, lost>>
        BY DEF Next, Connect, Break, ChannelClosed, PingFails, Push, PumpEnds, TakeTrade,
               TakeDepth, TakeMark, TakeKline, vars, Streams
    <1> QED BY <1>2, <1>3, <1>4, <1>5, <1>6, <1>7

(* Types of what the consumers keep.                                            *)
LEMMA TrackTypeStep ==
    ASSUME TypeOK, [Next]_vars
    PROVE  TrackTypes'
    <1> USE DEF TypeOK, TrackTypes
    <1>1. ASSUME NEW s \in Streams, Take(s) PROVE seen' \in [Streams -> Nat]
        BY <1>1, TakeTypes DEF Take
    <1>2. CASE TakeTrade \/ TakeDepth \/ TakeMark
        BY <1>1, <1>2 DEF TakeTrade, TakeDepth, TakeMark, Streams
    <1>3. CASE TakeKline
        <2> DEFINE k == Head(chan["kline"])
        <2>1. k.n \in Nat /\ seen' \in [Streams -> Nat]
            BY <1>1, <1>3, TakeTypes DEF TakeKline, Streams
        <2>2. prevClose' = prevClose \/ prevClose' = [n |-> k.n, zero |-> k.form # "good"]
            BY <1>3 DEF TakeKline
        <2>3. priceMom' = priceMom \/ priceMom' = [from |-> prevClose.n, to |-> k.n]
            BY <1>3 DEF TakeKline
        <2>4. prevClose' \in [n : Nat, zero : BOOLEAN]
            <3> HIDE DEF k
            <3>1. ASSUME NEW n \in Nat, NEW z \in BOOLEAN
                  PROVE  [n |-> n, zero |-> z] \in [n : Nat, zero : BOOLEAN]
                OBVIOUS
            <3>2. (k.form # "good") \in BOOLEAN
                OBVIOUS
            <3> QED BY <2>1, <2>2, <3>1, <3>2, Zenon
        <2>5. priceMom' \in [from : Nat, to : Nat]
            BY <2>1, <2>3
        <2> QED BY <2>1, <2>4, <2>5
    <1>4. CASE UNCHANGED trackVars
        BY <1>4 DEF trackVars
    <1> QED BY <1>2, <1>3, <1>4
            DEF Next, Connect, Break, ChannelClosed, PingFails, Push, PumpEnds, Skip, Read,
                Dispatch, vars

(* Types, every step.                                                         *)
LEMMA TypeStep ==
    ASSUME TypeOK, [Next]_vars
    PROVE  TypeOK'
    BY ConnTypeStep, ChanTypeStep, TrackTypeStep DEF TypeOK

(* What a loop that ended by its channel has behind it stays as it was: nothing *)
(* in the channel and no pump. And the next connection starts with nothing.     *)
LEMMA EndStep ==
    ASSUME TypeOK, FreshInv, ReadIsDispatched, [Next]_vars
    PROVE  FreshInv' /\ ReadIsDispatched'
    <1> USE DEF FreshInv, ReadIsDispatched, Over, TypeOK, ConnTypes, Conns
    <1>1. CASE Connect
        BY <1>1 DEF Connect
    <1>2. CASE Break
        BY <1>2 DEF Break
    <1>3. CASE ChannelClosed
        BY <1>3 DEF ChannelClosed
    <1>4. CASE PingFails
        BY <1>4 DEF PingFails
    <1>5. ASSUME NEW c \in Conns, NEW m, Read(c, m) PROVE FreshInv' /\ ReadIsDispatched'
        BY <1>5 DEF Read
    <1>6. ASSUME NEW c \in Conns, Push(c) PROVE FreshInv' /\ ReadIsDispatched'
        BY <1>6 DEF Push
    <1>7. ASSUME NEW c \in Conns, PumpEnds(c) PROVE FreshInv' /\ ReadIsDispatched'
        BY <1>7 DEF PumpEnds
    <1>8. CASE Dispatch
        <2>1. pump[conn] # "none"
            BY <1>8 DEF Dispatch
        <2> QED BY <1>8, <2>1 DEF Dispatch, Source
    <1>9. CASE UNCHANGED connVars
        BY <1>9 DEF connVars
    <1>10. \/ Connect \/ Break \/ ChannelClosed \/ PingFails \/ Dispatch \/ UNCHANGED connVars
           \/ \E c \in Conns : Push(c) \/ PumpEnds(c) \/ \E s \in Streams :
                                                            \E m \in NextMessage(s) : Read(c, m)
        BY DEF Next, Skip, TakeTrade, TakeDepth, TakeMark, TakeKline, Take, vars
    <1> QED BY <1>1, <1>2, <1>3, <1>4, <1>5, <1>6, <1>7, <1>8, <1>9, <1>10
--------------------------------------------------------------------------------
(* The exchange's next message is later than all before it, and the rest stay   *)
(* in order under what has now been sent.                                       *)
LEMMA Grown ==
    ASSUME TypeOK, OrderInv, NEW s \in Streams, NEW m \in NextMessage(s), Sends(m)
    PROVE  /\ m \in Message /\ m.stream \in Streams /\ m.n \in Nat /\ m.n = sent[m.stream] + 1
           /\ sent \in [Streams -> Nat] /\ sent' \in [Streams -> Nat]
           /\ \A t \in Streams : sent[t] <= sent'[t]
           /\ m.n <= sent'[m.stream]
           /\ \A t \in Streams : InOrder(chan[t], sent') /\ seen[t] <= sent'[t]
           /\ \A c \in Conns : InOrder(Pending(c), sent')
    <1>1. m \in Message /\ m.stream \in Streams /\ m.n \in Nat /\ m.n = sent[m.stream] + 1
        <2>1. sent[s] \in Nat
            BY DEF TypeOK, ChanTypes
        <2>2. m \in [stream : {s}, n : {sent[s] + 1}, form : Forms, closed : BOOLEAN]
            BY DEF NextMessage
        <2> QED BY <2>1, <2>2 DEF Message
    <1>2. sent' = [sent EXCEPT ![m.stream] = m.n] /\ sent \in [Streams -> Nat]
        BY DEF Sends, TypeOK, ChanTypes
    <1>3. sent' \in [Streams -> Nat] /\ \A t \in Streams : sent[t] <= sent'[t]
        BY <1>1, <1>2
    <1>4. m.n <= sent'[m.stream]
        BY <1>1, <1>2
    <1>5. ASSUME NEW t \in Streams PROVE InOrder(chan[t], sent') /\ seen[t] <= sent'[t]
        <2>1. chan[t] \in Seq(Message) /\ seen[t] \in Nat /\ sent[t] \in Nat /\ sent'[t] \in Nat
            BY <1>3 DEF TypeOK, ChanTypes, TrackTypes
        <2>2. InOrder(chan[t], sent) /\ seen[t] <= sent[t]
            BY DEF OrderInv, ChanInv
        <2>3. InOrder(chan[t], sent')
            BY <1>2, <1>3, <2>1, <2>2, GrowInOrder
        <2>4. seen[t] <= sent'[t]
            BY <1>3, <2>1, <2>2
        <2> QED BY <2>3, <2>4
    <1>6. ASSUME NEW c \in Conns PROVE InOrder(Pending(c), sent')
        <2>1. Pending(c) \in Seq(Message) /\ InOrder(Pending(c), sent)
            BY PendingTypes DEF OrderInv, ConnInv
        <2> QED BY <1>2, <1>3, <2>1, GrowInOrder
    <1> QED BY <1>1, <1>2, <1>3, <1>4, <1>5, <1>6

(* A message read is later than all its connection has pending.               *)
LEMMA OrderRead ==
    ASSUME TypeOK, OrderInv, NEW s \in Streams, NEW m \in NextMessage(s),
           NEW c \in Conns, Read(c, m)
    PROVE  OrderInv'
    <1>1. /\ m \in Message /\ m.stream \in Streams /\ m.n \in Nat /\ m.n = sent[m.stream] + 1
          /\ sent \in [Streams -> Nat] /\ sent' \in [Streams -> Nat]
          /\ \A t \in Streams : sent[t] <= sent'[t]
          /\ m.n <= sent'[m.stream]
          /\ \A t \in Streams : InOrder(chan[t], sent') /\ seen[t] <= sent'[t]
          /\ \A d \in Conns : InOrder(Pending(d), sent')
        BY Grown DEF Read
    <1>2. Pending(c) = msgCh[c] /\ Pending(c) \in Seq(Message)
        BY PendingTypes DEF Read
    <1>3. Pending(c)' = Append(Pending(c), m) /\ \A d \in Conns \ {c} : Pending(d)' = Pending(d)
        <2>1. held'[c] = <<m>> /\ msgCh' = msgCh /\ \A d \in Conns \ {c} : held'[d] = held[d]
            BY DEF Read, TypeOK, ConnTypes
        <2>2. msgCh[c] \o <<m>> = Append(msgCh[c], m)
            BY <1>1, <1>2
        <2> QED BY <1>2, <2>1, <2>2 DEF Pending
    <1>4. UNCHANGED <<up, conn, seen, chan>>
        BY DEF Read, trackVars
    <1>5. InOrder(Append(Pending(c), m), sent')
        <2>1. \A i \in 1..Len(Pending(c)) : Pending(c)[i].stream = m.stream => Pending(c)[i].n < m.n
            BY <1>1, <1>2, Members DEF OrderInv, ConnInv, InOrder
        <2> QED BY <1>1, <1>2, <2>1, AppendInOrder DEF OrderInv, ConnInv
    <1>6. ConnInv'
        <2> SUFFICES ASSUME NEW d \in Conns PROVE InOrder(Pending(d)', sent')
            BY DEF ConnInv, InOrder
        <2> QED BY <1>1, <1>3, <1>5
    <1>7. ChanInv'
        <2> SUFFICES ASSUME NEW t \in Streams
                     PROVE  /\ InOrder(chan[t], sent') /\ seen[t] <= sent'[t]
                            /\ \A i \in 1..Len(chan[t]) :
                                   chan[t][i].stream = t /\ seen[t] < chan[t][i].n
            BY <1>4 DEF ChanInv, InOrder
        <2> QED BY <1>1 DEF OrderInv, ChanInv
    <1>8. Later(m, seen, chan)
        <2>1. chan[m.stream] \in Seq(Message) /\ seen[m.stream] \in Nat /\ sent[m.stream] \in Nat
            BY <1>1 DEF TypeOK, ChanTypes, TrackTypes
        <2>2. seen[m.stream] < m.n
            BY <1>1, <2>1 DEF OrderInv, ChanInv
        <2>3. ASSUME NEW j \in 1..Len(chan[m.stream]) PROVE chan[m.stream][j].n < m.n
            <3>1. chan[m.stream][j].n \in Nat /\ chan[m.stream][j].n <= sent[m.stream]
                BY <1>1, <2>1, Members DEF OrderInv, ChanInv, InOrder
            <3> QED BY <1>1, <2>1, <3>1
        <2> QED BY <2>2, <2>3 DEF Later
    <1>9. LoopInv'
        <2> SUFFICES ASSUME NEW d \in Conns, up, d = conn, NEW i \in 1..Len(Pending(d)')
                     PROVE  Later(Pending(d)'[i], seen, chan)
            BY <1>4 DEF LoopInv, Later
        <2>1. \A j \in 1..Len(Pending(d)) : Later(Pending(d)[j], seen, chan)
            BY DEF OrderInv, LoopInv
        <2>2. CASE d # c
            BY <1>3, <2>1, <2>2
        <2>3. CASE d = c
            <3> DEFINE q == Pending(c)
            <3>1. /\ Len(Append(q, m)) = Len(q) + 1 /\ Append(q, m)[Len(q) + 1] = m
                  /\ \A j \in 1..Len(q) : Append(q, m)[j] = q[j]
                  /\ Len(q) \in Nat
                BY <1>1, <1>2
            <3>2. i \in 1..Len(q) \/ i = Len(q) + 1
                BY <1>3, <2>3, <3>1
            <3> QED BY <1>3, <1>8, <2>1, <2>3, <3>1, <3>2
        <2> QED BY <2>2, <2>3
    <1> QED BY <1>6, <1>7, <1>9 DEF OrderInv

(* A message nobody reads only counts as sent.                                *)
LEMMA OrderSkip ==
    ASSUME TypeOK, OrderInv, NEW s \in Streams, NEW m \in NextMessage(s), Skip(m)
    PROVE  OrderInv'
    <1>1. UNCHANGED <<up, conn, msgCh, held, seen, chan>>
        BY DEF Skip, connVars, trackVars
    <1>2. /\ \A t \in Streams : InOrder(chan[t], sent') /\ seen[t] <= sent'[t]
          /\ \A d \in Conns : InOrder(Pending(d), sent')
        BY Grown DEF Skip
    <1>3. ConnInv'
        <2> SUFFICES ASSUME NEW d \in Conns PROVE InOrder(Pending(d), sent')
            BY <1>1 DEF ConnInv, InOrder, Pending
        <2> QED BY <1>2
    <1>4. ChanInv'
        <2> SUFFICES ASSUME NEW t \in Streams
                     PROVE  /\ InOrder(chan[t], sent') /\ seen[t] <= sent'[t]
                            /\ \A i \in 1..Len(chan[t]) :
                                   chan[t][i].stream = t /\ seen[t] < chan[t][i].n
            BY <1>1 DEF ChanInv, InOrder
        <2> QED BY <1>2 DEF OrderInv, ChanInv
    <1>5. LoopInv'
        BY <1>1 DEF OrderInv, LoopInv, Later, Pending
    <1> QED BY <1>3, <1>4, <1>5 DEF OrderInv

(* What leaves Pending, the channels and the counters alone leaves the order.   *)
LEMMA OrderKept ==
    ASSUME TypeOK, OrderInv, UNCHANGED <<seen, chan, sent>>,
           \A c \in Conns : Pending(c)' = Pending(c),
           up' => up /\ conn' = conn
    PROVE  OrderInv'
    <1>1. ConnInv' /\ ChanInv'
        BY DEF OrderInv, ConnInv, ChanInv, InOrder
    <1>2. LoopInv'
        BY DEF OrderInv, LoopInv, Later
    <1> QED BY <1>1, <1>2 DEF OrderInv

(* A new connection has nothing pending.                                        *)
LEMMA OrderConnect ==
    ASSUME TypeOK, FreshInv, OrderInv, Connect
    PROVE  OrderInv'
    <1>1. UNCHANGED <<msgCh, held, seen, chan, sent>> /\ conn' = conn + 1 /\ conn' \in Conns
        BY CapTypes DEF Connect, trackVars, TypeOK, ConnTypes, Conns
    <1>2. pump[conn'] = "none"
        BY <1>1 DEF TypeOK, ConnTypes
    <1>3. msgCh[conn'] = <<>> /\ held[conn'] = <<>>
        BY <1>1, <1>2, PendingTypes DEF FreshInv
    <1>4. \A c \in Conns : Pending(c)' = Pending(c)
        BY <1>1 DEF Pending
    <1>5. Pending(conn') = <<>>
        BY <1>3 DEF Pending
    <1>6. ConnInv' /\ ChanInv'
        BY <1>1, <1>4 DEF OrderInv, ConnInv, ChanInv, InOrder
    <1>7. LoopInv'
        <2> SUFFICES ASSUME NEW c \in Conns, c = conn', NEW i \in 1..Len(Pending(c)') PROVE FALSE
            BY DEF LoopInv
        <2>1. Len(Pending(c)') = 0
            BY <1>4, <1>5
        <2> QED BY <2>1
    <1> QED BY <1>6, <1>7 DEF OrderInv

(* The pump only moves the message it holds to the end of its channel.          *)
LEMMA PushKeeps ==
    ASSUME TypeOK, NEW c \in Conns, Push(c), NEW d \in Conns
    PROVE  Pending(d)' = Pending(d)
    <1>1. msgCh'[c] = msgCh[c] \o held[c] /\ held'[c] = <<>>
          /\ (d # c => msgCh'[d] = msgCh[d] /\ held'[d] = held[d])
        BY DEF Push, TypeOK, ConnTypes
    <1>2. msgCh[c] \o held[c] \in Seq(Message)
        BY PendingTypes DEF Pending
    <1>3. (msgCh[c] \o held[c]) \o <<>> = msgCh[c] \o held[c]
        BY <1>2, ConcatEmptySeq
    <1> QED BY <1>1, <1>3 DEF Pending

(* So the order of the numbers in flight stays.                                 *)
LEMMA OrderPush ==
    ASSUME TypeOK, OrderInv, NEW c \in Conns, Push(c)
    PROVE  OrderInv'
    BY PushKeeps, OrderKept DEF Push, trackVars

(* The loop takes the first message of its connection: those behind it are      *)
(* later, and those in the channel of its stream are earlier.                   *)
LEMMA OrderDispatch ==
    ASSUME TypeOK, OrderInv, Dispatch
    PROVE  OrderInv'
    <1> DEFINE q == Pending(conn)
               m == Head(msgCh[conn])
    <1>1. /\ up /\ conn \in Conns /\ msgCh[conn] \in Seq(Message) /\ msgCh[conn] # <<>>
          /\ msgCh' = [msgCh EXCEPT ![conn] = Tail(msgCh[conn])]
          /\ UNCHANGED <<conn, up, held, seen, sent>>
        BY CapTypes DEF Dispatch, Source, TypeOK, ConnTypes, Conns, trackVars
    <1>2. q \in Seq(Message) /\ q # <<>> /\ Head(q) = m /\ held[conn] \in Seq(Message)
          /\ Tail(msgCh[conn]) \o held[conn] = Tail(q)
        <2>1. held[conn] \in Seq(Message)
            BY <1>1, PendingTypes
        <2> QED BY <1>1, <2>1, JoinedTail DEF Pending
    <1>3. Pending(conn)' = Tail(q) /\ \A d \in Conns \ {conn} : Pending(d)' = Pending(d)
        <2>1. msgCh'[conn] = Tail(msgCh[conn]) /\ \A d \in Conns \ {conn} : msgCh'[d] = msgCh[d]
            BY <1>1, CapTypes DEF TypeOK, ConnTypes
        <2> QED BY <1>1, <1>2, <2>1 DEF Pending
    <1>4. /\ sent \in [Streams -> Nat] /\ InOrder(q, sent)
          /\ \A i \in 1..Len(q) : Later(q[i], seen, chan)
        BY <1>1 DEF OrderInv, ConnInv, LoopInv, TypeOK, ChanTypes
    <1>5. /\ Tail(q) \in Seq(Message) /\ InOrder(Tail(q), sent)
          /\ \A i \in 1..Len(Tail(q)) : Tail(q)[i] = q[i + 1] /\ i + 1 \in 1..Len(q)
          /\ Head(q) = q[1] /\ 1 \in 1..Len(q)
          /\ \A i \in 1..Len(Tail(q)) : Tail(q)[i].stream = m.stream => m.n < Tail(q)[i].n
        BY <1>2, <1>4, TailInOrder
    <1>6. /\ m \in Message /\ m.stream \in Streams /\ chan[m.stream] \in Seq(Message)
          /\ \/ UNCHANGED chan
             \/ chan' = [chan EXCEPT ![m.stream] = Append(chan[m.stream], m)]
        BY DispatchOffers
    <1>7. m = q[1] /\ Later(m, seen, chan) /\ m.n <= sent[m.stream]
        <2>1. m = q[1]
            BY <1>2, <1>5
        <2> HIDE DEF q, m
        <2> QED BY <1>4, <1>5, <2>1 DEF InOrder
    <1> HIDE DEF q, m
    <1>8. ConnInv'
        <2> SUFFICES ASSUME NEW d \in Conns PROVE InOrder(Pending(d)', sent)
            BY <1>1 DEF ConnInv, InOrder
        <2>1. CASE d = conn
            <3>1. Pending(d)' = Pending(conn)'
                BY <1>1, <2>1 DEF Pending
            <3> QED BY <1>3, <1>5, <3>1
        <2>2. CASE d # conn
            BY <1>3, <2>2 DEF OrderInv, ConnInv
        <2> QED BY <2>1, <2>2
    <1> DEFINE r == Append(chan[m.stream], m)
    <1>9. /\ Len(r) = Len(chan[m.stream]) + 1 /\ r[Len(chan[m.stream]) + 1] = m
          /\ \A i \in 1..Len(chan[m.stream]) : r[i] = chan[m.stream][i]
          /\ \A i \in 1..Len(r) : i \in 1..Len(chan[m.stream]) \/ i = Len(chan[m.stream]) + 1
        BY <1>6
    <1>10. InOrder(r, sent)
        <2>1. InOrder(chan[m.stream], sent)
            BY <1>6 DEF OrderInv, ChanInv
        <2>2. \A i \in 1..Len(chan[m.stream]) : chan[m.stream][i].n < m.n
            BY <1>7 DEF Later
        <2>3. \A t \in Streams : sent[t] <= sent[t]
            BY <1>4
        <2> QED BY <1>4, <1>6, <1>7, <2>1, <2>2, <2>3, AppendInOrder
    <1> HIDE DEF r
    <1>11. chan' = chan \/ (chan'[m.stream] = r /\ \A t \in Streams \ {m.stream} : chan'[t] = chan[t])
        BY <1>6 DEF r, TypeOK, ChanTypes
    <1>12. ChanInv'
        <2> SUFFICES ASSUME NEW t \in Streams
                     PROVE  /\ InOrder(chan'[t], sent) /\ seen[t] <= sent[t]
                            /\ \A i \in 1..Len(chan'[t]) :
                                   chan'[t][i].stream = t /\ seen[t] < chan'[t][i].n
            BY <1>1 DEF ChanInv, InOrder
        <2>1. /\ InOrder(chan[t], sent) /\ seen[t] <= sent[t]
              /\ \A i \in 1..Len(chan[t]) : chan[t][i].stream = t /\ seen[t] < chan[t][i].n
            BY DEF OrderInv, ChanInv
        <2>2. CASE chan'[t] = chan[t]
            BY <2>1, <2>2
        <2>3. CASE t = m.stream /\ chan'[t] = r
            BY <1>7, <1>9, <1>10, <2>1, <2>3 DEF Later
        <2> QED BY <1>11, <2>2, <2>3
    <1>13. LoopInv'
        <2> SUFFICES ASSUME NEW i \in 1..Len(Tail(q)) PROVE Later(Tail(q)[i], seen, chan')
            BY <1>1, <1>3 DEF LoopInv, Later
        <2> DEFINE x == Tail(q)[i]
        <2>1. Later(x, seen, chan) /\ (x.stream = m.stream => m.n < x.n)
            BY <1>4, <1>5
        <2>2. x.stream \in Streams
            BY <1>5, Members
        <2> HIDE DEF x
        <2>3. CASE chan'[x.stream] = chan[x.stream]
            BY <2>1, <2>3 DEF Later, x
        <2>4. CASE x.stream = m.stream /\ chan'[x.stream] = r
            <3>1. \A j \in 1..Len(r) : r[j].n < x.n
                BY <1>9, <2>1, <2>4 DEF Later
            <3> QED BY <2>1, <2>4, <3>1 DEF Later, x
        <2> QED BY <1>11, <2>2, <2>3, <2>4
    <1> QED BY <1>8, <1>12, <1>13 DEF OrderInv

(* A consumer moves on to the first message of its channel.                     *)
LEMMA OrderTake ==
    ASSUME TypeOK, OrderInv, NEW s \in Streams, Take(s)
    PROVE  /\ OrderInv'
           /\ seen[s] < seen'[s] /\ seen'[s] <= sent[s] /\ seen' = [seen EXCEPT ![s] = seen'[s]]
           /\ UNCHANGED sent
    <1> DEFINE q == chan[s]
    <1>1. /\ q \in Seq(Message) /\ q # <<>> /\ sent \in [Streams -> Nat] /\ InOrder(q, sent)
          /\ \A i \in 1..Len(q) : q[i].stream = s /\ seen[s] < q[i].n
        BY TakeTypes DEF OrderInv, ChanInv, TypeOK, ChanTypes
    <1>2. /\ InOrder(Tail(q), sent) /\ Head(q) = q[1] /\ 1 \in 1..Len(q)
          /\ \A i \in 1..Len(Tail(q)) : Tail(q)[i] = q[i + 1] /\ i + 1 \in 1..Len(q)
          /\ \A i \in 1..Len(Tail(q)) : Tail(q)[i].stream = Head(q).stream
                                          => Head(q).n < Tail(q)[i].n
        BY <1>1, TailInOrder
    <1>3. /\ chan' = [chan EXCEPT ![s] = Tail(q)] /\ seen' = [seen EXCEPT ![s] = Head(q).n]
          /\ UNCHANGED <<up, conn, msgCh, held, sent>>
        BY DEF Take, connVars
    <1>4. /\ chan'[s] = Tail(q) /\ seen'[s] = q[1].n
          /\ \A t \in Streams \ {s} : chan'[t] = chan[t] /\ seen'[t] = seen[t]
        BY <1>2, <1>3 DEF TypeOK, ChanTypes, TrackTypes
    <1>5. seen[s] < q[1].n /\ q[1].n <= sent[s] /\ q[1].stream = s
        BY <1>1, <1>2 DEF InOrder
    <1> HIDE DEF q
    <1>6. ConnInv'
        BY <1>3 DEF OrderInv, ConnInv, InOrder, Pending
    <1>7. ChanInv'
        <2> SUFFICES ASSUME NEW t \in Streams
                     PROVE  /\ InOrder(chan'[t], sent) /\ seen'[t] <= sent[t]
                            /\ \A i \in 1..Len(chan'[t]) :
                                   chan'[t][i].stream = t /\ seen'[t] < chan'[t][i].n
            BY <1>3 DEF ChanInv, InOrder
        <2>1. CASE t # s
            BY <1>4, <2>1 DEF OrderInv, ChanInv
        <2>2. CASE t = s
            <3>1. \A i \in 1..Len(Tail(q)) : Tail(q)[i].stream = s /\ q[1].n < Tail(q)[i].n
                BY <1>1, <1>2, <1>5
            <3> QED BY <1>2, <1>4, <1>5, <2>2, <3>1
        <2> QED BY <2>1, <2>2
    <1>8. LoopInv'
        <2> SUFFICES ASSUME NEW c \in Conns, up, c = conn, NEW i \in 1..Len(Pending(c))
                     PROVE  Later(Pending(c)[i], seen', chan')
            BY <1>3 DEF LoopInv, Later, Pending
        <2> DEFINE x == Pending(c)[i]
        <2>1. Later(x, seen, chan)
            BY DEF OrderInv, LoopInv
        <2>2. x.stream \in Streams
            BY PendingTypes, Members
        <2> HIDE DEF x
        <2>3. CASE x.stream # s
            BY <1>4, <2>1, <2>2, <2>3 DEF Later, x
        <2>4. CASE x.stream = s
            <3>1. \A j \in 1..Len(q) : q[j].n < x.n
                BY <2>1, <2>4 DEF Later, q
            <3>2. \A j \in 1..Len(Tail(q)) : Tail(q)[j].n < x.n
                BY <1>2, <3>1
            <3>3. q[1].n < x.n
                BY <1>2, <3>1
            <3> QED BY <1>4, <2>4, <3>2, <3>3 DEF Later, x
        <2> QED BY <2>3, <2>4
    <1> QED BY <1>3, <1>4, <1>5, <1>6, <1>7, <1>8, <1>2 DEF OrderInv

(* Every step keeps the order.                                                  *)
LEMMA OrderStep ==
    ASSUME TypeOK, FreshInv, OrderInv, [Next]_vars
    PROVE  OrderInv'
    <1>1. CASE Break \/ ChannelClosed \/ PingFails \/ (\E c \in Conns : PumpEnds(c)) \/ UNCHANGED vars
        <2>1. UNCHANGED <<seen, chan, sent, msgCh, held, conn>>
            BY <1>1 DEF Break, ChannelClosed, PingFails, PumpEnds, vars, connVars, trackVars
        <2>2. up' => up
            BY <1>1, Zenon DEF Break, ChannelClosed, PingFails, PumpEnds, vars, connVars
        <2>3. \A c \in Conns : Pending(c)' = Pending(c)
            BY <2>1 DEF Pending
        <2> QED BY <2>1, <2>2, <2>3, OrderKept
    <1>2. ASSUME NEW s \in Streams, Take(s) PROVE OrderInv'
        BY <1>2, OrderTake
    <1>3. CASE TakeTrade \/ TakeDepth \/ TakeMark \/ TakeKline
        BY <1>2, <1>3 DEF TakeTrade, TakeDepth, TakeMark, TakeKline, Streams
    <1> QED BY <1>1, <1>3, OrderConnect, OrderRead, OrderSkip, OrderPush, OrderDispatch DEF Next

--------------------------------------------------------------------------------
(* The invariant holds initially and is kept.                                   *)
LEMMA Invariant == Spec => []IInv
    <1>1. ASSUME Init PROVE IInv
        <2>1. TypeOK
            <3>1. ConnTypes
                <4>0. up \in BOOLEAN /\ ~up
                    BY <1>1, Zenon DEF Init
                <4>1. conn = 0 /\ conn \in 0..MaxConns
                    BY <1>1, CapTypes DEF Init
                <4>2. \A c \in Conns : c > conn /\ pump[c] = "none" /\ held[c] = <<>> /\ msgCh[c] = <<>>
                    BY <1>1, CapTypes DEF Init, Conns
                <4>3. /\ pump \in [Conns -> {"none", "reading", "holding", "done"}]
                      /\ held \in [Conns -> Seq(Message)] /\ msgCh \in [Conns -> Seq(Message)]
                      /\ closed = {} /\ pinged = {}
                    BY <1>1 DEF Init
                <4> QED BY <4>0, <4>1, <4>2, <4>3, CapTypes DEF ConnTypes
            <3>2. ChanTypes
                BY <1>1, CapTypes DEF Init, ChanTypes
            <3>3. TrackTypes
                BY <1>1 DEF Init, TrackTypes, NoCandle, NoMom
            <3> QED BY <3>1, <3>2, <3>3 DEF TypeOK
        <2>2. FreshInv
            BY <1>1 DEF Init, FreshInv
        <2>3. ReadIsDispatched
            BY <1>1 DEF Init, ReadIsDispatched, Over
        <2>4. \A c \in Conns : Pending(c) = <<>>
            BY <1>1 DEF Init, Pending
        <2>5. ConnInv /\ LoopInv
            BY <1>1, <2>4 DEF Init, ConnInv, LoopInv, InOrder
        <2>6. ChanInv
            BY <1>1 DEF Init, ChanInv, InOrder
        <2> QED BY <2>1, <2>2, <2>3, <2>5, <2>6 DEF IInv, OrderInv
    <1>2. IInv /\ [Next]_vars => IInv'
        BY TypeStep, EndStep, OrderStep DEF IInv
    <1> QED BY <1>1, <1>2, PTL DEF Spec

(* Types: no channel and no pump ever holds more than its capacity.             *)
THEOREM FeedTypes == Spec => []TypeOK
    <1>1. IInv => TypeOK
        BY DEF IInv
    <1> QED BY Invariant, <1>1, PTL

(* A connection that ends by its channel has dispatched all that was read: only *)
(* a failed ping throws messages away, with any number of reconnections.        *)
THEOREM OnlyPingsAbandon == Spec => []ReadIsDispatched
    <1>1. IInv => ReadIsDispatched
        BY DEF IInv
    <1> QED BY Invariant, <1>1, PTL

(* MarketFeed implements LossyFeed: in order and none twice, for channels of    *)
(* any size, any number of connections and any number of messages left behind.  *)
THEOREM FeedIsLossyFeed == Spec => ImplementsLossyFeed
    <1>1. Init => Feed!Init
        BY DEF Init, Feed!Init
    <1>2. ASSUME IInv, [Next]_vars PROVE [Feed!Next]_(Feed!vars)
        <2>1. ASSUME NEW s \in Streams, NEW m \in NextMessage(s), Sends(m), UNCHANGED seen
              PROVE  Feed!Next
            <3>1. m.stream \in Streams /\ m.n = sent[m.stream] + 1
                BY <1>2, <2>1, Grown DEF IInv
            <3>2. sent' = [sent EXCEPT ![m.stream] = sent[m.stream] + 1]
                BY <2>1, <3>1 DEF Sends
            <3> QED BY <2>1, <3>1, <3>2 DEF Feed!Next, Feed!Send
        <2>2. ASSUME NEW s \in Streams, Take(s) PROVE Feed!Next
            <3>1. /\ seen[s] < seen'[s] /\ seen'[s] <= sent[s] /\ UNCHANGED sent
                  /\ seen' = [seen EXCEPT ![s] = seen'[s]]
                BY <1>2, <2>2, OrderTake DEF IInv
            <3>2. seen[s] \in Nat /\ sent[s] \in Nat /\ seen'[s] \in Nat
                BY <1>2, <2>2, TakeTypes, <3>1 DEF IInv, TypeOK, ChanTypes, TrackTypes, Take
            <3>3. seen'[s] \in 1..sent[s]
                BY <3>1, <3>2
            <3> QED BY <3>1, <3>3 DEF Feed!Next, Feed!Deliver
        <2>3. CASE TakeTrade \/ TakeDepth \/ TakeMark \/ TakeKline
            BY <2>2, <2>3 DEF TakeTrade, TakeDepth, TakeMark, TakeKline, Streams
        <2>4. ASSUME NEW s \in Streams, NEW m \in NextMessage(s),
                     Skip(m) \/ \E c \in Conns : Read(c, m)
              PROVE  Feed!Next
            BY <2>1, <2>4 DEF Skip, Read, trackVars
        <2>5. CASE \/ Connect \/ Break \/ ChannelClosed \/ PingFails \/ Dispatch
                   \/ (\E c \in Conns : Push(c) \/ PumpEnds(c)) \/ UNCHANGED vars
            BY <2>5 DEF Connect, Break, ChannelClosed, PingFails, Dispatch, Push, PumpEnds, vars,
                        trackVars, Feed!vars
        <2> QED BY <1>2, <2>3, <2>4, <2>5 DEF Next
    <1>3. [][Next]_vars /\ []IInv => [][Feed!Next]_(Feed!vars)
        BY <1>2, PTL
    <1> QED BY <1>1, <1>3, Invariant, PTL DEF Spec, ImplementsLossyFeed, Feed!Spec

--------------------------------------------------------------------------------
(* MomentumAdjacent. Where the message of a candle that has ended may be is a   *)
(* question about sets: the order within the stores is OrderInv's.              *)

Msgs(q) == {q[i] : i \in 1..Len(q)}

Carries(q, n) == \E m \in Msgs(q) : m.stream = "kline" /\ m.closed /\ m.n = n

(* A message says that its candle has ended only when it has.                   *)
Truthful(q) ==
    \A m \in Msgs(q) : m.closed => m.stream = "kline" /\ [n |-> m.n, form |-> m.form] \in ended

(* Candles end in order; the last one consumed is prevClose, as it was sent.    *)
CandleInv ==
    /\ \A e \in ended : e.n <= sent["kline"]
    /\ \A c \in Conns : Truthful(Pending(c))
    /\ Truthful(chan["kline"])
    /\ prevClose.n <= seen["kline"]
    /\ prevClose.zero \/ [n |-> prevClose.n, form |-> "good"] \in ended
    /\ up => conn \notin pinged

(* A candle that has ended was lost, lies with a connection that was given up,  *)
(* is on its way, or has been consumed.                                         *)
Settled(n) == n \in lost \/ Abandoned(n)
OnItsWay(n) == Carries(chan["kline"], n) \/ (up /\ Carries(Pending(conn), n))
FateInv == \A e \in ended : Settled(e.n) \/ OnItsWay(e.n) \/ e.n <= prevClose.n

MomentumInv == CandleInv /\ FateInv /\ MomentumAdjacent

(* What a sequence holds, for the three ways in which the stores change.        *)
LEMMA MsgsFacts ==
    ASSUME NEW q \in Seq(Message)
    PROVE  /\ Msgs(<<>>) = {}
           /\ \A b \in Seq(Message) : Msgs(q \o b) = Msgs(q) \cup Msgs(b)
           /\ \A m \in Message : Msgs(Append(q, m)) = Msgs(q) \cup {m} /\ Msgs(<<m>>) = {m}
           /\ q # <<>> => Msgs(q) = {Head(q)} \cup Msgs(Tail(q))
           /\ Msgs(q) \subseteq Message
    <1>1. Msgs(<<>>) = {}
        BY DEF Msgs
    <1>2. ASSUME NEW b \in Seq(Message) PROVE Msgs(q \o b) = Msgs(q) \cup Msgs(b)
        <2> DEFINE r == q \o b
        <2>1. /\ Len(r) = Len(q) + Len(b) /\ Len(q) \in Nat /\ Len(b) \in Nat
              /\ \A i \in 1..(Len(q) + Len(b)) : r[i] = IF i <= Len(q) THEN q[i] ELSE b[i - Len(q)]
            BY ConcatProperties, LenProperties
        <2> HIDE DEF r
        <2>2. ASSUME NEW x \in Msgs(r) PROVE x \in Msgs(q) \cup Msgs(b)
            <3>1. PICK i \in 1..Len(r) : x = r[i]
                BY DEF Msgs
            <3>2. CASE i <= Len(q)
                BY <2>1, <3>1, <3>2 DEF Msgs
            <3>3. CASE i > Len(q)
                <4>1. i - Len(q) \in 1..Len(b) /\ x = b[i - Len(q)]
                    BY <2>1, <3>1, <3>3
                <4> QED BY <4>1 DEF Msgs
            <3> QED BY <2>1, <3>2, <3>3
        <2>3. ASSUME NEW x \in Msgs(q) PROVE x \in Msgs(r)
            BY <2>1 DEF Msgs
        <2>4. ASSUME NEW x \in Msgs(b) PROVE x \in Msgs(r)
            <3>1. PICK j \in 1..Len(b) : x = b[j]
                BY DEF Msgs
            <3>2. j + Len(q) \in 1..Len(r) /\ r[j + Len(q)] = b[j]
                BY <2>1
            <3> QED BY <3>1, <3>2 DEF Msgs
        <2> QED BY <2>2, <2>3, <2>4 DEF r
    <1>3. ASSUME NEW m \in Message PROVE Msgs(Append(q, m)) = Msgs(q) \cup {m} /\ Msgs(<<m>>) = {m}
        <2>1. /\ Len(Append(q, m)) = Len(q) + 1 /\ Len(q) \in Nat
              /\ Append(q, m)[Len(q) + 1] = m
              /\ \A i \in 1..Len(q) : Append(q, m)[i] = q[i]
            BY AppendProperties, LenProperties
        <2>2. Len(<<m>>) = 1 /\ <<m>>[1] = m
            OBVIOUS
        <2> QED BY <2>1, <2>2 DEF Msgs
    <1>4. ASSUME q # <<>> PROVE Msgs(q) = {Head(q)} \cup Msgs(Tail(q))
        <2>1. /\ Len(q) \in Nat \ {0} /\ Head(q) = q[1] /\ Len(Tail(q)) = Len(q) - 1
              /\ \A i \in 1..Len(Tail(q)) : Tail(q)[i] = q[i + 1]
            BY <1>4
        <2>2. ASSUME NEW x \in Msgs(q) PROVE x \in {Head(q)} \cup Msgs(Tail(q))
            <3>1. PICK i \in 1..Len(q) : x = q[i]
                BY DEF Msgs
            <3>2. CASE i # 1
                <4>1. i - 1 \in 1..Len(Tail(q)) /\ Tail(q)[i - 1] = q[i]
                    BY <2>1, <3>2
                <4> QED BY <3>1, <4>1 DEF Msgs
            <3> QED BY <2>1, <3>1, <3>2
        <2>3. ASSUME NEW x \in Msgs(Tail(q)) PROVE x \in Msgs(q)
            <3>1. PICK i \in 1..Len(Tail(q)) : x = Tail(q)[i]
                BY DEF Msgs
            <3>2. i + 1 \in 1..Len(q) /\ q[i + 1] = x
                BY <2>1, <3>1
            <3> QED BY <3>2 DEF Msgs
        <2>4. Head(q) \in Msgs(q)
            BY <2>1 DEF Msgs
        <2> QED BY <2>2, <2>3, <2>4
    <1>5. Msgs(q) \subseteq Message
        BY Members DEF Msgs
    <1> QED BY <1>1, <1>2, <1>3, <1>4, <1>5

(* What the order of the stores says of the candles in them.                    *)
LEMMA CandleOrder ==
    ASSUME TypeOK, OrderInv
    PROVE  /\ \A m \in Msgs(chan["kline"]) : /\ m.stream = "kline" /\ m.n \in Nat
                                              /\ seen["kline"] < m.n /\ m.n <= sent["kline"]
           /\ chan["kline"] # <<>> => \A m \in Msgs(Tail(chan["kline"])) : Head(chan["kline"]).n < m.n
           /\ up => \A m \in Msgs(Pending(conn)) : m.stream = "kline" =>
                        /\ seen["kline"] < m.n /\ m.n \in Nat
                        /\ \A k \in Msgs(chan["kline"]) : k.n < m.n
    <1> DEFINE q == chan["kline"]
    <1>1. /\ q \in Seq(Message) /\ sent \in [Streams -> Nat] /\ InOrder(q, sent)
          /\ \A i \in 1..Len(q) : q[i].stream = "kline" /\ seen["kline"] < q[i].n
        BY DEF OrderInv, ChanInv, TypeOK, ChanTypes, Streams
    <1>2. \A i \in 1..Len(q) : q[i].n \in Nat /\ q[i].n <= sent["kline"]
        BY <1>1, Members DEF InOrder
    <1>3. ASSUME q # <<>>, NEW m \in Msgs(Tail(q)) PROVE Head(q).n < m.n
        <2>1. /\ \A i \in 1..Len(Tail(q)) : Tail(q)[i] = q[i + 1] /\ i + 1 \in 1..Len(q)
              /\ Head(q) = q[1] /\ 1 \in 1..Len(q)
              /\ \A i \in 1..Len(Tail(q)) : Tail(q)[i].stream = Head(q).stream
                                           => Head(q).n < Tail(q)[i].n
            BY <1>1, <1>3, TailInOrder
        <2> QED BY <1>1, <2>1 DEF Msgs
    <1>4. ASSUME up, NEW m \in Msgs(Pending(conn)), m.stream = "kline"
          PROVE  /\ seen["kline"] < m.n /\ m.n \in Nat
                 /\ \A k \in Msgs(q) : k.n < m.n
        <2>1. conn \in Conns /\ Pending(conn) \in Seq(Message)
            BY <1>4, PendingTypes, CapTypes DEF TypeOK, ConnTypes, Conns
        <2>2. PICK i \in 1..Len(Pending(conn)) : m = Pending(conn)[i]
            BY DEF Msgs
        <2>3. Later(m, seen, chan)
            BY <1>4, <2>1, <2>2 DEF OrderInv, LoopInv
        <2>4. m.n \in Nat
            BY <2>1, <2>2, Members
        <2> QED BY <1>4, <2>3, <2>4 DEF Later, Msgs
    <1> QED BY <1>1, <1>2, <1>3, <1>4 DEF Msgs

(* What lies with the connections given up, as a set.                           *)
LEMMA AbandonedMsgs ==
    ASSUME NEW n
    PROVE  /\ Abandoned(n) <=>
                  \E c \in pinged : \E m \in Msgs(Pending(c)) : m.stream = "kline" /\ m.n = n
           /\ Abandoned(n)' <=>
                  \E c \in pinged' : \E m \in Msgs(Pending(c)') : m.stream = "kline" /\ m.n = n
    BY DEF Abandoned, Pending, Msgs

(* Nobody takes anything back from what is lost or given up.                    *)
LEMMA SettledStays ==
    ASSUME lost \subseteq lost', pinged \subseteq pinged',
           \A c \in pinged : Msgs(Pending(c)) \subseteq Msgs(Pending(c)'),
           NEW n, Settled(n)
    PROVE  Settled(n)'
    <1>1. CASE n \in lost
        BY <1>1 DEF Settled
    <1>2. CASE Abandoned(n)
        <2>1. Abandoned(n)'
            BY <1>2, AbandonedMsgs
        <2> QED BY <2>1 DEF Settled
    <1> QED BY <1>1, <1>2 DEF Settled

(* The invariants in the next state, with the primes where they belong.         *)
LEMMA MomentumPrimed ==
    /\ CandleInv' <=>
        /\ \A e \in ended' : e.n <= sent'["kline"]
        /\ \A c \in Conns : \A m \in Msgs(Pending(c)') :
               m.closed => m.stream = "kline" /\ [n |-> m.n, form |-> m.form] \in ended'
        /\ \A m \in Msgs(chan'["kline"]) :
               m.closed => m.stream = "kline" /\ [n |-> m.n, form |-> m.form] \in ended'
        /\ prevClose'.n <= seen'["kline"]
        /\ prevClose'.zero \/ [n |-> prevClose'.n, form |-> "good"] \in ended'
        /\ up' => conn' \notin pinged'
    /\ \A n : OnItsWay(n)' <=>
        \/ Carries(chan'["kline"], n)
        \/ up' /\ Carries(Pending(conn)', n)
    /\ FateInv' <=> \A e \in ended' : Settled(e.n)' \/ OnItsWay(e.n)' \/ e.n <= prevClose'.n
    /\ MomentumAdjacent' <=>
        (priceMom' # NoMom =>
            /\ priceMom'.from < priceMom'.to
            /\ [n |-> priceMom'.from, form |-> "good"] \in ended'
            /\ \E e \in ended' : e.n = priceMom'.to
            /\ \A e \in ended' : priceMom'.from < e.n /\ e.n < priceMom'.to => Settled(e.n)')
    <1>1. \A n : OnItsWay(n)' <=> Carries(chan'["kline"], n) \/ (up' /\ Carries(Pending(conn)', n))
        BY DEF OnItsWay, Carries, Msgs
    <1>2. FateInv' <=> \A e \in ended' : Settled(e.n)' \/ OnItsWay(e.n)' \/ e.n <= prevClose'.n
        BY DEF FateInv
    <1> QED BY <1>1, <1>2 DEF CandleInv, Truthful, Msgs, MomentumAdjacent, Settled, NoMom

(* Steps that move no message and end no candle: a connection that ends passes  *)
(* its messages on before, or counts as given up.                               *)
LEMMA MomentumQuiet ==
    ASSUME IInv, MomentumInv, UNCHANGED <<sent, ended, lost, prevClose, priceMom>>,
           chan'["kline"] = chan["kline"], seen'["kline"] = seen["kline"],
           \A c \in Conns : Pending(c)' = Pending(c),
           pinged \subseteq pinged', up' => conn' \notin pinged',
           up => \/ up' /\ conn' = conn
                 \/ Pending(conn) = <<>>
                 \/ conn \in pinged'
    PROVE  MomentumInv'
    <1>0. pinged \subseteq Conns /\ (up => conn \in Conns)
        BY CapTypes DEF IInv, TypeOK, ConnTypes, Conns
    <1>1. \A n : Settled(n) => Settled(n)'
        BY <1>0, SettledStays
    <1>2. CandleInv'
        BY MomentumPrimed DEF MomentumInv, CandleInv, Truthful
    <1>3. \A n : OnItsWay(n) => OnItsWay(n)' \/ Settled(n)'
        <2> SUFFICES ASSUME NEW n, OnItsWay(n) PROVE OnItsWay(n)' \/ Settled(n)'
            OBVIOUS
        <2>1. CASE Carries(chan["kline"], n)
            BY <2>1, MomentumPrimed
        <2>2. CASE up /\ Carries(Pending(conn), n)
            <3>1. CASE up' /\ conn' = conn
                <4>1. Pending(conn)' = Pending(conn)
                    BY <1>0, <2>2, <3>1 DEF Pending
                <4> QED BY <2>2, <3>1, <4>1, MomentumPrimed
            <3>2. CASE Pending(conn) = <<>>
                BY <2>2, <3>2 DEF Carries, Msgs
            <3>3. CASE conn \in pinged'
                <4>1. Abandoned(n)'
                    BY <1>0, <2>2, <3>3, AbandonedMsgs DEF Carries
                <4> QED BY <4>1 DEF Settled
            <3> QED BY <2>2, <3>1, <3>2, <3>3
        <2> QED BY <2>1, <2>2 DEF OnItsWay
    <1>4. FateInv'
        BY <1>1, <1>3, MomentumPrimed DEF MomentumInv, FateInv
    <1>5. MomentumAdjacent'
        BY <1>1, MomentumPrimed DEF MomentumInv, MomentumAdjacent, Settled
    <1> QED BY <1>2, <1>4, <1>5 DEF MomentumInv

(* Types of the candles and of the momentum.                                    *)
LEMMA CandleTypes ==
    ASSUME TypeOK
    PROVE  /\ \A e \in ended : e.n \in Nat
           /\ prevClose.n \in Nat /\ priceMom.from \in Nat /\ priceMom.to \in Nat
           /\ sent["kline"] \in Nat /\ seen["kline"] \in Nat
    BY DEF TypeOK, ChanTypes, TrackTypes, Streams

(* The exchange's next message, read or not: a candle that ends is later than   *)
(* both of the momentum's, and its message is lost, on its way or given up.     *)
LEMMA MomentumSends ==
    ASSUME IInv, MomentumInv, NEW s \in Streams, NEW m \in NextMessage(s), Sends(m),
           lost \subseteq lost', UNCHANGED <<conn, up, pinged, chan, trackVars>>,
           \A c \in Conns : \/ Pending(c)' = Pending(c)
                            \/ Msgs(Pending(c)') = Msgs(Pending(c)) \cup {m},
           m.closed => Settled(m.n)' \/ OnItsWay(m.n)'
    PROVE  MomentumInv'
    <1>0. pinged \subseteq Conns /\ (up => conn \in Conns)
        BY CapTypes DEF IInv, TypeOK, ConnTypes, Conns
    <1>1. /\ m.n = sent[m.stream] + 1 /\ (m.closed => m.stream = "kline")
          /\ ended' = IF m.closed THEN ended \union {[n |-> m.n, form |-> m.form]} ELSE ended
          /\ sent["kline"] \in Nat /\ sent'["kline"] \in Nat /\ sent["kline"] <= sent'["kline"]
          /\ (m.closed => sent'["kline"] = m.n /\ m.n \in Nat)
        <2>1. /\ m.stream \in Streams /\ m.n \in Nat /\ m.n = sent[m.stream] + 1
              /\ sent \in [Streams -> Nat] /\ sent' \in [Streams -> Nat]
              /\ \A t \in Streams : sent[t] <= sent'[t]
            BY Grown DEF IInv
        <2>2. sent' = [sent EXCEPT ![m.stream] = m.n] /\ (m.closed => m.stream = "kline")
              /\ ended' = IF m.closed THEN ended \union {[n |-> m.n, form |-> m.form]} ELSE ended
            BY DEF Sends
        <2> QED BY <2>1, <2>2 DEF Streams
    <1>2. /\ \A c \in Conns : Msgs(Pending(c)) \subseteq Msgs(Pending(c)')
          /\ \A c \in Conns : Msgs(Pending(c)') \subseteq Msgs(Pending(c)) \cup {m}
          /\ UNCHANGED <<seen, prevClose, priceMom>>
        BY DEF trackVars
    <1>3. \A n : Settled(n) => Settled(n)'
        BY <1>0, <1>2, SettledStays
    <1>4. /\ ended \subseteq ended' /\ (m.closed => [n |-> m.n, form |-> m.form] \in ended')
          /\ \A e \in ended' : e \in ended \/ (m.closed /\ e.n = m.n)
        BY <1>1
    <1>5. CandleInv'
        <2>1. \A e \in ended' : e.n <= sent'["kline"]
            BY <1>1, <1>4, CandleTypes DEF MomentumInv, CandleInv, IInv
        <2>2. \A c \in Conns : \A x \in Msgs(Pending(c)') :
                  x.closed => x.stream = "kline" /\ [n |-> x.n, form |-> x.form] \in ended'
            BY <1>1, <1>2, <1>4 DEF MomentumInv, CandleInv, Truthful
        <2> QED BY <1>2, <1>4, <2>1, <2>2, MomentumPrimed DEF MomentumInv, CandleInv, Truthful
    <1>6. \A n : OnItsWay(n) => OnItsWay(n)'
        <2> SUFFICES ASSUME NEW n, OnItsWay(n) PROVE OnItsWay(n)'
            OBVIOUS
        <2>1. CASE Carries(chan["kline"], n)
            BY <2>1, MomentumPrimed
        <2>2. CASE up /\ Carries(Pending(conn), n)
            <3>1. Msgs(Pending(conn)) \subseteq Msgs(Pending(conn)')
                BY <1>0, <1>2, <2>2
            <3> QED BY <2>2, <3>1, MomentumPrimed DEF Carries
        <2> QED BY <2>1, <2>2 DEF OnItsWay
    <1>7. FateInv'
        BY <1>2, <1>3, <1>4, <1>6, MomentumPrimed DEF MomentumInv, FateInv
    <1>8. MomentumAdjacent'
        <2>1. CASE priceMom = NoMom
            BY <1>2, <2>1, MomentumPrimed
        <2>2. CASE priceMom # NoMom
            <3>1. PICK e0 \in ended : e0.n = priceMom.to
                BY <2>2 DEF MomentumInv, MomentumAdjacent
            <3>2. priceMom.to <= sent["kline"]
                BY <3>1 DEF MomentumInv, CandleInv
            <3>3. ASSUME NEW e \in ended', priceMom.from < e.n, e.n < priceMom.to
                  PROVE  e \in ended
                <4>1. sent["kline"] < sent'["kline"] \/ ~m.closed
                    BY <1>1
                <4> QED BY <1>1, <1>4, <3>2, <3>3, <4>1, CandleTypes DEF IInv
            <3>4. \A e \in ended' : priceMom.from < e.n /\ e.n < priceMom.to => Settled(e.n)'
                BY <1>3, <2>2, <3>3 DEF MomentumInv, MomentumAdjacent, Settled
            <3> QED BY <1>2, <1>4, <2>2, <3>4, MomentumPrimed DEF MomentumInv, MomentumAdjacent
        <2> QED BY <2>1, <2>2
    <1> QED BY <1>5, <1>7, <1>8 DEF MomentumInv

(* A message is read: by the loop's own connection, or by one given up, for     *)
(* those that ended by their channel read no more.                              *)
LEMMA MomentumRead ==
    ASSUME IInv, MomentumInv, NEW s \in Streams, NEW m \in NextMessage(s),
           NEW c \in Conns, Read(c, m)
    PROVE  MomentumInv'
    <1>1. /\ Sends(m) /\ pump[c] = "reading" /\ held' = [held EXCEPT ![c] = <<m>>]
          /\ UNCHANGED <<conn, up, msgCh, pinged, chan, trackVars, lost>>
        BY DEF Read
    <1>2. m \in Message /\ Pending(c) = msgCh[c] /\ Pending(c) \in Seq(Message)
        BY <1>1, Grown, PendingTypes DEF IInv
    <1>3. /\ Msgs(Pending(c)') = Msgs(Pending(c)) \cup {m}
          /\ \A d \in Conns \ {c} : Pending(d)' = Pending(d)
        <2>1. held'[c] = <<m>> /\ \A d \in Conns \ {c} : held'[d] = held[d]
            BY <1>1 DEF IInv, TypeOK, ConnTypes
        <2>2. <<m>> \in Seq(Message)
            BY <1>2
        <2>3. Msgs(msgCh[c] \o <<m>>) = Msgs(msgCh[c]) \cup {m}
            <3>1. Msgs(msgCh[c] \o <<m>>) = Msgs(msgCh[c]) \cup Msgs(<<m>>)
                BY <1>2, <2>2, MsgsFacts
            <3>2. Msgs(<<m>>) = {m}
                BY <1>2, MsgsFacts
            <3> QED BY <3>1, <3>2
        <2> QED BY <1>1, <1>2, <2>1, <2>3 DEF Pending
    <1>4. ASSUME m.closed PROVE Settled(m.n)' \/ OnItsWay(m.n)'
        <2>1. m.stream = "kline" /\ m \in Msgs(Pending(c)')
            BY <1>1, <1>3, <1>4 DEF Sends
        <2>2. c \in 1..conn
            BY <1>1 DEF IInv, TypeOK, ConnTypes, Conns
        <2>3. CASE up /\ c = conn
            <3>1. up' /\ Pending(conn)' = Pending(c)'
                BY <1>1, <2>3 DEF Pending
            <3> QED BY <1>4, <2>1, <3>1, MomentumPrimed DEF Carries
        <2>4. CASE ~(up /\ c = conn)
            <3>1. c \in pinged'
                BY <1>1, <2>2, <2>4 DEF IInv, ReadIsDispatched, Over
            <3>2. Abandoned(m.n)'
                BY <2>1, <3>1, AbandonedMsgs
            <3> QED BY <3>2 DEF Settled
        <2> QED BY <2>3, <2>4
    <1> QED BY <1>1, <1>3, <1>4, MomentumSends

(* Nobody reads it: if it ends a candle, that one is lost.                      *)
LEMMA MomentumSkip ==
    ASSUME IInv, MomentumInv, NEW s \in Streams, NEW m \in NextMessage(s), Skip(m)
    PROVE  MomentumInv'
    <1>1. Sends(m) /\ Lose(m) /\ UNCHANGED <<connVars, chan, trackVars>>
        BY DEF Skip
    <1>2. lost \subseteq lost' /\ (m.closed => m.n \in lost')
        BY <1>1 DEF Lose, Sends
    <1>3. \A c \in Conns : Pending(c)' = Pending(c)
        BY <1>1 DEF Pending, connVars
    <1>4. m.closed => Settled(m.n)'
        BY <1>2 DEF Settled
    <1>5. UNCHANGED <<conn, up, pinged, chan, trackVars>>
        BY <1>1 DEF connVars
    <1> QED BY <1>1, <1>2, <1>3, <1>4, <1>5, MomentumSends

(* The loop passes a message on: it reaches its channel, or is lost.            *)
LEMMA DispatchMoves ==
    ASSUME TypeOK, Dispatch
    PROVE  LET m == Head(msgCh[conn])
           IN  /\ up /\ conn \in Conns
               /\ Msgs(Pending(conn)) = {m} \cup Msgs(Pending(conn)')
               /\ \A c \in Conns \ {conn} : Pending(c)' = Pending(c)
               /\ lost \subseteq lost' /\ Msgs(chan["kline"]) \subseteq Msgs(chan'["kline"])
               /\ Msgs(chan'["kline"]) \subseteq Msgs(chan["kline"]) \cup {m}
               /\ m.stream = "kline" /\ m.closed => m.n \in lost' \/ m \in Msgs(chan'["kline"])
    <1> DEFINE m == Head(msgCh[conn])
    <1>1. /\ up /\ conn \in Conns /\ msgCh[conn] \in Seq(Message) /\ msgCh[conn] # <<>>
          /\ msgCh' = [msgCh EXCEPT ![conn] = Tail(msgCh[conn])]
          /\ UNCHANGED <<conn, held>> /\ held[conn] \in Seq(Message)
        BY CapTypes DEF Dispatch, Source, TypeOK, ConnTypes, Conns
    <1>2. /\ Pending(conn) \in Seq(Message) /\ Pending(conn) # <<>> /\ Head(Pending(conn)) = m
          /\ Pending(conn)' = Tail(Pending(conn))
        <2>1. msgCh'[conn] = Tail(msgCh[conn])
            BY <1>1 DEF TypeOK, ConnTypes
        <2>2. Pending(conn)' = Tail(msgCh[conn]) \o held[conn]
            BY <1>1, <2>1 DEF Pending
        <2>3. /\ Pending(conn) \in Seq(Message) /\ Pending(conn) # <<>>
              /\ Head(Pending(conn)) = m /\ Tail(Pending(conn)) = Tail(msgCh[conn]) \o held[conn]
            BY <1>1, JoinedTail DEF Pending
        <2> QED BY <2>2, <2>3
    <1>3. \A c \in Conns \ {conn} : Pending(c)' = Pending(c)
        <2>1. \A c \in Conns \ {conn} : msgCh'[c] = msgCh[c]
            BY <1>1 DEF TypeOK, ConnTypes
        <2> QED BY <1>1, <2>1 DEF Pending
    <1>4. Msgs(Pending(conn)) = {m} \cup Msgs(Pending(conn)')
        BY <1>2, MsgsFacts
    <1>5. Offer(m) \/ Refuse(m)
        BY DEF Dispatch, Source, AggTradeHandler, DepthHandler, MarkPriceHandler, KlineHandler
    <1>6. m \in Message /\ chan[m.stream] \in Seq(Message) /\ chan \in [Streams -> Seq(Message)]
          /\ m.stream \in Streams
        BY DispatchOffers DEF TypeOK, ChanTypes
    <1> HIDE DEF m
    <1>7. \/ UNCHANGED chan /\ Lose(m)
          \/ chan' = [chan EXCEPT ![m.stream] = Append(chan[m.stream], m)] /\ UNCHANGED lost
        BY <1>5 DEF Offer, Refuse
    <1>8. CASE UNCHANGED chan /\ Lose(m)
        BY <1>1, <1>3, <1>4, <1>8 DEF Lose, m
    <1>9. CASE chan' = [chan EXCEPT ![m.stream] = Append(chan[m.stream], m)] /\ UNCHANGED lost
        <2>1. CASE m.stream # "kline"
            <3>1. chan'["kline"] = chan["kline"]
                BY <1>6, <1>9, <2>1 DEF Streams
            <3> QED BY <1>1, <1>3, <1>4, <1>9, <2>1, <3>1 DEF m
        <2>2. CASE m.stream = "kline"
            <3>1. chan'["kline"] = Append(chan["kline"], m) /\ chan["kline"] \in Seq(Message)
                BY <1>6, <1>9, <2>2
            <3>2. Msgs(chan'["kline"]) = Msgs(chan["kline"]) \cup {m}
                <4>1. Msgs(Append(chan["kline"], m)) = Msgs(chan["kline"]) \cup {m}
                    BY <1>6, <3>1, MsgsFacts
                <4> QED BY <3>1, <4>1
            <3> QED BY <1>1, <1>3, <1>4, <1>9, <3>2 DEF m
        <2> QED BY <2>1, <2>2
    <1> QED BY <1>7, <1>8, <1>9

(* What was on its way stays so, or is lost.                                    *)
LEMMA MomentumDispatch ==
    ASSUME IInv, MomentumInv, Dispatch
    PROVE  MomentumInv'
    <1> DEFINE m == Head(msgCh[conn])
    <1>1. /\ up /\ conn \in Conns
          /\ Msgs(Pending(conn)) = {m} \cup Msgs(Pending(conn)')
          /\ \A c \in Conns \ {conn} : Pending(c)' = Pending(c)
          /\ lost \subseteq lost' /\ Msgs(chan["kline"]) \subseteq Msgs(chan'["kline"])
          /\ Msgs(chan'["kline"]) \subseteq Msgs(chan["kline"]) \cup {m}
          /\ m.stream = "kline" /\ m.closed => m.n \in lost' \/ m \in Msgs(chan'["kline"])
        BY DispatchMoves DEF IInv
    <1> HIDE DEF m
    <1>2. /\ UNCHANGED <<conn, up, pinged, sent, ended, seen, prevClose, priceMom>>
          /\ pinged \subseteq Conns
        BY CapTypes DEF Dispatch, trackVars, IInv, TypeOK, ConnTypes, Conns
    <1>3. conn \notin pinged
        BY <1>1 DEF MomentumInv, CandleInv
    <1>4. \A n : Settled(n) => Settled(n)'
        <2>1. \A c \in pinged : Msgs(Pending(c)) \subseteq Msgs(Pending(c)')
            BY <1>1, <1>2, <1>3
        <2> QED BY <1>1, <1>2, <2>1, SettledStays
    <1>5. CandleInv'
        <2>1. ASSUME NEW c \in Conns PROVE Msgs(Pending(c)') \subseteq Msgs(Pending(c))
            <3>1. CASE c = conn
                <4>1. Pending(c)' = Pending(conn)'
                    BY <1>2, <3>1 DEF Pending
                <4> QED BY <1>1, <3>1, <4>1
            <3>2. CASE c # conn
                BY <1>1, <3>2
            <3> QED BY <3>1, <3>2
        <2>2. \A x \in Msgs(chan'["kline"]) : x \in Msgs(chan["kline"]) \/ x \in Msgs(Pending(conn))
            BY <1>1
        <2> QED BY <1>1, <1>2, <1>3, <2>1, <2>2, MomentumPrimed DEF MomentumInv, CandleInv, Truthful
    <1>6. ASSUME NEW n, OnItsWay(n) PROVE OnItsWay(n)' \/ Settled(n)'
        <2>1. CASE Carries(chan["kline"], n)
            BY <1>1, <2>1, MomentumPrimed DEF Carries
        <2>2. CASE Carries(Pending(conn), n)
            <3>1. PICK x \in Msgs(Pending(conn)) : x.stream = "kline" /\ x.closed /\ x.n = n
                BY <2>2 DEF Carries
            <3>2. CASE x = m
                BY <1>1, <3>1, <3>2, MomentumPrimed DEF Carries, Settled
            <3>3. CASE x \in Msgs(Pending(conn)')
                BY <1>1, <1>2, <3>1, <3>3, MomentumPrimed DEF Carries
            <3> QED BY <1>1, <3>1, <3>2, <3>3
        <2> QED BY <1>6, <2>1, <2>2 DEF OnItsWay
    <1>7. FateInv'
        BY <1>2, <1>4, <1>6, MomentumPrimed DEF MomentumInv, FateInv
    <1>8. MomentumAdjacent'
        BY <1>2, <1>4, MomentumPrimed DEF MomentumInv, MomentumAdjacent, Settled
    <1> QED BY <1>5, <1>7, <1>8 DEF MomentumInv

(* A candle that has ended is consumed: those between it and the one before     *)
(* cannot be on their way, for all that is on its way is later.                 *)
LEMMA MomentumTake ==
    ASSUME IInv, MomentumInv, TakeKline
    PROVE  MomentumInv'
    <1> DEFINE q == chan["kline"]
               k == Head(q)
    <1>1. /\ q \in Seq(Message) /\ q # <<>> /\ k \in Message /\ k.n \in Nat
          /\ chan'["kline"] = Tail(q) /\ seen'["kline"] = k.n
          /\ UNCHANGED <<connVars, sent, ended, lost>>
        BY TakeTypes DEF TakeKline, Take, IInv, TypeOK, ChanTypes, TrackTypes, Streams
    <1>2. Msgs(q) = {k} \cup Msgs(Tail(q))
        BY <1>1, MsgsFacts
    <1>3. /\ \A x \in Msgs(Tail(q)) : k.n < x.n
          /\ seen["kline"] < k.n /\ k.stream = "kline"
          /\ up => \A x \in Msgs(Pending(conn)) : x.stream = "kline" => k.n < x.n
        BY <1>1, <1>2, CandleOrder DEF IInv
    <1>4. \/ ~k.closed /\ UNCHANGED <<prevClose, priceMom>>
          \/ /\ k.closed /\ prevClose' = [n |-> k.n, zero |-> k.form # "good"]
             /\ priceMom' = IF prevClose.zero THEN priceMom ELSE [from |-> prevClose.n, to |-> k.n]
        BY DEF TakeKline
    <1> HIDE DEF q, k
    <1>5. \A c \in Conns : Pending(c)' = Pending(c)
        BY <1>1 DEF connVars, Pending
    <1>6. UNCHANGED <<conn, up, pinged>> /\ pinged \subseteq Conns /\ (up => conn \in Conns)
        BY <1>1, CapTypes DEF connVars, IInv, TypeOK, ConnTypes, Conns
    <1>7. \A n : Settled(n) => Settled(n)'
        BY <1>1, <1>5, <1>6, SettledStays
    <1>8. \A x \in Msgs(q) : x.closed => [n |-> x.n, form |-> x.form] \in ended
        BY DEF MomentumInv, CandleInv, Truthful, q
    <1>9. prevClose.n <= seen["kline"] /\ prevClose.n < k.n
        BY <1>1, <1>3, CandleTypes DEF MomentumInv, CandleInv, IInv
    <1>10. CandleInv'
        <2>1. \A x \in Msgs(chan'["kline"]) :
                  x.closed => x.stream = "kline" /\ [n |-> x.n, form |-> x.form] \in ended
            BY <1>1, <1>2 DEF MomentumInv, CandleInv, Truthful, q
        <2>2. prevClose'.n <= seen'["kline"]
            BY <1>1, <1>4, <1>9, CandleTypes DEF IInv
        <2>3. prevClose'.zero \/ [n |-> prevClose'.n, form |-> "good"] \in ended
            <3>1. CASE ~k.closed /\ UNCHANGED <<prevClose, priceMom>>
                BY <3>1 DEF MomentumInv, CandleInv
            <3>2. CASE k.closed /\ prevClose' = [n |-> k.n, zero |-> k.form # "good"]
                <4>1. [n |-> k.n, form |-> k.form] \in ended
                    BY <1>2, <1>8, <3>2
                <4> QED BY <3>2, <4>1
            <3> QED BY <1>4, <3>1, <3>2
        <2> QED BY <1>1, <1>5, <1>6, <2>1, <2>2, <2>3, MomentumPrimed
                DEF MomentumInv, CandleInv, Truthful
    <1>11. ASSUME NEW n \in Nat, OnItsWay(n)
           PROVE  OnItsWay(n)' \/ (n = k.n /\ k.closed)
        <2>1. CASE Carries(q, n)
            BY <1>1, <1>2, <2>1, MomentumPrimed DEF Carries
        <2>2. CASE up /\ Carries(Pending(conn), n)
            BY <1>5, <1>6, <2>2, MomentumPrimed
        <2> QED BY <1>11, <2>1, <2>2 DEF OnItsWay, q
    <1>12. FateInv'
        <2> SUFFICES ASSUME NEW e \in ended
                     PROVE  Settled(e.n)' \/ OnItsWay(e.n)' \/ e.n <= prevClose'.n
            BY <1>1, MomentumPrimed
        <2>1. e.n \in Nat /\ prevClose.n \in Nat
            BY CandleTypes DEF IInv
        <2>2. Settled(e.n) \/ OnItsWay(e.n) \/ e.n <= prevClose.n
            BY DEF MomentumInv, FateInv
        <2>3. prevClose.n <= prevClose'.n /\ (k.closed => prevClose'.n = k.n)
            BY <1>1, <1>4, <1>9, <2>1
        <2>4. prevClose'.n \in Nat
            BY <1>1, <1>4, <2>1
        <2> QED BY <1>1, <1>7, <1>11, <2>1, <2>2, <2>3, <2>4
    <1>13. MomentumAdjacent'
        <2>1. CASE UNCHANGED priceMom
            BY <1>1, <1>7, <2>1, MomentumPrimed DEF MomentumInv, MomentumAdjacent, Settled
        <2>2. CASE /\ k.closed /\ ~prevClose.zero
                   /\ priceMom' = [from |-> prevClose.n, to |-> k.n]
            <3>1. priceMom'.from = prevClose.n /\ priceMom'.to = k.n
                BY <2>2
            <3>2. [n |-> prevClose.n, form |-> "good"] \in ended
                BY <2>2 DEF MomentumInv, CandleInv
            <3>3. \E e \in ended : e.n = k.n
                <4>1. [n |-> k.n, form |-> k.form] \in ended
                    BY <1>2, <1>8, <2>2
                <4> QED BY <4>1
            <3>4. ASSUME NEW e \in ended, prevClose.n < e.n, e.n < k.n PROVE Settled(e.n)'
                <4>1. e.n \in Nat /\ prevClose.n \in Nat
                    BY CandleTypes DEF IInv
                <4>2. ~OnItsWay(e.n)
                    BY <1>1, <1>2, <1>3, <3>4, <4>1 DEF OnItsWay, Carries, q
                <4> QED BY <1>7, <3>4, <4>1, <4>2 DEF MomentumInv, FateInv
            <3> QED BY <1>1, <1>9, <3>1, <3>2, <3>3, <3>4, MomentumPrimed
        <2> QED BY <1>4, <2>1, <2>2
    <1> QED BY <1>10, <1>12, <1>13 DEF MomentumInv

(* Every step keeps the invariants of the candles.                              *)
LEMMA MomentumStep ==
    ASSUME IInv, MomentumInv, [Next]_vars
    PROVE  MomentumInv'
    <1> DEFINE Quiet == UNCHANGED <<sent, ended, lost, prevClose, priceMom>>
    <1>1. CASE Connect \/ Break \/ ChannelClosed \/ PingFails
                  \/ (\E c \in Conns : PumpEnds(c)) \/ UNCHANGED vars
        <2>1. /\ Quiet /\ UNCHANGED <<chan, seen, msgCh, held>>
              /\ pinged \subseteq pinged'
            BY <1>1 DEF Connect, Break, ChannelClosed, PingFails, PumpEnds, vars, connVars, trackVars
        <2>2. \A c \in Conns : Pending(c)' = Pending(c)
            BY <2>1 DEF Pending
        <2>3. up' => conn' \notin pinged'
            <3>1. CASE Connect
                <4>1. conn' = conn + 1 /\ pinged' = pinged /\ pinged \subseteq 1..conn /\ conn \in Nat
                    BY <3>1, CapTypes DEF Connect, IInv, TypeOK, ConnTypes
                <4> QED BY <4>1
            <3>2. CASE ChannelClosed \/ PingFails
                BY <3>2, Zenon DEF ChannelClosed, PingFails
            <3>3. CASE Break \/ (\E c \in Conns : PumpEnds(c)) \/ UNCHANGED vars
                <4>1. conn' = conn /\ pinged' = pinged
                    BY <3>3 DEF Break, PumpEnds, vars, connVars
                <4>2. up' => up
                    BY <3>3, Zenon DEF Break, PumpEnds, vars, connVars
                <4> QED BY <4>1, <4>2 DEF MomentumInv, CandleInv
            <3> QED BY <1>1, <3>1, <3>2, <3>3
        <2>4. up => (up' /\ conn' = conn) \/ Pending(conn) = <<>> \/ conn \in pinged'
            <3>1. CASE Connect
                BY <3>1 DEF Connect
            <3>2. CASE PingFails
                BY <3>2 DEF PingFails
            <3>3. CASE ChannelClosed
                <4>1. conn \in Conns /\ pump[conn] = "done" /\ msgCh[conn] = <<>>
                    BY <3>3, CapTypes DEF ChannelClosed, IInv, TypeOK, ConnTypes, Conns
                <4>2. Pending(conn) = msgCh[conn]
                    BY <4>1, PendingTypes DEF IInv
                <4> QED BY <4>1, <4>2
            <3>4. CASE Break \/ (\E c \in Conns : PumpEnds(c)) \/ UNCHANGED vars
                <4>1. conn' = conn
                    BY <3>4 DEF Break, PumpEnds, vars, connVars
                <4>2. up => up'
                    BY <3>4, Zenon DEF Break, PumpEnds, vars, connVars
                <4> QED BY <4>1, <4>2
            <3> QED BY <1>1, <3>1, <3>2, <3>3, <3>4
        <2> QED BY <2>1, <2>2, <2>3, <2>4, MomentumQuiet
    <1>2. ASSUME NEW c \in Conns, Push(c) PROVE MomentumInv'
        <2>1. \A d \in Conns : Pending(d)' = Pending(d)
            BY <1>2, PushKeeps DEF IInv
        <2>2. Quiet /\ UNCHANGED <<chan, seen, conn, up, pinged>>
            BY <1>2 DEF Push, trackVars
        <2>3. up' => conn' \notin pinged'
            BY <2>2 DEF MomentumInv, CandleInv
        <2> QED BY <2>1, <2>2, <2>3, MomentumQuiet
    <1>3. CASE TakeTrade \/ TakeDepth \/ TakeMark
        <2>1. /\ Quiet /\ UNCHANGED connVars
              /\ chan'["kline"] = chan["kline"] /\ seen'["kline"] = seen["kline"]
            BY <1>3 DEF TakeTrade, TakeDepth, TakeMark, Take, Streams, IInv, TypeOK, ChanTypes,
                TrackTypes
        <2>2. \A d \in Conns : Pending(d)' = Pending(d)
            BY <2>1 DEF Pending, connVars
        <2>3. UNCHANGED <<conn, up, pinged>>
            BY <2>1 DEF connVars
        <2>4. up' => conn' \notin pinged'
            BY <2>3 DEF MomentumInv, CandleInv
        <2> QED BY <2>1, <2>2, <2>3, <2>4, MomentumQuiet
    <1> QED BY <1>1, <1>2, <1>3, MomentumRead, MomentumSkip, MomentumDispatch, MomentumTake DEF Next

(* The one-minute momentum is between two candles that ended, the first with a  *)
(* price, and every candle between them was lost or lies with a connection that *)
(* was given up: for channels of any size and any number of reconnections.      *)
THEOREM MomentumsAreAdjacent == Spec => []MomentumAdjacent
    <1>1. Init => MomentumInv
        <2> SUFFICES ASSUME Init PROVE MomentumInv
            OBVIOUS
        <2>1. \A c \in Conns : Msgs(Pending(c)) = {}
            BY DEF Init, Pending, Msgs
        <2>2. Msgs(chan["kline"]) = {}
            BY DEF Init, Msgs, Streams
        <2> QED BY <2>1, <2>2 DEF Init, MomentumInv, CandleInv, FateInv, MomentumAdjacent, Truthful,
                              NoCandle, NoMom, Streams
    <1>2. IInv /\ MomentumInv /\ [Next]_vars => MomentumInv'
        BY MomentumStep
    <1>3. MomentumInv => MomentumAdjacent
        BY DEF MomentumInv
    <1> QED BY Invariant, <1>1, <1>2, <1>3, PTL DEF Spec

================================================================================
