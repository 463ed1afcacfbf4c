---------------------------- MODULE OrderBookProofs ----------------------------
(* Theorems about OrderBook for any finite set of prices, any quantities, any   *)
(* depths and any number of updates, lost or late.                              *)
EXTENDS OrderBook, FiniteSetTheorems, TLAPS

(* Every market the exchange reported, on its way or applied, was uncrossed.    *)
MarketInv ==
    /\ \A i \in 1..Len(chan) : Uncrossed(chan[i].of)
    /\ Uncrossed(applied.of)

(* A best bid that no update has touched is still of a level that is held.      *)
ReadInv == bid = Idle \/ bid = 0 \/ torn \/ bid \in DOMAIN book["bids"]

IInv == TypeOK /\ MarketInv /\ ReadInv /\ PartOfMarket /\ SpreadTrusted

--------------------------------------------------------------------------------
(* A set of prices is finite; topN takes levels of the message, at most n.      *)
LEMMA TopNIsPart ==
    ASSUME NEW levels \in SUBSET Prices, NEW n \in Nat, NEW top \in TopN(levels, n)
    PROVE  /\ top \subseteq levels
           /\ IsFiniteSet(top) /\ Cardinality(top) \in Nat /\ Cardinality(top) <= n
    <1>1. IsFiniteSet(levels)
        BY PricesAssumption, FS_Subset
    <1>2. top \subseteq levels
        BY DEF TopN
    <1>3. IsFiniteSet(top)
        BY <1>1, <1>2, FS_Subset
    <1>4. Cardinality(top) \in Nat
        BY <1>3, FS_CardinalityType
    <1>5. Cardinality(top) <= n
        BY <1>4 DEF TopN
    <1> QED BY <1>2, <1>3, <1>4, <1>5

(* One side after an update: a part of the message, with the quantities of the  *)
(* message, and a level of quantity zero is new.                                *)
LEMMA UpdatedSide ==
    ASSUME TypeOK, NEW s \in Sides, NEW d \in Diff, NEW n \in Nat,
           NEW top \in TopN(d.levels[s], n)
    PROVE  LET side == UpdateSide(s, top, d)
           IN  /\ DOMAIN side \subseteq Prices
               /\ side \in [DOMAIN side -> [qty : 0..MaxQty, firstSeen : 0..MaxUpdates]]
               /\ Cardinality(DOMAIN side) <= n
               /\ \A p \in DOMAIN side :
                     /\ p \in d.levels[s]
                     /\ side[p].qty = d.of[s][p]
                     /\ side[p].qty = 0 => side[p].firstSeen = d.at
    <1> DEFINE side == UpdateSide(s, top, d)
               held == top \ Ended(s, top, d)
    <1>1. d.levels[s] \in SUBSET Prices /\ d.of[s] \in [Prices -> 0..MaxQty]
          /\ d.at \in 0..MaxUpdates
        BY DEF Diff, Quantities, Sides
    <1>2. top \subseteq d.levels[s] /\ IsFiniteSet(top)
          /\ Cardinality(top) \in Nat /\ Cardinality(top) <= n
        BY <1>1, TopNIsPart
    <1>3. side = [p \in held |-> [qty |-> d.of[s][p], firstSeen |-> FirstSeen(s, p, d.at)]]
          /\ DOMAIN side = held
        BY DEF UpdateSide
    <1>4. held \subseteq top
        OBVIOUS
    <1>5. Cardinality(held) <= n
        <2>1. IsFiniteSet(held) /\ Cardinality(held) <= Cardinality(top)
            BY <1>2, <1>4, FS_Subset
        <2>2. Cardinality(held) \in Nat
            BY <2>1, FS_CardinalityType
        <2> QED BY <1>2, <2>1, <2>2
    <1>6. ASSUME NEW p \in held
          PROVE  /\ p \in Prices /\ p \in d.levels[s]
                 /\ d.of[s][p] \in 0..MaxQty
                 /\ FirstSeen(s, p, d.at) \in 0..MaxUpdates
                 /\ d.of[s][p] = 0 => FirstSeen(s, p, d.at) = d.at
        <2>1. p \in Prices /\ p \in d.levels[s] /\ d.of[s][p] \in 0..MaxQty
            BY <1>1, <1>2, <1>4
        <2>2. CASE p \in DOMAIN book[s]
            <3>1. book[s][p].firstSeen \in 0..MaxUpdates
                BY <2>2 DEF TypeOK
            <3>2. d.of[s][p] # 0
                BY <2>2, <1>4 DEF Ended
            <3> QED BY <2>1, <2>2, <3>1, <3>2 DEF FirstSeen
        <2>3. CASE p \notin DOMAIN book[s]
            BY <1>1, <2>1, <2>3 DEF FirstSeen
        <2> QED BY <2>2, <2>3
    <1>7. side \in [held -> [qty : 0..MaxQty, firstSeen : 0..MaxUpdates]]
        <2> HIDE DEF held, side
        <2> QED BY <1>3, <1>6
    <1> HIDE DEF held, side
    <1>8. \A p \in held : side[p].qty = d.of[s][p]
                          /\ side[p].firstSeen = FirstSeen(s, p, d.at)
        BY <1>3
    <1>9. DOMAIN side \subseteq Prices
        BY <1>3, <1>6
    <1> QED BY <1>3, <1>5, <1>6, <1>7, <1>8, <1>9 DEF side

(* Taking an update from the channel, and where it comes from.                  *)
LEMMA HeadTypes ==
    ASSUME TypeOK, MarketInv, chan # <<>>
    PROVE  /\ Head(chan) \in Diff /\ Uncrossed(Head(chan).of)
           /\ Tail(chan) \in Seq(Diff) /\ Len(Tail(chan)) <= ChanCap
           /\ \A i \in 1..Len(Tail(chan)) : Uncrossed(Tail(chan)[i].of)
    <1>1. chan \in Seq(Diff) /\ Len(chan) \in Nat /\ Len(chan) > 0 /\ Len(chan) <= ChanCap
        BY DEF TypeOK
    <1>2. Head(chan) = chan[1] /\ 1 \in 1..Len(chan)
        BY <1>1
    <1>3. Len(Tail(chan)) = Len(chan) - 1
          /\ \A i \in 1..Len(Tail(chan)) : Tail(chan)[i] = chan[i + 1]
        BY <1>1
    <1>4. Tail(chan) \in Seq(Diff)
        BY <1>1
    <1> QED BY <1>1, <1>2, <1>3, <1>4, BoundsAssumption DEF MarketInv

--------------------------------------------------------------------------------
(* The new book: no market is known, none is held.                              *)
LEMMA InitInv == Init => IInv
    <1> SUFFICES ASSUME Init PROVE IInv
        OBVIOUS
    <1>1. Nothing \in Quantities /\ Uncrossed(Nothing)
        BY BoundsAssumption DEF Nothing, Quantities, Uncrossed, Sides
    <1>2. \A s \in Sides : DOMAIN book[s] = {} /\ book[s] = <<>>
        BY DEF Init, NewOrderBook
    <1>3. MarketInv
        BY <1>1 DEF Init, MarketInv
    <1>4. \A s \in Sides :
             /\ DOMAIN book[s] \subseteq Prices
             /\ book[s] \in [DOMAIN book[s] -> [qty : 0..MaxQty, firstSeen : 0..MaxUpdates]]
             /\ Cardinality(DOMAIN book[s]) <= depth
        <2> SUFFICES ASSUME NEW s \in Sides
                     PROVE  /\ DOMAIN book[s] \subseteq Prices
                            /\ book[s] \in [DOMAIN book[s] ->
                                               [qty : 0..MaxQty, firstSeen : 0..MaxUpdates]]
                            /\ Cardinality(DOMAIN book[s]) <= depth
            OBVIOUS
        <2>1. Cardinality(DOMAIN book[s]) = 0 /\ depth = 0
            BY <1>2, FS_EmptySet DEF Init
        <2>2. book[s] = [p \in DOMAIN book[s] |-> book[s][p]]
            BY <1>2
        <2> QED BY <1>2, <2>1, <2>2
    <1>5. applied \in Diff /\ chan \in Seq(Diff) /\ Len(chan) <= ChanCap
        BY <1>1, BoundsAssumption DEF Init, Diff
    <1>6. TypeOK
        <2>1. DOMAIN book = Sides /\ depth = 0 /\ sent = 0
              /\ market = Nothing /\ bid = Idle /\ torn = FALSE /\ spread = 0
              /\ doubtful = FALSE
            BY DEF Init, NewOrderBook
        <2>2. 0 \in 0..MaxUpdates
            BY BoundsAssumption
        <2>3. /\ market \in Quantities /\ sent \in 0..MaxUpdates /\ depth \in Nat
            BY <1>1, <2>1, <2>2
        <2>4. bid \in Prices \cup {0, Idle} /\ spread \in Int
            BY <2>1
        <2>5. torn \in BOOLEAN /\ doubtful \in BOOLEAN
            BY DEF Init
        <2> QED BY <1>4, <1>5, <2>1, <2>3, <2>4, <2>5, Zenon DEF TypeOK
    <1>7. ReadInv /\ PartOfMarket /\ SpreadTrusted
        BY <1>2 DEF Init, ReadInv, PartOfMarket, SpreadTrusted
    <1> QED BY <1>3, <1>6, <1>7 DEF IInv

(* What the exchange sends touches neither the book nor the reader.             *)
LEMMA SendInv ==
    ASSUME IInv, NEW m \in Quantities, NEW named \in [Sides -> SUBSET Prices],
           Send(m, named)
    PROVE  IInv'
    <1> DEFINE d == [levels |-> named, of |-> m, at |-> sent + 1]
    <1> USE DEF IInv
    <1>1. sent' \in 0..MaxUpdates /\ market' \in Quantities /\ d \in Diff
        BY BoundsAssumption DEF TypeOK, Send, Diff
    <1>2. chan' \in Seq(Diff) /\ Len(chan') <= ChanCap
          /\ \A i \in 1..Len(chan') : Uncrossed(chan'[i].of)
        <2>1. CASE chan' = chan
            BY <2>1 DEF TypeOK, MarketInv
        <2>2. CASE Len(chan) < ChanCap /\ chan' = Append(chan, d)
            <3>1. chan \in Seq(Diff) /\ Len(chan) \in Nat
                BY DEF TypeOK
            <3>2. Uncrossed(d.of)
                BY DEF Send
            <3> HIDE DEF d
            <3>3. chan' \in Seq(Diff) /\ Len(chan') = Len(chan) + 1
                BY <1>1, <2>2, <3>1
            <3>4. \A i \in 1..Len(chan') : chan'[i] = IF i <= Len(chan) THEN chan[i] ELSE d
                BY <2>2, <3>1, <3>3
            <3> QED BY <2>2, <3>1, <3>2, <3>3, <3>4, BoundsAssumption DEF MarketInv
        <2> QED BY <2>1, <2>2 DEF Send
    <1>3. UNCHANGED <<bookVars, readVars>>
        BY DEF Send
    <1>4. TypeOK'
        BY <1>1, <1>2, <1>3 DEF TypeOK, bookVars, readVars
    <1>5. MarketInv'
        BY <1>2, <1>3 DEF MarketInv, bookVars
    <1>6. (ReadInv /\ PartOfMarket /\ SpreadTrusted)'
        BY <1>3 DEF ReadInv, PartOfMarket, SpreadTrusted, bookVars, readVars
    <1> QED BY <1>4, <1>5, <1>6

(* An update replaces both sides by parts of what it names.                     *)
LEMMA UpdateInv ==
    ASSUME IInv, NEW n \in Depths, Update(n)
    PROVE  IInv'
    <1> DEFINE d == Head(chan)
    <1>1. chan # <<>> /\ chan' = Tail(chan) /\ torn' = (bid # Idle)
          /\ UNCHANGED <<marketVars, bid, spread, doubtful>>
        BY DEF Update
    <1>2. PICK bids \in TopN(d.levels["bids"], n), asks \in TopN(d.levels["asks"], n) :
             LET top == [s \in Sides |-> IF s = "bids" THEN bids ELSE asks]
             IN  /\ book' = [s \in Sides |-> UpdateSide(s, top[s], d)]
                 /\ applied' = d /\ depth' = n
        BY DEF Update
    <1> DEFINE top == [s \in Sides |-> IF s = "bids" THEN bids ELSE asks]
    <1>3. TypeOK /\ MarketInv /\ SpreadTrusted /\ n \in Nat
        BY DepthsAssumption DEF IInv
    <1>4. /\ d \in Diff /\ Uncrossed(d.of)
          /\ chan' \in Seq(Diff) /\ Len(chan') <= ChanCap
          /\ \A i \in 1..Len(chan') : Uncrossed(chan'[i].of)
        BY <1>1, <1>3, HeadTypes
    <1>5. /\ book' = [s \in Sides |-> UpdateSide(s, top[s], d)]
          /\ applied' = d /\ depth' = n
        BY <1>2
    <1>6. \A s \in Sides : top[s] \in TopN(d.levels[s], n)
        BY DEF Sides
    <1> HIDE DEF d, top
    <1>7. ASSUME NEW s \in Sides
          PROVE  /\ DOMAIN book'[s] \subseteq Prices
                 /\ book'[s] \in [DOMAIN book'[s] -> [qty : 0..MaxQty, firstSeen : 0..MaxUpdates]]
                 /\ Cardinality(DOMAIN book'[s]) <= n
                 /\ \A p \in DOMAIN book'[s] :
                       /\ p \in d.levels[s]
                       /\ book'[s][p].qty = d.of[s][p]
                       /\ book'[s][p].qty = 0 => book'[s][p].firstSeen = d.at
        <2>1. book'[s] = UpdateSide(s, top[s], d)
            BY <1>5
        <2> QED BY <1>3, <1>4, <1>6, <2>1, UpdatedSide
    <1>8. DOMAIN book' = Sides
        BY <1>5
    <1>9. /\ market' = market /\ sent' = sent /\ bid' = bid
           /\ spread' = spread /\ doubtful' = doubtful
        BY <1>1 DEF marketVars
    <1>10. TypeOK'
        BY <1>1, <1>3, <1>4, <1>5, <1>7, <1>8, <1>9 DEF TypeOK
    <1>11. MarketInv'
        BY <1>4, <1>5 DEF MarketInv
    <1>12. PartOfMarket'
        BY <1>5, <1>7 DEF PartOfMarket
    <1>13. ReadInv' /\ SpreadTrusted'
        <2>1. bid' = Idle \/ torn'
            BY <1>1, <1>9
        <2> QED BY <1>3, <1>9, <2>1 DEF ReadInv, SpreadTrusted
    <1> QED BY <1>10, <1>11, <1>12, <1>13 DEF IInv

(* The best bid read is of a level held.                                        *)
LEMMA ReadBidInv ==
    ASSUME IInv, ReadBid
    PROVE  IInv'
    <1>1. UNCHANGED <<marketVars, chan, bookVars, torn, spread, doubtful>> /\ bid' \in BestBid
        BY DEF ReadBid
    <1>2. bid' = 0 \/ bid' \in DOMAIN book["bids"]
        BY <1>1 DEF BestBid
    <1>3. DOMAIN book["bids"] \subseteq Prices
        BY DEF IInv, TypeOK, Sides
    <1>4. TypeOK'
        BY <1>1, <1>2, <1>3 DEF IInv, TypeOK, marketVars, bookVars
    <1>5. ReadInv'
        BY <1>1, <1>2 DEF ReadInv, bookVars
    <1>6. (MarketInv /\ PartOfMarket /\ SpreadTrusted)'
        BY <1>1 DEF IInv, MarketInv, PartOfMarket, SpreadTrusted, marketVars, bookVars
    <1> QED BY <1>4, <1>5, <1>6 DEF IInv

(* Two levels of the same update that are not gone are of an uncrossed market.  *)
LEMMA HeldUncrossed ==
    ASSUME IInv, NEW b \in DOMAIN book["bids"], NEW a \in DOMAIN book["asks"],
           ~Gone("bids", b), ~Gone("asks", a)
    PROVE  b < a
    <1>1. b \in Prices /\ a \in Prices
        BY DEF IInv, TypeOK, Sides
    <1>2. book["bids"][b].qty \in 0..MaxQty /\ book["asks"][a].qty \in 0..MaxQty
        BY DEF IInv, TypeOK, Sides
    <1>3. book["bids"][b].qty > 0 /\ book["asks"][a].qty > 0
        BY <1>2, BoundsAssumption DEF Gone
    <1>4. applied.of["bids"][b] > 0 /\ applied.of["asks"][a] > 0
        BY <1>3 DEF IInv, PartOfMarket, Sides
    <1> QED BY <1>1, <1>4 DEF IInv, MarketInv, Uncrossed

(* A spread read from one book, of levels that are not gone, is positive.       *)
LEMMA ReadAskInv ==
    ASSUME IInv, ReadAsk
    PROVE  IInv'
    <1>1. PICK ask \in BestAsk :
             /\ spread' = IF bid = 0 \/ ask = 0 THEN 0 ELSE ask - bid
             /\ doubtful' = (torn \/ Gone("bids", bid) \/ Gone("asks", ask))
        BY DEF ReadAsk
    <1>2. bid # Idle /\ bid' = Idle /\ torn' = FALSE
          /\ UNCHANGED <<marketVars, chan, bookVars>>
        BY DEF ReadAsk
    <1>3. ask = 0 \/ ask \in DOMAIN book["asks"]
        BY <1>1 DEF BestAsk
    <1>4. DOMAIN book["bids"] \subseteq Prices /\ DOMAIN book["asks"] \subseteq Prices
          /\ bid \in Prices \cup {0} /\ torn \in BOOLEAN
        BY <1>2 DEF IInv, TypeOK, Sides
    <1>5. ask \in Nat /\ bid \in Nat
        <2>1. ask \in Prices \cup {0}
            BY <1>3, <1>4
        <2>2. \A p \in Prices \cup {0} : p \in Nat
            BY PricesAssumption
        <2> QED BY <1>4, <2>1, <2>2
    <1>6. spread' \in Int /\ doubtful' \in BOOLEAN
        BY <1>1, <1>4, <1>5 DEF Gone
    <1>7. TypeOK'
        BY <1>2, <1>6 DEF IInv, TypeOK, marketVars, bookVars
    <1>8. SpreadTrusted'
        <2> SUFFICES ASSUME spread' < 0, ~doubtful'
                     PROVE  FALSE
            BY DEF SpreadTrusted
        <2>1. bid # 0 /\ ask # 0 /\ ask < bid
            BY <1>1, <1>5
        <2>2. ~torn /\ ~Gone("bids", bid) /\ ~Gone("asks", ask)
            BY <1>1
        <2>3. bid \in DOMAIN book["bids"]
            BY <1>2, <2>1, <2>2 DEF IInv, ReadInv
        <2>4. bid < ask
            BY <1>3, <2>1, <2>2, <2>3, HeldUncrossed
        <2> QED BY <1>5, <2>1, <2>4
    <1>9. (MarketInv /\ ReadInv /\ PartOfMarket)'
        BY <1>2 DEF IInv, MarketInv, ReadInv, PartOfMarket, bookVars, marketVars
    <1> QED BY <1>7, <1>8, <1>9 DEF IInv

(* The invariant holds in every behaviour.                                      *)
THEOREM InvariantHolds == Spec => []IInv
    <1>1. Init => IInv
        BY InitInv
    <1>2. ASSUME IInv, [Next]_vars PROVE IInv'
        <2>1. CASE \E m \in Quantities, named \in [Sides -> SUBSET Prices] : Send(m, named)
            BY <1>2, <2>1, SendInv
        <2>2. CASE \E n \in Depths : Update(n)
            BY <1>2, <2>2, UpdateInv
        <2>3. CASE ReadBid
            BY <1>2, <2>3, ReadBidInv
        <2>4. CASE ReadAsk
            BY <1>2, <2>4, ReadAskInv
        <2>5. CASE UNCHANGED vars
            BY <1>2, <2>5 DEF IInv, TypeOK, MarketInv, ReadInv, PartOfMarket, SpreadTrusted,
                              vars, marketVars, bookVars, readVars
        <2> QED BY <1>2, <2>1, <2>2, <2>3, <2>4, <2>5 DEF Next
    <1> QED BY <1>1, <1>2, PTL DEF Spec

(* The types, and with them that a side never holds more levels than it was     *)
(* asked to keep.                                                               *)
THEOREM BookTypes == Spec => []TypeOK
    BY InvariantHolds, PTL DEF IInv

(* What the book holds is as old as the update applied last, never older.       *)
THEOREM BookIsPartOfMarket == Spec => []PartOfMarket
    BY InvariantHolds, PTL DEF IInv

(* A negative spread has one of two causes: an update between the two reads, or *)
(* a level that is gone.                                                        *)
THEOREM SpreadIsTrusted == Spec => []SpreadTrusted
    BY InvariantHolds, PTL DEF IInv
================================================================================
