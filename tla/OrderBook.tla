------------------------------- MODULE OrderBook -------------------------------
(* The order book of a symbol (internal/microstructure/orderbook.go) between    *)
(* the depth goroutine of the watcher, which applies updates, and the evaluator,*)
(* which reads the best prices. The stream is the exchange's stream of          *)
(* differences (main.go:321); an update is treated as if it were the whole top  *)
(* of the book: what it does not name is forgotten. Prices are their ranks,     *)
(* times count updates.                                                         *)
EXTENDS Integers, FiniteSets, Sequences

CONSTANTS
    Prices,         \* price levels, positive
    MaxQty,         \* bound: the quantity at a level
    Depths,         \* what DepthLevels of the live parameters may be
    ChanCap,        \* capacity of ETHDepth
    MaxUpdates      \* bound: updates the exchange sends

ASSUME PricesAssumption == Prices \subseteq Nat \ {0} /\ IsFiniteSet(Prices)
ASSUME BoundsAssumption == MaxQty \in Nat /\ ChanCap \in Nat \ {0} /\ MaxUpdates \in Nat
ASSUME DepthsAssumption == Depths \subseteq Nat \ {0}

VARIABLES
    market,         \* external: the quantities at the exchange when it last sent
    sent,           \* external: updates sent, the clock of LocalTime
    chan,           \* ETHDepth
    book,           \* bids and asks: a levelState for each price held
    applied,        \* history: the update applied last
    depth,          \* history: the levels it was to keep of a side
    bid,            \* the evaluator: the best bid it has read, or Idle
    torn,           \* history: an update was applied after that read
    spread,         \* SpreadBps of the evaluator's last reading
    doubtful        \* history: it was torn, or a best price was of a level gone

marketVars == <<market, sent>>
bookVars == <<book, applied, depth>>
readVars == <<bid, torn, spread, doubtful>>
vars == <<marketVars, chan, bookVars, readVars>>

Sides == {"bids", "asks"}
Idle == -1
Quantities == [Sides -> [Prices -> 0..MaxQty]]
Nothing == [s \in Sides |-> [p \in Prices |-> 0]]

(* At the exchange, the orders that match have been executed.                   *)
Uncrossed(m) == \A p, q \in Prices : m["bids"][p] > 0 /\ m["asks"][q] > 0 => p < q

NewOrderBook == [s \in Sides |-> <<>>]

Init ==
    /\ market = Nothing /\ sent = 0 /\ chan = <<>>
    /\ book = NewOrderBook
    /\ applied = [levels |-> [s \in Sides |-> {}], of |-> Nothing, at |-> 0]
    /\ depth = 0
    /\ bid = Idle /\ torn = FALSE /\ spread = 0 /\ doubtful = FALSE

--------------------------------------------------------------------------------
(* The exchange sends the levels that changed since its last update, and maybe  *)
(* others; the update may be lost on the way or dropped at a full channel. "of" *)
(* is history: the whole market as the exchange saw it then.                    *)
Send(m, named) ==
    /\ sent < MaxUpdates
    /\ Uncrossed(m)
    /\ \A s \in Sides, p \in Prices : m[s][p] # market[s][p] => p \in named[s]
    /\ market' = m /\ sent' = sent + 1
    /\ \/ UNCHANGED chan
       \/ /\ Len(chan) < ChanCap
          /\ chan' = Append(chan, [levels |-> named, of |-> m, at |-> sent + 1])
    /\ UNCHANGED <<bookVars, readVars>>

(* topN takes the first n levels in the order of the message, which nothing     *)
(* here relies on: any n of them, or all when there are no more.                *)
TopN(levels, n) ==
    IF Cardinality(levels) <= n THEN {levels} ELSE {k \in SUBSET levels : Cardinality(k) = n}

(* A level ends when it is held and comes with quantity zero.                   *)
Ended(s, top, d) == {p \in top \cap DOMAIN book[s] : d.of[s][p] = 0}

FirstSeen(s, p, now) == IF p \in DOMAIN book[s] THEN book[s][p].firstSeen ELSE now

(* Mutants of UpdateSide: a level that is held keeps its quantity; levels that  *)
(* the update does not name are kept.                                           *)
MutUpdateSideKeepsQty(s, top, d) ==
    [p \in top \ Ended(s, top, d) |->
        [qty |-> IF p \in DOMAIN book[s] THEN book[s][p].qty ELSE d.of[s][p],
         firstSeen |-> FirstSeen(s, p, d.at)]]
MutUpdateSideNoPrune(s, top, d) ==
    [p \in (top \cup DOMAIN book[s]) \ Ended(s, top, d) |->
        [qty |-> IF p \in top THEN d.of[s][p] ELSE book[s][p].qty,
         firstSeen |-> FirstSeen(s, p, d.at)]]

(* Levels that are not among the top ones are forgotten; a level that was not   *)
(* held is stored, even with quantity zero.                                     *)
UpdateSide(s, top, d) ==
    [p \in top \ Ended(s, top, d) |->
        [qty |-> d.of[s][p], firstSeen |-> FirstSeen(s, p, d.at)]]

(* The depth goroutine takes an update: both sides under one lock. The average  *)
(* life of the levels that ended is left out.                                   *)
Update(n) ==
    /\ chan # <<>>
    /\ chan' = Tail(chan)
    /\ LET d == Head(chan)
       IN  \E bids \in TopN(d.levels["bids"], n), asks \in TopN(d.levels["asks"], n) :
              LET top == [s \in Sides |-> IF s = "bids" THEN bids ELSE asks]
              IN  /\ book' = [s \in Sides |-> UpdateSide(s, top[s], d)]
                  /\ applied' = d /\ depth' = n
    /\ torn' = (bid # Idle)
    /\ UNCHANGED <<marketVars, bid, spread, doubtful>>

--------------------------------------------------------------------------------
(* BestBid and BestAsk of the levels held, 0 when there is none; a set with one *)
(* element.                                                                     *)
BestBid ==
    LET held == DOMAIN book["bids"]
    IN  IF held = {} THEN {0} ELSE {p \in held : \A q \in held : q <= p}

BestAsk ==
    LET held == DOMAIN book["asks"]
    IN  IF held = {} THEN {0} ELSE {p \in held : \A q \in held : p <= q}

(* SpreadBps takes the read lock twice: an update may come in between.          *)
ReadBid ==
    /\ bid = Idle
    /\ bid' \in BestBid
    /\ UNCHANGED <<marketVars, chan, bookVars, torn, spread, doubtful>>

Gone(s, p) == p \in DOMAIN book[s] /\ book[s][p].qty = 0

ReadAsk ==
    /\ bid # Idle
    /\ \E ask \in BestAsk :
          /\ spread' = IF bid = 0 \/ ask = 0 THEN 0 ELSE ask - bid
          /\ doubtful' = (torn \/ Gone("bids", bid) \/ Gone("asks", ask))
    /\ bid' = Idle /\ torn' = FALSE
    /\ UNCHANGED <<marketVars, chan, bookVars>>

Next ==
    \/ \E m \in Quantities, named \in [Sides -> SUBSET Prices] : Send(m, named)
    \/ \E n \in Depths : Update(n)
    \/ ReadBid \/ ReadAsk

Spec == Init /\ [][Next]_vars

--------------------------------------------------------------------------------
(* Types; a side never holds more levels than the live parameters asked for.    *)
Diff == [levels : [Sides -> SUBSET Prices], of : Quantities, at : 0..MaxUpdates]
TypeOK ==
    /\ market \in Quantities /\ sent \in 0..MaxUpdates
    /\ chan \in Seq(Diff) /\ Len(chan) <= ChanCap
    /\ applied \in Diff /\ depth \in Nat
    /\ DOMAIN book = Sides
    /\ \A s \in Sides :
          /\ DOMAIN book[s] \subseteq Prices
          /\ book[s] \in [DOMAIN book[s] -> [qty : 0..MaxQty, firstSeen : 0..MaxUpdates]]
          /\ Cardinality(DOMAIN book[s]) <= depth
    /\ bid \in Prices \cup {0, Idle} /\ torn \in BOOLEAN
    /\ spread \in Int /\ doubtful \in BOOLEAN

(* Whatever is lost or dropped before the book, what it holds is never older    *)
(* than the update applied last: its quantities are those of the market then,   *)
(* and a level that is gone (quantity zero) stays for that one update only.     *)
PartOfMarket ==
    \A s \in Sides : \A p \in DOMAIN book[s] :
        /\ p \in applied.levels[s]
        /\ book[s][p].qty = applied.of[s][p]
        /\ book[s][p].qty = 0 => book[s][p].firstSeen = applied.at

(* A negative spread, which lowers the estimated slippage of an entry, is read  *)
(* only across an update or from a level that is gone.                          *)
SpreadTrusted == spread < 0 => doubtful
================================================================================
