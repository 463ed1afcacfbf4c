------------------------------- MODULE TradeFlow -------------------------------
(* The signed volume (RCVD) of the last 5 s, 30 s and 5 min (internal/          *)
(* microstructure/trade_flow.go): each window is a ring of a fixed capacity     *)
(* with a running sum. Add updates the windows one after the other under one    *)
(* mutex; the loop that takes expired entries off the sum is a step each time.  *)
(* Volumes are integers: the rounding of float64 is left out.                   *)
EXTENDS Integers, Sequences

CONSTANTS
    Capacity,   \* the capacity of each window (4096, 16384, 65536 entries)
    Span,       \* its length (5, 30, 300 seconds)
    Vols,       \* signed volumes: positive when the buyer is the taker
    Times,      \* event times
    MaxTrades   \* bound: trades received

Windows == 1..Len(Capacity)

ASSUME WindowsAssumption ==
    /\ Capacity \in Seq(Nat \ {0}) /\ Span \in Seq(Nat)
    /\ Len(Capacity) > 0 /\ Len(Span) = Len(Capacity)
ASSUME TradesAssumption == Vols \subseteq Int /\ Times \subseteq Int /\ MaxTrades \in Nat

VARIABLES
    buf, head, size, sum,   \* rcvdWindow, for each window; slots count from 0
    at,         \* the window Add is at, 0 when the mutex is free
    trades,     \* history: the trades added
    upto,       \* history: upto[i], their volume up to the i-th
    lost        \* history: volume overwritten in each ring and never taken off its sum

ringVars == <<buf, head, size, sum>>
vars == <<ringVars, at, trades, upto, lost>>

Trade == [vol : Int, ts : Int]
Empty == [vol |-> 0, ts |-> 0]

(* newRcvdWindow, three times.                                                  *)
Init ==
    /\ buf = [w \in Windows |-> [i \in 0..(Capacity[w] - 1) |-> Empty]]
    /\ head = [w \in Windows |-> 0]
    /\ size = [w \in Windows |-> 0]
    /\ sum = [w \in Windows |-> 0]
    /\ at = 0 /\ trades = <<>> /\ upto = <<>>
    /\ lost = [w \in Windows |-> 0]

Upto(i) == IF i = 0 THEN 0 ELSE upto[i]
Newest == trades[Len(trades)]

--------------------------------------------------------------------------------
(* TradeFlowTracker.Add takes the mutex.                                        *)
Add(v, t) ==
    /\ at = 0 /\ Len(trades) < MaxTrades
    /\ at' = 1
    /\ trades' = Append(trades, [vol |-> v, ts |-> t])
    /\ upto' = Append(upto, Upto(Len(trades)) + v)
    /\ UNCHANGED <<ringVars, lost>>

(* The entry n places behind the next one to be written.                        *)
Back(w, n) == buf[w][(head[w] - n + Capacity[w]) % Capacity[w]]

(* Mutant of Expired: an entry exactly as old as the window goes too.           *)
MutExpiredAtEdge(w) == size[w] > 0 /\ Back(w, size[w]).ts <= Newest.ts - Span[w]

Expired(w) == size[w] > 0 /\ Back(w, size[w]).ts < Newest.ts - Span[w]

(* Mutant of Evict: the entry goes and its volume stays in the sum.             *)
MutEvictKeepsSum(w) ==
    /\ at = w /\ Expired(w)
    /\ size' = [size EXCEPT ![w] = @ - 1]
    /\ UNCHANGED <<buf, head, sum, at, trades, upto, lost>>

(* One turn of the loop of rcvdWindow.Add: the oldest entry has expired.        *)
Evict(w) ==
    /\ at = w /\ Expired(w)
    /\ sum' = [sum EXCEPT ![w] = @ - Back(w, size[w]).vol]
    /\ size' = [size EXCEPT ![w] = @ - 1]
    /\ UNCHANGED <<buf, head, at, trades, upto, lost>>

Full(w) == size[w] = Capacity[w]

(* Mutant of Write: the size grows past the capacity.                           *)
MutWriteUncapped(w) ==
    /\ at = w /\ ~Expired(w)
    /\ buf' = [buf EXCEPT ![w][head[w]] = Newest]
    /\ head' = [head EXCEPT ![w] = (@ + 1) % Capacity[w]]
    /\ size' = [size EXCEPT ![w] = IF @ <= Capacity[w] THEN @ + 1 ELSE @]
    /\ sum' = [sum EXCEPT ![w] = @ + Newest.vol]
    /\ lost' = [lost EXCEPT ![w] = IF Full(w) THEN @ + buf[w][head[w]].vol ELSE @]
    /\ at' = IF w < Len(Capacity) THEN w + 1 ELSE 0
    /\ UNCHANGED <<trades, upto>>

(* The rest of rcvdWindow.Add. In a full ring head is the oldest entry: it is   *)
(* overwritten, and its volume stays in the sum for good. After the last window *)
(* Add gives the mutex back.                                                    *)
Write(w) ==
    /\ at = w /\ ~Expired(w)
    /\ buf' = [buf EXCEPT ![w][head[w]] = Newest]
    /\ head' = [head EXCEPT ![w] = (@ + 1) % Capacity[w]]
    /\ size' = [size EXCEPT ![w] = IF Full(w) THEN @ ELSE @ + 1]
    /\ sum' = [sum EXCEPT ![w] = @ + Newest.vol]
    /\ lost' = [lost EXCEPT ![w] = IF Full(w) THEN @ + buf[w][head[w]].vol ELSE @]
    /\ at' = IF w < Len(Capacity) THEN w + 1 ELSE 0
    /\ UNCHANGED <<trades, upto>>

Next ==
    \/ \E v \in Vols, t \in Times : Add(v, t)
    \/ \E w \in Windows : Evict(w) \/ Write(w)

Spec == Init /\ [][Next]_vars

--------------------------------------------------------------------------------
(* Trades that window w has taken: all but the one Add still has for it.        *)
Taken(w) == IF at # 0 /\ at <= w THEN Len(trades) - 1 ELSE Len(trades)

(* Types: a ring never holds more than its capacity, and head is one of its     *)
(* slots.                                                                       *)
TypeOK ==
    /\ at \in 0..Len(Capacity)
    /\ trades \in Seq(Trade) /\ Len(trades) <= MaxTrades
    /\ upto \in Seq(Int) /\ Len(upto) = Len(trades)
    /\ DOMAIN buf = Windows
    /\ \A w \in Windows : buf[w] \in [0..(Capacity[w] - 1) -> Trade]
    /\ head \in [Windows -> Nat] /\ \A w \in Windows : head[w] < Capacity[w]
    /\ size \in [Windows -> Nat] /\ \A w \in Windows : size[w] <= Capacity[w]
    /\ sum \in [Windows -> Int]
    /\ lost \in [Windows -> Int]

(* However often the ring has wrapped and been emptied, what is found n places  *)
(* back is the n-th last trade: eviction takes off the sum the volume of the    *)
(* trade that leaves, and of no other.                                          *)
RingHoldsLatest ==
    \A w \in Windows :
        /\ size[w] <= Taken(w)
        /\ \A n \in 1..size[w] : Back(w, n) = trades[Taken(w) - n + 1]

(* RCVD is the volume of the trades held plus all that a full ring has          *)
(* overwritten: the sum drifts by exactly that, and by nothing while no window  *)
(* has overflowed.                                                              *)
SumAccounts ==
    \A w \in Windows : sum[w] = Upto(Taken(w)) - Upto(Taken(w) - size[w]) + lost[w]

InOrder == \A i, j \in 1..Len(trades) : i <= j => trades[i].ts <= trades[j].ts

(* When trades come in order a window, between calls, holds exactly the trades  *)
(* of its time span, or as many of them as it has room for.                     *)
WindowExact ==
    at = 0 /\ InOrder =>
        \A w \in Windows, i \in 1..Len(trades) :
            IF i > Len(trades) - size[w] THEN trades[i].ts >= Newest.ts - Span[w]
            ELSE Full(w) \/ trades[i].ts < Newest.ts - Span[w]
================================================================================
