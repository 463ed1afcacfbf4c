---------------------------- MODULE TradeFlowProofs ----------------------------
(* Theorems about TradeFlow for any number of windows, any capacities and       *)
(* spans, and trades of any volume and time.                                    *)
EXTENDS TradeFlow, TLAPS

(* WindowExact, as it stands while Add works: what a window does not hold was   *)
(* overwritten in a full ring or is too old, and a window that has taken the    *)
(* newest trade holds nothing that is too old.                                  *)
EdgeInv ==
    InOrder =>
        \A w \in Windows : \A i \in 1..Taken(w) :
            IF i > Taken(w) - size[w]
            THEN Taken(w) = Len(trades) => trades[i].ts >= Newest.ts - Span[w]
            ELSE Full(w) \/ trades[i].ts < Newest.ts - Span[w]

(* While Add works there is a trade it works on.                                *)
AtInv == at # 0 => Len(trades) > 0

(* upto is the trades' running sum.                                             *)
UptoInv == \A k \in 1..Len(trades) : Upto(k) = Upto(k - 1) + trades[k].vol

IInv == TypeOK /\ AtInv /\ UptoInv /\ RingHoldsLatest /\ SumAccounts /\ EdgeInv

--------------------------------------------------------------------------------
(* The index arithmetic of the ring: one turn past the end is one turn less.    *)
LEMMA Wraps ==
    ASSUME NEW c \in Nat \ {0}, NEW x \in 0..(2 * c - 1)
    PROVE  x % c = IF x < c THEN x ELSE x - c
    OBVIOUS

(* Types of the constants, one window at a time.                                *)
LEMMA WindowTypes ==
    ASSUME NEW w \in Windows
    PROVE  w \in Nat \ {0} /\ w <= Len(Capacity) /\ Len(Capacity) \in Nat
           /\ Capacity[w] \in Nat \ {0} /\ Span[w] \in Nat
    BY WindowsAssumption DEF Windows

(* What n places back means once a trade has been written at head: the trade,   *)
(* and then what was one place less far back before.                            *)
LEMMA BackAfterWrite ==
    ASSUME NEW c \in Nat \ {0}, NEW h \in 0..(c - 1), NEW n \in 1..c
    PROVE  LET h2 == (h + 1) % c
               i2 == (h2 - n + c) % c
           IN  /\ h2 \in 0..(c - 1) /\ i2 \in 0..(c - 1)
               /\ n = 1 => i2 = h
               /\ n > 1 => i2 = (h - (n - 1) + c) % c /\ i2 # h
    <1> DEFINE h2 == (h + 1) % c
               x2 == h2 - n + c
               x1 == h - (n - 1) + c
    <1>0. \A x \in 0..(2 * c - 1) : x % c = IF x < c THEN x ELSE x - c
        BY Wraps
    <1>1. h2 = IF h + 1 < c THEN h + 1 ELSE 0
        <2>1. h + 1 \in 0..(2 * c - 1) /\ h + 1 <= c
            OBVIOUS
        <2>2. h2 = IF h + 1 < c THEN h + 1 ELSE h + 1 - c
            BY <1>0, <2>1
        <2> HIDE DEF h2
        <2> QED BY <2>1, <2>2
    <1>2. x2 \in 0..(2 * c - 1) /\ (n > 1 => x1 \in 0..(2 * c - 1))
        BY <1>1
    <1> HIDE DEF h2, x1, x2
    <1>3. x2 % c = IF x2 < c THEN x2 ELSE x2 - c
        BY <1>2, Wraps
    <1>4. n > 1 => x1 % c = IF x1 < c THEN x1 ELSE x1 - c
        BY <1>2, Wraps
    <1> QED BY <1>1, <1>3, <1>4 DEF h2, x1, x2

(* What the invariant says of the numbers of a window and of a trade.           *)
LEMMA Sizes ==
    ASSUME IInv, NEW w \in Windows
    PROVE  /\ Len(trades) \in Nat /\ Taken(w) \in Nat /\ Taken(w) <= Len(trades)
           /\ size[w] \in Nat /\ size[w] <= Taken(w) /\ size[w] <= Capacity[w]
           /\ sum[w] \in Int /\ lost[w] \in Int
    <1>1. Len(trades) \in Nat
        BY DEF IInv, TypeOK
    <1>2. Taken(w) \in Nat /\ Taken(w) <= Len(trades)
        BY <1>1 DEF Taken, IInv, AtInv
    <1> QED BY <1>1, <1>2 DEF IInv, TypeOK, RingHoldsLatest

(* A trade received has a volume and a time.                                    *)
LEMMA TradeTypes ==
    ASSUME IInv, NEW i \in 1..Len(trades)
    PROVE  trades[i] \in Trade /\ trades[i].vol \in Int /\ trades[i].ts \in Int
    <1>1. trades[i] \in Trade
        BY DEF IInv, TypeOK
    <1> QED BY <1>1 DEF Trade

(* A prefix sum is a number.                                                    *)
LEMMA UptoType ==
    ASSUME TypeOK, NEW i \in 0..Len(trades)
    PROVE  Upto(i) \in Int
    BY DEF TypeOK, Upto

--------------------------------------------------------------------------------
(* A new trade is taken by no window yet.                                       *)
LEMMA AddStep ==
    ASSUME IInv, NEW v \in Vols, NEW t \in Times, Add(v, t)
    PROVE  IInv'
    <1>1. v \in Int /\ t \in Int /\ [vol |-> v, ts |-> t] \in Trade
        BY TradesAssumption DEF Trade
    <1>2. at = 0 /\ at' = 1 /\ Len(Capacity) \in Nat \ {0}
        BY WindowsAssumption DEF Add
    <1>3. /\ Len(trades') = Len(trades) + 1 /\ trades' \in Seq(Trade)
          /\ \A i \in 1..Len(trades) : trades'[i] = trades[i]
          /\ Newest' = [vol |-> v, ts |-> t]
        BY <1>1 DEF Add, IInv, TypeOK, Newest
    <1>4. /\ Len(upto') = Len(trades') /\ upto' \in Seq(Int)
          /\ \A i \in 0..Len(trades) : Upto(i)' = Upto(i)
        <2>1. Upto(Len(trades)) \in Int
            BY UptoType DEF IInv
        <2> QED BY <1>1, <1>3, <2>1 DEF Add, IInv, TypeOK, Upto
    <1>5. \A w \in Windows : Taken(w)' = Taken(w) /\ Taken(w) = Len(trades)
        BY <1>2, <1>3, WindowTypes DEF Taken, IInv, TypeOK
    <1>6. TypeOK'
        BY <1>2, <1>3, <1>4, TradesAssumption DEF Add, IInv, TypeOK, ringVars
    <1>7. RingHoldsLatest'
        <2> SUFFICES ASSUME NEW w \in Windows
                     PROVE  /\ size[w] <= Taken(w)'
                            /\ \A n \in 1..size[w] : Back(w, n)' = trades'[Taken(w)' - n + 1]
            BY DEF RingHoldsLatest, Add, ringVars
        <2>1. \A n \in 1..size[w] : Back(w, n)' = Back(w, n)
            BY DEF Back, Add, ringVars
        <2>2. \A n \in 1..size[w] : Taken(w) - n + 1 \in 1..Len(trades)
            BY Sizes
        <2>3. \A n \in 1..size[w] : Back(w, n) = trades'[Taken(w) - n + 1]
            BY <1>3, <2>2 DEF IInv, RingHoldsLatest
        <2> QED BY <1>5, <2>1, <2>3, Sizes
    <1>8. SumAccounts'
        <2> SUFFICES ASSUME NEW w \in Windows
                     PROVE  sum[w] = Upto(Taken(w))' - Upto(Taken(w) - size[w])' + lost[w]
            BY DEF SumAccounts, Add, ringVars
        <2>1. Taken(w) \in 0..Len(trades) /\ Taken(w) - size[w] \in 0..Len(trades)
            BY <1>5 DEF IInv, TypeOK, RingHoldsLatest
        <2>2. Upto(Taken(w))' = Upto(Taken(w))
              /\ Upto(Taken(w) - size[w])' = Upto(Taken(w) - size[w])
            BY <1>4, <1>5, <2>1 DEF Upto, Add, ringVars
        <2> QED BY <2>2 DEF IInv, SumAccounts
    <1>9. EdgeInv'
        <2> SUFFICES ASSUME InOrder', NEW w \in Windows, NEW i \in 1..Len(trades)
                     PROVE  i > Len(trades) - size[w]
                            \/ Full(w) \/ trades[i].ts < Newest'.ts - Span[w]
            BY <1>3, <1>5 DEF EdgeInv, Add, ringVars, Full, IInv, TypeOK
        <2> DEFINE l == Len(trades)
        <2>1. l \in 1..l /\ l \in 1..(l + 1) /\ l + 1 \in 1..(l + 1) /\ i \in 1..(l + 1)
            BY Sizes
        <2>2. \A j \in 1..l : j \in 1..(l + 1)
            BY Sizes
        <2>3. InOrder
            BY <1>3, <2>2 DEF InOrder
        <2>4. Newest.ts <= Newest'.ts
            <3>1. Newest' = trades'[l + 1] /\ Newest = trades'[l]
                BY <1>3, <2>1 DEF Newest
            <3> QED BY <1>3, <2>1, <3>1, Sizes DEF InOrder
        <2>5. trades[i].ts \in Int /\ Newest.ts \in Int /\ Newest'.ts \in Int
            BY <1>1, <1>3, <2>1, TradeTypes DEF Newest
        <2>6. IF i > l - size[w] THEN TRUE ELSE Full(w) \/ trades[i].ts < Newest.ts - Span[w]
            BY <1>5, <2>3, <2>1 DEF IInv, EdgeInv
        <2> QED BY <2>4, <2>5, <2>6, WindowTypes, Sizes
    <1>10. AtInv'
        BY <1>3 DEF AtInv, IInv, TypeOK
    <1>11. UptoInv'
        <2> SUFFICES ASSUME NEW k \in 1..Len(trades')
                     PROVE  Upto(k)' = Upto(k - 1)' + trades'[k].vol
            BY DEF UptoInv
        <2>1. CASE k \in 1..Len(trades)
            <3>1. k - 1 \in 0..Len(trades) /\ k \in 0..Len(trades)
                BY <2>1 DEF IInv, TypeOK
            <3> QED BY <1>3, <1>4, <2>1, <3>1 DEF IInv, UptoInv
        <2>2. CASE k = Len(trades) + 1
            <3>1. Upto(k)' = Upto(Len(trades)) + v /\ trades'[k].vol = v
                BY <2>2, <1>3 DEF Add, Upto, IInv, TypeOK, Newest
            <3>2. Upto(k - 1)' = Upto(Len(trades))
                <4>1. k - 1 = Len(trades) /\ Len(trades) \in 0..Len(trades)
                    BY <2>2 DEF IInv, TypeOK
                <4> QED BY <1>4, <4>1
            <3> QED BY <3>1, <3>2
        <2> QED BY <1>3, <2>1, <2>2 DEF IInv, TypeOK
    <1> QED BY <1>6, <1>7, <1>8, <1>9, <1>10, <1>11 DEF IInv

(* What leaves the window leaves the sum.                                       *)
LEMMA EvictStep ==
    ASSUME IInv, NEW w \in Windows, Evict(w)
    PROVE  IInv'
    <1> USE WindowTypes
    <1>1. /\ at = w /\ Len(trades) > 0 /\ Taken(w) = Len(trades) - 1
          /\ size[w] > 0 /\ size[w] <= Taken(w)
        BY DEF Evict, Expired, IInv, AtInv, TypeOK, RingHoldsLatest, Taken
    <1>2. /\ size'[w] = size[w] - 1
          /\ \A u \in Windows \ {w} : size'[u] = size[u] /\ sum'[u] = sum[u]
        BY DEF Evict, IInv, TypeOK
    <1> DEFINE k == Taken(w) - size[w] + 1
    <1>3. Back(w, size[w]) = trades[k] /\ k \in 1..Len(trades) /\ trades[k] \in Trade
        BY <1>1 DEF IInv, RingHoldsLatest, TypeOK
    <1>4. \A u \in Windows : Taken(u)' = Taken(u)
        BY DEF Evict, Taken
    <1>5. TypeOK'
        <2>1. sum[w] - Back(w, size[w]).vol \in Int
            BY <1>3 DEF IInv, TypeOK, Trade
        <2>2. sum' \in [Windows -> Int]
            BY <2>1 DEF Evict, IInv, TypeOK
        <2>3. size' \in [Windows -> Nat] /\ \A u \in Windows : size'[u] <= Capacity[u]
            BY <1>1, <1>2 DEF Evict, IInv, TypeOK
        <2> QED BY <2>2, <2>3 DEF Evict, IInv, TypeOK
    <1>6. RingHoldsLatest'
        <2>1. \A u \in Windows : size'[u] <= size[u] /\ size'[u] \in Nat /\ size[u] \in Nat
            BY <1>1, <1>2, Sizes
        <2>2. \A u \in Windows, n \in Nat : Back(u, n)' = Back(u, n)
            BY DEF Evict, Back
        <2>3. trades' = trades /\ \A u \in Windows : Taken(u) \in Int
            BY DEF Evict, Taken, IInv, TypeOK
        <2> QED BY <1>4, <2>1, <2>2, <2>3 DEF IInv, RingHoldsLatest
    <1>7. SumAccounts'
        <2>1. \A j \in 0..Len(trades) : Upto(j)' = Upto(j)
            BY DEF Evict, Upto
        <2>2. sum'[w] = sum[w] - trades[k].vol
            BY <1>3 DEF Evict, IInv, TypeOK
        <2>3. Upto(k) = Upto(k - 1) + trades[k].vol
            BY <1>3 DEF IInv, UptoInv
        <2>4. sum[w] = Upto(Taken(w)) - Upto(k - 1) + lost[w]
            <3>1. Taken(w) - size[w] = k - 1
                BY Sizes
            <3> QED BY <3>1 DEF IInv, SumAccounts
        <2>5. /\ Upto(Taken(w)) \in Int /\ Upto(k) \in Int /\ Upto(k - 1) \in Int
              /\ trades[k].vol \in Int /\ lost[w] \in Int /\ sum[w] \in Int
            <3>1. Taken(w) \in 0..Len(trades) /\ k \in 0..Len(trades) /\ k - 1 \in 0..Len(trades)
                BY <1>1, <1>3, Sizes
            <3> QED BY <1>3, <3>1, UptoType, TradeTypes, Sizes DEF IInv
        <2>6. sum'[w] = Upto(Taken(w)) - Upto(k) + lost[w]
            BY <2>2, <2>3, <2>4, <2>5
        <2>7. Taken(w)' - size'[w] = k /\ Taken(w) \in 0..Len(trades) /\ k \in 0..Len(trades)
            BY <1>1, <1>2, <1>3, <1>4 DEF IInv, TypeOK
        <2>8. sum'[w] = Upto(Taken(w))' - Upto(Taken(w) - size[w])' + lost'[w]
            BY <2>1, <2>6, <2>7, <1>4 DEF Evict, Upto
        <2>9. ASSUME NEW u \in Windows \ {w}
              PROVE  sum'[u] = Upto(Taken(u))' - Upto(Taken(u) - size[u])' + lost'[u]
            BY <1>2, <1>4 DEF Evict, Upto, IInv, SumAccounts
        <2> QED BY <2>8, <2>9 DEF SumAccounts
    <1>8. EdgeInv'
        <2> SUFFICES ASSUME InOrder, NEW u \in Windows, NEW i \in 1..Taken(u)
                     PROVE  IF i > Taken(u) - size'[u]
                            THEN Taken(u) = Len(trades) => trades[i].ts >= Newest.ts - Span[u]
                            ELSE size'[u] = Capacity[u] \/ trades[i].ts < Newest.ts - Span[u]
            BY <1>4 DEF EdgeInv, Evict, InOrder, Newest, Full
        <2>1. CASE u # w
            BY <1>2, <2>1 DEF IInv, EdgeInv, Full
        <2>2. CASE u = w /\ i <= k
            <3>1. trades[k].ts < Newest.ts - Span[w]
                BY <1>1, <1>3 DEF Evict, Expired
            <3>2. trades[i].ts <= trades[k].ts
                BY <1>3, <1>1, <2>2 DEF InOrder, IInv, TypeOK
            <3>3. trades[i].ts \in Int /\ trades[k].ts \in Int /\ Newest.ts \in Int
                <4>1. i \in 1..Len(trades) /\ Len(trades) \in 1..Len(trades)
                    BY <1>1, <2>2, Sizes
                <4> QED BY <1>3, <4>1, TradeTypes DEF Newest
            <3>4. trades[i].ts < Newest.ts - Span[w]
                BY <3>1, <3>2, <3>3
            <3> QED BY <1>1, <1>2, <2>2, <3>4, Sizes
        <2>3. CASE u = w /\ i > k
            BY <1>1, <1>2, <2>3, Sizes
        <2> QED BY <2>1, <2>2, <2>3, <1>1, <1>3, Sizes
    <1>9. AtInv' /\ UptoInv'
        BY DEF IInv, AtInv, UptoInv, Upto, Evict
    <1> QED BY <1>5, <1>6, <1>7, <1>8, <1>9 DEF IInv

(* The window takes the newest trade, in the place of its oldest if it is full. *)
LEMMA WriteStep ==
    ASSUME IInv, NEW w \in Windows, Write(w)
    PROVE  IInv'
    <1> USE WindowTypes
    <1> DEFINE n == Len(trades)
               h == head[w]
    <1>1. at = w /\ n > 0 /\ n \in Nat /\ Taken(w) = n - 1 /\ Newest = trades[n] /\ Newest \in Trade
          /\ h \in 0..(Capacity[w] - 1) /\ ~Expired(w)
        BY DEF Write, IInv, AtInv, TypeOK, Taken, Newest
    <1>2. Taken(w)' = n /\ \A u \in Windows \ {w} : Taken(u)' = Taken(u)
        BY <1>1 DEF Write, Taken, IInv, TypeOK
    <1>3. /\ size'[w] = IF Full(w) THEN size[w] ELSE size[w] + 1
          /\ sum'[w] = sum[w] + Newest.vol
          /\ lost'[w] = IF Full(w) THEN lost[w] + buf[w][h].vol ELSE lost[w]
          /\ head'[w] = (h + 1) % Capacity[w]
          /\ buf'[w] = [buf[w] EXCEPT ![h] = Newest]
        BY DEF Write, IInv, TypeOK
    <1>4. \A u \in Windows \ {w} : /\ size'[u] = size[u] /\ sum'[u] = sum[u]
                                   /\ lost'[u] = lost[u] /\ head'[u] = head[u]
                                   /\ buf'[u] = buf[u]
        BY DEF Write, IInv, TypeOK
    <1>5. size'[w] \in 1..Capacity[w] /\ size[w] \in 0..Capacity[w]
        BY <1>3 DEF IInv, TypeOK, Full
    <1>6. head'[w] \in 0..(Capacity[w] - 1)
        BY <1>1, <1>3, BackAfterWrite
    <1>7. buf[w][h] \in Trade /\ buf'[w] \in [0..(Capacity[w] - 1) -> Trade]
        BY <1>1, <1>3 DEF IInv, TypeOK
    <1>8. TypeOK'
        <2>1. sum[w] + Newest.vol \in Int /\ lost'[w] \in Int
            <3>1. Newest.vol \in Int /\ buf[w][h].vol \in Int
                BY <1>1, <1>7 DEF Trade
            <3> QED BY <1>3, <3>1, Sizes
        <2>2. sum' \in [Windows -> Int] /\ lost' \in [Windows -> Int]
            BY <2>1, <1>3 DEF Write, IInv, TypeOK
        <2>3. size' \in [Windows -> Nat] /\ \A u \in Windows : size'[u] <= Capacity[u]
            BY <1>3, <1>4, <1>5 DEF Write, IInv, TypeOK
        <2>4. head' \in [Windows -> Nat] /\ \A u \in Windows : head'[u] < Capacity[u]
            BY <1>3, <1>4, <1>6 DEF Write, IInv, TypeOK
        <2>5. DOMAIN buf' = Windows /\ \A u \in Windows : buf'[u] \in [0..(Capacity[u] - 1) -> Trade]
            BY <1>4, <1>7 DEF Write, IInv, TypeOK
        <2>6. at' \in 0..Len(Capacity)
            BY <1>1 DEF Write
        <2> QED BY <2>2, <2>3, <2>4, <2>5, <2>6 DEF Write, IInv, TypeOK
    <1>9. ASSUME NEW m \in 1..size'[w]
          PROVE  Back(w, m)' = trades[n - m + 1]
        <2>1. m \in 1..Capacity[w] /\ m \in Nat
            BY <1>5
        <2> DEFINE i2 == (head'[w] - m + Capacity[w]) % Capacity[w]
        <2>2. /\ i2 \in 0..(Capacity[w] - 1)
              /\ m = 1 => i2 = h
              /\ m > 1 => i2 = (h - (m - 1) + Capacity[w]) % Capacity[w] /\ i2 # h
            <3>1. Capacity[w] \in Nat \ {0} /\ h \in 0..(Capacity[w] - 1)
                BY <1>1
            <3>2. LET h2 == (h + 1) % Capacity[w]
                      j2 == (h2 - m + Capacity[w]) % Capacity[w]
                  IN  /\ j2 \in 0..(Capacity[w] - 1)
                      /\ m = 1 => j2 = h
                      /\ m > 1 => j2 = (h - (m - 1) + Capacity[w]) % Capacity[w] /\ j2 # h
                BY <2>1, <3>1, BackAfterWrite, Zenon
            <3> QED BY <1>3, <3>2
        <2>3. Back(w, m)' = buf'[w][i2]
            BY DEF Back
        <2> HIDE DEF i2
        <2>4. CASE m = 1
            BY <1>1, <1>3, <2>2, <2>3, <2>4 DEF IInv, TypeOK
        <2>5. CASE m > 1
            <3>1. buf'[w][i2] = Back(w, m - 1)
                BY <1>1, <1>3, <2>2, <2>5 DEF IInv, TypeOK, Back
            <3>2. m - 1 \in 1..size[w]
                BY <1>3, <1>5, <2>5 DEF IInv, TypeOK
            <3>3. Back(w, m - 1) = trades[(n - 1) - (m - 1) + 1]
                BY <1>1, <3>2 DEF IInv, RingHoldsLatest
            <3> QED BY <1>1, <2>1, <2>3, <3>1, <3>3
        <2> QED BY <2>1, <2>4, <2>5
    <1>10. RingHoldsLatest'
        <2>1. size'[w] <= n
            BY <1>1, <1>3 DEF IInv, RingHoldsLatest, TypeOK
        <2>2. ASSUME NEW u \in Windows \ {w}
              PROVE  /\ size'[u] <= Taken(u)'
                     /\ \A m \in 1..size'[u] : Back(u, m)' = trades'[Taken(u)' - m + 1]
            BY <1>2, <1>4 DEF Back, IInv, RingHoldsLatest, Write
        <2>3. \A m \in 1..size'[w] : Back(w, m)' = trades'[Taken(w)' - m + 1]
            BY <1>2, <1>9 DEF Write
        <2> QED BY <1>2, <2>1, <2>2, <2>3 DEF RingHoldsLatest
    <1>11. ASSUME Full(w) PROVE buf[w][h] = trades[n - Capacity[w]]
        <2>1. h - Capacity[w] + Capacity[w] = h /\ h \in 0..(2 * Capacity[w] - 1) /\ h < Capacity[w]
            BY <1>1
        <2>2. Back(w, Capacity[w]) = buf[w][h]
            BY <2>1, Wraps DEF Back
        <2>3. Capacity[w] \in 1..size[w] /\ (n - 1) - Capacity[w] + 1 = n - Capacity[w]
            BY <1>1, <1>11 DEF Full
        <2>4. Back(w, Capacity[w]) = trades[(n - 1) - Capacity[w] + 1]
            BY <1>1, <2>3 DEF IInv, RingHoldsLatest
        <2> QED BY <2>2, <2>3, <2>4
    <1>12. SumAccounts'
        <2>1. \A j \in 0..n : Upto(j)' = Upto(j)
            BY DEF Write, Upto
        <2>2. Upto(n) = Upto(n - 1) + Newest.vol /\ Newest.vol \in Int
            BY <1>1 DEF IInv, UptoInv, Trade
        <2>3. sum[w] = Upto(n - 1) - Upto(n - 1 - size[w]) + lost[w]
            BY <1>1 DEF IInv, SumAccounts
        <2>4. size[w] <= n - 1 /\ size'[w] <= n
            BY <1>1, <1>3 DEF IInv, RingHoldsLatest, TypeOK
        <2>5. n \in 0..n /\ n - 1 \in 0..n /\ n - 1 - size[w] \in 0..n /\ n - size'[w] \in 0..n
            BY <1>1, <1>5, <2>4
        <2>6. /\ Upto(n) \in Int /\ Upto(n - 1) \in Int /\ Upto(n - 1 - size[w]) \in Int
              /\ lost[w] \in Int /\ sum[w] \in Int
            BY <2>5, UptoType DEF IInv, TypeOK
        <2>7. sum'[w] = Upto(n) - Upto(n - size'[w]) + lost'[w]
            <3>1. CASE Full(w)
                <4>1. n - Capacity[w] \in 1..n /\ size[w] = Capacity[w] /\ size'[w] = Capacity[w]
                    BY <1>1, <1>3, <2>4, <3>1 DEF Full
                <4>2. Upto(n - Capacity[w])
                          = Upto(n - 1 - Capacity[w]) + trades[n - Capacity[w]].vol
                    BY <4>1 DEF IInv, UptoInv
                <4>3. lost'[w] = lost[w] + trades[n - Capacity[w]].vol
                      /\ trades[n - Capacity[w]].vol \in Int
                    BY <1>3, <1>11, <3>1, <4>1, TradeTypes
                <4>4. Upto(n - Capacity[w]) \in Int
                    BY <4>1, UptoType DEF IInv
                <4>5. sum[w] + Newest.vol = Upto(n) - Upto(n - Capacity[w]) + lost'[w]
                    <5> DEFINE b == Upto(n - 1 - Capacity[w])
                               e == Upto(n - Capacity[w])
                               a == Upto(n - 1)
                               z == trades[n - Capacity[w]].vol
                               x == Newest.vol
                               l == lost[w]
                               s == sum[w]
                    <5>1. s = a - b + l /\ b \in Int /\ a \in Int /\ l \in Int /\ s \in Int
                        BY <2>3, <2>6, <4>1
                    <5>2. e = b + z /\ e \in Int /\ z \in Int /\ lost'[w] = l + z
                        BY <4>2, <4>3, <4>4
                    <5>3. Upto(n) = a + x /\ x \in Int
                        BY <2>2
                    <5> HIDE DEF a, b, e, l, s, x, z
                    <5>4. s + x = (a + x) - e + (l + z)
                        BY <5>1, <5>2, <5>3
                    <5>5. s + x = Upto(n) - e + lost'[w]
                        BY <5>2, <5>3, <5>4
                    <5> QED BY <5>5 DEF e, s, x
                <4> QED BY <1>3, <4>1, <4>5
            <3>2. CASE ~Full(w)
                <4>1. n - size'[w] = n - 1 - size[w] /\ lost'[w] = lost[w]
                    BY <1>1, <1>3, <1>5, <3>2
                <4> QED BY <1>3, <2>2, <2>3, <2>6, <4>1
            <3> QED BY <3>1, <3>2
        <2>8. sum'[w] = Upto(Taken(w))' - Upto(Taken(w) - size[w])' + lost'[w]
            BY <1>2, <2>1, <2>5, <2>7 DEF Upto
        <2>9. ASSUME NEW u \in Windows \ {w}
              PROVE  sum'[u] = Upto(Taken(u))' - Upto(Taken(u) - size[u])' + lost'[u]
            BY <1>2, <1>4 DEF Write, Upto, IInv, SumAccounts
        <2> QED BY <2>8, <2>9 DEF SumAccounts
    <1>13. EdgeInv'
        <2> SUFFICES ASSUME InOrder, NEW u \in Windows, NEW i \in 1..Taken(u)'
                     PROVE  IF i > Taken(u)' - size'[u]
                            THEN Taken(u)' = n => trades[i].ts >= Newest.ts - Span[u]
                            ELSE size'[u] = Capacity[u] \/ trades[i].ts < Newest.ts - Span[u]
            BY DEF EdgeInv, Write, InOrder, Newest, Full
        <2>1. CASE u # w
            BY <1>2, <1>4, <2>1 DEF IInv, EdgeInv, Full
        <2>2. CASE u = w /\ i > n - size'[w]
            <3>1. trades[i].ts \in Int /\ Newest.ts \in Int /\ i \in 1..n
                <4>1. i \in 1..n /\ n \in 1..n
                    BY <1>1, <1>2, <2>2
                <4> QED BY <1>1, <4>1, TradeTypes
            <3>2. CASE i = n
                <4>1. trades[i].ts >= Newest.ts - Span[w]
                    BY <1>1, <3>1, <3>2
                <4> QED BY <1>2, <2>2, <4>1
            <3>3. CASE i < n
                <4> DEFINE o == n - size[w]
                <4>1. size[w] > 0 /\ o \in 1..n /\ o <= i
                    <5>1. size'[w] = size[w] \/ size'[w] = size[w] + 1
                        BY <1>3
                    <5>2. size[w] \in Nat /\ size[w] <= n - 1 /\ n \in Nat
                        BY <1>1, Sizes
                    <5>3. i > n - size'[w] /\ i \in 1..n
                        BY <2>2, <3>1
                    <5> QED BY <3>3, <5>1, <5>2, <5>3
                <4>2. Back(w, size[w]) = trades[o]
                    <5>1. size[w] \in 1..size[w] /\ (n - 1) - size[w] + 1 = o
                        <6>1. size[w] \in Nat /\ n \in Nat
                            BY Sizes
                        <6> QED BY <4>1, <6>1
                    <5>2. Back(w, size[w]) = trades[(n - 1) - size[w] + 1]
                        BY <1>1, <5>1 DEF IInv, RingHoldsLatest
                    <5> QED BY <5>1, <5>2
                <4> HIDE DEF o
                <4>3. trades[o].ts \in Int /\ trades[o].ts <= trades[i].ts
                    BY <3>1, <4>1, TradeTypes DEF InOrder
                <4>4. ~(trades[o].ts < Newest.ts - Span[w])
                    BY <1>1, <4>1, <4>2 DEF Expired
                <4>5. trades[i].ts >= Newest.ts - Span[w]
                    BY <3>1, <4>3, <4>4
                <4> QED BY <1>2, <2>2, <4>5
            <3> QED BY <3>1, <3>2, <3>3, <1>1
        <2>3. CASE u = w /\ i <= n - size'[w] /\ ~Full(w)
            <3>1. i \in 1..Taken(w) /\ ~(i > Taken(w) - size[w])
                BY <1>1, <1>2, <1>3, <1>5, <2>3
            <3> QED BY <2>3, <3>1, <1>2, <1>1, <1>5 DEF IInv, EdgeInv
        <2>4. CASE u = w /\ i <= n - size'[w] /\ Full(w)
            BY <1>1, <1>2, <1>3, <1>5, <2>4 DEF Full
        <2> QED BY <1>1, <1>2, <1>5, <2>1, <2>2, <2>3, <2>4
    <1>14. AtInv' /\ UptoInv'
        BY <1>1 DEF IInv, AtInv, UptoInv, Upto, Write
    <1> QED BY <1>8, <1>10, <1>12, <1>13, <1>14 DEF IInv

--------------------------------------------------------------------------------
(* The empty rings satisfy the invariant, and every step keeps it.              *)
LEMMA Invariant == Spec => []IInv
    <1>1. ASSUME Init PROVE IInv
        <2>1. \A w \in Windows : Capacity[w] \in Nat \ {0} /\ Len(Capacity) \in Nat \ {0}
            BY WindowTypes
        <2>2. Len(trades) = 0 /\ trades \in Seq(Trade) /\ upto \in Seq(Int) /\ Len(upto) = 0
            BY <1>1 DEF Init
        <2>3. TypeOK
            <3>1. Empty \in Trade
                BY DEF Empty, Trade
            <3> QED BY <1>1, <2>1, <2>2, <3>1, TradesAssumption, WindowsAssumption DEF Init, TypeOK
        <2>4. \A w \in Windows : Taken(w) = 0 /\ size[w] = 0 /\ sum[w] = 0 /\ lost[w] = 0
            BY <1>1, <2>2 DEF Init, Taken
        <2>5. SumAccounts
            BY <2>4 DEF SumAccounts, Upto
        <2>6. AtInv /\ UptoInv /\ RingHoldsLatest /\ EdgeInv
            BY <1>1, <2>2, <2>4 DEF Init, AtInv, UptoInv, RingHoldsLatest, EdgeInv
        <2> QED BY <2>3, <2>5, <2>6 DEF IInv
    <1>2. ASSUME IInv, UNCHANGED vars PROVE IInv'
        BY <1>2 DEF vars, ringVars, IInv, TypeOK, AtInv, UptoInv, RingHoldsLatest, SumAccounts,
                    EdgeInv, Upto, Taken, Back, Full, InOrder, Newest
    <1>3. IInv /\ [Next]_vars => IInv'
        BY <1>2, AddStep, EvictStep, WriteStep DEF Next
    <1> QED BY <1>1, <1>3, PTL DEF Spec

(* Types, for every capacity: no ring ever holds more than it has slots.        *)
THEOREM FlowTypes == Spec => []TypeOK
    <1>1. IInv => TypeOK
        BY DEF IInv
    <1> QED BY Invariant, <1>1, PTL

(* The slot arithmetic of trade_flow.go is right for every capacity and every   *)
(* history of wraps and evictions.                                              *)
THEOREM RingsHoldLatest == Spec => []RingHoldsLatest
    <1>1. IInv => RingHoldsLatest
        BY DEF IInv
    <1> QED BY Invariant, <1>1, PTL

(* The running sum is right up to the volume that overflow has overwritten.     *)
THEOREM SumsAccount == Spec => []SumAccounts
    <1>1. IInv => SumAccounts
        BY DEF IInv
    <1> QED BY Invariant, <1>1, PTL

(* With trades in order a window that has not overflowed is the time span it    *)
(* claims to be.                                                                *)
THEOREM WindowsExact == Spec => []WindowExact
    <1>1. ASSUME IInv PROVE WindowExact
        <2>1. at = 0 => \A w \in Windows : Taken(w) = Len(trades)
            BY DEF Taken
        <2> QED BY <1>1, <2>1 DEF IInv, EdgeInv, WindowExact
    <1> QED BY Invariant, <1>1, PTL
================================================================================
