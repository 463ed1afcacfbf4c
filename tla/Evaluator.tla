------------------------------- MODULE Evaluator -------------------------------
(* What happens to a market reading on its way to an order: the four engines    *)
(* (internal/engine), the evaluator loop of a symbol that lets one of their     *)
(* signals through per tick (watcher.go runEngineEvaluator), the hook in main   *)
(* that gates it and the executor that takes it from the worker's queue. Of the *)
(* numbers of a market context the engines' directions depend on signs and, for *)
(* the decay of the book, on two limits; every other condition (thresholds,     *)
(* funding, volatility, confidence) may hold or not.                            *)
EXTENDS TradingStates, Sequences, FiniteSets

CONSTANTS
    QueueCap,       \* capacity of signalQueue
    MaxTicks        \* bound: ticks of the evaluator

ASSUME QueueCapAssumption == QueueCap \in Nat \ {0}
ASSUME MaxTicksAssumption == MaxTicks \in Nat

VARIABLES
    state,          \* the state of the worker's machine
    tick,           \* ticks so far
    reading,        \* the signals of this tick: a direction for each engine
    asking,         \* the evaluator is about to call the hook
    queue,          \* signalQueue
    busy,           \* the executor is handling a signal
    since           \* history: the tick in which it last took one

vars == <<state, tick, reading, asking, queue, busy, since>>

TREND == 1          \* in the order of the loop
SQUEEZE == 2
TRANSITION == 3
LIQUIDATION == 4
Engines == TREND..LIQUIDATION

LONG == 1
FLAT == 0           \* no signal
SHORT == -1
Signs == -1..1

(* OrderbookSurvivalDecay against the limits of the engines.                    *)
Healthy == 0        \* at most 0.20
Between == 1
Eaten == 2          \* at least 0.30

(* MarketContext: OI changes over 5 s, 30 s and 5 min, volume delta over 5 and  *)
(* 30 s, price momentum, basis and its velocity, all by sign.                   *)
Contexts == [oi5 : Signs, oi30 : Signs, oi5m : Signs, rcvd5 : Signs, rcvd30 : Signs,
             pm : Signs, basis : Signs, vel : Signs, decay : {Healthy, Between, Eaten}]

--------------------------------------------------------------------------------
(* Mutant of TrendDirection: shorts are opened on selling alone, longs too when *)
(* open interest falls.                                                         *)
MutTrendDirection(c) ==
    IF c.rcvd30 = 1 THEN IF c.pm >= 0 THEN LONG ELSE FLAT
    ELSE IF c.rcvd30 = -1 /\ c.pm <= 0 THEN SHORT ELSE FLAT

(* New money on the buying side, or selling with new or fleeing open interest;  *)
(* the momentum must not point the other way.                                   *)
TrendDirection(c) ==
    IF c.oi30 = 1 /\ c.rcvd30 = 1 THEN IF c.pm >= 0 THEN LONG ELSE FLAT
    ELSE IF c.rcvd30 = -1 /\ (c.oi30 = 1 \/ c.oi5 = -1) /\ c.pm <= 0 THEN SHORT
    ELSE FLAT

(* A basis that widens in a book that is being eaten snaps back.                *)
SqueezeDirection(c) ==
    IF c.decay # Eaten THEN FLAT
    ELSE IF c.basis = 1 /\ c.vel = 1 THEN SHORT
    ELSE IF c.basis = -1 /\ c.vel = -1 THEN LONG
    ELSE FLAT

(* Mutant of TransitionDirection: two of the three are enough for a short.      *)
MutTransitionDirection(c) ==
    IF c.decay # Healthy \/ c.oi5m = 0 THEN FLAT
    ELSE IF c.oi5m = 1 /\ c.rcvd30 = 1 /\ c.pm = 1 THEN LONG
    ELSE IF c.oi5m # 1 /\ c.pm # 1 THEN SHORT
    ELSE FLAT

(* All three up, or none of them up; the five-minute change is not zero.        *)
TransitionDirection(c) ==
    IF c.decay # Healthy \/ c.oi5m = 0 THEN FLAT
    ELSE IF c.oi5m = 1 /\ c.rcvd30 = 1 /\ c.pm = 1 THEN LONG
    ELSE IF c.oi5m # 1 /\ c.rcvd30 # 1 /\ c.pm # 1 THEN SHORT
    ELSE FLAT

(* Positions are being closed by force: open interest falls, volume delta of    *)
(* both windows and momentum point the same way.                                *)
LiquidationDirection(c) ==
    IF c.oi30 = -1 /\ c.rcvd5 # 0 /\ c.rcvd5 = c.rcvd30 /\ c.pm = c.rcvd5
    THEN c.rcvd5 ELSE FLAT

Direction(e, c) ==
    CASE e = TREND -> TrendDirection(c)
      [] e = SQUEEZE -> SqueezeDirection(c)
      [] e = TRANSITION -> TransitionDirection(c)
      [] e = LIQUIDATION -> LiquidationDirection(c)

(* What a tick may read: of the engines that have a direction, those that are   *)
(* enabled, whose other conditions hold and whose confidence reaches the        *)
(* threshold of that direction.                                                 *)
Readings ==
    {[e \in Engines |-> IF e \in pass THEN d[e] ELSE FLAT] :
        pass \in SUBSET Engines, d \in {[e \in Engines |-> Direction(e, c)] : c \in Contexts}}

Signalling == {e \in Engines : reading[e] # FLAT}
First == CHOOSE e \in Signalling : \A f \in Signalling : e <= f

--------------------------------------------------------------------------------
Init ==
    /\ state = NOISE /\ tick = 0
    /\ reading = [e \in Engines |-> FLAT] /\ asking = FALSE
    /\ queue = <<>> /\ busy = FALSE /\ since = 0

(* A tick with a mark price and 100 messages: the engines look at one context.  *)
(* A signal expires half a second or more after it was generated, so the check  *)
(* right after that finds it fresh.                                             *)
Evaluate ==
    /\ ~asking /\ tick < MaxTicks
    /\ tick' = tick + 1
    /\ reading' \in Readings
    /\ asking' = (\E e \in Engines : reading'[e] # FLAT)
    /\ UNCHANGED <<state, queue, busy, since>>

(* The switch of the hook.                                                      *)
Gate(e) == IF e = TREND THEN MayOpenTrend(state) ELSE MayOpen(state)

(* Mutant of Room: one signal too many.                                         *)
MutRoom == Len(queue) <= QueueCap

Room == Len(queue) < QueueCap

(* The hook, called once per tick, with the first signal: it is refused by the  *)
(* state, by the guardrails or for want of credentials, queued, or dropped when *)
(* the queue is full. No other signal of the tick is offered.                   *)
Hook ==
    /\ asking /\ asking' = FALSE
    /\ \/ UNCHANGED queue
       \/ /\ Gate(First) /\ Room
          /\ queue' = Append(queue, [engine |-> First, dir |-> reading[First], tick |-> tick])
    /\ UNCHANGED <<state, tick, reading, busy, since>>

(* The executor takes a signal, however old it is, and turns it down (direction *)
(* switched off, no mark price, margin, slippage, cost) or handles it:          *)
(* TryReversal and TryOpen take as long as their calls to the exchange.         *)
Take ==
    /\ ~busy /\ queue # <<>>
    /\ queue' = Tail(queue)
    /\ busy' \in BOOLEAN
    /\ since' = tick
    /\ UNCHANGED <<state, tick, reading, asking>>

Handled ==
    /\ busy /\ busy' = FALSE
    /\ UNCHANGED <<state, tick, reading, asking, queue, since>>

(* The worker's machine, which only becomes more severe.                        *)
ChangeState(s) ==
    /\ s > state /\ state' = s
    /\ UNCHANGED <<tick, reading, asking, queue, busy, since>>

Next == Evaluate \/ Hook \/ Take \/ Handled \/ \E s \in States : ChangeState(s)

Spec == Init /\ [][Next]_vars

--------------------------------------------------------------------------------
(* The engines that follow the flow of orders never contradict one another on   *)
(* the same context, and Squeeze, which trades against it, never signals with   *)
(* Transition, which wants a calm book: only Squeeze may contradict Trend or    *)
(* Liquidation.                                                                 *)
EnginesAgree ==
    \A e, f \in Signalling : reading[e] = reading[f] \/ {e, f} \in
        {{SQUEEZE, TREND}, {SQUEEZE, LIQUIDATION}}

(* A signal the hook would take is lost behind one it refuses only when Trend   *)
(* signals in STRESS, and never a long of the Liquidation engine: a crash can   *)
(* be missed that way, a short squeeze cannot.                                  *)
OnlyTrendMasks ==
    asking /\ ~Gate(First) /\ (\E e \in Signalling : Gate(e)) =>
        First = TREND /\ state = STRESS /\ reading[LIQUIDATION] # LONG

(* The executor does not look at a signal's expiry, but it never works through  *)
(* a backlog either: what it takes is no older than the tick in which it took   *)
(* the one before, however long that one kept it busy.                          *)
NoBacklog ==
    [][Len(queue') < Len(queue) => Head(queue).tick >= since]_vars
================================================================================
