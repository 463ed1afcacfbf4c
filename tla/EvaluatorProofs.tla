----------------------------- MODULE EvaluatorProofs ---------------------------
(* Safety of Evaluator for any number of ticks: what the engines say of one     *)
(* context, for all contexts and every choice of enabled engines, and what the  *)
(* executor takes, for the queue of one signal that the worker has.             *)
EXTENDS Evaluator, TLAPS

(* One worker's queue: make(chan signalQueueEntry, 1).                          *)
OneSignal == QueueCap = 1

Entries == [engine : Engines, dir : Signs, tick : Nat]

(* Types. The signals of a tick are those of some reading, or none before the   *)
(* first tick; the hook is asked only when there is one.                        *)
TypeInv ==
    /\ state \in States /\ tick \in Nat /\ since \in Nat
    /\ asking \in BOOLEAN /\ busy \in BOOLEAN
    /\ reading \in Readings \cup {[e \in Engines |-> FLAT]}
    /\ asking => Signalling # {}
    /\ queue \in Seq(Entries) /\ Len(queue) <= QueueCap

(* A signal that waits was put there no earlier than the last one was taken.    *)
QueueInv ==
    /\ since <= tick
    /\ \A i \in 1..Len(queue) : since <= queue[i].tick

--------------------------------------------------------------------------------
(* The engines on one context: the three that follow the flow never contradict  *)
(* one another; Squeeze and Transition want different books; and there is no    *)
(* forced buying while Trend has a signal.                                      *)
LEMMA DirectionsAgree ==
    ASSUME NEW c \in Contexts
    PROVE  /\ TrendDirection(c) \in Signs /\ SqueezeDirection(c) \in Signs
           /\ TransitionDirection(c) \in Signs /\ LiquidationDirection(c) \in Signs
           /\ \/ TrendDirection(c) = FLAT \/ TransitionDirection(c) = FLAT
              \/ TrendDirection(c) = TransitionDirection(c)
           /\ \/ TrendDirection(c) = FLAT \/ LiquidationDirection(c) = FLAT
              \/ TrendDirection(c) = LiquidationDirection(c)
           /\ \/ TransitionDirection(c) = FLAT \/ LiquidationDirection(c) = FLAT
              \/ TransitionDirection(c) = LiquidationDirection(c)
           /\ SqueezeDirection(c) = FLAT \/ TransitionDirection(c) = FLAT
           /\ TrendDirection(c) # FLAT => LiquidationDirection(c) # LONG
    <1> USE DEF Contexts, Signs, LONG, FLAT, SHORT
    <1>1. TrendDirection(c) \in Signs /\ SqueezeDirection(c) \in Signs
          /\ TransitionDirection(c) \in Signs /\ LiquidationDirection(c) \in Signs
        BY DEF TrendDirection, SqueezeDirection, TransitionDirection, LiquidationDirection
    <1>2. \/ TrendDirection(c) = FLAT \/ TransitionDirection(c) = FLAT
          \/ TrendDirection(c) = TransitionDirection(c)
        BY DEF TrendDirection, TransitionDirection
    <1>3. \/ TrendDirection(c) = FLAT \/ LiquidationDirection(c) = FLAT
          \/ TrendDirection(c) = LiquidationDirection(c)
        BY DEF TrendDirection, LiquidationDirection
    <1>4. \/ TransitionDirection(c) = FLAT \/ LiquidationDirection(c) = FLAT
          \/ TransitionDirection(c) = LiquidationDirection(c)
        BY DEF TransitionDirection, LiquidationDirection
    <1>5. SqueezeDirection(c) = FLAT \/ TransitionDirection(c) = FLAT
        BY DEF SqueezeDirection, TransitionDirection, Eaten, Healthy
    <1>6. TrendDirection(c) # FLAT => LiquidationDirection(c) # LONG
        BY DEF TrendDirection, LiquidationDirection
    <1> QED BY <1>1, <1>2, <1>3, <1>4, <1>5, <1>6

(* The signals of a tick are the directions of some engines on one context.     *)
LEMMA OneContext ==
    ASSUME reading \in Readings
    PROVE  /\ reading \in [Engines -> Signs]
           /\ \E c \in Contexts : \A e \in Engines : reading[e] # FLAT => reading[e] = Direction(e, c)
    <1>1. PICK pass \in SUBSET Engines, d \in {[e \in Engines |-> Direction(e, c)] : c \in Contexts} :
              reading = [e \in Engines |-> IF e \in pass THEN d[e] ELSE FLAT]
        BY DEF Readings
    <1>2. PICK c \in Contexts : d = [e \in Engines |-> Direction(e, c)]
        BY <1>1
    <1>3. \A e \in Engines : Direction(e, c) \in Signs
        BY DirectionsAgree DEF Direction, Engines, TREND, SQUEEZE, TRANSITION, LIQUIDATION
    <1>4. \A e \in Engines : reading[e] = IF e \in pass THEN Direction(e, c) ELSE FLAT
        BY <1>1, <1>2
    <1>5. reading \in [Engines -> Signs]
        BY <1>1, <1>2, <1>3 DEF Signs, FLAT
    <1> QED BY <1>4, <1>5

(* The signal that is offered is one of the tick's, and the first of them.      *)
LEMMA FirstOfTick ==
    ASSUME Signalling # {}
    PROVE  First \in Signalling /\ First \in Engines /\ \A f \in Signalling : First <= f
    <1>1. \E e \in Signalling : \A f \in Signalling : e <= f
        BY DEF Signalling, Engines, TREND, LIQUIDATION
    <1>2. First \in Signalling /\ \A f \in Signalling : First <= f
        BY <1>1 DEF First
    <1> QED BY <1>2 DEF Signalling

--------------------------------------------------------------------------------
(* Types, every step.                                                           *)
LEMMA TypeStep ==
    ASSUME TypeInv, [Next]_vars
    PROVE  TypeInv'
    <1> USE QueueCapAssumption DEF TypeInv
    <1>1. CASE Evaluate
        <2>1. Signalling' = {e \in Engines : reading'[e] # FLAT}
            BY DEF Signalling
        <2>2. asking' \in BOOLEAN /\ (asking' => Signalling' # {})
            BY <1>1, <2>1 DEF Evaluate
        <2> QED BY <1>1, <2>2 DEF Evaluate
    <1>2. CASE Hook
        <2>1. asking' \in BOOLEAN /\ ~asking'
            BY <1>2, Zenon DEF Hook
        <2>2. queue' \in Seq(Entries) /\ Len(queue') <= QueueCap
            <3>1. CASE UNCHANGED queue
                BY <3>1
            <3>2. CASE /\ Room
                       /\ queue' = Append(queue, [engine |-> First, dir |-> reading[First],
                                                  tick |-> tick])
                <4>1. First \in Engines
                    BY <1>2, FirstOfTick DEF Hook
                <4>2. reading \in [Engines -> Signs]
                    BY OneContext DEF Signs, FLAT
                <4>3. [engine |-> First, dir |-> reading[First], tick |-> tick] \in Entries
                    BY <4>1, <4>2 DEF Entries
                <4> QED BY <3>2, <4>3 DEF Room
            <3> QED BY <1>2, <3>1, <3>2 DEF Hook
        <2> QED BY <1>2, <2>1, <2>2 DEF Hook
    <1>3. CASE Take
        <2>1. queue' \in Seq(Entries) /\ Len(queue') <= QueueCap
            BY <1>3 DEF Take
        <2>2. Signalling' = Signalling
            BY <1>3 DEF Take, Signalling
        <2> QED BY <1>3, <2>1, <2>2 DEF Take
    <1>4. CASE Handled
        <2>1. busy' \in BOOLEAN
            BY <1>4, Zenon DEF Handled
        <2>2. Signalling' = Signalling
            BY <1>4 DEF Handled, Signalling
        <2> QED BY <1>4, <2>1, <2>2 DEF Handled
    <1>5. ASSUME NEW s \in States, ChangeState(s) PROVE TypeInv'
        BY <1>5 DEF ChangeState, Signalling
    <1>6. CASE UNCHANGED vars
        BY <1>6 DEF vars, Signalling
    <1> QED BY <1>1, <1>2, <1>3, <1>4, <1>5, <1>6 DEF Next

(* With one place in the queue, what is taken leaves it empty, and what comes   *)
(* next is of that tick or a later one.                                         *)
LEMMA QueueStep ==
    ASSUME OneSignal, TypeInv, QueueInv, [Next]_vars
    PROVE  QueueInv'
    <1> USE DEF QueueInv
    <1>1. CASE Evaluate
        BY <1>1 DEF Evaluate, TypeInv
    <1>2. CASE Hook
        <2> DEFINE x == [engine |-> First, dir |-> reading[First], tick |-> tick]
        <2>1. UNCHANGED <<tick, since>> /\ (queue' = queue \/ queue' = Append(queue, x))
            BY <1>2 DEF Hook
        <2>2. queue \in Seq(Entries) /\ x.tick = tick
            BY DEF TypeInv
        <2> HIDE DEF x
        <2>3. CASE queue' = queue
            BY <2>1, <2>3
        <2>4. CASE queue' = Append(queue, x)
            <3>1. /\ Len(queue') = Len(queue) + 1 /\ queue'[Len(queue) + 1] = x
                  /\ \A i \in 1..Len(queue) : queue'[i] = queue[i]
                  /\ Len(queue) \in Nat
                BY <2>2, <2>4
            <3> QED BY <2>1, <2>2, <3>1
        <2> QED BY <2>1, <2>3, <2>4
    <1>3. CASE Take
        <2>1. queue' = Tail(queue) /\ queue # <<>> /\ queue \in Seq(Entries) /\ Len(queue) <= 1
            BY <1>3 DEF Take, TypeInv, OneSignal
        <2>2. Len(queue) \in Nat \ {0} /\ Len(Tail(queue)) = Len(queue) - 1
            BY <2>1
        <2>3. Len(queue') = 0
            BY <2>1, <2>2
        <2> QED BY <1>3, <2>3 DEF Take, TypeInv
    <1>4. CASE Handled \/ (\E s \in States : ChangeState(s)) \/ UNCHANGED vars
        BY <1>4 DEF Handled, ChangeState, vars
    <1> QED BY <1>1, <1>2, <1>3, <1>4 DEF Next

(* The types hold initially and are kept.                                       *)
LEMMA Types == Spec => []TypeInv
    <1>1. Init => TypeInv
        <2> SUFFICES ASSUME Init PROVE TypeInv
            OBVIOUS
        <2>1. asking \in BOOLEAN /\ ~asking /\ busy \in BOOLEAN
            BY Zenon DEF Init
        <2>2. queue \in Seq(Entries) /\ Len(queue) <= QueueCap
            BY QueueCapAssumption DEF Init
        <2> QED BY <2>1, <2>2 DEF Init, TypeInv, States, NOISE, FAILURE
    <1>2. TypeInv /\ [Next]_vars => TypeInv'
        BY TypeStep
    <1> QED BY <1>1, <1>2, PTL DEF Spec

(* Only Squeeze ever contradicts another engine, and never Transition: for all  *)
(* contexts and whichever of the engines are enabled and reach their threshold. *)
THEOREM EnginesNeverContradict == Spec => []EnginesAgree
    <1>1. TypeInv => EnginesAgree
        <2> SUFFICES ASSUME TypeInv, NEW e \in Signalling, NEW f \in Signalling,
                            reading[e] # reading[f]
                     PROVE  {e, f} \in {{SQUEEZE, TREND}, {SQUEEZE, LIQUIDATION}}
            BY DEF EnginesAgree
        <2>1. e \in Engines /\ f \in Engines /\ reading[e] # FLAT /\ reading[f] # FLAT
            BY DEF Signalling
        <2>2. reading \in Readings
            BY <2>1 DEF TypeInv
        <2>3. PICK c \in Contexts : \A g \in Engines : reading[g] # FLAT => reading[g] = Direction(g, c)
            BY <2>2, OneContext
        <2>4. reading[e] = Direction(e, c) /\ reading[f] = Direction(f, c)
            BY <2>1, <2>3
        <2> USE DEF TREND, SQUEEZE, TRANSITION, LIQUIDATION
        <2>5. /\ e \in {TREND, SQUEEZE, TRANSITION, LIQUIDATION}
              /\ f \in {TREND, SQUEEZE, TRANSITION, LIQUIDATION}
            BY <2>1 DEF Engines
        <2>6. /\ Direction(TREND, c) = TrendDirection(c) /\ Direction(SQUEEZE, c) = SqueezeDirection(c)
              /\ Direction(TRANSITION, c) = TransitionDirection(c)
              /\ Direction(LIQUIDATION, c) = LiquidationDirection(c)
            BY DEF Direction
        <2>7. \/ {e, f} = {SQUEEZE, TREND} \/ {e, f} = {SQUEEZE, LIQUIDATION}
            BY <2>1, <2>4, <2>5, <2>6, DirectionsAgree
        <2> QED BY <2>7
    <1> QED BY Types, <1>1, PTL

(* A signal is lost behind one that is refused only in STRESS and behind Trend, *)
(* and then it is no long of the Liquidation engine.                            *)
THEOREM MaskingIsTrends == Spec => []OnlyTrendMasks
    <1>1. TypeInv => OnlyTrendMasks
        <2> SUFFICES ASSUME TypeInv, asking, ~Gate(First), NEW e \in Signalling, Gate(e)
                     PROVE  First = TREND /\ state = STRESS /\ reading[LIQUIDATION] # LONG
            BY DEF OnlyTrendMasks
        <2> USE DEF TREND, LIQUIDATION
        <2>1. First \in Signalling /\ First \in Engines /\ First <= e
            BY FirstOfTick
        <2>2. e \in Engines /\ reading[e] # FLAT /\ reading[First] # FLAT
            BY <2>1 DEF Signalling
        <2>3. First = TREND
            <3> SUFFICES ASSUME First # TREND PROVE FALSE
                OBVIOUS
            <3>1. e # TREND
                BY <2>1, <2>2 DEF Engines
            <3> QED BY <3>1 DEF Gate
        <2>4. state = STRESS
            BY <2>3 DEF Gate, MayOpen, MayOpenTrend
        <2>5. reading \in Readings
            BY <2>2 DEF TypeInv
        <2>6. PICK c \in Contexts : \A g \in Engines : reading[g] # FLAT => reading[g] = Direction(g, c)
            BY <2>5, OneContext
        <2>7. ASSUME reading[LIQUIDATION] = LONG PROVE FALSE
            <3>1. LIQUIDATION \in Engines /\ TREND \in Engines /\ LONG # FLAT
                BY DEF Engines, LONG, FLAT
            <3>2. /\ reading[LIQUIDATION] = Direction(LIQUIDATION, c)
                  /\ reading[TREND] = Direction(TREND, c)
                BY <2>2, <2>3, <2>6, <2>7, <3>1
            <3>3. /\ Direction(TREND, c) = TrendDirection(c)
                  /\ Direction(LIQUIDATION, c) = LiquidationDirection(c)
                BY DEF Direction, SQUEEZE, TRANSITION
            <3> QED BY <2>2, <2>3, <2>7, <3>2, <3>3, DirectionsAgree
        <2> QED BY <2>3, <2>4, <2>7
    <1> QED BY Types, <1>1, PTL

(* What the executor takes is no older than what it took before, however long   *)
(* that kept it busy: because the queue has one place.                          *)
THEOREM QueueNeverLags ==
    ASSUME OneSignal
    PROVE  Spec => NoBacklog
    <1>1. Init => QueueInv
        BY DEF Init, QueueInv
    <1>2. TypeInv /\ QueueInv /\ [Next]_vars => QueueInv'
        BY QueueStep
    <1>3. TypeInv /\ QueueInv /\ [Next]_vars
             => [Len(queue') < Len(queue) => Head(queue).tick >= since]_vars
        <2> SUFFICES ASSUME TypeInv, QueueInv, [Next]_vars, Len(queue') < Len(queue)
                     PROVE  Head(queue).tick >= since
            OBVIOUS
        <2>1. queue \in Seq(Entries) /\ Len(queue') < Len(queue)
            BY DEF TypeInv
        <2>2. queue # <<>>
            <3>1. CASE Hook
                <4>1. PICK x : queue' = queue \/ queue' = Append(queue, x)
                    BY <3>1 DEF Hook
                <4>2. Len(queue') = Len(queue) \/ Len(queue') = Len(queue) + 1
                    BY <2>1, <4>1
                <4> QED BY <2>1, <4>2
            <3>2. CASE ~Hook
                BY <2>1, <3>2 DEF Next, Evaluate, Take, Handled, ChangeState, vars
            <3> QED BY <3>1, <3>2
        <2>3. Head(queue) = queue[1] /\ 1 \in 1..Len(queue) /\ queue[1] \in Entries
            BY <2>1, <2>2
        <2> QED BY <2>3 DEF QueueInv, TypeInv, Entries
    <1> QED BY Types, <1>1, <1>2, <1>3, PTL DEF Spec, NoBacklog
================================================================================
