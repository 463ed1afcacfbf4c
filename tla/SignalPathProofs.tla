---------------------------- MODULE SignalPathProofs ---------------------------
(* The two bounds of SignalPath for any finite set of workers, any limits and   *)
(* any returns. The invariant weighs what is booked together with what is still *)
(* under way: the workers engaged are the losses yet to come.                   *)
EXTENDS SignalPath, FiniteSetTheorems, TLAPS

N == Cardinality(Workers)
E == Cardinality(Engaged)

(* On the day of the sum, even if every engaged worker loses the most, the      *)
(* bound is kept; a sum of another day no longer counts, but is within it too.  *)
LossInv ==
    /\ LossBounded
    /\ ~newDay => daily - E * MaxLoss > -DailyLimit - N * MaxLoss

(* Late losses are counted inside a cooldown only.                              *)
LateInv == LateLossesBounded /\ (~cooling => late = 0)

--------------------------------------------------------------------------------
(* The engine the hook hears is one of those that signal.                       *)
LEMMA FirstSignals ==
    ASSUME NEW S \in (SUBSET Engines) \ {{}}
    PROVE  (CHOOSE e \in S : \A f \in S : e <= f) \in TREND..LIQUIDATION
    <1> DEFINE first == CHOOSE e \in S : \A f \in S : e <= f
    <1>1. S \subseteq {1, 2, 3, 4} /\ S # {}
        <2>1. \A e \in S : e \in 1..4
            BY EnginesAssumption DEF TREND, LIQUIDATION
        <2> QED BY <2>1
    <1>2. \E e \in S : \A f \in S : e <= f
        <2>1. CASE 1 \in S
            BY <1>1, <2>1
        <2>2. CASE 1 \notin S /\ 2 \in S
            BY <1>1, <2>2
        <2>3. CASE 1 \notin S /\ 2 \notin S /\ 3 \in S
            BY <1>1, <2>3
        <2>4. CASE S = {4}
            BY <2>4
        <2> QED BY <1>1, <2>1, <2>2, <2>3, <2>4
    <1>3. first \in S
        BY <1>2
    <1> HIDE DEF first
    <1>4. first \in 1..4
        BY <1>1, <1>3
    <1> QED BY <1>4 DEF first, TREND, LIQUIDATION

(* Multiplication is monotone, one factor more is one term more.                *)
LEMMA Times ==
    ASSUME NEW m \in Nat
    PROVE  /\ \A a, b \in Nat : a <= b => a * m <= b * m
           /\ \A a \in Nat : a * m \in Nat /\ (a + 1) * m = a * m + m
           /\ \A a \in Nat \ {0} : (a - 1) * m = a * m - m
    <1>1. \A a \in Nat : a * m \in Nat /\ (a + 1) * m = a * m + m
        OBVIOUS
    <1>2. \A a \in Nat \ {0} : (a - 1) * m = a * m - m
        OBVIOUS
    <1>3. ASSUME NEW a \in Nat, NEW b \in Nat, a <= b PROVE a * m <= b * m
        <2>1. b - a \in Nat /\ (b - a) * m \in Nat
            BY <1>1, <1>3
        <2>2. b * m = a * m + (b - a) * m
            OBVIOUS
        <2> QED BY <1>1, <2>1, <2>2
    <1> QED BY <1>1, <1>2, <1>3

(* The loss of one worker more outweighs its return.                            *)
LEMMA Weigh ==
    ASSUME NEW a \in Nat, NEW b \in Nat, NEW m \in Nat, NEW r \in Int,
           \/ r >= -m /\ a < b
           \/ r >= 0 /\ a <= b
    PROVE  r - a * m >= -(b * m)
    <1>1. a * m \in Nat /\ b * m \in Nat /\ (a + 1) * m = a * m + m
        BY Times
    <1>2. CASE r >= -m /\ a < b
        <2>1. a + 1 \in Nat /\ a + 1 <= b
            BY <1>2
        <2>2. (a + 1) * m <= b * m
            BY <2>1, Times
        <2> QED BY <1>1, <1>2, <2>2
    <1>3. CASE r >= 0 /\ a <= b
        <2>1. a * m <= b * m
            BY <1>3, Times
        <2> QED BY <1>1, <1>3, <2>1
    <1> QED BY <1>2, <1>3

(* A booking keeps the types of the limits and of the history.                  *)
LEMMA BookingTypes ==
    ASSUME GuardTypeOK, late \in Nat, NEW pnl \in Int, RecordTrade(pnl), CountLate(pnl)
    PROVE  GuardTypeOK' /\ late' \in Nat
    <1>1. daily' \in Int /\ streak' \in Nat /\ late' \in Nat
        BY DEF RecordTrade, CountLate, GuardTypeOK
    <1>2. newDay' \in BOOLEAN /\ cooling' \in BOOLEAN
        BY DEF RecordTrade, GuardTypeOK
    <1> QED BY <1>1, <1>2 DEF GuardTypeOK

(* Every step keeps the types.                                                  *)
LEMMA TypeStep ==
    ASSUME TypeOK, [Next]_vars
    PROVE  TypeOK'
    <1> USE DEF TypeOK, GuardTypeOK, guardVars, lockVars, signalVars
    <1>1. ASSUME NEW w \in Workers, NEW S \in (SUBSET Engines) \ {{}}, Evaluate(w, S)
          PROVE  TypeOK'
        <2> DEFINE first == CHOOSE e \in S : \A f \in S : e <= f
        <2>1. first \in TREND..LIQUIDATION
            BY FirstSignals
        <2>2. queue' = [queue EXCEPT ![w] = first]
            BY <1>1 DEF Evaluate
        <2> HIDE DEF first
        <2>3. queue' \in [Workers -> 0..LIQUIDATION]
            BY <2>1, <2>2 DEF TREND, LIQUIDATION
        <2> QED BY <1>1, <2>3 DEF Evaluate
    <1>2. ASSUME NEW w \in Workers, Take(w) PROVE TypeOK'
        BY <1>2 DEF Take, LIQUIDATION
    <1>3. ASSUME NEW w \in Workers, Admit(w) PROVE TypeOK'
        BY <1>3, ReturnsAssumption DEF Admit, BeginOpen, Openable
    <1>4. ASSUME NEW w \in Workers, Reject(w) PROVE TypeOK'
        BY <1>4 DEF Reject, LIQUIDATION
    <1>5. ASSUME NEW w \in Workers, OpenDone(w) PROVE TypeOK'
        BY <1>5 DEF OpenDone, OpenEnds, LIQUIDATION
    <1>6. ASSUME NEW w \in Workers, Unbooked(w) PROVE TypeOK'
        BY <1>6
        DEF Unbooked, BeginClose, CloseFails, FindCaseA, ResetCaseA, Escalate
    <1>7. ASSUME NEW w \in Workers, NEW pnl \in Returns, CloseDone(w, pnl)
          PROVE  TypeOK'
        <2>1. GuardTypeOK' /\ late' \in Nat
            BY <1>7, ReturnsAssumption, BookingTypes DEF CloseDone
        <2> QED BY <1>7, <2>1 DEF CloseDone, CloseSucceeds
    <1>8. ASSUME NEW w \in Workers, RecordReconcileClose(w) PROVE TypeOK'
        <2>1. GuardTypeOK' /\ late' \in Nat
            BY <1>8, BookingTypes DEF RecordReconcileClose
        <2> QED BY <1>8, <2>1 DEF RecordReconcileClose, RecordCaseA
    <1>9. CASE Clock
        <2>1. GuardTypeOK' /\ late' \in Nat
            <3>1. daily' \in Int /\ streak' \in Nat /\ late' \in Nat
                BY <1>9 DEF Clock, Midnight, CooldownOver
            <3>2. newDay' \in BOOLEAN /\ cooling' \in BOOLEAN
                BY <1>9 DEF Clock, Midnight, CooldownOver
            <3> QED BY <3>1, <3>2
        <2> QED BY <1>9, <2>1 DEF Clock
    <1>10. CASE UNCHANGED vars
        BY <1>10 DEF vars
    <1> QED BY <1>1, <1>2, <1>3, <1>4, <1>5, <1>6, <1>7, <1>8, <1>9, <1>10
        DEF Next, WorkerNext

(* The engaged workers are some of the workers.                                 *)
LEMMA EngagedCount ==
    /\ IsFiniteSet(Engaged) /\ E \in Nat /\ N \in Nat /\ E <= N
    /\ IsFiniteSet(Engaged') /\ E' \in Nat /\ E' <= N
    <1>1. Engaged \in SUBSET Workers /\ Engaged' \in SUBSET Workers
        BY DEF Engaged
    <1> QED BY <1>1, WorkersAssumption, FS_Subset, FS_CardinalityType DEF E, N

(* Fewer engaged workers count less, one more worker counts one more at most.   *)
LEMMA EngagedChange ==
    /\ Engaged' \subseteq Engaged => E' <= E
    /\ \A w : w \in Engaged /\ Engaged' \subseteq Engaged \ {w} => E' < E
    <1>1. ASSUME Engaged' \subseteq Engaged PROVE E' <= E
        BY <1>1, EngagedCount, FS_Subset DEF E
    <1>2. ASSUME NEW w, w \in Engaged, Engaged' \subseteq Engaged \ {w} PROVE E' < E
        <2>1. IsFiniteSet(Engaged \ {w}) /\ Cardinality(Engaged \ {w}) = E - 1
            BY <1>2, EngagedCount, FS_RemoveElement DEF E
        <2>2. E' <= E - 1
            BY <1>2, <2>1, FS_Subset DEF E
        <2> QED BY <2>2, EngagedCount
    <1> QED BY <1>1, <1>2

(* What a step does to the engaged workers and to the guardrails: nothing new   *)
(* begins, or one opening does while trading is allowed, or one return at least *)
(* -MaxLoss is booked by a worker no longer engaged, or zero is, or time passes.*)
LEMMA Effects ==
    ASSUME TypeOK, [Next]_vars
    PROVE  \/ UNCHANGED <<guardVars, late>> /\ Engaged' \subseteq Engaged
           \/ UNCHANGED <<guardVars, late>> /\ CanTrade
           \/ \E pnl \in Returns, w \in Engaged :
                 RecordTrade(pnl) /\ CountLate(pnl) /\ Engaged' \subseteq Engaged \ {w}
           \/ RecordTrade(0) /\ CountLate(0) /\ Engaged' \subseteq Engaged
           \/ Midnight /\ UNCHANGED late /\ Engaged' \subseteq Engaged
           \/ CooldownOver /\ late' = 0 /\ Engaged' \subseteq Engaged
    <1> USE DEF lockVars, Engaged
    <1>1. ASSUME NEW w \in Workers, NEW S \in (SUBSET Engines) \ {{}}, Evaluate(w, S)
          PROVE  UNCHANGED <<guardVars, late>> /\ Engaged' \subseteq Engaged
        BY <1>1 DEF Evaluate
    <1>2. ASSUME NEW w \in Workers, Take(w) \/ Reject(w)
          PROVE  UNCHANGED <<guardVars, late>> /\ Engaged' \subseteq Engaged
        BY <1>2 DEF Take, Reject
    <1>3. ASSUME NEW w \in Workers, Admit(w)
          PROVE  UNCHANGED <<guardVars, late>> /\ CanTrade
        BY <1>3 DEF Admit, TryOpenChecks
    <1>4. ASSUME NEW w \in Workers, OpenDone(w)
          PROVE  UNCHANGED <<guardVars, late>> /\ Engaged' \subseteq Engaged
        BY <1>4 DEF OpenDone, OpenEnds, TypeOK
    <1>5. ASSUME NEW w \in Workers, Unbooked(w)
          PROVE  UNCHANGED <<guardVars, late>> /\ Engaged' \subseteq Engaged
        BY <1>5 DEF Unbooked, BeginClose, CloseFails, FindCaseA, ResetCaseA, Escalate, TypeOK
    <1>6. ASSUME NEW w \in Workers, NEW pnl \in Returns, CloseDone(w, pnl)
          PROVE  /\ w \in Engaged /\ Engaged' \subseteq Engaged \ {w}
                 /\ RecordTrade(pnl) /\ CountLate(pnl)
        BY <1>6 DEF CloseDone, CloseSucceeds, TypeOK
    <1>7. ASSUME NEW w \in Workers, RecordReconcileClose(w)
          PROVE  RecordTrade(0) /\ CountLate(0) /\ Engaged' \subseteq Engaged
        BY <1>7 DEF RecordReconcileClose, RecordCaseA
    <1>8. ASSUME Clock
          PROVE  /\ Engaged' \subseteq Engaged
                 /\ (Midnight /\ UNCHANGED late) \/ (CooldownOver /\ late' = 0)
        BY <1>8 DEF Clock
    <1>9. CASE UNCHANGED vars
        BY <1>9 DEF vars
    <1> QED BY <1>1, <1>2, <1>3, <1>4, <1>5, <1>6, <1>7, <1>8, <1>9
        DEF Next, WorkerNext

(* A booking keeps the bound when the loss it books is that of a worker no      *)
(* longer engaged, or nothing.                                                  *)
LEMMA BookedLoss ==
    ASSUME TypeOK, LossInv, NEW pnl \in Int, RecordTrade(pnl),
           \/ pnl >= -MaxLoss /\ E' < E
           \/ pnl >= 0 /\ E' <= E
    PROVE  LossInv'
    <1> DEFINE m == MaxLoss
    <1>1. m \in Nat /\ DailyLimit \in Nat \ {0} /\ daily \in Int
        BY ReturnsAssumption, LimitAssumption DEF TypeOK, GuardTypeOK
    <1>2. E \in Nat /\ E' \in Nat /\ N \in Nat /\ E <= N
        BY EngagedCount
    <1>3. E * m \in Nat /\ E' * m \in Nat /\ N * m \in Nat /\ E * m <= N * m
        BY <1>1, <1>2, Times
    <1>4. pnl - E' * m >= -(E * m)
        BY <1>1, <1>2, Weigh
    <1>5. daily' = (IF newDay THEN 0 ELSE daily) + pnl /\ newDay' = FALSE
        BY DEF RecordTrade
    <1>6. daily' - E' * m > -DailyLimit - N * m
        <2>1. CASE newDay
            BY <1>1, <1>3, <1>4, <1>5, <2>1
        <2>2. CASE ~newDay
            BY <1>1, <1>3, <1>4, <1>5, <2>2 DEF LossInv
        <2> QED BY <2>1, <2>2 DEF TypeOK, GuardTypeOK
    <1>7. daily' \in Int
        BY <1>1, <1>5 DEF TypeOK, GuardTypeOK
    <1> QED BY <1>1, <1>3, <1>6, <1>7 DEF LossInv, LossBounded, N

(* Every step keeps the bound on the day's loss.                                *)
LEMMA LossStep ==
    ASSUME TypeOK, LossInv, [Next]_vars
    PROVE  LossInv'
    <1> DEFINE m == MaxLoss
    <1>1. m \in Nat /\ DailyLimit \in Nat \ {0} /\ daily \in Int
        BY ReturnsAssumption, LimitAssumption DEF TypeOK, GuardTypeOK
    <1>2. E \in Nat /\ E' \in Nat /\ N \in Nat /\ E' <= N
        BY EngagedCount
    <1>3. E * m \in Nat /\ E' * m \in Nat /\ N * m \in Nat /\ E' * m <= N * m
        BY <1>1, <1>2, Times
    <1>4. Engaged' \subseteq Engaged => E' * m <= E * m
        BY <1>1, <1>2, EngagedChange, Times
    <1>5. ASSUME UNCHANGED guardVars, Engaged' \subseteq Engaged PROVE LossInv'
        BY <1>1, <1>3, <1>4, <1>5 DEF guardVars, LossInv, LossBounded, N
    <1>6. ASSUME UNCHANGED guardVars, CanTrade PROVE LossInv'
        BY <1>1, <1>3, <1>6 DEF guardVars, CanTrade, LossInv, LossBounded, N
    <1>7. ASSUME NEW pnl \in Returns, NEW w \in Engaged, RecordTrade(pnl),
                 Engaged' \subseteq Engaged \ {w}
          PROVE  LossInv'
        <2>1. E' < E /\ pnl \in Int /\ pnl >= -MaxLoss
            BY <1>7, EngagedChange, ReturnsAssumption, LossAssumption
        <2> QED BY <1>7, <2>1, BookedLoss
    <1>8. ASSUME RecordTrade(0), Engaged' \subseteq Engaged PROVE LossInv'
        BY <1>8, EngagedChange, BookedLoss
    <1>9. ASSUME Midnight PROVE LossInv'
        BY <1>9 DEF Midnight, LossInv, LossBounded
    <1>10. ASSUME CooldownOver, Engaged' \subseteq Engaged PROVE LossInv'
        BY <1>1, <1>3, <1>4, <1>10 DEF CooldownOver, LossInv, LossBounded, N
    <1> QED BY Effects, <1>5, <1>6, <1>7, <1>8, <1>9, <1>10

(* Every step keeps the bound on the late losses.                               *)
LEMMA LateStep ==
    ASSUME TypeOK, LateInv, [Next]_vars
    PROVE  LateInv'
    <1>1. late \in Nat /\ cooling \in BOOLEAN
        BY DEF TypeOK, GuardTypeOK
    <1>2. E \in Nat /\ E' \in Nat /\ N \in Nat /\ E <= N
        BY EngagedCount
    <1>3. ASSUME UNCHANGED <<guardVars, late>>, Engaged' \subseteq Engaged PROVE LateInv'
        BY <1>1, <1>2, <1>3, EngagedChange DEF guardVars, LateInv, LateLossesBounded, E, N
    <1>4. ASSUME UNCHANGED <<guardVars, late>>, CanTrade PROVE LateInv'
        BY <1>4 DEF guardVars, CanTrade, LateInv, LateLossesBounded
    <1>5. ASSUME NEW pnl \in Returns, NEW w \in Engaged, RecordTrade(pnl), CountLate(pnl),
                 Engaged' \subseteq Engaged \ {w}
          PROVE  LateInv'
        <2>1. E' < E /\ pnl \in Int
            BY <1>5, EngagedChange, ReturnsAssumption
        <2>2. CASE cooling
            <3>1. late + E < N /\ late' \in Nat /\ late' <= late + 1
                BY <1>1, <1>5, <2>2
                DEF CountLate, LateInv, LateLossesBounded, E, N
            <3>2. \A i, j, k, l, n \in Nat : i + j < n /\ k <= i + 1 /\ l < j => k + l < n
                OBVIOUS
            <3>3. late' + E' < N
                BY <1>1, <1>2, <2>1, <3>1, <3>2
            <3>4. cooling'
                BY <1>5, <2>2 DEF RecordTrade
            <3> QED BY <3>3, <3>4 DEF LateInv, LateLossesBounded, E, N
        <2>3. CASE ~cooling
            BY <1>1, <1>2, <1>5, <2>1, <2>3
            DEF RecordTrade, CountLate, LateInv, LateLossesBounded, E, N
        <2> QED BY <2>2, <2>3
    <1>6. ASSUME RecordTrade(0), CountLate(0), Engaged' \subseteq Engaged PROVE LateInv'
        BY <1>1, <1>2, <1>6, EngagedChange
        DEF RecordTrade, CountLate, LateInv, LateLossesBounded, E, N
    <1>7. ASSUME Midnight, UNCHANGED late, Engaged' \subseteq Engaged PROVE LateInv'
        BY <1>1, <1>2, <1>7, EngagedChange
        DEF Midnight, LateInv, LateLossesBounded, E, N
    <1>8. ASSUME CooldownOver, late' = 0 PROVE LateInv'
        BY <1>8 DEF CooldownOver, LateInv, LateLossesBounded
    <1> QED BY Effects, <1>3, <1>4, <1>5, <1>6, <1>7, <1>8

--------------------------------------------------------------------------------
(* The initial state satisfies the types and both invariants.                   *)
LEMMA InitInv == Init => TypeOK /\ LossInv /\ LateInv
    <1> SUFFICES ASSUME Init PROVE TypeOK /\ LossInv /\ LateInv
        OBVIOUS
    <1>1. TypeOK
        <2>1. daily \in Int /\ streak \in Nat
            BY DEF Init, GuardInit
        <2>2. newDay \in BOOLEAN /\ cooling \in BOOLEAN
            BY DEF Init, GuardInit
        <2>3. GuardTypeOK
            BY <2>1, <2>2 DEF GuardTypeOK
        <2> QED BY <2>3, ReturnsAssumption
                DEF Init, LockInit, TypeOK, States, NOISE, FAILURE, LIQUIDATION
    <1>2. Engaged = {}
        BY DEF Init, LockInit, Engaged
    <1>3. E = 0 /\ N \in Nat
        BY <1>2, FS_EmptySet, EngagedCount DEF E
    <1>4. MaxLoss \in Nat /\ N * MaxLoss \in Nat /\ E * MaxLoss = 0
        BY <1>3, ReturnsAssumption, Times
    <1>5. LossInv
        BY <1>4, LimitAssumption DEF Init, GuardInit, LossInv, LossBounded, N
    <1>6. LateInv
        BY DEF Init, GuardInit, LateInv, LateLossesBounded
    <1> QED BY <1>1, <1>5, <1>6

(* Types, and no opening is under way while the position is open.               *)
THEOREM SignalPathTypes == Spec => []TypeOK
    <1>1. Init => TypeOK
        BY InitInv
    <1>2. TypeOK /\ [Next]_vars => TypeOK'
        BY TypeStep
    <1> QED BY <1>1, <1>2, PTL DEF Spec

(* The day's loss overshoots the limit by at most one trade per worker.         *)
THEOREM DailyLossIsBounded == Spec => []LossBounded
    <1>1. Init => LossInv
        BY InitInv
    <1>2. TypeOK /\ LossInv /\ [Next]_vars => LossInv'
        BY LossStep
    <1>3. LossInv => LossBounded
        BY DEF LossInv
    <1> QED BY <1>1, <1>2, <1>3, SignalPathTypes, PTL DEF Spec

(* Inside a cooldown each worker but the one that caused it loses once at most. *)
THEOREM LateLossesAreBounded == Spec => []LateLossesBounded
    <1>1. Init => LateInv
        BY InitInv
    <1>2. TypeOK /\ LateInv /\ [Next]_vars => LateInv'
        BY LateStep
    <1>3. LateInv => LateLossesBounded
        BY DEF LateInv
    <1> QED BY <1>1, <1>2, <1>3, SignalPathTypes, PTL DEF Spec
================================================================================
