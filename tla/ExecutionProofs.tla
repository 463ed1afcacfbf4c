---------------------------- MODULE ExecutionProofs ----------------------------
(* Safety of Execution for every quantity and step, any number of retries,      *)
(* faults and openings, with or without reconciliation and cooldown.            *)
(* The inductive invariant is TypeOK with Registers, what the program counters  *)
(* say of the other variables; LockInv is inductive beside it. On them rest the *)
(* action properties, Protected with GuardInv, and the refinements: TradeLock,  *)
(* StateMachine between restarts, and TradeCycle, with DefiniteInv, where the   *)
(* environment is as Definite says.                                             *)
EXTENDS MCExecution, TLAPS

--------------------------------------------------------------------------------
(* The state machine by itself, for every capacity of the channel, every window *)
(* and with or without recoveries. The theorems are about its safety part, which*)
(* is all that a worker owes it.                                                *)
MachineSafety == SMInit /\ [][SMNext]_smVars

USE DEF States, NOISE, STABLE, STRESS, DEGRADATION, FAILURE

(* A request leaves a well-typed channel well typed and within its capacity.    *)
LEMMA RequestTypes ==
    ASSUME SMTypeOK, NEW target \in Targets, RequestTransition(target)
    PROVE  /\ requests' \in Seq(Targets)
           /\ Len(requests') <= ReqCap
           /\ dropped' \in BOOLEAN
    <1>1. CASE Len(requests) < ReqCap
        BY <1>1, ReqCapAssumption DEF SMTypeOK, RequestTransition
    <1>2. CASE ~(Len(requests) < ReqCap)
        BY <1>2 DEF SMTypeOK, RequestTransition
    <1> QED BY <1>1, <1>2

(* Taking a request off the channel keeps the types: its target was well typed. *)
LEMMA ApplyTypes ==
    ASSUME SMTypeOK, ApplyRequest
    PROVE  SMTypeOK'
    <1>1. /\ requests' = Tail(requests) /\ requests # <<>>
          /\ requests \in Seq(Targets)
          BY DEF ApplyRequest, SMTypeOK
    <1>2. Head(requests) \in Targets /\ Tail(requests) \in Seq(Targets)
          /\ Len(Tail(requests)) = Len(requests) - 1
          BY <1>1
    <1>3. requests' \in Seq(Targets) /\ Len(requests') <= ReqCap
          BY <1>1, <1>2, ReqCapAssumption DEF SMTypeOK
    <1>4. current' \in States /\ entered' \in 0..Window
          BY <1>2, WindowAssumption
          DEF ApplyRequest, SMTypeOK, Transition, Targets
    <1> QED BY <1>3, <1>4 DEF ApplyRequest, SMTypeOK

(* A tick keeps the types: ages saturate at the window.                         *)
LEMMA TickTypes ==
    ASSUME SMTypeOK, Tick
    PROVE  SMTypeOK'
    BY WindowAssumption DEF SMTypeOK, Tick, Transition, Older

(* The initial state of the machine is well typed.                              *)
LEMMA InitialTypes ==
    ASSUME SMInit
    PROVE  SMTypeOK
    <1>1. <<>> \in Seq(Targets) /\ Len(<<>>) = 0
        OBVIOUS
    <1>2. current \in States /\ entered \in 0..Window /\ noiseSince \in 0..Window
        BY WindowAssumption DEF SMInit
    <1>3. requests \in Seq(Targets) /\ Len(requests) <= ReqCap
        BY <1>1, ReqCapAssumption DEF SMInit
    <1>4. dropped \in BOOLEAN
        BY DEF SMInit
    <1> QED BY <1>2, <1>3, <1>4 DEF SMTypeOK

(* The machine with its fairness is a machine.                                  *)
LEMMA SafetyOfMachine == SMSpec => MachineSafety
    BY PTL DEF SMSpec, MachineSafety

(* The state, the ages and the channel keep their types and bounds.             *)
LEMMA MachineTypes == MachineSafety => []SMTypeOK
    <1>1. SMInit => SMTypeOK
        BY InitialTypes
    <1>2. SMTypeOK /\ [SMNext]_smVars => SMTypeOK'
        <2> SUFFICES ASSUME SMTypeOK, [SMNext]_smVars PROVE SMTypeOK'
            OBVIOUS
        <2>1. ASSUME NEW target \in Targets, Request(target) PROVE SMTypeOK'
            BY <2>1, RequestTypes DEF Request, SMTypeOK
        <2>2. CASE ApplyRequest
            BY <2>2, ApplyTypes
        <2>3. CASE Tick
            BY <2>3, TickTypes
        <2>4. ASSUME NEW target \in States, RecoverTo(target) PROVE SMTypeOK'
            BY <2>4, WindowAssumption DEF RecoverTo, Transition, SMTypeOK
        <2>5. CASE UNCHANGED smVars
            BY <2>5 DEF smVars, SMTypeOK
        <2> QED BY <2>1, <2>2, <2>3, <2>4, <2>5 DEF SMNext, OwnNext
    <1> QED BY <1>1, <1>2, PTL DEF MachineSafety

(* The same of the machine with its fairness.                                   *)
THEOREM StateMachineTypes == SMSpec => []SMTypeOK
    BY SafetyOfMachine, MachineTypes, PTL

(* No request, tick or recovery leaves FAILURE.                                 *)
THEOREM FailureIsSticky == MachineSafety => FailureSticky
    <1>1. [SMNext]_smVars => [current = FAILURE => current' = FAILURE]_smVars
        BY DEF SMNext, OwnNext, smVars, Request, ApplyRequest, Tick, RecoverTo, Transition
    <1> QED BY <1>1, PTL DEF MachineSafety, FailureSticky

(* Without an operator the severity never falls: a request leaves it alone, an  *)
(* applied request and a tick can only raise it.                                *)
LEMMA OwnStepsRaise == SMTypeOK /\ OwnNext => current' >= current
    <1> SUFFICES ASSUME SMTypeOK, OwnNext PROVE current' >= current
        OBVIOUS
    <1>1. current >= current BY DEF SMTypeOK
    <1>2. ASSUME NEW target \in Targets, Request(target) PROVE current' >= current
        BY <1>1, <1>2 DEF Request
    <1>3. CASE ApplyRequest
        <2>1. Head(requests) \in Targets
            BY <1>3 DEF ApplyRequest, SMTypeOK
        <2> QED BY <1>1, <1>3, <2>1 DEF ApplyRequest, Transition, SMTypeOK, Targets
    <1>4. CASE Tick
        BY <1>1, <1>4 DEF Tick, Transition, SMTypeOK
    <1> QED BY <1>2, <1>3, <1>4 DEF OwnNext

(* Of all steps only RecoverTo lowers the severity, and never out of FAILURE.   *)
THEOREM SeverityFallsByRecovery == MachineSafety => OnlyRecoveryLowers
    <1>1. SMTypeOK /\ [SMNext]_smVars
             => [ /\ OwnNext => current' >= current
                  /\ current = FAILURE => current' = FAILURE ]_smVars
        BY OwnStepsRaise
           DEF SMNext, smVars, OwnNext, Request, ApplyRequest, Tick, RecoverTo, Transition
    <1> QED BY <1>1, MachineTypes, PTL DEF MachineSafety, OnlyRecoveryLowers

(* An accepted request leaves the channel only when the state it asked for is   *)
(* reached: what Head is dropped by Tail has just been honoured.                *)
THEOREM AcceptedRequestsAreKept == MachineSafety => AcceptedKept
    <1>1. SMTypeOK /\ [SMNext]_smVars
             => [\A t \in Pending : t \in Pending' \/ current' >= t]_smVars
        <2> SUFFICES ASSUME SMTypeOK, [SMNext]_smVars, NEW t \in Pending
                     PROVE  t \in Pending' \/ current' >= t
            OBVIOUS
        <2>1. PICK i \in DOMAIN requests : requests[i] = t
            BY DEF Pending
        <2>2. requests \in Seq(Targets) /\ i \in 1..Len(requests) /\ t \in Targets
            BY <2>1 DEF SMTypeOK
        <2>3. CASE UNCHANGED requests
            BY <2>3 DEF Pending
        <2>4. ASSUME NEW target \in Targets, Request(target)
              PROVE  t \in Pending'
            <3>1. CASE requests' = Append(requests, target)
                <4>1. i \in DOMAIN requests' /\ requests'[i] = t
                    BY <2>1, <2>2, <3>1
                <4> QED BY <4>1 DEF Pending
            <3>2. CASE requests' = requests
                BY <3>2 DEF Pending
            <3> QED BY <2>4, <3>1, <3>2 DEF Request, RequestTransition
        <2>5. CASE ApplyRequest
            <3>1. requests' = Tail(requests) /\ requests # <<>>
                BY <2>5 DEF ApplyRequest
            <3>2. CASE i = 1
                <4>1. Head(requests) = t BY <2>1, <2>2, <3>2
                <4> QED BY <2>2, <2>5, <4>1
                        DEF ApplyRequest, Transition, SMTypeOK, Targets
            <3>3. CASE i # 1
                <4>1. i - 1 \in DOMAIN requests' /\ requests'[i - 1] = t
                    BY <2>1, <2>2, <3>1, <3>3
                <4> QED BY <4>1 DEF Pending
            <3> QED BY <3>2, <3>3
        <2> QED BY <2>3, <2>4, <2>5 DEF SMNext, OwnNext, Tick, RecoverTo, smVars
    <1> QED BY <1>1, MachineTypes, PTL DEF MachineSafety, AcceptedKept

HIDE DEF States, NOISE, STABLE, STRESS, DEGRADATION, FAILURE

--------------------------------------------------------------------------------
(* The worker.                                                                  *)

(* An attempt is counted only while closing and below the limit when one is     *)
(* sent; exec knows a direction while it handles a signal, has counted the open *)
(* order once it is sent, and finds the position flat until it opens it.        *)
Registers ==
    /\ \A p \in Procs :
          /\ pc[p] \notin {"closeSend", "closeReply"} => attempt[p] = 0
          /\ pc[p] = "closeSend" => attempt[p] < MaxOrderRetry
    /\ pc["exec"] = "openSend" => opens < MaxOpens
    /\ pc["exec"] \in Opening \ {"openSend"} => opens # 0
    /\ pc["exec"] \in {"openSend", "openReply"} => pos.amt = 0
    /\ pc["exec"] \in Opening \cup {"revWait", "openWait"} => sig # 0

IInv == TypeOK /\ Registers

--------------------------------------------------------------------------------
(* Arithmetic of the order quantities.                                          *)

(* Rounding down to the step yields a quantity.                                 *)
LEMMA QuantizeNat ==
    ASSUME NEW q \in Nat PROVE QuantizeQty(q) \in Nat
    <1>1. q \div StepSize \in Nat
        BY QtyAssumption
    <1>2. \A k, n \in Nat : k * n \in Nat
        OBVIOUS
    <1> QED BY <1>1, <1>2, QtyAssumption DEF QuantizeQty

(* A reduce-only order leaves the position as it is, or closes it, or leaves a  *)
(* smaller one on the same side.                                                *)
LEMMA ReducedFacts ==
    ASSUME exAmt \in Int, NEW d \in {-1, 0, 1}, NEW q \in Nat
    PROVE  /\ Reduced(d, q) \in Int
           /\ \/ Reduced(d, q) \in {exAmt, 0}
              \/ Sign(Reduced(d, q)) = Sign(exAmt) /\ Abs(Reduced(d, q)) < Abs(exAmt)
    BY DEF Reduced, Sign, Abs, Least

(* Counting one up keeps a function into the naturals.                          *)
LEMMA CountUp ==
    ASSUME NEW S, NEW f \in [S -> Nat], NEW g
    PROVE  [f EXCEPT ![g] = @ + 1] \in [S -> Nat]
    <1>1. CASE g \in S
        <2>1. f[g] + 1 \in Nat BY <1>1
        <2> QED BY <1>1, <2>1
    <1>2. CASE g \notin S
        BY <1>2
    <1> QED BY <1>1, <1>2

(* An integer is its sign times its magnitude.                                  *)
LEMMA SignAbs ==
    ASSUME NEW n \in Int PROVE Sign(n) \in {-1, 0, 1} /\ Abs(n) \in Nat
    BY DEF Sign, Abs

(* The worker's requests and the state machine's own steps keep its types.      *)
LEMMA StateMachineStep ==
    ASSUME IInv, [Next]_vars
    PROVE  SMTypeOK'
    <1> USE DEF IInv, TypeOK
    <1>1. ASSUME NEW p \in Procs, CloseFinish(p) PROVE SMTypeOK'
        <2>1. RequestTransition(FAILURE) \/ UNCHANGED <<requests, dropped>>
            BY <1>1 DEF CloseFinish, smVars
        <2>2. UNCHANGED <<current, entered, noiseSince>>
            BY <1>1 DEF CloseFinish, smVars
        <2>3. FAILURE \in Targets BY DEF Targets
        <2> QED BY <2>1, <2>2, <2>3, RequestTypes DEF SMTypeOK
    <1>2. ASSUME PositionRisk PROVE SMTypeOK'
        <2>1. RequestTransition(FAILURE) \/ UNCHANGED <<requests, dropped>>
            BY <1>2 DEF PositionRisk, smVars
        <2>2. UNCHANGED <<current, entered, noiseSince>>
            BY <1>2 DEF PositionRisk, smVars
        <2>3. FAILURE \in Targets BY DEF Targets
        <2> QED BY <2>1, <2>2, <2>3, RequestTypes DEF SMTypeOK
    <1>3. ASSUME Compare PROVE SMTypeOK'
        <2>1. RequestTransition(FAILURE) \/ UNCHANGED <<requests, dropped>>
            BY <1>3 DEF Compare, smVars
        <2>2. UNCHANGED <<current, entered, noiseSince>>
            BY <1>3 DEF Compare, smVars
        <2>3. FAILURE \in Targets BY DEF Targets
        <2> QED BY <2>1, <2>2, <2>3, RequestTypes DEF SMTypeOK
    <1>4. ASSUME CaseARecord PROVE SMTypeOK'
        <2>1. RequestTransition(STRESS) \/ UNCHANGED <<requests, dropped>>
            BY <1>4 DEF CaseARecord
        <2>2. UNCHANGED <<current, entered, noiseSince>>
            BY <1>4 DEF CaseARecord
        <2>3. STRESS \in Targets BY DEF Targets
        <2> QED BY <2>1, <2>2, <2>3, RequestTypes DEF SMTypeOK
    <1>5. ASSUME CaseBFinish PROVE SMTypeOK'
        <2>1. RequestTransition(DEGRADATION) \/ UNCHANGED <<requests, dropped>>
            BY <1>5 DEF CaseBFinish
        <2>2. UNCHANGED <<current, entered, noiseSince>>
            BY <1>5 DEF CaseBFinish
        <2>3. DEGRADATION \in Targets BY DEF Targets
        <2> QED BY <2>1, <2>2, <2>3, RequestTypes DEF SMTypeOK
    <1>6. ASSUME StateMachineRun PROVE SMTypeOK'
        BY <1>6, ApplyTypes, TickTypes DEF StateMachineRun
    <1>7. CASE UNCHANGED <<smVars>>
        BY <1>7 DEF smVars, SMTypeOK
    <1>8. ASSUME Restart PROVE SMTypeOK'
        <2>1. <<>> \in Seq(Targets) /\ Len(<<>>) = 0
            OBVIOUS
        <2>2. current' \in States /\ entered' \in 0..Window /\ noiseSince' \in 0..Window
            BY <1>8, WindowAssumption DEF Restart, States, NOISE, FAILURE
        <2>3. requests' = <<>> /\ dropped' = FALSE
            BY <1>8 DEF Restart
        <2>4. requests' \in Seq(Targets) /\ Len(requests') <= ReqCap
            BY <2>1, <2>3, ReqCapAssumption
        <2> QED BY <2>2, <2>3, <2>4 DEF SMTypeOK
    <1> QED BY <1>1, <1>2, <1>3, <1>4, <1>5, <1>6, <1>7, <1>8
        DEF Next, ExecNext, CloseNext, ReconNext, Signal, TryReversal, BeginClose,
            TryOpenAccept, TryOpenReject, OpenMarket, OpenReply, PlaceStopLoss,
            PlaceGuard, PlaceTakeProfit, GuardReply, ExitOnMarket, MonWait,
            ExitOnState, CheckAndExit, CancelSL, CancelTP, CloseSend, CloseRetry,
            CaseAClose, GuardTriggers, CooldownEnds, vars,
            localVars, procVars, reconVars, exVars, vars, smVars

(* Only exec opens, with the number of the open order it has just sent.         *)
LEMMA LocalStep ==
    ASSUME IInv, [Next]_vars
    PROVE  LocalTypes'
    <1> USE DEF IInv, TypeOK
    <1>1. ASSUME TryReversal PROVE LocalTypes'
        BY <1>1 DEF TryReversal, BeginClose, localVars, LocalTypes, Handlers
    <1>2. ASSUME TryOpenAccept PROVE LocalTypes'
        BY <1>2 DEF TryOpenAccept, localVars, LocalTypes, Handlers
    <1>3. ASSUME OpenReply PROVE LocalTypes'
        <2>1. sig * Qty \in Int
            BY QtyAssumption DEF ProcTypes
        <2>2. CASE reply["exec"] = "ok"
            <3>1. opens \in Gens /\ opens # 0 /\ 0 \in Gens
                BY <1>3, BoundAssumption
                DEF OpenReply, ExchangeTypes, Registers, Opening, Gens
            <3>2. pos' \in Positions /\ (pos'.amt # 0 => pos'.gen # 0)
                BY <1>3, <2>1, <2>2, <3>1 DEF OpenReply, Positions
            <3>3. UNCHANGED <<hmu, cooling, booked>>
                BY <1>3, <2>2 DEF OpenReply
            <3> QED BY <3>2, <3>3 DEF LocalTypes
        <2>3. CASE reply["exec"] # "ok"
            BY <1>3, <2>3 DEF OpenReply, LocalTypes
        <2> QED BY <2>2, <2>3
    <1>4. ASSUME GuardReply PROVE LocalTypes'
        BY <1>4 DEF GuardReply, LocalTypes, ExchangeTypes, Positions, Handlers
    <1>5. ASSUME CheckAndExit PROVE LocalTypes'
        BY <1>5 DEF CheckAndExit, BeginClose, localVars, LocalTypes, Handlers
    <1>6. ASSUME NEW p \in Procs, CloseFinish(p) PROVE LocalTypes'
        <2>1. Flat \in Positions /\ (Flat.amt # 0 => Flat.gen # 0)
            BY BoundAssumption DEF Flat, Positions, Gens
        <2>2. booked' \in [1..MaxOpens -> Nat]
            BY <1>6 DEF CloseFinish, LocalTypes, localVars
        <2>3. pos' \in {pos, Flat} /\ cooling' \in BOOLEAN /\ hmu' = "free"
            BY <1>6, SwitchAssumption DEF CloseFinish, LocalTypes, localVars
        <2> QED BY <2>1, <2>2, <2>3 DEF LocalTypes
    <1>7. ASSUME CaseAClose PROVE LocalTypes'
        BY <1>7, BoundAssumption
        DEF CaseAClose, LocalTypes, Flat, Positions, Gens
    <1>8. ASSUME CaseARecord PROVE LocalTypes'
        <2>1. booked' \in [1..MaxOpens -> Nat]
            BY <1>8, CountUp DEF CaseARecord, LocalTypes
        <2>2. UNCHANGED <<pos, hmu>> /\ cooling' \in BOOLEAN
            BY <1>8, SwitchAssumption DEF CaseARecord
        <2> QED BY <2>1, <2>2 DEF LocalTypes
    <1>9. ASSUME CooldownEnds PROVE LocalTypes'
        BY <1>9 DEF CooldownEnds, LocalTypes
    <1>10. CASE UNCHANGED <<localVars, hmu>>
        BY <1>10 DEF localVars, LocalTypes
    <1>11. ASSUME Restart PROVE LocalTypes'
        <2>1. Flat \in Positions /\ Flat.amt = 0
            BY BoundAssumption DEF Flat, Positions, Gens
        <2>2. pos' = Flat /\ hmu' = "free" /\ cooling' = FALSE /\ booked' = booked
            BY <1>11 DEF Restart
        <2> QED BY <2>1, <2>2 DEF LocalTypes
    <1> QED BY <1>1, <1>2, <1>3, <1>4, <1>5, <1>6, <1>7, <1>8, <1>9, <1>10, <1>11
        DEF Next, ExecNext, CloseNext, ReconNext, Signal, TryOpenReject, OpenMarket,
            PlaceStopLoss, PlaceGuard, PlaceTakeProfit, ExitOnMarket, MonWait,
            ExitOnState, CancelSL, CancelTP, CloseSend, CloseRetry, PositionRisk,
            Compare, CaseBFinish, GuardTriggers, StateMachineRun, Tick,
            ApplyRequest, Transition, vars,
            localVars, procVars, reconVars, exVars, vars, smVars

(* The goroutines' registers.                                                   *)
LEMMA ProcStep ==
    ASSUME IInv, [Next]_vars
    PROVE  ProcTypes'
    <1> USE DEF IInv, TypeOK, Procs
    <1>1. ASSUME NEW d \in Dirs, Signal(d) PROVE ProcTypes'
        BY <1>1, DirsAssumption DEF Signal, Goto, ProcTypes, Labels
    <1>2. ASSUME TryReversal PROVE ProcTypes'
        BY <1>2 DEF TryReversal, BeginClose, Goto, ProcTypes, LocalTypes, Labels
    <1>3. ASSUME TryOpenAccept PROVE ProcTypes'
        BY <1>3 DEF TryOpenAccept, Goto, ProcTypes, Labels
    <1>4. ASSUME TryOpenReject PROVE ProcTypes'
        BY <1>4 DEF TryOpenReject, Goto, ProcTypes, Labels
    <1>5. ASSUME OpenMarket PROVE ProcTypes'
        BY <1>5 DEF OpenMarket, Goto, ProcTypes, Labels
    <1>6. ASSUME OpenReply PROVE ProcTypes'
        BY <1>6 DEF OpenReply, Goto, ProcTypes, Labels
    <1>7. ASSUME PlaceStopLoss PROVE ProcTypes'
        BY <1>7 DEF PlaceStopLoss, PlaceGuard, Goto, ProcTypes, Labels
    <1>8. ASSUME PlaceTakeProfit PROVE ProcTypes'
        BY <1>8 DEF PlaceTakeProfit, PlaceGuard, Goto, ProcTypes, Labels
    <1>9. ASSUME GuardReply PROVE ProcTypes'
        <2>1. pos' \in Positions BY <1>9, LocalStep DEF LocalTypes
        <2>2. snap' \in [Procs -> Positions]
            BY <1>9, <2>1 DEF GuardReply, ProcTypes
        <2> QED BY <1>9, <2>2 DEF GuardReply, Goto, ProcTypes, Labels
    <1>10. ASSUME ExitOnMarket PROVE ProcTypes'
        BY <1>10 DEF ExitOnMarket, MonWait, Goto, ProcTypes, Labels
    <1>11. ASSUME ExitOnState PROVE ProcTypes'
        BY <1>11 DEF ExitOnState, MonWait, Goto, ProcTypes, Labels
    <1>12. ASSUME CheckAndExit PROVE ProcTypes'
        BY <1>12 DEF CheckAndExit, BeginClose, Goto, ProcTypes, LocalTypes, Labels
    <1>13. ASSUME NEW p \in Procs, CancelSL(p) PROVE ProcTypes'
        BY <1>13 DEF CancelSL, Goto, ProcTypes, Labels
    <1>14. ASSUME NEW p \in Procs, CancelTP(p) PROVE ProcTypes'
        BY <1>14 DEF CancelTP, Goto, ProcTypes, Labels
    <1>15. ASSUME NEW p \in Procs, CloseSend(p) PROVE ProcTypes'
        <2>1. attempt[p] + 1 \in 0..MaxOrderRetry
            BY <1>15, RetryAssumption DEF CloseSend, Registers, ProcTypes
        <2>2. attempt' \in [Procs -> 0..MaxOrderRetry]
            BY <1>15, <2>1 DEF CloseSend, ProcTypes
        <2>3. PICK r \in {"ok", "error"} : reply' = [reply EXCEPT ![p] = r]
            BY <1>15 DEF CloseSend
        <2> QED BY <1>15, <2>2, <2>3 DEF CloseSend, Goto, ProcTypes, Labels
    <1>16. ASSUME NEW p \in Procs, CloseRetry(p) PROVE ProcTypes'
        BY <1>16 DEF CloseRetry, Goto, ProcTypes, Labels
    <1>17. ASSUME NEW p \in Procs, CloseFinish(p) PROVE ProcTypes'
        <2>1. Flat \in Positions BY BoundAssumption DEF Flat, Positions, Gens
        <2>2. After(p) \in Labels BY DEF After, Labels
        <2> QED BY <1>17, <2>1, <2>2, RetryAssumption DEF CloseFinish, Forget, Goto, ProcTypes
    <1>18. ASSUME PositionRisk PROVE ProcTypes'
        BY <1>18 DEF PositionRisk, Goto, ProcTypes, Labels
    <1>19. ASSUME Compare PROVE ProcTypes'
        <2>1. Flat \in Positions BY BoundAssumption DEF Flat, Positions, Gens
        <2>2. [Flat EXCEPT !.amt = risk] \in Positions
            BY BoundAssumption DEF Flat, Positions, Gens, ReconTypes
        <2>3. snap' \in [Procs -> Positions]
            BY <1>19, <2>2 DEF Compare, ProcTypes, LocalTypes
        <2> QED BY <1>19, <2>3 DEF Compare, Goto, ProcTypes, Labels
    <1>20. ASSUME CaseAClose PROVE ProcTypes'
        BY <1>20 DEF CaseAClose, Goto, ProcTypes, Labels
    <1>21. ASSUME CaseARecord PROVE ProcTypes'
        <2>1. Flat \in Positions BY BoundAssumption DEF Flat, Positions, Gens
        <2> QED BY <1>21, <2>1, RetryAssumption DEF CaseARecord, Forget, Goto, ProcTypes, Labels
    <1>22. ASSUME CaseBFinish PROVE ProcTypes'
        <2>1. Flat \in Positions BY BoundAssumption DEF Flat, Positions, Gens
        <2> QED BY <1>22, <2>1, RetryAssumption DEF CaseBFinish, Forget, Goto, ProcTypes, Labels
    <1>23. CASE UNCHANGED <<procVars>>
        BY <1>23 DEF procVars, ProcTypes
    <1>24. ASSUME Restart PROVE ProcTypes'
        <2>1. Flat \in Positions BY BoundAssumption DEF Flat, Positions, Gens
        <2> QED BY <1>24, <2>1, RetryAssumption DEF Restart, ProcTypes, Labels
    <1> QED BY <1>1, <1>2, <1>3, <1>4, <1>5, <1>6, <1>7, <1>8, <1>9, <1>10, <1>11,
        <1>12, <1>13, <1>14, <1>15, <1>16, <1>17, <1>18, <1>19, <1>20, <1>21, <1>22,
        <1>23, <1>24
        DEF Next, ExecNext, CloseNext, ReconNext, GuardTriggers, CooldownEnds,
            StateMachineRun, Tick, ApplyRequest, Transition, vars,
            localVars, procVars, reconVars, exVars, vars, smVars

(* What recon has read and its failure count.                                   *)
LEMMA ReconStep ==
    ASSUME IInv, [Next]_vars
    PROVE  ReconTypes'
    <1> USE DEF IInv, TypeOK
    <1>1. ASSUME PositionRisk PROVE ReconTypes'
        BY <1>1 DEF PositionRisk, ReconTypes, ExchangeTypes, Least
    <1>2. ASSUME Compare PROVE ReconTypes'
        BY <1>2 DEF Compare, ReconTypes
    <1>3. CASE UNCHANGED <<reconVars>>
        BY <1>3 DEF reconVars, ReconTypes
    <1>4. ASSUME Restart PROVE ReconTypes'
        BY <1>4 DEF Restart, ReconTypes
    <1> QED BY <1>1, <1>2, <1>3, <1>4
        DEF Next, ExecNext, CloseNext, ReconNext, Signal, TryReversal, BeginClose,
            TryOpenAccept, TryOpenReject, OpenMarket, OpenReply, PlaceStopLoss,
            PlaceGuard, PlaceTakeProfit, GuardReply, ExitOnMarket, MonWait,
            ExitOnState, CheckAndExit, CancelSL, CancelTP, CloseSend, CloseRetry,
            CloseFinish, CaseAClose, CaseARecord, CaseBFinish, GuardTriggers,
            CooldownEnds, StateMachineRun, Tick, ApplyRequest, Transition, vars,
            localVars, procVars, reconVars, exVars, vars, smVars

(* The exchange, the count of open orders and of faults.                        *)
LEMMA ExchangeStep ==
    ASSUME IInv, [Next]_vars
    PROVE  ExchangeTypes'
    <1> USE DEF IInv, TypeOK, Procs
    <1>1. ASSUME OpenMarket PROVE ExchangeTypes'
        <2>1. faults' \in 0..MaxFaults
            BY <1>1, BoundAssumption DEF OpenMarket, PlaceOrder, Fault, ExchangeTypes
        <2>2. opens' \in Gens
            BY <1>1, BoundAssumption DEF OpenMarket, ExchangeTypes, Registers, Gens
        <2>3. QuantizeQty(Qty) \in Nat
            BY QuantizeNat, QtyAssumption
        <2>4. sig * QuantizeQty(Qty) \in Int
            BY <2>3 DEF ProcTypes
        <2>5. exAmt' \in Int
            BY <1>1, <2>4 DEF OpenMarket, ExchangeTypes
        <2> QED BY <1>1, <2>1, <2>2, <2>5 DEF OpenMarket, ExchangeTypes
    <1>2. ASSUME PlaceStopLoss PROVE ExchangeTypes'
        <2>1. faults' \in 0..MaxFaults
            BY <1>2, BoundAssumption
            DEF PlaceStopLoss, PlaceGuard, PlaceOrder, Fault, ExchangeTypes
        <2>2. [kind |-> "SL", gen |-> opens, dir |-> sig] \in Orders
            BY <1>2
            DEF PlaceStopLoss, PlaceGuard, Orders, ExchangeTypes, ProcTypes,
                Registers, Opening
        <2> QED BY <1>2, <2>1, <2>2 DEF PlaceStopLoss, PlaceGuard, ExchangeTypes
    <1>3. ASSUME PlaceTakeProfit PROVE ExchangeTypes'
        <2>1. faults' \in 0..MaxFaults
            BY <1>3, BoundAssumption
            DEF PlaceTakeProfit, PlaceGuard, PlaceOrder, Fault, ExchangeTypes
        <2>2. [kind |-> "TP", gen |-> opens, dir |-> sig] \in Orders
            BY <1>3
            DEF PlaceTakeProfit, PlaceGuard, Orders, ExchangeTypes, ProcTypes,
                Registers, Opening
        <2> QED BY <1>3, <2>1, <2>2 DEF PlaceTakeProfit, PlaceGuard, ExchangeTypes
    <1>4. ASSUME NEW p \in Procs, CancelSL(p) PROVE ExchangeTypes'
        <2>1. faults' \in 0..MaxFaults
            BY <1>4, BoundAssumption DEF CancelSL, Cancel, Fault, ExchangeTypes
        <2> QED BY <1>4, <2>1 DEF CancelSL, Cancel, ExchangeTypes
    <1>5. ASSUME NEW p \in Procs, CancelTP(p) PROVE ExchangeTypes'
        <2>1. faults' \in 0..MaxFaults
            BY <1>5, BoundAssumption DEF CancelTP, Cancel, Fault, ExchangeTypes
        <2> QED BY <1>5, <2>1 DEF CancelTP, Cancel, ExchangeTypes
    <1>6. ASSUME NEW p \in Procs, CloseSend(p) PROVE ExchangeTypes'
        <2>1. faults' \in 0..MaxFaults
            BY <1>6, BoundAssumption DEF CloseSend, PlaceOrder, Fault, ExchangeTypes
        <2>2. Sign(snap[p].amt) \in {-1, 0, 1} /\ QuantizeQty(Abs(snap[p].amt)) \in Nat
            BY SignAbs, QuantizeNat DEF ProcTypes, Positions
        <2>3. exAmt' \in {exAmt, Reduced(Sign(snap[p].amt), QuantizeQty(Abs(snap[p].amt)))}
            BY <1>6 DEF CloseSend
        <2>4. exAmt' \in Int
            BY <2>2, <2>3, ReducedFacts DEF ExchangeTypes
        <2> QED BY <1>6, <2>1, <2>4 DEF CloseSend, ExchangeTypes
    <1>7. ASSUME PositionRisk PROVE ExchangeTypes'
        <2>1. faults' \in 0..MaxFaults
            BY <1>7, BoundAssumption DEF PositionRisk, Fault, ExchangeTypes
        <2> QED BY <1>7, <2>1 DEF PositionRisk, ExchangeTypes, exVars
    <1>8. ASSUME NEW o \in exOrders, GuardTriggers(o) PROVE ExchangeTypes'
        <2>1. QuantizeQty(Qty) \in Nat
            BY QuantizeNat, QtyAssumption
        <2>2. o \in Orders /\ o.dir \in {-1, 0, 1}
            BY <1>8 DEF GuardTriggers, ExchangeTypes, Orders
        <2>3. exAmt' \in Int
            BY <1>8, <2>1, <2>2, ReducedFacts DEF GuardTriggers, ExchangeTypes
        <2> QED BY <1>8, <2>2, <2>3 DEF GuardTriggers, ExchangeTypes
    <1>9. CASE UNCHANGED <<exVars, opens, faults>>
        BY <1>9 DEF exVars, ExchangeTypes
    <1>10. ASSUME Restart PROVE ExchangeTypes'
        <2>1. faults' \in 0..MaxFaults
            BY <1>10, BoundAssumption DEF Restart, Fault, ExchangeTypes
        <2> QED BY <1>10, <2>1 DEF Restart, ExchangeTypes
    <1> QED BY <1>1, <1>2, <1>3, <1>4, <1>5, <1>6, <1>7, <1>8, <1>9, <1>10
        DEF Next, ExecNext, CloseNext, ReconNext, Signal, TryReversal, BeginClose,
            TryOpenAccept, TryOpenReject, OpenReply, GuardReply, ExitOnMarket,
            MonWait, ExitOnState, CheckAndExit, CloseRetry, CloseFinish, Compare,
            CaseAClose, CaseARecord, CaseBFinish, CooldownEnds, StateMachineRun,
            Tick, ApplyRequest, Transition, vars,
            localVars, procVars, reconVars, exVars, vars, smVars

(* What the counters say is kept by every step.                                 *)
LEMMA RegistersStep ==
    ASSUME IInv, [Next]_vars
    PROVE  Registers'
    <1> USE DEF IInv, TypeOK, ProcTypes, LocalTypes, ExchangeTypes, Procs, Handlers
    <1>1. ASSUME NEW d \in Dirs, Signal(d) PROVE Registers'
        BY <1>1, DirsAssumption
        DEF Signal, Goto, Registers, Closing, Opening, localVars, procVars,
            reconVars, exVars
    <1>2. ASSUME TryReversal PROVE Registers'
        BY <1>2
        DEF TryReversal, BeginClose, Goto, Registers, Closing, Opening, localVars,
            procVars, reconVars, exVars
    <1>3. ASSUME TryOpenAccept PROVE Registers'
        BY <1>3
        DEF TryOpenAccept, Admitted, Goto, Registers, Closing, Opening, localVars,
            procVars, reconVars, exVars
    <1>4. ASSUME TryOpenReject PROVE Registers'
        BY <1>4
        DEF TryOpenReject, Goto, Registers, Closing, Opening, localVars, procVars,
            reconVars, exVars
    <1>5. ASSUME OpenMarket PROVE Registers'
        BY <1>5, BoundAssumption
        DEF OpenMarket, Gens, Goto, Registers, Closing, Opening, localVars,
            procVars, reconVars, exVars
    <1>6. ASSUME OpenReply PROVE Registers'
        BY <1>6
        DEF OpenReply, Goto, Registers, Closing, Opening, localVars, procVars,
            reconVars, exVars
    <1>7. ASSUME PlaceStopLoss PROVE Registers'
        BY <1>7
        DEF PlaceStopLoss, PlaceGuard, Goto, Registers, Closing, Opening, localVars,
            procVars, reconVars, exVars
    <1>8. ASSUME PlaceTakeProfit PROVE Registers'
        BY <1>8
        DEF PlaceTakeProfit, PlaceGuard, Goto, Registers, Closing, Opening,
            localVars, procVars, reconVars, exVars
    <1>9. ASSUME GuardReply PROVE Registers'
        BY <1>9
        DEF GuardReply, Goto, Registers, Closing, Opening, localVars, procVars,
            reconVars, exVars
    <1>10. ASSUME ExitOnMarket PROVE Registers'
        BY <1>10
        DEF ExitOnMarket, MonWait, Goto, Registers, Closing, Opening, localVars,
            procVars, reconVars, exVars
    <1>11. ASSUME ExitOnState PROVE Registers'
        BY <1>11
        DEF ExitOnState, MonWait, Goto, Registers, Closing, Opening, localVars,
            procVars, reconVars, exVars
    <1>12. ASSUME CheckAndExit PROVE Registers'
        BY <1>12
        DEF CheckAndExit, BeginClose, Goto, Registers, Closing, Opening, localVars,
            procVars, reconVars, exVars
    <1>13. ASSUME NEW p \in Procs, CancelSL(p) PROVE Registers'
        BY <1>13
        DEF CancelSL, Goto, Registers, Closing, Opening, localVars, procVars,
            reconVars, exVars
    <1>14. ASSUME NEW p \in Procs, CancelTP(p) PROVE Registers'
        BY <1>14, RetryAssumption
        DEF CancelTP, Goto, Registers, Closing, Opening, localVars, procVars,
            reconVars, exVars
    <1>15. ASSUME NEW p \in Procs, CloseSend(p) PROVE Registers'
        BY <1>15
        DEF CloseSend, Goto, Registers, Closing, Opening, localVars, procVars,
            reconVars, exVars
    <1>16. ASSUME NEW p \in Procs, CloseRetry(p) PROVE Registers'
        BY <1>16
        DEF CloseRetry, Goto, Registers, Closing, Opening, localVars, procVars,
            reconVars, exVars
    <1>17. ASSUME NEW p \in Procs, CloseFinish(p) PROVE Registers'
        BY <1>17
        DEF CloseFinish, Flat, After, Forget, Goto, Registers, Closing, Opening,
            localVars, procVars, reconVars, exVars
    <1>18. ASSUME PositionRisk PROVE Registers'
        BY <1>18
        DEF PositionRisk, Goto, Registers, Closing, Opening, localVars, procVars,
            reconVars, exVars
    <1>19. ASSUME Compare PROVE Registers'
        BY <1>19, RetryAssumption
        DEF Compare, Goto, Registers, Closing, Opening, localVars, procVars,
            reconVars, exVars
    <1>20. ASSUME CaseAClose PROVE Registers'
        BY <1>20
        DEF CaseAClose, Flat, Goto, Registers, Closing, Opening, localVars,
            procVars, reconVars, exVars
    <1>21. ASSUME CaseARecord PROVE Registers'
        BY <1>21
        DEF CaseARecord, Forget, Goto, Registers, Closing, Opening, localVars,
            procVars, reconVars, exVars
    <1>22. ASSUME CaseBFinish PROVE Registers'
        BY <1>22
        DEF CaseBFinish, Forget, Goto, Registers, Closing, Opening, localVars,
            procVars, reconVars, exVars
    <1>23. ASSUME NEW o \in exOrders, GuardTriggers(o) PROVE Registers'
        BY <1>23
        DEF GuardTriggers, Registers, Closing, Opening, localVars, procVars,
            reconVars, exVars
    <1>24. ASSUME CooldownEnds PROVE Registers'
        BY <1>24
        DEF CooldownEnds, Registers, Closing, Opening, localVars, procVars,
            reconVars, exVars
    <1>25. ASSUME StateMachineRun PROVE Registers'
        BY <1>25
        DEF StateMachineRun, Tick, ApplyRequest, Transition, Registers, Closing,
            Opening, localVars, procVars, reconVars, exVars
    <1>26. CASE UNCHANGED <<pos, sig, attempt, pc, opens>>
        BY <1>26 DEF Registers, Closing, Opening, localVars, procVars, reconVars, exVars
    <1>27. ASSUME Restart PROVE Registers'
        BY <1>27 DEF Restart, Flat, Registers, Opening
    <1> QED BY <1>1, <1>2, <1>3, <1>4, <1>5, <1>6, <1>7, <1>8, <1>9, <1>10, <1>11,
        <1>12, <1>13, <1>14, <1>15, <1>16, <1>17, <1>18, <1>19, <1>20, <1>21, <1>22,
        <1>23, <1>24, <1>25, <1>26, <1>27
        DEF Next, ExecNext, CloseNext, ReconNext, vars,
            localVars, procVars, reconVars, exVars, vars, smVars

(* Who is inside holds the lock, and only who is inside.                        *)
LEMMA LockStep ==
    ASSUME IInv, LockInv, [Next]_vars
    PROVE  LockInv'
    <1> USE DEF IInv, TypeOK, ProcTypes, Procs, Handlers
    <1>1. ASSUME NEW d \in Dirs, Signal(d) PROVE LockInv'
        BY <1>1
        DEF Signal, Goto, LockInv, Closing, Opening, localVars, procVars, reconVars,
            exVars
    <1>2. ASSUME TryReversal PROVE LockInv'
        BY <1>2
        DEF TryReversal, BeginClose, Goto, LockInv, Closing, Opening, localVars,
            procVars, reconVars, exVars
    <1>3. ASSUME TryOpenAccept PROVE LockInv'
        BY <1>3
        DEF TryOpenAccept, Admitted, Goto, LockInv, Closing, Opening, localVars,
            procVars, reconVars, exVars
    <1>4. ASSUME TryOpenReject PROVE LockInv'
        BY <1>4
        DEF TryOpenReject, Goto, LockInv, Closing, Opening, localVars, procVars,
            reconVars, exVars
    <1>5. ASSUME OpenMarket PROVE LockInv'
        BY <1>5
        DEF OpenMarket, Goto, LockInv, Closing, Opening, localVars, procVars,
            reconVars, exVars
    <1>6. ASSUME OpenReply PROVE LockInv'
        BY <1>6
        DEF OpenReply, Goto, LockInv, Closing, Opening, localVars, procVars,
            reconVars, exVars
    <1>7. ASSUME PlaceStopLoss PROVE LockInv'
        BY <1>7
        DEF PlaceStopLoss, PlaceGuard, Goto, LockInv, Closing, Opening, localVars,
            procVars, reconVars, exVars
    <1>8. ASSUME PlaceTakeProfit PROVE LockInv'
        BY <1>8
        DEF PlaceTakeProfit, PlaceGuard, Goto, LockInv, Closing, Opening, localVars,
            procVars, reconVars, exVars
    <1>9. ASSUME GuardReply PROVE LockInv'
        BY <1>9
        DEF GuardReply, Goto, LockInv, Closing, Opening, localVars, procVars,
            reconVars, exVars
    <1>10. ASSUME ExitOnMarket PROVE LockInv'
        BY <1>10
        DEF ExitOnMarket, MonWait, Goto, LockInv, Closing, Opening, localVars,
            procVars, reconVars, exVars
    <1>11. ASSUME ExitOnState PROVE LockInv'
        BY <1>11
        DEF ExitOnState, MonWait, Goto, LockInv, Closing, Opening, localVars,
            procVars, reconVars, exVars
    <1>12. ASSUME CheckAndExit PROVE LockInv'
        BY <1>12
        DEF CheckAndExit, BeginClose, Goto, LockInv, Closing, Opening, localVars,
            procVars, reconVars, exVars
    <1>13. ASSUME NEW p \in Procs, CancelSL(p) PROVE LockInv'
        BY <1>13
        DEF CancelSL, Goto, LockInv, Closing, Opening, localVars, procVars,
            reconVars, exVars
    <1>14. ASSUME NEW p \in Procs, CancelTP(p) PROVE LockInv'
        BY <1>14
        DEF CancelTP, Goto, LockInv, Closing, Opening, localVars, procVars,
            reconVars, exVars
    <1>15. ASSUME NEW p \in Procs, CloseSend(p) PROVE LockInv'
        BY <1>15
        DEF CloseSend, Goto, LockInv, Closing, Opening, localVars, procVars,
            reconVars, exVars
    <1>16. ASSUME NEW p \in Procs, CloseRetry(p) PROVE LockInv'
        BY <1>16
        DEF CloseRetry, Goto, LockInv, Closing, Opening, localVars, procVars,
            reconVars, exVars
    <1>17. ASSUME NEW p \in Procs, CloseFinish(p) PROVE LockInv'
        BY <1>17
        DEF CloseFinish, After, Forget, Goto, LockInv, Closing, Opening, localVars,
            procVars, reconVars, exVars
    <1>18. ASSUME PositionRisk PROVE LockInv'
        BY <1>18
        DEF PositionRisk, Goto, LockInv, Closing, Opening, localVars, procVars,
            reconVars, exVars
    <1>19. ASSUME Compare PROVE LockInv'
        BY <1>19
        DEF Compare, Goto, LockInv, Closing, Opening, localVars, procVars,
            reconVars, exVars
    <1>20. ASSUME CaseAClose PROVE LockInv'
        BY <1>20
        DEF CaseAClose, Goto, LockInv, Closing, Opening, localVars, procVars,
            reconVars, exVars
    <1>21. ASSUME CaseARecord PROVE LockInv'
        BY <1>21
        DEF CaseARecord, Forget, Goto, LockInv, Closing, Opening, localVars,
            procVars, reconVars, exVars
    <1>22. ASSUME CaseBFinish PROVE LockInv'
        BY <1>22
        DEF CaseBFinish, Forget, Goto, LockInv, Closing, Opening, localVars,
            procVars, reconVars, exVars
    <1>23. ASSUME NEW o \in exOrders, GuardTriggers(o) PROVE LockInv'
        BY <1>23
        DEF GuardTriggers, LockInv, Closing, Opening, localVars, procVars,
            reconVars, exVars
    <1>24. ASSUME CooldownEnds PROVE LockInv'
        BY <1>24
        DEF CooldownEnds, LockInv, Closing, Opening, localVars, procVars, reconVars,
            exVars
    <1>25. ASSUME StateMachineRun PROVE LockInv'
        BY <1>25
        DEF StateMachineRun, Tick, ApplyRequest, Transition, LockInv, Closing,
            Opening, localVars, procVars, reconVars, exVars
    <1>26. CASE UNCHANGED <<hmu, pc>>
        BY <1>26 DEF LockInv, Closing, Opening, localVars, procVars, reconVars, exVars
    <1>27. ASSUME Restart PROVE LockInv'
        BY <1>27 DEF Restart, LockInv, Closing, Opening
    <1> QED BY <1>1, <1>2, <1>3, <1>4, <1>5, <1>6, <1>7, <1>8, <1>9, <1>10, <1>11,
        <1>12, <1>13, <1>14, <1>15, <1>16, <1>17, <1>18, <1>19, <1>20, <1>21, <1>22,
        <1>23, <1>24, <1>25, <1>26, <1>27
        DEF Next, ExecNext, CloseNext, ReconNext, vars,
            localVars, procVars, reconVars, exVars, vars, smVars

--------------------------------------------------------------------------------
(* The initial state satisfies the inductive invariant.                         *)
LEMMA InitTypes == Init => IInv /\ LockInv
    <1> SUFFICES ASSUME Init PROVE IInv /\ LockInv
        OBVIOUS
    <1> USE DEF Init
    <1>1. SMTypeOK
        BY InitialTypes
    <1>2. Flat \in Positions /\ Flat.amt = 0
        BY BoundAssumption DEF Flat, Positions, Gens
    <1>3. LocalTypes
        <2>1. booked \in [1..MaxOpens -> Nat]
            OBVIOUS
        <2>2. cooling \in BOOLEAN
            OBVIOUS
        <2> QED BY <1>2, <2>1, <2>2 DEF LocalTypes
    <1>4. ProcTypes
        BY <1>2, RetryAssumption DEF ProcTypes, Labels
    <1>5. ReconTypes /\ ExchangeTypes
        BY BoundAssumption DEF ReconTypes, ExchangeTypes, Gens
    <1>6. Registers /\ LockInv
        BY <1>2 DEF Registers, LockInv, Opening, Closing, Procs, Handlers
    <1> QED BY <1>1, <1>3, <1>4, <1>5, <1>6 DEF IInv, TypeOK

(* The inductive invariant holds in every reachable state.                      *)
THEOREM ExecutionInvariant == Spec => []IInv
    <1>1. Init => IInv
        BY InitTypes
    <1>2. IInv /\ [Next]_vars => IInv'
        BY StateMachineStep, LocalStep, ProcStep, ReconStep, ExchangeStep, RegistersStep
        DEF IInv, TypeOK
    <1> QED BY <1>1, <1>2, PTL DEF Spec

(* Attempts stay within the retry limit, orders and faults within their bounds, *)
(* an open position always names its opening.                                   *)
THEOREM ExecutionTypes == Spec => []TypeOK
    <1>1. IInv => TypeOK
        BY DEF IInv
    <1> QED BY <1>1, ExecutionInvariant, PTL

(* Executor and monitor are never both between Lock and Unlock of TradeHandler. *)
THEOREM LockExclusive == Spec => []LockInv
    <1>1. Init => LockInv
        BY InitTypes
    <1>2. IInv /\ LockInv /\ [Next]_vars => LockInv'
        BY LockStep
    <1> QED BY <1>1, <1>2, ExecutionInvariant, PTL DEF Spec

(* A position that is open is never replaced: between the flat check of TryOpen *)
(* and PositionManager.Open nobody else can open one.                           *)
THEOREM NeverOverwritten == Spec => OpenNeverOverwrites
    <1>1. IInv /\ [Next]_vars =>
             [pos.amt # 0 /\ pos'.amt # 0 => pos'.gen = pos.gen /\ pos'.amt = pos.amt]_vars
        <2> SUFFICES ASSUME IInv, [Next]_vars, pos.amt # 0, pos'.amt # 0
                     PROVE  pos'.gen = pos.gen /\ pos'.amt = pos.amt
            OBVIOUS
        <2>1. ~OpenReply \/ UNCHANGED pos
            BY DEF OpenReply, IInv, Registers
        <2>2. CASE GuardReply
            BY <2>2 DEF GuardReply, IInv, TypeOK, LocalTypes, Positions
        <2>3. CASE UNCHANGED pos
            BY <2>3
        <2>4. CASE pos' = Flat
            BY <2>4 DEF Flat
        <2> QED BY <2>1, <2>2, <2>3, <2>4
            DEF Next, ExecNext, CloseNext, ReconNext, vars, localVars, Signal,
                TryReversal, TryOpenAccept, TryOpenReject, OpenMarket, PlaceStopLoss,
                PlaceTakeProfit, PlaceGuard, ExitOnMarket, ExitOnState, MonWait,
                CheckAndExit, CancelSL, CancelTP, CloseSend, CloseRetry, CloseFinish,
                PositionRisk, Compare, CaseAClose, CaseARecord, CaseBFinish,
                GuardTriggers, CooldownEnds, StateMachineRun, Restart
    <1> QED BY <1>1, ExecutionInvariant, PTL DEF Spec, OpenNeverOverwrites

(* However many goroutines and guard orders close at once, reduce-only orders   *)
(* never enlarge the exchange position nor turn it around.                      *)
THEOREM ClosesReduce == Spec => ClosesOnlyReduce
    <1> DEFINE Shrinks == exAmt' \in {exAmt, 0} \/ (Sign(exAmt') = Sign(exAmt)
                                                    /\ Abs(exAmt') < Abs(exAmt))
    <1>1. IInv /\ [Next]_vars => [opens' = opens => Shrinks]_vars
        <2> SUFFICES ASSUME IInv, [Next]_vars, opens' = opens
                     PROVE  Shrinks
            OBVIOUS
        <2> USE DEF IInv, TypeOK, ExchangeTypes
        <2>1. ~OpenMarket
            BY BoundAssumption DEF OpenMarket, Gens
        <2>2. ASSUME NEW p \in Procs, CloseSend(p) PROVE Shrinks
            <3>1. Sign(snap[p].amt) \in {-1, 0, 1} /\ QuantizeQty(Abs(snap[p].amt)) \in Nat
                BY SignAbs, QuantizeNat DEF ProcTypes, Positions
            <3>2. exAmt' \in {exAmt, Reduced(Sign(snap[p].amt), QuantizeQty(Abs(snap[p].amt)))}
                BY <2>2 DEF CloseSend
            <3> QED BY <3>1, <3>2, ReducedFacts
        <2>3. ASSUME NEW o \in exOrders, GuardTriggers(o) PROVE Shrinks
            <3>1. QuantizeQty(Qty) \in Nat
                BY QuantizeNat, QtyAssumption
            <3>2. o.dir \in {-1, 0, 1}
                BY DEF Orders
            <3> QED BY <2>3, <3>1, <3>2, ReducedFacts DEF GuardTriggers
        <2>4. CASE UNCHANGED exAmt
            BY <2>4
        <2> QED BY <2>1, <2>2, <2>3, <2>4
            DEF Next, ExecNext, CloseNext, ReconNext, vars, exVars, Signal,
                TryReversal, TryOpenAccept, TryOpenReject, OpenReply, PlaceStopLoss,
                PlaceTakeProfit, PlaceGuard, GuardReply, ExitOnMarket, ExitOnState,
                MonWait, CheckAndExit, CancelSL, CancelTP, CloseRetry, CloseFinish,
                PositionRisk, Compare, CaseAClose, CaseARecord, CaseBFinish,
                CooldownEnds, StateMachineRun, Restart
    <1> QED BY <1>1, ExecutionInvariant, PTL DEF Spec, ClosesOnlyReduce

--------------------------------------------------------------------------------
(* Protected. Besides the types it needs what recon may be about to do: cancel  *)
(* guard orders, but never those of the opening at work, and reset a position,   *)
(* but never one that was opened after recon looked.                            *)
Placing == {"slSend", "tpSend", "guardReply"}

Order(kind) == [kind |-> kind, gen |-> opens, dir |-> sig]

(* Openings are numbered in order, and a guard order has its opening's number.  *)
GensInv ==
    /\ pos.gen <= opens /\ snap["recon"].gen <= opens
    /\ pos.amt # 0 => pos.sl \in {0, pos.gen} /\ pos.tp \in {0, pos.gen}
    /\ snap["recon"].sl \in {0, snap["recon"].gen}
    /\ snap["recon"].tp \in {0, snap["recon"].gen}

(* While exec opens, recon knows nothing of the opening, or not its guards.     *)
OpenedInv ==
    /\ pc["exec"] = "openReply" => snap["recon"].gen # opens
    /\ pc["exec"] \in Placing =>
          /\ snap["recon"].sl # opens /\ snap["recon"].tp # opens
          /\ pos.amt # 0 => pos.gen = opens /\ Sign(pos.amt) = sig /\ pos.sl = 0 /\ pos.tp = 0

(* A guard order that was answered rests at the exchange or has fired.          *)
PlacedInv ==
    /\ pc["exec"] = "tpSend" => reply["exec"] \in {"ok", "error"}
    /\ pc["exec"] \in {"tpSend", "guardReply"} /\ reply["exec"] = "ok" =>
          Order("SL") \in exOrders \cup consumed
    /\ pc["exec"] = "guardReply" /\ reply["exec"] = "ok" =>
          Order("TP") \in exOrders \cup consumed

(* Recon's copy is of an older opening, or of none.                             *)
CaseInv ==
    /\ pc["recon"] = "caseARecord" => pos.amt = 0 \/ pos.gen # snap["recon"].gen
    /\ pc["recon"] \in {"closeSend", "closeReply"} => snap["recon"].gen = 0

GuardInv == GensInv /\ OpenedInv /\ PlacedInv /\ CaseInv

(* An accepted or dropped request for FAILURE is not forgotten by another one.  *)
LEMMA RequestKeeps ==
    ASSUME SMTypeOK, Escalated, NEW target, RequestTransition(target), current' = current
    PROVE  Escalated'
    <1>1. CASE Len(requests) < ReqCap
        <2>1. ASSUME NEW i \in DOMAIN requests
              PROVE  i \in DOMAIN requests' /\ requests'[i] = requests[i]
            BY <1>1, <2>1 DEF RequestTransition, SMTypeOK
        <2>2. Pending \subseteq Pending'
            BY <2>1 DEF Pending
        <2> QED BY <1>1, <2>2 DEF Escalated, RequestTransition
    <1>2. CASE ~(Len(requests) < ReqCap)
        BY <1>2 DEF Escalated, RequestTransition
    <1> QED BY <1>1, <1>2

(* Applying a request keeps an escalation: FAILURE that leaves the channel is   *)
(* in force.                                                                    *)
LEMMA ApplyKeeps ==
    ASSUME SMTypeOK, Escalated, ApplyRequest
    PROVE  Escalated'
    <1>1. requests' = Tail(requests) /\ requests # <<>> /\ dropped' = dropped
        BY DEF ApplyRequest
    <1>2. CASE current = FAILURE \/ dropped
        BY <1>1, <1>2 DEF Escalated, ApplyRequest
    <1>3. CASE FAILURE \in Pending /\ current # FAILURE
        <2>1. PICK i \in DOMAIN requests : requests[i] = FAILURE
            BY <1>3 DEF Pending
        <2>2. CASE i = 1
            <3>1. Head(requests) = FAILURE
                BY <2>1, <2>2, <1>1 DEF SMTypeOK
            <3>2. FAILURE > current
                BY <1>3 DEF SMTypeOK, States, NOISE, FAILURE
            <3>3. current' = FAILURE
                BY <3>1, <3>2, <1>3 DEF ApplyRequest, Transition
            <3> QED BY <3>3 DEF Escalated
        <2>3. CASE i # 1
            <3>1. i - 1 \in DOMAIN requests' /\ requests'[i - 1] = FAILURE
                BY <1>1, <2>1, <2>3 DEF SMTypeOK
            <3> QED BY <3>1 DEF Pending, Escalated
        <2> QED BY <2>2, <2>3
    <1> QED BY <1>2, <1>3 DEF Escalated

(* Only a restart forgets an escalation.                                        *)
LEMMA EscalatedStays ==
    ASSUME IInv, [Next]_vars, Escalated
    PROVE  Escalated' \/ Restart
    <1> USE DEF IInv, TypeOK
    <1>1. ASSUME NEW p \in Procs, CloseFinish(p) PROVE Escalated'
        <2>1. CASE RequestTransition(FAILURE) /\ current' = current
            BY <2>1, RequestKeeps
        <2>2. CASE UNCHANGED smVars
            BY <2>2 DEF smVars, Escalated, Pending
        <2> QED BY <1>1, <2>1, <2>2 DEF CloseFinish
    <1>2. ASSUME PositionRisk PROVE Escalated'
        <2>1. CASE RequestTransition(FAILURE) /\ current' = current
            BY <2>1, RequestKeeps
        <2>2. CASE UNCHANGED <<requests, dropped, current>>
            BY <2>2 DEF Escalated, Pending
        <2> QED BY <1>2, <2>1, <2>2 DEF PositionRisk, smVars
    <1>3. ASSUME Compare PROVE Escalated'
        <2>1. CASE RequestTransition(FAILURE) /\ current' = current
            BY <2>1, RequestKeeps
        <2>2. CASE UNCHANGED smVars
            BY <2>2 DEF smVars, Escalated, Pending
        <2> QED BY <1>3, <2>1, <2>2 DEF Compare
    <1>4. ASSUME CaseARecord PROVE Escalated'
        BY <1>4, RequestKeeps DEF CaseARecord
    <1>5. ASSUME CaseBFinish PROVE Escalated'
        BY <1>5, RequestKeeps DEF CaseBFinish
    <1>6. ASSUME StateMachineRun PROVE Escalated'
        <2>1. CASE ApplyRequest
            BY <2>1, ApplyKeeps
        <2>2. CASE current = NOISE /\ Tick
            BY <2>2 DEF Tick, Escalated, Pending, NOISE, FAILURE
        <2> QED BY <1>6, <2>1, <2>2 DEF StateMachineRun
    <1>7. CASE UNCHANGED <<smVars>>
        BY <1>7 DEF smVars, Escalated, Pending
    <1> QED BY <1>1, <1>2, <1>3, <1>4, <1>5, <1>6, <1>7
        DEF Next, ExecNext, CloseNext, ReconNext, Signal, TryReversal, BeginClose,
            TryOpenAccept, TryOpenReject, OpenMarket, OpenReply, PlaceStopLoss,
            PlaceGuard, PlaceTakeProfit, GuardReply, ExitOnMarket, MonWait,
            ExitOnState, CheckAndExit, CancelSL, CancelTP, CloseSend, CloseRetry,
            CaseAClose, GuardTriggers, CooldownEnds, vars, smVars

(* The position of an opening has the signal's direction.                       *)
LEMMA OpenSign ==
    ASSUME NEW d \in {-1, 0, 1} PROVE Sign(d * Qty) = d
    BY QtyAssumption DEF Sign

(* The numbers of openings are naturals.                                        *)
LEMMA Numbers ==
    ASSUME IInv
    PROVE  /\ opens \in Nat /\ pos.gen \in Nat /\ snap["recon"].gen \in Nat
           /\ pos.sl \in Nat /\ pos.tp \in Nat
    BY BoundAssumption
    DEF IInv, TypeOK, LocalTypes, ProcTypes, ExchangeTypes, Positions, Gens, Procs

(* Each step keeps what is known of openings, guard orders and recon's copy.    *)
LEMMA GuardStep ==
    ASSUME IInv, LockInv, GuardInv, [Next]_vars
    PROVE  GuardInv'
    <1> USE DEF IInv, TypeOK, ProcTypes, LocalTypes, ExchangeTypes, Procs, Handlers,
                Positions, GuardInv, localVars, procVars, exVars
    <1>1. ASSUME NEW d \in Dirs, Signal(d) PROVE GuardInv'
        BY <1>1
        DEF Signal, Goto, GensInv, OpenedInv, PlacedInv, CaseInv,
            Placing, Order
    <1>2. ASSUME TryReversal PROVE GuardInv'
        BY <1>2
        DEF TryReversal, BeginClose, Goto, GensInv, OpenedInv,
            PlacedInv, CaseInv, Placing, Order
    <1>3. ASSUME TryOpenAccept PROVE GuardInv'
        BY <1>3
        DEF TryOpenAccept, Goto, GensInv, OpenedInv, PlacedInv,
            CaseInv, Placing, Order
    <1>4. ASSUME TryOpenReject PROVE GuardInv'
        BY <1>4
        DEF TryOpenReject, Goto, GensInv, OpenedInv, PlacedInv,
            CaseInv, Placing, Order
    <1>5. ASSUME OpenMarket PROVE GuardInv'
        <2>1. opens' = opens + 1 /\ UNCHANGED <<pos, snap>>
            BY <1>5 DEF OpenMarket
        <2>2. pc' = [pc EXCEPT !["exec"] = "openReply"]
            BY <1>5 DEF OpenMarket, Goto
        <2>3. GensInv'
            BY <2>1, Numbers DEF GensInv
        <2>4. OpenedInv'
            BY <2>1, <2>2, Numbers DEF GensInv, OpenedInv, Placing
        <2>5. PlacedInv' /\ CaseInv'
            BY <2>1, <2>2 DEF PlacedInv, CaseInv
        <2> QED BY <2>1, <2>2, <2>3, <2>4, <2>5
    <1>6. ASSUME OpenReply PROVE GuardInv'
        <2>1. pc["exec"] = "openReply" /\ opens # 0 /\ UNCHANGED <<snap, opens>>
            BY <1>6 DEF OpenReply, Registers, Opening
        <2>2. CASE reply["exec"] = "ok"
            <3>1. pos' = [amt |-> sig * Qty, gen |-> opens, sl |-> 0, tp |-> 0]
                BY <1>6, <2>2 DEF OpenReply
            <3>2. pc' = [pc EXCEPT !["exec"] = "slSend"] /\ sig' = sig
                BY <1>6, <2>2 DEF OpenReply, Goto
            <3>3. GensInv'
                BY <2>1, <3>1, Numbers DEF GensInv
            <3>4. OpenedInv'
                BY <2>1, <3>1, <3>2, OpenSign DEF GensInv, OpenedInv, Placing
            <3>5. PlacedInv' /\ CaseInv'
                BY <2>1, <3>1, <3>2 DEF OpenedInv, PlacedInv, CaseInv
            <3> QED BY <3>3, <3>4, <3>5
        <2>3. CASE reply["exec"] # "ok"
            BY <1>6, <2>1, <2>3
            DEF OpenReply, Goto, GensInv, OpenedInv, PlacedInv, CaseInv,
                Placing, Order
        <2> QED BY <2>1, <2>2, <2>3
    <1>7. ASSUME PlaceStopLoss PROVE GuardInv'
        BY <1>7
        DEF PlaceStopLoss, PlaceGuard, PlaceOrder, Goto, GensInv,
            OpenedInv, PlacedInv, CaseInv, Placing, Order
    <1>8. ASSUME PlaceTakeProfit PROVE GuardInv'
        BY <1>8
        DEF PlaceTakeProfit, PlaceGuard, PlaceOrder, Goto, GensInv,
            OpenedInv, PlacedInv, CaseInv, Placing, Order
    <1>9. ASSUME GuardReply PROVE GuardInv'
        BY <1>9
        DEF GuardReply, Goto, GensInv, OpenedInv, PlacedInv, CaseInv,
            Placing, Order
    <1>10. ASSUME ExitOnMarket PROVE GuardInv'
        BY <1>10
        DEF ExitOnMarket, MonWait, Goto, GensInv, OpenedInv,
            PlacedInv, CaseInv, Placing, Order
    <1>11. ASSUME ExitOnState PROVE GuardInv'
        BY <1>11
        DEF ExitOnState, MonWait, Goto, GensInv, OpenedInv, PlacedInv,
            CaseInv, Placing, Order
    <1>12. ASSUME CheckAndExit PROVE GuardInv'
        BY <1>12
        DEF CheckAndExit, BeginClose, Goto, GensInv, OpenedInv,
            PlacedInv, CaseInv, Placing, Order
    <1>13. ASSUME NEW p \in Procs, CancelSL(p) PROVE GuardInv'
        BY <1>13
        DEF CancelSL, Cancel, LockInv, Closing, Opening, Goto,
            GensInv, OpenedInv, PlacedInv, CaseInv, Placing, Order
    <1>14. ASSUME NEW p \in Procs, CancelTP(p) PROVE GuardInv'
        BY <1>14
        DEF CancelTP, Cancel, LockInv, Closing, Opening, Goto,
            GensInv, OpenedInv, PlacedInv, CaseInv, Placing, Order
    <1>15. ASSUME NEW p \in Procs, CloseSend(p) PROVE GuardInv'
        BY <1>15
        DEF CloseSend, Goto, GensInv, OpenedInv, PlacedInv, CaseInv,
            Placing, Order
    <1>16. ASSUME NEW p \in Procs, CloseRetry(p) PROVE GuardInv'
        BY <1>16
        DEF CloseRetry, Goto, GensInv, OpenedInv, PlacedInv, CaseInv,
            Placing, Order
    <1>17. ASSUME NEW p \in Procs, CloseFinish(p) PROVE GuardInv'
        <2>1. p \in {"exec", "mon"} /\ pc[p] = "closeReply" /\ pos' \in {pos, Flat}
            BY <1>17 DEF CloseFinish
        <2>2. UNCHANGED <<exOrders, consumed, opens, sig>>
            BY <1>17 DEF CloseFinish
        <2>3. snap' = [snap EXCEPT ![p] = Flat] /\ reply' = [reply EXCEPT ![p] = "none"]
            BY <1>17 DEF CloseFinish, Forget
        <2>4. pc' = [pc EXCEPT ![p] = After(p)] /\ After(p) \in {"openWait", "idle"}
            BY <1>17 DEF CloseFinish, Goto, After
        <2>5. GensInv'
            BY <2>1, <2>2, <2>3, Numbers DEF GensInv, Flat
        <2>6. OpenedInv'
            BY <2>1, <2>2, <2>3, <2>4 DEF OpenedInv, Placing, Flat
        <2>7. PlacedInv' /\ CaseInv'
            BY <2>1, <2>2, <2>3, <2>4 DEF PlacedInv, CaseInv, Order, Flat
        <2> QED BY <2>1, <2>2, <2>3, <2>4, <2>5, <2>6, <2>7
    <1>18. ASSUME PositionRisk PROVE GuardInv'
        BY <1>18
        DEF PositionRisk, Goto, GensInv, OpenedInv, PlacedInv,
            CaseInv, Placing, Order
    <1>19. ASSUME Compare PROVE GuardInv'
        <2>1. UNCHANGED <<pos, exOrders, consumed, opens, sig, reply>>
            BY <1>19 DEF Compare
        <2>2. \/ snap' = snap
              \/ pos.amt # 0 /\ snap' = [snap EXCEPT !["recon"] = pos]
              \/ snap' = [snap EXCEPT !["recon"] = [Flat EXCEPT !.amt = risk]]
            BY <1>19, Zenon DEF Compare, CaseA
        <2>3. \E l \in {"idle", "cancelSL", "closeSend"} :
                /\ pc' = [pc EXCEPT !["recon"] = l]
                /\ l = "closeSend" => snap'["recon"].gen = 0
            BY <1>19 DEF Compare, Goto, Flat
        <2>4. pc'["exec"] = pc["exec"] /\ pc'["recon"] # "caseARecord"
            BY <2>3
        <2>5. GensInv'
            BY <2>1, <2>2, Numbers DEF GensInv, Flat
        <2>6. OpenedInv'
            BY <2>1, <2>2, <2>4, Numbers
            DEF OpenedInv, Placing, Flat, Registers, Opening
        <2>7. PlacedInv' /\ CaseInv'
            BY <2>1, <2>2, <2>3, <2>4 DEF PlacedInv, CaseInv, Order
        <2> QED BY <2>1, <2>2, <2>3, <2>4, <2>5, <2>6, <2>7
    <1>20. ASSUME CaseAClose PROVE GuardInv'
        BY <1>20, BoundAssumption
        DEF CaseAClose, Flat, Goto, Gens, GensInv, OpenedInv,
            PlacedInv, CaseInv, Placing, Order
    <1>21. ASSUME CaseARecord PROVE GuardInv'
        <2>1. UNCHANGED <<pos, exOrders, consumed, opens, sig>>
            BY <1>21 DEF CaseARecord
        <2>2. /\ snap' = [snap EXCEPT !["recon"] = Flat]
              /\ reply' = [reply EXCEPT !["recon"] = "none"]
            BY <1>21 DEF CaseARecord, Forget
        <2>3. pc' = [pc EXCEPT !["recon"] = "idle"]
            BY <1>21 DEF CaseARecord, Goto
        <2>4. GensInv'
            BY <2>1, <2>2, Numbers DEF GensInv, Flat
        <2>5. OpenedInv'
            BY <2>1, <2>2, <2>3 DEF OpenedInv, Placing, Flat, Registers, Opening
        <2>6. PlacedInv' /\ CaseInv'
            BY <2>1, <2>2, <2>3 DEF PlacedInv, CaseInv, Order
        <2> QED BY <2>1, <2>2, <2>3, <2>4, <2>5, <2>6
    <1>22. ASSUME CaseBFinish PROVE GuardInv'
        BY <1>22, BoundAssumption
        DEF CaseBFinish, Forget, Flat, Registers, Opening, Goto, Gens,
            GensInv, OpenedInv, PlacedInv, CaseInv, Placing, Order
    <1>23. ASSUME NEW o \in exOrders, GuardTriggers(o) PROVE GuardInv'
        BY <1>23
        DEF GuardTriggers, GensInv, OpenedInv, PlacedInv, CaseInv,
            Placing, Order
    <1>24. ASSUME CooldownEnds PROVE GuardInv'
        BY <1>24
        DEF CooldownEnds, GensInv, OpenedInv, PlacedInv, CaseInv,
            Placing, Order
    <1>25. ASSUME StateMachineRun PROVE GuardInv'
        BY <1>25
        DEF StateMachineRun, GensInv, OpenedInv, PlacedInv, CaseInv,
            Placing, Order
    <1>26. ASSUME Restart PROVE GuardInv'
        BY <1>26
        DEF Restart, Flat, Gens, GensInv, OpenedInv, PlacedInv,
            CaseInv, Placing, Order
    <1>27. CASE UNCHANGED vars
        BY <1>27
        DEF vars, GensInv, OpenedInv, PlacedInv, CaseInv, Placing,
            Order
    <1> QED BY <1>1, <1>2, <1>3, <1>4, <1>5, <1>6, <1>7, <1>8, <1>9, <1>10,
        <1>11, <1>12, <1>13, <1>14, <1>15, <1>16, <1>17, <1>18, <1>19, <1>20,
        <1>21, <1>22, <1>23, <1>24, <1>25, <1>26, <1>27
        DEF Next, ExecNext, CloseNext, ReconNext

(* A request for FAILURE is accepted or dropped: either way it is remembered.   *)
LEMMA RequestEscalates ==
    ASSUME SMTypeOK, RequestTransition(FAILURE)
    PROVE  Escalated'
    <1>1. CASE Len(requests) < ReqCap
        <2>1. requests' = Append(requests, FAILURE) /\ requests \in Seq(Targets)
            BY <1>1 DEF RequestTransition, SMTypeOK
        <2>2. Len(requests) + 1 \in DOMAIN requests' /\ requests'[Len(requests) + 1] = FAILURE
            BY <2>1
        <2> QED BY <2>2 DEF Escalated, Pending
    <1>2. CASE ~(Len(requests) < ReqCap)
        BY <1>2 DEF RequestTransition, Escalated
    <1> QED BY <1>1, <1>2

(* Both guard orders of the position are known, and rest or have fired.         *)
Guarded ==
    /\ pos.sl = pos.gen /\ pos.tp = pos.gen
    /\ Guard("SL") \in exOrders \cup consumed
    /\ Guard("TP") \in exOrders \cup consumed

(* No step leaves a position unguarded: a handler that lets go of the lock has  *)
(* closed it, guarded it, or asked for FAILURE, and recon cancels guard orders  *)
(* of the opening it is about to forget only.                                   *)
LEMMA ProtectedStep ==
    ASSUME IInv, LockInv, GuardInv, Protected, [Next]_vars
    PROVE  Protected'
    <1> SUFFICES ASSUME pos'.amt # 0, hmu' = "free", snap'["recon"].gen # pos'.gen,
                        ~Escalated'
                 PROVE  Guarded'
        BY DEF Protected, Guarded, Guard
    <1> USE DEF IInv, TypeOK, ProcTypes, LocalTypes, Procs, Handlers, Positions,
                GuardInv, localVars, procVars, exVars
    <1>1. ~Restart
        BY DEF Restart, Flat
    <1>2. ~Escalated
        BY <1>1, EscalatedStays
    <1>3. pos.amt # 0 /\ hmu = "free" /\ snap["recon"].gen # pos.gen => Guarded
        BY <1>2 DEF Protected, Guarded
    <1>4. hmu = "free" => pc["exec"] \notin Closing \cup Opening
                          /\ pc["mon"] \notin Closing \cup Opening
        BY DEF LockInv
    <1>5. CASE UNCHANGED <<pos, hmu, snap, exOrders, consumed>>
        BY <1>3, <1>5 DEF Guarded, Guard
    <1>6. ~BeginClose("exec") /\ ~BeginClose("mon") /\ ~TryOpenAccept
        BY DEF BeginClose, TryOpenAccept
    <1>7. ~OpenReply
        BY <1>4 DEF OpenReply, Registers, Opening
    <1>8. ~PlaceStopLoss /\ ~PlaceTakeProfit
        BY <1>4 DEF PlaceStopLoss, PlaceTakeProfit, PlaceGuard, Opening
    <1>9. ASSUME GuardReply PROVE Guarded'
        <2>1. pc["exec"] = "guardReply" /\ UNCHANGED <<exOrders, consumed>>
            BY <1>9 DEF GuardReply
        <2>2. pos.amt # 0 /\ pos'.amt = pos.amt /\ pos'.gen = pos.gen
            BY <1>9 DEF GuardReply
        <2>3. reply["exec"] = "ok"
            BY <1>4, <1>9, <2>1, <2>2 DEF GuardReply, Opening, Goto
        <2>4. pos'.sl = opens /\ pos'.tp = opens
            BY <1>9, <2>3 DEF GuardReply
        <2>5. pos.gen = opens /\ Sign(pos.amt) = sig
            BY <2>1, <2>2 DEF OpenedInv, Placing
        <2>6. Guard("SL")' = Order("SL") /\ Guard("TP")' = Order("TP")
            BY <2>2, <2>5 DEF Guard, Order
        <2>7. /\ Order("SL") \in exOrders \cup consumed
              /\ Order("TP") \in exOrders \cup consumed
            BY <2>1, <2>3 DEF PlacedInv
        <2> QED BY <2>1, <2>2, <2>4, <2>5, <2>6, <2>7 DEF Guarded
    <1>10. ASSUME NEW p \in Procs, CancelSL(p) \/ CancelTP(p) PROVE Guarded'
        <2>1. UNCHANGED <<pos, hmu, snap, consumed>>
            BY <1>10 DEF CancelSL, CancelTP
        <2>2. p = "recon"
            BY <1>4, <1>10, <2>1 DEF CancelSL, CancelTP, Closing
        <2>3. \A o \in exOrders : o.gen = pos.gen => o \in exOrders'
            BY <1>10, <2>1, <2>2 DEF CancelSL, CancelTP, Cancel, GensInv
        <2>4. Guarded
            BY <1>3, <2>1
        <2> QED BY <2>1, <2>3, <2>4 DEF Guarded, Guard
    <1>11. ASSUME NEW p \in Procs PROVE ~CloseFinish(p)
        BY RequestEscalates DEF CloseFinish, Flat
    <1>12. ASSUME Compare PROVE Guarded'
        BY <1>3, <1>12 DEF Compare, CaseA, CaseB, Guarded, Guard
    <1>13. ~CaseAClose
        BY DEF CaseAClose, Flat
    <1>14. ASSUME CaseARecord \/ CaseBFinish PROVE Guarded'
        <2>1. UNCHANGED <<pos, hmu, exOrders, consumed>>
            BY <1>14 DEF CaseARecord, CaseBFinish
        <2>2. snap["recon"].gen # pos.gen
            BY <1>14, <2>1 DEF CaseARecord, CaseBFinish, CaseInv
        <2> QED BY <1>3, <2>1, <2>2 DEF Guarded, Guard
    <1>15. ASSUME NEW o \in exOrders, GuardTriggers(o) PROVE Guarded'
        BY <1>3, <1>15 DEF GuardTriggers, Guarded, Guard
    <1> QED BY <1>1, <1>5, <1>6, <1>7, <1>8, <1>9, <1>10, <1>11, <1>12, <1>13, <1>14, <1>15
        DEF Next, ExecNext, CloseNext, ReconNext, Signal, TryReversal, TryOpenReject,
            OpenMarket, ExitOnMarket, ExitOnState, MonWait, CheckAndExit, CloseSend,
            CloseRetry, PositionRisk, CooldownEnds, StateMachineRun, vars

(* A position that no handler is working on and recon is not about to forget    *)
(* has both guard orders, and knows them, or the worker has asked for FAILURE:  *)
(* whatever the order of the goroutines' steps and wherever calls fail.         *)
THEOREM PositionsProtected == Spec => []Protected
    <1>1. Init => GuardInv /\ Protected
        BY BoundAssumption
        DEF Init, GuardInv, GensInv, OpenedInv, PlacedInv, CaseInv, Placing, Protected,
            Flat, Procs
    <1>2. IInv /\ LockInv /\ GuardInv /\ Protected /\ [Next]_vars => GuardInv' /\ Protected'
        BY GuardStep, ProtectedStep
    <1> QED BY <1>1, <1>2, ExecutionInvariant, LockExclusive, PTL DEF Spec

--------------------------------------------------------------------------------
(* The refinement of TradeCycle, where open orders are always answered, nothing *)
(* restarts and reconciliation is quiet. The exchange then holds nothing or one *)
(* order, on the side the books say or exec is about to enter there.            *)
Definite == ~Reconciling /\ Faults \subseteq {"rejected", "lost", "cancel"}

Lot == QuantizeQty(Qty)

ExposureInv ==
    /\ pc["recon"] = "idle"
    /\ exAmt \in {0, Lot, -Lot} /\ pos.amt \in {0, Qty, -Qty}
    /\ \/ exAmt = 0
       \/ Sign(exAmt) = Sign(pos.amt)
       \/ pc["exec"] = "openReply" /\ reply["exec"] = "ok" /\ Sign(exAmt) = sig

(* Who closes works on the position there is; a close that was answered is one. *)
CloserInv ==
    \A p \in Handlers :
        /\ pc[p] \in Closing =>
              pos.amt # 0 /\ snap[p].amt = pos.amt /\ snap[p].gen = pos.gen
        /\ pc[p] = "closeReply" /\ reply[p] = "ok" => exAmt = 0

(* What is open, or being opened, is not booked yet.                            *)
BookedInv ==
    /\ pos.gen <= opens
    /\ \A g \in 1..MaxOpens :
          (g > opens \/ (g = opens /\ pc["exec"] = "openReply")
                     \/ (g = pos.gen /\ pos.amt # 0)) => booked[g] = 0

DefiniteInv == ExposureInv /\ CloserInv /\ BookedInv

(* An order that is sent is for something.                                      *)
LEMMA LotFacts == Lot \in Nat \ {0}
    <1>1. Lot \in Nat
        BY QuantizeNat, QtyAssumption DEF Lot
    <1> DEFINE k == Qty \div StepSize
    <1>2. k \in Nat
        BY QtyAssumption
    <1>3. k # 0
        BY QtyAssumption
    <1>4. \A m, n \in Nat \ {0} : m * n # 0
        OBVIOUS
    <1>5. Lot = k * StepSize
        BY DEF Lot, QuantizeQty
    <1> QED BY <1>1, <1>2, <1>3, <1>4, <1>5, QtyAssumption

(* A close sends the very quantity that is open: what executes leaves nothing.  *)
LEMMA CloseTakesAll ==
    ASSUME IInv, DefiniteInv, NEW p \in Handlers, CloseSend(p)
    PROVE  /\ exAmt' \in {exAmt, 0}
           /\ reply'[p] \in {"ok", "error"}
           /\ reply'[p] = "ok" => exAmt' = 0
    <1> DEFINE d == Sign(snap[p].amt)
    <1>1. snap[p].amt = pos.amt /\ pos.amt \in {Qty, -Qty}
        BY DEF CloseSend, DefiniteInv, CloserInv, ExposureInv, Closing
    <1>2. QuantizeQty(Abs(snap[p].amt)) = Lot
        BY <1>1, QtyAssumption DEF Lot, Abs
    <1>3. Sign(exAmt) = d => Reduced(d, Lot) = 0
        BY <1>1, LotFacts, QtyAssumption
        DEF DefiniteInv, ExposureInv, Reduced, Sign, Abs, Least
    <1>4. \/ Sign(exAmt) # d /\ exAmt' = exAmt /\ reply' = [reply EXCEPT ![p] = "error"]
          \/ /\ Sign(exAmt) = d
             /\ \E done \in BOOLEAN, r \in {"ok", "error"} :
                    /\ r = "ok" => done
                    /\ exAmt' = IF done THEN Reduced(d, Lot) ELSE exAmt
                    /\ reply' = [reply EXCEPT ![p] = r]
        BY <1>2 DEF CloseSend, PlaceOrder
    <1> QED BY <1>3, <1>4 DEF IInv, TypeOK, ProcTypes, Procs, Handlers

(* So does a guard order that fires.                                            *)
LEMMA GuardTakesAll ==
    ASSUME IInv, DefiniteInv, NEW o \in exOrders, GuardTriggers(o)
    PROVE  exAmt' \in {exAmt, 0}
    <1>1. o.dir \in {1, -1}
        BY DEF IInv, TypeOK, ExchangeTypes, Orders
    <1>2. exAmt' = Reduced(o.dir, Lot)
        BY DEF GuardTriggers, Lot
    <1> QED BY <1>1, <1>2, LotFacts DEF DefiniteInv, ExposureInv, Reduced, Sign, Abs, Least

(* Each step keeps what is known of exposure, closers and books.                *)
LEMMA DefiniteStep ==
    ASSUME Definite, IInv, LockInv, DefiniteInv, [Next]_vars
    PROVE  DefiniteInv'
    <1> USE DEF IInv, TypeOK, ProcTypes, LocalTypes, ExchangeTypes, Procs, Handlers,
                Positions, DefiniteInv, localVars, procVars, exVars
    <1>1. ASSUME NEW d \in Dirs, Signal(d) PROVE DefiniteInv'
        BY <1>1
        DEF Signal, Goto, ExposureInv, CloserInv, BookedInv, Closing,
            Opening
    <1>2. ASSUME TryReversal PROVE DefiniteInv'
        BY <1>2
        DEF TryReversal, BeginClose, LockInv, Goto, ExposureInv,
            CloserInv, BookedInv, Closing, Opening
    <1>3. ASSUME TryOpenAccept PROVE DefiniteInv'
        BY <1>3
        DEF TryOpenAccept, Goto, ExposureInv, CloserInv, BookedInv,
            Closing, Opening
    <1>4. ASSUME TryOpenReject PROVE DefiniteInv'
        BY <1>4
        DEF TryOpenReject, Goto, ExposureInv, CloserInv, BookedInv,
            Closing, Opening
    <1>5. ASSUME OpenMarket PROVE DefiniteInv'
        <2>1. pc["exec"] = "openSend" /\ pos.amt = 0 /\ exAmt = 0 /\ pc["mon"] \notin Closing
            BY <1>5, LotFacts DEF OpenMarket, Registers, ExposureInv, CloserInv, Sign
        <2>2. UNCHANGED <<pos, booked, sig, snap>> /\ opens' = opens + 1
              /\ pc' = [pc EXCEPT !["exec"] = "openReply"]
            BY <1>5 DEF OpenMarket, Goto
        <2>3. /\ reply'["exec"] = "ok" => exAmt' = sig * Lot
              /\ reply'["exec"] # "ok" => exAmt' = 0
            <3>1. PICK done \in BOOLEAN, r \in {"ok", "zero", "error"} :
                      /\ PlaceOrder(done, r, "lostOpen")
                      /\ exAmt' = IF done THEN exAmt + sig * Lot ELSE exAmt
                      /\ reply' = [reply EXCEPT !["exec"] = r]
                BY <1>5 DEF OpenMarket, Lot
            <3>2. "lostOpen" \notin Faults /\ "zero" \notin Faults
                BY DEF Definite
            <3>3. (done /\ r = "ok") \/ (~done /\ r = "error")
                BY <3>1, <3>2 DEF PlaceOrder, Fault
            <3>4. sig * Lot \in Int
                BY LotFacts
            <3> QED BY <2>1, <3>1, <3>3, <3>4
        <2>4. sig \in {1, -1}
            BY <2>1 DEF Registers, Opening
        <2>5. \/ exAmt' = 0
              \/ exAmt' \in {Lot, -Lot} /\ Sign(exAmt') = sig /\ reply'["exec"] = "ok"
            BY <2>3, <2>4, LotFacts DEF Sign
        <2>6. ExposureInv'
            BY <2>1, <2>2, <2>5, LotFacts DEF ExposureInv
        <2>7. CloserInv'
            BY <2>1, <2>2 DEF CloserInv, Closing
        <2>8. BookedInv'
            BY <2>1, <2>2, Numbers DEF BookedInv
        <2> QED BY <2>6, <2>7, <2>8
    <1>6. ASSUME OpenReply PROVE DefiniteInv'
        <2>1. pc["exec"] = "openReply" /\ pos.amt = 0 /\ opens # 0 /\ pc["mon"] \notin Closing
            BY <1>6 DEF OpenReply, Registers, Opening, CloserInv
        <2>2. UNCHANGED <<exAmt, booked, snap, opens>>
            BY <1>6 DEF OpenReply
        <2>3. CASE reply["exec"] = "ok"
            <3>1. pos' = [amt |-> sig * Qty, gen |-> opens, sl |-> 0, tp |-> 0] /\ sig' = sig
                  /\ pc' = [pc EXCEPT !["exec"] = "slSend"]
                BY <1>6, <2>3 DEF OpenReply, Goto
            <3>2. sig \in {1, -1}
                BY <2>1 DEF Registers, Opening
            <3>3. pos'.amt \in {Qty, -Qty} /\ Sign(pos'.amt) = sig
                BY <3>1, <3>2, OpenSign, QtyAssumption
            <3>4. exAmt = 0 \/ Sign(exAmt) = sig
                BY <2>1, LotFacts DEF ExposureInv, Sign
            <3>5. ExposureInv'
                BY <2>2, <3>1, <3>3, <3>4 DEF ExposureInv
            <3>6. CloserInv'
                BY <1>6, <2>1, <2>2, <3>1 DEF CloserInv, Closing
            <3>7. BookedInv'
                BY <2>1, <2>2, <3>1, Numbers DEF BookedInv
            <3> QED BY <3>5, <3>6, <3>7
        <2>4. CASE reply["exec"] # "ok"
            <3>1. pos' = pos /\ pc' = [pc EXCEPT !["exec"] = "idle"]
                BY <1>6, <2>4 DEF OpenReply, Goto
            <3>2. exAmt = 0
                BY <2>1, <2>4, LotFacts DEF ExposureInv, Sign
            <3> QED BY <2>1, <2>2, <3>1, <3>2 DEF ExposureInv, CloserInv, BookedInv, Closing
        <2> QED BY <2>3, <2>4
    <1>7. ASSUME PlaceStopLoss PROVE DefiniteInv'
        BY <1>7
        DEF PlaceStopLoss, PlaceGuard, Goto, ExposureInv, CloserInv,
            BookedInv, Closing, Opening
    <1>8. ASSUME PlaceTakeProfit PROVE DefiniteInv'
        BY <1>8
        DEF PlaceTakeProfit, PlaceGuard, Goto, ExposureInv, CloserInv,
            BookedInv, Closing, Opening
    <1>9. ASSUME GuardReply PROVE DefiniteInv'
        <2>1. UNCHANGED <<exAmt, booked, opens>> /\ pc["exec"] = "guardReply"
            BY <1>9 DEF GuardReply
        <2>2. pos'.amt = pos.amt /\ pos'.gen = pos.gen
            BY <1>9 DEF GuardReply
        <2>3. \/ pos.amt # 0 /\ pc' = [pc EXCEPT !["exec"] = "cancelSL"]
                 /\ snap' = [snap EXCEPT !["exec"] = pos']
              \/ pc' = [pc EXCEPT !["exec"] = "idle"] /\ UNCHANGED snap
            BY <1>9 DEF GuardReply, Goto
        <2>4. reply' = [reply EXCEPT !["exec"] = "none"]
            BY <1>9 DEF GuardReply
        <2>5. ExposureInv' /\ BookedInv'
            BY <2>1, <2>2, <2>3 DEF ExposureInv, BookedInv
        <2>6. CloserInv'
            BY <2>1, <2>2, <2>3, <2>4 DEF CloserInv, Closing
        <2> QED BY <2>5, <2>6
    <1>10. ASSUME ExitOnMarket PROVE DefiniteInv'
        BY <1>10
        DEF ExitOnMarket, MonWait, Goto, ExposureInv, CloserInv,
            BookedInv, Closing, Opening
    <1>11. ASSUME ExitOnState PROVE DefiniteInv'
        BY <1>11
        DEF ExitOnState, MonWait, Goto, ExposureInv, CloserInv,
            BookedInv, Closing, Opening
    <1>12. ASSUME CheckAndExit PROVE DefiniteInv'
        BY <1>12
        DEF CheckAndExit, BeginClose, LockInv, Goto, ExposureInv,
            CloserInv, BookedInv, Closing, Opening
    <1>13. ASSUME NEW p \in Handlers, CancelSL(p) PROVE DefiniteInv'
        BY <1>13
        DEF CancelSL, Goto, ExposureInv, CloserInv, BookedInv,
            Closing, Opening
    <1>14. ASSUME NEW p \in Handlers, CancelTP(p) PROVE DefiniteInv'
        BY <1>14
        DEF CancelTP, Goto, ExposureInv, CloserInv, BookedInv,
            Closing, Opening
    <1>15. ASSUME NEW p \in Handlers, CloseSend(p) PROVE DefiniteInv'
        <2>1. UNCHANGED <<pos, booked, sig, snap, opens>>
            BY <1>15 DEF CloseSend
        <2>2. pc[p] = "closeSend" /\ pc' = [pc EXCEPT ![p] = "closeReply"]
              /\ \E r \in {"ok", "error"} : reply' = [reply EXCEPT ![p] = r]
            BY <1>15 DEF CloseSend, Goto
        <2>3. exAmt' \in {exAmt, 0} /\ (reply'[p] = "ok" => exAmt' = 0)
            BY <1>15, CloseTakesAll
        <2>4. ExposureInv'
            BY <2>1, <2>2, <2>3 DEF ExposureInv
        <2>5. CloserInv' /\ BookedInv'
            BY <2>1, <2>2, <2>3 DEF CloserInv, BookedInv, Closing
        <2> QED BY <2>4, <2>5
    <1>16. ASSUME NEW p \in Handlers, CloseRetry(p) PROVE DefiniteInv'
        BY <1>16
        DEF CloseRetry, Goto, ExposureInv, CloserInv, BookedInv,
            Closing, Opening
    <1>17. ASSUME NEW p \in Handlers, CloseFinish(p) PROVE DefiniteInv'
        <2>1. UNCHANGED <<exAmt, sig, opens>> /\ pc[p] = "closeReply"
              /\ snap' = [snap EXCEPT ![p] = Flat] /\ reply' = [reply EXCEPT ![p] = "none"]
            BY <1>17 DEF CloseFinish, Forget
        <2>2. pc' = [pc EXCEPT ![p] = After(p)] /\ After(p) \in {"openWait", "idle"}
            BY <1>17 DEF CloseFinish, Goto, After
        <2>3. \A q \in Handlers \ {p} : pc[q] \notin Closing \cup Opening
            BY <2>1 DEF LockInv, Closing, Opening
        <2>4. \/ UNCHANGED <<pos, booked>>
              \/ /\ reply[p] = "ok" /\ pos' = Flat
                 /\ booked' = [booked EXCEPT ![snap[p].gen] = @ + 1]
            BY <1>17 DEF CloseFinish
        <2>5. CloserInv'
            BY <2>1, <2>2, <2>3 DEF CloserInv, Closing
        <2>6. CASE UNCHANGED <<pos, booked>>
            BY <2>1, <2>2, <2>5, <2>6 DEF ExposureInv, BookedInv
        <2>7. CASE /\ reply[p] = "ok" /\ pos' = Flat
                   /\ booked' = [booked EXCEPT ![snap[p].gen] = @ + 1]
            <3>1. exAmt = 0 /\ snap[p].gen = pos.gen /\ pos'.amt = 0 /\ pos'.gen = 0
                BY <2>1, <2>7 DEF CloserInv, Closing, Flat
            <3>2. ExposureInv'
                BY <2>1, <2>2, <3>1 DEF ExposureInv
            <3>3. BookedInv'
                BY <2>1, <2>2, <2>3, <2>7, <3>1, Numbers DEF BookedInv, Opening
            <3> QED BY <2>5, <3>2, <3>3
        <2> QED BY <2>4, <2>6, <2>7
    <1>18. ASSUME NEW o \in exOrders, GuardTriggers(o) PROVE DefiniteInv'
        BY <1>18, GuardTakesAll
        DEF GuardTriggers, ExposureInv, CloserInv, BookedInv, Closing,
            Opening
    <1>19. ASSUME CooldownEnds PROVE DefiniteInv'
        BY <1>19
        DEF CooldownEnds, ExposureInv, CloserInv, BookedInv, Closing,
            Opening
    <1>20. ASSUME StateMachineRun PROVE DefiniteInv'
        BY <1>20
        DEF StateMachineRun, ExposureInv, CloserInv, BookedInv,
            Closing, Opening
    <1>21. CASE UNCHANGED vars
        BY <1>21
        DEF vars, ExposureInv, CloserInv, BookedInv, Closing, Opening
    <1>22. ~ReconNext /\ ~Restart
        BY DEF Definite, ReconNext, PositionRisk, Compare, CaseAClose, CaseARecord,
               CaseBFinish, Restart, Fault, ExposureInv
    <1>23. ASSUME NEW p \in Procs, CloseNext(p) PROVE p \in Handlers /\ CloseNext(p)
        BY <1>23 DEF CloseNext, CancelSL, CancelTP, CloseSend, CloseRetry, CloseFinish,
               ExposureInv
    <1> QED BY <1>1, <1>2, <1>3, <1>4, <1>5, <1>6, <1>7, <1>8, <1>9, <1>10,
        <1>11, <1>12, <1>13, <1>14, <1>15, <1>16, <1>17, <1>18, <1>19, <1>20,
        <1>21, <1>22, <1>23
        DEF Next, ExecNext, CloseNext

(* A step that keeps or empties the exposure and touches neither the books nor  *)
(* the reply awaited is a Leave or a stutter.                                   *)
LEMMA LeaveOrStutter ==
    ASSUME IInv, DefiniteInv, exAmt' \in {exAmt, 0}, UNCHANGED booked, pos'.amt = pos.amt,
           (pc'["exec"] = "openReply" /\ reply'["exec"] = "ok")
               <=> (pc["exec"] = "openReply" /\ reply["exec"] = "ok")
    PROVE  Cycle!Next \/ UNCHANGED Cycle!tradeVars
    <1>1. CASE exAmt' = exAmt
        BY <1>1 DEF Cycle!tradeVars, Owed
    <1>2. CASE exAmt # 0 /\ exAmt' = 0
        <2>1. Sign(exAmt) # 0 /\ Sign(exAmt') = 0
            BY <1>2, LotFacts DEF DefiniteInv, ExposureInv, Sign
        <2>2. pos.amt # 0 \/ (pc["exec"] = "openReply" /\ reply["exec"] = "ok")
            BY <1>2, <2>1 DEF DefiniteInv, ExposureInv, Sign
        <2>3. Owed'
            BY <1>2, <2>2 DEF Owed
        <2> QED BY <2>1, <2>3 DEF Cycle!Next, Cycle!Leave, Sign
    <1> QED BY <1>1, <1>2

(* Every step of the execution layer is one of TradeCycle or leaves it alone.   *)
LEMMA CycleStep ==
    ASSUME Definite, IInv, LockInv, DefiniteInv, [Next]_vars
    PROVE  [Cycle!Next]_(Cycle!tradeVars)
    <1> DEFINE Goal == Cycle!Next \/ UNCHANGED Cycle!tradeVars
               Awaited == pc["exec"] = "openReply" /\ reply["exec"] = "ok"
               Quiet == exAmt' \in {exAmt, 0} /\ UNCHANGED booked /\ pos'.amt = pos.amt
                        /\ (Awaited' <=> Awaited)
    <1> USE DEF IInv, TypeOK, ProcTypes, LocalTypes, ExchangeTypes, Procs, Handlers,
                Positions, DefiniteInv, localVars, procVars, exVars
    <1>1. ASSUME Quiet PROVE Goal
        BY <1>1, LeaveOrStutter
    <1>2. ASSUME OpenMarket PROVE Goal
        <2>1. pc["exec"] = "openSend" /\ pos.amt = 0 /\ exAmt = 0 /\ sig \in {1, -1}
            BY <1>2, LotFacts DEF OpenMarket, Registers, Opening, ExposureInv, Sign
        <2>2. UNCHANGED <<pos, booked>> /\ pc'["exec"] = "openReply"
            BY <1>2 DEF OpenMarket, Goto
        <2>3. exAmt' = 0 \/ (exAmt' # 0 /\ Sign(exAmt') = sig)
            <3>1. DefiniteInv' /\ sig' = sig
                BY <1>2, DefiniteStep DEF OpenMarket
            <3> QED BY <2>1, <2>2, <3>1, LotFacts DEF ExposureInv, Sign
        <2>4. CASE exAmt' # 0
            <3>1. Sign(exAmt) = 0 /\ Sign(exAmt') = sig /\ ~Owed /\ ~Owed'
                BY <2>1, <2>3, <2>4 DEF Owed, Sign
            <3>2. Owed' = Owed
                BY <3>1 DEF Owed
            <3> QED BY <2>1, <2>2, <3>1, <3>2 DEF Cycle!Next, Cycle!Enter
        <2>5. CASE exAmt' = 0
            <3>1. reply'["exec"] # "ok"
                <4>1. PICK done \in BOOLEAN, r \in {"ok", "zero", "error"} :
                          /\ PlaceOrder(done, r, "lostOpen")
                          /\ exAmt' = IF done THEN exAmt + sig * Lot ELSE exAmt
                          /\ reply' = [reply EXCEPT !["exec"] = r]
                    BY <1>2 DEF OpenMarket, Lot
                <4>2. r = "ok" => exAmt' = sig * Lot
                    BY <2>1, <4>1, LotFacts DEF PlaceOrder
                <4>3. sig * Lot # 0
                    BY <2>1, LotFacts
                <4> QED BY <2>5, <4>1, <4>2, <4>3
            <3>2. Owed' = Owed
                BY <2>1, <2>2, <3>1 DEF Owed
            <3> QED BY <2>1, <2>2, <2>5, <3>2 DEF Cycle!tradeVars
        <2> QED BY <2>4, <2>5
    <1>3. ASSUME OpenReply PROVE Goal
        <2>1. pc["exec"] = "openReply" /\ pos.amt = 0 /\ sig \in {1, -1}
            BY <1>3 DEF OpenReply, Registers, Opening
        <2>2. UNCHANGED <<exAmt, booked>> /\ pc'["exec"] # "openReply"
            BY <1>3 DEF OpenReply, Goto
        <2>3. CASE reply["exec"] = "ok"
            <3>1. pos'.amt # 0
                BY <1>3, <2>1, <2>3, QtyAssumption DEF OpenReply
            <3> QED BY <2>1, <2>2, <2>3, <3>1 DEF Cycle!tradeVars, Owed
        <2>4. CASE reply["exec"] # "ok"
            <3>1. pos' = pos
                BY <1>3, <2>4 DEF OpenReply
            <3> QED BY <2>1, <2>2, <2>4, <3>1 DEF Cycle!tradeVars, Owed
        <2> QED BY <2>3, <2>4
    <1>4. ASSUME NEW p \in Handlers, CloseSend(p) PROVE Goal
        <2>1. exAmt' \in {exAmt, 0}
            BY <1>4, CloseTakesAll
        <2>2. UNCHANGED <<pos, booked>> /\ (Awaited' <=> Awaited)
            BY <1>4 DEF CloseSend, Goto
        <2> QED BY <1>1, <2>1, <2>2
    <1>5. ASSUME NEW o \in exOrders, GuardTriggers(o) PROVE Goal
        BY <1>1, <1>5, GuardTakesAll DEF GuardTriggers
    <1>6. ASSUME NEW p \in Handlers, CloseFinish(p) PROVE Goal
        <2>1. exAmt' = exAmt /\ pc[p] = "closeReply"
              /\ pc' = [pc EXCEPT ![p] = After(p)] /\ After(p) \in {"openWait", "idle"}
            BY <1>6 DEF CloseFinish, Goto, After
        <2>2. pc["exec"] # "openReply" /\ pc'["exec"] # "openReply"
            BY <2>1 DEF LockInv, Closing, Opening
        <2>3. CASE UNCHANGED <<pos, booked>>
            BY <1>1, <2>1, <2>2, <2>3
        <2>4. CASE /\ reply[p] = "ok" /\ pos' = Flat
                   /\ booked' = [booked EXCEPT ![snap[p].gen] = @ + 1]
            <3>1. exAmt = 0 /\ pos.amt # 0 /\ snap[p].gen = pos.gen
                BY <2>1, <2>4 DEF CloserInv, Closing
            <3>2. pos.gen \in 1..MaxOpens
                BY <3>1, BoundAssumption DEF Gens
            <3>3. booked[pos.gen] = 0
                BY <3>1, <3>2 DEF BookedInv
            <3>4. booked' = [booked EXCEPT ![pos.gen] = 1]
                BY <2>4, <3>1, <3>3
            <3>5. Owed /\ Owed' = FALSE /\ Sign(exAmt') = Sign(exAmt)
                BY <2>1, <2>2, <2>4, <3>1 DEF Owed, Flat
            <3> QED BY <3>2, <3>3, <3>4, <3>5 DEF Cycle!Next, Cycle!Book
        <2> QED BY <1>6, <2>3, <2>4 DEF CloseFinish
    <1>7. ASSUME NEW d \in Dirs, Signal(d) PROVE Goal
        BY <1>1, <1>7 DEF Signal, Goto
    <1>8. ASSUME TryReversal \/ TryOpenAccept \/ TryOpenReject PROVE Goal
        BY <1>1, <1>8 DEF TryReversal, BeginClose, TryOpenAccept, TryOpenReject, Goto
    <1>9. ASSUME PlaceStopLoss \/ PlaceTakeProfit \/ GuardReply PROVE Goal
        BY <1>1, <1>9 DEF PlaceStopLoss, PlaceTakeProfit, PlaceGuard, GuardReply, Goto
    <1>10. ASSUME ExitOnMarket \/ ExitOnState \/ CheckAndExit PROVE Goal
        BY <1>1, <1>10 DEF ExitOnMarket, ExitOnState, MonWait, CheckAndExit, BeginClose, Goto
    <1>11. ASSUME NEW p \in Handlers, CancelSL(p) \/ CancelTP(p) \/ CloseRetry(p) PROVE Goal
        BY <1>1, <1>11 DEF CancelSL, CancelTP, CloseRetry, Goto
    <1>12. ASSUME CooldownEnds \/ StateMachineRun \/ UNCHANGED vars PROVE Goal
        BY <1>1, <1>12 DEF CooldownEnds, StateMachineRun, vars
    <1>13. ~ReconNext /\ ~Restart
        BY DEF Definite, ReconNext, PositionRisk, Compare, CaseAClose, CaseARecord,
               CaseBFinish, Restart, Fault, ExposureInv
    <1>14. ASSUME NEW p \in Procs, CloseNext(p) PROVE p \in Handlers /\ CloseNext(p)
        BY <1>14 DEF CloseNext, CancelSL, CancelTP, CloseSend, CloseRetry, CloseFinish,
               ExposureInv
    <1> QED BY <1>2, <1>3, <1>4, <1>5, <1>6, <1>7, <1>8, <1>9, <1>10, <1>11, <1>12, <1>13,
               <1>14
        DEF Next, ExecNext, CloseNext

(* Where open orders are answered, nothing restarts and reconciliation is quiet,*)
(* what is known of the exposure holds throughout.                              *)
LEMMA DefiniteAlways ==
    ASSUME Definite PROVE Spec => []DefiniteInv
    <1>1. Init => DefiniteInv
        BY BoundAssumption
        DEF Init, DefiniteInv, ExposureInv, CloserInv, BookedInv, Flat, Procs, Handlers, Closing
    <1>2. IInv /\ LockInv /\ DefiniteInv /\ [Next]_vars => DefiniteInv'
        BY DefiniteStep
    <1> QED BY <1>1, <1>2, ExecutionInvariant, LockExclusive, PTL DEF Spec

(* There the execution layer implements TradeCycle: whatever the guard orders,  *)
(* the monitor, reversals, retries and failed closes or cancels do, one trade   *)
(* follows the other and each is booked exactly once.                           *)
THEOREM ExecutionIsTradeCycle ==
    ASSUME Definite PROVE Spec => ImplementsTradeCycle
    <1>1. Init => Cycle!Init
        BY DEF Init, Cycle!Init, Owed, Sign, Flat, Procs
    <1>2. IInv /\ LockInv /\ DefiniteInv /\ [Next]_vars => [Cycle!Next]_(Cycle!tradeVars)
        BY CycleStep
    <1> QED BY <1>1, <1>2, ExecutionInvariant, LockExclusive, DefiniteAlways, PTL
        DEF Spec, ImplementsTradeCycle, Cycle!Spec

(* There the exposure stays within one order, as the single-position constraint *)
(* of the position manager promises.                                            *)
THEOREM ExposureIsSingle ==
    ASSUME Definite PROVE Spec => []SinglePosition
    <1>1. IInv /\ DefiniteInv => SinglePosition
        BY LotFacts DEF DefiniteInv, ExposureInv, SinglePosition, Lot, Abs
    <1> QED BY <1>1, ExecutionInvariant, DefiniteAlways, PTL

--------------------------------------------------------------------------------
(* The worker as the others see it: a TradeLock, by the mapping in MCExecution,  *)
(* and a StateMachine between restarts, which forget the state.                 *)

(* A step that is none of TradeLock: the four mapped variables keep their value.*)
Still == UNCHANGED <<current, LockedFor, Holding, CaseAStage>>

(* Such a step is a stutter of TradeLock.                                       *)
LEMMA StillStutters == Still => UNCHANGED Trading!lockVars
    BY DEF Still, Trading!lockVars

(* Functions on the one worker are changed as its value is.                     *)
LEMMA Singleton ==
    ASSUME NEW a, NEW b
    PROVE  /\ "worker" \in This
           /\ [w \in This |-> a]["worker"] = a
           /\ [[w \in This |-> a] EXCEPT !["worker"] = b] = [w \in This |-> b]
    BY DEF This

(* What each action of TradeLock asks of the one worker: it takes the lock to   *)
(* open from a flat position in a state that allows it;                         *)
LEMMA MapBeginOpen ==
    ASSUME LockedFor = "free", ~Holding, CanOpen, LockedFor' = "opening",
           UNCHANGED <<current, Holding, CaseAStage>>
    PROVE  Trading!BeginOpen("worker")
    <1>1. Trading!MayOpen(current) <=> MayOpen(current)
        BY DEF Trading!MayOpen, MayOpen, STABLE, Trading!STABLE, STRESS, Trading!STRESS
    <1>2. Trading!Openable("worker")
        BY <1>1, Singleton DEF Trading!Openable, CanOpen, Holding
    <1> QED BY <1>2, Singleton DEF Trading!BeginOpen

(* it ends an opening, or turns it into an emergency close;                     *)
LEMMA MapOpenEnds ==
    ASSUME LockedFor = "opening", 
           LockedFor' = "free" \/ (LockedFor' = "closing" /\ Holding'),
           UNCHANGED <<current, CaseAStage>>
    PROVE  Trading!OpenEnds("worker")
    <1>1. Holding' \in BOOLEAN
        BY DEF Holding
    <1>2. \E emergency \in BOOLEAN :
             LockedFor' = IF Holding' /\ emergency THEN "closing" ELSE "free"
        BY DEF Holding
    <1>3. [w \in This |-> Holding'] = [[w \in This |-> Holding] EXCEPT !["worker"] = Holding']
        BY Singleton
    <1>5. \E emergency \in BOOLEAN :
             [w \in This |-> LockedFor'] =
                 [[w \in This |-> LockedFor] EXCEPT !["worker"] =
                     IF Holding' /\ emergency THEN "closing" ELSE "free"]
        <2>1. PICK emergency \in BOOLEAN :
                 LockedFor' = IF Holding' /\ emergency THEN "closing" ELSE "free"
            BY <1>2, Zenon
        <2>2. [w \in This |-> LockedFor'] =
                  [[w \in This |-> LockedFor] EXCEPT !["worker"] = LockedFor']
            BY Singleton
        <2> QED BY <2>1, <2>2, Zenon
    <1>4. [w \in This |-> LockedFor]["worker"] = "opening"
        BY Singleton
    <1> QED BY <1>1, <1>3, <1>4, <1>5, Zenon DEF Trading!OpenEnds

(* it takes the lock to close an open position;                                 *)
LEMMA MapBeginClose ==
    ASSUME LockedFor = "free", Holding, LockedFor' = "closing",
           UNCHANGED <<current, Holding, CaseAStage>>
    PROVE  Trading!BeginClose("worker")
    BY Singleton DEF Trading!BeginClose

(* it gives the lock back with the position reset, or as it was;                *)
LEMMA MapCloseEnds ==
    ASSUME LockedFor = "closing", LockedFor' = "free", UNCHANGED <<current, CaseAStage>>
    PROVE  /\ ~Holding' => Trading!CloseSucceeds("worker")
           /\ (Holding' = Holding) => Trading!CloseFails("worker")
    BY Singleton DEF Trading!CloseSucceeds, Trading!CloseFails, Holding

(* recon sees a position the exchange does not hold,                            *)
LEMMA MapFindCaseA ==
    ASSUME CaseAStage = "idle", Holding \/ LockedFor = "opening", CaseAStage' = "reset",
           UNCHANGED <<current, LockedFor, Holding>>
    PROVE  Trading!FindCaseA("worker")
    BY Singleton DEF Trading!FindCaseA, Holding

(* resets it whoever has the lock,                                              *)
LEMMA MapResetCaseA ==
    ASSUME CaseAStage = "reset", CaseAStage' = "record", ~Holding',
           UNCHANGED <<current, LockedFor>>
    PROVE  Trading!ResetCaseA("worker")
    BY Singleton DEF Trading!ResetCaseA, Holding

(* and books when the lock is free;                                             *)
LEMMA MapRecordCaseA ==
    ASSUME CaseAStage = "record", LockedFor = "free", CaseAStage' = "idle",
           UNCHANGED <<current, LockedFor, Holding>>
    PROVE  Trading!RecordCaseA("worker")
    BY Singleton DEF Trading!RecordCaseA

(* and the state rises.                                                         *)
LEMMA MapEscalate ==
    ASSUME current' > current, UNCHANGED <<LockedFor, Holding, CaseAStage>>
    PROVE  Trading!Escalate("worker", current')
    BY Singleton DEF Trading!Escalate

(* A restart forgets all four.                                                  *)
LEMMA MapRestart ==
    ASSUME current' = NOISE, LockedFor' = "free", ~Holding', CaseAStage' = "idle"
    PROVE  Trading!Restart("worker")
    <1>1. Holding' = FALSE /\ Trading!NOISE = NOISE
        BY DEF Holding, NOISE, Trading!NOISE
    <1>2. [w \in This |-> current'] = [[w \in This |-> current] EXCEPT !["worker"] = NOISE]
        BY Singleton
    <1>3. [w \in This |-> LockedFor'] = [[w \in This |-> LockedFor] EXCEPT !["worker"] = "free"]
        BY Singleton
    <1>4. [w \in This |-> Holding'] = [[w \in This |-> Holding] EXCEPT !["worker"] = FALSE]
        BY <1>1, Singleton
    <1>5. [w \in This |-> CaseAStage'] =
              [[w \in This |-> CaseAStage] EXCEPT !["worker"] = "idle"]
        BY Singleton
    <1> QED BY <1>1, <1>2, <1>3, <1>4, <1>5, Zenon DEF Trading!Restart

(* Run's steps leave the state or raise it.                                     *)
LEMMA RunRaises ==
    ASSUME SMTypeOK, StateMachineRun
    PROVE  UNCHANGED current \/ (current' \in States /\ current' > current)
    <1>1. CASE ApplyRequest
        <2>1. Head(requests) \in Targets
            BY <1>1 DEF ApplyRequest, SMTypeOK
        <2>2. \A s \in Targets : s \in States
            BY DEF Targets, States, NOISE, STRESS, DEGRADATION, FAILURE
        <2> QED BY <1>1, <2>1, <2>2 DEF ApplyRequest, Transition
    <1>2. CASE current = NOISE /\ Tick
        BY <1>2 DEF Tick, Transition, States, NOISE, STABLE, FAILURE
    <1> QED BY <1>1, <1>2 DEF StateMachineRun

(* Every step of a worker is a step of TradeLock, or none.                      *)
LEMMA TradingStep ==
    ASSUME IInv, LockInv, [Next]_vars
    PROVE  [Trading!LockNext]_(Trading!lockVars)
    <1> DEFINE Goal == [Trading!LockNext]_(Trading!lockVars)
    <1> USE DEF Procs, Handlers
    <1>1. pc \in [Procs -> Labels]
        BY DEF IInv, TypeOK, ProcTypes
    <1>2. Still => Goal
        BY StillStutters
    <1>3. "worker" \in This
        BY DEF This
    <1>4. ASSUME NEW d \in Dirs, Signal(d) PROVE Still
        BY <1>1, <1>4 DEF Signal, Goto, Still, LockedFor, Holding, CaseAStage, Opening,
            localVars, smVars
    <1>5. ASSUME TryReversal PROVE Trading!BeginClose("worker") \/ Still
        <2>1. CASE pos.amt # 0 /\ BeginClose("exec")
            <3>1. LockedFor = "free" /\ Holding
                BY <1>5, <2>1 DEF TryReversal, LockedFor, Holding, Opening
            <3>2. LockedFor' = "closing" /\ Holding'
                BY <1>1, <1>5, <2>1 DEF TryReversal, BeginClose, Goto, LockedFor, Holding,
                    Opening, localVars
            <3>3. UNCHANGED <<current, CaseAStage>>
                BY <1>1, <1>5, <2>1 DEF TryReversal, BeginClose, Goto, CaseAStage, smVars
            <3> QED BY <3>1, <3>2, <3>3, MapBeginClose DEF Holding
        <2>2. CASE pos.amt = 0 /\ Goto("exec", "openWait") /\ UNCHANGED hmu
            BY <1>1, <1>5, <2>2 DEF TryReversal, Goto, Still, LockedFor, Holding, CaseAStage,
                Opening, localVars, smVars
        <2> QED BY <1>5, <2>1, <2>2 DEF TryReversal
    <1>6. ASSUME TryOpenAccept PROVE Trading!BeginOpen("worker")
        <2>1. LockedFor = "free" /\ ~Holding /\ CanOpen
            BY <1>6 DEF TryOpenAccept, Admitted, LockedFor, Holding
        <2>2. LockedFor' = "opening" /\ ~Holding'
            BY <1>1, <1>6 DEF TryOpenAccept, Goto, LockedFor, Holding, Opening
        <2>3. UNCHANGED <<current, CaseAStage>>
            BY <1>1, <1>6 DEF TryOpenAccept, Goto, CaseAStage, smVars
        <2> QED BY <2>1, <2>2, <2>3, MapBeginOpen DEF Holding
    <1>7. ASSUME TryOpenReject PROVE Still
        BY <1>1, <1>7 DEF TryOpenReject, Goto, Still, LockedFor, Holding, CaseAStage,
            Opening, localVars, smVars
    <1>8. ASSUME OpenMarket \/ PlaceStopLoss \/ PlaceTakeProfit PROVE Still
        BY <1>1, <1>8 DEF OpenMarket, PlaceStopLoss, PlaceTakeProfit, PlaceGuard, Goto,
            Still, LockedFor, Holding, CaseAStage, Opening, localVars, smVars
    <1>9. ASSUME OpenReply PROVE Trading!OpenEnds("worker") \/ Still
        <2>1. hmu = "exec" /\ LockedFor = "opening" /\ ~Holding
            BY <1>9 DEF OpenReply, LockInv, LockedFor, Holding, Opening
        <2>2. UNCHANGED <<current, CaseAStage>>
            BY <1>1, <1>9 DEF OpenReply, Goto, CaseAStage, smVars
        <2>3. CASE Goto("exec", "slSend") /\ UNCHANGED hmu
            <3>1. LockedFor' = "opening" /\ ~Holding'
                BY <1>1, <2>1, <2>3 DEF Goto, LockedFor, Holding, Opening
            <3> QED BY <2>1, <2>2, <3>1 DEF Still, Holding
        <2>4. CASE hmu' = "free"
            BY <2>1, <2>2, <2>4, MapOpenEnds DEF LockedFor
        <2> QED BY <1>9, <2>3, <2>4 DEF OpenReply
    <1>10. ASSUME GuardReply PROVE Trading!OpenEnds("worker")
        <2>1. hmu = "exec" /\ LockedFor = "opening"
            BY <1>10 DEF GuardReply, LockInv, LockedFor, Opening
        <2>2. UNCHANGED <<current, CaseAStage>>
            BY <1>1, <1>10 DEF GuardReply, Goto, CaseAStage, smVars
        <2>3. CASE pos.amt # 0 /\ Goto("exec", "cancelSL") /\ UNCHANGED hmu
            <3>1. pos'.amt # 0
                BY <1>10, <2>3 DEF GuardReply, IInv, TypeOK, LocalTypes, Positions
            <3>2. LockedFor' = "closing" /\ Holding'
                BY <1>1, <2>1, <2>3, <3>1 DEF Goto, LockedFor, Holding, Opening
            <3> QED BY <2>1, <2>2, <3>2, MapOpenEnds
        <2>4. CASE hmu' = "free"
            BY <2>1, <2>2, <2>4, MapOpenEnds DEF LockedFor
        <2> QED BY <1>10, <2>3, <2>4 DEF GuardReply
    <1>11. ASSUME ExitOnMarket \/ ExitOnState PROVE Still
        BY <1>1, <1>11 DEF ExitOnMarket, ExitOnState, MonWait, Goto, Still, LockedFor,
            Holding, CaseAStage, Opening, localVars, smVars
    <1>12. ASSUME CheckAndExit PROVE Trading!BeginClose("worker") \/ Still
        <2>1. hmu = "free" /\ pc["exec"] \notin Opening /\ UNCHANGED pos
            BY <1>12 DEF CheckAndExit, LockInv, localVars
        <2>2. UNCHANGED <<current, CaseAStage>> /\ pc'["exec"] = pc["exec"]
            BY <1>1, <1>12 DEF CheckAndExit, BeginClose, Goto, CaseAStage, smVars
        <2>3. CASE pos.amt # 0 /\ hmu' = "mon"
            <3>1. LockedFor = "free" /\ LockedFor' = "closing" /\ Holding /\ Holding'
                BY <2>1, <2>2, <2>3 DEF LockedFor, Holding
            <3> QED BY <2>2, <3>1, MapBeginClose DEF Holding
        <2>4. CASE UNCHANGED hmu
            BY <2>1, <2>2, <2>4 DEF Still, LockedFor, Holding
        <2> QED BY <1>12, <2>3, <2>4 DEF CheckAndExit, BeginClose
    <1>13. ASSUME NEW p \in Procs, CancelSL(p) \/ CancelTP(p) \/ CloseSend(p) \/ CloseRetry(p)
           PROVE  Still
        BY <1>1, <1>13 DEF CancelSL, CancelTP, CloseSend, CloseRetry, Goto, Still, LockedFor,
            Holding, CaseAStage, Opening, localVars, smVars
    <1>14. ASSUME NEW p \in Procs, CloseFinish(p)
           PROVE  Trading!CloseSucceeds("worker") \/ Trading!CloseFails("worker")
        <2>1. pc[p] = "closeReply" /\ p \in Handlers /\ hmu = p
            BY <1>14 DEF CloseFinish, LockInv, Closing
        <2>2. pc["exec"] \notin Opening
            BY <2>1 DEF LockInv, Opening
        <2>3. hmu' = "free" /\ pc'["exec"] \notin Opening
            BY <1>1, <1>14, <2>1, <2>2 DEF CloseFinish, Goto, After, Opening
        <2>4. LockedFor = "closing" /\ LockedFor' = "free"
            BY <2>1, <2>2, <2>3 DEF LockedFor
        <2>5. UNCHANGED <<current, CaseAStage>>
            BY <1>1, <1>14, <2>1 DEF CloseFinish, Goto, CaseAStage, smVars
        <2>6. ~Holding' \/ Holding' = Holding
            BY <1>14, <2>2, <2>3 DEF CloseFinish, Holding, Flat, localVars
        <2> QED BY <2>4, <2>5, <2>6, MapCloseEnds
    <1>15. ASSUME PositionRisk PROVE Still
        BY <1>1, <1>15 DEF PositionRisk, Goto, Still, LockedFor, Holding, CaseAStage,
            Opening, localVars, smVars
    <1>16. ASSUME Compare PROVE Trading!FindCaseA("worker") \/ Still
        <2>1. UNCHANGED <<current, LockedFor, Holding>>
            BY <1>1, <1>16 DEF Compare, Goto, LockedFor, Holding, localVars, smVars
        <2>2. CASE CaseA /\ Goto("recon", "cancelSL")
            <3>1. CaseAStage = "idle" /\ CaseAStage' = "reset"
                BY <1>1, <1>16, <2>2 DEF Compare, Goto, CaseAStage
            <3>2. Holding \/ LockedFor = "opening"
                BY <2>2 DEF CaseA, Holding, LockedFor, LockInv
            <3> QED BY <2>1, <3>1, <3>2, MapFindCaseA
        <2>3. CASE Goto("recon", "closeSend") \/ Goto("recon", "idle")
            BY <1>1, <1>16, <2>1, <2>3 DEF Compare, Goto, CaseAStage, Still
        <2> QED BY <1>16, <2>2, <2>3 DEF Compare
    <1>17. ASSUME CaseAClose PROVE Trading!ResetCaseA("worker")
        <2>1. UNCHANGED <<current, LockedFor>> /\ ~Holding'
            BY <1>1, <1>17 DEF CaseAClose, Goto, LockedFor, Holding, Flat, smVars
        <2>2. CaseAStage = "reset" /\ CaseAStage' = "record"
            BY <1>1, <1>17 DEF CaseAClose, Goto, CaseAStage
        <2> QED BY <2>1, <2>2, MapResetCaseA
    <1>18. ASSUME CaseARecord PROVE Trading!RecordCaseA("worker")
        <2>1. UNCHANGED <<current, LockedFor, Holding>> /\ LockedFor = "free"
            BY <1>1, <1>18 DEF CaseARecord, Goto, LockedFor, Holding
        <2>2. CaseAStage = "record" /\ CaseAStage' = "idle"
            BY <1>1, <1>18 DEF CaseARecord, Goto, CaseAStage
        <2> QED BY <2>1, <2>2, MapRecordCaseA
    <1>19. ASSUME CaseBFinish PROVE Still
        BY <1>1, <1>19 DEF CaseBFinish, Goto, Still, LockedFor, Holding, CaseAStage,
            localVars
    <1>20. ASSUME NEW o \in exOrders, GuardTriggers(o) PROVE Still
        BY <1>20 DEF GuardTriggers, Still, LockedFor, Holding, CaseAStage, localVars,
            procVars, smVars
    <1>21. ASSUME CooldownEnds PROVE Still
        BY <1>21 DEF CooldownEnds, Still, LockedFor, Holding, CaseAStage, procVars, smVars
    <1>22. ASSUME StateMachineRun
           PROVE  Still \/ \E s \in States : Trading!Escalate("worker", s)
        <2>1. UNCHANGED <<LockedFor, Holding, CaseAStage>>
            BY <1>22 DEF StateMachineRun, LockedFor, Holding, CaseAStage, localVars, procVars
        <2> QED BY <1>22, <2>1, RunRaises, MapEscalate DEF Still, IInv, TypeOK
    <1>23. ASSUME Restart PROVE Trading!Restart("worker")
        <2>1. current' = NOISE /\ LockedFor' = "free" /\ ~Holding' /\ CaseAStage' = "idle"
            BY <1>23 DEF Restart, LockedFor, Holding, CaseAStage, Flat
        <2> QED BY <2>1, MapRestart
    <1>24. ASSUME UNCHANGED vars PROVE Still
        BY <1>24 DEF vars, smVars, localVars, procVars, Still, LockedFor, Holding, CaseAStage
    <1>25. States = Trading!States
        BY DEF States, Trading!States, NOISE, FAILURE, Trading!NOISE, Trading!FAILURE
    <1> HIDE DEF Goal
    <1>26. (\/ Trading!BeginOpen("worker") \/ Trading!OpenEnds("worker")
            \/ Trading!BeginClose("worker") \/ Trading!CloseSucceeds("worker")
            \/ Trading!CloseFails("worker") \/ Trading!FindCaseA("worker")
            \/ Trading!ResetCaseA("worker") \/ Trading!RecordCaseA("worker")
            \/ \E s \in States : Trading!Escalate("worker", s)
            \/ Trading!Restart("worker")) => Goal
        BY <1>3, <1>25 DEF Goal, Trading!LockNext
    <1>27. ASSUME ExecNext PROVE Goal
        BY <1>2, <1>5, <1>6, <1>7, <1>8, <1>9, <1>10, <1>26, <1>27 DEF ExecNext
    <1>28. ASSUME NEW p \in Procs, CloseNext(p) PROVE Goal
        BY <1>2, <1>13, <1>14, <1>26, <1>28 DEF CloseNext
    <1>29. ASSUME ReconNext PROVE Goal
        BY <1>2, <1>15, <1>16, <1>17, <1>18, <1>19, <1>26, <1>29 DEF ReconNext
    <1>30. Goal
        BY <1>2, <1>4, <1>11, <1>12, <1>20, <1>21, <1>22, <1>23, <1>24, <1>26, <1>27, <1>28,
           <1>29
        DEF Next
    <1> QED BY <1>30 DEF Goal

(* A trade is booked by a close under the lock, or by case A with the lock free.*)
LEMMA BooksStep ==
    ASSUME IInv, LockInv, [Next]_vars, booked' # booked
    PROVE  Trading!Books
    <1> USE DEF Procs, Handlers
    <1>1. pc \in [Procs -> Labels]
        BY DEF IInv, TypeOK, ProcTypes
    <1>2. ASSUME NEW p \in Procs, CloseFinish(p) PROVE Trading!CloseSucceeds("worker")
        <2>1. pc[p] = "closeReply" /\ p \in Handlers /\ hmu = p
            BY <1>2 DEF CloseFinish, LockInv, Closing
        <2>2. pc["exec"] \notin Opening
            BY <2>1 DEF LockInv, Opening
        <2>3. LockedFor = "closing" /\ LockedFor' = "free"
            BY <1>2, <2>1, <2>2 DEF CloseFinish, LockedFor
        <2>4. UNCHANGED <<current, CaseAStage>>
            BY <1>1, <1>2, <2>1 DEF CloseFinish, Goto, CaseAStage, smVars
        <2>5. ~Holding'
            BY <1>2 DEF CloseFinish, Holding, Flat, localVars
        <2> QED BY <2>3, <2>4, <2>5, MapCloseEnds
    <1>3. ASSUME CaseARecord PROVE Trading!RecordCaseA("worker")
        <2>1. UNCHANGED <<current, LockedFor, Holding>> /\ LockedFor = "free"
            BY <1>1, <1>3 DEF CaseARecord, Goto, LockedFor, Holding
        <2>2. CaseAStage = "record" /\ CaseAStage' = "idle"
            BY <1>1, <1>3 DEF CaseARecord, Goto, CaseAStage
        <2> QED BY <2>1, <2>2, MapRecordCaseA
    <1>4. CaseARecord \/ \E p \in Procs : CloseFinish(p)
        BY DEF Next, ExecNext, CloseNext, ReconNext, Signal, TryReversal, BeginClose,
            TryOpenAccept, TryOpenReject, OpenMarket, OpenReply, PlaceStopLoss,
            PlaceGuard, PlaceTakeProfit, GuardReply, ExitOnMarket, MonWait,
            ExitOnState, CheckAndExit, CancelSL, CancelTP, CloseSend, CloseRetry,
            PositionRisk, Compare, CaseAClose, CaseBFinish, GuardTriggers,
            CooldownEnds, StateMachineRun, Restart, vars, localVars
    <1> QED BY <1>2, <1>3, <1>4, Singleton DEF Trading!Books

(* The worker's requests and Run's own steps are all that touches the machine.  *)
LEMMA MachineStep ==
    ASSUME "restart" \notin Faults, [Next]_vars
    PROVE  [OwnNext]_smVars
    <1> DEFINE Asked(target) ==
                   RequestTransition(target) /\ UNCHANGED <<current, entered, noiseSince>>
    <1>1. ASSUME NEW target \in Targets, Asked(target) PROVE OwnNext
        BY <1>1 DEF OwnNext, Request
    <1>2. {STRESS, DEGRADATION, FAILURE} \subseteq Targets
        BY DEF Targets
    <1>3. ASSUME NEW p \in Procs, CloseFinish(p) PROVE Asked(FAILURE) \/ UNCHANGED smVars
        BY <1>3 DEF CloseFinish
    <1>4. ASSUME PositionRisk PROVE Asked(FAILURE) \/ UNCHANGED smVars
        BY <1>4 DEF PositionRisk, smVars
    <1>5. ASSUME Compare PROVE Asked(FAILURE) \/ UNCHANGED smVars
        BY <1>5 DEF Compare
    <1>6. ASSUME CaseARecord PROVE Asked(STRESS)
        BY <1>6 DEF CaseARecord
    <1>7. ASSUME CaseBFinish PROVE Asked(DEGRADATION)
        BY <1>7 DEF CaseBFinish
    <1>8. ASSUME StateMachineRun PROVE OwnNext
        BY <1>8 DEF StateMachineRun, OwnNext
    <1>9. ~Restart
        BY DEF Restart, Fault
    <1> HIDE DEF Asked
    <1> QED BY <1>1, <1>2, <1>3, <1>4, <1>5, <1>6, <1>7, <1>8, <1>9
        DEF Next, ExecNext, CloseNext, ReconNext, Signal, TryReversal, BeginClose,
            TryOpenAccept, TryOpenReject, OpenMarket, OpenReply, PlaceStopLoss,
            PlaceGuard, PlaceTakeProfit, GuardReply, ExitOnMarket, MonWait,
            ExitOnState, CheckAndExit, CancelSL, CancelTP, CloseSend, CloseRetry,
            CaseAClose, GuardTriggers, CooldownEnds, vars

(* The worker does what SignalPath takes for granted of it.                     *)
THEOREM ExecutionIsTradeLock == Spec => ImplementsTradeLock
    <1>1. Init => Trading!LockInit
        <2> SUFFICES ASSUME Init PROVE Trading!LockInit
            OBVIOUS
        <2>1. current = NOISE /\ LockedFor = "free" /\ Holding = FALSE /\ CaseAStage = "idle"
            BY DEF Init, SMInit, LockedFor, Holding, CaseAStage, Procs, Flat
        <2> QED BY <2>1 DEF Trading!LockInit, NOISE, Trading!NOISE
    <1>2. IInv /\ LockInv /\ [Next]_vars => [Trading!LockNext]_(Trading!lockVars)
        BY TradingStep
    <1> QED BY <1>1, <1>2, ExecutionInvariant, LockExclusive, PTL
        DEF Spec, ImplementsTradeLock, Trading!LockSpec

(* RecordTrade is called only by a close that gives the lock back and by case A *)
(* with the lock free.                                                          *)
THEOREM TradesAreBookedUnderLock == Spec => BooksUnderLock
    <1>1. IInv /\ LockInv /\ [Next]_vars => [booked' # booked => Trading!Books]_vars
        BY BooksStep
    <1> QED BY <1>1, ExecutionInvariant, LockExclusive, PTL DEF Spec, BooksUnderLock

(* Without a restart the worker's machine is StateMachine's,                    *)
THEOREM ExecutionIsStateMachine ==
    ASSUME "restart" \notin Faults PROVE Spec => MachineSafety
    <1>1. Init => SMInit
        BY DEF Init
    <1>2. [Next]_vars => [SMNext]_smVars
        BY MachineStep DEF SMNext
    <1> QED BY <1>1, <1>2, PTL DEF Spec, MachineSafety

(* and so, between two restarts, no goroutine of the worker, whatever fails,    *)
(* lowers its severity (there is no operator here), gets it out of FAILURE, or  *)
(* makes it lose an escalation it accepted.                                     *)
THEOREM WorkerKeepsEscalations ==
    ASSUME "restart" \notin Faults
    PROVE  Spec => /\ [][current' >= current]_smVars
                   /\ FailureSticky
                   /\ AcceptedKept
    <1>1. Spec => []SMTypeOK
        BY ExecutionIsStateMachine, MachineTypes, PTL
    <1>2. SMTypeOK /\ [Next]_vars => [current' >= current]_smVars
        BY MachineStep, OwnStepsRaise
    <1>3. Spec => [][current' >= current]_smVars
        BY <1>1, <1>2, PTL DEF Spec
    <1> QED BY <1>3, ExecutionIsStateMachine, FailureIsSticky, AcceptedRequestsAreKept, PTL
================================================================================
