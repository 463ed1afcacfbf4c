------------------------------- MODULE SignalPath -------------------------------
(* From the engines to the guardrails, for all workers at once (cmd/watcher.go, *)
(* cmd/main.go, cmd/worker.go): an evaluator picks a signal, the hook in main   *)
(* gates it and puts it into the worker's queue of one, the executor gates it   *)
(* again under the trade lock, and what closes is booked in guardrails that the *)
(* workers share. What a worker does under its lock is TradeLock's, which       *)
(* module Execution implements; here a close has a return besides, and nothing  *)
(* restarts.                                                                    *)
EXTENDS Guardrails, TradeLock, FiniteSets

CONSTANTS
    Engines,        \* the engines enabled in the live parameters
    Returns,        \* what a closed trade may return
    MaxLoss,        \* bound: the largest loss of one trade
    MaxTrades       \* bound: openings admitted in a behaviour

TREND == 1          \* the order in which an evaluator asks the engines
SQUEEZE == 2
TRANSITION == 3
LIQUIDATION == 4

ASSUME EnginesAssumption == Engines \subseteq TREND..LIQUIDATION
ASSUME WorkersAssumption == IsFiniteSet(Workers)
ASSUME ReturnsAssumption == Returns \subseteq Int /\ MaxLoss \in Nat /\ MaxTrades \in Nat
ASSUME LossAssumption == \A r \in Returns : r >= -MaxLoss

VARIABLES
    queue,      \* signalQueue: the engine of the waiting signal, 0 when empty
    sig,        \* the signal the executor is handling, 0 when it waits
    trades,     \* openings admitted
    late        \* history: losses booked during the present cooldown

signalVars == <<queue, sig>>
vars == <<guardVars, lockVars, signalVars, trades, late>>

Init ==
    /\ GuardInit /\ LockInit
    /\ queue = [w \in Workers |-> 0]
    /\ sig = [w \in Workers |-> 0]
    /\ trades = 0 /\ late = 0

--------------------------------------------------------------------------------
(* The hook's gate: Trend asks CanOpenTrend, every other engine CanOpen.        *)
Gate(e, s) == IF e = TREND THEN MayOpenTrend(s) ELSE MayOpen(s)

(* A tick of the evaluator: of the engines that signal only the first in the    *)
(* order reaches the hook, whether or not the hook takes it; a signal that      *)
(* finds the queue full is dropped.                                             *)
Evaluate(w, signalling) ==
    LET first == CHOOSE e \in signalling : \A f \in signalling : e <= f
    IN  /\ Gate(first, state[w]) /\ CanTrade
        /\ queue[w] = 0
        /\ queue' = [queue EXCEPT ![w] = first]
        /\ UNCHANGED <<guardVars, lockVars, sig, trades, late>>

(* The executor takes the signal. Its filters and TryReversal come before       *)
(* TryOpen; a close that TryReversal makes is a Close step.                     *)
Take(w) ==
    /\ sig[w] = 0 /\ queue[w] # 0
    /\ sig' = [sig EXCEPT ![w] = queue[w]]
    /\ queue' = [queue EXCEPT ![w] = 0]
    /\ UNCHANGED <<guardVars, lockVars, trades, late>>

(* Mutant of TryOpenChecks: the guardrails are asked in the hook only.          *)
MutNoGuardInTryOpen(w) == Openable(w)

(* TryOpen under the lock asks the guardrails again, but CanOpen of any engine. *)
TryOpenChecks(w) == Openable(w) /\ CanTrade

Admit(w) ==
    /\ sig[w] # 0 /\ TryOpenChecks(w) /\ BeginOpen(w)
    /\ trades < MaxTrades
    /\ trades' = trades + 1
    /\ UNCHANGED <<guardVars, signalVars, late>>

(* The signal ends without an opening: a filter, a check, the worker's own      *)
(* cooldown, the direction switches.                                            *)
Reject(w) ==
    /\ sig[w] # 0 /\ lock[w] # "opening"
    /\ sig' = [sig EXCEPT ![w] = 0]
    /\ UNCHANGED <<guardVars, lockVars, queue, trades, late>>

(* After an emergency close the next signal may be taken a little early, but    *)
(* not admitted before the lock is free.                                        *)
OpenDone(w) ==
    /\ OpenEnds(w)
    /\ sig' = [sig EXCEPT ![w] = 0]
    /\ UNCHANGED <<guardVars, queue, trades, late>>

(* What changes neither the signals nor the guardrails.                         *)
Unbooked(w) ==
    /\ BeginClose(w) \/ CloseFails(w) \/ FindCaseA(w) \/ ResetCaseA(w)
          \/ \E s \in States : Escalate(w, s)
    /\ UNCHANGED <<guardVars, signalVars, trades, late>>

(* History: what a booking does to the count of losses inside a cooldown.       *)
CountLate(pnl) == late' = IF cooling /\ pnl < 0 THEN late + 1 ELSE late

CloseDone(w, pnl) ==
    /\ CloseSucceeds(w)
    /\ RecordTrade(pnl) /\ CountLate(pnl)
    /\ UNCHANGED <<signalVars, trades>>

(* The return of the exchange's close is not known: zero is booked.             *)
RecordReconcileClose(w) ==
    /\ RecordCaseA(w)
    /\ RecordTrade(0) /\ CountLate(0)
    /\ UNCHANGED <<signalVars, trades>>

Clock ==
    /\ \/ Midnight /\ UNCHANGED late
       \/ CooldownOver /\ late' = 0
    /\ UNCHANGED <<lockVars, signalVars, trades>>

WorkerNext(w) ==
    \/ \E signalling \in (SUBSET Engines) \ {{}} : Evaluate(w, signalling)
    \/ Take(w) \/ Admit(w) \/ Reject(w) \/ OpenDone(w) \/ Unbooked(w)
    \/ \E pnl \in Returns : CloseDone(w, pnl)
    \/ RecordReconcileClose(w)

Next == (\E w \in Workers : WorkerNext(w)) \/ Clock

Spec == Init /\ [][Next]_vars

(* Time passes: midnight comes and an hour ends.                                *)
FairSpec == Spec /\ WF_vars(Midnight /\ Clock) /\ WF_vars(CooldownOver /\ Clock)

--------------------------------------------------------------------------------
(* Types; the lock is held only by a worker that handles a signal or closes.    *)
TypeOK ==
    /\ GuardTypeOK
    /\ state \in [Workers -> States]
    /\ queue \in [Workers -> 0..LIQUIDATION] /\ sig \in [Workers -> 0..LIQUIDATION]
    /\ lock \in [Workers -> {"free", "opening", "closing"}]
    /\ holding \in [Workers -> BOOLEAN]
    /\ recon \in [Workers -> {"idle", "reset", "record"}]
    /\ trades \in 0..MaxTrades /\ late \in Nat
    /\ \A w \in Workers : lock[w] = "opening" => sig[w] # 0 /\ ~holding[w]

Engaged == {w \in Workers : holding[w] \/ lock[w] # "free"}

(* The limits are checked before an opening and felt after a close, by workers  *)
(* that do not wait for one another: the day's loss still overshoots the limit  *)
(* by at most one trade per worker.                                             *)
LossBounded == daily > -DailyLimit - Cardinality(Workers) * MaxLoss

(* Once the run of losses has started a cooldown, only trades already under way *)
(* lose: at most one for each other worker, whatever is queued.                 *)
LateLossesBounded == cooling => late + Cardinality(Engaged) < Cardinality(Workers)

(* No halt is for ever: the sum is reset only by a trade that is booked, and a  *)
(* halt lets none begin, so the next day must be enough by itself.              *)
TradingResumes == ~CanTrade ~> CanTrade
================================================================================
