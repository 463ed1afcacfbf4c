------------------------------- MODULE Execution -------------------------------
(* The execution layer of one symbol worker (internal/execution, cmd/worker.go) *)
(* with its state machine and the exchange it trades on, position mode ONE_WAY. *)
(* Four goroutines share the position: the executor of signals (exec), the exit *)
(* monitor (mon), the reconciliation loop (recon) and StateMachine.Run. exec    *)
(* and mon serialise on TradeHandler.mu; recon takes it only to book a close.   *)
(* Every REST call is two steps: its effect at the exchange, then the return of *)
(* its reply together with the local code up to the next call.                  *)
EXTENDS StateMachine, FiniteSets

CONSTANTS
    Dirs,           \* directions of the signals: 1 LONG, -1 SHORT
    Qty,            \* what orderQty returns: the margin in lots, truncated
    StepSize,       \* LOT_SIZE step of the symbol
    MaxOrderRetry,  \* attempts of CloseMarket
    Cooldown,       \* TRUE if CooldownAfterExitSec > 0
    Reconciling,    \* TRUE if the reconciliation loop runs
    Faults,         \* the ways in which a REST call may fail, and "restart"
    MaxFaults,      \* bound: failed calls and restarts in a behaviour
    MaxOpens        \* bound: open orders submitted in a behaviour

ASSUME DirsAssumption == Dirs \subseteq {1, -1}
ASSUME QtyAssumption == Qty \in Nat \ {0} /\ StepSize \in 1..Qty
ASSUME RetryAssumption == MaxOrderRetry \in Nat \ {0}
ASSUME SwitchAssumption == Cooldown \in BOOLEAN /\ Reconciling \in BOOLEAN
ASSUME FaultsAssumption ==
    Faults \subseteq {"rejected", "lost", "lostOpen", "zero", "cancel", "risk", "restart"}
ASSUME BoundAssumption == MaxFaults \in Nat /\ MaxOpens \in Nat

Procs == {"exec", "mon", "recon"}
Handlers == {"exec", "mon"}     \* the users of TradeHandler

VARIABLES
    pos,        \* PositionManager.position; gen numbers the opening it stems from
    hmu,        \* the owner of TradeHandler.mu
    cooling,    \* now < cooldownUntil
    booked,     \* history: how often RecordTrade was called for each opening
    pc, sig,    \* where each goroutine is; the direction exec is handling (0: none)
    snap,       \* the copy of the position each goroutine works on
    reply,      \* the reply each goroutine's last REST call returned
    attempt,    \* CloseMarket's attempts
    risk,       \* the exchange amount recon has read
    failures,   \* ReconciliationLoop.consecutiveFailures
    exAmt,      \* the exchange: signed position of the symbol
    exOrders,   \* its resting guard orders
    consumed,   \* history: the guard orders that reached their price
    opens,      \* open orders submitted
    faults      \* failed calls and restarts so far

localVars == <<pos, cooling, booked>>
procVars == <<pc, sig, snap, reply, attempt>>
reconVars == <<risk, failures>>
exVars == <<exAmt, exOrders, consumed>>
vars == <<smVars, localVars, hmu, procVars, reconVars, exVars, opens, faults>>

Gens == 0..MaxOpens             \* 0: no opening, and the empty order id
Flat == [amt |-> 0, gen |-> 0, sl |-> 0, tp |-> 0]
Orders == [kind : {"SL", "TP"}, gen : Gens, dir : {1, -1}]

Abs(n) == IF n < 0 THEN -n ELSE n
Sign(n) == IF n > 0 THEN 1 ELSE IF n < 0 THEN -1 ELSE 0
Least(m, n) == IF m < n THEN m ELSE n
QuantizeQty(q) == (q \div StepSize) * StepSize

Init ==
    /\ SMInit
    /\ pos = Flat /\ hmu = "free" /\ cooling = FALSE
    /\ booked = [g \in 1..MaxOpens |-> 0]
    /\ pc = [p \in Procs |-> "idle"] /\ sig = 0
    /\ snap = [p \in Procs |-> Flat]
    /\ reply = [p \in Procs |-> "none"]
    /\ attempt = [p \in Procs |-> 0]
    /\ risk = 0 /\ failures = 0
    /\ exAmt = 0 /\ exOrders = {} /\ consumed = {}
    /\ opens = 0 /\ faults = 0

--------------------------------------------------------------------------------
(* Steps every goroutine shares.                                                *)

Goto(p, label) == pc' = [pc EXCEPT ![p] = label]

Fault(kind) == kind \in Faults /\ faults < MaxFaults /\ faults' = faults + 1

(* PlaceOrder: whether the exchange executed the order and what the caller got. *)
(* A timeout may hit an order that was executed (the fault named by lost); an   *)
(* order may be acknowledged with no average price yet ("zero").                *)
PlaceOrder(done, r, lost) ==
    \/ done /\ r = "ok" /\ UNCHANGED faults
    \/ done /\ r = "zero" /\ Fault("zero")
    \/ r = "error" /\ Fault(IF done THEN lost ELSE "rejected")

(* What a reduce-only order of direction d and size q leaves of the position.   *)
Reduced(d, q) == IF Sign(exAmt) = d THEN exAmt - d * Least(q, Abs(exAmt)) ELSE exAmt

(* Where exec goes on after a close: TryReversal is followed by TryOpen, the    *)
(* emergency close of TryOpen ends it.                                          *)
After(p) == IF p = "exec" /\ sig # 0 THEN "openWait" ELSE "idle"

Forget(p) ==
    /\ snap' = [snap EXCEPT ![p] = Flat]
    /\ reply' = [reply EXCEPT ![p] = "none"]
    /\ attempt' = [attempt EXCEPT ![p] = 0]

(* doClose up to its first cancel, the caller holding h.mu.                     *)
BeginClose(p) ==
    /\ hmu' = p
    /\ snap' = [snap EXCEPT ![p] = pos]
    /\ reply' = [reply EXCEPT ![p] = "none"]
    /\ Goto(p, "cancelSL")
    /\ UNCHANGED attempt

(* CancelOrder of a guard order: nothing for an empty id, a failure is ignored. *)
Cancel(kind, id) ==
    \/ /\ exOrders' = {o \in exOrders : ~(o.kind = kind /\ o.gen = id)}
       /\ UNCHANGED faults
    \/ id # 0 /\ Fault("cancel") /\ UNCHANGED exOrders

CancelSL(p) ==
    /\ pc[p] = "cancelSL"
    /\ Cancel("SL", snap[p].sl)
    /\ Goto(p, "cancelTP")
    /\ UNCHANGED <<smVars, localVars, hmu, sig, snap, reply, attempt, reconVars,
                   exAmt, consumed, opens>>

CancelTP(p) ==
    /\ pc[p] = "cancelTP"
    /\ Cancel("TP", snap[p].tp)
    /\ Goto(p, IF p = "recon" THEN "caseAClose" ELSE "closeSend")
    /\ UNCHANGED <<smVars, localVars, hmu, sig, snap, reply, attempt, reconVars,
                   exAmt, consumed, opens>>

(* Mutant of CloseSend: a plain market order, not reduce-only.                  *)
MutCloseNotReduceOnly(p) ==
    LET d == Sign(snap[p].amt)
        q == QuantizeQty(Abs(snap[p].amt))
    IN  /\ pc[p] = "closeSend"
        /\ attempt' = [attempt EXCEPT ![p] = @ + 1]
        /\ \E done \in BOOLEAN, r \in {"ok", "error"} :
              /\ PlaceOrder(done, r, "lost")
              /\ exAmt' = IF done THEN exAmt - d * q ELSE exAmt
              /\ reply' = [reply EXCEPT ![p] = r]
        /\ Goto(p, "closeReply")
        /\ UNCHANGED <<smVars, localVars, hmu, sig, snap, reconVars, exOrders,
                       consumed, opens>>

(* One attempt of CloseMarket: reduce-only, so refused when the exchange holds  *)
(* nothing in that direction.                                                   *)
CloseSend(p) ==
    LET d == Sign(snap[p].amt)
        q == QuantizeQty(Abs(snap[p].amt))
    IN  /\ pc[p] = "closeSend"
        /\ attempt' = [attempt EXCEPT ![p] = @ + 1]
        /\ \/ /\ Sign(exAmt) = d
              /\ \E done \in BOOLEAN, r \in {"ok", "error"} :
                    /\ PlaceOrder(done, r, "lost")
                    /\ exAmt' = IF done THEN Reduced(d, q) ELSE exAmt
                    /\ reply' = [reply EXCEPT ![p] = r]
           \/ /\ Sign(exAmt) # d
              /\ reply' = [reply EXCEPT ![p] = "error"]
              /\ UNCHANGED <<exAmt, faults>>
        /\ Goto(p, "closeReply")
        /\ UNCHANGED <<smVars, localVars, hmu, sig, snap, reconVars, exOrders,
                       consumed, opens>>

(* Mutant of CloseRetry: one attempt too many.                                  *)
MutRetryOnceMore(p) ==
    /\ pc[p] = "closeReply"
    /\ reply[p] = "error" /\ attempt[p] <= MaxOrderRetry
    /\ Goto(p, "closeSend")
    /\ UNCHANGED <<smVars, localVars, hmu, sig, snap, reply, attempt, reconVars,
                   exVars, opens, faults>>

(* CloseMarket tries again, up to MaxOrderRetry attempts.                       *)
CloseRetry(p) ==
    /\ pc[p] = "closeReply"
    /\ reply[p] = "error" /\ attempt[p] < MaxOrderRetry
    /\ Goto(p, "closeSend")
    /\ UNCHANGED <<smVars, localVars, hmu, sig, snap, reply, attempt, reconVars,
                   exVars, opens, faults>>

(* Mutant of CloseFinish: the position is reset and booked whatever was replied.*)
MutForgetFailedClose(p) ==
    /\ pc[p] = "closeReply" /\ p \in Handlers
    /\ pos' = Flat
    /\ booked' = [booked EXCEPT ![snap[p].gen] = @ + 1]
    /\ cooling' = Cooldown
    /\ hmu' = "free"
    /\ Goto(p, After(p))
    /\ Forget(p)
    /\ UNCHANGED <<smVars, sig, reconVars, exVars, opens, faults>>

(* doClose after CloseMarket returned: reset, book, cool down; or ask for       *)
(* FAILURE and leave the position as it is. The unlock is part of the step.     *)
CloseFinish(p) ==
    /\ pc[p] = "closeReply" /\ p \in Handlers
    /\ \/ /\ reply[p] = "ok"
          /\ pos' = Flat
          /\ booked' = [booked EXCEPT ![snap[p].gen] = @ + 1]
          /\ cooling' = Cooldown
          /\ UNCHANGED smVars
       \/ /\ reply[p] = "error" /\ attempt[p] = MaxOrderRetry
          /\ RequestTransition(FAILURE)
          /\ UNCHANGED <<localVars, current, entered, noiseSince>>
    /\ hmu' = "free"
    /\ Goto(p, After(p))
    /\ Forget(p)
    /\ UNCHANGED <<sig, reconVars, exVars, opens, faults>>

--------------------------------------------------------------------------------
(* exec: one signal is TryReversal, then TryOpen.                               *)

(* A signal left the queue and passed runExecutor's filters; TryReversal looks  *)
(* at the position before it takes the lock. Whether the holding time and the   *)
(* windows confirm is the market's choice.                                      *)
Signal(d) ==
    /\ pc["exec"] = "idle"
    /\ sig' = d
    /\ \E confirmed \in BOOLEAN :
          Goto("exec", IF pos.amt # 0 /\ Sign(pos.amt) # d /\ confirmed
                       THEN "revWait" ELSE "openWait")
    /\ UNCHANGED <<smVars, localVars, hmu, snap, reply, attempt, reconVars, exVars,
                   opens, faults>>

(* TryReversal under the lock: only IsFlat is looked at again.                  *)
TryReversal ==
    /\ pc["exec"] = "revWait" /\ hmu = "free"
    /\ \/ pos.amt # 0 /\ BeginClose("exec")
       \/ pos.amt = 0 /\ Goto("exec", "openWait") /\ UNCHANGED <<hmu, snap, reply, attempt>>
    /\ UNCHANGED <<smVars, localVars, sig, reconVars, exVars, opens, faults>>

(* Mutant of Admitted: the flat check is missing.                               *)
MutAdmittedHolding == CanOpen /\ ~cooling

(* The checks TryOpen makes under the lock.                                     *)
Admitted == pos.amt = 0 /\ CanOpen /\ ~cooling

(* TryOpen's checks. The ones on credentials, guardrails, direction switches    *)
(* and margin are environment here: any signal may be turned down.              *)
TryOpenAccept ==
    /\ pc["exec"] = "openWait" /\ hmu = "free"
    /\ Admitted
    /\ opens < MaxOpens
    /\ hmu' = "exec"
    /\ Goto("exec", "openSend")
    /\ UNCHANGED <<smVars, localVars, sig, snap, reply, attempt, reconVars, exVars,
                   opens, faults>>

TryOpenReject ==
    /\ pc["exec"] = "openWait" /\ hmu = "free"
    /\ Goto("exec", "idle") /\ sig' = 0
    /\ UNCHANGED <<smVars, localVars, hmu, snap, reply, attempt, reconVars, exVars,
                   opens, faults>>

OpenMarket ==
    /\ pc["exec"] = "openSend"
    /\ opens' = opens + 1
    /\ \E done \in BOOLEAN, r \in {"ok", "zero", "error"} :
          /\ PlaceOrder(done, r, "lostOpen")
          /\ exAmt' = IF done THEN exAmt + sig * QuantizeQty(Qty) ELSE exAmt
          /\ reply' = [reply EXCEPT !["exec"] = r]
    /\ Goto("exec", "openReply")
    /\ UNCHANGED <<smVars, localVars, hmu, sig, snap, attempt, reconVars, exOrders,
                   consumed>>

(* An error and a zero fill price both end TryOpen with nothing recorded and no *)
(* cooldown; otherwise the position is opened with the quantity asked for.      *)
OpenReply ==
    /\ pc["exec"] = "openReply"
    /\ \/ /\ reply["exec"] = "ok"
          /\ pos' = [amt |-> sig * Qty, gen |-> opens, sl |-> 0, tp |-> 0]
          /\ Goto("exec", "slSend")
          /\ UNCHANGED <<hmu, sig>>
       \/ /\ reply["exec"] # "ok"
          /\ hmu' = "free" /\ sig' = 0
          /\ Goto("exec", "idle")
          /\ UNCHANGED pos
    /\ reply' = [reply EXCEPT !["exec"] = "none"]
    /\ UNCHANGED <<smVars, cooling, booked, snap, attempt, reconVars, exVars, opens,
                   faults>>

(* Mutant of PlaceGuard: only the error of the last guard order is looked at.   *)
MutGuardLastError(kind, from, to) ==
    /\ pc["exec"] = from
    /\ \E done \in BOOLEAN, r \in {"ok", "error"} :
          /\ \/ PlaceOrder(done, r, "lost")
             \/ Sign(exAmt) # sig /\ ~done /\ r = "error" /\ UNCHANGED faults
          /\ exOrders' = IF done
                         THEN exOrders \cup {[kind |-> kind, gen |-> opens, dir |-> sig]}
                         ELSE exOrders
          /\ reply' = [reply EXCEPT !["exec"] = r]
    /\ Goto("exec", to)
    /\ UNCHANGED <<smVars, localVars, hmu, sig, snap, attempt, reconVars, exAmt,
                   consumed, opens>>

(* PlaceStopLoss and PlaceTakeProfit: both are sent whatever the first returns; *)
(* reply keeps an error of either. The exchange may refuse a reduce-only order  *)
(* that has nothing to reduce.                                                  *)
PlaceGuard(kind, from, to) ==
    /\ pc["exec"] = from
    /\ \E done \in BOOLEAN, r \in {"ok", "error"} :
          /\ \/ PlaceOrder(done, r, "lost")
             \/ Sign(exAmt) # sig /\ ~done /\ r = "error" /\ UNCHANGED faults
          /\ exOrders' = IF done
                         THEN exOrders \cup {[kind |-> kind, gen |-> opens, dir |-> sig]}
                         ELSE exOrders
          /\ reply' = [reply EXCEPT !["exec"] = IF @ = "error" THEN @ ELSE r]
    /\ Goto("exec", to)
    /\ UNCHANGED <<smVars, localVars, hmu, sig, snap, attempt, reconVars, exAmt,
                   consumed, opens>>

PlaceStopLoss == PlaceGuard("SL", "slSend", "tpSend")
PlaceTakeProfit == PlaceGuard("TP", "tpSend", "guardReply")

(* The end of TryOpen: an error closes at once, with the guard ids not yet in   *)
(* the position; else the ids are set and the deadline (late) may still close.  *)
(* doClose returns at once when recon has reset the position meanwhile.         *)
GuardReply ==
    /\ pc["exec"] = "guardReply"
    /\ \E late \in BOOLEAN :
          /\ pos' = IF reply["exec"] = "ok" THEN [pos EXCEPT !.sl = opens, !.tp = opens]
                                            ELSE pos
          /\ IF (late \/ reply["exec"] # "ok") /\ pos.amt # 0
             THEN snap' = [snap EXCEPT !["exec"] = pos'] /\ Goto("exec", "cancelSL")
                  /\ UNCHANGED hmu
             ELSE hmu' = "free" /\ Goto("exec", "idle") /\ UNCHANGED snap
    /\ sig' = 0
    /\ reply' = [reply EXCEPT !["exec"] = "none"]
    /\ UNCHANGED <<smVars, cooling, booked, attempt, reconVars, exVars, opens, faults>>

--------------------------------------------------------------------------------
(* mon: CheckAndExit decides on a copy without the lock, then rechecks IsFlat.  *)

MonWait(condition) ==
    /\ pc["mon"] = "idle"
    /\ pos.amt # 0 /\ condition
    /\ Goto("mon", "monWait")
    /\ UNCHANGED <<smVars, localVars, hmu, sig, snap, reply, attempt, reconVars,
                   exVars, opens, faults>>

(* Mutant of ExitOnState: FAILURE is left to a human.                           *)
MutExitOnDegradation == MonWait(current = DEGRADATION)

ExitOnMarket == MonWait(TRUE)           \* stop loss, take profit or timeout
ExitOnState == MonWait(MustClose)

(* Mutant of CheckAndExit: no lock.                                             *)
MutExitUnlocked ==
    /\ pc["mon"] = "monWait"
    /\ \/ pos.amt # 0 /\ BeginClose("mon")
       \/ pos.amt = 0 /\ Goto("mon", "idle") /\ UNCHANGED <<hmu, snap, reply, attempt>>
    /\ UNCHANGED <<smVars, localVars, sig, reconVars, exVars, opens, faults>>

(* CheckAndExit under the lock.                                                 *)
CheckAndExit ==
    /\ pc["mon"] = "monWait" /\ hmu = "free"
    /\ \/ pos.amt # 0 /\ BeginClose("mon")
       \/ pos.amt = 0 /\ Goto("mon", "idle") /\ UNCHANGED <<hmu, snap, reply, attempt>>
    /\ UNCHANGED <<smVars, localVars, sig, reconVars, exVars, opens, faults>>

--------------------------------------------------------------------------------
(* recon: the exchange is read first, the local position only when the reply is *)
(* there; h.mu is not held in between nor while it acts.                        *)

PositionRisk ==
    /\ Reconciling
    /\ pc["recon"] = "idle"
    /\ \/ /\ risk' = exAmt /\ failures' = 0
          /\ Goto("recon", "compare")
          /\ UNCHANGED <<smVars, faults>>
       \/ /\ Fault("risk")
          /\ failures' = Least(failures + 1, 3)
          /\ IF failures' = 3 THEN RequestTransition(FAILURE)
                              ELSE UNCHANGED <<requests, dropped>>
          /\ UNCHANGED <<current, entered, noiseSince, risk, pc>>
    /\ UNCHANGED <<localVars, hmu, sig, snap, reply, attempt, exVars, opens>>

(* Mutant of CaseC: only an exchange that holds less is a disagreement.         *)
MutCaseCOnlyLess == pos.amt # 0 /\ risk # 0 /\ Abs(risk) < Abs(pos.amt)

(* The three disagreements reconcile distinguishes.                             *)
CaseA == pos.amt # 0 /\ risk = 0
CaseB == pos.amt = 0 /\ risk # 0
CaseC == pos.amt # 0 /\ risk # 0 /\ pos.amt # risk

Compare ==
    /\ pc["recon"] = "compare"
    /\ \/ /\ CaseA
          /\ snap' = [snap EXCEPT !["recon"] = pos]
          /\ Goto("recon", "cancelSL")
          /\ UNCHANGED smVars
       \/ /\ CaseB
          /\ snap' = [snap EXCEPT !["recon"] = [Flat EXCEPT !.amt = risk]]
          /\ Goto("recon", "closeSend")
          /\ UNCHANGED smVars
       \/ /\ CaseC
          /\ RequestTransition(FAILURE)
          /\ Goto("recon", "idle")
          /\ UNCHANGED <<snap, current, entered, noiseSince>>
       \/ /\ ~CaseA /\ ~CaseB /\ ~CaseC
          /\ Goto("recon", "idle")
          /\ UNCHANGED <<snap, smVars>>
    /\ risk' = 0
    /\ UNCHANGED <<localVars, hmu, sig, reply, attempt, failures, exVars, opens, faults>>

CaseAClose ==
    /\ pc["recon"] = "caseAClose"
    /\ pos' = Flat
    /\ Goto("recon", "caseARecord")
    /\ UNCHANGED <<smVars, cooling, booked, hmu, sig, snap, reply, attempt, reconVars,
                   exVars, opens, faults>>

(* Mutant of CaseARecord: the booking does not wait for h.mu.                   *)
MutRecordUnlocked ==
    /\ pc["recon"] = "caseARecord"
    /\ booked' = [booked EXCEPT ![snap["recon"].gen] = @ + 1]
    /\ cooling' = Cooldown
    /\ RequestTransition(STRESS)
    /\ Goto("recon", "idle")
    /\ Forget("recon")
    /\ UNCHANGED <<current, entered, noiseSince, pos, hmu, sig, reconVars, exVars,
                   opens, faults>>

(* RecordReconcileClose, which waits for h.mu, then the request.                *)
CaseARecord ==
    /\ pc["recon"] = "caseARecord" /\ hmu = "free"
    /\ booked' = [booked EXCEPT ![snap["recon"].gen] = @ + 1]
    /\ cooling' = Cooldown
    /\ RequestTransition(STRESS)
    /\ Goto("recon", "idle")
    /\ Forget("recon")
    /\ UNCHANGED <<current, entered, noiseSince, pos, hmu, sig, reconVars, exVars,
                   opens, faults>>

(* The end of case B: DEGRADATION whether or not the close succeeded.           *)
CaseBFinish ==
    /\ pc["recon"] = "closeReply"
    /\ reply["recon"] = "ok" \/ attempt["recon"] = MaxOrderRetry
    /\ RequestTransition(DEGRADATION)
    /\ Goto("recon", "idle")
    /\ Forget("recon")
    /\ UNCHANGED <<current, entered, noiseSince, localVars, hmu, sig, reconVars,
                   exVars, opens, faults>>

--------------------------------------------------------------------------------
(* The exchange, the clock and the state machine.                               *)

(* A guard order reaches its price; with nothing to reduce it just expires.     *)
GuardTriggers(o) ==
    /\ o \in exOrders
    /\ exOrders' = exOrders \ {o}
    /\ exAmt' = Reduced(o.dir, QuantizeQty(Qty))
    /\ consumed' = consumed \cup {o}
    /\ UNCHANGED <<smVars, localVars, hmu, procVars, reconVars, opens, faults>>

CooldownEnds ==
    /\ cooling /\ cooling' = FALSE
    /\ UNCHANGED <<smVars, pos, booked, hmu, procVars, reconVars, exVars, opens, faults>>

(* Ticks after the observation period change nothing a worker reads.            *)
StateMachineRun ==
    /\ ApplyRequest \/ (current = NOISE /\ Tick)
    /\ UNCHANGED <<localVars, hmu, procVars, reconVars, exVars, opens, faults>>

(* The process dies at any moment and comes back: bootCheck sees the position of*)
(* the symbol, warns of it, and cancels the resting orders, guard orders too; a *)
(* failure of that is ignored. Then the symbol is added again.                  *)
Restart ==
    /\ Fault("restart")
    /\ current' = NOISE /\ entered' = 0 /\ noiseSince' = 0
    /\ requests' = <<>> /\ dropped' = FALSE
    /\ pos' = Flat /\ hmu' = "free" /\ cooling' = FALSE
    /\ pc' = [p \in Procs |-> "idle"] /\ sig' = 0
    /\ snap' = [p \in Procs |-> Flat]
    /\ reply' = [p \in Procs |-> "none"]
    /\ attempt' = [p \in Procs |-> 0]
    /\ risk' = 0 /\ failures' = 0
    /\ exOrders' \in {{}, exOrders}
    /\ UNCHANGED <<booked, exAmt, consumed, opens>>

ExecNext ==
    \/ TryReversal \/ TryOpenAccept \/ TryOpenReject \/ OpenMarket \/ OpenReply
    \/ PlaceStopLoss \/ PlaceTakeProfit \/ GuardReply
CloseNext(p) == CancelSL(p) \/ CancelTP(p) \/ CloseSend(p) \/ CloseRetry(p) \/ CloseFinish(p)
ReconNext == PositionRisk \/ Compare \/ CaseAClose \/ CaseARecord \/ CaseBFinish

Next ==
    \/ \E d \in Dirs : Signal(d)
    \/ ExecNext
    \/ ExitOnMarket \/ ExitOnState \/ CheckAndExit
    \/ \E p \in Procs : CloseNext(p)
    \/ ReconNext
    \/ \E o \in exOrders : GuardTriggers(o)
    \/ CooldownEnds
    \/ StateMachineRun
    \/ Restart

Spec == Init /\ [][Next]_vars

(* Liveness: each goroutine goes on with what it has to do: exec with its       *)
(* signal, mon with MustClose at its 100 ms tick, recon on its ticker, the state *)
(* machine with requests and ticks. Waiting for h.mu in case A is strongly fair: *)
(* the monitor may take the lock for one failing close after another, and        *)
(* sync.Mutex hands over to a goroutine that has waited for a millisecond.       *)
(* Nothing is assumed of signals, prices or guard orders; failed calls are       *)
(* finitely many by MaxFaults.                                                   *)
Fairness ==
    /\ WF_vars(ExecNext \/ CloseNext("exec"))
    /\ WF_vars(ExitOnState \/ CheckAndExit \/ CloseNext("mon"))
    /\ WF_vars(PositionRisk \/ Compare \/ CaseAClose \/ CaseBFinish \/ CloseNext("recon"))
    /\ SF_vars(CaseARecord)
    /\ WF_vars(StateMachineRun)

FairSpec == Spec /\ Fairness

--------------------------------------------------------------------------------
Labels ==
    {"idle", "revWait", "openWait", "openSend", "openReply", "slSend", "tpSend",
     "guardReply", "monWait", "cancelSL", "cancelTP", "closeSend", "closeReply",
     "compare", "caseAClose", "caseARecord"}
Closing == {"cancelSL", "cancelTP", "closeSend", "closeReply"}
Opening == {"openSend", "openReply", "slSend", "tpSend", "guardReply"}

Positions == [amt : Int, gen : Gens, sl : Gens, tp : Gens]

LocalTypes ==
    /\ pos \in Positions /\ (pos.amt # 0 => pos.gen # 0)
    /\ hmu \in Handlers \cup {"free"}
    /\ cooling \in BOOLEAN
    /\ booked \in [1..MaxOpens -> Nat]
ProcTypes ==
    /\ pc \in [Procs -> Labels]
    /\ sig \in {-1, 0, 1}
    /\ snap \in [Procs -> Positions]
    /\ reply \in [Procs -> {"none", "ok", "zero", "error"}]
    /\ attempt \in [Procs -> 0..MaxOrderRetry]
ReconTypes == risk \in Int /\ failures \in 0..3
ExchangeTypes ==
    /\ exAmt \in Int
    /\ exOrders \subseteq Orders /\ consumed \subseteq Orders
    /\ opens \in Gens /\ faults \in 0..MaxFaults

(* Types. An open position stems from an opening, attempts stay within the      *)
(* retry limit, submitted orders and faults within their bounds.                *)
TypeOK == SMTypeOK /\ LocalTypes /\ ProcTypes /\ ReconTypes /\ ExchangeTypes

(* "mu prevents concurrent closes": a handler is between Lock and Unlock exactly *)
(* when it owns the mutex, so never both.                                       *)
LockInv == \A p \in Handlers : hmu = p <=> pc[p] \in Closing \cup Opening

(* PositionManager.Open never replaces a position that is still open, although  *)
(* the flat check and the assignment are three REST steps apart and recon       *)
(* writes the position without the lock.                                        *)
OpenNeverOverwrites ==
    [][pos.amt # 0 /\ pos'.amt # 0 => pos'.gen = pos.gen /\ pos'.amt = pos.amt]_vars

(* Closing from several goroutines and from guard orders at once never enlarges *)
(* the exchange position nor turns it around: only an open order may.           *)
ClosesOnlyReduce ==
    [][opens' = opens => exAmt' \in {exAmt, 0} \/ (Sign(exAmt') = Sign(exAmt)
                                                    /\ Abs(exAmt') < Abs(exAmt))]_vars

Escalated == current = FAILURE \/ FAILURE \in Pending \/ dropped

Guard(kind) == [kind |-> kind, gen |-> pos.gen, dir |-> Sign(pos.amt)]

(* A position nobody is working on is protected: both guard orders rest at the  *)
(* exchange or have fired, their ids are known, or FAILURE has been asked for.  *)
Protected ==
    pos.amt # 0 /\ hmu = "free" /\ snap["recon"].gen # pos.gen =>
        \/ Escalated
        \/ /\ pos.sl = pos.gen /\ pos.tp = pos.gen
           /\ Guard("SL") \in exOrders \cup consumed
           /\ Guard("TP") \in exOrders \cup consumed

(* Whatever goes wrong (finitely often), what the worker believes and what the  *)
(* exchange holds agree again and again: no orphaned exposure stays.            *)
Reconciled == []<>(pos.amt = exAmt)

(* DEGRADATION and FAILURE, where no restart makes the worker forget them, get  *)
(* rid of all exposure, for good.                                               *)
MustCloseFlattens == <>[]MustClose => <>[](pos.amt = 0 /\ exAmt = 0)

--------------------------------------------------------------------------------
(* position_manager.go:38, the single-position constraint: the exposure at the  *)
(* exchange stays within one order.                                             *)
SinglePosition == Abs(exAmt) <= QuantizeQty(Qty)
================================================================================
