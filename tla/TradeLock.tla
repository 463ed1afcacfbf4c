-------------------------------- MODULE TradeLock -------------------------------
(* What the workers' trading looks like with the orders taken away: who holds   *)
(* TradeHandler.mu for what, whether the position is open, and where case A of  *)
(* the reconciliation loop is, which resets the position without the lock. It   *)
(* is the abstract specification of module Execution, which is one worker in    *)
(* detail, and the part that SignalPath is built from, which is all of them.    *)
EXTENDS TradingStates

CONSTANT Workers    \* the symbols on the watchlist

VARIABLES
    state,      \* the state of each worker's machine
    lock,       \* what TradeHandler.mu is held for: "free", "opening", "closing"
    holding,    \* the position is not flat; FALSE while the lock is "opening"
    recon       \* case A: "idle", "reset" the position next, "record" it next

lockVars == <<state, lock, holding, recon>>

LockInit ==
    /\ state = [w \in Workers |-> NOISE]
    /\ lock = [w \in Workers |-> "free"]
    /\ holding = [w \in Workers |-> FALSE]
    /\ recon = [w \in Workers |-> "idle"]

(* Mutant of Openable: a position that is open does not stop the next one.      *)
MutNoFlatCheck(w) == MayOpen(state[w])

(* The checks of TryOpen that are about its own worker.                         *)
Openable(w) == ~holding[w] /\ MayOpen(state[w])

BeginOpen(w) ==
    /\ lock[w] = "free" /\ Openable(w)
    /\ lock' = [lock EXCEPT ![w] = "opening"]
    /\ UNCHANGED <<state, holding, recon>>

(* The end of an opening: nothing recorded, a position, or a position that an   *)
(* emergency close takes back under the same lock.                              *)
OpenEnds(w) ==
    /\ lock[w] = "opening"
    /\ \E opened, emergency \in BOOLEAN :
          /\ holding' = [holding EXCEPT ![w] = opened]
          /\ lock' = [lock EXCEPT ![w] = IF opened /\ emergency THEN "closing" ELSE "free"]
    /\ UNCHANGED <<state, recon>>

(* A reversal or an exit finds the position open when it has the lock.          *)
BeginClose(w) ==
    /\ holding[w] /\ lock[w] = "free"
    /\ lock' = [lock EXCEPT ![w] = "closing"]
    /\ UNCHANGED <<state, holding, recon>>

(* doClose books its close, even if case A has reset the position meanwhile.    *)
CloseSucceeds(w) ==
    /\ lock[w] = "closing"
    /\ lock' = [lock EXCEPT ![w] = "free"]
    /\ holding' = [holding EXCEPT ![w] = FALSE]
    /\ UNCHANGED <<state, recon>>

CloseFails(w) ==
    /\ lock[w] = "closing"
    /\ lock' = [lock EXCEPT ![w] = "free"]
    /\ UNCHANGED <<state, holding, recon>>

(* reconcile finds the exchange flat and the copy it took of the position open, *)
(* which may be one that an opening under way has just recorded.                *)
FindCaseA(w) ==
    /\ recon[w] = "idle" /\ (holding[w] \/ lock[w] = "opening")
    /\ recon' = [recon EXCEPT ![w] = "reset"]
    /\ UNCHANGED <<state, lock, holding>>

(* Two cancels later it resets the position without the lock, whatever became   *)
(* of the one it saw,                                                           *)
ResetCaseA(w) ==
    /\ recon[w] = "reset"
    /\ holding' = [holding EXCEPT ![w] = FALSE]
    /\ recon' = [recon EXCEPT ![w] = "record"]
    /\ UNCHANGED <<state, lock>>

(* and books a close when it gets the lock.                                     *)
RecordCaseA(w) ==
    /\ recon[w] = "record" /\ lock[w] = "free"
    /\ recon' = [recon EXCEPT ![w] = "idle"]
    /\ UNCHANGED <<state, lock, holding>>

(* The worker's machine only becomes more severe.                               *)
Escalate(w, s) ==
    /\ s > state[w]
    /\ state' = [state EXCEPT ![w] = s]
    /\ UNCHANGED <<lock, holding, recon>>

(* The worker is gone with its process, and another is made for the symbol.     *)
Restart(w) ==
    /\ state' = [state EXCEPT ![w] = NOISE]
    /\ lock' = [lock EXCEPT ![w] = "free"]
    /\ holding' = [holding EXCEPT ![w] = FALSE]
    /\ recon' = [recon EXCEPT ![w] = "idle"]

LockNext ==
    \E w \in Workers :
        \/ BeginOpen(w) \/ OpenEnds(w)
        \/ BeginClose(w) \/ CloseSucceeds(w) \/ CloseFails(w)
        \/ FindCaseA(w) \/ ResetCaseA(w) \/ RecordCaseA(w)
        \/ \E s \in States : Escalate(w, s)
        \/ Restart(w)

LockSpec == LockInit /\ [][LockNext]_lockVars

(* The steps that book a trade in the guardrails.                               *)
Books == \E w \in Workers : CloseSucceeds(w) \/ RecordCaseA(w)
================================================================================
