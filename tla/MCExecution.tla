------------------------------ MODULE MCExecution ------------------------------
(* Model-checking instances of Execution: constants a cfg cannot write, and the *)
(* refinements of TradeCycle and TradeLock.                                     *)
EXTENDS Execution

LongOnly == {1}
BothSides == {1, -1}

(* The view of the liveness run: everything but what no guard reads and neither *)
(* of its properties mentions (the history variables and the age of the state), *)
(* and without which no step becomes a stutter.                                 *)
NoHistory ==
    <<current, noiseSince, requests, pos, hmu, cooling, procVars, reconVars,
      exAmt, exOrders, opens, faults>>

(* The exposure was left: the books, or a reply on its way, still say otherwise.*)
Owed ==
    /\ exAmt = 0
    /\ pos.amt # 0 \/ (pc["exec"] = "openReply" /\ reply["exec"] = "ok")

Cycle == INSTANCE TradeCycle WITH
    Trades <- 1..MaxOpens, side <- Sign(exAmt), owed <- Owed

(* With every open order answered and reconciliation quiet, the execution layer *)
(* goes through one trade at a time and books each exactly once, whatever the   *)
(* guard orders, the monitor, reversals and failed closes or cancels do.        *)
ImplementsTradeCycle == Cycle!Spec

--------------------------------------------------------------------------------
(* One worker's view of the lock: what it is held for, a position that no       *)
(* opening is at work on, how far case A has come.                              *)
LockedFor ==
    IF hmu = "free" THEN "free" ELSE IF pc["exec"] \in Opening THEN "opening" ELSE "closing"
Holding == pos.amt # 0 /\ pc["exec"] \notin Opening
CaseAStage ==
    CASE pc["recon"] \in {"cancelSL", "cancelTP", "caseAClose"} -> "reset"
      [] pc["recon"] = "caseARecord" -> "record"
      [] OTHER -> "idle"

This == {"worker"}
Trading == INSTANCE TradeLock WITH
    Workers <- This,
    state <- [w \in This |-> current],
    lock <- [w \in This |-> LockedFor],
    holding <- [w \in This |-> Holding],
    recon <- [w \in This |-> CaseAStage]

(* The worker does what SignalPath takes for granted of it: one opening or      *)
(* close at a time under the lock, openings from a flat position in a state     *)
(* that allows them, case A as the only one who resets the position without the *)
(* lock, and a state that only rises, until a restart forgets it all.           *)
ImplementsTradeLock == Trading!LockSpec

(* RecordTrade is called only by the two steps that SignalPath books: a close   *)
(* that gives the lock back, and case A with the lock free.                     *)
BooksUnderLock == [][booked' # booked => Trading!Books]_vars
================================================================================
