----------------------------- MODULE TradingStates -----------------------------
(* The trading states of a worker (internal/statemachine/state.go), the         *)
(* integers of the source, so that "more severe" is ">".                        *)
EXTENDS Integers

NOISE == 0          \* observation period after start
STABLE == 1
STRESS == 2
DEGRADATION == 3    \* only closes
FAILURE == 4        \* forced close, then a human
States == NOISE..FAILURE

(* CanOpen and CanOpenTrend of a worker in state s.                             *)
MayOpen(s) == s \in {STABLE, STRESS}
MayOpenTrend(s) == s = STABLE
================================================================================
