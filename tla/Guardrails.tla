------------------------------- MODULE Guardrails -------------------------------
(* The risk limits all workers share (internal/risk/guardrails.go): a daily     *)
(* loss limit and an hour without openings after a run of losses. Returns are   *)
(* integers; the two times are the questions asked of them: is dayResetAt past, *)
(* is cooldownUntil ahead.                                                      *)
EXTENDS Integers

CONSTANTS
    DailyLimit,     \* dailyLossLimitPct
    StreakLimit     \* consecutiveLossLimit

ASSUME LimitAssumption == DailyLimit \in Nat \ {0} /\ StreakLimit \in Nat \ {0}

VARIABLES
    daily,      \* dailyPnLPct, of the day of the last reset
    newDay,     \* now is after dayResetAt
    streak,     \* consecutiveLosses
    cooling     \* now is before cooldownUntil

guardVars == <<daily, newDay, streak, cooling>>

GuardInit == daily = 0 /\ newDay = FALSE /\ streak = 0 /\ cooling = FALSE

(* Mutants of CanTrade: the day is not looked at; a new day ends a cooldown.    *)
MutCanTradeSameDay == ~cooling /\ daily > -DailyLimit
MutNewDayFirst == newDay \/ (~cooling /\ daily > -DailyLimit)

CanTrade == ~cooling /\ (newDay \/ daily > -DailyLimit)

(* RecordTrade: the first record of a day resets the sum; the streak is reset   *)
(* by a trade that is no loss, never by the day or by the end of a cooldown.    *)
RecordTrade(pnl) ==
    /\ newDay' = FALSE
    /\ daily' = (IF newDay THEN 0 ELSE daily) + pnl
    /\ streak' = IF pnl < 0 THEN streak + 1 ELSE 0
    /\ cooling' = (cooling \/ (pnl < 0 /\ streak + 1 >= StreakLimit))

Midnight ==
    /\ ~newDay /\ newDay' = TRUE
    /\ UNCHANGED <<daily, streak, cooling>>

CooldownOver ==
    /\ cooling /\ cooling' = FALSE
    /\ UNCHANGED <<daily, newDay, streak>>

(* Types of the limits' state.                                                  *)
GuardTypeOK ==
    daily \in Int /\ newDay \in BOOLEAN /\ streak \in Nat /\ cooling \in BOOLEAN
================================================================================
