------------------------------- MODULE TradeCycle -------------------------------
(* What the execution layer promises, with the machinery taken away: one        *)
(* exposure at a time; it is entered, left, and booked exactly once before the  *)
(* next one is entered.                                                         *)
EXTENDS Integers

CONSTANT Trades     \* the openings a behaviour may contain

VARIABLES
    side,           \* direction of the exposure, 0 when there is none
    owed,           \* an exposure was left and is not booked yet
    booked          \* how often each opening was booked

tradeVars == <<side, owed, booked>>

Init ==
    /\ side = 0 /\ owed = FALSE
    /\ booked = [t \in Trades |-> 0]

Enter(d) ==
    /\ side = 0 /\ ~owed
    /\ side' = d
    /\ UNCHANGED <<owed, booked>>

Leave ==
    /\ side # 0
    /\ side' = 0 /\ owed' = TRUE
    /\ UNCHANGED booked

Book(t) ==
    /\ owed /\ booked[t] = 0
    /\ owed' = FALSE
    /\ booked' = [booked EXCEPT ![t] = 1]
    /\ UNCHANGED side

Next ==
    \/ \E d \in {1, -1} : Enter(d)
    \/ Leave
    \/ \E t \in Trades : Book(t)

Spec == Init /\ [][Next]_tradeVars
================================================================================
