------------------------------ MODULE StateMachine ------------------------------
(* The trading state of one symbol worker (internal/statemachine/state.go).     *)
(* Other goroutines ask for an escalation by a non-blocking send on a channel;  *)
(* the goroutine Run takes the requests one at a time and ticks once a second.  *)
EXTENDS Integers, Sequences, TradingStates

CONSTANTS
    ReqCap,     \* capacity of the channel requests (64 in the source)
    Window,     \* the five minutes of the source, in ticks of the second timer
    Recovery    \* TRUE if some operator calls RecoverTo (the repository never does)

ASSUME ReqCapAssumption == ReqCap \in Nat \ {0}
ASSUME WindowAssumption == Window \in Nat \ {0}
ASSUME RecoveryAssumption == Recovery \in BOOLEAN

VARIABLES
    current,    \* the state
    entered,    \* ticks since the state was entered, saturating at Window
    noiseSince, \* ticks since New, saturating at Window: transition never resets it
    requests,   \* the channel: targets in the order they were sent
    dropped     \* history: some request found the channel full

smVars == <<current, entered, noiseSince, requests, dropped>>

SMInit ==
    /\ current = NOISE
    /\ entered = 0
    /\ noiseSince = 0
    /\ requests = <<>>
    /\ dropped = FALSE

Pending == {requests[i] : i \in DOMAIN requests}

CanOpen == MayOpen(current)
MustClose == current \in {DEGRADATION, FAILURE}

Older(age) == IF age < Window THEN age + 1 ELSE age

(* transition: the state and the time it was entered change together.           *)
Transition(to) == current' = to /\ entered' = 0

(* RequestTransition, as part of the caller's step: the send is dropped when    *)
(* the channel is full.                                                         *)
RequestTransition(target) ==
    IF Len(requests) < ReqCap
    THEN requests' = Append(requests, target) /\ UNCHANGED dropped
    ELSE dropped' = TRUE /\ UNCHANGED requests

(* Mutant of ApplyRequest: the state rises one level per request.               *)
MutApplyOneLevel ==
    /\ requests # <<>>
    /\ requests' = Tail(requests)
    /\ IF current # FAILURE /\ Head(requests) > current
       THEN Transition(current + 1)
       ELSE UNCHANGED <<current, entered>>
    /\ UNCHANGED <<noiseSince, dropped>>

(* applyRequest: FAILURE absorbs every request, a target that is not more       *)
(* severe than the current state is ignored.                                    *)
ApplyRequest ==
    /\ requests # <<>>
    /\ requests' = Tail(requests)
    /\ IF current # FAILURE /\ Head(requests) > current
       THEN Transition(Head(requests))
       ELSE UNCHANGED <<current, entered>>
    /\ UNCHANGED <<noiseSince, dropped>>

(* Mutant of Tick: DEGRADATION, too, is left by itself after a quiet Window.    *)
MutTickRecovers ==
    /\ noiseSince' = Older(noiseSince)
    /\ CASE current = NOISE /\ noiseSince' = Window -> Transition(STABLE)
         [] current = DEGRADATION /\ entered = Window -> Transition(STRESS)
         [] OTHER -> entered' = Older(entered) /\ UNCHANGED current
    /\ UNCHANGED <<requests, dropped>>

(* tick: the only transition that is not requested.                             *)
Tick ==
    /\ noiseSince' = Older(noiseSince)
    /\ IF current = NOISE /\ noiseSince' = Window
       THEN Transition(STABLE)
       ELSE entered' = Older(entered) /\ UNCHANGED current
    /\ UNCHANGED <<requests, dropped>>

(* RecoverTo lowers the state at once; entered, which its comment (a stable      *)
(* window of five minutes) would need, is not looked at.                        *)
RecoverTo(target) ==
    /\ Recovery
    /\ current # FAILURE
    /\ target < current
    /\ Transition(target)
    /\ UNCHANGED <<noiseSince, requests, dropped>>

(* The callers seen from here: reconciliation asks for STRESS, DEGRADATION or   *)
(* FAILURE, a failed close asks for FAILURE.                                    *)
Targets == {STRESS, DEGRADATION, FAILURE}

Request(target) ==
    /\ RequestTransition(target)
    /\ UNCHANGED <<current, entered, noiseSince>>

(* What happens without an operator: requests, and what Run does with them and  *)
(* with its ticks.                                                              *)
OwnNext ==
    \/ \E target \in Targets : Request(target)
    \/ ApplyRequest
    \/ Tick

SMNext == OwnNext \/ \E target \in States : RecoverTo(target)

(* Run selects among its ready channels, so neither requests nor ticks starve.  *)
SMSpec == SMInit /\ [][SMNext]_smVars /\ WF_smVars(ApplyRequest) /\ WF_smVars(Tick)

--------------------------------------------------------------------------------
(* Types of the state, the channel never above its capacity.                    *)
SMTypeOK ==
    /\ current \in States
    /\ entered \in 0..Window
    /\ noiseSince \in 0..Window
    /\ requests \in Seq(Targets)
    /\ Len(requests) <= ReqCap
    /\ dropped \in BOOLEAN

(* "FAILURE needs a human": no request, tick or recovery leaves FAILURE.        *)
FailureSticky == [][current = FAILURE => current' = FAILURE]_smVars

(* Of all steps only an operator's RecoverTo lowers the severity: no request,   *)
(* applied request or tick does, however long the state has been quiet, and a   *)
(* recovery, too, stops at FAILURE.                                             *)
OnlyRecoveryLowers ==
    [][ /\ OwnNext => current' >= current
        /\ current = FAILURE => current' = FAILURE ]_smVars

(* A request that was accepted leaves the channel only by being honoured: the   *)
(* channel keeps it, or the state it asked for is reached in that very step.    *)
AcceptedKept ==
    [][\A t \in Pending : t \in Pending' \/ current' >= t]_smVars

(* An accepted escalation is eventually in force, whatever is queued before it. *)
AcceptedHonoured ==
    \A t \in Targets : (t \in Pending) ~> (current >= t)
================================================================================
