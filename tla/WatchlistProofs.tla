---------------------------- MODULE WatchlistProofs ----------------------------
(* Theorems about Watchlist for any finite set of symbols and of requests.      *)
EXTENDS Watchlist, FiniteSetTheorems, TLAPS

(* addMu belongs to one add, and an add that has counted the workers still has  *)
(* room for its own: only removes can have run since.                           *)
AddInv ==
    /\ TypeOK /\ WithinLimit
    /\ \A p, q \in Requests : adding[p] /\ adding[q] => p = q
    /\ \A p \in Requests : pc[p] = "adding" => made < MaxMade
    /\ \A p \in Requests : adding[p] => Cardinality(workers) < MaxSymbols

(* A watched symbol without a worker has one on the way, or is on its way out.  *)
WorkerInv ==
    \A s \in Watched : \/ s \in workers
                       \/ \E p \in Requests : sym[p] = s /\ (adding[p] \/ pc[p] = "removing")

(* connect's copy is the streams from the moment it is made.                    *)
DialInv == run # "waiting" /\ ~cut /\ ~raced => dialled = streams

(* A rebuild that is alone has read states that still stand, because whoever    *)
(* changes one has to come through a snapshot of its own.                       *)
Current(p) == \A s \in Syms \ todo[p] : got[p][s] = states[s]
Matching == Watched \subseteq streams /\ handlers = states

MatchInv ==
    /\ \A p, q \in Requests : pc[p] = "rebuild" /\ pc[q] = "rebuild" /\ p # q => overlapped
    /\ ~overlapped /\ (\A p \in Requests : pc[p] # "snapshot")
           => IF \E p \in Requests : pc[p] = "rebuild"
              THEN \A p \in Requests : pc[p] = "rebuild" => Current(p)
              ELSE Matching

--------------------------------------------------------------------------------
(* SetStreams and the client's own steps keep the client's types.               *)
LEMMA ClientTypes ==
    ASSUME WSTypeOK, (WSRun \/ \E hs \in Handlers : SetStreams(hs))
    PROVE  WSTypeOK'
    <1>1. CASE WSRun
        <2>1. CASE Copy
            BY <2>1 DEF WSTypeOK, Copy
        <2>2. CASE DialFails
            BY <2>2 DEF WSTypeOK, DialFails, Return
        <2>3. CASE DialSucceeds
            BY <2>3 DEF WSTypeOK, DialSucceeds
        <2>4. CASE Install
            BY <2>4 DEF WSTypeOK, Install
        <2>5. CASE Disconnect
            BY <2>5 DEF WSTypeOK, Disconnect, Return
        <2> QED BY <1>1, <2>1, <2>2, <2>3, <2>4, <2>5 DEF WSRun
    <1>2. ASSUME NEW hs \in Handlers, SetStreams(hs) PROVE WSTypeOK'
        BY <1>2 DEF WSTypeOK, SetStreams
    <1> QED BY <1>1, <1>2

(* The worker set stays finite, and by one step it grows by at most one symbol. *)
LEMMA WorkerCount ==
    ASSUME TypeOK, NEW s \in Syms
    PROVE  /\ Cardinality(workers) \in Nat
           /\ Cardinality(workers \ {s}) <= Cardinality(workers)
           /\ Cardinality(workers \union {s}) <= Cardinality(workers) + 1
           /\ Cardinality(workers \ {s}) \in Nat /\ Cardinality(workers \union {s}) \in Nat
    <1>1. IsFiniteSet(workers)
        BY SymsAssumption, FS_Subset DEF TypeOK
    <1>2. Cardinality(workers) \in Nat
        BY <1>1, FS_CardinalityType
    <1>3. Cardinality(workers \ {s}) = IF s \in workers THEN Cardinality(workers) - 1
                                       ELSE Cardinality(workers)
        BY <1>1, FS_RemoveElement
    <1>4. Cardinality(workers \union {s}) = IF s \in workers THEN Cardinality(workers)
                                           ELSE Cardinality(workers) + 1
        BY <1>1, FS_AddElement
    <1>5. Cardinality(workers \ {s}) \in Nat
        BY <1>1, FS_RemoveElement, FS_CardinalityType
    <1> QED BY <1>2, <1>3, <1>4, <1>5

(* Every step keeps AddInv.                                                     *)
LEMMA AddStep ==
    ASSUME AddInv, [Next]_vars
    PROVE  AddInv'
    <1> USE BoundAssumption DEF AddInv, WithinLimit
    <1>1. ASSUME NEW p \in Requests, NEW s \in Syms, AddCheck(p, s) PROVE AddInv'
        <2>1. TypeOK'
            BY <1>1, NoSymAssumption DEF TypeOK, WSTypeOK, AddCheck, Begin, wsVars, listVars
        <2>2. Cardinality(workers) \in Nat
            BY WorkerCount
        <2> QED BY <1>1, <2>1, <2>2 DEF AddCheck, AddMuFree, Begin, listVars, TypeOK
    <1>2. ASSUME NEW p \in Requests, NEW s \in Syms, RemoveWorker(p, s) PROVE AddInv'
        <2>1. TypeOK'
            BY <1>2, NoSymAssumption DEF TypeOK, WSTypeOK, RemoveWorker, Begin, wsVars
        <2>2. Cardinality(workers) \in Nat /\ Cardinality(workers') \in Nat
              /\ Cardinality(workers') <= Cardinality(workers)
            BY <1>2, WorkerCount DEF RemoveWorker
        <2> QED BY <1>2, <2>1, <2>2 DEF RemoveWorker, Begin, TypeOK
    <1>3. ASSUME NEW p \in Requests, NEW s \in Syms, ReadState(p, s) PROVE AddInv'
        BY <1>3 DEF ReadState, TypeOK, WSTypeOK, Handlers, wsVars, listVars
    <1>4. ASSUME NEW p \in Requests, WatchAdd(p) PROVE AddInv'
        <2>1. made \in 0..MaxMade /\ made < MaxMade /\ sym[p] \in Syms /\ adding[p]
            BY <1>4 DEF WatchAdd, TypeOK
        <2>2. states' \in Handlers /\ made' \in 0..MaxMade
            BY <1>4, <2>1 DEF WatchAdd, TypeOK, Handlers
        <2>3. TypeOK'
            BY <1>4, <2>1, <2>2 DEF WatchAdd, Goto, TypeOK, WSTypeOK, wsVars
        <2>4. \A q \in Requests : pc'[q] # "adding"
            BY <1>4, <2>1 DEF WatchAdd, Goto, TypeOK
        <2> QED BY <1>4, <2>3, <2>4 DEF WatchAdd
    <1>5. ASSUME NEW p \in Requests, AddWorker(p) PROVE AddInv'
        <2>1. adding[p] /\ sym[p] \in Syms
            BY <1>5 DEF AddWorker, TypeOK
        <2>2. TypeOK'
            BY <1>5, <2>1 DEF AddWorker, Goto, TypeOK, WSTypeOK, wsVars
        <2>3. Cardinality(workers') <= MaxSymbols
            BY <1>5, <2>1, WorkerCount DEF AddWorker
        <2>4. \A q \in Requests : ~adding'[q]
            BY <1>5, <2>1 DEF AddWorker, TypeOK
        <2> QED BY <1>5, <2>2, <2>3, <2>4 DEF AddWorker, Goto, TypeOK
    <1>6. ASSUME NEW p \in Requests, WatchRemove(p) PROVE AddInv'
        <2>1. ~adding[p]
            BY <1>6 DEF WatchRemove, TypeOK
        <2>2. TypeOK'
            BY <1>6, <2>1 DEF WatchRemove, Goto, TypeOK, WSTypeOK, Handlers, wsVars
        <2> QED BY <1>6, <2>2 DEF WatchRemove, Goto, TypeOK
    <1>7. ASSUME NEW p \in Requests, Snapshot(p) PROVE AddInv'
        <2>1. TypeOK'
            BY <1>7 DEF Snapshot, Goto, TypeOK, WSTypeOK, Handlers, Watched, Nothing, wsVars, listVars
        <2> QED BY <1>7, <2>1 DEF Snapshot, Goto, TypeOK, listVars
    <1>8. ASSUME NEW p \in Requests, Rebuilt(p) PROVE AddInv'
        <2>1. WSTypeOK'
            BY <1>8, ClientTypes DEF Rebuilt, TypeOK
        <2>2. TypeOK'
            BY <1>8, <2>1 DEF Rebuilt, Goto, TypeOK, Handlers, Nothing, listVars
        <2> QED BY <1>8, <2>2 DEF Rebuilt, Goto, TypeOK, listVars
    <1>9. ASSUME ClientNext PROVE AddInv'
        <2>1. WSTypeOK'
            BY <1>9, ClientTypes DEF ClientNext, TypeOK
        <2> QED BY <1>9, <2>1 DEF ClientNext, TypeOK, listVars, reqVars
    <1>10. ASSUME UNCHANGED vars PROVE AddInv'
        BY <1>10 DEF vars, wsVars, listVars, reqVars, TypeOK, WSTypeOK
    <1> QED BY <1>1, <1>2, <1>3, <1>4, <1>5, <1>6, <1>7, <1>8, <1>9, <1>10 DEF Next, RequestNext

(* Every step keeps WorkerInv: a request that ends is an add, whose worker is   *)
(* there, or a remove, whose symbol state is gone.                              *)
LEMMA WorkerStep ==
    ASSUME TypeOK, WorkerInv, [Next]_vars
    PROVE  WorkerInv'
    <1> USE DEF WorkerInv, Watched
    <1>1. ASSUME NEW p \in Requests, NEW s \in Syms, AddCheck(p, s) PROVE WorkerInv'
        BY <1>1, NoSymAssumption DEF AddCheck, Begin, TypeOK, listVars
    <1>2. ASSUME NEW p \in Requests, NEW s \in Syms, RemoveWorker(p, s) PROVE WorkerInv'
        BY <1>2, NoSymAssumption DEF RemoveWorker, Begin, TypeOK
    <1>3. ASSUME NEW p \in Requests, NEW s \in Syms, ReadState(p, s) PROVE WorkerInv'
        BY <1>3 DEF ReadState, listVars
    <1>4. ASSUME NEW p \in Requests, WatchAdd(p) PROVE WorkerInv'
        <2>1. sym' = sym /\ adding[p] /\ adding' = adding /\ workers' = workers
            BY <1>4 DEF WatchAdd, Goto, TypeOK
        <2>2. \A q \in Requests \ {p} : pc'[q] = pc[q]
            BY <1>4 DEF WatchAdd, Goto, TypeOK
        <2>3. \A s \in Syms \ {sym[p]} : states'[s] = states[s]
            BY <1>4 DEF WatchAdd, TypeOK, Handlers
        <2> QED BY <2>1, <2>2, <2>3
    <1>5. ASSUME NEW p \in Requests, AddWorker(p) PROVE WorkerInv'
        BY <1>5 DEF AddWorker, Goto, TypeOK
    <1>6. ASSUME NEW p \in Requests, WatchRemove(p) PROVE WorkerInv'
        <2>1. \A s \in Syms : states'[s] # 0 => states[s] # 0 /\ s # sym[p]
            BY <1>6 DEF WatchRemove, TypeOK, Handlers
        <2>2. \A q \in Requests \ {p} : pc'[q] = pc[q] /\ sym'[q] = sym[q]
            BY <1>6 DEF WatchRemove, Goto, TypeOK
        <2> QED BY <1>6, <2>1, <2>2 DEF WatchRemove
    <1>7. ASSUME NEW p \in Requests, Snapshot(p) PROVE WorkerInv'
        BY <1>7 DEF Snapshot, Goto, TypeOK, listVars
    <1>8. ASSUME NEW p \in Requests, Rebuilt(p) PROVE WorkerInv'
        BY <1>8 DEF Rebuilt, Goto, TypeOK, listVars
    <1>9. ASSUME ClientNext \/ UNCHANGED vars PROVE WorkerInv'
        BY <1>9 DEF ClientNext, vars, listVars, reqVars
    <1> QED BY <1>1, <1>2, <1>3, <1>4, <1>5, <1>6, <1>7, <1>8, <1>9 DEF Next, RequestNext

(* Every step keeps DialInv: what replaces the streams cuts the connection or   *)
(* is recorded as a race with the dial.                                         *)
LEMMA DialStep ==
    ASSUME TypeOK, DialInv, [Next]_vars
    PROVE  DialInv'
    <1>1. ASSUME NEW p \in Requests, Rebuilt(p) PROVE DialInv'
        BY <1>1 DEF DialInv, Rebuilt, SetStreams, TypeOK, WSTypeOK
    <1>2. ASSUME WSRun PROVE DialInv'
        BY <1>2 DEF DialInv, WSRun, Copy, DialFails, DialSucceeds, Install, Disconnect, Return
    <1>3. ASSUME UNCHANGED wsVars PROVE DialInv'
        BY <1>3 DEF DialInv, wsVars
    <1>4. ASSUME NEW p \in Requests, RequestNext(p) PROVE Rebuilt(p) \/ UNCHANGED wsVars
        BY <1>4 DEF RequestNext, AddCheck, RemoveWorker, ReadState, WatchAdd, AddWorker,
                    WatchRemove, Snapshot
    <1> QED BY <1>1, <1>2, <1>3, <1>4 DEF Next, ClientNext, vars

(* Every step keeps MatchInv.                                                   *)
LEMMA MatchStep ==
    ASSUME TypeOK, MatchInv, [Next]_vars
    PROVE  MatchInv'
    <1> USE DEF MatchInv
    <1>1. ASSUME NEW p \in Requests, NEW s \in Syms, AddCheck(p, s) \/ RemoveWorker(p, s)
          PROVE  MatchInv'
        <2>1. \A q \in Requests : /\ pc'[q] = "rebuild" <=> pc[q] = "rebuild"
                                  /\ pc'[q] = "snapshot" <=> pc[q] = "snapshot"
            BY <1>1 DEF AddCheck, RemoveWorker, Begin, TypeOK
        <2>2. UNCHANGED <<wsVars, states, todo, got, overlapped>>
            BY <1>1 DEF AddCheck, RemoveWorker, listVars
        <2> QED BY <2>1, <2>2 DEF Current, Matching, Watched, wsVars
    <1>2. ASSUME NEW p \in Requests, NEW s \in Syms, ReadState(p, s) PROVE MatchInv'
        <2>1. UNCHANGED <<wsVars, states, pc, overlapped>>
            BY <1>2 DEF ReadState, listVars
        <2>2. \A q \in Requests : Current(q) => Current(q)'
            BY <1>2 DEF ReadState, Current, TypeOK, Handlers, listVars
        <2> QED BY <2>1, <2>2 DEF Matching, Watched, wsVars
    <1>3. ASSUME NEW p \in Requests, WatchAdd(p) PROVE MatchInv'
        <2>1. CASE sym[p] \in Watched
            <3>1. \A q \in Requests : /\ pc'[q] = "rebuild" <=> pc[q] = "rebuild"
                                      /\ pc'[q] = "snapshot" <=> pc[q] = "snapshot"
                BY <1>3, <2>1 DEF WatchAdd, Goto, TypeOK
            <3> QED BY <1>3, <2>1, <3>1 DEF WatchAdd, Current, Matching, Watched, wsVars
        <2>2. CASE sym[p] \notin Watched
            BY <1>3, <2>2 DEF WatchAdd, Goto, TypeOK
        <2> QED BY <2>1, <2>2
    <1>4. ASSUME NEW p \in Requests, AddWorker(p) PROVE MatchInv'
        <2>1. \A q \in Requests : /\ pc'[q] = "rebuild" <=> pc[q] = "rebuild"
                                  /\ pc'[q] = "snapshot" <=> pc[q] = "snapshot"
            BY <1>4 DEF AddWorker, Goto, TypeOK
        <2> QED BY <1>4, <2>1 DEF AddWorker, Current, Matching, Watched, wsVars
    <1>5. ASSUME NEW p \in Requests, WatchRemove(p) PROVE MatchInv'
        <2>1. CASE sym[p] \in Watched
            BY <1>5, <2>1 DEF WatchRemove, Goto, TypeOK
        <2>2. CASE sym[p] \notin Watched
            <3>1. \A q \in Requests : /\ pc'[q] = "rebuild" <=> pc[q] = "rebuild"
                                      /\ pc'[q] = "snapshot" <=> pc[q] = "snapshot"
                BY <1>5, <2>2 DEF WatchRemove, Goto, TypeOK
            <3>2. states' = states
                BY <1>5, <2>2 DEF WatchRemove, Watched, TypeOK, Handlers
            <3> QED BY <1>5, <3>1, <3>2 DEF WatchRemove, Current, Matching, Watched, wsVars
        <2> QED BY <2>1, <2>2
    <1>6. ASSUME NEW p \in Requests, Snapshot(p) PROVE MatchInv'
        <2>1. Current(p)'
            BY <1>6 DEF Snapshot, Current, Watched, Nothing, TypeOK, listVars
        <2>2. pc'[p] = "rebuild" /\ \A q \in Requests \ {p} : pc'[q] = pc[q]
            BY <1>6 DEF Snapshot, Goto, TypeOK
        <2>3. overlapped' = \E q \in Requests \ {p} : pc[q] = "rebuild"
            BY <1>6 DEF Snapshot
        <2>4. CASE \E q \in Requests \ {p} : pc[q] = "rebuild"
            BY <2>3, <2>4
        <2>5. CASE \A q \in Requests \ {p} : pc[q] # "rebuild"
            BY <2>1, <2>2, <2>5
        <2> QED BY <2>4, <2>5
    <1>7. ASSUME NEW p \in Requests, Rebuilt(p) PROVE MatchInv'
        <2>1. pc'[p] \notin {"rebuild", "snapshot"} /\ \A q \in Requests \ {p} : pc'[q] = pc[q]
            BY <1>7 DEF Rebuilt, Goto, TypeOK
        <2>2. pc[p] = "rebuild" /\ overlapped' = overlapped
            BY <1>7 DEF Rebuilt
        <2>3. ASSUME ~overlapped, \A q \in Requests : pc[q] # "snapshot"
              PROVE  Matching'
            <3>1. got[p] = states
                BY <1>7, <2>3 DEF Rebuilt, Current, TypeOK, Handlers
            <3> QED BY <1>7, <3>1 DEF Rebuilt, SetStreams, Matching, Watched, listVars
        <2>4. ASSUME ~overlapped PROVE \A q \in Requests \ {p} : pc'[q] # "rebuild"
            BY <2>1, <2>2, <2>4
        <2> QED BY <2>1, <2>2, <2>3, <2>4
    <1>8. ASSUME ClientNext \/ UNCHANGED vars PROVE MatchInv'
        <2>1. UNCHANGED <<streams, handlers>>
            BY <1>8 DEF ClientNext, WSRun, Copy, DialFails, DialSucceeds, Install, Disconnect,
                        vars, wsVars
        <2>2. UNCHANGED <<listVars, reqVars, overlapped>>
            BY <1>8 DEF ClientNext, vars
        <2> QED BY <2>1, <2>2 DEF Current, Matching, Watched, listVars, reqVars
    <1> QED BY <1>1, <1>2, <1>3, <1>4, <1>5, <1>6, <1>7, <1>8 DEF Next, RequestNext

(* The initial states satisfy them all.                                         *)
LEMMA InitInv ==
    ASSUME Init
    PROVE  AddInv /\ WorkerInv /\ DialInv /\ MatchInv
    <1>1. Cardinality(workers) = 0
        BY FS_EmptySet DEF Init
    <1>2. TypeOK
        <2>1. Nothing \in Handlers
            BY BoundAssumption DEF Nothing, Handlers
        <2>2. WSTypeOK
            BY <2>1 DEF Init, WSInit, WSTypeOK, Nothing
        <2>3. /\ adding \in [Requests -> BOOLEAN] /\ overlapped \in BOOLEAN
              /\ \A p \in Requests : ~adding[p]
            BY DEF Init
        <2>4. /\ workers \subseteq Syms /\ states \in Handlers /\ made \in 0..MaxMade
              /\ pc \in [Requests -> {"idle", "adding", "worker", "removing", "snapshot", "rebuild"}]
              /\ sym \in [Requests -> Syms \union {NoSym}]
              /\ todo \in [Requests -> SUBSET Syms] /\ got \in [Requests -> Handlers]
              /\ \A p \in Requests : pc[p] = "idle" /\ sym[p] = NoSym
            BY <2>1, BoundAssumption DEF Init
        <2> QED BY <2>2, <2>3, <2>4 DEF TypeOK
    <1> QED BY <1>1, <1>2, BoundAssumption
            DEF Init, WSInit, AddInv, WithinLimit, WorkerInv, DialInv, MatchInv, Matching,
                Watched, Nothing

--------------------------------------------------------------------------------
(* The four invariants together are inductive.                                  *)
LEMMA Invariants == Spec => [](AddInv /\ WorkerInv /\ DialInv /\ MatchInv)
    <1> DEFINE I == AddInv /\ WorkerInv /\ DialInv /\ MatchInv
    <1>1. I /\ [Next]_vars => I'
        BY AddStep, WorkerStep, DialStep, MatchStep DEF AddInv
    <1> QED BY InitInv, <1>1, PTL DEF Spec

(* The types of the watchlist and the client, for any number of requests.       *)
THEOREM WatchlistTypes == Spec => []TypeOK
    <1>1. AddInv => TypeOK
        BY DEF AddInv
    <1> QED BY Invariants, <1>1, PTL

(* addMu does what main.go:170 says: no interleaving of adds and removes leads  *)
(* past maxSymbols.                                                             *)
THEOREM AddsStayWithinLimit == Spec => []WithinLimit
    <1>1. AddInv => WithinLimit
        BY DEF AddInv
    <1> QED BY Invariants, <1>1, PTL

(* No interleaving leaves a symbol watched, and evaluated, without a worker.    *)
THEOREM NoWatchWithoutWorker == Spec => []WatchedHaveWorkers
    <1>1. AddInv /\ WorkerInv => WatchedHaveWorkers
        BY DEF WorkerInv, WatchedHaveWorkers, Busy
    <1> QED BY Invariants, <1>1, PTL

(* The race with a dial under way is the only way to an open connection that    *)
(* carries other streams than those asked for.                                  *)
THEOREM StaleStreamsAreRaces == Spec => []StaleOnlyByDialRace
    <1>1. DialInv => StaleOnlyByDialRace
        BY DEF DialInv, StaleOnlyByDialRace
    <1> QED BY Invariants, <1>1, PTL

(* Rebuilds that do not overlap leave every watched symbol subscribed and every *)
(* handler writing to the present symbol state, however adds and removes of any *)
(* number of requests interleave.                                               *)
THEOREM RebuildsMatch == Spec => []RebuildMatches
    <1>1. MatchInv => RebuildMatches
        BY DEF MatchInv, Matching, RebuildMatches, Quiet
    <1> QED BY Invariants, <1>1, PTL
================================================================================
