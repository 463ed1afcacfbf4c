------------------------------- MODULE Watchlist -------------------------------
(* The watchlist: HTTP requests that add and remove symbols (cmd/main.go), the  *)
(* watcher's symbol states and rebuildWS (cmd/watcher.go), and the connection   *)
(* of module WSClient. Requests run concurrently, each in a goroutine of the    *)
(* HTTP server. Leverage and margin calls of an add change nothing here.        *)
EXTENDS WSClient, FiniteSets

CONSTANTS
    Requests,       \* HTTP handlers at work
    MaxSymbols,     \* maxSymbols
    NoSym           \* the symbol of a request that is not at work

ASSUME SymsAssumption == IsFiniteSet(Syms) /\ IsFiniteSet(Requests)
ASSUME NoSymAssumption == NoSym \notin Syms
ASSUME BoundAssumption == MaxSymbols \in Nat \ {0} /\ MaxMade \in Nat

VARIABLES
    workers,    \* the symbols with a symbolWorker
    states,     \* SymbolWatcher.states: which symState a symbol has, 0 for none
    made,       \* symbol states made
    pc,         \* where each request is
    sym,        \* its symbol
    adding,     \* it is an add, and holds addMu
    todo,       \* rebuildWS: symbols of the snapshot not yet read
    got,        \* rebuildWS: the symbol states read
    overlapped  \* history: the last rebuild to take its snapshot did so inside another

listVars == <<workers, states, made>>
reqVars == <<pc, sym, adding, todo, got>>
vars == <<wsVars, listVars, reqVars, overlapped>>

Nothing == [s \in Syms |-> 0]
Watched == {s \in Syms : states[s] # 0}

Init ==
    /\ WSInit
    /\ workers = {} /\ states = Nothing /\ made = 0
    /\ pc = [p \in Requests |-> "idle"]
    /\ sym = [p \in Requests |-> NoSym]
    /\ adding = [p \in Requests |-> FALSE]
    /\ todo = [p \in Requests |-> {}]
    /\ got = [p \in Requests |-> Nothing]
    /\ overlapped = FALSE

Goto(p, label) ==
    /\ pc' = [pc EXCEPT ![p] = label]
    /\ sym' = IF label = "idle" THEN [sym EXCEPT ![p] = NoSym] ELSE sym

Begin(p, s, label) ==
    /\ pc[p] = "idle"
    /\ pc' = [pc EXCEPT ![p] = label] /\ sym' = [sym EXCEPT ![p] = s]

--------------------------------------------------------------------------------
AddMuFree == \A p \in Requests : ~adding[p]

(* Mutant of AddCheck: adds are not serialized.                                 *)
MutAddUnserialized(p, s) ==
    /\ s \notin workers /\ Cardinality(workers) < MaxSymbols
    /\ made + Cardinality({q \in Requests : adding[q]}) < MaxMade
    /\ adding' = [adding EXCEPT ![p] = TRUE]
    /\ Begin(p, s, "adding")
    /\ UNCHANGED <<wsVars, listVars, todo, got, overlapped>>

(* An add takes addMu and looks at the workers. One that finds its symbol, or   *)
(* the list full, returns and changes nothing.                                  *)
AddCheck(p, s) ==
    /\ AddMuFree
    /\ s \notin workers /\ Cardinality(workers) < MaxSymbols /\ made < MaxMade
    /\ adding' = [adding EXCEPT ![p] = TRUE]
    /\ Begin(p, s, "adding")
    /\ UNCHANGED <<wsVars, listVars, todo, got, overlapped>>

(* SymbolWatcher.Add up to rebuildWS: a symbol already watched needs no rebuild.*)
WatchAdd(p) ==
    /\ pc[p] = "adding"
    /\ IF sym[p] \in Watched THEN Goto(p, "worker") /\ UNCHANGED <<states, made>>
       ELSE /\ made' = made + 1
            /\ states' = [states EXCEPT ![sym[p]] = made + 1]
            /\ Goto(p, "snapshot")
    /\ UNCHANGED <<wsVars, workers, adding, todo, got, overlapped>>

(* Mutant of AddWorker: addMu is not released.                                  *)
MutAddMuKept(p) ==
    /\ pc[p] = "worker" /\ Goto(p, "idle")
    /\ workers' = workers \union {sym[p]}
    /\ UNCHANGED <<wsVars, states, made, adding, todo, got, overlapped>>

(* addWorker under workersMu, and addMu is released.                            *)
AddWorker(p) ==
    /\ pc[p] = "worker" /\ Goto(p, "idle")
    /\ workers' = workers \union {sym[p]}
    /\ adding' = [adding EXCEPT ![p] = FALSE]
    /\ UNCHANGED <<wsVars, states, made, todo, got, overlapped>>

(* removeWorker: a remove takes no addMu. With neither worker nor symbol state  *)
(* it changes nothing.                                                          *)
RemoveWorker(p, s) ==
    /\ s \in workers \union Watched /\ Begin(p, s, "removing")
    /\ workers' = workers \ {s}
    /\ UNCHANGED <<wsVars, states, made, adding, todo, got, overlapped>>

(* Mutant of WatchRemove: the symbol state stays in the map.                    *)
MutWatchRemoveKeeps(p) ==
    /\ pc[p] = "removing" /\ Goto(p, IF sym[p] \in Watched THEN "snapshot" ELSE "idle")
    /\ UNCHANGED <<wsVars, listVars, adding, todo, got, overlapped>>

(* SymbolWatcher.Remove up to rebuildWS.                                        *)
WatchRemove(p) ==
    /\ pc[p] = "removing"
    /\ states' = [states EXCEPT ![sym[p]] = 0]
    /\ Goto(p, IF sym[p] \in Watched THEN "snapshot" ELSE "idle")
    /\ UNCHANGED <<wsVars, workers, made, adding, todo, got, overlapped>>

(* rebuildWS copies the watched symbols, reads each one's state under a lock of *)
(* its own, and hands the result to SetStreams.                                 *)
Snapshot(p) ==
    /\ pc[p] = "snapshot" /\ Goto(p, "rebuild")
    /\ todo' = [todo EXCEPT ![p] = Watched]
    /\ got' = [got EXCEPT ![p] = Nothing]
    /\ overlapped' = \E q \in Requests \ {p} : pc[q] = "rebuild"
    /\ UNCHANGED <<wsVars, listVars, adding>>

ReadState(p, s) ==
    /\ pc[p] = "rebuild" /\ s \in todo[p]
    /\ todo' = [todo EXCEPT ![p] = @ \ {s}]
    /\ got' = [got EXCEPT ![p][s] = states[s]]
    /\ UNCHANGED <<wsVars, listVars, pc, sym, adding, overlapped>>

Rebuilt(p) ==
    /\ pc[p] = "rebuild" /\ todo[p] = {}
    /\ SetStreams(got[p])
    /\ Goto(p, IF adding[p] THEN "worker" ELSE "idle")
    /\ got' = [got EXCEPT ![p] = Nothing]
    /\ UNCHANGED <<listVars, adding, todo, overlapped>>

RequestNext(p) ==
    \/ \E s \in Syms : AddCheck(p, s) \/ RemoveWorker(p, s) \/ ReadState(p, s)
    \/ WatchAdd(p) \/ AddWorker(p) \/ WatchRemove(p) \/ Snapshot(p) \/ Rebuilt(p)

ClientNext == WSRun /\ UNCHANGED <<listVars, reqVars, overlapped>>

Next == (\E p \in Requests : RequestNext(p)) \/ ClientNext

Spec == Init /\ [][Next]_vars

(* Run never stops; of infinitely many handshakes one succeeds; a connection    *)
(* that was closed ends its read loop.                                          *)
FairSpec ==
    /\ Spec
    /\ WF_vars(Copy /\ ClientNext) /\ SF_vars(DialSucceeds /\ ClientNext)
    /\ WF_vars(Install /\ ClientNext) /\ WF_vars(cut /\ Disconnect /\ ClientNext)

--------------------------------------------------------------------------------
Busy(s) == \E p \in Requests : sym[p] = s
Quiet == \A p \in Requests : pc[p] = "idle"

(* Types; an add is an add until its worker exists, and adds exclude each other.*)
TypeOK ==
    /\ WSTypeOK
    /\ workers \subseteq Syms
    /\ states \in Handlers /\ made \in 0..MaxMade
    /\ pc \in [Requests -> {"idle", "adding", "worker", "removing", "snapshot", "rebuild"}]
    /\ sym \in [Requests -> Syms \union {NoSym}]
    /\ adding \in [Requests -> BOOLEAN]
    /\ todo \in [Requests -> SUBSET Syms]
    /\ got \in [Requests -> Handlers]
    /\ overlapped \in BOOLEAN
    /\ \A p \in Requests : /\ pc[p] = "idle" <=> sym[p] = NoSym
                           /\ pc[p] \in {"adding", "worker"} => adding[p]
                           /\ pc[p] \in {"idle", "removing"} => ~adding[p]

(* main.go:170: concurrent adds do not exceed maxSymbols, although an add       *)
(* counts the workers long before it adds one, and removes run in between.      *)
WithinLimit == Cardinality(workers) <= MaxSymbols

(* Signals go to the worker: whatever adds and removes did to a symbol, once    *)
(* they are over a watched symbol has a worker.                                 *)
WatchedHaveWorkers == \A s \in Watched : Busy(s) \/ s \in workers

(* When requests are over and rebuilds did not overlap, each watched symbol is  *)
(* subscribed, and messages reach its present state and no removed one.         *)
RebuildMatches ==
    Quiet /\ ~overlapped => Watched \subseteq streams /\ handlers = states

(* An open connection carries the streams asked for, unless they were replaced  *)
(* while it was being dialled.                                                  *)
StaleOnlyByDialRace == run = "open" /\ ~cut /\ ~raced => dialled = streams

(* The client always comes back: after every disconnect, failed handshake and   *)
(* change of streams there is a connection that nobody has closed again.        *)
Reconnects == streams # {} ~> run = "open" /\ ~cut
================================================================================
