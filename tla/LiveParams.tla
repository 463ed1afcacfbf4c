------------------------------- MODULE LiveParams ------------------------------
(* The parameters an operator changes while the program trades: LiveParams      *)
(* (internal/webui/live_params.go), the HTTP handlers that save, reset and      *)
(* initialize them (internal/webui/server.go), and the calls that carry the     *)
(* position mode, the margin mode and the leverage to the exchange (cmd/main.go,*)
(* internal/datafeed/rest_client.go). The order manager builds every order for  *)
(* the position mode of live, whatever the exchange's is. There is one field    *)
(* here for each rule of apply; the others follow the rule of one of these.     *)
EXTENDS Integers, FiniteSets

CONSTANTS
    Syms,       \* trading pairs
    Active,     \* activeSymbol, the one a saved leverage is set for
    Config,     \* what config.yaml says
    Snaps,      \* the snapshots a request may carry
    Ops,        \* requests that carry a mode to the exchange, at work at a time
    MaxOps      \* bound: such requests made

MarginModes == {"ISOLATED", "CROSS"}
PositionModes == {"ONE_WAY", "HEDGE"}

(* A zero, an empty string and a nil pointer are what JSON leaves in a field    *)
(* that is not sent. An amount is a string: 0 stands for one that is no number, *)
(* or zero, and Blank for the empty one.                                        *)
Blank == -1

Snapshot == [tp : Int, takeProfit : Int, cooldown : Int, lotSize : Int, marginUSDT : Int,
             leverage : Int, guardMs : Int, long : {"nil", "on", "off"}, liqConf : Int,
             depth : Int, precision : Int, marginMode : MarginModes \union {"", "other"},
             positionMode : PositionModes \union {"", "other"}]

Params == [tp : Int, cooldown : Int, lotSize : Int, marginUSDT : Int, leverage : Int,
           guardMs : Int, long : {"on", "off"}, liqConf : Int, depth : Int, precision : Int,
           marginMode : MarginModes, positionMode : PositionModes]

ASSUME SymsAssumption == IsFiniteSet(Syms) /\ Active \in Syms
ASSUME SnapsAssumption == Snaps \subseteq Snapshot /\ MaxOps \in Nat
ASSUME ConfigAssumption ==      \* config.validate
    /\ Config \in [tp : Nat \ {0}, cooldown : Int, lotSize : Nat \ {0}, leverage : 1..10,
                   liqConf : Int, marginMode : MarginModes]

VARIABLES
    live,       \* the parameters in effect
    defaults,   \* LiveParams.defaults
    keys,       \* the program has API keys
    workers,    \* the symbols that are traded
    exPosition, \* the exchange's position mode
    exMargin,   \* its margin mode, for each symbol
    exLeverage, \* its leverage, for each symbol
    begun,      \* requests begun
    pc,         \* where each is, "idle" when it is not at work
    snap,       \* the snapshot it saves; for an add, the parameters it has read
    old,        \* a save: the parameters before
    sym,        \* the symbol it adds, or sets the margin mode of
    todo,       \* a save: the symbols it has yet to set the margin mode of
    trouble     \* history: what has happened that may keep live and exchange apart

paramVars == <<live, defaults>>
exVars == <<exPosition, exMargin, exLeverage>>
opVars == <<begun, pc, snap, old, sym, todo>>
vars == <<paramVars, keys, workers, exVars, opVars, trouble>>

--------------------------------------------------------------------------------
OrFallback(v, fallback, current) ==
    IF v > 0 THEN v ELSE IF fallback > 0 THEN fallback ELSE current

Clamp(v, low, high) == IF v < low THEN low ELSE IF v > high THEN high ELSE v

(* Mutant of DepthOf: a depth that was not sent is stored.                      *)
MutDepthOf(d) == Clamp(d, 0, 20)

DepthOf(d) == IF d < 1 THEN 5 ELSE Clamp(d, 1, 20)

(* Mutant of Switch: a switch can be turned on only.                            *)
MutSwitchOn(sent, current) == IF sent = "on" THEN "on" ELSE current

Switch(sent, current) == IF sent = "nil" THEN current ELSE sent

(* LiveParams.apply.                                                            *)
Apply(lp, s) ==
    [tp |-> OrFallback(s.tp, s.takeProfit, lp.tp),
     cooldown |-> s.cooldown,
     lotSize |-> IF s.lotSize > 0 THEN s.lotSize ELSE 1,
     marginUSDT |-> IF s.marginUSDT > 0 THEN s.marginUSDT ELSE 10,
     leverage |-> s.leverage,
     guardMs |-> Clamp(s.guardMs, 100, 180),
     long |-> Switch(s.long, lp.long),
     liqConf |-> IF s.liqConf > 0 THEN s.liqConf ELSE lp.liqConf,
     depth |-> DepthOf(s.depth),
     precision |-> Clamp(s.precision, 0, 8),
     marginMode |-> IF s.marginMode \in MarginModes THEN s.marginMode ELSE lp.marginMode,
     positionMode |-> IF s.positionMode \in PositionModes THEN s.positionMode
                      ELSE lp.positionMode]

(* LiveParams.snapshotLocked: the fields of before the long/short split are not *)
(* in it.                                                                       *)
SnapshotOf(lp) ==
    [tp |-> lp.tp, takeProfit |-> 0, cooldown |-> lp.cooldown, lotSize |-> lp.lotSize,
     marginUSDT |-> lp.marginUSDT, leverage |-> lp.leverage, guardMs |-> lp.guardMs,
     long |-> lp.long, liqConf |-> lp.liqConf, depth |-> lp.depth,
     precision |-> lp.precision, marginMode |-> lp.marginMode,
     positionMode |-> lp.positionMode]

(* validateSnapshot.                                                            *)
Valid(s) ==
    /\ s.tp > 0 /\ s.cooldown >= 0
    /\ ~(s.lotSize = Blank /\ s.marginUSDT = Blank)
    /\ s.leverage \in 1..10
    /\ s.guardMs \in 100..180
    /\ s.liqConf \in 0..10          \* in tenths
    /\ s.depth # 0 => s.depth \in 1..20
    /\ s.precision \in 0..8
    /\ s.marginMode \in MarginModes \union {""}
    /\ s.positionMode \in PositionModes \union {""}

(* NewLiveParams.                                                               *)
Initialized ==
    [tp |-> Config.tp, takeProfit |-> 0, cooldown |-> Config.cooldown,
     lotSize |-> Config.lotSize, marginUSDT |-> 10, leverage |-> Config.leverage,
     guardMs |-> 150, long |-> "on", liqConf |-> Config.liqConf, depth |-> 5,
     precision |-> 6, marginMode |-> Config.marginMode, positionMode |-> "ONE_WAY"]

NoParams ==
    [tp |-> 0, cooldown |-> 0, lotSize |-> 0, marginUSDT |-> 0, leverage |-> 0, guardMs |-> 0,
     long |-> "off", liqConf |-> 0, depth |-> 0, precision |-> 0, marginMode |-> "",
     positionMode |-> ""]

AtStart == Apply(NoParams, Initialized)

(* Nothing is traded yet, and the exchange has whatever it was left with.       *)
Init ==
    /\ defaults = Initialized /\ live = AtStart
    /\ keys \in BOOLEAN /\ workers = {}
    /\ exPosition \in PositionModes
    /\ exMargin \in [Syms -> MarginModes]
    /\ exLeverage = [s \in Syms |-> 0]
    /\ begun = 0
    /\ pc = [o \in Ops |-> "idle"]
    /\ snap = [o \in Ops |-> Initialized] /\ old = [o \in Ops |-> AtStart]
    /\ sym = [o \in Ops |-> Active] /\ todo = [o \in Ops |-> {}]
    /\ trouble = {}

--------------------------------------------------------------------------------
InFlight(o) == pc[o] # "idle"

(* A request that is over leaves nothing behind.                                *)
Goto(o, label) ==
    /\ pc' = [pc EXCEPT ![o] = label]
    /\ IF label # "idle" THEN UNCHANGED <<snap, old, sym>>
       ELSE /\ snap' = [snap EXCEPT ![o] = Initialized]
            /\ old' = [old EXCEPT ![o] = AtStart]
            /\ sym' = [sym EXCEPT ![o] = Active]

(* A request that carries a mode to the exchange begins.                        *)
Begin(o, s, label) ==
    /\ pc[o] = "idle" /\ begun < MaxOps
    /\ begun' = begun + 1 /\ pc' = [pc EXCEPT ![o] = label]
    /\ snap' = [snap EXCEPT ![o] = s] /\ old' = [old EXCEPT ![o] = live]
    /\ trouble' = IF \E p \in Ops : InFlight(p) THEN trouble \union {"overlap"} ELSE trouble
    /\ UNCHANGED <<paramVars, keys, workers, exVars, todo>>

(* The exchange obeys, refuses (it does while there is a position, and without  *)
(* API keys), or obeys and its answer is lost.                                  *)
Answers == {"ok", "refused", "lost"}

Answered(a) ==
    /\ keys \/ a = "refused"
    /\ trouble' = IF a = "ok" THEN trouble ELSE trouble \union {"refused"}

Set(f, s, v, a) == IF a = "refused" THEN f ELSE [f EXCEPT ![s] = v]

(* handleParams up to the end of validateSnapshot: 400 for one that is not valid*)
Save(o, s) == Valid(s) /\ Begin(o, s, "update") /\ UNCHANGED sym

Update(o) ==
    /\ pc[o] = "update"
    /\ live' = Apply(live, snap[o])
    /\ Goto(o, IF keys THEN "leverage" ELSE "idle")
    /\ trouble' = IF keys THEN trouble ELSE trouble \union {"no keys"}
    /\ UNCHANGED <<defaults, keys, workers, exVars, begun, todo>>

(* The modes to push: those that are sent and are not what they were before.    *)
NewPosition(o) == IF snap[o].positionMode # old[o].positionMode THEN snap[o].positionMode ELSE ""
NewMargin(o) == IF snap[o].marginMode # old[o].marginMode THEN snap[o].marginMode ELSE ""

AfterPosition(o) == IF NewMargin(o) # "" THEN "workers" ELSE "idle"

(* SetLeverage for the active symbol; if it fails the request ends with a 400,  *)
(* the parameters saved and no mode pushed.                                     *)
LeverageCall(o, a) ==
    /\ pc[o] = "leverage" /\ Answered(a)
    /\ exLeverage' = Set(exLeverage, Active, snap[o].leverage, a)
    /\ Goto(o, IF a # "ok" THEN "idle"
               ELSE IF NewPosition(o) # "" THEN "position" ELSE AfterPosition(o))
    /\ UNCHANGED <<paramVars, keys, workers, exPosition, exMargin, begun, todo>>

(* The mode handler, a goroutine of its own: the position mode first, then,     *)
(* whatever came of that, the margin mode of the symbols that have a worker.    *)
PositionCall(o, a) ==
    /\ pc[o] = "position" /\ Answered(a)
    /\ exPosition' = IF a = "refused" THEN exPosition ELSE NewPosition(o)
    /\ Goto(o, AfterPosition(o))
    /\ UNCHANGED <<paramVars, keys, workers, exMargin, exLeverage, begun, todo>>

(* Mutant of ReadWorkers: the margin mode is pushed for the active symbol only, *)
(* as the leverage is.                                                          *)
MutReadActive(o) ==
    /\ pc[o] = "workers"
    /\ todo' = [todo EXCEPT ![o] = workers \intersect {Active}]
    /\ Goto(o, "margin")
    /\ UNCHANGED <<paramVars, keys, workers, exVars, begun, trouble>>

(* The handler takes the symbols under workersMu, and calls without it.         *)
ReadWorkers(o) ==
    /\ pc[o] = "workers"
    /\ todo' = [todo EXCEPT ![o] = workers]
    /\ Goto(o, "margin")
    /\ UNCHANGED <<paramVars, keys, workers, exVars, begun, trouble>>

MarginCall(o, s, a) ==
    /\ pc[o] = "margin" /\ s \in todo[o] /\ Answered(a)
    /\ exMargin' = Set(exMargin, s, NewMargin(o), a)
    /\ todo' = [todo EXCEPT ![o] = @ \ {s}]
    /\ UNCHANGED <<paramVars, keys, workers, exPosition, exLeverage, begun, pc, snap, old, sym>>

MarginDone(o) ==
    /\ pc[o] = "margin" /\ todo[o] = {} /\ Goto(o, "idle")
    /\ UNCHANGED <<paramVars, keys, workers, exVars, begun, todo, trouble>>

--------------------------------------------------------------------------------
Adding(o) == pc[o] \in {"addPosition", "addLeverage", "addMargin", "addWorker"}

(* The add of a symbol holds addMu, and reads the parameters once. What it sets *)
(* may be refused: it goes on.                                                  *)
Add(o, s) ==
    /\ s \notin workers /\ \A p \in Ops : ~Adding(p)
    /\ Begin(o, SnapshotOf(live), "addPosition")
    /\ sym' = [sym EXCEPT ![o] = s]

AddPosition(o, a) ==
    /\ pc[o] = "addPosition" /\ Answered(a) /\ Goto(o, "addLeverage")
    /\ exPosition' = IF a = "refused" THEN exPosition ELSE snap[o].positionMode
    /\ UNCHANGED <<paramVars, keys, workers, exMargin, exLeverage, begun, todo>>

AddLeverage(o, a) ==
    /\ pc[o] = "addLeverage" /\ Answered(a) /\ Goto(o, "addMargin")
    /\ exLeverage' = Set(exLeverage, sym[o], snap[o].leverage, a)
    /\ UNCHANGED <<paramVars, keys, workers, exPosition, exMargin, begun, todo>>

AddMargin(o, a) ==
    /\ pc[o] = "addMargin" /\ Answered(a) /\ Goto(o, "addWorker")
    /\ exMargin' = Set(exMargin, sym[o], snap[o].marginMode, a)
    /\ UNCHANGED <<paramVars, keys, workers, exPosition, exLeverage, begun, todo>>

(* watcher.Add, which may fail, and addWorker.                                  *)
AddWorker(o) ==
    /\ pc[o] = "addWorker" /\ Goto(o, "idle")
    /\ workers' \in {workers, workers \union {sym[o]}}
    /\ UNCHANGED <<paramVars, keys, exVars, begun, todo, trouble>>

Remove(s) ==
    /\ s \in workers /\ workers' = workers \ {s}
    /\ UNCHANGED <<paramVars, keys, exVars, opVars, trouble>>

--------------------------------------------------------------------------------
(* handleReset: nothing is pushed.                                              *)
Reset ==
    /\ live' = Apply(live, defaults)
    /\ trouble' = IF /\ live'.positionMode = live.positionMode
                     /\ live'.marginMode = live.marginMode /\ live'.leverage = live.leverage
                  THEN trouble ELSE trouble \union {"reset"}
    /\ UNCHANGED <<defaults, keys, workers, exVars, opVars>>

(* handleInitialize.                                                            *)
Initialize ==
    /\ defaults' = SnapshotOf(live)
    /\ UNCHANGED <<live, keys, workers, exVars, opVars, trouble>>

(* The keys are entered, in another part of the page.                           *)
EnterKeys ==
    /\ ~keys /\ keys' = TRUE
    /\ UNCHANGED <<paramVars, workers, exVars, opVars, trouble>>

Next ==
    \/ Reset \/ Initialize \/ EnterKeys
    \/ \E s \in Syms : Remove(s)
    \/ \E o \in Ops :
        \/ \E s \in Snaps : Save(o, s)
        \/ \E s \in Syms : Add(o, s)
        \/ Update(o) \/ ReadWorkers(o) \/ MarginDone(o) \/ AddWorker(o)
        \/ \E a \in Answers :
            \/ LeverageCall(o, a) \/ PositionCall(o, a)
            \/ AddPosition(o, a) \/ AddLeverage(o, a) \/ AddMargin(o, a)
            \/ \E s \in Syms : MarginCall(o, s, a)

Spec == Init /\ [][Next]_vars

--------------------------------------------------------------------------------
ParamTypes ==
    /\ live \in Params /\ defaults \in Snapshot
    /\ live.tp > 0 /\ live.lotSize > 0 /\ live.marginUSDT > 0
    /\ live.leverage \in 1..10
    /\ live.guardMs \in 100..180 /\ live.depth \in 1..20 /\ live.precision \in 0..8

ExTypes ==
    /\ keys \in BOOLEAN /\ workers \subseteq Syms
    /\ exPosition \in PositionModes
    /\ exMargin \in [Syms -> MarginModes] /\ exLeverage \in [Syms -> Int]

OpTypes ==
    /\ begun \in 0..MaxOps
    /\ pc \in [Ops -> {"idle", "update", "leverage", "position", "workers", "margin", "addPosition",
                       "addLeverage", "addMargin", "addWorker"}]
    /\ snap \in [Ops -> Snapshot] /\ old \in [Ops -> Params]
    /\ sym \in [Ops -> Syms] /\ todo \in [Ops -> SUBSET Syms]
    /\ trouble \subseteq {"overlap", "refused", "no keys", "reset"}

(* Types; and whatever is saved, reset or initialized, the parameters in effect *)
(* stay in the ranges the trading code divides by and indexes with.             *)
TypeOK == ParamTypes /\ ExTypes /\ OpTypes

(* While symbols are traded and no request is at work, the exchange has the     *)
(* position mode the orders are built for, the margin mode of every traded      *)
(* symbol and the leverage of the active one, unless a call failed, requests    *)
(* overlapped, a save had no keys to push with, or a reset changed one of them. *)
ModesAgree ==
    workers # {} /\ trouble = {} /\ (\A o \in Ops : ~InFlight(o)) =>
        /\ exPosition = live.positionMode
        /\ \A s \in workers : exMargin[s] = live.marginMode
        /\ Active \in workers => exLeverage[Active] = live.leverage

Given(s, v, empty) == s # empty => s = v

(* What s asks for is what is in effect afterwards.                             *)
InEffect(s) ==
    /\ live'.tp = s.tp /\ live'.cooldown = s.cooldown /\ live'.leverage = s.leverage
    /\ s.lotSize > 0 => live'.lotSize = s.lotSize
    /\ s.marginUSDT > 0 => live'.marginUSDT = s.marginUSDT
    /\ live'.guardMs = s.guardMs /\ live'.precision = s.precision
    /\ s.liqConf > 0 => live'.liqConf = s.liqConf
    /\ Given(s.long, live'.long, "nil")
    /\ Given(s.depth, live'.depth, 0)
    /\ Given(s.marginMode, live'.marginMode, "")
    /\ Given(s.positionMode, live'.positionMode, "")

(* A save that was not refused, and a reset, put each value they carry in       *)
(* effect as it is: no later correction changes it. What they do not carry is   *)
(* no value: so a reset leaves a liquidation confidence whose default is zero.  *)
SavedIsInEffect ==
    [][/\ \A o \in Ops : Update(o) => InEffect(snap[o])
       /\ Reset => InEffect(defaults)]_vars
================================================================================
