---------------------------- MODULE LiveParamsProofs ---------------------------
(* Theorems about LiveParams for any symbols, requests and snapshots.           *)
EXTENDS LiveParams, TLAPS

(* The parameters in effect, and the defaults: each in its range.               *)
InRange(p) ==
    /\ p.tp > 0 /\ p.lotSize > 0 /\ p.marginUSDT > 0
    /\ p.leverage \in 1..10
    /\ p.guardMs \in 100..180 /\ p.depth \in 1..20 /\ p.precision \in 0..8

Saving == {"update", "leverage", "position", "workers", "margin"}
AddLabels == {"addPosition", "addLeverage", "addMargin", "addWorker"}

(* What a request that is at l carries: s, with p from before. A save has       *)
(* passed validateSnapshot, and pushes a mode that is one and is new; an add    *)
(* carries two modes.                                                           *)
Carries(l, s, p) ==
    /\ l \in Saving => Valid(s)
    /\ l = "position" => s.positionMode # "" /\ s.positionMode # p.positionMode
    /\ l \in {"workers", "margin"} => s.marginMode # "" /\ s.marginMode # p.marginMode
    /\ l \in AddLabels => s.positionMode \in PositionModes /\ s.marginMode \in MarginModes

SnapInv ==
    /\ InRange(defaults)
    /\ \A o \in Ops : Carries(pc[o], snap[o], old[o])

TypeInv == TypeOK /\ SnapInv

--------------------------------------------------------------------------------
(* The fields of a snapshot, and of the parameters.                             *)
LEMMA SnapshotFields ==
    ASSUME NEW s \in Snapshot
    PROVE  /\ s.tp \in Int /\ s.takeProfit \in Int /\ s.cooldown \in Int /\ s.lotSize \in Int
           /\ s.marginUSDT \in Int /\ s.leverage \in Int /\ s.guardMs \in Int
           /\ s.long \in {"nil", "on", "off"} /\ s.liqConf \in Int /\ s.depth \in Int
           /\ s.precision \in Int /\ s.marginMode \in MarginModes \union {"", "other"}
           /\ s.positionMode \in PositionModes \union {"", "other"}
    BY DEF Snapshot

(* Likewise the fields of the parameters.                                       *)
LEMMA ParamFields ==
    ASSUME NEW p \in Params
    PROVE  /\ p.tp \in Int /\ p.cooldown \in Int /\ p.lotSize \in Int
           /\ p.marginUSDT \in Int /\ p.leverage \in Int /\ p.guardMs \in Int
           /\ p.long \in {"on", "off"} /\ p.liqConf \in Int /\ p.depth \in Int
           /\ p.precision \in Int /\ p.marginMode \in MarginModes
           /\ p.positionMode \in PositionModes
    BY DEF Params

(* The rules of apply, one by one.                                              *)
LEMMA ClampRange ==
    ASSUME NEW v \in Int, NEW low \in Int, NEW high \in Int, low <= high
    PROVE  Clamp(v, low, high) \in low..high /\ (v \in low..high => Clamp(v, low, high) = v)
    BY DEF Clamp

(* What is in its range stays as it is.                                         *)
LEMMA ClampStays ==
    /\ \A v \in 100..180 : Clamp(v, 100, 180) = v
    /\ \A v \in 0..8 : Clamp(v, 0, 8) = v
    BY DEF Clamp

(* The depth, where zero stands for the default.                                *)
LEMMA DepthRange ==
    ASSUME NEW d \in Int
    PROVE  DepthOf(d) \in 1..20 /\ (d \in 1..20 => DepthOf(d) = d)
    BY DEF DepthOf, Clamp

(* The fields of a are those that apply makes of p and s.                       *)
Follows(a, p, s) ==
    /\ a.tp = OrFallback(s.tp, s.takeProfit, p.tp)
    /\ a.cooldown = s.cooldown
    /\ a.lotSize = IF s.lotSize > 0 THEN s.lotSize ELSE 1
    /\ a.marginUSDT = IF s.marginUSDT > 0 THEN s.marginUSDT ELSE 10
    /\ a.leverage = s.leverage
    /\ a.guardMs = Clamp(s.guardMs, 100, 180)
    /\ a.long = Switch(s.long, p.long)
    /\ a.liqConf = IF s.liqConf > 0 THEN s.liqConf ELSE p.liqConf
    /\ a.depth = DepthOf(s.depth)
    /\ a.precision = Clamp(s.precision, 0, 8)
    /\ a.marginMode = IF s.marginMode \in MarginModes THEN s.marginMode ELSE p.marginMode
    /\ a.positionMode = IF s.positionMode \in PositionModes THEN s.positionMode
                        ELSE p.positionMode

(* What apply does, field by field.                                             *)
LEMMA ApplyFields ==
    ASSUME NEW p, NEW s
    PROVE  Follows(Apply(p, s), p, s)
    BY DEF Apply, Follows

(* A record with the right fields is a set of parameters.                       *)
LEMMA ApplyIsParams ==
    ASSUME NEW p, NEW s,
           Apply(p, s).tp \in Int, Apply(p, s).cooldown \in Int, Apply(p, s).lotSize \in Int,
           Apply(p, s).marginUSDT \in Int, Apply(p, s).leverage \in Int,
           Apply(p, s).guardMs \in Int, Apply(p, s).long \in {"on", "off"},
           Apply(p, s).liqConf \in Int, Apply(p, s).depth \in Int,
           Apply(p, s).precision \in Int, Apply(p, s).marginMode \in MarginModes,
           Apply(p, s).positionMode \in PositionModes
    PROVE  Apply(p, s) \in Params
    BY DEF Apply, Params

(* Likewise a snapshot.                                                         *)
LEMMA IsSnapshot ==
    ASSUME NEW tp \in Int, NEW tk \in Int, NEW cd \in Int, NEW lot \in Int, NEW mg \in Int,
           NEW lev \in Int, NEW gd \in Int, NEW lg \in {"nil", "on", "off"}, NEW lq \in Int,
           NEW dp \in Int, NEW pr \in Int, NEW mm \in MarginModes, NEW pm \in PositionModes
    PROVE  [tp |-> tp, takeProfit |-> tk, cooldown |-> cd, lotSize |-> lot, marginUSDT |-> mg,
            leverage |-> lev, guardMs |-> gd, long |-> lg, liqConf |-> lq, depth |-> dp,
            precision |-> pr, marginMode |-> mm, positionMode |-> pm] \in Snapshot
    BY DEF Snapshot

(* What apply makes of a snapshot with a leverage that is allowed.              *)
LEMMA ApplyInRange ==
    ASSUME NEW p \in Params, InRange(p), NEW s \in Snapshot, s.leverage \in 1..10
    PROVE  Apply(p, s) \in Params /\ InRange(Apply(p, s))
    <1> DEFINE a == Apply(p, s)
    <1>0. Follows(a, p, s)
        BY ApplyFields
    <1> HIDE DEF a
    <1>1. /\ a.tp \in Int /\ a.tp > 0 /\ a.cooldown \in Int
          /\ a.lotSize \in Int /\ a.lotSize > 0 /\ a.marginUSDT \in Int /\ a.marginUSDT > 0
          /\ a.leverage \in 1..10 /\ a.liqConf \in Int
        <2>1. /\ s.tp \in Int /\ s.takeProfit \in Int /\ s.cooldown \in Int /\ s.lotSize \in Int
              /\ s.marginUSDT \in Int /\ s.liqConf \in Int
              /\ p.tp \in Int /\ p.tp > 0 /\ p.liqConf \in Int
            BY SnapshotFields, ParamFields DEF InRange
        <2>2. OrFallback(s.tp, s.takeProfit, p.tp) \in Int /\ OrFallback(s.tp, s.takeProfit, p.tp) > 0
            BY <2>1 DEF OrFallback
        <2> QED BY <1>0, <2>1, <2>2 DEF Follows
    <1>2. a.guardMs \in 100..180 /\ a.depth \in 1..20 /\ a.precision \in 0..8
        <2>1. s.guardMs \in Int /\ s.depth \in Int /\ s.precision \in Int
            BY SnapshotFields
        <2>2. /\ Clamp(s.guardMs, 100, 180) \in 100..180 /\ DepthOf(s.depth) \in 1..20
              /\ Clamp(s.precision, 0, 8) \in 0..8
            BY <2>1 DEF Clamp, DepthOf
        <2> QED BY <1>0, <2>2 DEF Follows
    <1>3. /\ a.long \in {"on", "off"} /\ a.marginMode \in MarginModes
          /\ a.positionMode \in PositionModes
        BY <1>0, SnapshotFields, ParamFields DEF Follows, Switch
    <1>4. a.leverage \in Int /\ a.guardMs \in Int /\ a.depth \in Int /\ a.precision \in Int
        BY <1>1, <1>2
    <1>5. a \in Params
        BY <1>1, <1>3, <1>4, ApplyIsParams DEF a
    <1>6. InRange(a)
        BY <1>1, <1>2 DEF InRange
    <1> QED BY <1>5, <1>6 DEF a

(* The parameters the program starts with.                                      *)
LEMMA StartInRange ==
    /\ Initialized \in Snapshot /\ InRange(Initialized)
    /\ AtStart \in Params /\ InRange(AtStart)
    <1>1. /\ Config.tp \in Nat \ {0} /\ Config.cooldown \in Int /\ Config.lotSize \in Nat \ {0}
          /\ Config.leverage \in 1..10 /\ Config.liqConf \in Int
          /\ Config.marginMode \in MarginModes
        BY ConfigAssumption
    <1>2. /\ Initialized.tp = Config.tp /\ Initialized.lotSize = Config.lotSize
          /\ Initialized.marginUSDT = 10 /\ Initialized.leverage = Config.leverage
          /\ Initialized.guardMs = 150 /\ Initialized.depth = 5 /\ Initialized.precision = 6
          /\ Initialized.takeProfit = 0 /\ Initialized.cooldown = Config.cooldown
          /\ Initialized.long = "on" /\ Initialized.liqConf = Config.liqConf
          /\ Initialized.marginMode = Config.marginMode /\ Initialized.positionMode = "ONE_WAY"
        BY DEF Initialized
    <1>3. InRange(Initialized)
        BY <1>1, <1>2 DEF InRange
    <1>4. Initialized \in Snapshot
        <2>1. Initialized.tp \in Int /\ Initialized.lotSize \in Int /\ Initialized.leverage \in Int
            BY <1>1, <1>2
        <2>2. "ONE_WAY" \in PositionModes
            BY DEF PositionModes
        <2>3. 0 \in Int /\ 10 \in Int /\ 150 \in Int /\ 5 \in Int /\ 6 \in Int
            OBVIOUS
        <2>4. Config.tp \in Int /\ Config.lotSize \in Int /\ Config.leverage \in Int
            BY <1>1
        <2>5. "on" \in {"nil", "on", "off"}
            OBVIOUS
        <2> QED BY ONLY <1>1, <2>2, <2>3, <2>4, <2>5, IsSnapshot DEF Initialized
    <1>5. NoParams.liqConf = 0 /\ NoParams.long = "off" /\ NoParams.tp = 0
        BY DEF NoParams
    <1> DEFINE a == Apply(NoParams, Initialized)
    <1>0. Follows(a, NoParams, Initialized)
        BY ApplyFields
    <1> HIDE DEF a
    <1>6. /\ a.tp \in Int /\ a.tp > 0 /\ a.cooldown \in Int
          /\ a.lotSize \in Int /\ a.lotSize > 0 /\ a.marginUSDT \in Int /\ a.marginUSDT > 0
          /\ a.leverage \in 1..10 /\ a.liqConf \in Int
        BY <1>0, <1>1, <1>2, <1>5 DEF Follows, OrFallback
    <1>7. a.guardMs \in 100..180 /\ a.depth \in 1..20 /\ a.precision \in 0..8
        <2>1. a.guardMs = Clamp(150, 100, 180) /\ a.depth = DepthOf(5) /\ a.precision = Clamp(6, 0, 8)
            BY <1>0, <1>2 DEF Follows
        <2> QED BY <2>1 DEF Clamp, DepthOf
    <1>8. /\ a.long \in {"on", "off"} /\ a.marginMode \in MarginModes
          /\ a.positionMode \in PositionModes
        BY <1>0, <1>1, <1>2 DEF Follows, Switch, PositionModes
    <1>9. a.leverage \in Int /\ a.guardMs \in Int /\ a.depth \in Int /\ a.precision \in Int
        BY <1>6, <1>7
    <1>10. a \in Params
        BY <1>6, <1>8, <1>9, ApplyIsParams DEF a
    <1>11. InRange(a)
        BY <1>6, <1>7 DEF InRange
    <1> QED BY <1>3, <1>4, <1>10, <1>11 DEF a, AtStart

(* A snapshot of parameters in range is in range.                               *)
LEMMA SnapshotInRange ==
    ASSUME NEW p \in Params, InRange(p)
    PROVE  SnapshotOf(p) \in Snapshot /\ InRange(SnapshotOf(p))
    <1>1. SnapshotOf(p) \in Snapshot
        <2>1. p.long \in {"nil", "on", "off"} /\ 0 \in Int
            BY ParamFields
        <2> QED BY <2>1, ParamFields, IsSnapshot DEF SnapshotOf
    <1>2. /\ SnapshotOf(p).tp = p.tp /\ SnapshotOf(p).lotSize = p.lotSize
          /\ SnapshotOf(p).marginUSDT = p.marginUSDT /\ SnapshotOf(p).leverage = p.leverage
          /\ SnapshotOf(p).guardMs = p.guardMs /\ SnapshotOf(p).depth = p.depth
          /\ SnapshotOf(p).precision = p.precision
        BY DEF SnapshotOf
    <1> QED BY <1>1, <1>2 DEF InRange

--------------------------------------------------------------------------------
Labels == {"idle", "update", "leverage", "position", "workers", "margin", "addPosition",
           "addLeverage", "addMargin", "addWorker"}

PcTypes ==
    /\ pc \in [Ops -> Labels]
    /\ snap \in [Ops -> Snapshot] /\ old \in [Ops -> Params] /\ sym \in [Ops -> Syms]

Carrying == \A o \in Ops : Carries(pc[o], snap[o], old[o])

(* A request that goes on, or ends, keeps to the types.                         *)
LEMMA GotoKeeps ==
    ASSUME TypeInv, NEW o \in Ops, NEW l \in Labels, Carries(l, snap[o], old[o]), Goto(o, l)
    PROVE  PcTypes' /\ Carrying'
    <1>1. PcTypes /\ Carrying
        BY DEF TypeInv, TypeOK, OpTypes, SnapInv, PcTypes, Labels, Carrying
    <1>2. pc' \in [Ops -> Labels]
        BY <1>1 DEF Goto, PcTypes
    <1>3. Initialized \in Snapshot /\ AtStart \in Params /\ Active \in Syms
        BY StartInRange, SymsAssumption
    <1>4. snap' \in [Ops -> Snapshot] /\ old' \in [Ops -> Params] /\ sym' \in [Ops -> Syms]
        BY <1>1, <1>3 DEF Goto, PcTypes
    <1>5. ASSUME NEW p \in Ops PROVE Carries(pc[p], snap[p], old[p])'
        <2>1. CASE p # o
            <3>1. pc'[p] = pc[p] /\ snap'[p] = snap[p] /\ old'[p] = old[p]
                BY <1>1, <2>1 DEF Goto, PcTypes
            <3> QED BY <1>1, <3>1 DEF Carrying, Carries, Valid
        <2>2. CASE p = o /\ l = "idle"
            <3>1. pc'[p] = "idle"
                BY <1>1, <2>2 DEF Goto, PcTypes
            <3> QED BY <3>1 DEF Carries, Saving, AddLabels
        <2>3. CASE p = o /\ l # "idle"
            <3>1. pc'[p] = l /\ snap'[p] = snap[o] /\ old'[p] = old[o]
                BY <1>1, <2>3 DEF Goto, PcTypes
            <3> QED BY <3>1 DEF Carries, Valid
        <2> QED BY <2>1, <2>2, <2>3
    <1> QED BY <1>1, <1>2, <1>4, <1>5 DEF PcTypes, Carrying

(* So does one that begins.                                                     *)
LEMMA BeginKeeps ==
    ASSUME TypeInv, NEW o \in Ops, NEW s \in Snapshot, NEW l \in Labels,
           Carries(l, s, live), Begin(o, s, l), sym' \in [Ops -> Syms]
    PROVE  /\ PcTypes' /\ Carrying' /\ begun' \in 0..MaxOps /\ todo' \in [Ops -> SUBSET Syms]
           /\ trouble' \subseteq {"overlap", "refused", "no keys", "reset"}
           /\ ParamTypes' /\ ExTypes' /\ InRange(defaults)'
    <1>1. PcTypes /\ Carrying
        BY DEF TypeInv, TypeOK, OpTypes, SnapInv, PcTypes, Labels, Carrying
    <1>2. begun \in 0..MaxOps /\ MaxOps \in Nat
        BY SnapsAssumption DEF TypeInv, TypeOK, OpTypes
    <1>3. begun' \in 0..MaxOps
        BY <1>2 DEF Begin
    <1>4. live \in Params /\ ParamTypes /\ ExTypes /\ InRange(defaults)
        BY DEF TypeInv, TypeOK, ParamTypes, SnapInv
    <1>5. PcTypes'
        BY <1>1, <1>4 DEF Begin, PcTypes
    <1>6. ASSUME NEW p \in Ops PROVE Carries(pc[p], snap[p], old[p])'
        <2>1. CASE p = o
            <3>1. pc'[p] = l /\ snap'[p] = s /\ old'[p] = live
                BY <1>1, <2>1 DEF Begin, PcTypes
            <3> QED BY <3>1 DEF Carries, Valid
        <2>2. CASE p # o
            <3>1. pc'[p] = pc[p] /\ snap'[p] = snap[p] /\ old'[p] = old[p]
                BY <1>1, <2>2 DEF Begin, PcTypes
            <3> QED BY <1>1, <3>1 DEF Carrying, Carries, Valid
        <2> QED BY <2>1, <2>2
    <1>7. /\ todo' \in [Ops -> SUBSET Syms]
          /\ trouble' \subseteq {"overlap", "refused", "no keys", "reset"}
        BY DEF TypeInv, TypeOK, OpTypes, Begin
    <1>8. ParamTypes' /\ ExTypes' /\ InRange(defaults)'
        BY <1>4 DEF Begin, paramVars, exVars, ParamTypes, ExTypes, InRange
    <1> QED BY <1>3, <1>5, <1>6, <1>7, <1>8 DEF Carrying

(* What a call to the exchange does to a function of the symbols, and to what   *)
(* is on record.                                                                *)
LEMMA SetTypes ==
    ASSUME NEW T, NEW f \in [Syms -> T], NEW s \in Syms, NEW v \in T, NEW a \in Answers
    PROVE  Set(f, s, v, a) \in [Syms -> T]
    BY DEF Set

(* An answer records no trouble but those there are.                            *)
LEMMA AnsweredTypes ==
    ASSUME TypeInv, NEW a \in Answers, Answered(a)
    PROVE  trouble' \subseteq {"overlap", "refused", "no keys", "reset"}
    BY DEF TypeInv, TypeOK, OpTypes, Answered

(* The groups of the invariant, put together again.                             *)
LEMMA Together ==
    ASSUME ParamTypes', ExTypes', InRange(defaults)', PcTypes', Carrying',
           begun' \in 0..MaxOps, todo' \in [Ops -> SUBSET Syms],
           trouble' \subseteq {"overlap", "refused", "no keys", "reset"}
    PROVE  TypeInv'
    BY DEF TypeInv, TypeOK, OpTypes, SnapInv, PcTypes, Labels, Carrying

(* And taken apart.                                                             *)
LEMMA Apart ==
    ASSUME TypeInv
    PROVE  /\ ParamTypes /\ ExTypes /\ InRange(defaults) /\ PcTypes /\ Carrying
           /\ begun \in 0..MaxOps /\ todo \in [Ops -> SUBSET Syms]
           /\ trouble \subseteq {"overlap", "refused", "no keys", "reset"}
           /\ live \in Params /\ InRange(live) /\ defaults \in Snapshot
    BY DEF TypeInv, TypeOK, OpTypes, SnapInv, PcTypes, Labels, Carrying, ParamTypes, InRange

(* The modes a request carries are modes.                                       *)
LEMMA CarriedModes ==
    ASSUME TypeInv, NEW o \in Ops
    PROVE  /\ pc[o] = "position" => NewPosition(o) \in PositionModes
           /\ pc[o] = "margin" => NewMargin(o) \in MarginModes
           /\ Adding(o) => /\ snap[o].positionMode \in PositionModes
                           /\ snap[o].marginMode \in MarginModes
           /\ snap[o].leverage \in Int
    <1>1. Carries(pc[o], snap[o], old[o]) /\ snap[o] \in Snapshot
        BY Apart DEF Carrying, PcTypes
    <1>2. snap[o].leverage \in Int
        BY <1>1, SnapshotFields
    <1>3. pc[o] \in {"position", "margin"} => Valid(snap[o])
        BY <1>1 DEF Carries, Saving
    <1>4. pc[o] = "position" => NewPosition(o) \in PositionModes
        BY <1>1, <1>3 DEF Carries, Valid, NewPosition
    <1>5. pc[o] = "margin" => NewMargin(o) \in MarginModes
        BY <1>1, <1>3 DEF Carries, Valid, NewMargin
    <1>6. Adding(o) => snap[o].positionMode \in PositionModes /\ snap[o].marginMode \in MarginModes
        BY <1>1 DEF Carries, Adding, AddLabels
    <1> QED BY <1>2, <1>4, <1>5, <1>6

(* Parameters that stay are still in their types.                               *)
LEMMA ParamsStay ==
    ASSUME TypeInv, UNCHANGED paramVars
    PROVE  ParamTypes' /\ InRange(defaults)'
    BY Apart DEF paramVars, ParamTypes, InRange

(* The requests that go on after a call: none changes the parameters.           *)
LEMMA StepTypes ==
    ASSUME TypeInv, NEW o \in Ops, NEW l \in Labels, Carries(l, snap[o], old[o]), Goto(o, l),
           UNCHANGED paramVars, ExTypes', begun' = begun, todo' \in [Ops -> SUBSET Syms],
           trouble' \subseteq {"overlap", "refused", "no keys", "reset"}
    PROVE  TypeInv'
    <1>1. PcTypes' /\ Carrying'
        BY GotoKeeps
    <1>2. ParamTypes' /\ InRange(defaults)'
        BY ParamsStay
    <1>3. begun' \in 0..MaxOps
        BY Apart
    <1> QED BY <1>1, <1>2, <1>3, Together

(* A step that leaves the requests alone.                                       *)
LEMMA RestTypes ==
    ASSUME TypeInv, UNCHANGED opVars, ParamTypes', InRange(defaults)', ExTypes',
           trouble' \subseteq {"overlap", "refused", "no keys", "reset"}
    PROVE  TypeInv'
    <1>1. PcTypes' /\ begun' \in 0..MaxOps /\ todo' \in [Ops -> SUBSET Syms]
        BY Apart DEF opVars, PcTypes
    <1>2. Carrying'
        BY Apart DEF opVars, Carrying, Carries, Valid
    <1> QED BY <1>1, <1>2, Together

(* Every step keeps the types.                                                  *)
LEMMA TypesKept ==
    ASSUME TypeInv, [Next]_vars
    PROVE  TypeInv'
    <1>1. CASE UNCHANGED vars
        <2>1. UNCHANGED opVars /\ UNCHANGED paramVars /\ UNCHANGED trouble
              /\ UNCHANGED <<keys, workers, exVars>>
            BY <1>1 DEF vars
        <2>2. ExTypes'
            BY <2>1, Apart DEF ExTypes, exVars
        <2> QED BY <2>1, <2>2, Apart, ParamsStay, RestTypes
    <1>2. CASE Reset
        <2>1. live' \in Params /\ InRange(live')
            BY <1>2, Apart, ApplyInRange DEF Reset, InRange
        <2>2. ParamTypes' /\ InRange(defaults)'
            BY <1>2, <2>1, Apart DEF Reset, ParamTypes, InRange
        <2>3. ExTypes' /\ UNCHANGED opVars
            BY <1>2, Apart DEF Reset, ExTypes, exVars
        <2>4. trouble' \subseteq {"overlap", "refused", "no keys", "reset"}
            BY <1>2, Apart DEF Reset
        <2> QED BY <2>2, <2>3, <2>4, RestTypes
    <1>3. CASE Initialize
        <2>1. defaults' \in Snapshot /\ InRange(defaults')
            BY <1>3, Apart, SnapshotInRange DEF Initialize
        <2>2. ParamTypes' /\ InRange(defaults)'
            BY <1>3, <2>1, Apart DEF Initialize, ParamTypes, InRange
        <2>3. ExTypes' /\ UNCHANGED opVars /\ trouble' = trouble
            BY <1>3, Apart DEF Initialize, ExTypes, exVars
        <2> QED BY <2>2, <2>3, Apart, RestTypes
    <1>4. CASE EnterKeys
        <2>1. ExTypes' /\ UNCHANGED opVars /\ UNCHANGED paramVars /\ trouble' = trouble
            BY <1>4, Apart DEF EnterKeys, ExTypes, exVars
        <2> QED BY <2>1, Apart, ParamsStay, RestTypes
    <1>5. ASSUME NEW s \in Syms, Remove(s) PROVE TypeInv'
        <2>1. ExTypes' /\ UNCHANGED opVars /\ UNCHANGED paramVars /\ trouble' = trouble
            BY <1>5, Apart DEF Remove, ExTypes, exVars
        <2> QED BY <2>1, Apart, ParamsStay, RestTypes
    <1>6. ASSUME NEW o \in Ops, NEW s \in Snaps, Save(o, s) PROVE TypeInv'
        <2>1. s \in Snapshot /\ "update" \in Labels /\ Carries("update", s, live)
            BY <1>6, SnapsAssumption DEF Labels, Save, Carries, AddLabels
        <2>2. Begin(o, s, "update") /\ sym' \in [Ops -> Syms]
            BY <1>6, Apart DEF Save, PcTypes
        <2> QED BY <2>1, <2>2, BeginKeeps, Together
    <1>7. ASSUME NEW o \in Ops, NEW s \in Syms, Add(o, s) PROVE TypeInv'
        <2>1. SnapshotOf(live) \in Snapshot /\ "addPosition" \in Labels
            BY Apart, SnapshotInRange DEF Labels
        <2>2. Carries("addPosition", SnapshotOf(live), live)
            BY Apart, ParamFields DEF Carries, SnapshotOf, Saving
        <2>3. Begin(o, SnapshotOf(live), "addPosition") /\ sym' \in [Ops -> Syms]
            BY <1>7, Apart DEF Add, PcTypes
        <2> QED BY <2>1, <2>2, <2>3, BeginKeeps, Together
    <1>8. ASSUME NEW o \in Ops, Update(o) PROVE TypeInv'
        <2>1. Carries(pc[o], snap[o], old[o]) /\ pc[o] = "update" /\ snap[o] \in Snapshot
            BY <1>8, Apart DEF Update, Carrying, PcTypes
        <2>2. Valid(snap[o])
            BY <2>1 DEF Carries, Saving
        <2>3. live' \in Params /\ InRange(live')
            BY <1>8, <2>1, <2>2, Apart, ApplyInRange DEF Update, Valid
        <2>4. ParamTypes' /\ InRange(defaults)' /\ ExTypes' /\ begun' \in 0..MaxOps
              /\ todo' \in [Ops -> SUBSET Syms]
            BY <1>8, <2>3, Apart DEF Update, ParamTypes, InRange, ExTypes, exVars
        <2>5. trouble' \subseteq {"overlap", "refused", "no keys", "reset"}
            BY <1>8, Apart DEF Update
        <2>6. ASSUME NEW l \in {"leverage", "idle"}, Goto(o, l) PROVE PcTypes' /\ Carrying'
            <3>1. l \in Labels /\ Carries(l, snap[o], old[o])
                BY <2>2 DEF Labels, Carries, AddLabels, Saving
            <3> QED BY <2>6, <3>1, GotoKeeps
        <2>7. PcTypes' /\ Carrying'
            BY <1>8, <2>6 DEF Update
        <2> QED BY <2>4, <2>5, <2>7, Together
    <1>9. ASSUME NEW o \in Ops, NEW a \in Answers, LeverageCall(o, a) PROVE TypeInv'
        <2>1. Carries(pc[o], snap[o], old[o]) /\ pc[o] = "leverage"
            BY <1>9, Apart DEF LeverageCall, Carrying
        <2>2. Valid(snap[o])
            BY <2>1 DEF Carries, Saving
        <2>3. exLeverage' \in [Syms -> Int]
            BY <1>9, Apart, CarriedModes, SetTypes, SymsAssumption DEF LeverageCall, ExTypes
        <2>4. ExTypes' /\ UNCHANGED paramVars /\ begun' = begun
              /\ todo' \in [Ops -> SUBSET Syms]
            BY <1>9, <2>3, Apart DEF LeverageCall, ExTypes
        <2>5. trouble' \subseteq {"overlap", "refused", "no keys", "reset"}
            BY <1>9, AnsweredTypes DEF LeverageCall
        <2>6. CASE a # "ok"
            <3>1. Goto(o, "idle") /\ "idle" \in Labels /\ Carries("idle", snap[o], old[o])
                BY <1>9, <2>6 DEF LeverageCall, Labels, Carries, Saving, AddLabels
            <3> QED BY <2>4, <2>5, <3>1, StepTypes
        <2>7. CASE a = "ok" /\ NewPosition(o) # ""
            <3>1. Goto(o, "position") /\ "position" \in Labels
                BY <1>9, <2>7 DEF LeverageCall, Labels
            <3>2. Carries("position", snap[o], old[o])
                BY <2>2, <2>7 DEF Carries, AddLabels, NewPosition
            <3> QED BY <2>4, <2>5, <3>1, <3>2, StepTypes
        <2>8. CASE a = "ok" /\ NewPosition(o) = "" /\ NewMargin(o) # ""
            <3>1. Goto(o, "workers") /\ "workers" \in Labels
                BY <1>9, <2>8 DEF LeverageCall, AfterPosition, Labels
            <3>2. Carries("workers", snap[o], old[o])
                BY <2>2, <2>8 DEF Carries, AddLabels, NewMargin
            <3> QED BY <2>4, <2>5, <3>1, <3>2, StepTypes
        <2>9. CASE a = "ok" /\ NewPosition(o) = "" /\ NewMargin(o) = ""
            <3>1. Goto(o, "idle") /\ "idle" \in Labels /\ Carries("idle", snap[o], old[o])
                BY <1>9, <2>9 DEF LeverageCall, AfterPosition, Labels, Carries, Saving, AddLabels
            <3> QED BY <2>4, <2>5, <3>1, StepTypes
        <2> QED BY <2>6, <2>7, <2>8, <2>9
    <1>10. ASSUME NEW o \in Ops, NEW a \in Answers, PositionCall(o, a) PROVE TypeInv'
        <2>1. Carries(pc[o], snap[o], old[o]) /\ pc[o] = "position"
            BY <1>10, Apart DEF PositionCall, Carrying
        <2>2. Valid(snap[o])
            BY <2>1 DEF Carries, Saving
        <2>3. ExTypes' /\ UNCHANGED paramVars /\ begun' = begun
              /\ todo' \in [Ops -> SUBSET Syms]
            BY <1>10, <2>1, Apart, CarriedModes DEF PositionCall, ExTypes
        <2>4. trouble' \subseteq {"overlap", "refused", "no keys", "reset"}
            BY <1>10, AnsweredTypes DEF PositionCall
        <2>5. CASE NewMargin(o) # ""
            <3>1. Goto(o, "workers") /\ "workers" \in Labels
                BY <1>10, <2>5 DEF PositionCall, AfterPosition, Labels
            <3>2. Carries("workers", snap[o], old[o])
                BY <2>2, <2>5 DEF Carries, AddLabels, NewMargin
            <3> QED BY <2>3, <2>4, <3>1, <3>2, StepTypes
        <2>6. CASE NewMargin(o) = ""
            <3>1. Goto(o, "idle") /\ "idle" \in Labels /\ Carries("idle", snap[o], old[o])
                BY <1>10, <2>6 DEF PositionCall, AfterPosition, Labels, Carries, Saving, AddLabels
            <3> QED BY <2>3, <2>4, <3>1, StepTypes
        <2> QED BY <2>5, <2>6
    <1>11. ASSUME NEW o \in Ops, ReadWorkers(o) PROVE TypeInv'
        <2>1. Carries(pc[o], snap[o], old[o]) /\ pc[o] = "workers"
            BY <1>11, Apart DEF ReadWorkers, Carrying
        <2>2. ExTypes' /\ UNCHANGED paramVars /\ begun' = begun
              /\ todo' \in [Ops -> SUBSET Syms] /\ trouble' = trouble
            BY <1>11, Apart DEF ReadWorkers, ExTypes, exVars
        <2>3. Goto(o, "margin") /\ "margin" \in Labels /\ Carries("margin", snap[o], old[o])
            BY <1>11, <2>1 DEF ReadWorkers, Labels, Carries, Saving, AddLabels
        <2> QED BY <2>2, <2>3, Apart, StepTypes
    <1>12. ASSUME NEW o \in Ops, NEW s \in Syms, NEW a \in Answers, MarginCall(o, s, a)
           PROVE TypeInv'
        <2>1. exMargin' \in [Syms -> MarginModes]
            BY <1>12, Apart, CarriedModes, SetTypes DEF MarginCall, ExTypes
        <2>2. ExTypes' /\ UNCHANGED paramVars /\ begun' = begun
              /\ todo' \in [Ops -> SUBSET Syms] /\ UNCHANGED <<pc, snap, old, sym>>
            BY <1>12, <2>1, Apart DEF MarginCall, ExTypes
        <2>3. trouble' \subseteq {"overlap", "refused", "no keys", "reset"}
            BY <1>12, AnsweredTypes DEF MarginCall
        <2>4. PcTypes' /\ begun' \in 0..MaxOps
            BY <2>2, Apart DEF PcTypes
        <2>5. Carrying'
            BY <2>2, Apart DEF Carrying, Carries, Valid
        <2> QED BY <2>2, <2>3, <2>4, <2>5, ParamsStay, Together
    <1>13. ASSUME NEW o \in Ops, MarginDone(o) PROVE TypeInv'
        <2>1. ExTypes' /\ UNCHANGED paramVars /\ begun' = begun
              /\ todo' \in [Ops -> SUBSET Syms] /\ trouble' = trouble
            BY <1>13, Apart DEF MarginDone, ExTypes, exVars
        <2>2. Goto(o, "idle") /\ "idle" \in Labels /\ Carries("idle", snap[o], old[o])
            BY <1>13 DEF MarginDone, Labels, Carries, Saving, AddLabels
        <2> QED BY <2>1, <2>2, Apart, StepTypes
    <1>14. ASSUME NEW o \in Ops, NEW a \in Answers, AddPosition(o, a) PROVE TypeInv'
        <2>1. ExTypes' /\ UNCHANGED paramVars /\ begun' = begun
              /\ todo' \in [Ops -> SUBSET Syms]
            BY <1>14, Apart, CarriedModes DEF AddPosition, ExTypes, Adding
        <2>2. trouble' \subseteq {"overlap", "refused", "no keys", "reset"}
            BY <1>14, AnsweredTypes DEF AddPosition
        <2>3. Goto(o, "addLeverage") /\ "addLeverage" \in Labels
            BY <1>14 DEF AddPosition, Labels
        <2>4. Carries("addLeverage", snap[o], old[o])
            BY <1>14, CarriedModes DEF AddPosition, Adding, Carries, Saving
        <2> QED BY <2>1, <2>2, <2>3, <2>4, StepTypes
    <1>15. ASSUME NEW o \in Ops, NEW a \in Answers, AddLeverage(o, a) PROVE TypeInv'
        <2>1. exLeverage' \in [Syms -> Int]
            BY <1>15, Apart, CarriedModes, SetTypes DEF AddLeverage, ExTypes, PcTypes
        <2>2. ExTypes' /\ UNCHANGED paramVars /\ begun' = begun
              /\ todo' \in [Ops -> SUBSET Syms]
            BY <1>15, <2>1, Apart DEF AddLeverage, ExTypes
        <2>3. trouble' \subseteq {"overlap", "refused", "no keys", "reset"}
            BY <1>15, AnsweredTypes DEF AddLeverage
        <2>4. Goto(o, "addMargin") /\ "addMargin" \in Labels
            BY <1>15 DEF AddLeverage, Labels
        <2>5. Carries("addMargin", snap[o], old[o])
            BY <1>15, CarriedModes DEF AddLeverage, Adding, Carries, Saving
        <2> QED BY <2>2, <2>3, <2>4, <2>5, StepTypes
    <1>16. ASSUME NEW o \in Ops, NEW a \in Answers, AddMargin(o, a) PROVE TypeInv'
        <2>1. exMargin' \in [Syms -> MarginModes]
            BY <1>16, Apart, CarriedModes, SetTypes DEF AddMargin, ExTypes, PcTypes, Adding
        <2>2. ExTypes' /\ UNCHANGED paramVars /\ begun' = begun
              /\ todo' \in [Ops -> SUBSET Syms]
            BY <1>16, <2>1, Apart DEF AddMargin, ExTypes
        <2>3. trouble' \subseteq {"overlap", "refused", "no keys", "reset"}
            BY <1>16, AnsweredTypes DEF AddMargin
        <2>4. Goto(o, "addWorker") /\ "addWorker" \in Labels
            BY <1>16 DEF AddMargin, Labels
        <2>5. Carries("addWorker", snap[o], old[o])
            BY <1>16, CarriedModes DEF AddMargin, Adding, Carries, Saving
        <2> QED BY <2>2, <2>3, <2>4, <2>5, StepTypes
    <1>17. ASSUME NEW o \in Ops, AddWorker(o) PROVE TypeInv'
        <2>0. sym[o] \in Syms /\ workers \subseteq Syms
            BY Apart DEF PcTypes, ExTypes
        <2>1. workers' \subseteq Syms
            BY <1>17, <2>0 DEF AddWorker
        <2>2. ExTypes' /\ UNCHANGED paramVars /\ begun' = begun
              /\ todo' \in [Ops -> SUBSET Syms] /\ trouble' = trouble
            BY <1>17, <2>1, Apart DEF AddWorker, ExTypes, exVars
        <2>3. Goto(o, "idle") /\ "idle" \in Labels /\ Carries("idle", snap[o], old[o])
            BY <1>17 DEF AddWorker, Labels, Carries, Saving, AddLabels
        <2> QED BY <2>2, <2>3, Apart, StepTypes
    <1> QED BY <1>1, <1>2, <1>3, <1>4, <1>5, <1>6, <1>7, <1>8, <1>9, <1>10, <1>11, <1>12, <1>13,
               <1>14, <1>15, <1>16, <1>17 DEF Next

(* So they hold for ever.                                                       *)
LEMMA TypesHold == Spec => []TypeInv
    <1>1. Init => TypeInv
        <2> SUFFICES ASSUME Init PROVE TypeInv
            OBVIOUS
        <2>1. live = AtStart /\ defaults = Initialized
            BY DEF Init
        <2>2. ParamTypes /\ InRange(defaults)
            BY <2>1, StartInRange DEF ParamTypes, InRange
        <2>3. ExTypes
            BY DEF Init, ExTypes
        <2>4. OpTypes
            BY SymsAssumption, SnapsAssumption, StartInRange DEF Init, OpTypes
        <2>5. \A o \in Ops : Carries(pc[o], snap[o], old[o])
            BY DEF Init, Carries, Saving, AddLabels
        <2> QED BY <2>2, <2>3, <2>4, <2>5 DEF TypeInv, TypeOK, SnapInv
    <1> QED BY <1>1, TypesKept, PTL DEF Spec

(* Types, and the ranges of the parameters, whatever is saved and reset.        *)
THEOREM ParamsTypes == Spec => []TypeOK
    <1>1. TypeInv => TypeOK
        BY DEF TypeInv
    <1> QED BY <1>1, TypesHold, PTL

--------------------------------------------------------------------------------
(* A snapshot that no rule of apply corrects takes effect as it is.             *)
LEMMA ApplyTakesEffect ==
    ASSUME NEW p, NEW s \in Snapshot, NEW a, Follows(a, p, s), s.tp > 0,
           s.guardMs \in 100..180, s.precision \in 0..8, s.depth # 0 => s.depth \in 1..20,
           s.marginMode \in MarginModes \union {""}, s.positionMode \in PositionModes \union {""}
    PROVE  /\ a.tp = s.tp /\ a.cooldown = s.cooldown /\ a.leverage = s.leverage
           /\ s.lotSize > 0 => a.lotSize = s.lotSize
           /\ s.marginUSDT > 0 => a.marginUSDT = s.marginUSDT
           /\ a.guardMs = s.guardMs /\ a.precision = s.precision
           /\ s.liqConf > 0 => a.liqConf = s.liqConf
           /\ Given(s.long, a.long, "nil")
           /\ Given(s.depth, a.depth, 0)
           /\ Given(s.marginMode, a.marginMode, "")
           /\ Given(s.positionMode, a.positionMode, "")
    <1>1. s.tp \in Int /\ s.depth \in Int /\ s.guardMs \in Int /\ s.precision \in Int
        BY SnapshotFields
    <1>2. /\ a.tp = s.tp /\ a.cooldown = s.cooldown /\ a.leverage = s.leverage
          /\ s.lotSize > 0 => a.lotSize = s.lotSize
          /\ s.marginUSDT > 0 => a.marginUSDT = s.marginUSDT
        BY <1>1 DEF Follows, OrFallback
    <1>3. a.guardMs = s.guardMs /\ a.precision = s.precision
        BY <1>1, ClampStays DEF Follows
    <1>4. Given(s.long, a.long, "nil") /\ (s.liqConf > 0 => a.liqConf = s.liqConf)
        BY DEF Follows, Switch, Given
    <1>5. Given(s.depth, a.depth, 0)
        BY <1>1, DepthRange DEF Follows, Given
    <1>6. Given(s.marginMode, a.marginMode, "") /\ Given(s.positionMode, a.positionMode, "")
        BY DEF Follows, Given
    <1> QED BY <1>2, <1>3, <1>4, <1>5, <1>6

(* The defaults have both modes.                                                *)
DefaultsInv ==
    /\ defaults.marginMode \in MarginModes /\ defaults.positionMode \in PositionModes

(* They keep them.                                                              *)
LEMMA DefaultsKept ==
    ASSUME TypeInv, DefaultsInv, [Next]_vars
    PROVE  DefaultsInv'
    <1>1. defaults' = defaults \/ defaults' = SnapshotOf(live)
        BY DEF Next, vars, paramVars, Reset, Initialize, EnterKeys, Remove, Save, Add, Begin, Update,
               ReadWorkers, MarginDone, AddWorker, LeverageCall, PositionCall, AddPosition,
               AddLeverage, AddMargin, MarginCall
    <1>2. /\ SnapshotOf(live).marginMode \in MarginModes
          /\ SnapshotOf(live).positionMode \in PositionModes
        BY Apart, ParamFields DEF SnapshotOf
    <1> QED BY <1>1, <1>2 DEF DefaultsInv

(* Both hold for ever.                                                          *)
LEMMA ParamsHold == Spec => [](TypeInv /\ DefaultsInv)
    <1>1. Init => DefaultsInv
        BY ConfigAssumption DEF Init, DefaultsInv, Initialized, PositionModes
    <1>2. TypeInv /\ DefaultsInv /\ [Next]_vars => DefaultsInv'
        BY DefaultsKept
    <1> QED BY <1>1, <1>2, TypesHold, PTL DEF Spec

(* Nothing that is saved and not refused, or reset to, is corrected on its way. *)
THEOREM WhatIsSavedCounts == Spec => SavedIsInEffect
    <1>1. ASSUME TypeInv, DefaultsInv, NEW o \in Ops, Update(o) PROVE InEffect(snap[o])
        <2>1. snap[o] \in Snapshot /\ Carries(pc[o], snap[o], old[o]) /\ pc[o] = "update"
            BY <1>1, Apart DEF Update, PcTypes, Carrying
        <2>2. Valid(snap[o])
            BY <2>1 DEF Carries, Saving
        <2>3. Follows(live', live, snap[o])
            BY <1>1, ApplyFields DEF Update
        <2> QED BY <2>1, <2>2, <2>3, ApplyTakesEffect DEF InEffect, Valid
    <1>2. ASSUME TypeInv, DefaultsInv, Reset PROVE InEffect(defaults)
        <2>1. defaults \in Snapshot /\ InRange(defaults)
            BY <1>2, Apart
        <2>2. Follows(live', live, defaults)
            BY <1>2, ApplyFields DEF Reset
        <2> QED BY <1>2, <2>1, <2>2, ApplyTakesEffect DEF InEffect, InRange, DefaultsInv
    <1> DEFINE A == (\A o \in Ops : Update(o) => InEffect(snap[o])) /\ (Reset => InEffect(defaults))
    <1>3. TypeInv /\ DefaultsInv => [A]_vars
        BY <1>1, <1>2
    <1> QED BY <1>3, ParamsHold, PTL DEF SavedIsInEffect

--------------------------------------------------------------------------------
(* The three agreements, for the symbols W and the parameters lv.               *)
PosOK(pos, W, lv) == W # {} => pos = lv.positionMode
MarOK(mar, W, lv) == \A s \in W : mar[s] = lv.marginMode
LevOK(lev, W, lv) == Active \in W => lev[Active] = lv.leverage

AllOK(pos, mar, lev, W, lv) == PosOK(pos, W, lv) /\ MarOK(mar, W, lv) /\ LevOK(lev, W, lv)

(* The modes a save with the snapshot s has to push, the parameters having been *)
(* b before it; and what is known of a mode that is due: either it is not       *)
(* pushed, and agrees, or it is pushed, and is that in effect.                  *)
PushPos(s, b) == IF s.positionMode # b.positionMode THEN s.positionMode ELSE ""
PushMar(s, b) == IF s.marginMode # b.marginMode THEN s.marginMode ELSE ""

PosDue(s, b, pos, W, lv) ==
    IF PushPos(s, b) = "" THEN PosOK(pos, W, lv) ELSE PushPos(s, b) = lv.positionMode
MarDue(s, b, mar, W, lv) ==
    IF PushMar(s, b) = "" THEN MarOK(mar, W, lv) ELSE PushMar(s, b) = lv.marginMode

(* What is known while the one request at work is at l, with the snapshot s,    *)
(* the parameters b from before, the symbol y and the symbols t to do.          *)
Stage(l, s, b, y, t, pos, mar, lev, W, lv) ==
    /\ l = "update" => /\ AllOK(pos, mar, lev, W, lv)
                       /\ b.positionMode = lv.positionMode /\ b.marginMode = lv.marginMode
    /\ l = "leverage" => /\ s.leverage = lv.leverage
                         /\ PosDue(s, b, pos, W, lv) /\ MarDue(s, b, mar, W, lv)
    /\ l = "position" => /\ LevOK(lev, W, lv) /\ PushPos(s, b) = lv.positionMode
                         /\ MarDue(s, b, mar, W, lv)
    /\ l = "workers" => /\ LevOK(lev, W, lv) /\ PosOK(pos, W, lv)
                        /\ PushMar(s, b) = lv.marginMode
    /\ l = "margin" => /\ LevOK(lev, W, lv) /\ PosOK(pos, W, lv)
                       /\ PushMar(s, b) = lv.marginMode /\ MarOK(mar, W \ t, lv)
    /\ l \in AddLabels => /\ s.positionMode = lv.positionMode /\ s.marginMode = lv.marginMode
                          /\ s.leverage = lv.leverage /\ AllOK(pos, mar, lev, W, lv)
    /\ l \in AddLabels \ {"addPosition"} => pos = lv.positionMode
    /\ l \in {"addMargin", "addWorker"} => lev[y] = lv.leverage
    /\ l = "addWorker" => mar[y] = lv.marginMode

StageOf(o) ==
    Stage(pc[o], snap[o], old[o], sym[o], todo[o], exPosition, exMargin, exLeverage, workers, live)

AgreeInv ==
    trouble = {} =>
        /\ \A o, p \in Ops : InFlight(o) /\ InFlight(p) => o = p
        /\ (\A o \in Ops : ~InFlight(o)) => AllOK(exPosition, exMargin, exLeverage, workers, live)
        /\ \A o \in Ops : InFlight(o) => StageOf(o)

(* Fewer symbols, and parameters that differ elsewhere, disturb nothing.        *)
LEMMA StageWeaker ==
    ASSUME NEW l, NEW s, NEW b, NEW y, NEW t, NEW pos, NEW mar, NEW lev, NEW W, NEW V, V \subseteq W,
           NEW lv, NEW lw, lw.positionMode = lv.positionMode, lw.marginMode = lv.marginMode,
           lw.leverage = lv.leverage
    PROVE  /\ Stage(l, s, b, y, t, pos, mar, lev, W, lv) => Stage(l, s, b, y, t, pos, mar, lev, V, lw)
           /\ AllOK(pos, mar, lev, W, lv) => AllOK(pos, mar, lev, V, lw)
    <1>1. /\ PosOK(pos, W, lv) => PosOK(pos, V, lw)
          /\ MarOK(mar, W, lv) => MarOK(mar, V, lw)
          /\ LevOK(lev, W, lv) => LevOK(lev, V, lw)
          /\ MarOK(mar, W \ t, lv) => MarOK(mar, V \ t, lw)
        BY DEF PosOK, MarOK, LevOK
    <1>2. AllOK(pos, mar, lev, W, lv) => AllOK(pos, mar, lev, V, lw)
        BY <1>1 DEF AllOK
    <1>3. /\ PosDue(s, b, pos, W, lv) => PosDue(s, b, pos, V, lw)
          /\ MarDue(s, b, mar, W, lv) => MarDue(s, b, mar, V, lw)
        BY <1>1 DEF PosDue, MarDue
    <1> QED BY <1>1, <1>2, <1>3 DEF Stage

(* With no trouble, a request at work is the only one.                          *)
LEMMA Alone ==
    ASSUME AgreeInv, trouble = {}, NEW o \in Ops, InFlight(o)
    PROVE  StageOf(o) /\ \A p \in Ops : p # o => pc[p] = "idle"
    BY DEF AgreeInv, InFlight

(* It goes on to another stage, or ends.                                        *)
LEMMA StageNext ==
    ASSUME TypeInv, AgreeInv, trouble = {}, NEW o \in Ops, InFlight(o), NEW l, Goto(o, l),
           todo' \in [Ops -> SUBSET Syms],
           l = "idle" => AllOK(exPosition', exMargin', exLeverage', workers', live'),
           l # "idle" => Stage(l, snap[o], old[o], sym[o], todo'[o],
                               exPosition', exMargin', exLeverage', workers', live')
    PROVE  AgreeInv'
    <1>1. pc \in [Ops -> Labels] /\ \A p \in Ops : p # o => pc[p] = "idle"
        BY Alone, Apart DEF PcTypes
    <1>2. pc'[o] = l /\ \A p \in Ops : p # o => pc'[p] = "idle"
        BY <1>1 DEF Goto
    <1>3. CASE l = "idle"
        BY <1>2, <1>3 DEF AgreeInv, InFlight
    <1>4. CASE l # "idle"
        <2>1. snap' = snap /\ old' = old /\ sym' = sym
            BY <1>4 DEF Goto
        <2>2. StageOf(o)'
            BY <1>2, <1>4, <2>1 DEF StageOf
        <2> QED BY <1>2, <1>4, <2>2 DEF AgreeInv, InFlight
    <1> QED BY <1>3, <1>4

(* A step that no request takes.                                                *)
LEMMA StageStays ==
    ASSUME AgreeInv, UNCHANGED opVars, UNCHANGED exVars, workers' \subseteq workers,
           trouble' = {} => /\ trouble = {} /\ live'.positionMode = live.positionMode
                            /\ live'.marginMode = live.marginMode /\ live'.leverage = live.leverage
    PROVE  AgreeInv'
    <1> SUFFICES ASSUME trouble' = {} PROVE AgreeInv'
        BY DEF AgreeInv
    <1>1. /\ pc' = pc /\ snap' = snap /\ old' = old /\ sym' = sym /\ todo' = todo
          /\ exPosition' = exPosition /\ exMargin' = exMargin /\ exLeverage' = exLeverage
        BY DEF opVars, exVars
    <1>2. AllOK(exPosition, exMargin, exLeverage, workers, live)
              => AllOK(exPosition, exMargin, exLeverage, workers, live)'
        BY <1>1, StageWeaker
    <1>3. ASSUME NEW o \in Ops, StageOf(o) PROVE StageOf(o)'
        BY <1>1, <1>3, StageWeaker DEF StageOf
    <1> QED BY <1>1, <1>2, <1>3 DEF AgreeInv, InFlight

(* An answer that is no trouble has had its effect.                             *)
LEMMA AnsweredOk ==
    ASSUME TypeInv, NEW a \in Answers, Answered(a), trouble' = {}
    PROVE  trouble = {} /\ a = "ok"
    BY Apart DEF Answered

(* What a call that has its effect makes of a function of the symbols.          *)
LEMMA SetOk ==
    ASSUME NEW T, NEW f \in [Syms -> T], NEW s \in Syms, NEW v
    PROVE  Set(f, s, v, "ok")[s] = v /\ \A r \in Syms : r # s => Set(f, s, v, "ok")[r] = f[r]
    BY DEF Set

(* A request begins: it is the only one, or that is trouble.                    *)
LEMMA BeginAgrees ==
    ASSUME TypeInv, AgreeInv, NEW o \in Ops, NEW s, NEW l \in Labels, l # "idle", Begin(o, s, l),
           trouble' = {},
           AllOK(exPosition, exMargin, exLeverage, workers, live)
               => Stage(l, s, live, sym'[o], todo[o], exPosition, exMargin, exLeverage, workers, live)
    PROVE  AgreeInv'
    <1>1. trouble = {} /\ \A p \in Ops : ~InFlight(p)
        BY Apart DEF Begin
    <1>2. AllOK(exPosition, exMargin, exLeverage, workers, live)
        BY <1>1 DEF AgreeInv
    <1>3. /\ pc'[o] = l /\ snap'[o] = s /\ old'[o] = live
          /\ \A p \in Ops : p # o => pc'[p] = "idle"
        BY <1>1, Apart DEF Begin, PcTypes, InFlight
    <1>4. /\ live' = live /\ workers' = workers /\ todo' = todo /\ exPosition' = exPosition
          /\ exMargin' = exMargin /\ exLeverage' = exLeverage
        BY DEF Begin, paramVars, exVars
    <1>5. StageOf(o)'
        BY <1>2, <1>3, <1>4 DEF StageOf
    <1> QED BY <1>3, <1>5 DEF AgreeInv, InFlight

(* Every step keeps the agreement.                                              *)
LEMMA AgreeKept ==
    ASSUME TypeInv, AgreeInv, [Next]_vars
    PROVE  AgreeInv'
    <1>1. CASE UNCHANGED vars
        BY <1>1, StageStays DEF vars, paramVars
    <1>2. CASE Reset
        <2>1. UNCHANGED opVars /\ UNCHANGED exVars /\ workers' \subseteq workers
            BY <1>2 DEF Reset
        <2>2. trouble' = {} => /\ trouble = {} /\ live'.positionMode = live.positionMode
                               /\ live'.marginMode = live.marginMode
                               /\ live'.leverage = live.leverage
            BY <1>2, Apart DEF Reset
        <2> QED BY <2>1, <2>2, StageStays
    <1>3. CASE Initialize \/ EnterKeys \/ \E s \in Syms : Remove(s)
        <2>1. UNCHANGED opVars /\ UNCHANGED exVars /\ workers' \subseteq workers
              /\ live' = live /\ trouble' = trouble
            BY <1>3 DEF Initialize, EnterKeys, Remove, paramVars
        <2> QED BY <2>1, StageStays
    <1>4. SUFFICES ASSUME trouble' = {} PROVE AgreeInv'
        BY DEF AgreeInv
    <1>5. ASSUME NEW o \in Ops, NEW s \in Snaps, Save(o, s) PROVE AgreeInv'
        <2>1. Begin(o, s, "update") /\ "update" \in Labels
            BY <1>5 DEF Save, Labels
        <2>2. AllOK(exPosition, exMargin, exLeverage, workers, live)
                  => Stage("update", s, live, sym'[o], todo[o], exPosition, exMargin, exLeverage,
                           workers, live)
            BY DEF Stage, AddLabels
        <2> QED BY <1>4, <2>1, <2>2, BeginAgrees
    <1>6. ASSUME NEW o \in Ops, NEW s \in Syms, Add(o, s) PROVE AgreeInv'
        <2>1. Begin(o, SnapshotOf(live), "addPosition") /\ "addPosition" \in Labels
            BY <1>6 DEF Add, Labels
        <2>2. /\ SnapshotOf(live).positionMode = live.positionMode
              /\ SnapshotOf(live).marginMode = live.marginMode
              /\ SnapshotOf(live).leverage = live.leverage
            BY DEF SnapshotOf
        <2>3. AllOK(exPosition, exMargin, exLeverage, workers, live)
                  => Stage("addPosition", SnapshotOf(live), live, sym'[o], todo[o], exPosition,
                           exMargin, exLeverage, workers, live)
            BY <2>2 DEF Stage, AddLabels
        <2> QED BY <1>4, <2>1, <2>3, BeginAgrees
    <1>7. ASSUME NEW o \in Ops, Update(o) PROVE AgreeInv'
        <2>1. pc[o] = "update" /\ InFlight(o) /\ keys /\ trouble = {} /\ Goto(o, "leverage")
            BY <1>4, <1>7, Apart DEF Update, InFlight
        <2>2. StageOf(o) /\ Carries(pc[o], snap[o], old[o]) /\ snap[o] \in Snapshot
            BY <2>1, Alone, Apart DEF Carrying, PcTypes
        <2>3. Valid(snap[o])
            BY <2>1, <2>2 DEF Carries, Saving
        <2>4. /\ AllOK(exPosition, exMargin, exLeverage, workers, live)
              /\ old[o].positionMode = live.positionMode /\ old[o].marginMode = live.marginMode
            BY <2>1, <2>2 DEF StageOf, Stage
        <2>5. Follows(live', live, snap[o])
            BY <1>7, ApplyFields DEF Update
        <2>6. live'.leverage = snap[o].leverage
            BY <2>5 DEF Follows
        <2>7. live'.positionMode = IF PushPos(snap[o], old[o]) = "" THEN live.positionMode
                                   ELSE PushPos(snap[o], old[o])
            BY <2>3, <2>4, <2>5 DEF Follows, PushPos, Valid, PositionModes
        <2>8. live'.marginMode = IF PushMar(snap[o], old[o]) = "" THEN live.marginMode
                                 ELSE PushMar(snap[o], old[o])
            BY <2>3, <2>4, <2>5 DEF Follows, PushMar, Valid, MarginModes
        <2>9. /\ PosDue(snap[o], old[o], exPosition, workers, live')
              /\ MarDue(snap[o], old[o], exMargin, workers, live')
            BY <2>4, <2>7, <2>8 DEF PosDue, MarDue, AllOK, PosOK, MarOK
        <2>10. Stage("leverage", snap[o], old[o], sym[o], todo[o], exPosition, exMargin, exLeverage,
                     workers, live')
            BY <2>6, <2>9 DEF Stage, AddLabels
        <2>11. /\ exPosition' = exPosition /\ exMargin' = exMargin /\ exLeverage' = exLeverage
               /\ workers' = workers /\ todo' = todo
            BY <1>7 DEF Update, exVars
        <2> QED BY <2>1, <2>10, <2>11, Apart, StageNext
    <1>8. ASSUME NEW o \in Ops, NEW a \in Answers, LeverageCall(o, a) PROVE AgreeInv'
        <2>1. trouble = {} /\ a = "ok" /\ pc[o] = "leverage" /\ InFlight(o)
            BY <1>4, <1>8, AnsweredOk DEF LeverageCall, InFlight
        <2>2. /\ snap[o].leverage = live.leverage
              /\ PosDue(snap[o], old[o], exPosition, workers, live)
              /\ MarDue(snap[o], old[o], exMargin, workers, live)
            BY <2>1, Alone DEF StageOf, Stage
        <2>3. exLeverage'[Active] = live.leverage
            <3>1. exLeverage' = Set(exLeverage, Active, live.leverage, "ok")
                BY <1>8, <2>1, <2>2 DEF LeverageCall
            <3>2. exLeverage \in [Syms -> Int] /\ Active \in Syms
                BY Apart, SymsAssumption DEF ExTypes
            <3> QED BY <3>1, <3>2, SetOk
        <2>4. LevOK(exLeverage', workers, live)
            BY <2>3 DEF LevOK
        <2>5. NewPosition(o) = PushPos(snap[o], old[o]) /\ NewMargin(o) = PushMar(snap[o], old[o])
            BY DEF NewPosition, NewMargin, PushPos, PushMar
        <2>6. /\ live' = live /\ exPosition' = exPosition /\ exMargin' = exMargin
              /\ workers' = workers /\ todo' = todo
            BY <1>8 DEF LeverageCall, paramVars
        <2>7. CASE NewPosition(o) # ""
            <3>1. Goto(o, "position")
                BY <1>8, <2>1, <2>7 DEF LeverageCall
            <3>2. Stage("position", snap[o], old[o], sym[o], todo[o], exPosition, exMargin, exLeverage',
                        workers, live)
                BY <2>2, <2>4, <2>5, <2>7 DEF Stage, PosDue, AddLabels
            <3> QED BY <2>1, <2>6, <3>1, <3>2, Apart, StageNext
        <2>8. CASE NewPosition(o) = "" /\ NewMargin(o) # ""
            <3>1. Goto(o, "workers")
                BY <1>8, <2>1, <2>8 DEF LeverageCall, AfterPosition
            <3>2. Stage("workers", snap[o], old[o], sym[o], todo[o], exPosition, exMargin, exLeverage',
                        workers, live)
                BY <2>2, <2>4, <2>5, <2>8 DEF Stage, PosDue, MarDue, AddLabels
            <3> QED BY <2>1, <2>6, <3>1, <3>2, Apart, StageNext
        <2>9. CASE NewPosition(o) = "" /\ NewMargin(o) = ""
            <3>1. Goto(o, "idle")
                BY <1>8, <2>1, <2>9 DEF LeverageCall, AfterPosition
            <3>2. AllOK(exPosition, exMargin, exLeverage', workers, live)
                BY <2>2, <2>4, <2>5, <2>9 DEF PosDue, MarDue, AllOK
            <3> QED BY <2>1, <2>6, <3>1, <3>2, Apart, StageNext
        <2> QED BY <2>7, <2>8, <2>9
    <1>9. ASSUME NEW o \in Ops, NEW a \in Answers, PositionCall(o, a) PROVE AgreeInv'
        <2>1. trouble = {} /\ a = "ok" /\ pc[o] = "position" /\ InFlight(o)
            BY <1>4, <1>9, AnsweredOk DEF PositionCall, InFlight
        <2>2. /\ LevOK(exLeverage, workers, live) /\ PushPos(snap[o], old[o]) = live.positionMode
              /\ MarDue(snap[o], old[o], exMargin, workers, live)
            BY <2>1, Alone DEF StageOf, Stage
        <2>3. NewPosition(o) = PushPos(snap[o], old[o]) /\ NewMargin(o) = PushMar(snap[o], old[o])
            BY DEF NewPosition, NewMargin, PushPos, PushMar
        <2>4. PosOK(exPosition', workers, live)
            BY <1>9, <2>1, <2>2, <2>3 DEF PositionCall, PosOK
        <2>5. /\ live' = live /\ exLeverage' = exLeverage /\ exMargin' = exMargin
              /\ workers' = workers /\ todo' = todo
            BY <1>9 DEF PositionCall, paramVars
        <2>6. CASE NewMargin(o) # ""
            <3>1. Goto(o, "workers")
                BY <1>9, <2>6 DEF PositionCall, AfterPosition
            <3>2. Stage("workers", snap[o], old[o], sym[o], todo[o], exPosition', exMargin, exLeverage,
                        workers, live)
                BY <2>2, <2>3, <2>4, <2>6 DEF Stage, MarDue, AddLabels
            <3> QED BY <2>1, <2>5, <3>1, <3>2, Apart, StageNext
        <2>7. CASE NewMargin(o) = ""
            <3>1. Goto(o, "idle")
                BY <1>9, <2>7 DEF PositionCall, AfterPosition
            <3>2. AllOK(exPosition', exMargin, exLeverage, workers, live)
                BY <2>2, <2>3, <2>4, <2>7 DEF MarDue, AllOK
            <3> QED BY <2>1, <2>5, <3>1, <3>2, Apart, StageNext
        <2> QED BY <2>6, <2>7
    <1>10. ASSUME NEW o \in Ops, ReadWorkers(o) PROVE AgreeInv'
        <2>1. trouble = {} /\ pc[o] = "workers" /\ InFlight(o) /\ Goto(o, "margin")
            BY <1>4, <1>10 DEF ReadWorkers, InFlight
        <2>2. /\ LevOK(exLeverage, workers, live) /\ PosOK(exPosition, workers, live)
              /\ PushMar(snap[o], old[o]) = live.marginMode
            BY <2>1, Alone DEF StageOf, Stage
        <2>3. todo'[o] = workers /\ todo' \in [Ops -> SUBSET Syms]
            BY <1>10, Apart DEF ReadWorkers, ExTypes
        <2>4. Stage("margin", snap[o], old[o], sym[o], todo'[o], exPosition, exMargin, exLeverage,
                    workers, live)
            BY <2>2, <2>3 DEF Stage, AddLabels, MarOK
        <2>5. /\ live' = live /\ exPosition' = exPosition /\ exMargin' = exMargin
              /\ exLeverage' = exLeverage /\ workers' = workers
            BY <1>10 DEF ReadWorkers, paramVars, exVars
        <2> QED BY <2>1, <2>3, <2>4, <2>5, StageNext
    <1>11. ASSUME NEW o \in Ops, NEW s \in Syms, NEW a \in Answers, MarginCall(o, s, a)
           PROVE AgreeInv'
        <2>1. trouble = {} /\ a = "ok" /\ pc[o] = "margin" /\ InFlight(o)
            BY <1>4, <1>11, AnsweredOk DEF MarginCall, InFlight
        <2>2. /\ LevOK(exLeverage, workers, live) /\ PosOK(exPosition, workers, live)
              /\ PushMar(snap[o], old[o]) = live.marginMode
              /\ MarOK(exMargin, workers \ todo[o], live)
            BY <2>1, Alone DEF StageOf, Stage
        <2>3. NewMargin(o) = PushMar(snap[o], old[o])
            BY DEF NewMargin, PushMar
        <2>4. exMargin'[s] = live.marginMode /\ \A r \in Syms : r # s => exMargin'[r] = exMargin[r]
            BY <1>11, <2>1, <2>2, <2>3, Apart, SetOk DEF MarginCall, ExTypes
        <2>5. todo'[o] = todo[o] \ {s} /\ \A p \in Ops : p # o => todo'[p] = todo[p]
            BY <1>11, Apart DEF MarginCall
        <2>6. MarOK(exMargin', workers \ todo'[o], live)
            BY <2>2, <2>4, <2>5, Apart DEF MarOK, ExTypes
        <2>7. Stage("margin", snap[o], old[o], sym[o], todo'[o], exPosition, exMargin', exLeverage,
                    workers, live)
            BY <2>2, <2>6 DEF Stage, AddLabels
        <2>8. /\ live' = live /\ exPosition' = exPosition /\ exLeverage' = exLeverage
              /\ workers' = workers /\ pc' = pc /\ snap' = snap /\ old' = old /\ sym' = sym
            BY <1>11 DEF MarginCall, paramVars
        <2>9. StageOf(o)'
            BY <2>1, <2>7, <2>8 DEF StageOf
        <2> QED BY <2>1, <2>8, <2>9, Alone DEF AgreeInv, InFlight
    <1>12. ASSUME NEW o \in Ops, MarginDone(o) PROVE AgreeInv'
        <2>1. trouble = {} /\ pc[o] = "margin" /\ InFlight(o) /\ Goto(o, "idle") /\ todo[o] = {}
            BY <1>4, <1>12 DEF MarginDone, InFlight
        <2>2. AllOK(exPosition, exMargin, exLeverage, workers, live)
            BY <2>1, Alone DEF StageOf, Stage, AllOK, MarOK
        <2>3. /\ live' = live /\ exPosition' = exPosition /\ exMargin' = exMargin
              /\ exLeverage' = exLeverage /\ workers' = workers /\ todo' = todo
            BY <1>12 DEF MarginDone, paramVars, exVars
        <2> QED BY <2>1, <2>2, <2>3, Apart, StageNext
    <1>13. ASSUME NEW o \in Ops, NEW a \in Answers, AddPosition(o, a) PROVE AgreeInv'
        <2>1. trouble = {} /\ a = "ok" /\ pc[o] = "addPosition" /\ InFlight(o) /\ Goto(o, "addLeverage")
            BY <1>4, <1>13, AnsweredOk DEF AddPosition, InFlight
        <2>2. /\ snap[o].positionMode = live.positionMode /\ snap[o].marginMode = live.marginMode
              /\ snap[o].leverage = live.leverage
              /\ AllOK(exPosition, exMargin, exLeverage, workers, live)
            BY <2>1, Alone DEF StageOf, Stage, AddLabels
        <2>3. exPosition' = live.positionMode
            BY <1>13, <2>1, <2>2 DEF AddPosition
        <2>4. Stage("addLeverage", snap[o], old[o], sym[o], todo[o], exPosition', exMargin, exLeverage,
                    workers, live)
            BY <2>2, <2>3 DEF Stage, AddLabels, AllOK, PosOK
        <2>5. /\ live' = live /\ exMargin' = exMargin /\ exLeverage' = exLeverage
              /\ workers' = workers /\ todo' = todo
            BY <1>13 DEF AddPosition, paramVars
        <2> QED BY <2>1, <2>4, <2>5, Apart, StageNext
    <1>14. ASSUME NEW o \in Ops, NEW a \in Answers, AddLeverage(o, a) PROVE AgreeInv'
        <2>1. trouble = {} /\ a = "ok" /\ pc[o] = "addLeverage" /\ InFlight(o) /\ Goto(o, "addMargin")
            BY <1>4, <1>14, AnsweredOk DEF AddLeverage, InFlight
        <2>2. /\ snap[o].positionMode = live.positionMode /\ snap[o].marginMode = live.marginMode
              /\ snap[o].leverage = live.leverage /\ exPosition = live.positionMode
              /\ AllOK(exPosition, exMargin, exLeverage, workers, live)
            BY <2>1, Alone DEF StageOf, Stage, AddLabels
        <2>3. /\ exLeverage'[sym[o]] = live.leverage
              /\ \A r \in Syms : r # sym[o] => exLeverage'[r] = exLeverage[r]
            <3>1. exLeverage' = Set(exLeverage, sym[o], live.leverage, "ok")
                BY <1>14, <2>1, <2>2 DEF AddLeverage
            <3>2. exLeverage \in [Syms -> Int] /\ sym[o] \in Syms
                BY Apart DEF ExTypes, PcTypes
            <3> QED BY <3>1, <3>2, SetOk
        <2>4. AllOK(exPosition, exMargin, exLeverage', workers, live)
            BY <2>2, <2>3, SymsAssumption DEF AllOK, LevOK
        <2>5. Stage("addMargin", snap[o], old[o], sym[o], todo[o], exPosition, exMargin, exLeverage',
                    workers, live)
            BY <2>2, <2>3, <2>4 DEF Stage, AddLabels
        <2>6. /\ live' = live /\ exMargin' = exMargin /\ exPosition' = exPosition
              /\ workers' = workers /\ todo' = todo
            BY <1>14 DEF AddLeverage, paramVars
        <2> QED BY <2>1, <2>5, <2>6, Apart, StageNext
    <1>15. ASSUME NEW o \in Ops, NEW a \in Answers, AddMargin(o, a) PROVE AgreeInv'
        <2>1. trouble = {} /\ a = "ok" /\ pc[o] = "addMargin" /\ InFlight(o) /\ Goto(o, "addWorker")
            BY <1>4, <1>15, AnsweredOk DEF AddMargin, InFlight
        <2>2. /\ snap[o].positionMode = live.positionMode /\ snap[o].marginMode = live.marginMode
              /\ snap[o].leverage = live.leverage /\ exPosition = live.positionMode
              /\ AllOK(exPosition, exMargin, exLeverage, workers, live)
              /\ exLeverage[sym[o]] = live.leverage
            BY <2>1, Alone DEF StageOf, Stage, AddLabels
        <2>3. /\ exMargin'[sym[o]] = live.marginMode
              /\ \A r \in Syms : r # sym[o] => exMargin'[r] = exMargin[r]
            <3>1. exMargin' = Set(exMargin, sym[o], live.marginMode, "ok")
                BY <1>15, <2>1, <2>2 DEF AddMargin
            <3>2. exMargin \in [Syms -> MarginModes] /\ sym[o] \in Syms
                BY Apart DEF ExTypes, PcTypes
            <3> QED BY <3>1, <3>2, SetOk
        <2>4. AllOK(exPosition, exMargin', exLeverage, workers, live)
            BY <2>2, <2>3, Apart DEF AllOK, MarOK, ExTypes
        <2>5. Stage("addWorker", snap[o], old[o], sym[o], todo[o], exPosition, exMargin', exLeverage,
                    workers, live)
            BY <2>2, <2>3, <2>4 DEF Stage, AddLabels
        <2>6. /\ live' = live /\ exLeverage' = exLeverage /\ exPosition' = exPosition
              /\ workers' = workers /\ todo' = todo
            BY <1>15 DEF AddMargin, paramVars
        <2> QED BY <2>1, <2>5, <2>6, Apart, StageNext
    <1>16. ASSUME NEW o \in Ops, AddWorker(o) PROVE AgreeInv'
        <2>1. trouble = {} /\ pc[o] = "addWorker" /\ InFlight(o) /\ Goto(o, "idle")
            BY <1>4, <1>16 DEF AddWorker, InFlight
        <2>2. /\ exPosition = live.positionMode /\ exMargin[sym[o]] = live.marginMode
              /\ AllOK(exPosition, exMargin, exLeverage, workers, live)
              /\ exLeverage[sym[o]] = live.leverage
            BY <2>1, Alone DEF StageOf, Stage, AddLabels
        <2>3. AllOK(exPosition, exMargin, exLeverage, workers', live)
            BY <1>16, <2>2 DEF AddWorker, AllOK, PosOK, MarOK, LevOK
        <2>4. /\ live' = live /\ exLeverage' = exLeverage /\ exPosition' = exPosition
              /\ exMargin' = exMargin /\ todo' = todo
            BY <1>16 DEF AddWorker, paramVars, exVars
        <2> QED BY <2>1, <2>3, <2>4, Apart, StageNext
    <1> QED BY <1>1, <1>2, <1>3, <1>5, <1>6, <1>7, <1>8, <1>9, <1>10, <1>11, <1>12, <1>13, <1>14,
               <1>15, <1>16 DEF Next

(* With no failed call, no overlap, no save without keys and no reset of a mode,*)
(* the exchange is at rest as the orders take it to be.                         *)
THEOREM ModesStayAgreed == Spec => []ModesAgree
    <1>1. Init => AgreeInv
        BY DEF Init, AgreeInv, InFlight, AllOK, PosOK, MarOK, LevOK
    <1>2. AgreeInv => ModesAgree
        BY DEF AgreeInv, ModesAgree, AllOK, PosOK, MarOK, LevOK
    <1> QED BY <1>1, <1>2, AgreeKept, TypesHold, PTL DEF Spec
================================================================================
