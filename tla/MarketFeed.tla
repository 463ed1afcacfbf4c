------------------------------- MODULE MarketFeed ------------------------------
(* The way of a market message from the exchange to the symbol's trackers: the  *)
(* read pump of a connection and connect's loop (internal/datafeed/             *)
(* ws_client.go), the handler that parses it (normalizer.go), the channel of    *)
(* its stream and the goroutine that consumes it (cmd/watcher.go). A message is *)
(* its number within its stream and what its parser makes of it.                *)
EXTENDS Naturals, Sequences

CONSTANTS
    PumpCap,    \* msgCh: 256 messages
    ChanCap,    \* the stream channels: 8192, 1024, 128 and 64
    MaxConns,   \* bound: connections made
    MaxSent     \* bound: messages the exchange sends

Streams == {"aggTrade", "depth", "markPrice", "kline"}

ASSUME CapAssumption == PumpCap \in Nat \ {0} /\ ChanCap \in [Streams -> Nat \ {0}]
ASSUME SentAssumption == MaxConns \in Nat /\ MaxSent \in Nat

(* good; a structure the parser refuses (a field that is missing or of another  *)
(* type); a price or quantity string that is no number.                         *)
Forms == {"good", "garbled", "no number"}

(* closed: a kline whose candle has ended.                                      *)
Message == [stream : Streams, n : Nat, form : Forms, closed : BOOLEAN]

Conns == 1..MaxConns

VARIABLES
    conn,       \* connections made so far
    up,         \* connect is in its loop, for the last of them
    closed,     \* connections closed by either side
    pump,       \* readPump of each: "none", "reading", "holding" a message, "done"
    held,       \* the message it holds
    msgCh,      \* its channel to connect's loop
    chan,       \* the channels to the consumers
    sent,       \* messages sent by the exchange, per stream
    seen,       \* the last one consumed
    prevClose,  \* symState.prevClose: the candle it is of, and whether it is zero
    priceMom,   \* symState.priceMom: the two candles it is the change between
    pinged,     \* history: the connections given up because a ping failed
    ended,      \* history: the candles that have ended, and their messages' form
    lost        \* history: candles that ended and never came through

connVars == <<conn, up, closed, pump, held, msgCh, pinged>>
trackVars == <<seen, prevClose, priceMom>>
vars == <<connVars, chan, sent, ended, trackVars, lost>>

NoCandle == [n |-> 0, zero |-> TRUE]
NoMom == [from |-> 0, to |-> 0]

Init ==
    /\ conn = 0 /\ up = FALSE /\ closed = {} /\ pinged = {}
    /\ pump = [c \in Conns |-> "none"]
    /\ held = [c \in Conns |-> <<>>]
    /\ msgCh = [c \in Conns |-> <<>>]
    /\ chan = [s \in Streams |-> <<>>]
    /\ sent = [s \in Streams |-> 0] /\ seen = [s \in Streams |-> 0]
    /\ prevClose = NoCandle /\ priceMom = NoMom
    /\ ended = {} /\ lost = {}

Lose(m) == lost' = IF m.stream = "kline" /\ m.closed THEN lost \union {m.n} ELSE lost

--------------------------------------------------------------------------------
(* connect dials and starts the pump on a channel of its own.                   *)
Connect ==
    /\ ~up /\ conn < MaxConns
    /\ conn' = conn + 1 /\ up' = TRUE
    /\ pump' = [pump EXCEPT ![conn + 1] = "reading"]
    /\ UNCHANGED <<closed, held, msgCh, pinged, chan, sent, ended, trackVars, lost>>

(* The exchange's next message, where the bound leaves one.                     *)
Sends(m) ==
    /\ m.n = sent[m.stream] + 1
    /\ sent["aggTrade"] + sent["depth"] + sent["markPrice"] + sent["kline"] < MaxSent
    /\ m.closed => m.stream = "kline"
    /\ sent' = [sent EXCEPT ![m.stream] = m.n]
    /\ ended' = IF m.closed THEN ended \union {[n |-> m.n, form |-> m.form]} ELSE ended

(* ReadMessage returns it. A closed connection may still have some buffered.    *)
Read(c, m) ==
    /\ pump[c] = "reading" /\ Sends(m)
    /\ pump' = [pump EXCEPT ![c] = "holding"]
    /\ held' = [held EXCEPT ![c] = <<m>>]
    /\ UNCHANGED <<conn, up, closed, msgCh, pinged, chan, trackVars, lost>>

(* Nobody reads it: there is no connection, or it dies on the way.              *)
Skip(m) ==
    /\ Sends(m) /\ Lose(m)
    /\ UNCHANGED <<connVars, chan, trackVars>>

(* Mutant of Push: the send does not wait for room.                             *)
MutPushOver(c) ==
    /\ pump[c] = "holding"
    /\ msgCh' = [msgCh EXCEPT ![c] = @ \o held[c]]
    /\ held' = [held EXCEPT ![c] = <<>>]
    /\ pump' = [pump EXCEPT ![c] = "reading"]
    /\ UNCHANGED <<conn, up, closed, pinged, chan, sent, ended, trackVars, lost>>

(* The pump's send blocks while the channel is full.                            *)
Push(c) ==
    /\ pump[c] = "holding" /\ Len(msgCh[c]) < PumpCap
    /\ msgCh' = [msgCh EXCEPT ![c] = @ \o held[c]]
    /\ held' = [held EXCEPT ![c] = <<>>]
    /\ pump' = [pump EXCEPT ![c] = "reading"]
    /\ UNCHANGED <<conn, up, closed, pinged, chan, sent, ended, trackVars, lost>>

(* ReadMessage fails, and the pump closes its channel.                          *)
PumpEnds(c) ==
    /\ pump[c] = "reading" /\ c \in closed
    /\ pump' = [pump EXCEPT ![c] = "done"]
    /\ UNCHANGED <<conn, up, closed, held, msgCh, pinged, chan, sent, ended, trackVars, lost>>

(* The exchange or SetStreams closes the connection.                            *)
Break ==
    /\ up /\ conn \notin closed
    /\ closed' = closed \union {conn}
    /\ UNCHANGED <<conn, up, pump, held, msgCh, pinged, chan, sent, ended, trackVars, lost>>

(* Mutant of ChannelClosed: the loop ends with the pump, not with its channel.  *)
MutChannelClosed ==
    /\ up /\ pump[conn] = "done"
    /\ up' = FALSE /\ closed' = closed \union {conn}
    /\ UNCHANGED <<conn, pump, held, msgCh, pinged, chan, sent, ended, trackVars, lost>>

(* connect returns once the channel is closed and empty.                        *)
ChannelClosed ==
    /\ up /\ pump[conn] = "done" /\ msgCh[conn] = <<>>
    /\ up' = FALSE /\ closed' = closed \union {conn}
    /\ UNCHANGED <<conn, pump, held, msgCh, pinged, chan, sent, ended, trackVars, lost>>

(* Mutant of PingFails: connect returns without closing its connection.         *)
MutPingFailsOpen ==
    /\ up /\ up' = FALSE
    /\ pinged' = pinged \union {conn}
    /\ UNCHANGED <<conn, closed, pump, held, msgCh, chan, sent, ended, trackVars, lost>>

(* A ping cannot be written: connect returns, which closes the connection, and  *)
(* nobody reads the channel any more.                                           *)
PingFails ==
    /\ up /\ up' = FALSE
    /\ closed' = closed \union {conn} /\ pinged' = pinged \union {conn}
    /\ UNCHANGED <<conn, pump, held, msgCh, chan, sent, ended, trackVars, lost>>

--------------------------------------------------------------------------------
(* The select with a default: a full channel drops the message that comes.      *)
Offer(m) ==
    IF Len(chan[m.stream]) < ChanCap[m.stream]
    THEN chan' = [chan EXCEPT ![m.stream] = Append(@, m)] /\ UNCHANGED lost
    ELSE UNCHANGED chan /\ Lose(m)

Refuse(m) == UNCHANGED chan /\ Lose(m)

(* The four handlers: what each does with a number that does not parse differs. *)
AggTradeHandler(m) ==
    /\ m.stream = "aggTrade"
    /\ IF m.form = "good" THEN Offer(m) ELSE Refuse(m)

(* A level that does not parse is left out of the update.                       *)
DepthHandler(m) ==
    /\ m.stream = "depth"
    /\ IF m.form = "garbled" THEN Refuse(m) ELSE Offer(m)

(* A price that does not parse is zero.                                         *)
MarkPriceHandler(m) ==
    /\ m.stream = "markPrice"
    /\ IF m.form = "garbled" THEN Refuse(m) ELSE Offer(m)

KlineHandler(m) ==
    /\ m.stream = "kline"
    /\ IF m.form = "garbled" THEN Refuse(m) ELSE Offer(m)

(* Mutant of Source: one channel for all pumps.                                 *)
MutSource == CHOOSE c \in Conns : msgCh[c] # <<>> \/ c = conn

(* The channel connect's loop reads: that of its own connection.                *)
Source == conn

(* The loop takes a message from the pump and calls its stream's handler.       *)
Dispatch ==
    /\ up /\ msgCh[Source] # <<>>
    /\ LET m == Head(msgCh[Source])
       IN  \/ AggTradeHandler(m)
           \/ DepthHandler(m)
           \/ MarkPriceHandler(m)
           \/ KlineHandler(m)
    /\ msgCh' = [msgCh EXCEPT ![Source] = Tail(@)]
    /\ UNCHANGED <<conn, up, closed, pump, held, pinged, sent, ended, trackVars>>

--------------------------------------------------------------------------------
(* A consumer takes the next message of its stream.                             *)
Take(s) ==
    /\ chan[s] # <<>>
    /\ chan' = [chan EXCEPT ![s] = Tail(@)]
    /\ seen' = [seen EXCEPT ![s] = Head(chan[s]).n]
    /\ UNCHANGED <<connVars, sent, ended, lost>>

TakeTrade == Take("aggTrade") /\ UNCHANGED <<prevClose, priceMom>>
TakeDepth == Take("depth") /\ UNCHANGED <<prevClose, priceMom>>
TakeMark == Take("markPrice") /\ UNCHANGED <<prevClose, priceMom>>

(* Mutant of TakeKline: candles that have not ended count as well.              *)
MutTakeKlineOpen ==
    /\ Take("kline")
    /\ LET k == Head(chan["kline"])
       IN  /\ prevClose' = [n |-> k.n, zero |-> k.form # "good"]
           /\ priceMom' = IF prevClose.zero THEN priceMom
                          ELSE [from |-> prevClose.n, to |-> k.n]

(* A candle that has ended gives the momentum against the one before, if that   *)
(* one's close is not zero.                                                     *)
TakeKline ==
    /\ Take("kline")
    /\ LET k == Head(chan["kline"])
       IN  IF ~k.closed THEN UNCHANGED <<prevClose, priceMom>>
           ELSE /\ prevClose' = [n |-> k.n, zero |-> k.form # "good"]
                /\ priceMom' = IF prevClose.zero THEN priceMom
                               ELSE [from |-> prevClose.n, to |-> k.n]

--------------------------------------------------------------------------------
NextMessage(s) == {m \in [stream : {s}, n : {sent[s] + 1}, form : Forms, closed : BOOLEAN] :
                      m.closed => s = "kline"}

Next ==
    \/ Connect \/ Break \/ ChannelClosed \/ PingFails
    \/ \E s \in Streams : \E m \in NextMessage(s) : Skip(m) \/ \E c \in Conns : Read(c, m)
    \/ \E c \in Conns : Push(c) \/ PumpEnds(c)
    \/ Dispatch
    \/ TakeTrade \/ TakeDepth \/ TakeMark \/ TakeKline

Spec == Init /\ [][Next]_vars

(* A pump is a goroutine: it is not held up except by a full channel, and a     *)
(* read of a closed connection returns.                                         *)
FairSpec == Spec /\ \A c \in Conns : WF_vars(Push(c)) /\ WF_vars(PumpEnds(c))

--------------------------------------------------------------------------------
Over(c) == c \in 1..conn /\ ~(up /\ c = conn)

Stuck(c) == pump[c] = "holding" /\ Len(msgCh[c]) = PumpCap

ConnTypes ==
    /\ conn \in 0..MaxConns /\ up \in BOOLEAN /\ (up => conn > 0)
    /\ closed \subseteq 1..conn /\ pinged \subseteq 1..conn
    /\ pump \in [Conns -> {"none", "reading", "holding", "done"}]
    /\ held \in [Conns -> Seq(Message)]
    /\ msgCh \in [Conns -> Seq(Message)]
    /\ \A c \in Conns : /\ pump[c] = "none" <=> c > conn
                        /\ Len(held[c]) = IF pump[c] = "holding" THEN 1 ELSE 0
                        /\ Len(msgCh[c]) <= PumpCap
                        /\ pump[c] = "done" => c \in closed

ChanTypes ==
    /\ chan \in [Streams -> Seq(Message)]
    /\ \A s \in Streams : Len(chan[s]) <= ChanCap[s]
    /\ sent \in [Streams -> Nat]
    /\ ended \subseteq [n : Nat, form : Forms] /\ lost \subseteq Nat

TrackTypes ==
    /\ seen \in [Streams -> Nat]
    /\ prevClose \in [n : Nat, zero : BOOLEAN] /\ priceMom \in [from : Nat, to : Nat]

(* Types; a pump holds a message exactly when it says so, and no channel holds  *)
(* more than its capacity.                                                      *)
TypeOK == ConnTypes /\ ChanTypes /\ TrackTypes

(* What a pump has read is dispatched before connect dials again, unless a ping *)
(* failed: the end of a connection is noticed through its channel.              *)
ReadIsDispatched ==
    \A c \in Conns : Over(c) /\ c \notin pinged => pump[c] = "done" /\ msgCh[c] = <<>>

(* A candle's message that stays for ever with a connection that was given up.  *)
Abandoned(n) ==
    \E c \in pinged : \E i \in 1..Len(msgCh[c] \o held[c]) :
        LET m == (msgCh[c] \o held[c])[i] IN m.stream = "kline" /\ m.n = n

(* The one-minute momentum is between the closes of two candles, the first of   *)
(* them not the zero of a price that did not parse, and any candle that ended   *)
(* between the two was lost: the engines never get a momentum that silently     *)
(* spans a candle the program has seen.                                         *)
MomentumAdjacent ==
    priceMom # NoMom =>
        /\ priceMom.from < priceMom.to
        /\ [n |-> priceMom.from, form |-> "good"] \in ended
        /\ \E e \in ended : e.n = priceMom.to
        /\ \A e \in ended : priceMom.from < e.n /\ e.n < priceMom.to
                                => e.n \in lost \/ Abandoned(e.n)

(* Every connection that connect is done with lets go of its goroutine, or that *)
(* goroutine is stuck for ever on the full channel nobody reads.                *)
PumpsEnd == \A c \in Conns : Over(c) ~> pump[c] = "done" \/ Stuck(c)

(* The consumers see a feed that loses messages and does nothing worse.         *)
Feed == INSTANCE LossyFeed WITH got <- seen
ImplementsLossyFeed == Feed!Spec
================================================================================
