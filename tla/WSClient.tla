-------------------------------- MODULE WSClient --------------------------------
(* The one WebSocket connection all symbols share                               *)
(* (internal/datafeed/ws_client.go). The four streams of a symbol come and go   *)
(* together, so a symbol stands for them; a handler is named by the symbol      *)
(* state whose channels it writes to.                                           *)
EXTENDS Naturals

CONSTANTS
    Syms,           \* the symbols
    MaxMade         \* bound: symbol states made in a behaviour

Handlers == [Syms -> 0..MaxMade]        \* 0: no handler

VARIABLES
    streams,    \* WSClient.streams
    handlers,   \* WSClient.handlers
    run,        \* Run: "waiting" for the next connect, "dialling", "dialled", "open"
    dialled,    \* connect's copy of the streams: what the connection carries
    cut,        \* the open connection was closed by SetStreams
    raced       \* history: streams replaced between the copy and conn's installation

wsVars == <<streams, handlers, run, dialled, cut, raced>>

WSInit ==
    /\ streams = {}
    /\ handlers = [s \in Syms |-> 0]
    /\ run = "waiting" /\ dialled = {}
    /\ cut = FALSE /\ raced = FALSE

(* Mutants of SetStreams: the connection is not closed; handlers are replaced   *)
(* with the streams only.                                                       *)
MutSetStreamsOpen(hs) ==
    LET new == {s \in Syms : hs[s] # 0}
    IN  /\ handlers' = hs
        /\ streams' = IF new \subseteq streams THEN streams ELSE new
        /\ UNCHANGED <<run, dialled, cut, raced>>

MutSetStreamsKeep(hs) ==
    LET new == {s \in Syms : hs[s] # 0}
    IN  IF new \subseteq streams THEN UNCHANGED wsVars
        ELSE /\ streams' = new /\ handlers' = hs
             /\ cut' = (cut \/ run = "open")
             /\ raced' = (raced \/ run \in {"dialling", "dialled"})
             /\ UNCHANGED <<run, dialled>>

(* Streams already subscribed are kept and only the handlers change; otherwise  *)
(* the connection, if there is one, is closed. c.conn is nil or a connection    *)
(* already closed while connect is not in its read loop.                        *)
SetStreams(hs) ==
    LET new == {s \in Syms : hs[s] # 0}
    IN  /\ handlers' = hs
        /\ IF new \subseteq streams THEN UNCHANGED <<streams, cut, raced>>
           ELSE /\ streams' = new
                /\ cut' = (cut \/ run = "open")
                /\ raced' = (raced \/ run \in {"dialling", "dialled"})
        /\ UNCHANGED <<run, dialled>>

(* connect copies the streams; with none it waits and Run calls it again.       *)
Copy ==
    /\ run = "waiting" /\ streams # {}
    /\ run' = "dialling" /\ dialled' = streams
    /\ UNCHANGED <<streams, handlers, cut, raced>>

(* connect returns, and its copy is gone.                                       *)
Return == run' = "waiting" /\ dialled' = {} /\ raced' = FALSE

(* The handshake. Run backs off and retries after a failure.                    *)
DialFails ==
    /\ run = "dialling" /\ Return
    /\ UNCHANGED <<streams, handlers, cut>>

DialSucceeds ==
    /\ run = "dialling" /\ run' = "dialled"
    /\ UNCHANGED <<streams, handlers, dialled, cut, raced>>

(* c.conn is set under the mutex: from here on SetStreams can close it.         *)
Install ==
    /\ run = "dialled" /\ run' = "open"
    /\ UNCHANGED <<streams, handlers, dialled, cut, raced>>

(* Mutant of Disconnect: the end of a connection closed here goes unnoticed.    *)
MutDisconnectUnnoticed ==
    /\ run = "open" /\ ~cut /\ Return
    /\ UNCHANGED <<streams, handlers, cut>>

(* The read loop ends: closed by SetStreams, by the exchange, or a failed ping. *)
Disconnect ==
    /\ run = "open" /\ Return /\ cut' = FALSE
    /\ UNCHANGED <<streams, handlers>>

WSRun == Copy \/ DialFails \/ DialSucceeds \/ Install \/ Disconnect

(* Types of the client's state; only an open connection can have been cut, and  *)
(* only connect has a copy.                                                     *)
WSTypeOK ==
    /\ streams \subseteq Syms /\ dialled \subseteq Syms
    /\ handlers \in Handlers
    /\ run \in {"waiting", "dialling", "dialled", "open"}
    /\ cut \in BOOLEAN /\ raced \in BOOLEAN
    /\ cut => run = "open"
    /\ run = "waiting" => dialled = {}
================================================================================
