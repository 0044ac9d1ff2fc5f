------------------------------- MODULE Gateway -------------------------------
(***************************************************************************)
(* ocpp-gateway: the WebSocket-to-MQTT bridge.                             *)
(*                                                                         *)
(* Every WebSocket session has a handler goroutine (WSHandler: subscribe,   *)
(* register, read frames, disconnect) and a writer goroutine                *)
(* (pumpOutbound).  Frames for charge points arrive through the callback    *)
(* of the single MQTT client, which paho runs one message at a time.  The   *)
(* goroutines share the registry, one entry per charge point id, under a    *)
(* mutex; Register and Disconnect take an entry out under the mutex and     *)
(* tear the connection down after releasing it.                            *)
(*                                                                         *)
(* A session stands for its Connection object as well.  CloseOnce is not    *)
(* modelled: TeardownOwned says that two goroutines never tear down the     *)
(* same connection, so that it is never contended.                         *)
(*                                                                         *)
(* External: the MQTT broker and the paho client (one subscription per      *)
(* topic and client; QoS 0, a frame may be lost; a call on a broken link    *)
(* fails or is skipped), and the peers at the other end of the sockets.     *)
(***************************************************************************)
EXTENDS Integers, Sequences, FiniteSets

CONSTANTS
    Sessions,      \* WebSocket connections, each used once
    ChargePoints,  \* charge point ids in the request path
    OutCap,        \* capacity of Connection.Outbound (64 in the code)
    MaxMsgs,       \* bound: frames published to one /out topic
    LinkFaults,    \* may the MQTT link go down, may calls on it time out
    None

ASSUME GatewayAssumption ==
    /\ None \notin Sessions
    /\ None \notin ChargePoints
    /\ OutCap \in Nat \ {0}
    /\ MaxMsgs \in Nat
    /\ LinkFaults \in BOOLEAN

VARIABLES
    registry,    \* Registry.conns: charge point -> session or None
    cp,          \* charge point id of a session
    pc,          \* where the handler goroutine is
    evictee,     \* the connection this session's Register took out, or None
    victim,      \* the connection this session's Disconnect took out, or None
    closed,      \* is Connection.closed closed
    wsOpen,      \* is the session's WebSocket usable
    writer,      \* pumpOutbound: "off", "running" or "done"
    outbound,    \* Connection.Outbound
    subscribed,  \* does the MQTT client hold a subscription to the /out topic
    link,        \* PahoBroker.IsConnected
    dispatch,    \* message callbacks being run: set of [conn, msg]
    msgs,        \* frames published to the /out topic of a charge point so far
    written,     \* frames written to the session's WebSocket, in order
    late         \* history: frames published after the session was closed

regVars == <<registry, cp, evictee, victim, closed>>
mqttVars == <<subscribed, link>>
outVars == <<writer, outbound, dispatch, msgs, written>>
vars == <<regVars, pc, wsOpen, mqttVars, outVars, late>>

-----------------------------------------------------------------------------
\* Handler states before the connection is in the registry.
Unregistered == {"idle", "refused", "subscribe", "register", "failed"}

PCs == Unregistered \cup
       {"evictUnsub", "evictClose", "reading", "publish", "check",
        "disconnect", "discUnsub", "discClose", "done"}

Msgs == 1..MaxMsgs

TypeOK ==
    /\ registry \in [ChargePoints -> Sessions \cup {None}]
    /\ cp \in [Sessions -> ChargePoints \cup {None}]
    /\ pc \in [Sessions -> PCs]
    /\ evictee \in [Sessions -> Sessions \cup {None}]
    /\ victim \in [Sessions -> Sessions \cup {None}]
    /\ closed \in [Sessions -> BOOLEAN]
    /\ wsOpen \in [Sessions -> BOOLEAN]
    /\ writer \in [Sessions -> {"off", "running", "done"}]
    /\ outbound \in [Sessions -> Seq(Msgs)]
    /\ \A s \in Sessions : Len(outbound[s]) <= OutCap
    /\ subscribed \in [ChargePoints -> BOOLEAN]
    /\ link \in BOOLEAN
    /\ dispatch \subseteq [conn : Sessions, msg : Msgs]
    /\ msgs \in [ChargePoints -> 0..MaxMsgs]
    /\ written \in [Sessions -> Seq(Msgs)]
    /\ late \in [Sessions -> Nat]

Init ==
    /\ registry = [c \in ChargePoints |-> None]
    /\ cp = [s \in Sessions |-> None]
    /\ pc = [s \in Sessions |-> "idle"]
    /\ evictee = [s \in Sessions |-> None]
    /\ victim = [s \in Sessions |-> None]
    /\ closed = [s \in Sessions |-> FALSE]
    /\ wsOpen = [s \in Sessions |-> FALSE]
    /\ writer = [s \in Sessions |-> "off"]
    /\ outbound = [s \in Sessions |-> <<>>]
    /\ subscribed = [c \in ChargePoints |-> FALSE]
    /\ link = TRUE
    /\ dispatch = {}
    /\ msgs = [c \in ChargePoints |-> 0]
    /\ written = [s \in Sessions |-> <<>>]
    /\ late = [s \in Sessions |-> 0]

-----------------------------------------------------------------------------
(* WSHandler: connecting                                                   *)

\* extractChargePointID finds no usable id: 400, no upgrade.
Refuse(s) ==
    /\ pc[s] = "idle"
    /\ pc' = [pc EXCEPT ![s] = "refused"]
    /\ UNCHANGED <<regVars, wsOpen, mqttVars, outVars, late>>

\* The request is upgraded; Gateway.Connect is called.
Upgrade(s, c) ==
    /\ pc[s] = "idle"
    /\ pc' = [pc EXCEPT ![s] = "subscribe"]
    /\ cp' = [cp EXCEPT ![s] = c]
    /\ wsOpen' = [wsOpen EXCEPT ![s] = TRUE]
    /\ UNCHANGED <<registry, evictee, victim, closed, mqttVars, outVars, late>>

\* PahoBroker.Subscribe succeeds.  On a broken link it only remembers the handler.
Subscribe(s) ==
    /\ pc[s] = "subscribe"
    /\ subscribed' = [subscribed EXCEPT ![cp[s]] = @ \/ link]
    /\ pc' = [pc EXCEPT ![s] = "register"]
    /\ UNCHANGED <<regVars, wsOpen, link, outVars, late>>

\* PahoBroker.Subscribe times out or fails (its effect at the broker unknown), or
\* the client is reconnecting; the handler closes the WebSocket and returns
\* without a Disconnect.
SubscribeFails(s) ==
    /\ LinkFaults
    /\ pc[s] = "subscribe"
    /\ \E effect \in {FALSE, link} :
          subscribed' = [subscribed EXCEPT ![cp[s]] = @ \/ effect]
    /\ pc' = [pc EXCEPT ![s] = "failed"]
    /\ wsOpen' = [wsOpen EXCEPT ![s] = FALSE]
    /\ UNCHANGED <<regVars, link, outVars, late>>

\* Registry.Register under the mutex: s replaces the entry of its charge point.
\* With nothing to evict Connect returns: the writer is started, reading begins.
Register(s) ==
    /\ pc[s] = "register"
    /\ registry' = [registry EXCEPT ![cp[s]] = s]
    /\ evictee' = [evictee EXCEPT ![s] = registry[cp[s]]]
    /\ IF registry[cp[s]] = None
       THEN /\ pc' = [pc EXCEPT ![s] = "reading"]
            /\ writer' = [writer EXCEPT ![s] = "running"]
       ELSE /\ pc' = [pc EXCEPT ![s] = "evictUnsub"]
            /\ UNCHANGED writer
    /\ UNCHANGED <<cp, victim, closed, wsOpen, mqttVars, outbound, dispatch,
                   msgs, written, late>>

\* Connection.Unsubscribe: drops the subscription of the topic, whoever made
\* it; on a broken link paho is not called.
Unsubscribe(c) ==
    subscribed' = [subscribed EXCEPT ![c] = @ /\ ~link]

\* Register, after the mutex: existing.Unsubscribe().
EvictUnsubscribe(s) ==
    /\ pc[s] = "evictUnsub"
    /\ Unsubscribe(cp[evictee[s]])
    /\ pc' = [pc EXCEPT ![s] = "evictClose"]
    /\ UNCHANGED <<regVars, wsOpen, link, outVars, late>>

\* Register: close(existing.closed).  Connect returns.
EvictClose(s) ==
    /\ pc[s] = "evictClose"
    /\ closed' = [closed EXCEPT ![evictee[s]] = TRUE]
    /\ pc' = [pc EXCEPT ![s] = "reading"]
    /\ writer' = [writer EXCEPT ![s] = "running"]
    /\ UNCHANGED <<registry, cp, evictee, victim, wsOpen, mqttVars, outbound,
                   dispatch, msgs, written, late>>

-----------------------------------------------------------------------------
(* pumpInbound                                                             *)

\* A text frame is read.
ReadFrame(s) ==
    /\ pc[s] = "reading"
    /\ wsOpen[s]
    /\ pc' = [pc EXCEPT ![s] = "publish"]
    /\ UNCHANGED <<regVars, wsOpen, mqttVars, outVars, late>>

\* Mutated form of ReadFails: the handler returns without its deferred Disconnect.
ReadFailsNoDisconnect(s) ==
    /\ pc[s] = "reading"
    /\ pc' = [pc EXCEPT ![s] = "done"]
    /\ wsOpen' = [wsOpen EXCEPT ![s] = FALSE]
    /\ UNCHANGED <<regVars, mqttVars, outVars, late>>

\* The read fails, or the frame is not a text frame: the deferred conn.Close().
ReadFails(s) ==
    /\ pc[s] = "reading"
    /\ pc' = [pc EXCEPT ![s] = "disconnect"]
    /\ wsOpen' = [wsOpen EXCEPT ![s] = FALSE]
    /\ UNCHANGED <<regVars, mqttVars, outVars, late>>

\* PublishInbound: the charge point has an entry (not necessarily s) and the
\* MQTT client takes the frame (while it is reconnecting too, and loses it then).
Publish(s) ==
    /\ pc[s] = "publish"
    /\ registry[cp[s]] # None
    /\ late' = [late EXCEPT ![s] = IF closed[s] THEN @ + 1 ELSE @]
    /\ pc' = [pc EXCEPT ![s] = "check"]
    /\ UNCHANGED <<regVars, wsOpen, mqttVars, outVars>>

\* PublishInbound: no entry (ErrNoSuchChargePoint), a broken link, or a publish
\* that times out.  pumpInbound returns.
PublishFails(s) ==
    /\ pc[s] = "publish"
    /\ registry[cp[s]] = None \/ ~link \/ LinkFaults
    /\ pc' = [pc EXCEPT ![s] = "disconnect"]
    /\ wsOpen' = [wsOpen EXCEPT ![s] = FALSE]
    /\ UNCHANGED <<regVars, mqttVars, outVars, late>>

\* Mutated form of CheckClosed: reading goes on without looking at Closed().
CheckNothing(s) ==
    /\ pc[s] = "check"
    /\ pc' = [pc EXCEPT ![s] = "reading"]
    /\ UNCHANGED <<regVars, wsOpen, mqttVars, outVars, late>>

\* The select after a publish: a closed connection stops reading.
CheckClosed(s) ==
    /\ pc[s] = "check"
    /\ IF closed[s]
       THEN /\ pc' = [pc EXCEPT ![s] = "disconnect"]
            /\ wsOpen' = [wsOpen EXCEPT ![s] = FALSE]
       ELSE /\ pc' = [pc EXCEPT ![s] = "reading"]
            /\ UNCHANGED wsOpen
    /\ UNCHANGED <<regVars, mqttVars, outVars, late>>

-----------------------------------------------------------------------------
(* The deferred Gateway.Disconnect(cpID)                                   *)

\* Mutated form of Disconnect: the entry is looked up but not deleted.
DisconnectKeepsEntry(s) ==
    /\ pc[s] = "disconnect"
    /\ victim' = [victim EXCEPT ![s] = registry[cp[s]]]
    /\ pc' = [pc EXCEPT ![s] = IF registry[cp[s]] = None THEN "done" ELSE "discUnsub"]
    /\ UNCHANGED <<registry, cp, evictee, closed, wsOpen, mqttVars, outVars, late>>

\* Registry.Disconnect under the mutex: takes out the entry of the charge
\* point id, whichever session it is; no entry, nothing to do.
Disconnect(s) ==
    /\ pc[s] = "disconnect"
    /\ registry' = [registry EXCEPT ![cp[s]] = None]
    /\ victim' = [victim EXCEPT ![s] = registry[cp[s]]]
    /\ pc' = [pc EXCEPT ![s] = IF registry[cp[s]] = None THEN "done" ELSE "discUnsub"]
    /\ UNCHANGED <<cp, evictee, closed, wsOpen, mqttVars, outVars, late>>

\* Registry.Disconnect, after the mutex: c.Unsubscribe().
DisconnectUnsubscribe(s) ==
    /\ pc[s] = "discUnsub"
    /\ Unsubscribe(cp[victim[s]])
    /\ pc' = [pc EXCEPT ![s] = "discClose"]
    /\ UNCHANGED <<regVars, wsOpen, link, outVars, late>>

\* Registry.Disconnect: close(c.closed).
DisconnectClose(s) ==
    /\ pc[s] = "discClose"
    /\ closed' = [closed EXCEPT ![victim[s]] = TRUE]
    /\ pc' = [pc EXCEPT ![s] = "done"]
    /\ UNCHANGED <<registry, cp, evictee, victim, wsOpen, mqttVars, outVars, late>>

-----------------------------------------------------------------------------
(* Frames to the charge point                                              *)

\* Mutated form of Deliver: paho with OrderMatters off, a callback per message.
DeliverUnordered(c) ==
    /\ subscribed[c] /\ link
    /\ msgs[c] < MaxMsgs
    /\ msgs' = [msgs EXCEPT ![c] = @ + 1]
    /\ dispatch' = dispatch \cup IF registry[c] = None THEN {}
                                ELSE {[conn |-> registry[c], msg |-> msgs[c] + 1]}
    /\ UNCHANGED <<regVars, pc, wsOpen, mqttVars, writer, outbound, written, late>>

\* The broker delivers the next frame of an /out topic and paho runs the
\* callback: a lookup, and the frame is dropped if there is no entry.
Deliver(c) ==
    /\ dispatch = {}
    /\ subscribed[c] /\ link
    /\ msgs[c] < MaxMsgs
    /\ msgs' = [msgs EXCEPT ![c] = @ + 1]
    /\ dispatch' = IF registry[c] = None THEN {}
                   ELSE {[conn |-> registry[c], msg |-> msgs[c] + 1]}
    /\ UNCHANGED <<regVars, pc, wsOpen, mqttVars, writer, outbound, written, late>>

\* A frame published while there is no subscription or no link, or lost (QoS 0).
Lose(c) ==
    /\ msgs[c] < MaxMsgs
    /\ msgs' = [msgs EXCEPT ![c] = @ + 1]
    /\ UNCHANGED <<regVars, pc, wsOpen, mqttVars, writer, outbound, dispatch,
                   written, late>>

\* Mutated form of Push: the channel takes one frame too many.
PushOverCapacity(d) ==
    /\ Len(outbound[d.conn]) <= OutCap
    /\ outbound' = [outbound EXCEPT ![d.conn] = Append(@, d.msg)]
    /\ dispatch' = dispatch \ {d}
    /\ UNCHANGED <<regVars, pc, wsOpen, mqttVars, writer, msgs, written, late>>

\* The callback's select: the frame goes into Outbound when there is room.
Push(d) ==
    /\ Len(outbound[d.conn]) < OutCap
    /\ outbound' = [outbound EXCEPT ![d.conn] = Append(@, d.msg)]
    /\ dispatch' = dispatch \ {d}
    /\ UNCHANGED <<regVars, pc, wsOpen, mqttVars, writer, msgs, written, late>>

\* Mutated form of PushAborted: the callback sends without selecting on Closed().
PushNeverAborted(d) == FALSE /\ UNCHANGED vars

\* The callback's select: the connection was closed, the frame is dropped.
PushAborted(d) ==
    /\ closed[d.conn]
    /\ dispatch' = dispatch \ {d}
    /\ UNCHANGED <<regVars, pc, wsOpen, mqttVars, writer, outbound, msgs, written, late>>

\* pumpOutbound takes a frame and writes it.
WriteFrame(s) ==
    /\ writer[s] = "running"
    /\ outbound[s] # <<>>
    /\ wsOpen[s]
    /\ outbound' = [outbound EXCEPT ![s] = Tail(@)]
    /\ written' = [written EXCEPT ![s] = Append(@, Head(outbound[s]))]
    /\ UNCHANGED <<regVars, pc, wsOpen, mqttVars, writer, dispatch, msgs, late>>

\* The write fails (socket closed, or the 60 s deadline): the deferred conn.Close().
WriteFails(s) ==
    /\ writer[s] = "running"
    /\ outbound[s] # <<>>
    /\ outbound' = [outbound EXCEPT ![s] = Tail(@)]
    /\ writer' = [writer EXCEPT ![s] = "done"]
    /\ wsOpen' = [wsOpen EXCEPT ![s] = FALSE]
    /\ UNCHANGED <<regVars, pc, mqttVars, dispatch, msgs, written, late>>

\* Mutated form of WriterStops: the writer only ranges over Outbound.
WriterNeverStops(s) == FALSE /\ UNCHANGED vars

\* pumpOutbound sees Closed(): the deferred conn.Close().
WriterStops(s) ==
    /\ writer[s] = "running"
    /\ closed[s]
    /\ writer' = [writer EXCEPT ![s] = "done"]
    /\ wsOpen' = [wsOpen EXCEPT ![s] = FALSE]
    /\ UNCHANGED <<regVars, pc, mqttVars, outbound, dispatch, msgs, written, late>>

-----------------------------------------------------------------------------
(* The environment                                                         *)

\* The peer closes the WebSocket or the network drops it.
PeerCloses(s) ==
    /\ wsOpen[s]
    /\ wsOpen' = [wsOpen EXCEPT ![s] = FALSE]
    /\ UNCHANGED <<regVars, pc, mqttVars, outVars, late>>

\* The MQTT link goes down and comes back; the broker keeps the client's
\* subscriptions (CleanSession is false).
LinkChanges ==
    /\ LinkFaults
    /\ link' = ~link
    /\ UNCHANGED <<regVars, pc, wsOpen, subscribed, outVars, late>>

-----------------------------------------------------------------------------
\* What the handler goroutine does on its own.
HandlerStep(s) ==
    \/ Subscribe(s) \/ SubscribeFails(s)
    \/ Register(s) \/ EvictUnsubscribe(s) \/ EvictClose(s)
    \/ (~wsOpen[s] /\ ReadFails(s))
    \/ Publish(s) \/ PublishFails(s) \/ CheckClosed(s)
    \/ Disconnect(s) \/ DisconnectUnsubscribe(s) \/ DisconnectClose(s)

WriterStep(s) == WriteFrame(s) \/ WriteFails(s) \/ WriterStops(s)

DispatchStep == \E d \in dispatch : Push(d) \/ PushAborted(d)

\* What the peers, the broker and the network decide.
PeerStep(s) ==
    \/ Refuse(s)
    \/ \E c \in ChargePoints : Upgrade(s, c)
    \/ ReadFrame(s)
    \/ (wsOpen[s] /\ ReadFails(s))
    \/ PeerCloses(s)

BrokerStep ==
    \/ \E c \in ChargePoints : Deliver(c) \/ Lose(c)
    \/ LinkChanges

Next ==
    \/ \E s \in Sessions : HandlerStep(s) \/ WriterStep(s) \/ PeerStep(s)
    \/ DispatchStep
    \/ BrokerStep

Spec == Init /\ [][Next]_vars

\* Goroutines that can run are scheduled; peers, broker and link promise nothing.
Fairness ==
    /\ \A s \in Sessions : WF_vars(HandlerStep(s)) /\ WF_vars(WriterStep(s))
    /\ WF_vars(DispatchStep)

FairSpec == Spec /\ Fairness

-----------------------------------------------------------------------------
(* Properties that hold                                                    *)

Registered(s) == pc[s] \notin Unregistered

\* Goroutine t took connection s out of the registry and has not closed it yet.
TearsDown(t, s) ==
    \/ pc[t] \in {"evictUnsub", "evictClose"} /\ evictee[t] = s
    \/ pc[t] \in {"discUnsub", "discClose"} /\ victim[t] = s

\* A connection, once registered, is in exactly one of three places: in the
\* registry under its own charge point id, in the hands of exactly one goroutine
\* that is about to unsubscribe and close it, or closed.  Hence none is closed
\* twice (a panic in Go) and none is lost open, whatever Register and Disconnect
\* calls overlap between their critical section and their tear-down.
TeardownOwned ==
    /\ \A c \in ChargePoints : registry[c] # None =>
          /\ cp[registry[c]] = c
          /\ Registered(registry[c])
          /\ ~closed[registry[c]]
    /\ \A s, t \in Sessions : TearsDown(t, s) =>
          /\ Registered(s)
          /\ ~closed[s]
          /\ registry[cp[s]] # s
          /\ \A u \in Sessions : TearsDown(u, s) => u = t
    /\ \A s \in Sessions : Registered(s) =>
          closed[s] \/ registry[cp[s]] = s \/ \E t \in Sessions : TearsDown(t, s)

\* The frames of an /out topic reach the WebSocket in the order in which they
\* were published, none twice, and none is written to two sessions, across
\* replaced and re-established connections.
FramesInOrder ==
    /\ \A s \in Sessions :
          LET f == written[s] \o outbound[s]
          IN  \A i, j \in 1..Len(f) : i < j => f[i] < f[j]
    /\ \A s, t \in Sessions : s # t /\ cp[s] = cp[t] =>
          \A i \in 1..Len(written[s]), j \in 1..Len(written[t]) :
              written[s][i] # written[t][j]

\* A session that was closed (replaced, or torn down) publishes at most one more
\* frame in its charge point's name: the one whose read was under way.
AtMostOneLateFrame ==
    \A s \in Sessions : late[s] <= 1

\* The message callback, which the frames of all charge points go through, is
\* never stuck for good on a connection whose Outbound is full.
CallbackReturns == dispatch # {} ~> dispatch = {}

\* A connection that was closed by whoever replaced it or tore it down comes to
\* an end: its goroutines return, even if the peer stays silent for ever.
ClosedSessionEnds ==
    \A s \in Sessions : closed[s] ~> (pc[s] = "done" /\ writer[s] = "done")

\* A session whose WebSocket is gone does not stay registered.
DeadSessionLeaves ==
    \A s \in Sessions : \A c \in ChargePoints :
        (registry[c] = s /\ ~wsOpen[s]) ~> registry[c] # s

-----------------------------------------------------------------------------
(* What the documentation says and the code does not do                    *)

\* README: "a new connection for an already-registered id gracefully closes the
\* old one".  An open session is closed only because a newer one replaced it.
NewSessionSurvives ==
    \A s \in Sessions : closed[s] /\ wsOpen[s] =>
        \E t \in Sessions : t # s /\ evictee[t] = s

\* gateway_test.go: the new connection of a charge point still receives messages
\* after it replaced an old one.  (With a link that never fails.)
ServingIsSubscribed ==
    \A c \in ChargePoints :
        registry[c] # None /\ pc[registry[c]] = "reading" => subscribed[c]
=============================================================================
