--------------------------- MODULE GatewayClient ---------------------------
(***************************************************************************)
(* The connection of one charge point, as the browser keeps it: the        *)
(* GatewayClient of apps/web/src/ocpp/gatewayClient.ts, which owns a        *)
(* WebSocket and reconnects, and the part of chargePointStore.ts that       *)
(* creates and discards clients (Connect, Disconnect) and shows a status.   *)
(*                                                                         *)
(* Every Connect makes a new client; the callbacks of all of them find the  *)
(* runtime by charge point id, so that an event of a discarded client is    *)
(* applied to whatever runtime there is when it comes.  Between the moment  *)
(* a socket stops being open and the moment its error and close events run, *)
(* any other callback may run.                                             *)
(*                                                                         *)
(* ws[g] is the WebSocket of client g.  "failed" and "closed" are sockets   *)
(* that ended but whose events (error then close, or close alone) are still *)
(* queued; "none" is no socket, or one whose close event has run.           *)
(* GatewayClient.socket is null exactly when ws[g] = "none" or close() was  *)
(* called, that is, intentional[g].                                        *)
(*                                                                         *)
(* External: the browser's WebSocket, the network and the central system.   *)
(***************************************************************************)
EXTENDS Integers

CONSTANT
    MaxClients     \* bound: how often the user presses Connect

ASSUME ClientsAssumption == MaxClients \in Nat

VARIABLES
    clients,       \* clients created so far
    runtime,       \* the client of the runtime in cpStates; 0: no runtime
    status,        \* its connectionStatus
    registration,  \* its registration
    interval,      \* its heartbeatInterval is set and not 0
    heartbeat,     \* its heartbeatTimer is armed
    ws,            \* the WebSocket of a client
    intentional,   \* GatewayClient.intentionalClose
    timer          \* GatewayClient.reconnectTimer is set

vars == <<clients, runtime, status, registration, interval, heartbeat, ws, intentional, timer>>
socketVars == <<ws, intentional, timer>>

Clients == 1 .. MaxClients
Live == {"connecting", "open"}

TypeOK ==
    /\ clients \in 0 .. MaxClients
    /\ runtime \in 0 .. MaxClients
    /\ status \in {"disconnected", "connecting", "connected"}
    /\ registration \in {"disconnected", "pending", "accepted", "rejected"}
    /\ interval \in BOOLEAN
    /\ heartbeat \in BOOLEAN
    /\ ws \in [Clients -> Live \cup {"none", "failed", "closed"}]
    /\ intentional \in [Clients -> BOOLEAN]
    /\ timer \in [Clients -> BOOLEAN]
    /\ runtime <= clients

Init ==
    /\ clients = 0
    /\ runtime = 0
    /\ status = "disconnected"
    /\ registration = "disconnected"
    /\ interval = FALSE
    /\ heartbeat = FALSE
    /\ ws = [g \in Clients |-> "none"]
    /\ intentional = [g \in Clients |-> FALSE]
    /\ timer = [g \in Clients |-> FALSE]

isOpen(g) == ws[g] = "open" /\ ~intentional[g]

-----------------------------------------------------------------------------
(* The user: Connect and Disconnect                                        *)

\* What becomes of client g's socket when close() is called on it: closing a
\* socket that is not open yet is an error, and both events follow.
ClosedSocket(g) ==
    CASE ws[g] = "connecting" -> "failed"
      [] ws[g] = "open" -> "closed"
      [] OTHER -> ws[g]

\* Mutated form of CloseAll: close() leaves the reconnect timer alone and does
\* not say that it was intended.
CloseSocketOnly(G) ==
    [ws |-> [g \in Clients |-> IF g \in G THEN ClosedSocket(g) ELSE ws[g]],
     intentional |-> intentional,
     timer |-> timer]

\* GatewayClient.close() on the clients of G (none, or one).
CloseAll(G) ==
    [ws |-> [g \in Clients |-> IF g \in G THEN ClosedSocket(g) ELSE ws[g]],
     intentional |-> [g \in Clients |-> g \in G \/ intentional[g]],
     timer |-> [g \in Clients |-> g \notin G /\ timer[g]]]

\* connectChargePointById: a runtime that is not shown as connected is
\* discarded; a new client is made and connects.
Connect ==
    /\ clients < MaxClients
    /\ runtime = 0 \/ status # "connected"
    /\ clients' = clients + 1
    /\ runtime' = clients + 1
    /\ status' = "connecting"
    /\ registration' = "disconnected"
    /\ interval' = FALSE
    /\ heartbeat' = FALSE
    /\ LET closed == CloseAll({runtime} \ {0}) IN
          /\ ws' = [closed.ws EXCEPT ![clients + 1] = "connecting"]
          /\ intentional' = [closed.intentional EXCEPT ![clients + 1] = FALSE]
          /\ timer' = closed.timer

\* disconnectWS: Disconnect, Disconnect All, or the charge point is deleted.
Disconnect ==
    /\ runtime # 0
    /\ runtime' = 0
    /\ status' = "disconnected"
    /\ registration' = "disconnected"
    /\ interval' = FALSE
    /\ heartbeat' = FALSE
    /\ LET closed == CloseAll({runtime}) IN
          /\ ws' = closed.ws
          /\ intentional' = closed.intentional
          /\ timer' = closed.timer
    /\ UNCHANGED clients

-----------------------------------------------------------------------------
(* The events of client g's socket                                         *)

\* updateRuntime: whatever runtime the charge point has now, if it has one.
Update(newStatus, newRegistration) ==
    IF runtime = 0
    THEN UNCHANGED <<status, registration>>
    ELSE status' = newStatus /\ registration' = newRegistration

\* ws.onopen.  The BootNotification it sends changes nothing here: the runtime
\* is not registered, so the heartbeat timer is not touched.
Opens(g) ==
    /\ ws[g] = "connecting"
    /\ ws' = [ws EXCEPT ![g] = "open"]
    /\ Update("connected", "pending")
    /\ UNCHANGED <<clients, runtime, interval, heartbeat, intentional, timer>>

\* The attempt fails, or the socket ends; its events are queued.
Ends(g, how) ==
    /\ \/ ws[g] = "connecting" /\ how = "failed"
       \/ ws[g] = "open"
    /\ ws' = [ws EXCEPT ![g] = how]
    /\ UNCHANGED <<clients, runtime, status, registration, interval, heartbeat, intentional, timer>>

\* ws.onerror.
ErrorEvent(g) ==
    /\ ws[g] = "failed"
    /\ ws' = [ws EXCEPT ![g] = "closed"]
    /\ Update("disconnected", "disconnected")
    /\ UNCHANGED <<clients, runtime, interval, heartbeat, intentional, timer>>

\* Mutated forms of CloseEvent: the status is not updated; no reconnect.
CloseEventKeepsStatus(g) ==
    /\ ws[g] = "closed"
    /\ ws' = [ws EXCEPT ![g] = "none"]
    /\ timer' = [timer EXCEPT ![g] = @ \/ ~intentional[g]]
    /\ UNCHANGED <<clients, runtime, status, registration, interval, heartbeat, intentional>>

CloseEventNoReconnect(g) ==
    /\ ws[g] = "closed"
    /\ ws' = [ws EXCEPT ![g] = "none"]
    /\ Update("disconnected", registration)
    /\ UNCHANGED <<clients, runtime, interval, heartbeat, intentional, timer>>

\* ws.onclose: unless close() was called, scheduleReconnect.
CloseEvent(g) ==
    /\ ws[g] = "closed"
    /\ ws' = [ws EXCEPT ![g] = "none"]
    /\ Update("disconnected", registration)
    /\ timer' = [timer EXCEPT ![g] = @ \/ ~intentional[g]]
    /\ UNCHANGED <<clients, runtime, interval, heartbeat, intentional>>

\* The callback of the 3 s timer, and connect().
ReconnectFires(g) ==
    /\ timer[g]
    /\ timer' = [timer EXCEPT ![g] = FALSE]
    /\ ws' = [ws EXCEPT ![g] = IF intentional[g] THEN @ ELSE "connecting"]
    /\ UNCHANGED <<clients, runtime, status, registration, interval, heartbeat, intentional>>

-----------------------------------------------------------------------------
(* Registration and heartbeat of the current runtime                       *)

Receives == runtime # 0 /\ isOpen(runtime)

\* Mutated form of BootAccepted: scheduleHeartbeat is not called.
BootAcceptedNoHeartbeat(positive) ==
    /\ Receives
    /\ registration' = "accepted"
    /\ interval' = positive
    /\ UNCHANGED <<clients, runtime, status, heartbeat, socketVars>>

\* handleBootNotificationResponse: the interval of the answer (300 if it has
\* none) is taken over.  An interval of 0 makes scheduleHeartbeat return at once,
\* which leaves a timer of an earlier registration running.
BootAccepted(positive) ==
    /\ Receives
    /\ registration' = "accepted"
    /\ interval' = positive
    /\ heartbeat' = (positive \/ heartbeat)
    /\ UNCHANGED <<clients, runtime, status, socketVars>>

BootRefused(answer) ==
    /\ Receives
    /\ registration' = answer
    /\ UNCHANGED <<clients, runtime, status, interval, heartbeat, socketVars>>

\* The callback of the heartbeat timer: sendHeartbeat, which a closed socket or
\* a missing registration silences, then scheduleHeartbeat.
HeartbeatFires ==
    /\ heartbeat
    /\ heartbeat' = (registration = "accepted" /\ interval)
    /\ UNCHANGED <<clients, runtime, status, registration, interval, socketVars>>

-----------------------------------------------------------------------------
Event(g) == ErrorEvent(g) \/ CloseEvent(g) \/ ReconnectFires(g)

Next ==
    \/ Connect \/ Disconnect
    \/ \E g \in Clients :
          \/ Opens(g) \/ Event(g)
          \/ \E how \in {"failed", "closed"} : Ends(g, how)
    \/ \E positive \in BOOLEAN : BootAccepted(positive)
    \/ \E answer \in {"pending", "rejected"} : BootRefused(answer)
    \/ HeartbeatFires

Spec == Init /\ [][Next]_vars

\* The browser runs queued events and due timers; nothing is assumed of the
\* user, the network or the central system.
FairSpec == Spec /\ \A g \in Clients : WF_vars(Event(g))

-----------------------------------------------------------------------------
(* Properties that hold                                                    *)

\* Only the client of the current runtime has a socket that is open or being
\* opened, or a reconnect timer: however Connect, Disconnect, drops and timers
\* fall, no discarded client comes back to life beside the current one.
OnlyCurrentLives ==
    \A g \in Clients : ws[g] \in Live \/ timer[g] => g = runtime

\* A charge point shown as connected has an open socket, or one whose end the
\* browser is about to report: it is never shown as connected for good without
\* one, which would also disable Connect.
ConnectedIsBacked ==
    status = "connected" => runtime # 0 /\ ws[runtime] \in {"open", "failed", "closed"}

\* A charge point registered with an interval other than 0 has its heartbeat
\* timer armed, through disconnects, reconnects, repeated boots and intervals that
\* change from one registration to the next.
HeartbeatArmed == registration = "accepted" /\ interval => heartbeat

\* What the three rest on: a socket of a discarded client was closed on purpose,
\* so that its close event schedules nothing; and a client that waits for its
\* reconnect timer has no socket.
ClosedOnPurpose ==
    /\ \A g \in Clients : ws[g] # "none" => g = runtime \/ intentional[g]
    /\ \A g \in Clients : timer[g] => ws[g] = "none"

\* A runtime that lost its socket tries again, unless the user discards it.
Reconnects ==
    \A g \in Clients :
        (runtime = g /\ ws[g] \notin Live) ~> (runtime # g \/ ws[g] \in Live)

-----------------------------------------------------------------------------
(* What the documentation says and the code does not do                    *)

\* plan.md: "Charge point connection status updates immediately."  A charge
\* point whose socket is open is shown as connected.
OpenIsShown == runtime # 0 /\ isOpen(runtime) => status = "connected"

\* docs/bootnotification_flow.md: "On `Accepted`: set heartbeatInterval =
\* `interval`. Begin Heartbeat timer."  An interval of 0, which the schema of the
\* answer allows, begins none: scheduleHeartbeat returns on !heartbeatInterval.
RegisteredBeats == registration = "accepted" => heartbeat
=============================================================================
