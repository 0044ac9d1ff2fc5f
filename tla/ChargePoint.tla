---------------------------- MODULE ChargePoint ----------------------------
(***************************************************************************)
(* The simulated charge point, as apps/web/src/stores/chargePointStore.ts  *)
(* keeps it in the browser: one ChargePointRuntime, from the moment        *)
(* connectChargePointById creates it.  JavaScript runs every callback to   *)
(* completion, so one action is one callback: a button of the user         *)
(* interface, a frame from the central system, a socket event or a timer.  *)
(* What interleaves is everything between callbacks: the answers to calls  *)
(* in flight (which may come in any order, long after the connector has    *)
(* moved on, or never), remote commands, timers and reconnects.            *)
(*                                                                         *)
(* Abstractions.                                                           *)
(*  - A connector's faultCode, the idTags and the meter registers are data *)
(*    no property here looks at.                                           *)
(*  - Heartbeat, StatusNotification and MeterValues calls get answers that *)
(*    handleCallResult ignores, so they are not kept in pending; what a    *)
(*    StatusNotification said is kept in notified for one step.            *)
(*  - The n-th StartTransaction sent is the one the central system gives   *)
(*    transaction id n, if it accepts it.                                  *)
(*  - connectorStates is filled lazily with Available entries that nothing *)
(*    can tell from absent ones before the first registration; conn holds  *)
(*    all of them from the start.                                          *)
(*  - Timers carry no durations: any armed timer may fire next.            *)
(***************************************************************************)
EXTENDS Integers

CONSTANTS
    Connectors,     \* the connectors of the charge point; 0 is the station itself
    Commands,       \* the remote commands the central system uses
    Buttons,        \* the buttons the user presses
    SocketFaults,   \* whether the socket may close or fail
    CallErrors,     \* whether the central system may answer with an error
    MaxStarts,      \* bound: StartTransaction calls sent
    MaxCalls,       \* bound: unanswered calls of one kind for one connector
    MaxTimers       \* bound: armed timers of one kind for one connector, but for
                    \* those of a stop, which are as many as the stops

ASSUME ConnectorsAssumption == 0 \notin Connectors
ASSUME BoundsAssumption ==
    /\ MaxStarts \in Nat
    /\ MaxCalls \in Nat
    /\ MaxTimers \in Nat
ASSUME SwitchesAssumption == SocketFaults \in BOOLEAN /\ CallErrors \in BOOLEAN

VARIABLES
    open,           \* client.isOpen
    registration,   \* runtime.registration
    conn,           \* connectorStates: status, cablePluggedIn, Inoperative requested
    tx,             \* transactions: the entry of each connector
    older,          \* <<c, d>>: c was inserted into that Map before d
    pending,        \* pendingCalls whose answer matters
    timers,         \* armed setTimeout callbacks, and the await of the initial status
    meterTimer,     \* meterValuesTimer is set
    notified,       \* the status each connector sent in a notification just now
    nextStart,      \* number of the next StartTransaction
    stops           \* how many StopTransactions were sent for each id

sessionVars == <<tx, older, meterTimer, nextStart, stops>>
vars == <<open, registration, conn, tx, older, pending, timers, meterTimer,
          notified, nextStart, stops>>

Ids == 1 .. MaxStarts

Statuses == {"Available", "Preparing", "Charging", "Finishing", "Faulted", "Unavailable"}

AllCommands == {"RemoteStart", "RemoteStop", "Unlock", "Reset", "ChangeAvailability",
                "Trigger"}

AllButtons == {"Boot", "PlugIn", "Authorize", "Unplug", "Stop", "Fault", "Disable", "Enable"}

ASSUME InputsAssumption == Commands \subseteq AllCommands /\ Buttons \subseteq AllButtons

ConnectorState == [status : Statuses, cable : BOOLEAN, inoperative : BOOLEAN]

\* A transaction's id is 0 while it is null; stopPending is status "finishing".
NoTx == [id |-> 0, status |-> "none"]
TxState == [id : 0 .. MaxStarts, status : {"none", "preparing", "charging", "finishing"}]

\* A call in flight.  tx is the number of a StartTransaction, the id named by
\* a StopTransaction; n tells apart the calls of one kind.
Call(action, c, id, n) == [action |-> action, connector |-> c, tx |-> id, n |-> n]
Calls == [action : {"BootNotification", "Authorize", "StartTransaction", "StopTransaction"},
          connector : Connectors \cup {0}, tx : 0 .. MaxStarts, n : 0 .. MaxCalls]

TimerKeys == ({"remoteStart", "remoteStop", "stopTimeout", "triggerStatus"} \X Connectors)
        \cup ({"reset", "bootRetry", "triggerBoot", "initialStatus"} \X {0})

TypeOK ==
    /\ open \in BOOLEAN
    /\ registration \in {"disconnected", "pending", "accepted", "rejected"}
    /\ conn \in [Connectors -> ConnectorState]
    /\ tx \in [Connectors -> TxState]
    /\ older \subseteq Connectors \X Connectors
    /\ pending \subseteq Calls
    /\ timers \in [TimerKeys -> Nat]
    /\ meterTimer \in BOOLEAN
    /\ notified \in [Connectors -> Statuses \cup {"none"}]
    /\ nextStart \in 1 .. MaxStarts + 1
    /\ stops \in [Ids -> Nat]
    /\ \A c \in Connectors : tx[c].id = 0 <=> tx[c].status \in {"none", "preparing"}

Init ==
    /\ open = FALSE
    /\ registration = "disconnected"
    /\ conn = [c \in Connectors |->
                  [status |-> "Available", cable |-> FALSE, inoperative |-> FALSE]]
    /\ tx = [c \in Connectors |-> NoTx]
    /\ older = {}
    /\ pending = {}
    /\ timers = [k \in TimerKeys |-> 0]
    /\ meterTimer = FALSE
    /\ notified = [c \in Connectors |-> "none"]
    /\ nextStart = 1
    /\ stops = [i \in Ids |-> 0]

-----------------------------------------------------------------------------
(* Timers, calls and notifications.                                        *)

\* setTimeout, and the callback running once.
Armed(k) == timers[k] > 0
CanArm(k) == timers[k] < MaxTimers
Arm(k) == timers' = [timers EXCEPT ![k] = @ + 1]
Fired(k) == timers' = [timers EXCEPT ![k] = @ - 1]

\* sendFrame for a BootNotification or an Authorize: dropped on a closed
\* socket, otherwise remembered in pendingCalls under a fresh unique id.
Unused(action, c) == {n \in 1 .. MaxCalls : Call(action, c, 0, n) \notin pending}
Send(action, c) ==
    \E n \in Unused(action, c) :
        /\ \A m \in Unused(action, c) : n <= m
        /\ pending' = pending \cup {Call(action, c, 0, n)}
SendCall(action, c) == IF open THEN Send(action, c) ELSE UNCHANGED pending

\* sendStatusNotification: silently dropped unless registered and open.
\* Report(S, r) notifies the status r[c] of every connector c of S.
CanNotify == registration = "accepted" /\ open
Report(S, r) ==
    notified' = [c \in Connectors |-> IF CanNotify /\ c \in S THEN r[c] ELSE "none"]
Silent == notified' = [c \in Connectors |-> "none"]

SetStatus(c, status) == conn' = [conn EXCEPT ![c].status = status]
SetIdle(c, status) == conn' = [conn EXCEPT ![c].status = status, ![c].cable = FALSE]

Unbound == {c \in Connectors : tx[c].status = "preparing"}
Stopping == {c \in Connectors : tx[c].status = "finishing"}
ChargingTx == {c \in Connectors : tx[c].status = "charging"}

\* transactions.set(c, ...): a new key goes to the end of the Map, an
\* existing one keeps its place.  transactions.delete(c).
InsertTx(c) ==
    /\ tx' = [tx EXCEPT ![c] = [id |-> 0, status |-> "preparing"]]
    /\ older' = IF tx[c] = NoTx
                THEN older \cup {<<d, c>> : d \in {e \in Connectors : tx[e] # NoTx}}
                ELSE older
DeleteTx(c) ==
    /\ tx' = [tx EXCEPT ![c] = NoTx]
    /\ older' = {p \in older : c \notin {p[1], p[2]}}

\* Array.from(transactions.values()).find(...) returns the connector of S
\* that comes first in the Map.
IsFirst(c, S) == c \in S /\ \A d \in S \ {c} : <<c, d>> \in older

-----------------------------------------------------------------------------
(* Stopping a transaction.                                                 *)

\* Mutant: stopPending is not checked.
StoppableAgain(c) == tx[c].id # 0 /\ open

\* The transactions stopConnectorTransactionInternal does not refuse: the id
\* is known, no stop is pending, and the socket is open.
Stoppable(c) == tx[c].status = "charging" /\ open

\* stopConnectorTransactionInternal on the connectors of S, all stoppable:
\* the transaction is marked, StopTransaction is sent and the 15 s timer armed.
\* The connector's move to Finishing is StoppedConn.
StopInternal(S) ==
    /\ tx' = [c \in Connectors |->
                 IF c \in S THEN [tx[c] EXCEPT !.status = "finishing"] ELSE tx[c]]
    /\ pending' = pending \cup {Call("StopTransaction", c, tx[c].id, 0) : c \in S}
    /\ stops' = [i \in Ids |-> IF \E c \in S : tx[c].id = i THEN stops[i] + 1 ELSE stops[i]]

StoppedConn(S) ==
    [c \in Connectors |-> IF c \in S THEN [conn[c] EXCEPT !.status = "Finishing"] ELSE conn[c]]

\* Mutant: no timer waits for the StopTransaction answer.
ArmNoStopTimeout(S, t) == t

ArmStopTimeouts(S, t) ==
    [k \in TimerKeys |-> IF \E c \in S : k = <<"stopTimeout", c>> THEN t[k] + 1 ELSE t[k]]

\* Mutant: finishing any transaction stops the meter timer.
FinishStopsMeter(c) ==
    /\ DeleteTx(c)
    /\ meterTimer' = FALSE
    /\ IF conn[c].inoperative
       THEN /\ SetIdle(c, "Unavailable")
            /\ Report({c}, [d \in Connectors |-> "Unavailable"])
       ELSE Silent /\ UNCHANGED conn

\* finishStoppedTransaction(c): the entry goes, the meter timer stops when no
\* transaction is charging any more, a scheduled Inoperative takes effect.
FinishStopped(c) ==
    /\ DeleteTx(c)
    /\ meterTimer' = (meterTimer /\ ChargingTx \ {c} # {})
    /\ IF conn[c].inoperative
       THEN /\ SetIdle(c, "Unavailable")
            /\ Report({c}, [d \in Connectors |-> "Unavailable"])
       ELSE Silent /\ UNCHANGED conn

\* The callback of the 15 s timer: it looks at whatever transaction the
\* connector has now.
StopTimeoutFires(c) ==
    LET k == <<"stopTimeout", c>> IN
    /\ Armed(k)
    /\ Fired(k)
    /\ IF c \in Stopping
       THEN FinishStopped(c)
       ELSE Silent /\ UNCHANGED <<conn, tx, older, meterTimer>>
    /\ UNCHANGED <<open, registration, pending, nextStart, stops>>

-----------------------------------------------------------------------------
(* The socket.                                                             *)

\* onOpen, on the first connect and on every reconnect.
SocketOpens ==
    /\ ~open
    /\ open' = TRUE
    /\ registration' = "pending"
    /\ Send("BootNotification", 0)
    /\ Silent
    /\ UNCHANGED <<conn, timers, sessionVars>>

\* onClose leaves the registration as it was; scheduleReconnect follows.
SocketCloses ==
    /\ SocketFaults
    /\ open
    /\ open' = FALSE
    /\ Silent
    /\ UNCHANGED <<registration, conn, pending, timers, sessionVars>>

\* onError, and the close event after it; also a connection attempt that fails.
SocketErrors ==
    /\ SocketFaults
    /\ open' = FALSE
    /\ registration' = "disconnected"
    /\ Silent
    /\ UNCHANGED <<conn, pending, timers, sessionVars>>

-----------------------------------------------------------------------------
(* Registration.                                                           *)

\* bootChargePoint: the Boot button.
BootChargePoint ==
    /\ "Boot" \in Buttons
    /\ open
    /\ SendCall("BootNotification", 0)
    /\ Silent
    /\ UNCHANGED <<open, registration, conn, timers, sessionVars>>

\* Mutant: the answered call stays in pendingCalls.
AnsweredKept(p, action) ==
    /\ open
    /\ p \in pending
    /\ p.action = action
    /\ UNCHANGED pending

\* handleCallResult and handleCallError: an answer finds its call in
\* pendingCalls and removes it; one that finds none changes nothing.
Answered(p, action) ==
    /\ open
    /\ p \in pending
    /\ p.action = action
    /\ pending' = pending \ {p}

\* handleBootNotificationResponse, by the status of the answer.  The initial
\* notifications are sent after an await, so they are a timer like the others.
BootAccepted(p) ==
    /\ Answered(p, "BootNotification")
    /\ registration' = "accepted"
    /\ CanArm(<<"initialStatus", 0>>)
    /\ Arm(<<"initialStatus", 0>>)
    /\ Silent
    /\ UNCHANGED <<open, conn, sessionVars>>

BootPending(p) ==
    /\ Answered(p, "BootNotification")
    /\ registration' = "pending"
    /\ Silent
    /\ UNCHANGED <<open, conn, timers, sessionVars>>

BootRejected(p) ==
    /\ Answered(p, "BootNotification")
    /\ registration' = "rejected"
    /\ CanArm(<<"bootRetry", 0>>)
    /\ Arm(<<"bootRetry", 0>>)
    /\ Silent
    /\ UNCHANGED <<open, conn, sessionVars>>

\* sendInitialStatusNotifications after its await: every connector is
\* reported as Available.
InitialStatusFires ==
    LET k == <<"initialStatus", 0>> IN
    /\ Armed(k)
    /\ Fired(k)
    /\ Report(Connectors, [c \in Connectors |-> "Available"])
    /\ UNCHANGED <<open, registration, conn, pending, sessionVars>>

\* The retry after a Rejected answer.
BootRetryFires ==
    LET k == <<"bootRetry", 0>> IN
    /\ Armed(k)
    /\ Fired(k)
    /\ SendCall("BootNotification", 0)
    /\ Silent
    /\ UNCHANGED <<open, registration, conn, sessionVars>>

-----------------------------------------------------------------------------
(* A charging session: the answers of the central system.                  *)

\* handleAuthorizeResponse.
AuthorizeAccepted(p) ==
    /\ open
    /\ p \in pending /\ p.action = "Authorize"
    /\ nextStart <= MaxStarts
    /\ nextStart' = nextStart + 1
    /\ InsertTx(p.connector)
    /\ pending' = (pending \ {p})
                  \cup {Call("StartTransaction", p.connector, nextStart, 0)}
    /\ Silent
    /\ UNCHANGED <<open, registration, conn, timers, meterTimer, stops>>

AuthorizeRejected(p) ==
    /\ Answered(p, "Authorize")
    /\ SetStatus(p.connector, "Available")
    /\ Silent
    /\ UNCHANGED <<open, registration, timers, sessionVars>>

\* Mutant: the id is stored but the transaction stays "preparing".
StartAcceptedKeepsStatus(p) ==
    /\ Answered(p, "StartTransaction")
    /\ \E c \in Unbound :
          /\ IsFirst(c, Unbound)
          /\ tx' = [tx EXCEPT ![c].id = p.tx]
          /\ SetStatus(c, "Charging")
          /\ Report({c}, [d \in Connectors |-> "Charging"])
    /\ meterTimer' = TRUE
    /\ UNCHANGED <<open, registration, older, timers, nextStart, stops>>

\* handleStartTransactionResponse: the answer goes to the first transaction
\* that has no id yet.
StartAccepted(p) ==
    /\ Answered(p, "StartTransaction")
    /\ \E c \in Unbound :
          /\ IsFirst(c, Unbound)
          /\ tx' = [tx EXCEPT ![c] = [id |-> p.tx, status |-> "charging"]]
          /\ SetStatus(c, "Charging")
          /\ Report({c}, [d \in Connectors |-> "Charging"])
    /\ meterTimer' = TRUE
    /\ UNCHANGED <<open, registration, older, timers, nextStart, stops>>

StartRejected(p) ==
    /\ Answered(p, "StartTransaction")
    /\ \E c \in Unbound :
          /\ IsFirst(c, Unbound)
          /\ DeleteTx(c)
          /\ SetStatus(c, "Available")
    /\ Silent
    /\ UNCHANGED <<open, registration, timers, meterTimer, nextStart, stops>>

StartUnmatched(p) ==
    /\ Answered(p, "StartTransaction")
    /\ Unbound = {}
    /\ Silent
    /\ UNCHANGED <<open, registration, conn, timers, sessionVars>>

\* handleStopTransactionResponse: the first transaction with a stop pending.
StopAnswer(p) ==
    /\ Answered(p, "StopTransaction")
    /\ \/ \E c \in Stopping : IsFirst(c, Stopping) /\ FinishStopped(c)
       \/ Stopping = {} /\ Silent /\ UNCHANGED <<conn, tx, older, meterTimer>>
    /\ UNCHANGED <<open, registration, timers, nextStart, stops>>

\* Mutant: the connector is not reverted.
CallErrorKeepsStatus(p) ==
    /\ CallErrors
    /\ \E a \in {"Authorize", "StartTransaction"} : Answered(p, a)
    /\ DeleteTx(p.connector)
    /\ Silent
    /\ UNCHANGED <<open, registration, conn, timers, meterTimer, nextStart, stops>>

\* handleCallError.
SessionCallError(p) ==
    /\ CallErrors
    /\ \E a \in {"Authorize", "StartTransaction"} : Answered(p, a)
    /\ SetIdle(p.connector, "Available")
    /\ DeleteTx(p.connector)
    /\ Silent
    /\ UNCHANGED <<open, registration, timers, meterTimer, nextStart, stops>>

OtherCallError(p) ==
    /\ CallErrors
    /\ \E a \in {"BootNotification", "StopTransaction"} : Answered(p, a)
    /\ Silent
    /\ UNCHANGED <<open, registration, conn, timers, sessionVars>>

-----------------------------------------------------------------------------
(* Commands of the central system.  A command that is rejected changes     *)
(* nothing and is left out.                                                *)

Receives(command) == open /\ command \in Commands

\* handleRemoteStart and its timer, which plugs the cable in if need be.
RemoteStart(c) ==
    /\ Receives("RemoteStart")
    /\ conn[c].status \in {"Available", "Preparing"}
    /\ CanArm(<<"remoteStart", c>>)
    /\ Arm(<<"remoteStart", c>>)
    /\ Silent
    /\ UNCHANGED <<open, registration, conn, pending, sessionVars>>

RemoteStartFires(c) ==
    LET k == <<"remoteStart", c>> IN
    /\ Armed(k)
    /\ Fired(k)
    /\ IF conn[c].status = "Available"
       THEN /\ conn' = [conn EXCEPT ![c].status = "Preparing", ![c].cable = TRUE]
            /\ Report({c}, [d \in Connectors |-> "Preparing"])
       ELSE Silent /\ UNCHANGED conn
    /\ IF conn[c].status \in {"Available", "Preparing"}
       THEN SendCall("Authorize", c)
       ELSE UNCHANGED pending
    /\ UNCHANGED <<open, registration, sessionVars>>

\* handleRemoteStop finds the connector of the id; its timer stops whatever
\* transaction that connector has when it fires.
RemoteStop(c) ==
    /\ Receives("RemoteStop")
    /\ tx[c].id # 0
    /\ CanArm(<<"remoteStop", c>>)
    /\ Arm(<<"remoteStop", c>>)
    /\ Silent
    /\ UNCHANGED <<open, registration, conn, pending, sessionVars>>

RemoteStopFires(c) ==
    LET k == <<"remoteStop", c>>
        S == {d \in {c} : Stoppable(d)}
    IN
    /\ Armed(k)
    /\ StopInternal(S)
    /\ timers' = ArmStopTimeouts(S, [timers EXCEPT ![k] = @ - 1])
    /\ conn' = StoppedConn(S)
    /\ Report(S, [d \in Connectors |-> "Finishing"])
    /\ UNCHANGED <<open, registration, older, meterTimer, nextStart>>

\* handleUnlockConnector.
UnlockConnector(c) ==
    /\ Receives("Unlock")
    /\ conn[c].status \in {"Preparing", "Finishing"}
    /\ DeleteTx(c)
    /\ SetIdle(c, "Available")
    /\ Report({c}, [d \in Connectors |-> "Available"])
    /\ UNCHANGED <<open, registration, pending, timers, meterTimer, nextStart, stops>>

\* handleReset stops every transaction, then 500 ms later clears the
\* connectors and boots.
Reset ==
    LET S == {c \in Connectors : Stoppable(c)} IN
    /\ Receives("Reset")
    /\ CanArm(<<"reset", 0>>)
    /\ StopInternal(S)
    /\ timers' = ArmStopTimeouts(S, [timers EXCEPT ![<<"reset", 0>>] = @ + 1])
    /\ conn' = StoppedConn(S)
    /\ Report(S, [d \in Connectors |-> "Finishing"])
    /\ UNCHANGED <<open, registration, older, meterTimer, nextStart>>

ResetFires ==
    LET k == <<"reset", 0>>
        S == {c \in Connectors : conn[c].status # "Unavailable"}
    IN
    /\ Armed(k)
    /\ Fired(k)
    /\ conn' = [c \in Connectors |->
                   IF c \in S
                   THEN [conn[c] EXCEPT !.status = "Available", !.cable = FALSE]
                   ELSE conn[c]]
    /\ Report(S, [d \in Connectors |-> "Available"])
    /\ SendCall("BootNotification", 0)
    /\ UNCHANGED <<open, registration, sessionVars>>

\* handleChangeAvailability for the connectors of S: one of them, or all
\* when the command names connector 0.
Inoperative(S) ==
    LET Now == {c \in S : conn[c].status \notin {"Charging", "Preparing", "Finishing"}} IN
    /\ Receives("ChangeAvailability")
    /\ conn' = [c \in Connectors |->
                   CASE c \in Now -> [status |-> "Unavailable", cable |-> FALSE,
                                      inoperative |-> TRUE]
                     [] c \in S \ Now -> [conn[c] EXCEPT !.inoperative = TRUE]
                     [] OTHER -> conn[c]]
    /\ Report(Now, [d \in Connectors |-> "Unavailable"])
    /\ UNCHANGED <<open, registration, pending, timers, sessionVars>>

Operative(S) ==
    LET Now == {c \in S : conn[c].status = "Unavailable"} IN
    /\ Receives("ChangeAvailability")
    /\ conn' = [c \in Connectors |->
                   CASE c \in Now -> [conn[c] EXCEPT !.status = "Available",
                                                     !.inoperative = FALSE]
                     [] c \in S \ Now -> [conn[c] EXCEPT !.inoperative = FALSE]
                     [] OTHER -> conn[c]]
    /\ Report(Now, [d \in Connectors |-> "Available"])
    /\ UNCHANGED <<open, registration, pending, timers, sessionVars>>

\* handleTriggerMessage, for the two messages whose sending is visible here.
Trigger(k) ==
    /\ Receives("Trigger")
    /\ CanArm(k)
    /\ Arm(k)
    /\ Silent
    /\ UNCHANGED <<open, registration, conn, pending, sessionVars>>

TriggerBootFires ==
    LET k == <<"triggerBoot", 0>> IN
    /\ Armed(k)
    /\ Fired(k)
    /\ SendCall("BootNotification", 0)
    /\ Silent
    /\ UNCHANGED <<open, registration, conn, sessionVars>>

TriggerStatusFires(c) ==
    LET k == <<"triggerStatus", c>> IN
    /\ Armed(k)
    /\ Fired(k)
    /\ Report({c}, [d \in Connectors |-> conn[d].status])
    /\ UNCHANGED <<open, registration, conn, pending, sessionVars>>

-----------------------------------------------------------------------------
(* Buttons of the connector panel.  ChargePointDetail.vue offers them by   *)
(* the connector's status; the store checks the registration.              *)

Pressed(button) == button \in Buttons /\ registration = "accepted"

PlugIn(c) ==
    /\ Pressed("PlugIn")
    /\ conn[c].status = "Available"
    /\ conn' = [conn EXCEPT ![c].status = "Preparing", ![c].cable = TRUE]
    /\ Report({c}, [d \in Connectors |-> "Preparing"])
    /\ UNCHANGED <<open, registration, pending, timers, sessionVars>>

Authorize(c) ==
    /\ Pressed("Authorize") /\ open
    /\ conn[c].status = "Preparing" /\ conn[c].cable
    /\ SendCall("Authorize", c)
    /\ Silent
    /\ UNCHANGED <<open, registration, conn, timers, sessionVars>>

Unplug(c) ==
    /\ Pressed("Unplug")
    /\ conn[c].status \in {"Preparing", "Finishing"}
    /\ SetIdle(c, "Available")
    /\ Report({c}, [d \in Connectors |-> "Available"])
    /\ UNCHANGED <<open, registration, pending, timers, sessionVars>>

\* stopConnectorTransaction.
Stop(c) ==
    /\ Pressed("Stop")
    /\ conn[c].status = "Charging"
    /\ Stoppable(c)
    /\ StopInternal({c})
    /\ timers' = ArmStopTimeouts({c}, timers)
    /\ conn' = StoppedConn({c})
    /\ Report({c}, [d \in Connectors |-> "Finishing"])
    /\ UNCHANGED <<open, registration, older, meterTimer, nextStart>>

\* setConnectorStatus(c, 'Faulted').
Fault(c) ==
    LET S == {d \in {c} : Stoppable(d)} IN
    /\ Pressed("Fault")
    /\ conn[c].status \in {"Available", "Preparing", "Charging"}
    /\ StopInternal(S)
    /\ timers' = ArmStopTimeouts(S, timers)
    /\ SetStatus(c, "Faulted")
    /\ Report({c}, [d \in Connectors |-> "Faulted"])
    /\ UNCHANGED <<open, registration, older, meterTimer, nextStart>>

\* setConnectorStatus(c, 'Unavailable').
Disable(c) ==
    /\ Pressed("Disable")
    /\ conn[c].status = "Available"
    /\ SetStatus(c, "Unavailable")
    /\ Report({c}, [d \in Connectors |-> "Unavailable"])
    /\ UNCHANGED <<open, registration, pending, timers, sessionVars>>

\* setConnectorStatus(c, 'Available'): Clear Fault, Enable.
Enable(c) ==
    /\ Pressed("Enable")
    /\ conn[c].status \in {"Faulted", "Unavailable"}
    /\ SetIdle(c, "Available")
    /\ Report({c}, [d \in Connectors |-> "Available"])
    /\ UNCHANGED <<open, registration, pending, timers, sessionVars>>

-----------------------------------------------------------------------------
Socket == SocketOpens \/ SocketCloses \/ SocketErrors

TimerFires ==
    \/ InitialStatusFires \/ BootRetryFires \/ ResetFires \/ TriggerBootFires
    \/ \E c \in Connectors :
          \/ StopTimeoutFires(c) \/ RemoteStartFires(c) \/ RemoteStopFires(c)
          \/ TriggerStatusFires(c)

Answer ==
    \E p \in pending :
        \/ BootAccepted(p) \/ BootPending(p) \/ BootRejected(p)
        \/ AuthorizeAccepted(p) \/ AuthorizeRejected(p)
        \/ StartAccepted(p) \/ StartRejected(p) \/ StartUnmatched(p)
        \/ StopAnswer(p)
        \/ SessionCallError(p) \/ OtherCallError(p)

Command ==
    \/ Reset
    \/ Trigger(<<"triggerBoot", 0>>)
    \/ \E c \in Connectors :
          \/ RemoteStart(c) \/ RemoteStop(c) \/ UnlockConnector(c)
          \/ Trigger(<<"triggerStatus", c>>)
    \/ \E S \in {{c} : c \in Connectors} \cup {Connectors} : Inoperative(S) \/ Operative(S)

Button ==
    \/ BootChargePoint
    \/ \E c \in Connectors :
          \/ PlugIn(c) \/ Authorize(c) \/ Unplug(c) \/ Stop(c)
          \/ Fault(c) \/ Disable(c) \/ Enable(c)

Next == Socket \/ TimerFires \/ Answer \/ Command \/ Button

Spec == Init /\ [][Next]_vars

\* The browser runs the callback of every timer that is due.  Nothing is
\* assumed of the user, the socket or the central system.
FairSpec ==
    /\ Spec
    /\ WF_vars(InitialStatusFires) /\ WF_vars(BootRetryFires)
    /\ WF_vars(ResetFires) /\ WF_vars(TriggerBootFires)
    /\ \A c \in Connectors :
          /\ WF_vars(StopTimeoutFires(c)) /\ WF_vars(RemoteStartFires(c))
          /\ WF_vars(RemoteStopFires(c)) /\ WF_vars(TriggerStatusFires(c))

-----------------------------------------------------------------------------
(* Properties.                                                             *)

\* An id the central system assigned belongs to at most one live transaction,
\* whichever order answers come in and however often a connector authorizes.
IdHeldOnce ==
    \A c, d \in Connectors : c # d /\ tx[c].id # 0 => tx[c].id # tx[d].id

\* StopTransaction is sent at most once for an id, although the Stop button,
\* RemoteStop, Reset and Fault all end in stopConnectorTransactionInternal.
StopOnce == \A i \in Ids : stops[i] <= 1

\* A transaction that waits for its StopTransaction answer always has a 15 s
\* timer armed for its connector, so it cannot wait for ever.
StopHasDeadline == \A c \in Stopping : Armed(<<"stopTimeout", c>>)

\* The MeterValues interval runs as long as some transaction is charging:
\* finishing one session never silences another.
MeterTimerRuns == ChargingTx # {} => meterTimer

\* A connector shown as Charging has a transaction, and one that is not
\* already being stopped.
ChargingIsBacked ==
    \A c \in Connectors :
        conn[c].status = "Charging" => tx[c].status \in {"preparing", "charging"}

\* A transaction being stopped is gone eventually, answer or no answer.
StopSettles == \A c \in Connectors : c \in Stopping ~> c \notin Stopping

-----------------------------------------------------------------------------
(* What the documents say of the charge point and the code does not do.    *)

\* plan.md: when StartTransaction.conf arrives, "Match by unique ID": the id
\* goes to the transaction of the connector that asked for it.
BindsOwnId ==
    [][\A c \in Connectors :
          tx[c].id = 0 /\ tx'[c].id # 0
          => Call("StartTransaction", c, tx'[c].id, 0) \in pending \ pending']_vars

Sent(action) == {p \in pending' \ pending : p.action = action}

\* OCPP_RULES.md: "cannot start duplicate transaction on same connector".
NoDuplicateStart ==
    [][\A p \in Sent("StartTransaction") : p.connector \notin ChargingTx]_vars

\* OCPP_RULES.md: a fault must "block new transactions until fault is cleared".
FaultBlocksStart ==
    [][\A p \in Sent("StartTransaction") : conn[p.connector].status # "Faulted"]_vars

\* bootnotification_flow.md: until Accepted, the charge point must not
\* initiate Authorize, StartTransaction or StopTransaction.
NoCallBeforeAccepted ==
    [][\A p \in pending' \ pending :
          p.action # "BootNotification" => registration = "accepted"]_vars

\* heartbeat_statusnotificaiton_flow.md: a notification reports the
\* connector's current status.
ReportsCurrentStatus ==
    \A c \in Connectors : notified[c] \in {"none", conn[c].status}

\* The same document: a notification is sent whenever a status changes.
StatusChangeReported ==
    [][\A c \in Connectors :
          conn'[c].status # conn[c].status /\ CanNotify => notified'[c] # "none"]_vars

\* OCPP_RULES.md: "after reconnect, pending request state should normally be
\* cleared": of the calls in flight only the new BootNotification remains.
ReconnectClears ==
    [][~open /\ open' => \A p \in pending : p \notin pending']_vars

\* plan.md: "If the StartTransaction.conf times out, set the transaction to
\* failed": a transaction does not wait for its id for ever.
StartSettles == \A c \in Connectors : c \in Unbound ~> c \notin Unbound

=============================================================================
