--------------------------- MODULE ChargePointProofs ---------------------------
(***************************************************************************)
(* Proofs about ChargePoint, for any number of connectors and any bounds:  *)
(* its type invariant and its five safety invariants.                      *)
(*                                                                         *)
(* The argument is about the numbers of StartTransactions.  A number is    *)
(* first in flight, in one call; then, if its answer finds a transaction   *)
(* that waits, held by one connector; then named in a StopTransaction.  It *)
(* never goes back, although answers bind to the wrong connector, a second *)
(* authorization throws a running transaction away and timers outlive      *)
(* their sessions.                                                         *)
(***************************************************************************)
EXTENDS ChargePoint, TLAPS

Starts == {p \in pending : p.action = "StartTransaction"}

\* A call of a session names a connector, a StartTransaction a number given out.
CallsOK ==
    \A p \in pending :
        /\ p.action \in {"Authorize", "StartTransaction"} => p.connector \in Connectors
        /\ p.action = "StartTransaction" => p.tx \in Ids /\ p.tx < nextStart

\* A number in flight is in one call, is held by no connector and was never
\* named in a StopTransaction.
StartsUnused ==
    \A p \in Starts :
        /\ \A q \in Starts : p.tx = q.tx => p = q
        /\ stops[p.tx] = 0
        /\ \A c \in Connectors : tx[c].id # p.tx

\* Only numbers given out are held or stopped, and a transaction that charges
\* has not been stopped before.
StopsStarted ==
    /\ \A c \in Connectors : tx[c].id < nextStart
    /\ \A i \in Ids : i >= nextStart => stops[i] = 0
    /\ \A c \in ChargingTx : stops[tx[c].id] = 0

Numbers == CallsOK /\ StartsUnused /\ StopsStarted /\ IdHeldOnce /\ StopOnce

Session == StopHasDeadline /\ MeterTimerRuns /\ ChargingIsBacked

IInv == TypeOK /\ Numbers /\ Session

-----------------------------------------------------------------------------
(* Types of the pieces that actions are made of.                           *)

\* The initial state.
LEMMA InitIInv == Init => IInv
<1> SUFFICES ASSUME Init PROVE IInv
  OBVIOUS
<1> USE BoundsAssumption DEF Init, Ids, NoTx, Starts, ChargingTx, Stopping
<1>1. TypeOK
  <2>1. conn \in [Connectors -> ConnectorState]
    <3>1. [status |-> "Available", cable |-> FALSE, inoperative |-> FALSE] \in ConnectorState
      BY DEF ConnectorState, Statuses
    <3>2. QED  BY <3>1
  <2>2. open \in BOOLEAN /\ meterTimer \in BOOLEAN
    BY Zenon
  <2>3. QED  BY <2>1, <2>2 DEF TypeOK, TxState
<1>2. Numbers
  BY DEF Numbers, CallsOK, StartsUnused, StopsStarted, IdHeldOnce, StopOnce
<1>3. Session
  BY DEF Session, StopHasDeadline, MeterTimerRuns, ChargingIsBacked
<1>4. QED  BY <1>1, <1>2, <1>3 DEF IInv

\* setTimeout and the callback of an armed timer leave every other timer.
LEMMA ArmTyped ==
  ASSUME TypeOK, NEW k \in TimerKeys, Arm(k)
  PROVE  timers' \in [TimerKeys -> Nat] /\ \A j \in TimerKeys : timers'[j] >= timers[j]
BY DEF TypeOK, Arm

LEMMA FiredTyped ==
  ASSUME TypeOK, NEW k \in TimerKeys, Armed(k), Fired(k)
  PROVE  timers' \in [TimerKeys -> Nat] /\ \A j \in TimerKeys \ {k} : timers'[j] = timers[j]
BY DEF TypeOK, Armed, Fired

LEMMA KeysTyped ==
  ASSUME NEW c \in Connectors
  PROVE  /\ <<"remoteStart", c>> \in TimerKeys
         /\ <<"remoteStop", c>> \in TimerKeys
         /\ <<"stopTimeout", c>> \in TimerKeys
         /\ <<"triggerStatus", c>> \in TimerKeys
BY DEF TimerKeys

LEMMA StationKeysTyped ==
  /\ <<"reset", 0>> \in TimerKeys
  /\ <<"bootRetry", 0>> \in TimerKeys
  /\ <<"triggerBoot", 0>> \in TimerKeys
  /\ <<"initialStatus", 0>> \in TimerKeys
BY DEF TimerKeys

\* A BootNotification or an Authorize is no StartTransaction.
LEMMA SendCallTyped ==
  ASSUME TypeOK, CallsOK, NEW a \in {"BootNotification", "Authorize"},
         NEW c \in Connectors \cup {0}, a = "Authorize" => c \in Connectors,
         nextStart' = nextStart,
         SendCall(a, c)
  PROVE  pending' \subseteq Calls /\ Starts' = Starts /\ CallsOK'
<1>1. CASE ~open
  BY <1>1 DEF SendCall, TypeOK, Starts, CallsOK
<1>2. CASE open
  <2>1. PICK n \in 1 .. MaxCalls : pending' = pending \cup {Call(a, c, 0, n)}
    BY <1>2 DEF SendCall, Send, Unused
  <2>2. Call(a, c, 0, n) \in Calls
    BY BoundsAssumption DEF Call, Calls
  <2>3. QED  BY <2>1, <2>2 DEF TypeOK, Starts, CallsOK, Call
<1>3. QED  BY <1>1, <1>2

LEMMA ReportTyped ==
  ASSUME NEW S, NEW r \in [Connectors -> Statuses], Report(S, r)
  PROVE  notified' \in [Connectors -> Statuses \cup {"none"}]
BY DEF Report

LEMMA SilentTyped ==
  ASSUME Silent
  PROVE  notified' \in [Connectors -> Statuses \cup {"none"}]
BY DEF Silent

\* Writing a connector's status, with or without unplugging it.
LEMMA SetStatusTyped ==
  ASSUME TypeOK, NEW c \in Connectors, NEW s \in Statuses,
         SetStatus(c, s) \/ SetIdle(c, s)
  PROVE  /\ conn' \in [Connectors -> ConnectorState]
         /\ \A d \in Connectors : conn'[d].status = IF d = c THEN s ELSE conn[d].status
<1>1. conn[c] \in ConnectorState
  BY DEF TypeOK
<1>2. CASE SetStatus(c, s)
  <2> DEFINE r == [conn[c] EXCEPT !.status = s]
  <2>1. r \in ConnectorState /\ r.status = s
    BY <1>1 DEF ConnectorState
  <2>2. conn' = [conn EXCEPT ![c] = r]
    BY <1>2 DEF SetStatus
  <2> HIDE DEF r
  <2>3. QED  BY <2>1, <2>2 DEF TypeOK
<1>3. CASE SetIdle(c, s)
  <2> DEFINE r == [conn[c] EXCEPT !.status = s, !.cable = FALSE]
  <2>1. r \in ConnectorState /\ r.status = s
    BY <1>1 DEF ConnectorState
  <2>2. conn' = [conn EXCEPT ![c] = r]
    BY <1>3 DEF SetIdle
  <2> HIDE DEF r
  <2>3. QED  BY <2>1, <2>2 DEF TypeOK
<1>4. QED  BY <1>2, <1>3

-----------------------------------------------------------------------------
(* The kinds of steps, by what they do to the transactions.                *)

\* No transaction changes.  Timers of transactions being stopped stay armed.
Quiet ==
    /\ UNCHANGED sessionVars
    /\ Starts' \subseteq Starts
    /\ \A c \in Connectors : conn'[c].status = "Charging" => conn[c].status = "Charging"
    /\ \A c \in Stopping : timers'[<<"stopTimeout", c>>] >= timers[<<"stopTimeout", c>>]

\* The entry of c is deleted.
Frees(c) ==
    /\ DeleteTx(c)
    /\ UNCHANGED <<nextStart, stops>>
    /\ Starts' \subseteq Starts
    /\ meterTimer /\ ChargingTx \ {c} # {} => meterTimer'
    /\ conn'[c].status # "Charging"
    /\ \A d \in Connectors : conn'[d].status = "Charging" => conn[d].status = "Charging"
    /\ \A d \in Stopping \ {c} : timers'[<<"stopTimeout", d>>] >= timers[<<"stopTimeout", d>>]

\* The transactions of S are stopped, and the timers of their stops armed.
StopsAll(S) ==
    /\ StopInternal(S)
    /\ UNCHANGED <<nextStart, meterTimer>>
    /\ \A c \in Connectors :
          conn'[c].status = "Charging" => conn[c].status = "Charging" /\ c \notin S
    /\ \A c \in S : timers'[<<"stopTimeout", c>>] > 0
    /\ \A c \in Connectors : timers'[<<"stopTimeout", c>>] >= timers[<<"stopTimeout", c>>]

\* Nothing that the invariants relate changes in a quiet step.
LEMMA QuietKeeps ==
  ASSUME IInv, timers' \in [TimerKeys -> Nat], CallsOK', Quiet
  PROVE  Numbers' /\ Session'
<1> USE DEF Quiet, sessionVars, ChargingTx, Stopping
<1>1. StartsUnused'
  BY DEF IInv, Numbers, StartsUnused
<1>2. StopsStarted' /\ IdHeldOnce' /\ StopOnce'
  BY DEF IInv, Numbers, StopsStarted, IdHeldOnce, StopOnce
<1>3. StopHasDeadline'
  <2> SUFFICES ASSUME NEW c \in Stopping PROVE timers'[<<"stopTimeout", c>>] > 0
    BY DEF StopHasDeadline, Armed
  <2>1. timers[<<"stopTimeout", c>>] \in Nat /\ timers'[<<"stopTimeout", c>>] \in Nat
    BY KeysTyped DEF IInv, TypeOK
  <2>2. timers[<<"stopTimeout", c>>] > 0
    BY DEF IInv, Session, StopHasDeadline, Armed
  <2>3. QED  BY <2>1, <2>2
<1>4. MeterTimerRuns'
  BY DEF IInv, Session, MeterTimerRuns
<1>5. ChargingIsBacked'
  BY DEF IInv, Session, ChargingIsBacked
<1>6. QED  BY <1>1, <1>2, <1>3, <1>4, <1>5 DEF Numbers, Session

\* A number that was held is free of the connector for ever.
LEMMA FreesKeeps ==
  ASSUME IInv, timers' \in [TimerKeys -> Nat], CallsOK', NEW c \in Connectors, Frees(c)
  PROVE  /\ tx' \in [Connectors -> TxState]
         /\ older' \subseteq Connectors \X Connectors
         /\ \A d \in Connectors : tx'[d].id = 0 <=> tx'[d].status \in {"none", "preparing"}
         /\ Numbers' /\ Session'
<1> USE DEF Frees
<1>0. /\ tx \in [Connectors -> TxState]
      /\ nextStart \in Nat /\ nextStart >= 1
  BY BoundsAssumption DEF IInv, TypeOK
<1>1. \A d \in Connectors : tx'[d] = IF d = c THEN NoTx ELSE tx[d]
  BY <1>0 DEF DeleteTx
<1>2. tx' \in [Connectors -> TxState]
  <2>1. NoTx \in TxState
    BY BoundsAssumption DEF NoTx, TxState
  <2>2. QED  BY <1>0, <2>1 DEF DeleteTx
<1>3. older' \subseteq Connectors \X Connectors
  BY DEF DeleteTx, IInv, TypeOK
<1>4. \A d \in Connectors : tx'[d].id = 0 <=> tx'[d].status \in {"none", "preparing"}
  BY <1>1 DEF NoTx, IInv, TypeOK
<1>5. StartsUnused'
  <2>1. \A p \in Starts : p.tx # 0
    BY DEF IInv, Numbers, CallsOK, Starts, Ids
  <2>2. QED  BY <1>1, <2>1 DEF IInv, Numbers, StartsUnused, NoTx
<1>6. StopsStarted'
  BY <1>0, <1>1 DEF IInv, Numbers, StopsStarted, NoTx, ChargingTx
<1>7. IdHeldOnce'
  BY <1>1 DEF IInv, Numbers, IdHeldOnce, NoTx
<1>8. StopOnce'
  BY DEF IInv, Numbers, StopOnce
<1>9. StopHasDeadline'
  <2> SUFFICES ASSUME NEW d \in Stopping' PROVE timers'[<<"stopTimeout", d>>] > 0
    BY DEF StopHasDeadline, Armed
  <2>1. d \in Stopping \ {c} /\ d \in Connectors
    BY <1>1 DEF Stopping, NoTx
  <2>2. timers[<<"stopTimeout", d>>] \in Nat /\ timers'[<<"stopTimeout", d>>] \in Nat
    BY <2>1, KeysTyped DEF IInv, TypeOK
  <2>3. timers[<<"stopTimeout", d>>] > 0
    BY <2>1 DEF IInv, Session, StopHasDeadline, Armed
  <2>4. QED  BY <2>1, <2>2, <2>3
<1>10. MeterTimerRuns'
  <2>1. ChargingTx' = ChargingTx \ {c}
    BY <1>1 DEF ChargingTx, NoTx
  <2>2. QED  BY <2>1 DEF IInv, Session, MeterTimerRuns
<1>11. ChargingIsBacked'
  BY <1>1 DEF IInv, Session, ChargingIsBacked
<1>12. QED
  BY <1>2, <1>3, <1>4, <1>5, <1>6, <1>7, <1>8, <1>9, <1>10, <1>11 DEF Numbers, Session

\* stopConnectorTransactionInternal for any set of charging transactions: their
\* ids are distinct and were not stopped before, so each is stopped once.
LEMMA StopsAllKeeps ==
  ASSUME IInv, timers' \in [TimerKeys -> Nat],
         NEW S \in SUBSET ChargingTx, StopsAll(S)
  PROVE  /\ tx' \in [Connectors -> TxState]
         /\ pending' \subseteq Calls
         /\ stops' \in [Ids -> Nat]
         /\ \A d \in Connectors : tx'[d].id = 0 <=> tx'[d].status \in {"none", "preparing"}
         /\ Numbers' /\ Session'
<1> USE BoundsAssumption DEF StopsAll, StopInternal
<1>0. /\ tx \in [Connectors -> TxState]
      /\ stops \in [Ids -> Nat]
      /\ nextStart \in Nat
      /\ pending \subseteq Calls
      /\ S \subseteq Connectors
  BY DEF IInv, TypeOK, ChargingTx
<1>1. \A d \in Connectors :
          /\ tx'[d].id = tx[d].id
          /\ tx'[d].status = IF d \in S THEN "finishing" ELSE tx[d].status
          /\ tx'[d] \in TxState
  BY <1>0 DEF TxState
<1>2. tx' \in [Connectors -> TxState]
  BY <1>1
<1>3. \A c \in S : Call("StopTransaction", c, tx[c].id, 0) \in Calls
  BY <1>0 DEF Call, Calls, TxState
<1>4. pending' \subseteq Calls
  BY <1>0, <1>3
<1>5. stops' \in [Ids -> Nat]
  BY <1>0
<1>6. \A c \in S : tx[c].status = "charging" /\ tx[c].id # 0
  BY DEF IInv, TypeOK, ChargingTx
<1>7. \A d \in Connectors : tx'[d].id = 0 <=> tx'[d].status \in {"none", "preparing"}
  BY <1>0, <1>1, <1>6 DEF IInv, TypeOK
<1>8. Starts' = Starts
  BY DEF Starts, Call
<1>9. CallsOK'
  BY DEF IInv, Numbers, CallsOK, Call
<1>10. StartsUnused'
  <2>1. ASSUME NEW p \in Starts
        PROVE  /\ p.tx \in Ids
               /\ stops'[p.tx] = 0
    BY <1>0 DEF IInv, Numbers, CallsOK, StartsUnused, Starts
  <2>2. QED  BY <1>1, <1>8, <2>1 DEF IInv, Numbers, StartsUnused
<1>11. StopsStarted'
  <2>1. \A c \in Connectors : tx'[c].id < nextStart'
    BY <1>1 DEF IInv, Numbers, StopsStarted
  <2>2. \A i \in Ids : i >= nextStart' => stops'[i] = 0
    BY <1>0 DEF IInv, Numbers, StopsStarted, TxState, Ids
  <2>3. ASSUME NEW c \in ChargingTx'
        PROVE  stops'[tx'[c].id] = 0
    <3>1. c \in Connectors /\ c \in ChargingTx /\ c \notin S
      BY <1>1 DEF ChargingTx
    <3>2. tx[c].id \in Ids
      <4>1. tx[c].id \in 0 .. MaxStarts
        BY <1>0, <3>1 DEF TxState
      <4>2. tx[c].id # 0
        BY <3>1 DEF IInv, TypeOK, ChargingTx
      <4>3. QED  BY <4>1, <4>2 DEF Ids
    <3>3. \A d \in S : tx[d].id # tx[c].id
      BY <1>0, <1>6, <3>1 DEF IInv, Numbers, IdHeldOnce
    <3>4. QED  BY <1>1, <3>1, <3>2, <3>3 DEF IInv, Numbers, StopsStarted
  <2>4. QED  BY <2>1, <2>2, <2>3 DEF StopsStarted
<1>12. IdHeldOnce'
  BY <1>1 DEF IInv, Numbers, IdHeldOnce
<1>13. StopOnce'
  <2>1. \A c \in S : stops[tx[c].id] = 0
    BY DEF IInv, Numbers, StopsStarted
  <2>2. QED  BY <1>0, <2>1 DEF IInv, Numbers, StopOnce
<1>14. StopHasDeadline'
  <2> SUFFICES ASSUME NEW d \in Stopping' PROVE timers'[<<"stopTimeout", d>>] > 0
    BY DEF StopHasDeadline, Armed
  <2>1. d \in Connectors /\ (d \in S \/ d \in Stopping)
    BY <1>1 DEF Stopping
  <2>2. timers[<<"stopTimeout", d>>] \in Nat /\ timers'[<<"stopTimeout", d>>] \in Nat
    BY <2>1, KeysTyped DEF IInv, TypeOK
  <2>3. CASE d \in S
    BY <2>3
  <2>4. CASE d \in Stopping
    <3>1. timers[<<"stopTimeout", d>>] > 0
      BY <2>4 DEF IInv, Session, StopHasDeadline, Armed
    <3>2. QED  BY <2>1, <2>2, <3>1
  <2>5. QED  BY <2>1, <2>3, <2>4
<1>15. MeterTimerRuns'
  <2>1. ChargingTx' \subseteq ChargingTx
    BY <1>1 DEF ChargingTx
  <2>2. QED  BY <2>1 DEF IInv, Session, MeterTimerRuns
<1>16. ChargingIsBacked'
  BY <1>1 DEF IInv, Session, ChargingIsBacked
<1>17. QED
  BY <1>2, <1>4, <1>5, <1>7, <1>9, <1>10, <1>11, <1>12, <1>13, <1>14, <1>15, <1>16
  DEF Numbers, Session

\* What is left of the type invariant when the transactions are taken care of.
OthersTyped ==
    /\ open' \in BOOLEAN
    /\ registration' \in {"disconnected", "pending", "accepted", "rejected"}
    /\ conn' \in [Connectors -> ConnectorState]
    /\ pending' \subseteq Calls
    /\ timers' \in [TimerKeys -> Nat]
    /\ notified' \in [Connectors -> Statuses \cup {"none"}]

LEMMA QuietStep ==
  ASSUME IInv, OthersTyped, CallsOK', Quiet
  PROVE  IInv'
<1>1. Numbers' /\ Session'
  BY QuietKeeps DEF OthersTyped
<1>2. TypeOK'
  BY DEF IInv, TypeOK, OthersTyped, Quiet, sessionVars
<1>3. QED  BY <1>1, <1>2 DEF IInv

LEMMA FreesStep ==
  ASSUME IInv, OthersTyped, meterTimer' \in BOOLEAN, CallsOK',
         NEW c \in Connectors, Frees(c)
  PROVE  IInv'
<1>1. /\ tx' \in [Connectors -> TxState]
      /\ older' \subseteq Connectors \X Connectors
      /\ \A d \in Connectors : tx'[d].id = 0 <=> tx'[d].status \in {"none", "preparing"}
      /\ Numbers' /\ Session'
  BY FreesKeeps DEF OthersTyped
<1>2. nextStart' = nextStart /\ stops' = stops
  BY DEF Frees
<1>3. TypeOK'
  BY <1>1, <1>2 DEF IInv, TypeOK, OthersTyped
<1>4. QED  BY <1>1, <1>3 DEF IInv

LEMMA StopsAllStep ==
  ASSUME IInv, UNCHANGED <<open, registration, older>>,
         conn' \in [Connectors -> ConnectorState],
         timers' \in [TimerKeys -> Nat],
         notified' \in [Connectors -> Statuses \cup {"none"}],
         NEW S \in SUBSET ChargingTx, StopsAll(S)
  PROVE  IInv'
<1>1. /\ tx' \in [Connectors -> TxState]
      /\ pending' \subseteq Calls
      /\ stops' \in [Ids -> Nat]
      /\ \A d \in Connectors : tx'[d].id = 0 <=> tx'[d].status \in {"none", "preparing"}
      /\ Numbers' /\ Session'
  BY StopsAllKeeps
<1>2. nextStart' = nextStart /\ meterTimer' = meterTimer
  BY DEF StopsAll
<1>3. TypeOK'
  BY <1>1, <1>2 DEF IInv, TypeOK
<1>4. QED  BY <1>1, <1>3 DEF IInv

\* An answer takes its call out of pendingCalls.
LEMMA AnsweredKeeps ==
  ASSUME TypeOK, CallsOK, nextStart' = nextStart, NEW p, NEW a, Answered(p, a)
  PROVE  /\ pending' \subseteq Calls
         /\ CallsOK'
         /\ Starts' \subseteq Starts
         /\ a \in {"Authorize", "StartTransaction"} => p.connector \in Connectors
BY DEF TypeOK, CallsOK, Answered, Starts

StopTimersKept ==
    \A c \in Connectors : timers'[<<"stopTimeout", c>>] >= timers[<<"stopTimeout", c>>]

\* Arming and firing any other timer leaves those of the stops.
LEMMA OtherTimers ==
  ASSUME TypeOK, NEW k \in TimerKeys, \A c \in Connectors : k # <<"stopTimeout", c>>,
         Arm(k) \/ (Armed(k) /\ Fired(k)) \/ UNCHANGED timers
  PROVE  timers' \in [TimerKeys -> Nat] /\ StopTimersKept
<1>1. timers \in [TimerKeys -> Nat]
  BY DEF TypeOK
<1>2. timers' \in [TimerKeys -> Nat]
  BY <1>1, ArmTyped, FiredTyped
<1>3. ASSUME NEW c \in Connectors
      PROVE  timers'[<<"stopTimeout", c>>] >= timers[<<"stopTimeout", c>>]
  <2>1. <<"stopTimeout", c>> \in TimerKeys /\ k # <<"stopTimeout", c>>
    BY KeysTyped
  <2>2. timers[<<"stopTimeout", c>>] \in Nat
    BY <1>1, <2>1
  <2>3. CASE Arm(k)
    BY <2>1, <2>3, ArmTyped
  <2>4. CASE Armed(k) /\ Fired(k)
    BY <2>1, <2>2, <2>4, FiredTyped
  <2>5. CASE UNCHANGED timers
    BY <2>2, <2>5
  <2>6. QED  BY <2>3, <2>4, <2>5
<1>4. QED  BY <1>2, <1>3 DEF StopTimersKept

LEMMA SameTimers ==
  ASSUME TypeOK, UNCHANGED timers
  PROVE  StopTimersKept
BY OtherTimers, StationKeysTyped

\* A callback that leaves the transactions and the socket alone.
LEMMA CalmStep ==
  ASSUME IInv, UNCHANGED sessionVars, open' \in BOOLEAN,
         registration' \in {"disconnected", "pending", "accepted", "rejected"},
         pending' \subseteq Calls, CallsOK', Starts' \subseteq Starts,
         conn' \in [Connectors -> ConnectorState],
         \A c \in Connectors : conn'[c].status = "Charging" => conn[c].status = "Charging",
         notified' \in [Connectors -> Statuses \cup {"none"}],
         timers' \in [TimerKeys -> Nat], StopTimersKept
  PROVE  IInv'
<1>1. OthersTyped
  BY DEF OthersTyped
<1>2. Quiet
  BY DEF Quiet, StopTimersKept, Stopping
<1>3. QED  BY <1>1, <1>2, QuietStep

-----------------------------------------------------------------------------
(* One lemma per group of actions.                                         *)

LEMMA SocketKeeps == IInv /\ Socket => IInv'
<1> SUFFICES ASSUME IInv, Socket PROVE IInv'
  OBVIOUS
<1> USE DEF sessionVars
<1>1. CASE SocketOpens
  <2>0. nextStart' = nextStart /\ open' = TRUE
    BY <1>1 DEF SocketOpens
  <2>1. PICK n \in 1 .. MaxCalls : pending' = pending \cup {Call("BootNotification", 0, 0, n)}
    BY <1>1 DEF SocketOpens, Send, Unused
  <2>2. Call("BootNotification", 0, 0, n) \in Calls
    BY BoundsAssumption DEF Call, Calls
  <2>3. pending' \subseteq Calls /\ Starts' = Starts /\ CallsOK'
    BY <2>0, <2>1, <2>2 DEF IInv, TypeOK, Numbers, Starts, CallsOK, Call
  <2>4. OthersTyped
    BY <1>1, <2>3, SilentTyped DEF SocketOpens, OthersTyped, IInv, TypeOK
  <2>5. Quiet
    <3>1. UNCHANGED sessionVars /\ UNCHANGED <<conn, timers>>
      BY <1>1 DEF SocketOpens
    <3>2. \A c \in Stopping : timers[<<"stopTimeout", c>>] \in Nat
      BY KeysTyped DEF IInv, TypeOK, Stopping
    <3>3. QED  BY <2>3, <3>1, <3>2 DEF Quiet
  <2>6. QED  BY <2>3, <2>4, <2>5, QuietStep
<1>2. CASE SocketCloses \/ SocketErrors
  <2>1. UNCHANGED sessionVars /\ UNCHANGED <<conn, timers, pending>> /\ open' = FALSE
    BY <1>2 DEF SocketCloses, SocketErrors
  <2>2. Silent /\ registration' \in {registration, "disconnected"}
    BY <1>2 DEF SocketCloses, SocketErrors
  <2>3. OthersTyped
    BY <2>1, <2>2, SilentTyped DEF OthersTyped, IInv, TypeOK
  <2>4. CallsOK' /\ Starts' = Starts
    BY <2>1 DEF IInv, Numbers, CallsOK, Starts
  <2>5. \A c \in Stopping : timers[<<"stopTimeout", c>>] \in Nat
    BY KeysTyped DEF IInv, TypeOK, Stopping
  <2>6. QED  BY <2>1, <2>3, <2>4, <2>5, QuietStep DEF Quiet
<1>3. QED  BY <1>1, <1>2 DEF Socket

\* Timers that only notify or boot.
LEMMA StationTimersKeep ==
  ASSUME IInv, InitialStatusFires \/ BootRetryFires \/ ResetFires \/ TriggerBootFires
  PROVE  IInv'
<1> USE DEF sessionVars
<1>0. TypeOK /\ CallsOK
  BY DEF IInv, Numbers
<1>1. UNCHANGED sessionVars /\ UNCHANGED <<open, registration>>
  BY DEF InitialStatusFires, BootRetryFires, ResetFires, TriggerBootFires
<1>2. timers' \in [TimerKeys -> Nat] /\ StopTimersKept
  <2>1. \E k \in {<<"initialStatus", 0>>, <<"bootRetry", 0>>, <<"reset", 0>>,
                  <<"triggerBoot", 0>>} : Armed(k) /\ Fired(k)
    BY DEF InitialStatusFires, BootRetryFires, ResetFires, TriggerBootFires
  <2>2. QED  BY <1>0, <2>1, OtherTimers, StationKeysTyped
<1>3. pending' \subseteq Calls /\ CallsOK' /\ Starts' \subseteq Starts
  <2>1. nextStart' = nextStart
    BY <1>1
  <2>2. CASE SendCall("BootNotification", 0)
    BY <1>0, <2>1, <2>2, SendCallTyped
  <2>3. CASE UNCHANGED pending
    BY <1>0, <2>1, <2>3 DEF TypeOK, CallsOK, Starts
  <2>4. QED
    BY <2>2, <2>3 DEF InitialStatusFires, BootRetryFires, ResetFires, TriggerBootFires
<1>4. /\ conn' \in [Connectors -> ConnectorState]
      /\ \A c \in Connectors : conn'[c].status = "Charging" => conn[c].status = "Charging"
  <2>1. CASE ResetFires
    <3> DEFINE S == {c \in Connectors : conn[c].status # "Unavailable"}
    <3>1. conn' = [c \in Connectors |->
                      IF c \in S
                      THEN [conn[c] EXCEPT !.status = "Available", !.cable = FALSE]
                      ELSE conn[c]]
      BY <2>1 DEF ResetFires
    <3>2. \A c \in Connectors :
              /\ conn[c] \in ConnectorState
              /\ [conn[c] EXCEPT !.status = "Available", !.cable = FALSE] \in ConnectorState
              /\ [conn[c] EXCEPT !.status = "Available", !.cable = FALSE].status = "Available"
      BY <1>0 DEF TypeOK, ConnectorState, Statuses
    <3> HIDE DEF S
    <3>3. QED  BY <3>1, <3>2
  <2>2. CASE UNCHANGED conn
    BY <1>0, <2>2 DEF TypeOK
  <2>3. QED
    BY <2>1, <2>2 DEF InitialStatusFires, BootRetryFires, TriggerBootFires
<1>5. notified' \in [Connectors -> Statuses \cup {"none"}]
  <2>1. [c \in Connectors |-> "Available"] \in [Connectors -> Statuses]
    BY DEF Statuses
  <2>2. QED
    BY <2>1, ReportTyped, SilentTyped
    DEF InitialStatusFires, BootRetryFires, ResetFires, TriggerBootFires
<1>6. open' \in BOOLEAN /\ registration' \in {"disconnected", "pending", "accepted", "rejected"}
  BY <1>0, <1>1 DEF TypeOK
<1>7. QED  BY <1>1, <1>2, <1>3, <1>4, <1>5, <1>6, CalmStep

\* finishStoppedTransaction, for a transaction that is being stopped: its
\* connector does not show Charging.
LEMMA FinishStoppedKeeps ==
  ASSUME IInv, NEW c \in Stopping, FinishStopped(c),
         UNCHANGED <<open, registration, nextStart, stops>>,
         pending' \subseteq Calls, CallsOK', Starts' \subseteq Starts,
         timers' \in [TimerKeys -> Nat],
         \A d \in Connectors \ {c} :
            timers'[<<"stopTimeout", d>>] >= timers[<<"stopTimeout", d>>]
  PROVE  IInv'
<1>0. TypeOK /\ c \in Connectors /\ conn[c].status # "Charging"
  BY DEF IInv, Session, ChargingIsBacked, Stopping
<1>1. "Unavailable" \in Statuses
  BY DEF Statuses
<1>2. /\ conn' \in [Connectors -> ConnectorState]
      /\ \A d \in Connectors : conn'[d].status = "Charging" => conn[d].status = "Charging"
      /\ conn'[c].status # "Charging"
  <2>1. CASE SetIdle(c, "Unavailable")
    BY <1>0, <1>1, <2>1, SetStatusTyped
  <2>2. CASE UNCHANGED conn
    BY <1>0, <2>2 DEF TypeOK
  <2>3. QED  BY <2>1, <2>2 DEF FinishStopped
<1>3. notified' \in [Connectors -> Statuses \cup {"none"}]
  BY <1>1, ReportTyped, SilentTyped DEF FinishStopped
<1>4. /\ meterTimer' \in BOOLEAN
      /\ meterTimer /\ ChargingTx \ {c} # {} => meterTimer'
  BY DEF FinishStopped
<1>5. Frees(c)
  BY <1>2, <1>4 DEF Frees, FinishStopped, Stopping
<1>6. OthersTyped
  BY <1>0, <1>2, <1>3 DEF OthersTyped, TypeOK
<1>7. QED  BY <1>0, <1>4, <1>5, <1>6, FreesStep

\* The timers and the connectors of stopConnectorTransactionInternal.
LEMMA ArmStopTimeoutsTyped ==
  ASSUME TypeOK, NEW S \in SUBSET Connectors, NEW t \in [TimerKeys -> Nat],
         \A c \in Connectors : t[<<"stopTimeout", c>>] = timers[<<"stopTimeout", c>>],
         timers' = ArmStopTimeouts(S, t)
  PROVE  /\ timers' \in [TimerKeys -> Nat]
         /\ StopTimersKept
         /\ \A c \in S : timers'[<<"stopTimeout", c>>] > 0
<1>1. timers' \in [TimerKeys -> Nat]
  BY DEF ArmStopTimeouts
<1>2. ASSUME NEW c \in Connectors
      PROVE  /\ timers[<<"stopTimeout", c>>] \in Nat
             /\ timers'[<<"stopTimeout", c>>] = IF c \in S THEN timers[<<"stopTimeout", c>>] + 1
                                                ELSE timers[<<"stopTimeout", c>>]
  <2>1. <<"stopTimeout", c>> \in TimerKeys
    BY KeysTyped
  <2>2. (\E d \in S : <<"stopTimeout", c>> = <<"stopTimeout", d>>) <=> c \in S
    OBVIOUS
  <2>3. QED  BY <2>1, <2>2 DEF ArmStopTimeouts, TypeOK
<1>3. QED  BY <1>1, <1>2 DEF StopTimersKept

LEMMA StoppedConnTyped ==
  ASSUME TypeOK, NEW S \in SUBSET Connectors, conn' = StoppedConn(S)
  PROVE  /\ conn' \in [Connectors -> ConnectorState]
         /\ \A c \in Connectors :
               conn'[c].status = "Charging" => conn[c].status = "Charging" /\ c \notin S
<1>1. \A c \in Connectors :
          /\ conn[c] \in ConnectorState
          /\ [conn[c] EXCEPT !.status = "Finishing"] \in ConnectorState
          /\ [conn[c] EXCEPT !.status = "Finishing"].status = "Finishing"
  BY DEF TypeOK, ConnectorState, Statuses
<1>2. QED  BY <1>1 DEF StoppedConn

\* Whoever stops: only charging transactions are stopped.
LEMMA StopInternalKeeps ==
  ASSUME IInv, NEW S \in SUBSET Connectors, \A c \in S : Stoppable(c),
         StopInternal(S),
         NEW t \in [TimerKeys -> Nat],
         \A c \in Connectors : t[<<"stopTimeout", c>>] = timers[<<"stopTimeout", c>>],
         timers' = ArmStopTimeouts(S, t),
         conn' \in [Connectors -> ConnectorState],
         \A c \in Connectors :
            conn'[c].status = "Charging" => conn[c].status = "Charging" /\ c \notin S,
         notified' \in [Connectors -> Statuses \cup {"none"}],
         UNCHANGED <<open, registration, older, meterTimer, nextStart>>
  PROVE  IInv'
<1>0. TypeOK
  BY DEF IInv
<1>1. S \in SUBSET ChargingTx
  BY DEF ChargingTx, Stoppable
<1>2. /\ timers' \in [TimerKeys -> Nat]
      /\ StopTimersKept
      /\ \A c \in S : timers'[<<"stopTimeout", c>>] > 0
  BY <1>0, ArmStopTimeoutsTyped
<1>3. StopsAll(S)
  BY <1>2 DEF StopsAll, StopTimersKept
<1>4. QED  BY <1>1, <1>2, <1>3, StopsAllStep

\* The timers of a connector.
LEMMA ConnectorTimersKeep ==
  ASSUME IInv, NEW c \in Connectors,
         \/ StopTimeoutFires(c) \/ RemoteStartFires(c) \/ RemoteStopFires(c)
         \/ TriggerStatusFires(c)
  PROVE  IInv'
<1> USE DEF sessionVars
<1>0. /\ TypeOK /\ CallsOK
      /\ open \in BOOLEAN
      /\ registration \in {"disconnected", "pending", "accepted", "rejected"}
      /\ timers \in [TimerKeys -> Nat]
  BY DEF IInv, Numbers, TypeOK
<1>k. /\ <<"remoteStart", c>> \in TimerKeys
      /\ <<"remoteStop", c>> \in TimerKeys
      /\ <<"stopTimeout", c>> \in TimerKeys
      /\ <<"triggerStatus", c>> \in TimerKeys
  BY KeysTyped
<1>1. CASE StopTimeoutFires(c)
  <2> USE <1>1 DEF StopTimeoutFires
  <2>1. /\ timers' \in [TimerKeys -> Nat]
        /\ \A j \in TimerKeys \ {<<"stopTimeout", c>>} : timers'[j] = timers[j]
    BY <1>0, <1>k, FiredTyped
  <2>2. \A d \in Connectors \ {c} :
            timers'[<<"stopTimeout", d>>] >= timers[<<"stopTimeout", d>>]
    <3> SUFFICES ASSUME NEW d \in Connectors \ {c}
                 PROVE  timers'[<<"stopTimeout", d>>] >= timers[<<"stopTimeout", d>>]
      OBVIOUS
    <3>1. <<"stopTimeout", d>> \in TimerKeys \ {<<"stopTimeout", c>>}
      BY KeysTyped
    <3>2. QED  BY <1>0, <2>1, <3>1
  <2>3. pending' \subseteq Calls /\ CallsOK' /\ Starts' \subseteq Starts
    BY <1>0 DEF TypeOK, CallsOK, Starts
  <2>4. CASE c \in Stopping
    <3>1. FinishStopped(c)
      BY <2>4
    <3>2. QED  BY <2>1, <2>2, <2>3, <2>4, <3>1, FinishStoppedKeeps
  <2>5. CASE c \notin Stopping
    <3>1. Silent /\ UNCHANGED <<conn, tx, older, meterTimer>>
      BY <2>5
    <3>2. OthersTyped
      BY <1>0, <2>1, <2>3, <3>1, SilentTyped DEF OthersTyped, TypeOK
    <3>3. Quiet
      BY <2>2, <2>3, <2>5, <3>1 DEF Quiet, Stopping
    <3>4. QED  BY <2>3, <3>2, <3>3, QuietStep
  <2>6. QED  BY <2>4, <2>5
<1>2. CASE RemoteStartFires(c)
  <2> USE <1>2 DEF RemoteStartFires
  <2>1. timers' \in [TimerKeys -> Nat] /\ StopTimersKept
    BY <1>0, <1>k, OtherTimers
  <2>2. /\ conn' \in [Connectors -> ConnectorState]
        /\ \A d \in Connectors : conn'[d].status = "Charging" => conn[d].status = "Charging"
    <3> DEFINE r == [conn[c] EXCEPT !.status = "Preparing", !.cable = TRUE]
    <3>1. r \in ConnectorState /\ r.status = "Preparing"
      BY <1>0 DEF TypeOK, ConnectorState, Statuses
    <3>2. conn' = [conn EXCEPT ![c] = r] \/ conn' = conn
      OBVIOUS
    <3> HIDE DEF r
    <3>3. QED  BY <1>0, <3>1, <3>2 DEF TypeOK
  <2>3. notified' \in [Connectors -> Statuses \cup {"none"}]
    <3>1. [d \in Connectors |-> "Preparing"] \in [Connectors -> Statuses]
      BY DEF Statuses
    <3>2. QED  BY <3>1, ReportTyped, SilentTyped
  <2>4. pending' \subseteq Calls /\ CallsOK' /\ Starts' \subseteq Starts
    <3>1. CASE SendCall("Authorize", c)
      BY <1>0, <3>1, SendCallTyped
    <3>2. CASE UNCHANGED pending
      BY <1>0, <3>2 DEF TypeOK, CallsOK, Starts
    <3>3. QED  BY <3>1, <3>2
  <2>5. QED  BY <1>0, <2>1, <2>2, <2>3, <2>4, CalmStep
<1>3. CASE RemoteStopFires(c)
  <2> DEFINE S == {d \in {c} : Stoppable(d)}
             t == [timers EXCEPT ![<<"remoteStop", c>>] = @ - 1]
  <2>1. S \in SUBSET Connectors /\ \A d \in S : Stoppable(d)
    OBVIOUS
  <2>2. t \in [TimerKeys -> Nat]
    <3>1. timers[<<"remoteStop", c>>] > 0
      BY <1>3 DEF RemoteStopFires, Armed
    <3>2. QED  BY <1>0, <1>k, <3>1
  <2>3. \A d \in Connectors : t[<<"stopTimeout", d>>] = timers[<<"stopTimeout", d>>]
    BY <1>0, KeysTyped
  <2>4. timers' = ArmStopTimeouts(S, t) /\ StopInternal(S) /\ conn' = StoppedConn(S)
    BY <1>3 DEF RemoteStopFires
  <2>5. notified' \in [Connectors -> Statuses \cup {"none"}]
    <3>1. [d \in Connectors |-> "Finishing"] \in [Connectors -> Statuses]
      BY DEF Statuses
    <3>2. QED  BY <1>3, <3>1, ReportTyped DEF RemoteStopFires
  <2>6. UNCHANGED <<open, registration, older, meterTimer, nextStart>>
    BY <1>3 DEF RemoteStopFires
  <2> HIDE DEF S, t
  <2>7. QED
    BY <1>0, <2>1, <2>2, <2>3, <2>4, <2>5, <2>6, StoppedConnTyped, StopInternalKeeps
<1>4. CASE TriggerStatusFires(c)
  <2> USE <1>4 DEF TriggerStatusFires
  <2>1. timers' \in [TimerKeys -> Nat] /\ StopTimersKept
    BY <1>0, <1>k, OtherTimers
  <2>2. notified' \in [Connectors -> Statuses \cup {"none"}]
    <3>1. [d \in Connectors |-> conn[d].status] \in [Connectors -> Statuses]
      BY <1>0 DEF TypeOK, ConnectorState
    <3>2. QED  BY <3>1, ReportTyped
  <2>3. pending' \subseteq Calls /\ CallsOK' /\ Starts' \subseteq Starts
    BY <1>0 DEF TypeOK, CallsOK, Starts
  <2>4. conn' \in [Connectors -> ConnectorState]
    BY <1>0 DEF TypeOK
  <2>5. QED  BY <1>0, <2>1, <2>2, <2>3, <2>4, CalmStep
<1>5. QED  BY <1>1, <1>2, <1>3, <1>4

\* handleAuthorizeResponse: a number nobody has used goes into flight, and the
\* transaction the connector had, if any, is thrown away.
LEMMA AuthorizeAcceptedKeeps ==
  ASSUME IInv, NEW p \in pending, AuthorizeAccepted(p)
  PROVE  IInv'
<1> USE BoundsAssumption
<1> DEFINE c == p.connector
           new == Call("StartTransaction", c, nextStart, 0)
<1>0. /\ tx \in [Connectors -> TxState]
      /\ nextStart \in Ids
      /\ nextStart' = nextStart + 1
      /\ pending' = (pending \ {p}) \cup {new}
      /\ c \in Connectors
      /\ UNCHANGED <<open, registration, conn, timers, meterTimer, stops>>
  BY DEF AuthorizeAccepted, IInv, TypeOK, Numbers, CallsOK, Ids
<1>1. \A d \in Connectors :
          tx'[d] = IF d = c THEN [id |-> 0, status |-> "preparing"] ELSE tx[d]
  BY <1>0 DEF AuthorizeAccepted, InsertTx
<1>2. new \in Calls /\ new.action = "StartTransaction" /\ new.tx = nextStart /\ new.connector = c
  BY <1>0 DEF Call, Calls, Ids
<1> HIDE DEF new
<1>3. \A q \in Starts' : q \in Starts \/ q = new
  BY <1>0 DEF Starts
<1>4. TypeOK'
  <2>1. tx' \in [Connectors -> TxState]
    <3>1. [id |-> 0, status |-> "preparing"] \in TxState
      BY DEF TxState
    <3>2. QED  BY <1>0, <3>1 DEF AuthorizeAccepted, InsertTx
  <2>2. older' \subseteq Connectors \X Connectors
    BY <1>0 DEF AuthorizeAccepted, InsertTx, IInv, TypeOK
  <2>3. \A d \in Connectors : tx'[d].id = 0 <=> tx'[d].status \in {"none", "preparing"}
    BY <1>1 DEF IInv, TypeOK
  <2>4. pending' \subseteq Calls
    BY <1>0, <1>2 DEF IInv, TypeOK
  <2>5. nextStart' \in 1 .. MaxStarts + 1
    BY <1>0 DEF Ids
  <2>6. notified' \in [Connectors -> Statuses \cup {"none"}]
    BY SilentTyped DEF AuthorizeAccepted
  <2>7. QED  BY <1>0, <2>1, <2>2, <2>3, <2>4, <2>5, <2>6 DEF IInv, TypeOK
<1>5. CallsOK'
  BY <1>0, <1>2 DEF IInv, Numbers, CallsOK, Ids
<1>6. StartsUnused'
  <2>1. \A q \in Starts : q.tx \in Ids /\ q.tx < nextStart
    BY DEF IInv, Numbers, CallsOK, Starts
  <2>2. stops[nextStart] = 0
    BY <1>0 DEF IInv, Numbers, StopsStarted, Ids
  <2>3. \A d \in Connectors : tx[d].id # nextStart /\ tx[d].id \in Int
    BY <1>0 DEF IInv, Numbers, StopsStarted, TxState, Ids
  <2>4. ASSUME NEW q \in Starts'
        PROVE  /\ \A r \in Starts' : q.tx = r.tx => q = r
               /\ stops'[q.tx] = 0
    BY <1>0, <1>2, <1>3, <2>1, <2>2 DEF IInv, Numbers, StartsUnused, Ids
  <2>5. ASSUME NEW q \in Starts', NEW d \in Connectors
        PROVE  tx'[d].id # q.tx
    <3>1. q.tx # 0
      BY <1>0, <1>2, <1>3, <2>1 DEF Ids
    <3>2. tx[d].id # q.tx
      BY <1>2, <1>3, <2>3 DEF IInv, Numbers, StartsUnused
    <3>3. QED  BY <1>1, <3>1, <3>2
  <2>6. QED  BY <2>4, <2>5 DEF StartsUnused
<1>7. StopsStarted'
  <2>1. \A d \in Connectors : tx[d].id \in 0 .. MaxStarts /\ tx[d].id < nextStart
    BY <1>0 DEF IInv, Numbers, StopsStarted, TxState
  <2>2. \A d \in Connectors : tx'[d].id < nextStart'
    BY <1>0, <1>1, <2>1 DEF Ids
  <2>3. \A i \in Ids : i >= nextStart' => stops'[i] = 0
    BY <1>0 DEF IInv, Numbers, StopsStarted, Ids
  <2>4. \A d \in ChargingTx' : d \in ChargingTx /\ tx'[d] = tx[d]
    BY <1>1 DEF ChargingTx
  <2>5. QED  BY <1>0, <2>2, <2>3, <2>4 DEF IInv, Numbers, StopsStarted
<1>8. IdHeldOnce' /\ StopOnce'
  BY <1>0, <1>1 DEF IInv, Numbers, IdHeldOnce, StopOnce
<1>9. StopHasDeadline'
  <2>1. Stopping' \subseteq Stopping
    BY <1>1 DEF Stopping
  <2>2. QED  BY <1>0, <2>1 DEF IInv, Session, StopHasDeadline, Armed
<1>10. MeterTimerRuns'
  <2>1. ChargingTx' \subseteq ChargingTx
    BY <1>1 DEF ChargingTx
  <2>2. QED  BY <1>0, <2>1 DEF IInv, Session, MeterTimerRuns
<1>11. ChargingIsBacked'
  BY <1>0, <1>1 DEF IInv, Session, ChargingIsBacked
<1>12. QED
  BY <1>4, <1>5, <1>6, <1>7, <1>8, <1>9, <1>10, <1>11 DEF IInv, Numbers, Session

\* handleStartTransactionResponse: whichever transaction takes the number, it is
\* the only one that holds it.
LEMMA StartAcceptedKeeps ==
  ASSUME IInv, NEW p \in pending, StartAccepted(p)
  PROVE  IInv'
<1> USE BoundsAssumption
<1>0. /\ pending' = pending \ {p} /\ p \in Starts
      /\ p.tx \in Ids /\ p.tx < nextStart
      /\ stops[p.tx] = 0
      /\ \A d \in Connectors : tx[d].id # p.tx
      /\ tx \in [Connectors -> TxState]
      /\ meterTimer' = TRUE
      /\ UNCHANGED <<open, registration, older, timers, nextStart, stops>>
  BY DEF StartAccepted, Answered, IInv, TypeOK, Numbers, CallsOK, StartsUnused, Starts
<1>1. PICK c \in Unbound :
          /\ tx' = [tx EXCEPT ![c] = [id |-> p.tx, status |-> "charging"]]
          /\ SetStatus(c, "Charging")
          /\ Report({c}, [d \in Connectors |-> "Charging"])
  BY DEF StartAccepted
<1>2. c \in Connectors /\ "Charging" \in Statuses
  BY DEF Unbound, Statuses
<1>3. \A d \in Connectors :
          tx'[d] = IF d = c THEN [id |-> p.tx, status |-> "charging"] ELSE tx[d]
  BY <1>0, <1>1
<1>4. /\ conn' \in [Connectors -> ConnectorState]
      /\ \A d \in Connectors : conn'[d].status = IF d = c THEN "Charging" ELSE conn[d].status
  BY <1>1, <1>2, SetStatusTyped DEF IInv
<1>5. TypeOK'
  <2>1. tx' \in [Connectors -> TxState]
    <3>1. [id |-> p.tx, status |-> "charging"] \in TxState
      BY <1>0 DEF TxState, Ids
    <3>2. QED  BY <1>0, <1>1, <3>1
  <2>2. \A d \in Connectors : tx'[d].id = 0 <=> tx'[d].status \in {"none", "preparing"}
    <3>1. p.tx # 0
      BY <1>0 DEF Ids
    <3>2. \A d \in Connectors : tx[d].id = 0 <=> tx[d].status \in {"none", "preparing"}
      BY DEF IInv, TypeOK
    <3>3. QED  BY <1>3, <3>1, <3>2
  <2>3. notified' \in [Connectors -> Statuses \cup {"none"}]
    <3>1. [d \in Connectors |-> "Charging"] \in [Connectors -> Statuses]
      BY <1>2
    <3>2. QED  BY <1>1, <3>1, ReportTyped
  <2>4. QED  BY <1>0, <1>4, <2>1, <2>2, <2>3 DEF IInv, TypeOK
<1>6. CallsOK'
  BY <1>0 DEF IInv, Numbers, CallsOK
<1>7. StartsUnused'
  <2>1. \A q \in Starts' : q \in Starts /\ q # p
    BY <1>0 DEF Starts
  <2>2. \A q \in Starts' : q.tx # p.tx
    BY <1>0, <2>1 DEF IInv, Numbers, StartsUnused
  <2>3. QED  BY <1>0, <1>3, <2>1, <2>2 DEF IInv, Numbers, StartsUnused
<1>8. StopsStarted'
  BY <1>0, <1>3 DEF IInv, Numbers, StopsStarted, ChargingTx
<1>9. IdHeldOnce' /\ StopOnce'
  BY <1>0, <1>3 DEF IInv, Numbers, IdHeldOnce, StopOnce
<1>10. StopHasDeadline'
  <2>1. Stopping' \subseteq Stopping
    BY <1>3 DEF Stopping
  <2>2. QED  BY <1>0, <2>1 DEF IInv, Session, StopHasDeadline, Armed
<1>11. MeterTimerRuns'
  BY <1>0 DEF MeterTimerRuns
<1>12. ChargingIsBacked'
  BY <1>3, <1>4 DEF IInv, Session, ChargingIsBacked
<1>13. QED
  BY <1>5, <1>6, <1>7, <1>8, <1>9, <1>10, <1>11, <1>12 DEF IInv, Numbers, Session

\* The other answers.
LEMMA AnswerKeeps == IInv /\ Answer => IInv'
<1> SUFFICES ASSUME IInv, NEW p \in pending,
                    \/ BootAccepted(p) \/ BootPending(p) \/ BootRejected(p)
                    \/ AuthorizeAccepted(p) \/ AuthorizeRejected(p)
                    \/ StartAccepted(p) \/ StartRejected(p) \/ StartUnmatched(p)
                    \/ StopAnswer(p)
                    \/ SessionCallError(p) \/ OtherCallError(p)
             PROVE  IInv'
  BY DEF Answer
<1> USE DEF sessionVars
<1>0. /\ TypeOK /\ CallsOK
      /\ open \in BOOLEAN
      /\ registration \in {"disconnected", "pending", "accepted", "rejected"}
      /\ conn \in [Connectors -> ConnectorState]
      /\ timers \in [TimerKeys -> Nat]
      /\ "Available" \in Statuses
  BY DEF IInv, Numbers, TypeOK, Statuses
<1>k. UNCHANGED timers => StopTimersKept
  BY <1>0, SameTimers
<1>1. CASE BootAccepted(p) \/ BootPending(p) \/ BootRejected(p)
  <2>1. /\ Answered(p, "BootNotification") /\ Silent
        /\ UNCHANGED <<open, conn>> /\ UNCHANGED sessionVars
        /\ registration' \in {"disconnected", "pending", "accepted", "rejected"}
    BY <1>1 DEF BootAccepted, BootPending, BootRejected
  <2>2. timers' \in [TimerKeys -> Nat] /\ StopTimersKept
    <3>1. \E k \in {<<"initialStatus", 0>>, <<"bootRetry", 0>>} : Arm(k) \/ UNCHANGED timers
      BY <1>1 DEF BootAccepted, BootPending, BootRejected
    <3>2. QED  BY <1>0, <3>1, OtherTimers, StationKeysTyped
  <2>3. QED  BY <1>0, <2>1, <2>2, AnsweredKeeps, SilentTyped, CalmStep
<1>2. CASE AuthorizeAccepted(p)
  BY <1>2, AuthorizeAcceptedKeeps
<1>3. CASE AuthorizeRejected(p)
  <2>1. /\ Answered(p, "Authorize") /\ Silent
        /\ SetStatus(p.connector, "Available")
        /\ UNCHANGED <<open, registration, timers>> /\ UNCHANGED sessionVars
    BY <1>3 DEF AuthorizeRejected
  <2>2. /\ pending' \subseteq Calls /\ CallsOK' /\ Starts' \subseteq Starts
        /\ p.connector \in Connectors
    BY <1>0, <2>1, AnsweredKeeps
  <2>3. /\ conn' \in [Connectors -> ConnectorState]
        /\ \A c \in Connectors : conn'[c].status = "Charging" => conn[c].status = "Charging"
    BY <1>0, <2>1, <2>2, SetStatusTyped
  <2>4. QED  BY <1>0, <1>k, <2>1, <2>2, <2>3, SilentTyped, CalmStep
<1>4. CASE StartAccepted(p)
  BY <1>4, StartAcceptedKeeps
<1>5. CASE StartRejected(p)
  <2>1. PICK c \in Unbound : DeleteTx(c) /\ SetStatus(c, "Available")
    BY <1>5 DEF StartRejected
  <2>2. /\ Answered(p, "StartTransaction") /\ Silent /\ c \in Connectors
        /\ UNCHANGED <<open, registration, timers, meterTimer, nextStart, stops>>
    BY <1>5 DEF StartRejected, Unbound
  <2>3. pending' \subseteq Calls /\ CallsOK' /\ Starts' \subseteq Starts
    BY <1>0, <2>2, AnsweredKeeps
  <2>4. /\ conn' \in [Connectors -> ConnectorState]
        /\ \A d \in Connectors : conn'[d].status = IF d = c THEN "Available" ELSE conn[d].status
    BY <1>0, <2>1, <2>2, SetStatusTyped
  <2>5. Frees(c)
    BY <1>k, <2>1, <2>2, <2>3, <2>4 DEF Frees, StopTimersKept, Stopping
  <2>6. OthersTyped /\ meterTimer' \in BOOLEAN
    BY <1>0, <2>2, <2>3, <2>4, SilentTyped DEF OthersTyped, TypeOK
  <2>7. QED  BY <2>2, <2>3, <2>5, <2>6, FreesStep
<1>6. CASE StartUnmatched(p) \/ OtherCallError(p)
  <2>1. /\ \E a \in {"StartTransaction", "BootNotification", "StopTransaction"} : Answered(p, a)
        /\ Silent
        /\ UNCHANGED <<open, registration, conn, timers>> /\ UNCHANGED sessionVars
    BY <1>6 DEF StartUnmatched, OtherCallError
  <2>2. pending' \subseteq Calls /\ CallsOK' /\ Starts' \subseteq Starts
    BY <1>0, <2>1, AnsweredKeeps
  <2>3. QED  BY <1>0, <1>k, <2>1, <2>2, SilentTyped, CalmStep
<1>7. CASE StopAnswer(p)
  <2>1. /\ Answered(p, "StopTransaction")
        /\ UNCHANGED <<open, registration, timers, nextStart, stops>>
    BY <1>7 DEF StopAnswer
  <2>2. pending' \subseteq Calls /\ CallsOK' /\ Starts' \subseteq Starts
    BY <1>0, <2>1, AnsweredKeeps
  <2>3. ASSUME NEW c \in Stopping, FinishStopped(c)
        PROVE  IInv'
    BY <1>0, <1>k, <2>1, <2>2, <2>3, FinishStoppedKeeps DEF StopTimersKept
  <2>4. CASE Silent /\ UNCHANGED <<conn, tx, older, meterTimer>>
    BY <1>0, <1>k, <2>1, <2>2, <2>4, SilentTyped, CalmStep
  <2>5. QED  BY <1>7, <2>3, <2>4 DEF StopAnswer
<1>8. CASE SessionCallError(p)
  <2> DEFINE c == p.connector
  <2>1. /\ \E a \in {"Authorize", "StartTransaction"} : Answered(p, a)
        /\ SetIdle(c, "Available") /\ DeleteTx(c) /\ Silent
        /\ UNCHANGED <<open, registration, timers, meterTimer, nextStart, stops>>
    BY <1>8 DEF SessionCallError
  <2>2. pending' \subseteq Calls /\ CallsOK' /\ Starts' \subseteq Starts /\ c \in Connectors
    BY <1>0, <2>1, AnsweredKeeps
  <2>3. /\ conn' \in [Connectors -> ConnectorState]
        /\ \A d \in Connectors : conn'[d].status = IF d = c THEN "Available" ELSE conn[d].status
    BY <1>0, <2>1, <2>2, SetStatusTyped
  <2>4. Frees(c)
    BY <1>k, <2>1, <2>2, <2>3 DEF Frees, StopTimersKept, Stopping
  <2>5. OthersTyped /\ meterTimer' \in BOOLEAN
    BY <1>0, <2>1, <2>2, <2>3, SilentTyped DEF OthersTyped, TypeOK
  <2> HIDE DEF c
  <2>6. QED  BY <2>2, <2>4, <2>5, FreesStep
<1>9. QED  BY <1>1, <1>2, <1>3, <1>4, <1>5, <1>6, <1>7, <1>8

\* Commands of the central system.
LEMMA CommandKeeps == IInv /\ Command => IInv'
<1> SUFFICES ASSUME IInv, Command PROVE IInv'
  OBVIOUS
<1> USE DEF sessionVars
<1>0. /\ TypeOK /\ CallsOK
      /\ open \in BOOLEAN
      /\ registration \in {"disconnected", "pending", "accepted", "rejected"}
      /\ conn \in [Connectors -> ConnectorState]
      /\ timers \in [TimerKeys -> Nat]
      /\ UNCHANGED timers => StopTimersKept
  BY SameTimers DEF IInv, Numbers, TypeOK
<1>1. CASE Reset
  <2> DEFINE S == {d \in Connectors : Stoppable(d)}
             t == [timers EXCEPT ![<<"reset", 0>>] = @ + 1]
  <2>1. S \in SUBSET Connectors /\ \A d \in S : Stoppable(d)
    OBVIOUS
  <2>2. t \in [TimerKeys -> Nat]
    BY <1>0, StationKeysTyped
  <2>3. \A d \in Connectors : t[<<"stopTimeout", d>>] = timers[<<"stopTimeout", d>>]
    BY <1>0, KeysTyped
  <2>4. timers' = ArmStopTimeouts(S, t) /\ StopInternal(S) /\ conn' = StoppedConn(S)
    BY <1>1 DEF Reset
  <2>5. notified' \in [Connectors -> Statuses \cup {"none"}]
    <3>1. [d \in Connectors |-> "Finishing"] \in [Connectors -> Statuses]
      BY DEF Statuses
    <3>2. QED  BY <1>1, <3>1, ReportTyped DEF Reset
  <2>6. UNCHANGED <<open, registration, older, meterTimer, nextStart>>
    BY <1>1 DEF Reset
  <2> HIDE DEF S, t
  <2>7. QED
    BY <1>0, <2>1, <2>2, <2>3, <2>4, <2>5, <2>6, StoppedConnTyped, StopInternalKeeps
<1>2. ASSUME NEW c \in Connectors,
             RemoteStart(c) \/ RemoteStop(c) \/ Trigger(<<"triggerStatus", c>>)
      PROVE  IInv'
  <2>1. /\ Silent
        /\ UNCHANGED <<open, registration, conn, pending>> /\ UNCHANGED sessionVars
        /\ \E k \in {<<"remoteStart", c>>, <<"remoteStop", c>>, <<"triggerStatus", c>>} : Arm(k)
    BY <1>2 DEF RemoteStart, RemoteStop, Trigger
  <2>2. timers' \in [TimerKeys -> Nat] /\ StopTimersKept
    BY <1>0, <2>1, OtherTimers, StationKeysTyped, KeysTyped
  <2>3. pending' \subseteq Calls /\ CallsOK' /\ Starts' \subseteq Starts
    BY <1>0, <2>1 DEF TypeOK, CallsOK, Starts
  <2>4. QED  BY <1>0, <2>1, <2>2, <2>3, SilentTyped, CalmStep
<1>3. CASE Trigger(<<"triggerBoot", 0>>)
  <2>1. /\ Silent
        /\ UNCHANGED <<open, registration, conn, pending>> /\ UNCHANGED sessionVars
        /\ Arm(<<"triggerBoot", 0>>)
    BY <1>3 DEF Trigger
  <2>2. timers' \in [TimerKeys -> Nat] /\ StopTimersKept
    BY <1>0, <2>1, OtherTimers, StationKeysTyped
  <2>3. pending' \subseteq Calls /\ CallsOK' /\ Starts' \subseteq Starts
    BY <1>0, <2>1 DEF TypeOK, CallsOK, Starts
  <2>4. QED  BY <1>0, <2>1, <2>2, <2>3, SilentTyped, CalmStep
<1>4. ASSUME NEW c \in Connectors, UnlockConnector(c)
      PROVE  IInv'
  <2>1. /\ SetIdle(c, "Available") /\ DeleteTx(c)
        /\ Report({c}, [d \in Connectors |-> "Available"])
        /\ UNCHANGED <<open, registration, pending, timers, meterTimer, nextStart, stops>>
    BY <1>4 DEF UnlockConnector
  <2>2. "Available" \in Statuses
    BY DEF Statuses
  <2>3. pending' \subseteq Calls /\ CallsOK' /\ Starts' \subseteq Starts
    BY <1>0, <2>1 DEF TypeOK, CallsOK, Starts
  <2>4. /\ conn' \in [Connectors -> ConnectorState]
        /\ \A d \in Connectors : conn'[d].status = IF d = c THEN "Available" ELSE conn[d].status
    BY <1>0, <2>1, <2>2, SetStatusTyped
  <2>5. notified' \in [Connectors -> Statuses \cup {"none"}]
    BY <2>1, <2>2, ReportTyped
  <2>6. Frees(c)
    BY <1>0, <2>1, <2>3, <2>4 DEF Frees, StopTimersKept, Stopping
  <2>7. OthersTyped /\ meterTimer' \in BOOLEAN
    BY <1>0, <2>1, <2>3, <2>4, <2>5 DEF OthersTyped, TypeOK
  <2>8. QED  BY <2>3, <2>6, <2>7, FreesStep
<1>5. ASSUME NEW S \in SUBSET Connectors, Inoperative(S) \/ Operative(S)
      PROVE  IInv'
  <2>1. UNCHANGED <<open, registration, pending, timers>> /\ UNCHANGED sessionVars
    BY <1>5 DEF Inoperative, Operative
  <2>2. pending' \subseteq Calls /\ CallsOK' /\ Starts' \subseteq Starts
    BY <1>0, <2>1 DEF TypeOK, CallsOK, Starts
  <2>3. \A c \in Connectors :
            /\ [conn[c] EXCEPT !.inoperative = TRUE] \in ConnectorState
            /\ [conn[c] EXCEPT !.inoperative = TRUE].status = conn[c].status
            /\ [conn[c] EXCEPT !.inoperative = FALSE] \in ConnectorState
            /\ [conn[c] EXCEPT !.inoperative = FALSE].status = conn[c].status
            /\ [conn[c] EXCEPT !.status = "Available", !.inoperative = FALSE] \in ConnectorState
            /\ [conn[c] EXCEPT !.status = "Available", !.inoperative = FALSE].status = "Available"
    BY <1>0 DEF ConnectorState, Statuses
  <2>4. [status |-> "Unavailable", cable |-> FALSE, inoperative |-> TRUE] \in ConnectorState
    BY DEF ConnectorState, Statuses
  <2>5. /\ conn' \in [Connectors -> ConnectorState]
        /\ \A c \in Connectors : conn'[c].status = "Charging" => conn[c].status = "Charging"
    <3>1. CASE Inoperative(S)
      BY <1>0, <2>3, <2>4, <3>1 DEF Inoperative
    <3>2. CASE Operative(S)
      BY <1>0, <2>3, <3>2 DEF Operative
    <3>3. QED  BY <1>5, <3>1, <3>2
  <2>6. notified' \in [Connectors -> Statuses \cup {"none"}]
    <3>1. /\ [d \in Connectors |-> "Available"] \in [Connectors -> Statuses]
          /\ [d \in Connectors |-> "Unavailable"] \in [Connectors -> Statuses]
      BY DEF Statuses
    <3>2. QED  BY <1>5, <3>1, ReportTyped DEF Inoperative, Operative
  <2>7. QED  BY <1>0, <2>1, <2>2, <2>5, <2>6, CalmStep
<1>6. QED  BY <1>1, <1>2, <1>3, <1>4, <1>5 DEF Command

\* Buttons of the user interface.
LEMMA ButtonKeeps == IInv /\ Button => IInv'
<1> SUFFICES ASSUME IInv, Button PROVE IInv'
  OBVIOUS
<1> USE DEF sessionVars
<1>0. /\ TypeOK /\ CallsOK
      /\ open \in BOOLEAN
      /\ registration \in {"disconnected", "pending", "accepted", "rejected"}
      /\ conn \in [Connectors -> ConnectorState]
      /\ timers \in [TimerKeys -> Nat]
      /\ UNCHANGED timers => StopTimersKept
  BY SameTimers DEF IInv, Numbers, TypeOK
<1>s. \A s \in Statuses : [d \in Connectors |-> s] \in [Connectors -> Statuses]
  OBVIOUS
<1>t. {"Available", "Preparing", "Finishing", "Faulted", "Unavailable"} \subseteq Statuses
  BY DEF Statuses
<1>1. CASE BootChargePoint
  <2>1. /\ SendCall("BootNotification", 0) /\ Silent
        /\ UNCHANGED <<open, registration, conn, timers>> /\ UNCHANGED sessionVars
    BY <1>1 DEF BootChargePoint
  <2>2. pending' \subseteq Calls /\ CallsOK' /\ Starts' \subseteq Starts
    BY <1>0, <2>1, SendCallTyped
  <2>3. QED  BY <1>0, <2>1, <2>2, SilentTyped, CalmStep
<1>2. ASSUME NEW c \in Connectors, Authorize(c)
      PROVE  IInv'
  <2>1. /\ SendCall("Authorize", c) /\ Silent
        /\ UNCHANGED <<open, registration, conn, timers>> /\ UNCHANGED sessionVars
    BY <1>2 DEF Authorize
  <2>2. pending' \subseteq Calls /\ CallsOK' /\ Starts' \subseteq Starts
    BY <1>0, <2>1, SendCallTyped
  <2>3. QED  BY <1>0, <2>1, <2>2, SilentTyped, CalmStep
<1>3. ASSUME NEW c \in Connectors, PlugIn(c)
      PROVE  IInv'
  <2> DEFINE r == [conn[c] EXCEPT !.status = "Preparing", !.cable = TRUE]
  <2>1. /\ conn' = [conn EXCEPT ![c] = r]
        /\ Report({c}, [d \in Connectors |-> "Preparing"])
        /\ UNCHANGED <<open, registration, pending, timers>> /\ UNCHANGED sessionVars
    BY <1>3 DEF PlugIn
  <2>2. r \in ConnectorState /\ r.status = "Preparing"
    BY <1>0 DEF ConnectorState, Statuses
  <2> HIDE DEF r
  <2>3. /\ conn' \in [Connectors -> ConnectorState]
        /\ \A d \in Connectors : conn'[d].status = "Charging" => conn[d].status = "Charging"
    BY <1>0, <2>1, <2>2
  <2>4. pending' \subseteq Calls /\ CallsOK' /\ Starts' \subseteq Starts
    BY <1>0, <2>1 DEF TypeOK, CallsOK, Starts
  <2>5. notified' \in [Connectors -> Statuses \cup {"none"}]
    BY <1>s, <1>t, <2>1, ReportTyped
  <2>6. QED  BY <1>0, <2>1, <2>3, <2>4, <2>5, CalmStep
<1>4. ASSUME NEW c \in Connectors, Unplug(c) \/ Disable(c) \/ Enable(c)
      PROVE  IInv'
  <2>1. PICK s \in {"Available", "Unavailable"} :
            /\ SetStatus(c, s) \/ SetIdle(c, s)
            /\ Report({c}, [d \in Connectors |-> s])
    BY <1>4 DEF Unplug, Disable, Enable
  <2>2. UNCHANGED <<open, registration, pending, timers>> /\ UNCHANGED sessionVars
    BY <1>4 DEF Unplug, Disable, Enable
  <2>3. s \in Statuses
    BY <1>t
  <2>4. /\ conn' \in [Connectors -> ConnectorState]
        /\ \A d \in Connectors : conn'[d].status = "Charging" => conn[d].status = "Charging"
    BY <1>0, <2>1, <2>3, SetStatusTyped
  <2>5. pending' \subseteq Calls /\ CallsOK' /\ Starts' \subseteq Starts
    BY <1>0, <2>2 DEF TypeOK, CallsOK, Starts
  <2>6. notified' \in [Connectors -> Statuses \cup {"none"}]
    BY <1>s, <2>1, <2>3, ReportTyped
  <2>7. QED  BY <1>0, <2>2, <2>4, <2>5, <2>6, CalmStep
<1>5. ASSUME NEW c \in Connectors, Stop(c)
      PROVE  IInv'
  <2>1. /\ \A d \in {c} : Stoppable(d)
        /\ timers' = ArmStopTimeouts({c}, timers) /\ StopInternal({c})
        /\ conn' = StoppedConn({c})
        /\ Report({c}, [d \in Connectors |-> "Finishing"])
        /\ UNCHANGED <<open, registration, older, meterTimer, nextStart>>
    BY <1>5 DEF Stop
  <2>2. {c} \in SUBSET Connectors
    OBVIOUS
  <2>3. notified' \in [Connectors -> Statuses \cup {"none"}]
    BY <1>s, <1>t, <2>1, ReportTyped
  <2>4. QED  BY <1>0, <2>1, <2>2, <2>3, StoppedConnTyped, StopInternalKeeps
<1>6. ASSUME NEW c \in Connectors, Fault(c)
      PROVE  IInv'
  <2> DEFINE S == {d \in {c} : Stoppable(d)}
  <2>1. S \in SUBSET Connectors /\ (\A d \in S : Stoppable(d)) /\ S \subseteq {c}
    OBVIOUS
  <2>2. /\ timers' = ArmStopTimeouts(S, timers) /\ StopInternal(S)
        /\ SetStatus(c, "Faulted")
        /\ Report({c}, [d \in Connectors |-> "Faulted"])
        /\ UNCHANGED <<open, registration, older, meterTimer, nextStart>>
    BY <1>6 DEF Fault
  <2> HIDE DEF S
  <2>3. /\ conn' \in [Connectors -> ConnectorState]
        /\ \A d \in Connectors : conn'[d].status = IF d = c THEN "Faulted" ELSE conn[d].status
    BY <1>0, <1>t, <2>2, SetStatusTyped
  <2>4. notified' \in [Connectors -> Statuses \cup {"none"}]
    BY <1>s, <1>t, <2>2, ReportTyped
  <2>5. QED  BY <1>0, <2>1, <2>2, <2>3, <2>4, StopInternalKeeps
<1>7. QED  BY <1>1, <1>2, <1>3, <1>4, <1>5, <1>6 DEF Button

-----------------------------------------------------------------------------
(* The theorems.                                                           *)

\* IInv is inductive.
LEMMA NextIInv == IInv /\ [Next]_vars => IInv'
<1> SUFFICES ASSUME IInv, [Next]_vars PROVE IInv'
  OBVIOUS
<1>1. CASE TimerFires
  BY <1>1, StationTimersKeep, ConnectorTimersKeep DEF TimerFires
<1>2. CASE UNCHANGED vars
  <2>1. TypeOK'
    BY <1>2 DEF vars, IInv, TypeOK
  <2>2. Numbers'
    BY <1>2 DEF vars, IInv, Numbers, CallsOK, StartsUnused, Starts, StopsStarted, ChargingTx,
                IdHeldOnce, StopOnce
  <2>3. Session'
    BY <1>2 DEF vars, IInv, Session, StopHasDeadline, MeterTimerRuns, ChargingIsBacked,
                ChargingTx, Stopping, Armed
  <2>4. QED  BY <2>1, <2>2, <2>3 DEF IInv
<1>3. QED
  BY <1>1, <1>2, SocketKeeps, AnswerKeeps, CommandKeeps, ButtonKeeps DEF Next

LEMMA Inductive == Spec => []IInv
BY InitIInv, NextIInv, PTL DEF Spec

\* The types, and: a transaction has an id as soon as it is charging, and not
\* before.
THEOREM TypeCorrect == Spec => []TypeOK
<1>1. IInv => TypeOK  BY DEF IInv
<1>2. QED  BY <1>1, Inductive, PTL

\* No id is held by two connectors, although answers are matched to the oldest
\* transaction that waits and not to the connector that asked.
THEOREM IdHeldOnceHolds == Spec => []IdHeldOnce
<1>1. IInv => IdHeldOnce  BY DEF IInv, Numbers
<1>2. QED  BY <1>1, Inductive, PTL

\* StopTransaction is sent at most once for an id, whoever stops.
THEOREM StopOnceHolds == Spec => []StopOnce
<1>1. IInv => StopOnce  BY DEF IInv, Numbers
<1>2. QED  BY <1>1, Inductive, PTL

\* A transaction that is being stopped has its 15 s timer armed, although timers
\* of earlier stops fire on later transactions.
THEOREM StopHasDeadlineHolds == Spec => []StopHasDeadline
<1>1. IInv => StopHasDeadline  BY DEF IInv, Session
<1>2. QED  BY <1>1, Inductive, PTL

\* While a transaction charges, the interval of MeterValues runs.
THEOREM MeterTimerRunsHolds == Spec => []MeterTimerRuns
<1>1. IInv => MeterTimerRuns  BY DEF IInv, Session
<1>2. QED  BY <1>1, Inductive, PTL

\* A connector shown as Charging has a transaction that is not being stopped.
THEOREM ChargingIsBackedHolds == Spec => []ChargingIsBacked
<1>1. IInv => ChargingIsBacked  BY DEF IInv, Session
<1>2. QED  BY <1>1, Inductive, PTL
=============================================================================
