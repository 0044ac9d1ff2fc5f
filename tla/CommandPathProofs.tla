-------------------------- MODULE CommandPathProofs --------------------------
(***************************************************************************)
(* Proofs about what reaches a charge point in the browser and how.        *)
(*                                                                         *)
(* GatewayClient, its connection, for any number of clients: no discarded  *)
(* client comes back to life, a charge point shown as connected has a      *)
(* socket, and one registered with an interval has its heartbeat timer.    *)
(*                                                                         *)
(* CommandPath, the frames, for any JSON in a request body and in a frame: *)
(* a command arrives as it was given, the answer is one the protocol       *)
(* allows, no answer is answered, and the CALLs of pkg/v16 are answered    *)
(* with what pkg/v16 reads.                                                *)
(***************************************************************************)
EXTENDS GatewayClient, CommandPath, TLAPS

-----------------------------------------------------------------------------
(* The connection                                                          *)

\* The inductive invariant.  OnlyCurrentLives alone is not inductive: that the
\* close event of a discarded client arms no timer needs ClosedOnPurpose.
ClientInv ==
    /\ TypeOK
    /\ ClosedOnPurpose
    /\ OnlyCurrentLives
    /\ ConnectedIsBacked
    /\ HeartbeatArmed

\* The initial state: no client has a socket or a timer.
LEMMA ClientInvInitially == Init => ClientInv
<1> SUFFICES ASSUME Init PROVE ClientInv
  OBVIOUS
<1> USE ClientsAssumption DEF Init, Live
<1>1. \A g \in Clients : ws[g] = "none" /\ timer[g] = FALSE
  BY Zenon
<1>2. /\ intentional \in [Clients -> BOOLEAN]
      /\ timer \in [Clients -> BOOLEAN]
      /\ interval \in BOOLEAN /\ heartbeat \in BOOLEAN
  BY Zenon
<1>3. TypeOK
  BY <1>2 DEF TypeOK
<1>4. ClosedOnPurpose /\ OnlyCurrentLives
  BY <1>1 DEF ClosedOnPurpose, OnlyCurrentLives
<1>5. ConnectedIsBacked /\ HeartbeatArmed
  BY DEF ConnectedIsBacked, HeartbeatArmed
<1>6. QED  BY <1>3, <1>4, <1>5 DEF ClientInv

\* Connect discards the runtime's client on purpose and makes the new one
\* current; no other client was alive.
LEMMA ConnectKeeps ==
  ASSUME ClientInv, Connect
  PROVE  ClientInv'
<1> USE ClientsAssumption DEF Clients, Live
<1> DEFINE n == clients + 1
           G == {runtime} \ {0}
<1>1. /\ n \in Clients
      /\ n # runtime
      /\ n \notin G
  BY DEF ClientInv, TypeOK, Connect
<1>2. \A g \in Clients :
          /\ ws'[g] = IF g = n THEN "connecting"
                      ELSE IF g \in G THEN ClosedSocket(g) ELSE ws[g]
          /\ intentional'[g] = IF g = n THEN FALSE ELSE g \in G \/ intentional[g]
          /\ timer'[g] = (g \notin G /\ timer[g])
  BY <1>1, Zenon DEF Connect, CloseAll
<1>3. \A g \in Clients :
          ClosedSocket(g) \in {"none", "failed", "closed"}
  BY DEF ClientInv, TypeOK, ClosedSocket
<1>4. TypeOK'
  <2>1. /\ ws' \in [Clients -> Live \cup {"none", "failed", "closed"}]
        /\ intentional' \in [Clients -> BOOLEAN]
        /\ timer' \in [Clients -> BOOLEAN]
    <3> DEFINE W == [g \in Clients |-> IF g \in G THEN ClosedSocket(g) ELSE ws[g]]
               I == [g \in Clients |-> g \in G \/ intentional[g]]
    <3>1. /\ ws' = [W EXCEPT ![n] = "connecting"]
          /\ intentional' = [I EXCEPT ![n] = FALSE]
          /\ timer' = [g \in Clients |-> g \notin G /\ timer[g]]
      BY Zenon DEF Connect, CloseAll
    <3>2. W \in [Clients -> Live \cup {"none", "failed", "closed"}]
      BY <1>3 DEF ClientInv, TypeOK
    <3>3. I \in [Clients -> BOOLEAN]
      BY DEF ClientInv, TypeOK
    <3>4. QED  BY <3>1, <3>2, <3>3
  <2>2. /\ clients' \in 0 .. MaxClients
        /\ runtime' \in 0 .. MaxClients
        /\ runtime' <= clients'
    BY <1>1 DEF ClientInv, TypeOK, Connect
  <2>3. interval' \in BOOLEAN /\ heartbeat' \in BOOLEAN
    BY Zenon DEF Connect
  <2>4. QED  BY <2>1, <2>2, <2>3 DEF TypeOK, Connect
<1>5. \A g \in Clients : timer'[g] => ws[g] = "none" /\ g # n /\ g \notin G
  BY <1>1, <1>2 DEF ClientInv, ClosedOnPurpose, OnlyCurrentLives
<1>6. ASSUME NEW g \in Clients, g # n
      PROVE  ws'[g] \notin Live /\ ~timer'[g]
  <2>1. CASE g = runtime
    <3>1. g \in G
      BY <2>1
    <3>2. QED  BY <1>2, <1>3, <1>6, <3>1
  <2>2. CASE g # runtime
    BY <1>2, <1>6, <2>2 DEF ClientInv, OnlyCurrentLives
  <2>3. QED  BY <2>1, <2>2
<1>7. ClosedOnPurpose'
  <2>1. ASSUME NEW g \in Clients, ws'[g] # "none", g # n
        PROVE  intentional'[g]
    <3>1. ws[g] # "none"
      BY <1>2, <2>1 DEF ClosedSocket
    <3>2. g = runtime \/ intentional[g]
      BY <3>1 DEF ClientInv, ClosedOnPurpose
    <3>3. g \in G \/ intentional[g]
      BY <3>2
    <3>4. QED  BY <1>2, <2>1, <3>3
  <2>2. ASSUME NEW g \in Clients, timer'[g]
        PROVE  ws'[g] = "none"
    BY <1>2, <1>5, <2>2
  <2>3. QED  BY <2>1, <2>2 DEF ClosedOnPurpose, Connect
<1>8. OnlyCurrentLives'
  BY <1>6 DEF OnlyCurrentLives, Connect
<1>9. ConnectedIsBacked' /\ HeartbeatArmed'
  BY DEF Connect, ConnectedIsBacked, HeartbeatArmed
<1>10. QED  BY <1>4, <1>7, <1>8, <1>9 DEF ClientInv

\* Disconnect closes the runtime's client on purpose; nobody is current.
LEMMA DisconnectKeeps ==
  ASSUME ClientInv, Disconnect
  PROVE  ClientInv'
<1> USE ClientsAssumption DEF Clients, Live
<1>1. runtime \in Clients
  BY DEF ClientInv, TypeOK, Disconnect
<1>2. /\ ws' = [g \in Clients |-> IF g \in {runtime} THEN ClosedSocket(g) ELSE ws[g]]
      /\ intentional' = [g \in Clients |-> g \in {runtime} \/ intentional[g]]
      /\ timer' = [g \in Clients |-> g \notin {runtime} /\ timer[g]]
  BY Zenon DEF Disconnect, CloseAll
<1>3. \A g \in Clients : ClosedSocket(g) \in {"none", "failed", "closed"}
  BY DEF ClientInv, TypeOK, ClosedSocket
<1>4. TypeOK'
  <2>1. /\ intentional' \in [Clients -> BOOLEAN]
        /\ timer' \in [Clients -> BOOLEAN]
        /\ interval' \in BOOLEAN /\ heartbeat' \in BOOLEAN
    BY <1>2, Zenon DEF ClientInv, TypeOK, Disconnect
  <2>2. ws' \in [Clients -> Live \cup {"none", "failed", "closed"}]
    BY <1>2, <1>3 DEF ClientInv, TypeOK
  <2>3. /\ clients' \in 0 .. MaxClients
        /\ runtime' \in 0 .. MaxClients
        /\ runtime' <= clients'
        /\ status' = "disconnected"
        /\ registration' = "disconnected"
    BY DEF ClientInv, TypeOK, Disconnect
  <2>4. QED  BY <2>1, <2>2, <2>3 DEF TypeOK
<1>5. ClosedOnPurpose'
  BY <1>2 DEF ClientInv, TypeOK, ClosedOnPurpose, ClosedSocket
<1>6. OnlyCurrentLives'
  BY <1>2, <1>3 DEF ClientInv, OnlyCurrentLives
<1>7. ConnectedIsBacked' /\ HeartbeatArmed'
  BY DEF Disconnect, ConnectedIsBacked, HeartbeatArmed
<1>8. QED  BY <1>4, <1>5, <1>6, <1>7 DEF ClientInv

\* The events of a socket: a live one is the current client's, and an event of
\* a discarded one changes at most what is shown.
LEMMA SocketKeeps ==
  ASSUME ClientInv, NEW g \in Clients,
         Opens(g) \/ Event(g) \/ \E how \in {"failed", "closed"} : Ends(g, how)
  PROVE  ClientInv'
<1> USE ClientsAssumption
    DEF Clients, Live, ClientInv, TypeOK, ClosedOnPurpose, OnlyCurrentLives,
        ConnectedIsBacked, HeartbeatArmed
<1>1. CASE Opens(g)
  BY <1>1 DEF Opens, Update
<1>2. CASE ErrorEvent(g)
  BY <1>2 DEF ErrorEvent, Update
<1>3. CASE CloseEvent(g)
  BY <1>3 DEF CloseEvent, Update
<1>4. CASE ReconnectFires(g)
  BY <1>4 DEF ReconnectFires
<1>5. ASSUME NEW how \in {"failed", "closed"}, Ends(g, how)
      PROVE  ClientInv'
  BY <1>5 DEF Ends
<1>6. QED  BY <1>1, <1>2, <1>3, <1>4, <1>5 DEF Event

\* Every step keeps the invariant.
LEMMA ClientStepKeeps == ClientInv /\ [Next]_vars => ClientInv'
<1> SUFFICES ASSUME ClientInv, [Next]_vars PROVE ClientInv'
  OBVIOUS
<1>1. CASE Connect  BY <1>1, ConnectKeeps
<1>2. CASE Disconnect  BY <1>2, DisconnectKeeps
<1>3. ASSUME NEW g \in Clients,
             Opens(g) \/ Event(g) \/ \E how \in {"failed", "closed"} : Ends(g, how)
      PROVE  ClientInv'
  BY <1>3, SocketKeeps
<1> USE DEF ClientInv, TypeOK, ClosedOnPurpose, OnlyCurrentLives, ConnectedIsBacked,
            HeartbeatArmed, socketVars
<1>4. ASSUME NEW positive \in BOOLEAN, BootAccepted(positive)
      PROVE  ClientInv'
  <2>1. interval' = positive /\ heartbeat' \in BOOLEAN /\ (positive => heartbeat')
    BY <1>4, Zenon DEF BootAccepted
  <2>2. HeartbeatArmed'
    BY <2>1, Zenon
  <2>3. QED  BY <1>4, <2>1, <2>2 DEF BootAccepted
<1>5. ASSUME NEW answer \in {"pending", "rejected"}, BootRefused(answer)
      PROVE  ClientInv'
  BY <1>5 DEF BootRefused
<1>6. CASE HeartbeatFires
  <2>1. heartbeat' \in BOOLEAN /\ (registration = "accepted" /\ interval => heartbeat')
    BY <1>6, Zenon DEF HeartbeatFires
  <2>2. UNCHANGED <<clients, runtime, status, registration, interval, socketVars>>
    BY <1>6, Zenon DEF HeartbeatFires
  <2>3. HeartbeatArmed'
    BY <2>1, <2>2, Zenon
  <2>4. QED  BY <2>1, <2>2, <2>3
<1>7. CASE UNCHANGED vars  BY <1>7 DEF vars
<1>8. QED  BY <1>1, <1>2, <1>3, <1>4, <1>5, <1>6, <1>7 DEF Next

LEMMA ClientInvHolds == Spec => []ClientInv
  BY ClientInvInitially, ClientStepKeeps, PTL DEF Spec

\* chargePointStore.ts and gatewayClient.ts: however often the user connects and
\* disconnects, only the current client has a live socket or a reconnect timer.
THEOREM NoClientRevives == Spec => []OnlyCurrentLives
<1>1. ClientInv => OnlyCurrentLives  BY DEF ClientInv
<1>2. QED  BY <1>1, ClientInvHolds, PTL

\* The connection status never says connected without a socket behind it.
THEOREM ConnectedHasSocket == Spec => []ConnectedIsBacked
<1>1. ClientInv => ConnectedIsBacked  BY DEF ClientInv
<1>2. QED  BY <1>1, ClientInvHolds, PTL

\* The heartbeat timer of a charge point that is registered with an interval other
\* than 0 is armed, whatever intervals earlier registrations had.
THEOREM RegisteredHasHeartbeat == Spec => []HeartbeatArmed
<1>1. ClientInv => HeartbeatArmed  BY DEF ClientInv
<1>2. QED  BY <1>1, ClientInvHolds, PTL

-----------------------------------------------------------------------------
(* The codec and encoding/json                                              *)

\* The codec: what Encode writes, Decode reads back.
LEMMA CallRoundTrip ==
    ASSUME NEW u, NEW a, a # Empty, NEW p, p # NoJSON
    PROVE  /\ Encode(BuildCall(u, a, p)) = <<Num(CALL), Str(u), Str(a), p>>
           /\ Decode(<<Num(CALL), Str(u), Str(a), p>>) = BuildCall(u, a, p)
<1> DEFINE m == BuildCall(u, a, p)
           raw == <<Num(CALL), Str(u), Str(a), p>>
<1>1. m.type = CALL /\ m.uid = u /\ m.action = a /\ m.payload = p
  BY DEF BuildCall, NoMessage
<1>2. Encode(m) = raw
  <2> HIDE DEF m
  <2>1. CALL # CALLRESULT /\ CALL # CALLERROR
    BY DEF CALL, CALLRESULT, CALLERROR
  <2>2. m.type = CALL /\ m.action # Empty
    BY <1>1
  <2>3. Encode(m) = <<Num(CALL), Str(m.uid), Str(m.action), Raw(m.payload)>>
    BY <2>1, <2>2 DEF Encode
  <2>4. QED BY <1>1, <2>3 DEF Raw
<1>3. /\ Len(raw) = 4 /\ raw[3] = Str(a) /\ raw[4] = p
      /\ IntOk(raw[1]) /\ IntOf(raw[1]) = CALL
      /\ StringOk(raw[2]) /\ StringOf(raw[2]) = u
      /\ StringOk(raw[3]) /\ StringOf(raw[3]) = a
  BY DEF Num, Str, IntOk, IntOf, StringOk, StringOf, Tag
<1>4. Decode(raw) = m
  <2> HIDE DEF m, raw
  <2>1. m = BuildCall(u, a, p)
    BY DEF m
  <2>2. Decode(raw) = BuildCall(u, a, p)
    BY <1>3 DEF Decode, CALL, CALLRESULT, CALLERROR
  <2>3. QED BY <2>1, <2>2
<1>5. QED BY <1>2, <1>4

LEMMA ResultRoundTrip ==
    ASSUME NEW u, NEW p, p # NoJSON
    PROVE  /\ Encode(BuildResult(u, p)) = <<Num(CALLRESULT), Str(u), p>>
           /\ Decode(<<Num(CALLRESULT), Str(u), p>>) = BuildResult(u, p)
<1>1. Encode(BuildResult(u, p)) = <<Num(CALLRESULT), Str(u), p>>
  BY DEF Encode, BuildResult, NoMessage, CALL, CALLRESULT, CALLERROR, Raw
<1>2. QED
  BY <1>1 DEF Decode, Num, Str, CALL, CALLRESULT, CALLERROR, IntOk, IntOf, StringOk, StringOf, Tag

LEMMA ErrorRoundTrip ==
    ASSUME NEW u, NEW c, NEW d
    PROVE  /\ Encode(BuildError(u, c, d, NoJSON)) =
                  <<Num(CALLERROR), Str(u), Str(c), Str(d), Obj(<<>>)>>
           /\ Decode(<<Num(CALLERROR), Str(u), Str(c), Str(d), Obj(<<>>)>>) =
                  BuildError(u, c, d, NoJSON)
<1> DEFINE m == BuildError(u, c, d, NoJSON)
           raw == <<Num(CALLERROR), Str(u), Str(c), Str(d), Obj(<<>>)>>
<1>1. Encode(m) = raw
  BY DEF Encode, BuildError, NoMessage, CALL, CALLRESULT, CALLERROR, Raw, NoJSON, Obj
<1>2. /\ Len(raw) = 5 /\ raw[5] = Obj(<<>>)
      /\ IntOk(raw[1]) /\ IntOf(raw[1]) = CALLERROR
      /\ StringOk(raw[2]) /\ StringOf(raw[2]) = u
      /\ StringOk(raw[3]) /\ StringOf(raw[3]) = c
      /\ StringOk(raw[4]) /\ StringOf(raw[4]) = d
  BY DEF Num, Str, IntOk, IntOf, StringOk, StringOf, Tag
<1>3. \A e : [BuildError(u, c, d, e) EXCEPT !.details = Obj(<<>>)] = m
  BY DEF BuildError, NoMessage
<1>4. Decode(raw) = m
  <2> HIDE DEF m, raw
  <2>1. Decode(raw) = [BuildError(u, c, d, raw[5]) EXCEPT !.details = raw[5]]
    BY <1>2 DEF Decode, CALL, CALLRESULT, CALLERROR
  <2>2. QED BY <1>2, <1>3, <2>1
<1>5. QED BY <1>1, <1>4

\* An object is not the empty tuple.
LEMMA ObjIsJSON ==
    ASSUME NEW f PROVE Obj(f) # NoJSON /\ Tag(Obj(f)) = "obj" /\ Members(Obj(f)) = f
BY DEF Obj, NoJSON, Tag, Members

\* A struct that was unmarshalled and marshalled again is unmarshalled and
\* marshalled to the same object.
LEMMA RewrittenTwice ==
    ASSUME NEW struct, NEW j
    PROVE  Rewritten(struct, Obj(Rewritten(struct, j))) = Rewritten(struct, j)
<1> DEFINE f == Rewritten(struct, j)
           plain == {x \in DOMAIN struct : struct[x] \in {"string", "int"}}
           more == {y \in DOMAIN struct : Given(j, y) /\ Members(j)[y] # Str(Empty)}
<1>1. f = [x \in plain \cup more |-> IF Given(j, x) THEN Members(j)[x] ELSE Zero(struct[x])]
  BY DEF Rewritten
<1>2. DOMAIN f = plain \cup more /\ \A x \in plain \cup more :
          f[x] = IF Given(j, x) THEN Members(j)[x] ELSE Zero(struct[x])
  BY <1>1
<1>3. \A x \in plain : Zero(struct[x]) \notin {JNull, Arr(<<>>)}
  BY DEF Zero, JNull, Arr, Str, Num
<1>4. \A x \in plain \cup more : f[x] \notin {JNull, Arr(<<>>)}
  BY <1>2, <1>3 DEF Given
<1>5. \A x : Given(Obj(f), x) <=> x \in plain \cup more
  BY <1>2, <1>4, ObjIsJSON DEF Given
<1>6. {y \in DOMAIN struct : Given(Obj(f), y) /\ Members(Obj(f))[y] # Str(Empty)} \cup plain = plain \cup more
  <2>1. \A y \in more : f[y] # Str(Empty)
    BY <1>2
  <2>2. QED BY <1>5, <2>1, ObjIsJSON
<1>7. Rewritten(struct, Obj(f)) = [x \in plain \cup more |-> f[x]]
  BY <1>5, <1>6, ObjIsJSON DEF Rewritten
<1>8. QED BY <1>1, <1>2, <1>7

\* What was marshalled from a struct unmarshals into it.
GoTypes == {"string", "int", "string_omitempty", "*int_omitempty", "[]string_omitempty"}

LEMMA RewrittenBinds ==
    ASSUME NEW struct, \A x \in DOMAIN struct : struct[x] \in GoTypes,
           NEW j, Binds(struct, j)
    PROVE  /\ Binds(struct, Obj(Rewritten(struct, j)))
           /\ \A x \in DOMAIN struct : Given(j, x) => Takes(struct[x], Members(j)[x])
<1> DEFINE f == Rewritten(struct, j)
           plain == {x \in DOMAIN struct : struct[x] \in {"string", "int"}}
           more == {y \in DOMAIN struct : Given(j, y) /\ Members(j)[y] # Str(Empty)}
<1>1. /\ DOMAIN f = plain \cup more
      /\ \A x \in plain \cup more : f[x] = IF Given(j, x) THEN Members(j)[x] ELSE Zero(struct[x])
  BY DEF Rewritten
<1>2. \A x \in DOMAIN struct : Given(j, x) => Takes(struct[x], Members(j)[x])
  <2>1. DOMAIN <<>> = {}
    OBVIOUS
  <2>2. QED BY <2>1 DEF Binds, Given, Members, JNull, Tag
<1>3. \A x \in plain : Takes(struct[x], Zero(struct[x]))
  BY DEF Takes, Zero, Tag, Str, Num
<1> HIDE DEF f
<1>4. \A x \in DOMAIN f : Takes(struct[x], f[x])
  BY <1>1, <1>2, <1>3
<1>5. Obj(f)[2] = f /\ Tag(Obj(f)) = "obj"
  BY DEF Obj, Tag
<1>6. Binds(struct, Obj(f))
  BY <1>4, <1>5 DEF Binds
<1>7. QED BY <1>2, <1>6 DEF f

-----------------------------------------------------------------------------
(* A command and its answer                                                *)

LEMMA CommandNames ==
    /\ Commands = {"RemoteStartTransaction", "RemoteStopTransaction", "Reset", "UnlockConnector",
                   "ChangeConfiguration", "GetConfiguration", "TriggerMessage",
                   "ChangeAvailability"}
    /\ Empty \notin Commands
<1>1. Commands = {"RemoteStartTransaction", "RemoteStopTransaction", "Reset", "UnlockConnector",
                  "ChangeConfiguration", "GetConfiguration", "TriggerMessage",
                  "ChangeAvailability"}
  BY DEF Commands, RequestStruct
<1>2. Empty \notin Commands
  BY <1>1, Zenon DEF Empty
<1>3. QED BY <1>1, <1>2

\* The types of the fields of the request structs.
LEMMA FieldTypes ==
    ASSUME NEW a \in Commands, NEW x \in DOMAIN RequestStruct[a]
    PROVE  RequestStruct[a][x] \in {"string", "int", "*int_omitempty", "[]string_omitempty"}
<1>1. CASE a = "RemoteStartTransaction"
  <2>1. RequestStruct[a] = [idTag |-> "string", connectorId |-> "*int_omitempty"]
    BY <1>1 DEF RequestStruct
  <2>2. QED BY <2>1
<1>2. CASE a = "RemoteStopTransaction"
  <2>1. RequestStruct[a] = [transactionId |-> "int"]
    BY <1>2 DEF RequestStruct
  <2>2. QED BY <2>1
<1>3. CASE a = "Reset"
  <2>1. RequestStruct[a] = [type |-> "string"]
    BY <1>3 DEF RequestStruct
  <2>2. QED BY <2>1
<1>4. CASE a = "UnlockConnector"
  <2>1. RequestStruct[a] = [connectorId |-> "int"]
    BY <1>4 DEF RequestStruct
  <2>2. QED BY <2>1
<1>5. CASE a = "ChangeConfiguration"
  <2>1. RequestStruct[a] = [key |-> "string", value |-> "string"]
    BY <1>5 DEF RequestStruct
  <2>2. QED BY <2>1
<1>6. CASE a = "GetConfiguration"
  <2>1. RequestStruct[a] = [key |-> "[]string_omitempty"]
    BY <1>6 DEF RequestStruct
  <2>2. QED BY <2>1
<1>7. CASE a = "TriggerMessage"
  <2>1. RequestStruct[a] = [requestedMessage |-> "string", connectorId |-> "*int_omitempty"]
    BY <1>7 DEF RequestStruct
  <2>2. QED BY <2>1
<1>8. CASE a = "ChangeAvailability"
  <2>1. RequestStruct[a] = [connectorId |-> "int", type |-> "string"]
    BY <1>8 DEF RequestStruct
  <2>2. QED BY <2>1
<1>9. QED BY <1>1, <1>2, <1>3, <1>4, <1>5, <1>6, <1>7, <1>8, CommandNames

\* What csms.Service fills in and publishes is what pkg/v16 reads, and nothing
\* the caller gave is changed or lost.
LEMMA FilledIsUnderstood ==
    ASSUME NEW a \in Commands, NEW b, Binds(RequestStruct[a], b),
           CommandOk(a, Rewritten(RequestStruct[a], b))
    PROVE  /\ Parses(a, Obj(Rewritten(RequestStruct[a], b)))
           /\ \A x \in DOMAIN RequestStruct[a] :
                 Given(b, x) => Member(Obj(Rewritten(RequestStruct[a], b)), x) = Members(b)[x]
<1> DEFINE struct == RequestStruct[a]
           f == Rewritten(struct, b)
           plain == {x \in DOMAIN struct : struct[x] \in {"string", "int"}}
           more == {y \in DOMAIN struct : Given(b, y) /\ Members(b)[y] # Str(Empty)}
<1>1. /\ DOMAIN f = plain \cup more
      /\ \A x \in plain \cup more : f[x] = IF Given(b, x) THEN Members(b)[x] ELSE Zero(struct[x])
  BY DEF Rewritten
<1>2. \A x \in DOMAIN struct :
          struct[x] \in {"string", "int", "*int_omitempty", "[]string_omitempty"}
  BY FieldTypes
<1>3. \A x \in DOMAIN struct : struct[x] \in GoTypes
  BY <1>2 DEF GoTypes
<1> HIDE DEF struct
<1>4. Binds(struct, Obj(f)) /\ \A x \in DOMAIN struct : Given(b, x) => Takes(struct[x], Members(b)[x])
  <2>1. Binds(struct, b)
    BY DEF struct
  <2>2. QED BY <1>3, <2>1, RewrittenBinds
<1> HIDE DEF f
<1>5. Rewritten(struct, Obj(f)) = f
  BY RewrittenTwice DEF f
<1>6. Parses(a, Obj(f))
  <2>1. CommandOk(a, f)
    BY DEF f, struct
  <2>2. Rewritten(RequestStruct[a], Obj(f)) = f /\ Binds(RequestStruct[a], Obj(f))
    BY <1>4, <1>5 DEF struct
  <2>3. QED BY <2>1, <2>2, CommandNames DEF Parses, CommandOk
<1>7. ASSUME NEW x \in DOMAIN struct, Given(b, x)
      PROVE  Member(Obj(f), x) = Members(b)[x]
  <2>1. x \in plain \cup more
    <3> SUFFICES ASSUME x \notin plain PROVE Members(b)[x] # Str(Empty)
      BY <1>7
    <3>1. struct[x] \in {"*int_omitempty", "[]string_omitempty"}
      BY <1>2
    <3>2. Tag(Members(b)[x]) \in {"null", "num", "arr"}
      BY <1>4, <1>7, <3>1 DEF Takes
    <3>3. QED BY <3>2 DEF Tag, Str
  <2>2. QED BY <1>1, <1>7, <2>1, ObjIsJSON DEF Member
<1>8. QED BY <1>6, <1>7 DEF f, struct

\* Whatever is asked of the charge point, and whatever state it is in, the
\* status it answers with is one of those that pkg/v16 knows for the command.
LEMMA StatusIsKnown ==
    ASSUME NEW a \in Stateful, NEW p, NEW cs, NEW matches
    PROVE  StatefulStatus(a, p, cs, matches) \in ResponseStatus[a]
<1> USE DEF StatefulStatus, ResponseStatus
<1>1. CASE a = "RemoteStartTransaction"
  BY <1>1
<1>2. CASE a = "RemoteStopTransaction"
  BY <1>2
<1>3. CASE a = "UnlockConnector"
  BY <1>3
<1>4. CASE a = "Reset"
  BY <1>4
<1>5. CASE a = "ChangeAvailability"
  BY <1>5
<1>6. CASE a = "TriggerMessage"
  BY <1>6
<1>7. QED BY <1>1, <1>2, <1>3, <1>4, <1>5, <1>6 DEF Stateful

LEMMA AnswerIsValid ==
    ASSUME NEW a \in Commands, NEW p, NEW cs, NEW matches
    PROVE  /\ ValidAnswer(a, ResponsePayload(a, p, cs, matches))
           /\ ResponsePayload(a, p, cs, matches) # NoJSON
<1>1. CASE a \in Stateful
  <2>1. ResponsePayload(a, p, cs, matches) = BuildStatusResponse(StatefulStatus(a, p, cs, matches))
    BY <1>1 DEF ResponsePayload, BuildStatusResponse, Stateful
  <2>2. a # "GetConfiguration"
    BY <1>1 DEF Stateful
  <2>3. QED BY <1>1, <2>1, <2>2, StatusIsKnown, ObjIsJSON DEF ValidAnswer, BuildStatusResponse
<1>2. CASE a = "ChangeConfiguration"
  <2>1. ResponsePayload(a, p, cs, matches) = BuildStatusResponse("Accepted")
    BY <1>2 DEF ResponsePayload, BuildStatusResponse, Stateful
  <2>2. "Accepted" \in ResponseStatus[a]
    BY <1>2 DEF ResponseStatus
  <2>3. QED BY <1>2, <2>1, <2>2, ObjIsJSON DEF ValidAnswer, BuildStatusResponse
<1>3. CASE a = "GetConfiguration"
  <2> DEFINE f == [configurationKey |-> Arr(<<"HeartbeatInterval">>), unknownKey |-> Arr(<<>>)]
  <2>1. ResponsePayload(a, p, cs, matches) = Obj(f)
    BY <1>3 DEF ResponsePayload, Stateful
  <2>2. DOMAIN f = {"configurationKey", "unknownKey"}
    OBVIOUS
  <2> HIDE DEF f
  <2>3. Obj(f)[2] = f
    BY DEF Obj
  <2>4. QED BY <1>3, <2>1, <2>2, <2>3, ObjIsJSON DEF ValidAnswer
<1>4. QED BY <1>1, <1>2, <1>3, CommandNames DEF Stateful

-----------------------------------------------------------------------------
(* Frames of any origin                                                    *)

LEMMA DecodeResult ==
    ASSUME NEW j, NEW p
    PROVE  Decode(<<Num(CALLRESULT), j, p>>) =
               IF StringOk(j) THEN BuildResult(StringOf(j), p) ELSE NoMessage
<1> DEFINE raw == <<Num(CALLRESULT), j, p>>
<1>1. /\ Len(raw) = 3 /\ raw[2] = j /\ raw[3] = p
      /\ IntOk(raw[1]) /\ IntOf(raw[1]) = CALLRESULT
  BY DEF Num, IntOk, IntOf, Tag
<1> HIDE DEF raw
<1>2. Decode(raw) = IF StringOk(j) THEN BuildResult(StringOf(j), p) ELSE NoMessage
  BY <1>1 DEF Decode, CALL, CALLRESULT, CALLERROR
<1>3. QED BY <1>2 DEF raw

LEMMA DecodeError ==
    ASSUME NEW j, NEW c, NEW d, NEW e
    PROVE  LET m == Decode(<<Num(CALLERROR), j, Str(c), Str(d), e>>)
           IN  IF StringOk(j) THEN m.type = CALLERROR /\ m.uid = StringOf(j) ELSE m = NoMessage
<1> DEFINE raw == <<Num(CALLERROR), j, Str(c), Str(d), e>>
<1>1. /\ Len(raw) = 5 /\ raw[2] = j /\ raw[5] = e
      /\ IntOk(raw[1]) /\ IntOf(raw[1]) = CALLERROR
      /\ StringOk(raw[3]) /\ StringOf(raw[3]) = c
      /\ StringOk(raw[4]) /\ StringOf(raw[4]) = d
  BY DEF Num, Str, IntOk, IntOf, StringOk, StringOf, Tag
<1>2. \A u : LET m == [BuildError(u, c, d, e) EXCEPT !.details = e]
             IN  m.type = CALLERROR /\ m.uid = u
  BY DEF BuildError, NoMessage
<1> HIDE DEF raw
<1>3. Decode(raw) = IF StringOk(j) THEN [BuildError(StringOf(j), c, d, e) EXCEPT !.details = e]
                    ELSE NoMessage
  BY <1>1 DEF Decode, CALL, CALLRESULT, CALLERROR
<1>4. QED BY <1>2, <1>3 DEF raw

\* What the codec takes for a CALL.
LEMMA DecodeCall ==
    ASSUME NEW raw
    PROVE  LET m == Decode(raw)
               isCall == /\ Len(raw) = 4 /\ IntOk(raw[1]) /\ IntOf(raw[1]) = CALL
                         /\ StringOk(raw[2]) /\ StringOk(raw[3])
           IN  /\ m.type = CALL <=> isCall
               /\ isCall => m.uid = StringOf(raw[2]) /\ m.action = StringOf(raw[3])
               /\ m.type \in {CALLRESULT, CALLERROR} => IntOk(raw[1]) /\ IntOf(raw[1]) # CALL
<1> DEFINE m == Decode(raw)
           isCall == /\ Len(raw) = 4 /\ IntOk(raw[1]) /\ IntOf(raw[1]) = CALL
                     /\ StringOk(raw[2]) /\ StringOk(raw[3])
<1>1. CASE isCall
  <2>1. m = BuildCall(StringOf(raw[2]), StringOf(raw[3]), raw[4])
    BY <1>1 DEF Decode, CALL, CALLRESULT, CALLERROR
  <2> HIDE DEF m
  <2>2. m.type = CALL /\ m.uid = StringOf(raw[2]) /\ m.action = StringOf(raw[3])
    BY <2>1 DEF BuildCall, NoMessage
  <2>3. QED BY <1>1, <2>2 DEF m, CALL, CALLRESULT, CALLERROR
<1>2. CASE ~isCall
  <2> DEFINE r == BuildResult(StringOf(raw[2]), raw[3])
             e == [BuildError(StringOf(raw[2]), StringOf(raw[3]), StringOf(raw[4]), raw[5])
                      EXCEPT !.details = raw[5]]
  <2>1. \/ m = NoMessage
        \/ IntOk(raw[1]) /\ IntOf(raw[1]) = CALLRESULT /\ m = r
        \/ IntOk(raw[1]) /\ IntOf(raw[1]) = CALLERROR /\ m = e
    BY <1>2 DEF Decode, CALL, CALLRESULT, CALLERROR
  <2>2. r.type = CALLRESULT
    BY DEF BuildResult, NoMessage
  <2>3. e.type = CALLERROR
    BY DEF BuildError, NoMessage
  <2>4. NoMessage.type = 0
    BY DEF NoMessage
  <2> HIDE DEF r, e
  <2> HIDE DEF m
  <2>5. \/ m.type = 0
        \/ /\ m.type = CALLRESULT \/ m.type = CALLERROR
           /\ IntOk(raw[1]) /\ IntOf(raw[1]) # CALL
    BY <2>1, <2>2, <2>3, <2>4 DEF CALL, CALLRESULT, CALLERROR
  <2>6. QED BY <1>2, <2>5 DEF m, CALL, CALLRESULT, CALLERROR
<1>3. QED BY <1>1, <1>2

\* What the charge point makes of a frame, whatever it says.
Answered(raw, cs, matches) ==
    IF Element(raw, 1) = Num(CALL) THEN InboundCall(raw, cs, matches) ELSE NoFrame

\* The first element of a frame is the number 2 when the codec reads a 2 in it.
LEMMA CallElement ==
    ASSUME NEW j, IsJSON(j)
    PROVE  IntOk(j) /\ IntOf(j) = CALL <=> j = Num(CALL)
BY DEF IsJSON, IntOk, IntOf, CALL, Num, Tag, JNull

LEMMA ForeignIsAnswered ==
    ASSUME NEW raw \in ForeignFrames, NEW cs, NEW matches
    PROVE  LET c == Decode(raw)
               m == Decode(Answered(raw, cs, matches))
           IN  /\ m.type # CALL
               /\ c.type = CALL =>
                     /\ m.type \in {CALLRESULT, CALLERROR} /\ m.uid = c.uid
                     /\ m.type = CALLRESULT <=> c.action \in Commands
               /\ c.type \in {CALLRESULT, CALLERROR} => Answered(raw, cs, matches) = NoFrame
<1> DEFINE c == Decode(raw)
           a == Answered(raw, cs, matches)
           m == Decode(a)
<1>1. PICK n \in 0 .. 5 : raw \in [1 .. n -> Elements]
  BY DEF ForeignFrames
<1>2. /\ Len(raw) = n
      /\ \A i \in 1 .. n : Element(raw, i) = raw[i] /\ IsJSON(raw[i])
      /\ \A i \in 1 .. 5 : i > n => Element(raw, i) = JNull
  BY <1>1, PathAssumption DEF Element
<1>3. c.type = CALL <=> /\ n = 4 /\ raw[1] = Num(CALL) /\ StringOk(raw[2]) /\ StringOk(raw[3])
  <2>1. c.type = CALL <=> /\ Len(raw) = 4 /\ IntOk(raw[1]) /\ IntOf(raw[1]) = CALL
                          /\ StringOk(raw[2]) /\ StringOk(raw[3])
    BY DecodeCall
  <2>2. n = 4 => IsJSON(raw[1])
    BY <1>2
  <2>3. QED BY <1>2, <2>1, <2>2, CallElement
<1>4. c.type = CALL => c.uid = StringOf(raw[2]) /\ c.action = StringOf(raw[3])
  BY DecodeCall
<1>5. c.type \in {CALLRESULT, CALLERROR} => Element(raw, 1) # Num(CALL)
  <2> SUFFICES ASSUME c.type \in {CALLRESULT, CALLERROR}, Element(raw, 1) = Num(CALL) PROVE FALSE
    OBVIOUS
  <2>1. IntOk(raw[1]) /\ IntOf(raw[1]) # CALL
    BY DecodeCall
  <2>2. n >= 1
    BY <1>2 DEF JNull, Num
  <2>3. QED BY <1>2, <2>1, <2>2, CallElement
<1>6. NoMessage.type = 0
  BY DEF NoMessage
<1>7. CASE Element(raw, 1) # Num(CALL)
  <2>1. a = NoFrame
    BY <1>7 DEF Answered
  <2>2. m = NoMessage
    BY <2>1 DEF Decode, NoFrame
  <2>3. c.type # CALL
    BY <1>2, <1>3, <1>7
  <2>4. QED BY <1>6, <2>1, <2>2, <2>3 DEF CALL
<1>8. CASE Element(raw, 1) = Num(CALL)
  <2>1. a = InboundCall(raw, cs, matches)
    BY <1>8 DEF Answered
  <2>2. CASE \E x \in Commands : Element(raw, 3) = Str(x)
    <3> DEFINE p == ResponsePayload(Element(raw, 3)[2], Element(raw, 4), cs, matches)
    <3>1. a = <<Num(CALLRESULT), Element(raw, 2), p>>
      BY <2>1, <2>2 DEF InboundCall
    <3> HIDE DEF p
    <3>2. m = IF StringOk(Element(raw, 2)) THEN BuildResult(StringOf(Element(raw, 2)), p) ELSE NoMessage
      BY <3>1, DecodeResult
    <3>3. \A u : BuildResult(u, p).type = CALLRESULT /\ BuildResult(u, p).uid = u
      BY DEF BuildResult, NoMessage
    <3>4. m.type \in {0, CALLRESULT}
      BY <1>6, <3>2, <3>3
    <3>5. ASSUME c.type = CALL
          PROVE  m.type = CALLRESULT /\ m.uid = c.uid /\ c.action \in Commands
      <4>1. Element(raw, 2) = raw[2] /\ Element(raw, 3) = raw[3] /\ StringOk(raw[2])
        BY <1>2, <1>3, <3>5
      <4>2. StringOf(raw[3]) \in Commands
        BY <2>2, <4>1 DEF StringOf, Str, Tag
      <4>3. QED BY <1>4, <3>2, <3>3, <3>5, <4>1, <4>2
    <3>6. QED BY <1>5, <1>8, <3>4, <3>5 DEF CALL, CALLRESULT, CALLERROR
  <2>3. CASE ~\E x \in Commands : Element(raw, 3) = Str(x)
    <3>1. a = <<Num(CALLERROR), Element(raw, 2), Str("NotImplemented"), Str("not_supported"), Obj(<<>>)>>
      BY <2>1, <2>3 DEF InboundCall
    <3>2. IF StringOk(Element(raw, 2))
          THEN m.type = CALLERROR /\ m.uid = StringOf(Element(raw, 2)) ELSE m = NoMessage
      BY <3>1, DecodeError
    <3>3. m.type \in {0, CALLERROR}
      BY <1>6, <3>2
    <3>4. ASSUME c.type = CALL
          PROVE  m.type = CALLERROR /\ m.uid = c.uid /\ c.action \notin Commands
      <4>1. Element(raw, 2) = raw[2] /\ Element(raw, 3) = raw[3] /\ StringOk(raw[2])
            /\ StringOk(raw[3]) /\ IsJSON(raw[3])
        BY <1>2, <1>3, <3>4
      <4>2. StringOf(raw[3]) = Empty \/ raw[3] = Str(StringOf(raw[3]))
        <5>1. CASE raw[3] = JNull
          BY <5>1 DEF StringOf, Tag, JNull
        <5>2. CASE raw[3] \in {"str"} \X STRING
          BY <5>2 DEF StringOf, Str, Tag
        <5>3. QED BY <4>1, <5>1, <5>2 DEF StringOk, Tag, IsJSON
      <4>3. StringOf(raw[3]) \notin Commands
        BY <2>3, <4>1, <4>2, CommandNames
      <4>4. QED BY <1>4, <3>2, <3>4, <4>1, <4>3
    <3>5. QED BY <1>5, <1>8, <3>3, <3>4 DEF CALL, CALLRESULT, CALLERROR
  <2>4. QED BY <2>2, <2>3
<1>9. QED BY <1>7, <1>8

-----------------------------------------------------------------------------
(* The CALLs of pkg/v16 and their answers                                  *)

Local == {"BootNotification", "Heartbeat", "StatusNotification", "MeterValues"}
OfCore == {"Authorize", "StartTransaction", "StopTransaction"}

\* The builders of message-processor write what the response schemas ask for and
\* pkg/v16 reads.
LEMMA LocalReply ==
    ASSUME NEW a \in Local
    PROVE  LET p == LocalPayload(a)
           IN  /\ p # NoJSON
               /\ Validate(ReplySchema[a], p[2])
               /\ a \in DOMAIN ResponseStruct => ParsesResponse(a, p)
<1> USE DEF Obj
<1>1. CASE a = "BootNotification"
  <2> DEFINE f == [status |-> Str("Accepted"), currentTime |-> Now, interval |-> Num(300)]
  <2>1. LocalPayload(a) = Obj(f)
    BY <1>1 DEF LocalPayload
  <2>2. Validate(ReplySchema[a], f)
    <3>1. Now \in ShortString
      BY TimestampAssumption DEF Now, Str, ShortString
    <3>2. ReplySchema[a] = [required |-> {"status", "currentTime", "interval"},
                            members |-> [status |-> Enum({"Accepted", "Pending", "Rejected"}),
                                         currentTime |-> ShortString, interval |-> Integer]]
      BY <1>1 DEF ReplySchema
    <3>3. QED BY <3>1, <3>2 DEF Validate, Enum, Integer, Str, Num
  <2>3. ParsesResponse(a, Obj(f))
    <3>1. ResponseStruct[a] = [status |-> "string", currentTime |-> "string", interval |-> "int"]
      BY <1>1 DEF ResponseStruct
    <3>2. QED BY <3>1 DEF ParsesResponse, Binds, Takes, Tag, Str, Num, Now
  <2> HIDE DEF f
  <2>4. Obj(f)[2] = f
    OBVIOUS
  <2>5. QED BY <2>1, <2>2, <2>3, <2>4, ObjIsJSON
<1>2. CASE a = "Heartbeat"
  <2> DEFINE f == [currentTime |-> Now]
  <2>1. LocalPayload(a) = Obj(f)
    BY <1>2 DEF LocalPayload
  <2>2. Validate(ReplySchema[a], f)
    <3>1. Now \in ShortString
      BY TimestampAssumption DEF Now, Str, ShortString
    <3>2. ReplySchema[a] = [required |-> {"currentTime"}, members |-> [currentTime |-> ShortString]]
      BY <1>2 DEF ReplySchema
    <3>3. QED BY <3>1, <3>2 DEF Validate
  <2>3. ParsesResponse(a, Obj(f))
    <3>1. ResponseStruct[a] = [currentTime |-> "string"]
      BY <1>2 DEF ResponseStruct
    <3>2. QED BY <3>1 DEF ParsesResponse, Binds, Takes, Tag, Str, Now
  <2> HIDE DEF f
  <2>4. Obj(f)[2] = f
    OBVIOUS
  <2>5. QED BY <2>1, <2>2, <2>3, <2>4, ObjIsJSON
<1>3. CASE a \in {"StatusNotification", "MeterValues"}
  <2>1. LocalPayload(a) = Obj(<<>>)
    BY <1>3 DEF LocalPayload
  <2>2. ReplySchema[a].required = {} /\ ReplySchema[a].members = <<>>
    <3>1. CASE a = "StatusNotification"
      BY <3>1 DEF ReplySchema
    <3>2. CASE a = "MeterValues"
      BY <3>2 DEF ReplySchema
    <3>3. QED BY <1>3, <3>1, <3>2
  <2>3. Validate(ReplySchema[a], <<>>)
    BY <2>2 DEF Validate
  <2>4. a \notin DOMAIN ResponseStruct
    BY <1>3 DEF ResponseStruct
  <2>5. QED BY <2>1, <2>3, <2>4, ObjIsJSON
<1>4. QED BY <1>1, <1>2, <1>3 DEF Local

\* So do the handlers of ocpp-core.
LEMMA CoreReply ==
    ASSUME NEW a \in OfCore, NEW id \in Int
    PROVE  LET p == CorePayload(a, id)
           IN  /\ p # NoJSON
               /\ Validate(ReplySchema[a], p[2])
               /\ ParsesResponse(a, p)
<1> DEFINE info == IdTagInfo("Accepted")
<1>1. info \in Object
  BY DEF IdTagInfo, Object, Obj
<1>2. Binds([status |-> "string"], info) /\ Tag(info) = "obj"
  BY DEF IdTagInfo, Obj, Binds, Takes, Tag, Str
<1> HIDE DEF info
<1>3. CASE a = "StartTransaction"
  <2> DEFINE f == [transactionId |-> Num(id), idTagInfo |-> info]
  <2>1. CorePayload(a, id) = Obj(f)
    BY <1>3 DEF CorePayload, info
  <2>2. Validate(ReplySchema[a], f)
    <3>1. ReplySchema[a] = [required |-> {"transactionId", "idTagInfo"},
                            members |-> [transactionId |-> Integer, idTagInfo |-> Object]]
      BY <1>3 DEF ReplySchema
    <3>2. QED BY <1>1, <3>1 DEF Validate, Integer, Num
  <2>3. ParsesResponse(a, Obj(f))
    <3>1. ResponseStruct[a] = [transactionId |-> "int", idTagInfo |-> "struct"]
      BY <1>3 DEF ResponseStruct
    <3>2. Binds(ResponseStruct[a], Obj(f))
      BY <1>2, <3>1 DEF Binds, Takes, Num, Tag, Obj
    <3>3. QED BY <1>2, <3>2, ObjIsJSON DEF ParsesResponse
  <2> HIDE DEF f
  <2>4. Obj(f)[2] = f
    BY DEF Obj
  <2>5. QED BY <2>1, <2>2, <2>3, <2>4, ObjIsJSON
<1>4. CASE a \in {"Authorize", "StopTransaction"}
  <2> DEFINE f == [idTagInfo |-> info]
  <2>1. CorePayload(a, id) = Obj(f)
    BY <1>4 DEF CorePayload, info
  <2>2. Validate(ReplySchema[a], f)
    <3>1. ReplySchema[a].required \subseteq {"idTagInfo"}
          /\ ReplySchema[a].members = [idTagInfo |-> Object]
      BY <1>4 DEF ReplySchema
    <3>2. QED BY <1>1, <3>1 DEF Validate
  <2>3. ParsesResponse(a, Obj(f))
    <3>1. ResponseStruct[a] = [idTagInfo |-> "struct"]
      BY <1>4 DEF ResponseStruct
    <3>2. Binds(ResponseStruct[a], Obj(f))
      BY <1>2, <3>1 DEF Binds, Takes, Tag, Obj
    <3>3. QED BY <1>2, <3>2, ObjIsJSON DEF ParsesResponse
  <2> HIDE DEF f
  <2>4. Obj(f)[2] = f
    BY DEF Obj
  <2>5. QED BY <2>1, <2>2, <2>3, <2>4, ObjIsJSON
<1>5. QED BY <1>3, <1>4 DEF OfCore

\* A CALL of pkg/v16 is a CALL, and ocpp-core refuses only an empty id tag.
LEMMA LibraryCall ==
    ASSUME NEW m \in LibraryCalls
    PROVE  /\ \E u, a, p : m = BuildCall(u, a, p) /\ a \in Local \cup OfCore /\ p # NoJSON
           /\ m.action \in OfCore /\ CoreRefuses(m.action, m.payload) =>
                 /\ m.action \in {"Authorize", "StartTransaction"}
                 /\ Member(m.payload, "idTag") = Str(Empty)
<1>0. \A u, a, p : BuildCall(u, a, p).action = a /\ BuildCall(u, a, p).payload = p
  BY DEF BuildCall, NoMessage
<1>1. ASSUME NEW u, NEW a \in Local, NEW f, m = BuildCall(u, a, Obj(f))
      PROVE  /\ m.action = a
             /\ \E v, b, p : m = BuildCall(v, b, p) /\ b \in Local \cup OfCore /\ p # NoJSON
  <2>1. Obj(f) # NoJSON
    BY ObjIsJSON
  <2>2. QED BY <1>0, <1>1, <2>1
<1>2. ASSUME NEW u, NEW a \in OfCore, NEW f, m = BuildCall(u, a, Obj(f))
      PROVE  /\ m.action = a /\ m.payload = Obj(f)
             /\ \E v, b, p : m = BuildCall(v, b, p) /\ b \in Local \cup OfCore /\ p # NoJSON
  <2>1. Obj(f) # NoJSON
    BY ObjIsJSON
  <2>2. QED BY <1>0, <1>2, <2>1
<1>3. Local \cap OfCore = {}
  BY DEF Local, OfCore
<1>4. PICK u \in Uids :
        \/ m = BuildBootNotification(u, "vendor", "model") \/ m = BuildHeartbeat(u)
        \/ \E c \in Numbers, s \in ConnectorStatuses : m = BuildStatusNotification(u, c, s, "NoError")
        \/ \E t \in IdTags : m = BuildAuthorize(u, t)
        \/ \E c \in Numbers, t \in IdTags, n \in Numbers : m = BuildStartTransaction(u, c, t, n)
        \/ \E c \in Numbers, x \in {JNull} \cup {Num(n) : n \in Numbers} :
              m = BuildMeterValues(u, c, x, <<"Wh">>)
        \/ \E x \in Numbers, t \in IdTags, n \in Numbers, r \in {Empty, "Local"} :
              m = BuildStopTransaction(u, x, t, n, r)
  <2> DEFINE Calls(v) ==
        {BuildBootNotification(v, "vendor", "model"), BuildHeartbeat(v)}
        \cup {BuildStatusNotification(v, c, s, "NoError") : c \in Numbers, s \in ConnectorStatuses}
        \cup {BuildAuthorize(v, t) : t \in IdTags}
        \cup {BuildStartTransaction(v, c, t, n) : c \in Numbers, t \in IdTags, n \in Numbers}
        \cup {BuildMeterValues(v, c, x, <<"Wh">>) :
                  c \in Numbers, x \in {JNull} \cup {Num(n) : n \in Numbers}}
        \cup {BuildStopTransaction(v, x, t, n, r) :
                  x \in Numbers, t \in IdTags, n \in Numbers, r \in {Empty, "Local"}}
  <2>1. LibraryCalls = UNION {Calls(v) : v \in Uids}
    BY DEF LibraryCalls
  <2>2. PICK u \in Uids : m \in Calls(u)
    <3> HIDE DEF Calls
    <3>1. QED BY <2>1
  <2>3. QED BY <2>2
<1>5. CASE \/ m = BuildBootNotification(u, "vendor", "model") \/ m = BuildHeartbeat(u)
           \/ \E c \in Numbers, s \in ConnectorStatuses : m = BuildStatusNotification(u, c, s, "NoError")
           \/ \E c \in Numbers, x \in {JNull} \cup {Num(n) : n \in Numbers} :
                 m = BuildMeterValues(u, c, x, <<"Wh">>)
  <2>1. \E a \in Local : \E f : m = BuildCall(u, a, Obj(f))
    <3>1. "BootNotification" \in Local /\ "Heartbeat" \in Local /\ "StatusNotification" \in Local
          /\ "MeterValues" \in Local
      BY DEF Local
    <3>2. QED BY <1>5, <3>1, Zenon
              DEF BuildBootNotification, BuildHeartbeat, BuildStatusNotification, BuildMeterValues
  <2>2. QED BY <1>1, <1>3, <2>1
<1>6. ASSUME NEW t \in IdTags, m = BuildAuthorize(u, t)
      PROVE  /\ \E v, b, p : m = BuildCall(v, b, p) /\ b \in Local \cup OfCore /\ p # NoJSON
             /\ CoreRefuses(m.action, m.payload) =>
                   m.action = "Authorize" /\ Member(m.payload, "idTag") = Str(Empty)
  <2> DEFINE f == [idTag |-> Str(t)]
  <2>1. "Authorize" \in OfCore /\ m = BuildCall(u, "Authorize", Obj(f))
    BY <1>6 DEF BuildAuthorize, OfCore
  <2>2. CoreStruct["Authorize"] = [idTag |-> "string"]
    BY DEF CoreStruct
  <2>3. DOMAIN f = {"idTag"} /\ f["idTag"] = Str(t)
    OBVIOUS
  <2> HIDE DEF f
  <2>4. Binds(CoreStruct["Authorize"], Obj(f))
    BY <2>2, <2>3 DEF Binds, Obj, Tag, Takes, Str
  <2>5. Given(Obj(f), "idTag")
    BY <2>3, ObjIsJSON DEF Given, Str, JNull, Arr
  <2>6. Rewritten(CoreStruct["Authorize"], Obj(f)).idTag = Str(t)
    BY <2>2, <2>3, <2>5, ObjIsJSON DEF Rewritten
  <2>7. Member(Obj(f), "idTag") = Str(t)
    BY <2>3, ObjIsJSON DEF Member
  <2>8. CoreRefuses("Authorize", Obj(f)) => Str(t) = Str(Empty)
    BY <2>4, <2>6 DEF CoreRefuses
  <2>9. QED BY <1>2, <2>1, <2>7, <2>8
<1>7. ASSUME NEW c \in Numbers, NEW t \in IdTags, NEW n \in Numbers, m = BuildStartTransaction(u, c, t, n)
      PROVE  /\ \E v, b, p : m = BuildCall(v, b, p) /\ b \in Local \cup OfCore /\ p # NoJSON
             /\ CoreRefuses(m.action, m.payload) =>
                   m.action = "StartTransaction" /\ Member(m.payload, "idTag") = Str(Empty)
  <2> DEFINE f == [connectorId |-> Num(c), idTag |-> Str(t), meterStart |-> Num(n), timestamp |-> Now]
  <2>1. "StartTransaction" \in OfCore /\ m = BuildCall(u, "StartTransaction", Obj(f))
    BY <1>7 DEF BuildStartTransaction, OfCore
  <2>2. CoreStruct["StartTransaction"] =
            [connectorId |-> "int", idTag |-> "string", meterStart |-> "int", timestamp |-> "string"]
    BY DEF CoreStruct
  <2>3. /\ DOMAIN f = {"connectorId", "idTag", "meterStart", "timestamp"}
        /\ f["idTag"] = Str(t) /\ f["connectorId"] = Num(c) /\ f["meterStart"] = Num(n)
        /\ f["timestamp"] = Now
    OBVIOUS
  <2> HIDE DEF f
  <2>4. Binds(CoreStruct["StartTransaction"], Obj(f))
    BY <2>2, <2>3 DEF Binds, Obj, Tag, Takes, Str, Num, Now
  <2>5. Given(Obj(f), "idTag")
    BY <2>3, ObjIsJSON DEF Given, Str, JNull, Arr
  <2>6. Rewritten(CoreStruct["StartTransaction"], Obj(f)).idTag = Str(t)
    BY <2>2, <2>3, <2>5, ObjIsJSON DEF Rewritten
  <2>7. Member(Obj(f), "idTag") = Str(t)
    BY <2>3, ObjIsJSON DEF Member
  <2>8. CoreRefuses("StartTransaction", Obj(f)) => Str(t) = Str(Empty)
    BY <2>4, <2>6 DEF CoreRefuses
  <2>9. QED BY <1>2, <2>1, <2>7, <2>8
<1>8. ASSUME NEW x \in Numbers, NEW t \in IdTags, NEW n \in Numbers, NEW r \in {Empty, "Local"},
             m = BuildStopTransaction(u, x, t, n, r)
      PROVE  /\ \E v, b, p : m = BuildCall(v, b, p) /\ b \in Local \cup OfCore /\ p # NoJSON
             /\ ~CoreRefuses(m.action, m.payload)
  <2> DEFINE j == [transactionId |-> Num(x), idTag |-> Str(t), meterStop |-> Num(n),
                   timestamp |-> Now, reason |-> Str(r)]
             f == Rewritten(StopTransactionStruct, Obj(j))
  <2>1. "StopTransaction" \in OfCore /\ m = BuildCall(u, "StopTransaction", Obj(f))
    BY <1>8 DEF BuildStopTransaction, OfCore
  <2>2. \A y \in DOMAIN StopTransactionStruct : StopTransactionStruct[y] \in GoTypes
    BY DEF StopTransactionStruct, GoTypes
  <2>3. Binds(StopTransactionStruct, Obj(j))
    BY DEF Binds, Obj, Tag, Takes, Str, Num, Now, StopTransactionStruct
  <2> HIDE DEF j
  <2>4. Binds(StopTransactionStruct, Obj(f))
    BY <2>2, <2>3, RewrittenBinds
  <2>5. CoreStruct["StopTransaction"] = StopTransactionStruct
    BY DEF CoreStruct
  <2> HIDE DEF f
  <2>6. ~CoreRefuses("StopTransaction", Obj(f))
    BY <2>4, <2>5 DEF CoreRefuses
  <2>7. QED BY <1>2, <2>1, <2>6
<1>9. QED BY <1>4, <1>5, <1>6, <1>7, <1>8

\* The whole exchange.
LEMMA LibraryExchange ==
    ASSUME NEW m \in LibraryCalls, NEW ok \in BOOLEAN, NEW id \in Int
    PROVE  LET r == Decode(Encode(Response(m, ok, id)))
           IN  /\ Decode(Encode(m)) = m /\ m.type = CALL
               /\ r.uid = m.uid
               /\ r.type = CALLERROR =>
                     \/ m.action \in DOMAIN CoreStruct /\ ~ok
                     \/ /\ m.action \in {"Authorize", "StartTransaction"}
                        /\ Member(m.payload, "idTag") = Str(Empty)
               /\ r.type # CALLERROR =>
                     /\ r.type = CALLRESULT
                     /\ m.action \in DOMAIN ResponseStruct => ParsesResponse(m.action, r.payload)
<1> DEFINE r == Decode(Encode(Response(m, ok, id)))
<1>1. PICK u, a, p : m = BuildCall(u, a, p) /\ a \in Local \cup OfCore /\ p # NoJSON
  BY LibraryCall
<1>2. m.type = CALL /\ m.uid = u /\ m.action = a /\ m.payload = p
  BY <1>1 DEF BuildCall, NoMessage
<1>3. a # Empty
  <2>1. Empty \notin Local \cup OfCore
    BY Zenon DEF Local, OfCore, Empty
  <2>2. QED BY <1>1, <2>1
<1>4. Decode(Encode(m)) = m
  BY <1>1, <1>3, CallRoundTrip
<1>5. DOMAIN CoreStruct = OfCore
  BY DEF CoreStruct, OfCore
<1>6. ASSUME NEW q, q # NoJSON, Validate(ReplySchema[a], q[2]), Response(m, ok, id) = Result(m, q)
      PROVE  r.type = CALLRESULT /\ r.uid = u /\ r.payload = q
  <2>1. Response(m, ok, id) = BuildResult(u, q)
    BY <1>2, <1>6 DEF Result
  <2>2. r = BuildResult(u, q)
    BY <1>6, <2>1, ResultRoundTrip
  <2> HIDE DEF r
  <2>3. QED BY <2>2 DEF BuildResult, NoMessage
<1>7. CASE a \in Local
  <2>1. Response(m, ok, id) = Result(m, LocalPayload(a))
    BY <1>2, <1>5, <1>7 DEF Response, Local, OfCore
  <2> DEFINE q == LocalPayload(a)
  <2>2. q # NoJSON /\ Validate(ReplySchema[a], q[2])
        /\ (a \in DOMAIN ResponseStruct => ParsesResponse(a, q))
    BY <1>7, LocalReply
  <2> HIDE DEF q, r
  <2>3. r.type = CALLRESULT /\ r.uid = u /\ r.payload = q
    BY <1>6, <2>1, <2>2 DEF q
  <2>4. r.type # CALLERROR
    BY <2>3 DEF CALLRESULT, CALLERROR
  <2>5. QED BY <1>2, <1>4, <2>2, <2>3, <2>4 DEF r
<1>8. CASE a \in OfCore /\ ok /\ ~CoreRefuses(a, p)
  <2> DEFINE q == CorePayload(a, id)
  <2>1. Response(m, ok, id) = Result(m, q)
    BY <1>2, <1>5, <1>8 DEF Response, OfCore
  <2>2. q # NoJSON /\ Validate(ReplySchema[a], q[2]) /\ ParsesResponse(a, q)
    BY <1>8, CoreReply
  <2> HIDE DEF q, r
  <2>3. r.type = CALLRESULT /\ r.uid = u /\ r.payload = q
    BY <1>6, <2>1, <2>2
  <2>4. r.type # CALLERROR
    BY <2>3 DEF CALLRESULT, CALLERROR
  <2>5. QED BY <1>2, <1>4, <2>2, <2>3, <2>4 DEF r
<1>9. CASE a \in OfCore /\ ~(ok /\ ~CoreRefuses(a, p))
  <2>1. Response(m, ok, id) = BuildError(u, "GenericError", "core", NoJSON)
    BY <1>2, <1>5, <1>9 DEF Response, OfCore
  <2>2. r = BuildError(u, "GenericError", "core", NoJSON)
    BY <2>1, ErrorRoundTrip
  <2> HIDE DEF r
  <2>3. r.type = CALLERROR /\ r.uid = u
    BY <2>2 DEF BuildError, NoMessage
  <2>4. CoreRefuses(a, p) => a \in {"Authorize", "StartTransaction"} /\ Member(p, "idTag") = Str(Empty)
    BY <1>2, <1>9, LibraryCall
  <2>5. QED BY <1>2, <1>4, <1>5, <1>9, <2>3, <2>4 DEF r
<1>10. QED BY <1>1, <1>7, <1>8, <1>9

-----------------------------------------------------------------------------
(* The specification                                                       *)

\* What a step leaves behind for the next: the command that was published, the
\* frame of another origin, the CALL of pkg/v16, and what was made of them.
Commanded ==
    /\ pc \in {"asked", "queued", "answered"} => action \in Commands
    /\ pc \in {"queued", "answered"} =>
          Publishable /\ out = Encode(BuildCall(uid, action, Obj(Filled)))
    /\ pc \in {"answered", "foreignAnswered"} => \E cs, matches : in = Answered(out, cs, matches)
    /\ pc \in {"foreign", "foreignAnswered"} => out \in ForeignFrames

Called ==
    pc \in {"called", "responded", "coreFailed"} =>
        \E m \in LibraryCalls :
            /\ action = m.action /\ uid = m.uid /\ in = Encode(m)
            /\ pc # "called" => \E id \in Int : out = Encode(Response(m, pc = "responded", id))

PathInv == Commanded /\ Called

LEMMA PathStepKeeps == PathInv /\ [PathNext]_pathVars => PathInv'
<1> SUFFICES ASSUME PathInv, [PathNext]_pathVars PROVE PathInv'
  OBVIOUS
<1> USE DEF PathInv, Commanded, Called
<1>1. ASSUME NEW a \in Commands, NEW b \in Bodies(a), Ask(a, b) PROVE PathInv'
  BY <1>1 DEF Ask
<1>2. ASSUME NEW u \in Uids, Queue(u) PROVE PathInv'
  BY <1>2 DEF Queue, Publishable, Filled
<1>3. CASE Refuse
  BY <1>3 DEF Refuse
<1>4. ASSUME NEW raw \in ForeignFrames, Foreign(raw) PROVE PathInv'
  BY <1>4 DEF Foreign
<1>5. ASSUME NEW cs, NEW matches, Handle(cs, matches) PROVE PathInv'
  <2>1. in' = Answered(out, cs, matches) /\ UNCHANGED <<action, body, uid, out>>
    BY <1>5 DEF Handle, Answered
  <2>2. CASE pc = "queued"
    <3>1. pc' = "answered"
      BY <1>5, <2>2 DEF Handle
    <3>2. QED BY <2>1, <2>2, <3>1 DEF Publishable, Filled
  <2>3. CASE pc = "foreign"
    <3>1. pc' = "foreignAnswered"
      BY <1>5, <2>3 DEF Handle
    <3>2. QED BY <2>1, <2>3, <3>1
  <2>4. QED BY <1>5, <2>2, <2>3 DEF Handle
<1>6. ASSUME NEW m \in LibraryCalls, Send(m) PROVE PathInv'
  BY <1>6 DEF Send
<1>7. ASSUME NEW ok \in BOOLEAN, NEW id \in Numbers, Process(ok, id) PROVE PathInv'
  <2>1. CASE pc = "called"
    <3>1. PICK m \in LibraryCalls : action = m.action /\ uid = m.uid /\ in = Encode(m)
      BY <2>1
    <3>2. id \in Int
      BY PathAssumption
    <3>3. Decode(in) = m /\ m.type = CALL
      BY <3>1, <3>2, LibraryExchange
    <3>4. out' = Encode(Response(m, ok, id)) /\ UNCHANGED <<action, body, uid, in>>
      BY <1>7, <3>3 DEF Process
    <3>5. CASE ok
      <4>1. pc' = "responded" /\ ok = (pc' = "responded")
        BY <1>7, <2>1, <3>5 DEF Process
      <4>2. QED BY <3>1, <3>2, <3>4, <4>1
    <3>6. CASE ~ok
      <4>1. pc' = "coreFailed" /\ ok = (pc' = "responded")
        BY <1>7, <2>1, <3>6 DEF Process
      <4>2. QED BY <3>1, <3>2, <3>4, <4>1
    <3>7. QED BY <3>5, <3>6
  <2>2. CASE pc # "called"
    <3>1. pc' = "done"
      BY <1>7, <2>2 DEF Process
    <3>2. QED BY <3>1
  <2>3. QED BY <2>1, <2>2
<1>8. CASE Again
  BY <1>8 DEF Again
<1>9. CASE UNCHANGED pathVars
  BY <1>9 DEF pathVars, Publishable, Filled
<1>10. QED BY <1>1, <1>2, <1>3, <1>4, <1>5, <1>6, <1>7, <1>8, <1>9 DEF PathNext

LEMMA PathInvHolds == PathSpec => []PathInv
<1>1. PathInit => PathInv
  BY DEF PathInit, PathInv, Commanded, Called
<1>2. QED BY <1>1, PathStepKeeps, PTL DEF PathSpec

\* csms.Service, api.Server, the codec and pkg/v16: a command that was answered
\* with 202 arrives as it was given, whatever JSON the body holds.
THEOREM CommandsArrive == PathSpec => []QueuedIsUnderstood
<1>1. PathInv => QueuedIsUnderstood
  <2> SUFFICES ASSUME PathInv, pc = "queued" PROVE QueuedIsUnderstood
    BY DEF QueuedIsUnderstood
  <2>1. action \in Commands /\ Publishable /\ out = Encode(BuildCall(uid, action, Obj(Filled)))
    BY DEF PathInv, Commanded
  <2>2. action # Empty /\ Obj(Filled) # NoJSON
    BY <2>1, CommandNames, ObjIsJSON
  <2>3. Decode(out) = BuildCall(uid, action, Obj(Filled))
    BY <2>1, <2>2, CallRoundTrip
  <2>4. /\ Parses(action, Obj(Filled))
        /\ \A x \in DOMAIN RequestStruct[action] :
              Given(body, x) => Member(Obj(Filled), x) = Members(body)[x]
    BY <2>1, FilledIsUnderstood DEF Publishable, Filled
  <2> DEFINE m == Decode(out)
  <2>5. m.type = CALL /\ m.uid = uid /\ m.action = action /\ m.payload = Obj(Filled)
    BY <2>3 DEF BuildCall, NoMessage
  <2>6. QED BY <2>4, <2>5 DEF QueuedIsUnderstood
<1>2. QED BY <1>1, PathInvHolds, PTL

\* handleInboundCall, buildResponse and pkg/v16: the charge point's answer to a
\* command is a CALLRESULT under its unique id with a payload the protocol
\* allows, in every state of the charge point.
THEOREM AnswersAreExact == PathSpec => []AnswerIsSpecExact
<1>1. PathInv => AnswerIsSpecExact
  <2> SUFFICES ASSUME PathInv, pc = "answered" PROVE AnswerIsSpecExact
    BY DEF AnswerIsSpecExact
  <2>1. action \in Commands /\ out = Encode(BuildCall(uid, action, Obj(Filled)))
    BY DEF PathInv, Commanded
  <2>2. PICK cs, matches : in = Answered(out, cs, matches)
    BY DEF PathInv, Commanded
  <2>3. out = <<Num(CALL), Str(uid), Str(action), Obj(Filled)>>
    <3>1. action # Empty /\ Obj(Filled) # NoJSON
      BY <2>1, CommandNames, ObjIsJSON
    <3>2. QED BY <2>1, <3>1, CallRoundTrip
  <2>4. /\ Element(out, 1) = Num(CALL) /\ Element(out, 2) = Str(uid)
        /\ Element(out, 3) = Str(action) /\ Element(out, 4) = Obj(Filled)
    BY <2>3 DEF Element
  <2> DEFINE p == ResponsePayload(action, Obj(Filled), cs, matches)
  <2>5. in = <<Num(CALLRESULT), Str(uid), p>>
    <3>1. Str(action)[2] = action
      BY DEF Str
    <3>2. QED BY <2>1, <2>2, <2>4, <3>1 DEF Answered, InboundCall
  <2>6. ValidAnswer(action, p) /\ p # NoJSON
    BY <2>1, AnswerIsValid
  <2> HIDE DEF p
  <2>7. Decode(in) = BuildResult(uid, p)
    BY <2>5, <2>6, ResultRoundTrip
  <2> DEFINE m == Decode(in)
  <2>8. m.type = CALLRESULT /\ m.uid = uid /\ m.payload = p
    BY <2>7 DEF BuildResult, NoMessage
  <2>9. QED BY <2>6, <2>8 DEF AnswerIsSpecExact
<1>2. QED BY <1>1, PathInvHolds, PTL

\* handleOCPPFrame and the codec: whatever is published to a charge point, what
\* the codec takes for a CALL is answered under its unique id, what it takes for
\* an answer is not answered, and it takes no answer of the browser for a CALL.
THEOREM AnswersFollowCalls == PathSpec => []AnswerFollowsCall
<1>1. PathInv => AnswerFollowsCall
  <2> SUFFICES ASSUME PathInv, pc = "foreignAnswered" PROVE AnswerFollowsCall
    BY DEF AnswerFollowsCall
  <2>1. PICK cs, matches : in = Answered(out, cs, matches)
    BY DEF PathInv, Commanded
  <2>2. out \in ForeignFrames
    BY DEF PathInv, Commanded
  <2>3. QED BY <2>1, <2>2, ForeignIsAnswered DEF AnswerFollowsCall
<1>2. QED BY <1>1, PathInvHolds, PTL

\* pkg/v16, Handler.Handle and the handlers of ocpp-core: a CALL that pkg/v16
\* builds is answered under its unique id, with a result it can read unless the
\* core fails or the id tag is empty.
THEOREM LibraryCallsAnswered == PathSpec => []LibraryCallIsAnswered
<1>1. PathInv => LibraryCallIsAnswered
  <2> SUFFICES ASSUME PathInv, pc \in {"responded", "coreFailed"} PROVE LibraryCallIsAnswered
    BY DEF LibraryCallIsAnswered
  <2>1. PICK m \in LibraryCalls, id \in Int :
            /\ action = m.action /\ uid = m.uid /\ in = Encode(m)
            /\ out = Encode(Response(m, pc = "responded", id))
    BY DEF PathInv, Called
  <2>2. (pc = "responded") \in BOOLEAN /\ (~(pc = "responded") => pc = "coreFailed")
    OBVIOUS
  <2>3. QED BY <2>1, <2>2, LibraryExchange DEF LibraryCallIsAnswered
<1>2. QED BY <1>1, PathInvHolds, PTL
=============================================================================
