----------------------------- MODULE CommandPath -----------------------------
(***************************************************************************)
(* What the frames between the CSMS and a charge point say, and whether     *)
(* every program on the way reads the same thing in them.                  *)
(*                                                                         *)
(* A command starts as the JSON body of an HTTP request to                  *)
(* /internal/csms/*: api.Server binds it to a struct, csms.Service checks,   *)
(* fills in and publishes it on ocpp/{cpId}/out, the gateway passes the     *)
(* bytes on, the charge point in the browser answers on ocpp/{cpId}/in, and *)
(* message-processor and canonlog decode the answer.  The other way, a CALL *)
(* built with pkg/v16 is decoded and answered by message-processor, with    *)
(* ocpp-core's help, and read with pkg/v16 again.                          *)
(*                                                                         *)
(* One frame at a time: concurrency, loss and crashes on this path are in   *)
(* CoreMessaging, Gateway, Processor and CentralSystem, which leave out     *)
(* what a frame says.  The bodies are any JSON members of a small set;      *)
(* charge point state is an input of the answer (ChargePoint has it).       *)
(***************************************************************************)
EXTENDS V16

CONSTANTS
    Uids,        \* unique ids
    Values,      \* JSON values of the members of a request body
    Elements,    \* JSON values of the elements of a foreign frame
    IdTags,      \* the id tags in the CALLs of a charge point
    Numbers      \* its connectors, meter values and transaction ids

ASSUME PathAssumption ==
    /\ Numbers \subseteq Int
    /\ \A v \in Values \cup Elements : IsJSON(v)

VARIABLES
    pc,          \* how far the frame is
    action,      \* the command of the HTTP request
    body,        \* the payload member of its body
    uid,         \* the unique id the sender chose
    out,         \* the frame on ocpp/{cpId}/out, or NoFrame
    in           \* the frame on ocpp/{cpId}/in, or NoFrame

pathVars == <<pc, action, body, uid, out, in>>

ConnectorStatuses == {"Available", "Preparing", "Charging", "Finishing", "Unavailable",
                      "Faulted", "SuspendedEV", "SuspendedEVSE"}

Bodies(a) ==
    {JNull} \cup
    {Obj(f) : f \in UNION {[d -> Values] : d \in SUBSET DOMAIN RequestStruct[a]}}

PathInit ==
    /\ pc = "idle"
    /\ action = Empty
    /\ body = JNull
    /\ uid = Empty
    /\ out = NoFrame
    /\ in = NoFrame

-----------------------------------------------------------------------------
(* api.Server and csms.Service                                             *)

\* A request to /internal/csms/*.
Ask(a, b) ==
    /\ pc = "idle"
    /\ pc' = "asked"
    /\ action' = a
    /\ body' = b
    /\ UNCHANGED <<uid, out, in>>

\* Mutated form of CommandOk: csms.Service sends what the schema lets pass.
CommandOkSchemaOnly(a, p) == TRUE

\* The checks of the handlers (idTag) and of csms.Service on the bound fields.
CommandOk(a, p) ==
    CASE a = "RemoteStartTransaction" -> p.idTag # Str(Empty)
      [] a = "Reset" -> p.type \in {Str("Hard"), Str("Soft")}
      [] a = "UnlockConnector" -> p.connectorId[2] > 0
      [] a = "ChangeConfiguration" -> p.key # Str(Empty)
      [] a = "TriggerMessage" -> p.requestedMessage # Str(Empty)
      [] a = "ChangeAvailability" -> p.type \in {Str("Operative"), Str("Inoperative")}
      [] OTHER -> TRUE

\* The payload csms.Service marshals from the fields it was given.
Filled == Rewritten(RequestStruct[action], body)

Publishable ==
    /\ Binds(RequestStruct[action], body)
    /\ CommandOk(action, Filled)
    /\ Validate(RequestSchema[action], Filled)

\* publish: BuildCall, Encode, ocpp/{cpId}/out; 202.
Queue(u) ==
    /\ pc = "asked"
    /\ Publishable
    /\ pc' = "queued"
    /\ uid' = u
    /\ out' = Encode(BuildCall(u, action, Obj(Filled)))
    /\ UNCHANGED <<action, body, in>>

\* The body does not bind, or a check fails: 400.
Refuse ==
    /\ pc = "asked"
    /\ ~Publishable
    /\ pc' = "done"
    /\ UNCHANGED <<action, body, uid, out, in>>

\* Anything else that is published on ocpp/{cpId}/out.
Foreign(raw) ==
    /\ pc = "idle"
    /\ pc' = "foreign"
    /\ out' = raw
    /\ UNCHANGED <<action, body, uid, in>>

-----------------------------------------------------------------------------
(* The charge point in the browser                                         *)

\* frame[i]; an element that is missing is undefined, which JSON.stringify
\* writes as null.
Element(raw, i) == IF i <= Len(raw) THEN raw[i] ELSE JNull

\* payload?.x, and whether its typeof is the given one.
Member(p, x) == IF x \in DOMAIN Members(p) THEN Members(p)[x] ELSE JNull
HasMember(p, x, tag) == Tag(Member(p, x)) = tag

\* handleStatefulInboundCall: the status of the answer, in a charge point where
\* the connector named (or, if none is named, the first one) has status cs
\* ("none": there is no such connector) and an active transaction has the id
\* named or not.
StatefulStatus(a, p, cs, matches) ==
    CASE a = "RemoteStartTransaction" ->
            IF /\ HasMember(p, "idTag", "str") /\ Member(p, "idTag") # Str(Empty)
               /\ HasMember(p, "connectorId", "num") \/ cs # "none"
               /\ cs \in {"none", "Available", "Preparing"}
            THEN "Accepted" ELSE "Rejected"
      [] a = "RemoteStopTransaction" ->
            IF HasMember(p, "transactionId", "num") /\ matches THEN "Accepted" ELSE "Rejected"
      [] a = "UnlockConnector" ->
            IF HasMember(p, "connectorId", "num") /\ cs \notin {"none", "Charging"}
            THEN "Unlocked" ELSE "UnlockFailed"
      [] a = "Reset" ->
            IF Member(p, "type") \in {Str("Hard"), Str("Soft")} THEN "Accepted" ELSE "Rejected"
      [] a = "ChangeAvailability" ->
            IF \/ ~HasMember(p, "connectorId", "num")
               \/ Member(p, "type") \notin {Str("Inoperative"), Str("Operative")}
               \/ Member(p, "connectorId") = Num(0) /\ cs = "none"
            THEN "Rejected"
            ELSE IF Member(p, "type") = Str("Inoperative") /\ cs \in {"Charging", "Preparing", "Finishing"}
            THEN "Scheduled" ELSE "Accepted"
      [] a = "TriggerMessage" ->
            IF HasMember(p, "requestedMessage", "str") /\ Member(p, "requestedMessage") # Str(Empty)
            THEN "Accepted" ELSE "Rejected"

Stateful == {"RemoteStartTransaction", "RemoteStopTransaction", "UnlockConnector", "Reset",
             "ChangeAvailability", "TriggerMessage"}

\* Mutated form of ResponsePayload: ChangeConfiguration is left to the default.
ResponsePayloadNoChange(a, p, cs, matches) ==
    IF a \in Stateful THEN Obj([status |-> Str(StatefulStatus(a, p, cs, matches))])
    ELSE Obj([status |-> Str("Unlocked")])

\* What handleInboundCall answers with, for an action it knows: a decision, or
\* the constant payloads of buildResponse.
ResponsePayload(a, p, cs, matches) ==
    CASE a \in Stateful -> Obj([status |-> Str(StatefulStatus(a, p, cs, matches))])
      [] a = "ChangeConfiguration" -> Obj([status |-> Str("Accepted")])
      [] a = "GetConfiguration" ->
            Obj([configurationKey |-> Arr(<<"HeartbeatInterval">>), unknownKey |-> Arr(<<>>)])

\* handleInboundCall: a CALLRESULT, or a CALLERROR for an unknown action.
InboundCall(raw, cs, matches) ==
    LET a == Element(raw, 3)
    IN  IF \E c \in Commands : a = Str(c)
        THEN <<Num(CALLRESULT), Element(raw, 2),
               ResponsePayload(a[2], Element(raw, 4), cs, matches)>>
        ELSE <<Num(CALLERROR), Element(raw, 2), Str("NotImplemented"), Str("not_supported"), Obj(<<>>)>>

\* Mutated form of Handle: the switch has no case for a CALLERROR, and its default
\* is the CALL.
HandleUnlessResult(cs, matches) ==
    /\ pc \in {"queued", "foreign"}
    /\ in' = IF Element(out, 1) = Num(CALLRESULT) THEN NoFrame ELSE InboundCall(out, cs, matches)
    /\ pc' = IF pc = "queued" THEN "answered" ELSE "foreignAnswered"
    /\ UNCHANGED <<action, body, uid, out>>

\* handleOCPPFrame: a CALL is answered at once; answers and unknown message
\* types are not.
Handle(cs, matches) ==
    /\ pc \in {"queued", "foreign"}
    /\ in' = IF Element(out, 1) = Num(CALL) THEN InboundCall(out, cs, matches) ELSE NoFrame
    /\ pc' = IF pc = "queued" THEN "answered" ELSE "foreignAnswered"
    /\ UNCHANGED <<action, body, uid, out>>

-----------------------------------------------------------------------------
(* message-processor and the CALLs of pkg/v16                              *)

\* A charge point sends a CALL that pkg/v16 built.
Send(m) ==
    /\ pc = "idle"
    /\ pc' = "called"
    /\ action' = m.action
    /\ uid' = m.uid
    /\ in' = Encode(m)
    /\ UNCHANGED <<body, out>>

IdTagInfo(status) == Obj([status |-> Str(status)])

\* The handlers of ocpp-core behind Authorize, StartTransaction and
\* StopTransaction: the payload of a 200, from the fields of the request.
CorePayload(a, id) ==
    CASE a = "Authorize" -> Obj([idTagInfo |-> IdTagInfo("Accepted")])
      [] a = "StartTransaction" -> Obj([transactionId |-> Num(id), idTagInfo |-> IdTagInfo("Accepted")])
      [] a = "StopTransaction" -> Obj([idTagInfo |-> IdTagInfo("Accepted")])

CoreStruct ==
    [Authorize |-> [idTag |-> "string"],
     StartTransaction |-> [connectorId |-> "int", idTag |-> "string", meterStart |-> "int",
                           timestamp |-> "string"],
     StopTransaction |-> StopTransactionStruct]

\* The request is one the core refuses whatever its state.
CoreRefuses(a, p) ==
    \/ ~Binds(CoreStruct[a], p)
    \/ a \in {"Authorize", "StartTransaction"} /\ Rewritten(CoreStruct[a], p).idTag = Str(Empty)

\* Mutated form of LocalPayload: the interval of BootNotification as a string.
LocalPayloadTextInterval(a) ==
    CASE a = "BootNotification" ->
            Obj([status |-> Str("Accepted"), currentTime |-> Now, interval |-> Str("300")])
      [] a = "Heartbeat" -> Obj([currentTime |-> Now])
      [] OTHER -> Obj(<<>>)

\* The builders of message-processor that need no core.
LocalPayload(a) ==
    CASE a = "BootNotification" ->
            Obj([status |-> Str("Accepted"), currentTime |-> Now, interval |-> Num(300)])
      [] a = "Heartbeat" -> Obj([currentTime |-> Now])
      [] a \in {"StatusNotification", "MeterValues"} -> Obj(<<>>)

\* publishResult: what does not satisfy the response schema becomes a CALLERROR.
Result(m, payload) ==
    IF Validate(ReplySchema[m.action], payload[2])
    THEN BuildResult(m.uid, payload)
    ELSE BuildError(m.uid, "GenericError", "response_schema", NoJSON)

\* respondToCall: coreOk says whether the core answers with a 200.
Response(m, coreOk, id) ==
    CASE m.action \in {"BootNotification", "Heartbeat", "StatusNotification", "MeterValues"} ->
            Result(m, LocalPayload(m.action))
      [] m.action \in DOMAIN CoreStruct ->
            IF coreOk /\ ~CoreRefuses(m.action, m.payload)
            THEN Result(m, CorePayload(m.action, id))
            ELSE BuildError(m.uid, "GenericError", "core", NoJSON)
      [] OTHER -> BuildError(m.uid, "NotImplemented", "not_supported", NoJSON)

\* Handler.Handle: a CALL is answered on ocpp/{cpId}/out, an answer is only
\* noted, a frame that does not decode too.
Process(coreOk, id) ==
    /\ pc \in {"called", "answered", "foreignAnswered"}
    /\ LET m == Decode(in)
       IN  out' = IF m.type = CALL THEN Encode(Response(m, coreOk, id))
                  ELSE IF pc = "called" THEN NoFrame ELSE out
    /\ pc' = CASE pc = "called" -> IF coreOk THEN "responded" ELSE "coreFailed"
               [] OTHER -> "done"
    /\ UNCHANGED <<action, body, uid, in>>

\* The next frame.
Again ==
    /\ pc \in {"responded", "coreFailed", "done"}
    /\ pc' = "idle" /\ action' = Empty /\ body' = JNull /\ uid' = Empty
    /\ out' = NoFrame /\ in' = NoFrame
-----------------------------------------------------------------------------
\* Frames of up to five elements, in any order.
ForeignFrames == UNION {[1 .. n -> Elements] : n \in 0 .. 5}

\* The CALLs of pkg/v16.
LibraryCalls ==
    UNION {
        {BuildBootNotification(u, "vendor", "model"), BuildHeartbeat(u)}
        \cup {BuildStatusNotification(u, c, s, "NoError") : c \in Numbers, s \in ConnectorStatuses}
        \cup {BuildAuthorize(u, t) : t \in IdTags}
        \cup {BuildStartTransaction(u, c, t, n) : c \in Numbers, t \in IdTags, n \in Numbers}
        \cup {BuildMeterValues(u, c, x, <<"Wh">>) :
                  c \in Numbers, x \in {JNull} \cup {Num(n) : n \in Numbers}}
        \cup {BuildStopTransaction(u, x, t, n, r) :
                  x \in Numbers, t \in IdTags, n \in Numbers, r \in {Empty, "Local"}}
        : u \in Uids}

PathNext ==
    \/ \E a \in Commands : \E b \in Bodies(a) : Ask(a, b)
    \/ \E u \in Uids : Queue(u)
    \/ Refuse
    \/ \E raw \in ForeignFrames : Foreign(raw)
    \/ \E cs \in ConnectorStatuses \cup {"none"}, matches \in BOOLEAN : Handle(cs, matches)
    \/ \E m \in LibraryCalls : Send(m)
    \/ \E coreOk \in BOOLEAN, id \in Numbers : Process(coreOk, id)
    \/ Again

PathSpec == PathInit /\ [][PathNext]_pathVars

-----------------------------------------------------------------------------
(* Properties that hold                                                    *)

\* A command that was answered with 202 arrives: the frame decodes to the same
\* unique id and action, pkg/v16 accepts its payload, and every member the
\* caller gave has the value the caller gave it, through the handler's struct,
\* the checks of csms.Service, the schema and the codec.
QueuedIsUnderstood ==
    pc = "queued" =>
        LET m == Decode(out)
        IN  /\ m.type = CALL /\ m.uid = uid /\ m.action = action
            /\ Parses(action, m.payload)
            /\ \A x \in DOMAIN RequestStruct[action] :
                  Given(body, x) => Member(m.payload, x) = Members(body)[x]

\* The charge point answers every such command with a CALLRESULT of its unique
\* id whose payload is one the builders of pkg/v16 and the response schema
\* allow for that action, whatever state the charge point is in.
AnswerIsSpecExact ==
    pc = "answered" =>
        LET m == Decode(in)
        IN  m.type = CALLRESULT /\ m.uid = uid /\ ValidAnswer(action, m.payload)

\* Whatever is published on the topic: what the codec takes for a CALL is
\* answered under the same unique id, with a CALLRESULT if and only if the action
\* is one of the eight; what the codec takes for an answer is not answered; and
\* the codec takes no frame the browser answers with for a CALL.  So the two ends
\* never answer each other's answers.  What the codec takes for neither may be
\* answered: see DecodersAgree.
AnswerFollowsCall ==
    pc = "foreignAnswered" =>
        LET c == Decode(out)
            m == Decode(in)
        IN  /\ m.type # CALL
            /\ c.type = CALL =>
                  /\ m.type \in {CALLRESULT, CALLERROR} /\ m.uid = c.uid
                  /\ m.type = CALLRESULT <=> c.action \in Commands
            /\ c.type \in {CALLRESULT, CALLERROR} => in = NoFrame

\* message-processor answers every CALL that pkg/v16 builds under its unique id,
\* with a CALLRESULT that pkg/v16 can read back unless the core failed or the
\* id tag of an Authorize or a StartTransaction is empty: ocpp-core and pkg/v16
\* agree on every other field in between.
LibraryCallIsAnswered ==
    pc \in {"responded", "coreFailed"} =>
        LET c == Decode(in)
            m == Decode(out)
        IN  /\ m.uid = uid /\ c.action = action
            /\ m.type = CALLERROR =>
                  \/ action \in DOMAIN CoreStruct /\ pc = "coreFailed"
                  \/ /\ action \in {"Authorize", "StartTransaction"}
                     /\ Member(c.payload, "idTag") = Str(Empty)
            /\ m.type # CALLERROR =>
                  /\ m.type = CALLRESULT
                  /\ action \in DOMAIN ResponseStruct => ParsesResponse(action, m.payload)

-----------------------------------------------------------------------------
(* What the documentation says and the code does not do                    *)

\* codec.go: "CALL frame must have 4 elements".  The browser looks at the first
\* element only, so that it answers [2, id, action] and a CALL of five elements
\* too, which the codec, and with it the log of ocpp-core, refuses.
DecodersAgree ==
    pc = "foreignAnswered" => (in # NoFrame <=> Decode(out).type = CALL)

\* ocpp_initiated_api_mapping_flow.md: "`connectorId` - REQUIRED" (of
\* ChangeAvailability), and the like of the other commands.  A member that the
\* schema requires is filled in with its zero value before the schema is
\* checked, so that the check cannot see that it is missing.
RequiredIsGiven ==
    pc = "queued" =>
        \A x \in RequestSchema[action].required : x \in DOMAIN Members(body)
=============================================================================
