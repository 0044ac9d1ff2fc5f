--------------------------------- MODULE V16 ---------------------------------
(***************************************************************************)
(* The OCPP 1.6J payloads: pkg/v16 and the structs of pkg/protocol, and of  *)
(* packages/ocpp-schemas the schemas of the commands, which csms.Service    *)
(* checks before it publishes, and of their answers.                       *)
(***************************************************************************)
EXTENDS OcppJ

-----------------------------------------------------------------------------
(* Commands: the CALLs of the CSMS                                         *)

\* The request structs; api.Server and csms.Service declare the same ones (but for
\* chargingProfile, which they have not and pkg/protocol takes as it comes).
RequestStruct ==
    [RemoteStartTransaction |-> [idTag |-> "string", connectorId |-> "*int_omitempty"],
     RemoteStopTransaction  |-> [transactionId |-> "int"],
     Reset                  |-> [type |-> "string"],
     UnlockConnector        |-> [connectorId |-> "int"],
     ChangeConfiguration    |-> [key |-> "string", value |-> "string"],
     GetConfiguration       |-> [key |-> "[]string_omitempty"],
     TriggerMessage         |-> [requestedMessage |-> "string", connectorId |-> "*int_omitempty"],
     ChangeAvailability     |-> [connectorId |-> "int", type |-> "string"]]

Commands == DOMAIN RequestStruct

\* Parse*Request: the payload binds to the struct and the fields that matter
\* are usable.  p is the object the struct stands for.
Parses(action, payload) ==
    /\ Binds(RequestStruct[action], payload)
    /\ LET p == Rewritten(RequestStruct[action], payload)
       IN  CASE action = "RemoteStartTransaction" -> p.idTag # Str(Empty)
             [] action = "Reset" -> p.type \in {Str("Hard"), Str("Soft")}
             [] action = "UnlockConnector" -> p.connectorId[2] > 0
             [] action = "ChangeConfiguration" -> p.key # Str(Empty)
             [] action = "TriggerMessage" -> p.requestedMessage # Str(Empty)
             [] action = "ChangeAvailability" -> p.type \in {Str("Operative"), Str("Inoperative")}
             [] OTHER -> TRUE

\* The types the schemas use.
Integer == {"num"} \X Int
ShortString == {"str"} \X (STRING \ TooLong)
StringArray == {"arr"} \X Seq(STRING \ TooLong)
Enum(names) == {"str"} \X names

\* The request schemas: the members and which of them are required.
RequestSchema ==
    [RemoteStartTransaction |->
        [required |-> {"idTag"}, members |-> [idTag |-> ShortString, connectorId |-> Integer]],
     RemoteStopTransaction |->
        [required |-> {"transactionId"}, members |-> [transactionId |-> Integer]],
     Reset |->
        [required |-> {"type"}, members |-> [type |-> Enum({"Hard", "Soft"})]],
     UnlockConnector |->
        [required |-> {"connectorId"}, members |-> [connectorId |-> Integer]],
     ChangeConfiguration |->
        [required |-> {"key", "value"}, members |-> [key |-> ShortString, value |-> ShortString]],
     GetConfiguration |->
        [required |-> {}, members |-> [key |-> StringArray]],
     TriggerMessage |->
        [required |-> {"requestedMessage"},
         members |-> [connectorId |-> Integer,
                      requestedMessage |-> Enum({"BootNotification", "DiagnosticsStatusNotification",
                          "FirmwareStatusNotification", "Heartbeat", "MeterValues", "StatusNotification"})]],
     ChangeAvailability |->
        [required |-> {"connectorId", "type"},
         members |-> [connectorId |-> Integer, type |-> Enum({"Operative", "Inoperative"})]]]

\* The status member of the response schemas; GetConfiguration has none.
ResponseStatus ==
    [RemoteStartTransaction |-> {"Accepted", "Rejected"},
     RemoteStopTransaction  |-> {"Accepted", "Rejected"},
     Reset                  |-> {"Accepted", "Rejected"},
     UnlockConnector        |-> {"Unlocked", "UnlockFailed", "NotSupported"},
     ChangeConfiguration    |-> {"Accepted", "Rejected", "RebootRequired", "NotSupported"},
     TriggerMessage         |-> {"Accepted", "Rejected", "NotImplemented"},
     ChangeAvailability     |-> {"Accepted", "Rejected", "Scheduled"}]

\* Validate, with a request schema: no member but those, none missing.
Validate(schema, f) ==
    /\ schema.required \subseteq DOMAIN f
    /\ DOMAIN f \subseteq DOMAIN schema.members
    /\ \A x \in DOMAIN f : f[x] \in schema.members[x]

\* Build*Response, with the status the charge point decided on.
BuildStatusResponse(status) == Obj([status |-> Str(status)])

\* Validate, with the response schema of a command.
ValidAnswer(action, payload) ==
    IF action = "GetConfiguration"
    THEN Tag(payload) = "obj" /\ DOMAIN payload[2] \subseteq {"configurationKey", "unknownKey"}
    ELSE \E s \in ResponseStatus[action] : payload = BuildStatusResponse(s)

-----------------------------------------------------------------------------
(* The CALLs of a charge point                                             *)

Now == Str("timestamp")

BuildBootNotification(uid, vendor, model) ==
    BuildCall(uid, "BootNotification",
              Obj([chargePointVendor |-> Str(vendor), chargePointModel |-> Str(model)]))

BuildHeartbeat(uid) == BuildCall(uid, "Heartbeat", Obj(<<>>))

BuildStatusNotification(uid, connectorId, status, errorCode) ==
    BuildCall(uid, "StatusNotification",
              Obj([connectorId |-> Num(connectorId), errorCode |-> Str(errorCode),
                   status |-> Str(status), timestamp |-> Now]))

BuildAuthorize(uid, idTag) ==
    BuildCall(uid, "Authorize", Obj([idTag |-> Str(idTag)]))

BuildStartTransaction(uid, connectorId, idTag, meterStart) ==
    BuildCall(uid, "StartTransaction",
              Obj([connectorId |-> Num(connectorId), idTag |-> Str(idTag),
                   meterStart |-> Num(meterStart), timestamp |-> Now]))

\* transactionId is omitted outside of a transaction (JNull); the samples are data.
BuildMeterValues(uid, connectorId, transactionId, values) ==
    LET members == {"connectorId", "meterValue"}
                   \cup (IF transactionId = JNull THEN {} ELSE {"transactionId"})
    IN  BuildCall(uid, "MeterValues",
                  Obj([x \in members |-> CASE x = "connectorId" -> Num(connectorId)
                                           [] x = "transactionId" -> transactionId
                                           [] x = "meterValue" -> Arr(values)]))

\* idTag and reason are omitted when empty.
StopTransactionStruct ==
    [transactionId |-> "int", idTag |-> "string_omitempty", meterStop |-> "int",
     timestamp |-> "string", reason |-> "string_omitempty"]

BuildStopTransaction(uid, transactionId, idTag, meterStop, reason) ==
    BuildCall(uid, "StopTransaction",
              Obj(Rewritten(StopTransactionStruct,
                            Obj([transactionId |-> Num(transactionId), idTag |-> Str(idTag),
                                 meterStop |-> Num(meterStop), timestamp |-> Now,
                                 reason |-> Str(reason)]))))

\* The response structs of the CALLs that have one.
ResponseStruct ==
    [BootNotification |-> [status |-> "string", currentTime |-> "string", interval |-> "int"],
     Heartbeat        |-> [currentTime |-> "string"],
     Authorize        |-> [idTagInfo |-> "struct"],
     StartTransaction |-> [transactionId |-> "int", idTagInfo |-> "struct"],
     StopTransaction  |-> [idTagInfo |-> "struct"]]

\* The schemas of these responses, with the members the programs use.
Object == {"obj"} \X {[status |-> Str(s)] : s \in {"Accepted", "Blocked", "Expired", "Invalid", "ConcurrentTx"}}
ReplySchema ==
    [BootNotification |->
        [required |-> {"status", "currentTime", "interval"},
         members |-> [status |-> Enum({"Accepted", "Pending", "Rejected"}),
                      currentTime |-> ShortString, interval |-> Integer]],
     Heartbeat |-> [required |-> {"currentTime"}, members |-> [currentTime |-> ShortString]],
     StatusNotification |-> [required |-> {}, members |-> <<>>],
     MeterValues |-> [required |-> {}, members |-> <<>>],
     Authorize |-> [required |-> {"idTagInfo"}, members |-> [idTagInfo |-> Object]],
     StartTransaction |->
        [required |-> {"transactionId", "idTagInfo"},
         members |-> [transactionId |-> Integer, idTagInfo |-> Object]],
     StopTransaction |-> [required |-> {}, members |-> [idTagInfo |-> Object]]]

\* Parse*Response; the nested idTagInfo is a struct with a status.  (Authorize
\* has the struct and no parser: its users unmarshal it.)
ParsesResponse(action, payload) ==
    LET struct == ResponseStruct[action]
    IN  /\ Binds(struct, payload)
        /\ "idTagInfo" \in DOMAIN struct \cap DOMAIN Members(payload) =>
              Binds([status |-> "string"], Members(payload).idTagInfo)
=============================================================================
