-------------------------------- MODULE OcppJ --------------------------------
(***************************************************************************)
(* packages/ocpp-protocol: the OCPP-J envelope (message), its encoding as a *)
(* JSON array (codec), and what encoding/json does with both.  No state:    *)
(* V16 and CommandPath are written with these operators.                   *)
(*                                                                         *)
(* A JSON value is a tagged tuple.  An object is a function from the names  *)
(* of its members to JSON values; a member that is missing is not in its    *)
(* domain.  encoding/json reads null into a Go variable as "leave it alone" *)
(* and fails on a value of another type; a field of a struct that is        *)
(* missing keeps its zero value.  Whether a string is longer than a schema  *)
(* allows is membership in TooLong; timestamps are one opaque string.       *)
(***************************************************************************)
EXTENDS Integers, Sequences

CONSTANT TooLong    \* strings longer than the schemas allow

Empty == ""    \* the empty string

ASSUME OcppJAssumption == TooLong \subseteq STRING \ {Empty}
ASSUME TimestampAssumption == "timestamp" \in STRING \ TooLong

-----------------------------------------------------------------------------
(* JSON and encoding/json                                                  *)

JNull == <<"null">>
Num(n) == <<"num", n>>
Str(s) == <<"str", s>>
Arr(q) == <<"arr", q>>    \* an array of strings
Obj(f) == <<"obj", f>>

Tag(j) == j[1]

IsJSON(j) ==
    \/ j = JNull
    \/ j \in ({"num"} \X Int) \cup ({"str"} \X STRING) \cup ({"arr"} \X Seq(STRING))
    \/ Tag(j) = "obj" /\ j = Obj(j[2])

\* json.Unmarshal into a string, and into an int.
StringOk(j) == Tag(j) \in {"str", "null"}
StringOf(j) == IF Tag(j) = "str" THEN j[2] ELSE Empty
IntOk(j) == Tag(j) \in {"num", "null"}
IntOf(j) == IF Tag(j) = "num" THEN j[2] ELSE 0

\* The Go types of struct fields, with omitempty where it is set, and the JSON
\* values each of them takes.
Takes(type, j) ==
    \/ Tag(j) = "null"
    \/ Tag(j) = CASE type \in {"string", "string_omitempty"} -> "str"
                  [] type \in {"int", "*int_omitempty"} -> "num"
                  [] type = "[]string_omitempty" -> "arr"
                  [] type = "struct" -> "obj"

\* json.Unmarshal of a JSON value into a struct succeeds.
Binds(struct, j) ==
    \/ j = JNull
    \/ /\ Tag(j) = "obj"
       /\ \A x \in DOMAIN struct \cap DOMAIN j[2] : Takes(struct[x], j[2][x])

Zero(type) == CASE type = "string" -> Str(Empty) [] type = "int" -> Num(0)

Members(j) == IF Tag(j) = "obj" THEN j[2] ELSE <<>>

\* A field whose value is not the zero value of its type.
Given(j, x) ==
    /\ x \in DOMAIN Members(j)
    /\ Members(j)[x] \notin {JNull, Arr(<<>>)}

\* Unmarshal into a struct followed by Marshal of the same struct: missing
\* members appear with their zero value, unless they are marked omitempty.
Rewritten(struct, j) ==
    LET plain == {x \in DOMAIN struct : struct[x] \in {"string", "int"}}
    IN  [x \in plain \cup {y \in DOMAIN struct : Given(j, y) /\ Members(j)[y] # Str(Empty)} |->
            IF Given(j, x) THEN Members(j)[x] ELSE Zero(struct[x])]

-----------------------------------------------------------------------------
(* message.Message and codec.Codec                                         *)

CALL == 2
CALLRESULT == 3
CALLERROR == 4

NoJSON == <<>>      \* a nil json.RawMessage

\* message.Message{}; what Decode returns next to an error.
NoMessage ==
    [type |-> 0, uid |-> Empty, action |-> Empty, payload |-> NoJSON,
     code |-> Empty, description |-> Empty, details |-> NoJSON]

BuildCall(uid, action, payload) ==
    [NoMessage EXCEPT !.type = CALL, !.uid = uid, !.action = action, !.payload = payload]

BuildResult(uid, payload) ==
    [NoMessage EXCEPT !.type = CALLRESULT, !.uid = uid, !.payload = payload]

\* No details are encoded as {}.
BuildError(uid, code, description, details) ==
    [NoMessage EXCEPT !.type = CALLERROR, !.uid = uid, !.code = code,
                      !.description = description,
                      !.details = IF details = NoJSON THEN Obj(<<>>) ELSE details]

NoFrame == <<>>

\* json.Marshal of a nil json.RawMessage is null.
Raw(j) == IF j = NoJSON THEN JNull ELSE j

\* A frame, or NoFrame next to an error.
Encode(m) ==
    CASE m.type = CALL /\ m.action # Empty ->
            <<Num(CALL), Str(m.uid), Str(m.action), Raw(m.payload)>>
      [] m.type = CALLRESULT ->
            <<Num(CALLRESULT), Str(m.uid), Raw(m.payload)>>
      [] m.type = CALLERROR ->
            <<Num(CALLERROR), Str(m.uid), Str(m.code), Str(m.description), Raw(m.details)>>
      [] OTHER -> NoFrame

\* A payload that is no JSON array is rejected like the empty one.
Decode(raw) ==
    IF Len(raw) < 2 \/ ~IntOk(raw[1]) \/ ~StringOk(raw[2])
    THEN NoMessage
    ELSE LET type == IntOf(raw[1])
             uid == StringOf(raw[2])
         IN  CASE type = CALL /\ Len(raw) = 4 /\ StringOk(raw[3]) ->
                     BuildCall(uid, StringOf(raw[3]), raw[4])
               [] type = CALLRESULT /\ Len(raw) = 3 ->
                     BuildResult(uid, raw[3])
               [] type = CALLERROR /\ Len(raw) = 5 /\ StringOk(raw[3]) /\ StringOk(raw[4]) ->
                     [BuildError(uid, StringOf(raw[3]), StringOf(raw[4]), raw[5])
                         EXCEPT !.details = raw[5]]
               [] OTHER -> NoMessage
=============================================================================
