------------------------------ MODULE Processor ------------------------------
(***************************************************************************)
(* message-processor: it answers the CALLs of charge points.               *)
(*                                                                         *)
(* The MQTT client is created with OrderMatters off, so paho runs          *)
(* Handler.Handle in a goroutine of its own for every frame of ocpp/+/in.  *)
(* The goroutines share two things: the link to the broker, and            *)
(* ocpp-schemas' package-level schemaCache, a Go map without a lock.  Go   *)
(* leaves overlapping accesses to a map undefined when one of them is a    *)
(* write; the runtime may notice and end the process (RaceCrash), or the   *)
(* accesses take effect one after the other.                               *)
(*                                                                         *)
(* External: the MQTT broker (QoS 0, a frame may be lost), and ocpp-core,  *)
(* which may go on with a request after the 5 s timeout of the HTTP client *)
(* gave up on it.                                                          *)
(***************************************************************************)
EXTENDS Integers, Sequences

CONSTANTS
    Frames,        \* frames published on ocpp/+/in, each delivered at most once
    LocalActions,  \* actions the processor answers by itself
    CoreActions,   \* actions ocpp-core decides
    LinkFaults,    \* may a publish fail
    Crashes,       \* may the process be stopped and started again
    None

ASSUME ProcessorAssumption ==
    /\ LinkFaults \in BOOLEAN
    /\ Crashes \in BOOLEAN
    /\ None \notin LocalActions \cup CoreActions
    /\ LocalActions \cap CoreActions = {}

VARIABLES
    up,       \* is the process running
    pc,       \* where the goroutine of a frame is
    kind,     \* what Decode and the dispatch on the action make of a frame
    action,   \* the action of a CALL that is answered
    core,     \* the frame's HTTP request at ocpp-core
    effect,   \* did ocpp-core carry the request out
    cache,    \* schemaCache: the actions whose response schema is compiled
    answers,  \* what was published on /out for a frame, in order
    audit     \* the decision in the last audit event of a frame

vars == <<up, pc, kind, action, core, effect, cache, answers, audit>>
coreVars == <<core, effect>>
outVars == <<answers, audit>>

-----------------------------------------------------------------------------
\* The keys of schemaCache.
Actions == LocalActions \cup CoreActions

\* "garbage" does not decode; "answer" is a CALLRESULT or CALLERROR; the rest
\* are CALLs: answered locally, by ocpp-core, or with NotImplemented.
CallKinds == {"local", "business", "unknown"}
Kinds == CallKinds \cup {"garbage", "answer"}

\* A goroutine is at "lookup" while it reads the map, at "store" while it
\* writes it.
Running == {"call", "lookup", "compile", "store", "validate", "result", "error",
            "published", "unpublished"}

Decisions == {"none", "consumed", "parse_error", "noop", "responded", "not_implemented",
              "publish_failed"}

IsCall(f) == kind[f] \in CallKinds
InFlight == {f \in Frames : pc[f] \in Running}

TypeOK ==
    /\ up \in BOOLEAN
    /\ pc \in [Frames -> Running \cup {"new", "done", "lost"}]
    /\ kind \in [Frames -> Kinds \cup {None}]
    /\ action \in [Frames -> Actions \cup {None}]
    /\ core \in [Frames -> {"idle", "queued", "ok", "failed"}]
    /\ effect \in [Frames -> BOOLEAN]
    /\ cache \subseteq Actions
    /\ answers \in [Frames -> Seq({"result", "error"})]
    /\ audit \in [Frames -> Decisions]
    /\ ~up => InFlight = {}

Init ==
    /\ up = TRUE
    /\ pc = [f \in Frames |-> "new"]
    /\ kind = [f \in Frames |-> None]
    /\ action = [f \in Frames |-> None]
    /\ core = [f \in Frames |-> "idle"]
    /\ effect = [f \in Frames |-> FALSE]
    /\ cache = {}
    /\ answers = [f \in Frames |-> <<>>]
    /\ audit = [f \in Frames |-> "none"]

-----------------------------------------------------------------------------
(* Handle and respondToCall                                                *)

\* A frame nobody answers: it does not decode, or it is an answer itself.
Ignore(f, k) ==
    /\ up
    /\ pc[f] = "new"
    /\ kind' = [kind EXCEPT ![f] = k]
    /\ pc' = [pc EXCEPT ![f] = "done"]
    /\ audit' = [audit EXCEPT ![f] = IF k = "garbage" THEN "parse_error" ELSE "noop"]
    /\ UNCHANGED <<up, action, coreVars, cache, answers>>

\* The default branch of respondToCall.
NotImplemented(f) ==
    /\ up
    /\ pc[f] = "new"
    /\ kind' = [kind EXCEPT ![f] = "unknown"]
    /\ pc' = [pc EXCEPT ![f] = "error"]
    /\ audit' = [audit EXCEPT ![f] = "consumed"]
    /\ UNCHANGED <<up, action, coreVars, cache, answers>>

\* BootNotification, Heartbeat, StatusNotification, MeterValues: the payload is
\* built on the spot, and publishResult begins with the schema.
AnswerLocally(f, a) ==
    /\ up
    /\ pc[f] = "new"
    /\ kind' = [kind EXCEPT ![f] = "local"]
    /\ action' = [action EXCEPT ![f] = a]
    /\ pc' = [pc EXCEPT ![f] = "lookup"]
    /\ audit' = [audit EXCEPT ![f] = "consumed"]
    /\ UNCHANGED <<up, coreVars, cache, answers>>

\* Authorize, StartTransaction, StopTransaction: doPOST to ocpp-core.
CallCore(f, a) ==
    /\ up
    /\ pc[f] = "new"
    /\ kind' = [kind EXCEPT ![f] = "business"]
    /\ action' = [action EXCEPT ![f] = a]
    /\ core' = [core EXCEPT ![f] = "queued"]
    /\ pc' = [pc EXCEPT ![f] = "call"]
    /\ audit' = [audit EXCEPT ![f] = "consumed"]
    /\ UNCHANGED <<up, effect, cache, answers>>

\* ocpp-core works on the request, whether or not somebody still waits for it.
\* It may have carried out what it then reports as an error.
CoreRuns(f) ==
    /\ core[f] = "queued"
    /\ \/ core' = [core EXCEPT ![f] = "ok"] /\ effect' = [effect EXCEPT ![f] = TRUE]
       \/ /\ core' = [core EXCEPT ![f] = "failed"]
          /\ \E e \in BOOLEAN : effect' = [effect EXCEPT ![f] = e]
    /\ UNCHANGED <<up, pc, kind, action, cache, outVars>>

\* A 2xx answer with a payload.
CoreAnswers(f) ==
    /\ pc[f] = "call"
    /\ core[f] = "ok"
    /\ pc' = [pc EXCEPT ![f] = "lookup"]
    /\ UNCHANGED <<up, kind, action, coreVars, cache, outVars>>

\* Mutated form: the status code of the answer is not looked at.
CoreErrorIgnored(f) ==
    /\ pc[f] = "call"
    /\ core[f] = "failed"
    /\ pc' = [pc EXCEPT ![f] = "lookup"]
    /\ UNCHANGED <<up, kind, action, coreVars, cache, outVars>>

\* Any other answer, or one whose body is cut off: GenericError.
CoreFails(f) ==
    /\ pc[f] = "call"
    /\ core[f] \in {"ok", "failed"}
    /\ pc' = [pc EXCEPT ![f] = "error"]
    /\ UNCHANGED <<up, kind, action, coreVars, cache, outVars>>

\* Mutated form: an HTTP client without a timeout.
CoreNeverTimesOut(f) == FALSE /\ UNCHANGED vars

\* ocpp-core cannot be reached, or 5 s pass: GenericError.
CoreTimesOut(f) ==
    /\ pc[f] = "call"
    /\ core[f] = "queued"
    /\ pc' = [pc EXCEPT ![f] = "error"]
    /\ UNCHANGED <<up, kind, action, coreVars, cache, outVars>>

-----------------------------------------------------------------------------
(* validateResponseSchema                                                  *)

\* loadSchema reads the map.
Lookup(f) ==
    /\ pc[f] = "lookup"
    /\ pc' = [pc EXCEPT ![f] = IF action[f] \in cache THEN "validate" ELSE "compile"]
    /\ UNCHANGED <<up, kind, action, coreVars, cache, outVars>>

\* loadSchema has compiled the schema and begins to write the map.
Compile(f) ==
    /\ pc[f] = "compile"
    /\ pc' = [pc EXCEPT ![f] = "store"]
    /\ UNCHANGED <<up, kind, action, coreVars, cache, outVars>>

Store(f) ==
    /\ pc[f] = "store"
    /\ cache' = cache \cup {action[f]}
    /\ pc' = [pc EXCEPT ![f] = "validate"]
    /\ UNCHANGED <<up, kind, action, coreVars, outVars>>

\* The payload is valid; what ocpp-core returned may also be refused, which
\* turns the result into a GenericError.
Validate(f) ==
    /\ pc[f] = "validate"
    /\ \/ pc' = [pc EXCEPT ![f] = "result"]
       \/ kind[f] = "business" /\ pc' = [pc EXCEPT ![f] = "error"]
    /\ UNCHANGED <<up, kind, action, coreVars, cache, outVars>>

-----------------------------------------------------------------------------
(* publishResult and publishError                                          *)

\* Mutated form: publishResult goes on after it published the error.
PublishBoth(f) ==
    /\ pc[f] \in {"result", "error"}
    /\ answers' = [answers EXCEPT ![f] = Append(@, pc[f])]
    /\ pc' = [pc EXCEPT ![f] = IF pc[f] = "error" /\ kind[f] = "business"
                               THEN "result" ELSE "published"]
    /\ UNCHANGED <<up, kind, action, coreVars, cache, audit>>

Publish(f) ==
    /\ pc[f] \in {"result", "error"}
    /\ answers' = [answers EXCEPT ![f] = Append(@, pc[f])]
    /\ pc' = [pc EXCEPT ![f] = "published"]
    /\ UNCHANGED <<up, kind, action, coreVars, cache, audit>>

\* No link, or the publish timed out, its effect unknown: it is not retried.
PublishFails(f) ==
    /\ LinkFaults
    /\ pc[f] \in {"result", "error"}
    /\ \/ UNCHANGED answers
       \/ answers' = [answers EXCEPT ![f] = Append(@, pc[f])]
    /\ pc' = [pc EXCEPT ![f] = "unpublished"]
    /\ UNCHANGED <<up, kind, action, coreVars, cache, audit>>

\* Mutated form: the error of Publish is not looked at.
EmitUnchecked(f) ==
    /\ pc[f] \in {"published", "unpublished"}
    /\ audit' = [audit EXCEPT ![f] = IF kind[f] = "unknown" THEN "not_implemented"
                                                             ELSE "responded"]
    /\ pc' = [pc EXCEPT ![f] = "done"]
    /\ UNCHANGED <<up, kind, action, coreVars, cache, answers>>

\* The "published" event, after the publish.
Emit(f) ==
    /\ pc[f] \in {"published", "unpublished"}
    /\ audit' = [audit EXCEPT ![f] = IF pc[f] = "unpublished" THEN "publish_failed"
                                      ELSE IF kind[f] = "unknown" THEN "not_implemented"
                                      ELSE "responded"]
    /\ pc' = [pc EXCEPT ![f] = "done"]
    /\ UNCHANGED <<up, kind, action, coreVars, cache, answers>>

-----------------------------------------------------------------------------
(* The process                                                             *)

\* The process ends, and its goroutines with it.  A frame published while it is
\* down is lost (QoS 0).
Dies ==
    /\ up
    /\ up' = FALSE
    /\ pc' = [f \in Frames |-> IF f \in InFlight THEN "lost" ELSE pc[f]]
    /\ UNCHANGED <<kind, action, coreVars, cache, outVars>>

Crash == Crashes /\ Dies

Overlap == \E f, g \in Frames : f # g /\ pc[f] = "store" /\ pc[g] \in {"lookup", "store"}

\* The runtime notices the overlap: "fatal error: concurrent map writes".
RaceCrash == Overlap /\ Dies

Lose(f) ==
    /\ pc[f] = "new"
    /\ pc' = [pc EXCEPT ![f] = "lost"]
    /\ UNCHANGED <<up, kind, action, coreVars, cache, outVars>>

Restart ==
    /\ Crashes
    /\ ~up
    /\ up' = TRUE
    /\ cache' = {}
    /\ UNCHANGED <<pc, kind, action, coreVars, outVars>>

Arrival(f) ==
    \/ \E k \in {"garbage", "answer"} : Ignore(f, k)
    \/ NotImplemented(f)
    \/ \E a \in LocalActions : AnswerLocally(f, a)
    \/ \E a \in CoreActions : CallCore(f, a)
    \/ Lose(f)

Goroutine(f) ==
    \/ CoreAnswers(f) \/ CoreFails(f) \/ CoreTimesOut(f)
    \/ Lookup(f) \/ Compile(f) \/ Store(f) \/ Validate(f)
    \/ Publish(f) \/ PublishFails(f) \/ Emit(f)

Next ==
    \/ \E f \in Frames : Arrival(f) \/ Goroutine(f) \/ CoreRuns(f)
    \/ Crash \/ RaceCrash \/ Restart

Spec == Init /\ [][Next]_vars

\* Goroutines that can run are scheduled, the timeout included; ocpp-core, the
\* broker and the operator promise nothing.
FairSpec == Spec /\ \A f \in Frames : WF_vars(Goroutine(f))

-----------------------------------------------------------------------------
(* Properties that hold                                                    *)

\* A CALL is answered at most once, by a result or by an error and never by
\* both, on every path through core errors, schema errors and timeouts; what is
\* not a CALL is never answered.
AnsweredOnce ==
    \A f \in Frames : Len(answers[f]) <= (IF IsCall(f) THEN 1 ELSE 0)

\* A charge point that receives a CALLRESULT to Authorize, StartTransaction or
\* StopTransaction can rely on it: ocpp-core carried the request out.
ResultIsBacked ==
    \A f \in Frames : kind[f] = "business" /\ answers[f] = <<"result">> => effect[f]

\* The audit log can be trusted both ways: a frame it calls answered was put on
\* the wire, once; and an answer it does not mention, or reports as failed, is one
\* whose goroutine is about to write the event, lost it with the process, or saw
\* the publish fail.
AuditIsTrue ==
    \A f \in Frames :
        /\ audit[f] \in {"responded", "not_implemented"} => Len(answers[f]) = 1
        /\ audit[f] = "not_implemented" => answers[f] = <<"error">>
        /\ answers[f] # <<>> =>
              \/ audit[f] \in {"responded", "not_implemented"}
              \/ pc[f] \in {"published", "unpublished", "lost"}
              \/ audit[f] = "publish_failed" /\ LinkFaults

\* No goroutine waits for ever, even when ocpp-core never answers: the frame is
\* dealt with, or the process ended under it.
CallSettles == \A f \in Frames : f \in InFlight ~> pc[f] \in {"done", "lost"}

-----------------------------------------------------------------------------
(* What the documentation says and the code does not do                    *)

\* README: "For each CP->server CALL, builds the OCPP 1.6J response ... and
\* publishes a CALLRESULT/CALLERROR".  (With a link that never fails and a
\* process nobody stops.)
EveryCallAnswered == \A f \in Frames : IsCall(f) ~> answers[f] # <<>>
=============================================================================
