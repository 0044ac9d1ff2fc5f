---------------------------- MODULE CoreMessaging ----------------------------
(***************************************************************************)
(* The messaging half of ocpp-core: csms.Service, which turns the HTTP      *)
(* requests /internal/csms/* into CALLs on ocpp/{cpId}/out, and             *)
(* canonlog.Service, which writes a row for every frame it sees on          *)
(* ocpp/+/in and ocpp/+/out, the CALLs of csms.Service included.            *)
(*                                                                         *)
(* net/http runs every request in a goroutine of its own.  The MQTT client  *)
(* is created with OrderMatters off, so every frame is persisted in a       *)
(* goroutine of its own too, and the goroutines reach time.Now() and the    *)
(* INSERT in any order.                                                    *)
(*                                                                         *)
(* One charge point is modelled: commands and rows of different charge      *)
(* points meet only in the counter uniqueID, whose increment is modelled    *)
(* load by load and store by store, under its mutex.  The random half of a  *)
(* unique id may be anything, the same twice included.  created_at has a    *)
(* resolution of one second: now counts seconds.                           *)
(*                                                                         *)
(* External: PostgreSQL, the MQTT broker (QoS 0) and whoever else publishes *)
(* on the two topics.                                                      *)
(***************************************************************************)
EXTENDS Integers, Sequences, FiniteSets

CONSTANTS
    Commands,    \* HTTP requests to /internal/csms/*
    Others,      \* frames that others publish on the topics
    Randoms,     \* what the 8 random bytes of a unique id can be
    None,        \* nobody, nothing
    Faults,      \* may the link, the database or the process fail
    MaxLives,    \* bound: how often the process is started
    MaxSeconds   \* bound: the clock

ASSUME CoreMessagingAssumption ==
    /\ Commands \cap Others = {}
    /\ None \notin Commands
    /\ Faults \in BOOLEAN
    /\ MaxLives \in Nat \ {0}
    /\ MaxSeconds \in Nat

VARIABLES
    life,       \* which start of the process this is
    up,         \* is it running
    mu,         \* csms.Service.mu: the handler that holds it
    uniqueID,   \* csms.Service.uniqueID, lost in a crash
    loaded,     \* what a handler has read of uniqueID and not yet written back
    pc,         \* where the handler of a command is
    callID,     \* a command's unique id: its counter and its random bytes
    bornIn,     \* history: the life of the process that drew it
    kind,       \* what Decode makes of a frame
    wire,       \* the frames published on the topics, in order
    persist,    \* where the canonlog goroutine of a frame is
    row,        \* ocpp_message_logs: the status of the frame's row, or "none"
    createdAt,  \* ocpp_message_logs: created_at, in seconds
    now

vars == <<life, up, mu, uniqueID, loaded, pc, callID, bornIn, kind, wire, persist, row,
          createdAt, now>>
idVars == <<mu, uniqueID, loaded, callID, bornIn>>
csmsVars == <<idVars, pc>>
logVars == <<persist, row, createdAt>>
procVars == <<life, up, now>>

Frames == Commands \cup Others
Kinds == {"CALL", "CALLRESULT", "CALLERROR", "malformed"}
Statuses == {"ok", "call_error", "parse_error"}
NoID == [n |-> 0, random |-> None]
Drawing == {"load", "store", "take"}
Logged == {f \in Frames : row[f] # "none"}
OnWire == {f \in Frames : \E i \in 1 .. Len(wire) : wire[i] = f}

TypeOK ==
    /\ life \in 1 .. MaxLives
    /\ up \in BOOLEAN
    /\ mu \in Commands \cup {None}
    /\ uniqueID \in 0 .. Cardinality(Commands)
    /\ loaded \in [Commands -> 0 .. Cardinality(Commands)]
    /\ pc \in [Commands -> Drawing \cup {"new", "id", "publish", "sent", "queued", "refused", "lost"}]
    /\ callID \in [Commands -> [n : 0 .. Cardinality(Commands), random : Randoms \cup {None}]]
    /\ bornIn \in [Commands -> 0 .. MaxLives]
    /\ kind \in [Frames -> Kinds]
    /\ wire \in Seq(Frames)
    /\ persist \in [Frames -> {"none", "running", "insert", "done", "failed", "lost"}]
    /\ row \in [Frames -> Statuses \cup {"none"}]
    /\ createdAt \in [Frames -> 0 .. MaxSeconds]
    /\ now \in 0 .. MaxSeconds

Init ==
    /\ life = 1
    /\ up = TRUE
    /\ mu = None
    /\ uniqueID = 0
    /\ loaded = [r \in Commands |-> 0]
    /\ pc = [r \in Commands |-> "new"]
    /\ callID = [r \in Commands |-> NoID]
    /\ bornIn = [r \in Commands |-> 0]
    /\ kind \in [Frames -> Kinds]
    /\ \A r \in Commands : kind[r] = "CALL"
    /\ wire = <<>>
    /\ persist = [f \in Frames |-> "none"]
    /\ row = [f \in Frames |-> "none"]
    /\ createdAt = [f \in Frames |-> 0]
    /\ now = 0

-----------------------------------------------------------------------------
(* csms.Service                                                            *)

\* The request is undecodable, a field is missing or out of range, or the
\* payload does not satisfy the request schema: 400.
Refuse(r) ==
    /\ up
    /\ pc[r] = "new"
    /\ pc' = [pc EXCEPT ![r] = "refused"]
    /\ UNCHANGED <<procVars, idVars, kind, wire, logVars>>

\* The checks of the handler, of the command and of the schema are passed.
Accept(r) ==
    /\ up
    /\ pc[r] = "new"
    /\ pc' = [pc EXCEPT ![r] = "id"]
    /\ UNCHANGED <<procVars, idVars, kind, wire, logVars>>

\* Mutated form of Lock: the mutex is not waited for.
LockTaken(r) ==
    /\ pc[r] = "id"
    /\ mu' = r
    /\ pc' = [pc EXCEPT ![r] = "load"]
    /\ UNCHANGED <<procVars, uniqueID, loaded, callID, bornIn, kind, wire, logVars>>

\* nextUniqueID: s.mu.Lock().
Lock(r) ==
    /\ pc[r] = "id"
    /\ mu = None
    /\ mu' = r
    /\ pc' = [pc EXCEPT ![r] = "load"]
    /\ UNCHANGED <<procVars, uniqueID, loaded, callID, bornIn, kind, wire, logVars>>

\* s.uniqueID++, which reads the counter ...
Load(r) ==
    /\ pc[r] = "load"
    /\ loaded' = [loaded EXCEPT ![r] = uniqueID]
    /\ pc' = [pc EXCEPT ![r] = "store"]
    /\ UNCHANGED <<procVars, mu, uniqueID, callID, bornIn, kind, wire, logVars>>

\* ... and writes it.
Store(r) ==
    /\ pc[r] = "store"
    /\ uniqueID' = loaded[r] + 1
    /\ loaded' = [loaded EXCEPT ![r] = 0]
    /\ pc' = [pc EXCEPT ![r] = "take"]
    /\ UNCHANGED <<procVars, mu, callID, bornIn, kind, wire, logVars>>

\* n := s.uniqueID, s.mu.Unlock(), and the id, made of n and random bytes.
Unlock(r) ==
    /\ pc[r] = "take"
    /\ mu' = None
    /\ \E b \in Randoms : callID' = [callID EXCEPT ![r] = [n |-> uniqueID, random |-> b]]
    /\ bornIn' = [bornIn EXCEPT ![r] = life]
    /\ pc' = [pc EXCEPT ![r] = "publish"]
    /\ UNCHANGED <<procVars, uniqueID, loaded, kind, wire, logVars>>

nextUniqueID(r) == Lock(r) \/ Load(r) \/ Store(r) \/ Unlock(r)

\* The client takes the CALL: it reaches the broker, or is lost on the way.
Publish(r) ==
    /\ pc[r] = "publish"
    /\ wire' = Append(wire, r) \/ (Faults /\ UNCHANGED wire)
    /\ pc' = [pc EXCEPT ![r] = "sent"]
    /\ UNCHANGED <<procVars, idVars, kind, logVars>>

\* 202, "queued".
Answer(r) ==
    /\ pc[r] = "sent"
    /\ pc' = [pc EXCEPT ![r] = "queued"]
    /\ UNCHANGED <<procVars, idVars, kind, wire, logVars>>

\* ErrBrokerDown, or the 5 s timeout, after which the frame may still go out: 400.
PublishFails(r) ==
    /\ Faults
    /\ pc[r] = "publish"
    /\ wire' = Append(wire, r) \/ UNCHANGED wire
    /\ pc' = [pc EXCEPT ![r] = "refused"]
    /\ UNCHANGED <<procVars, idVars, kind, logVars>>

\* The gateway or the message-processor publishes a frame.
OtherPublishes(f) ==
    /\ f \notin OnWire
    /\ wire' = Append(wire, f)
    /\ UNCHANGED <<procVars, csmsVars, kind, logVars>>

-----------------------------------------------------------------------------
(* canonlog.Service                                                        *)

\* The frame is delivered: paho starts a goroutine that runs persist.
Deliver(f) ==
    /\ up
    /\ f \in OnWire
    /\ persist[f] = "none"
    /\ persist' = [persist EXCEPT ![f] = "running"]
    /\ UNCHANGED <<procVars, csmsVars, kind, wire, row, createdAt>>

\* A frame that is not delivered: QoS 0, or the process is down.
Miss(f) ==
    /\ Faults
    /\ f \in OnWire
    /\ persist[f] = "none"
    /\ persist' = [persist EXCEPT ![f] = "lost"]
    /\ UNCHANGED <<procVars, csmsVars, kind, wire, row, createdAt>>

\* persist up to MessageLogRepo.Create, which takes created_at from the clock.
Stamp(f) ==
    /\ persist[f] = "running"
    /\ persist' = [persist EXCEPT ![f] = "insert"]
    /\ createdAt' = [createdAt EXCEPT ![f] = now]
    /\ UNCHANGED <<procVars, csmsVars, kind, wire, row>>

\* persist: the status column of the row.
RowStatus(k) ==
    CASE k = "malformed" -> "parse_error"
      [] k = "CALLERROR" -> "call_error"
      [] OTHER -> "ok"

\* Mutated form of Insert: a frame that does not decode is skipped.
InsertDecodedOnly(f) ==
    /\ persist[f] = "insert"
    /\ row' = [row EXCEPT ![f] = IF kind[f] = "malformed" THEN @ ELSE RowStatus(kind[f])]
    /\ persist' = [persist EXCEPT ![f] = "done"]
    /\ UNCHANGED <<procVars, csmsVars, kind, wire, createdAt>>

\* The INSERT.
Insert(f) ==
    /\ persist[f] = "insert"
    /\ row' = [row EXCEPT ![f] = RowStatus(kind[f])]
    /\ persist' = [persist EXCEPT ![f] = "done"]
    /\ UNCHANGED <<procVars, csmsVars, kind, wire, createdAt>>

\* The INSERT is reported to have failed, with or without effect; the error is
\* logged and the frame is not tried again.
InsertFails(f) ==
    /\ Faults
    /\ persist[f] = "insert"
    /\ row' = [row EXCEPT ![f] = RowStatus(kind[f])] \/ UNCHANGED row
    /\ persist' = [persist EXCEPT ![f] = "failed"]
    /\ UNCHANGED <<procVars, csmsVars, kind, wire, createdAt>>

-----------------------------------------------------------------------------
(* The process and the clock                                               *)

Tick ==
    /\ now < MaxSeconds
    /\ now' = now + 1
    /\ UNCHANGED <<life, up, csmsVars, kind, wire, logVars>>

\* The goroutines end with the process.
Crash ==
    /\ Faults
    /\ up
    /\ up' = FALSE
    /\ pc' = [r \in Commands |->
                 IF pc[r] \in Drawing \cup {"id", "publish", "sent"} THEN "lost" ELSE pc[r]]
    /\ mu' = None
    /\ loaded' = [r \in Commands |-> 0]
    /\ persist' = [f \in Frames |->
                      IF persist[f] \in {"running", "insert"} THEN "lost" ELSE persist[f]]
    /\ UNCHANGED <<life, now, uniqueID, callID, bornIn, kind, wire, row, createdAt>>

\* main: csms.New and canonLog.Start.
Restart ==
    /\ ~up
    /\ life < MaxLives
    /\ life' = life + 1
    /\ up' = TRUE
    /\ uniqueID' = 0
    /\ UNCHANGED <<now, mu, loaded, pc, callID, bornIn, kind, wire, logVars>>

Command(r) ==
    \/ Refuse(r) \/ Accept(r) \/ nextUniqueID(r) \/ Publish(r) \/ Answer(r) \/ PublishFails(r)

Persist(f) == Deliver(f) \/ Miss(f) \/ Stamp(f) \/ Insert(f) \/ InsertFails(f)

Next ==
    \/ \E r \in Commands : Command(r)
    \/ \E f \in Others : OtherPublishes(f)
    \/ \E f \in Frames : Persist(f)
    \/ Tick \/ Crash \/ Restart

Spec == Init /\ [][Next]_vars

-----------------------------------------------------------------------------
(* Properties that hold                                                    *)

\* Two commands of one life of the process never carry the same unique id, however
\* their handlers interleave and whatever the random bytes are: a charge point's
\* answer points to one of them.  Across restarts the counter begins anew and only
\* the random bytes differ, which service.go calls best-effort.
CallIDsDistinct ==
    \A r, s \in Commands :
        r # s /\ callID[r] # NoID /\ bornIn[r] = bornIn[s] => callID[r] # callID[s]

\* The log is a faithful record: a row stands for a frame that was on the wire
\* and says how it decoded, a command that was refused before it was published
\* has none, and a frame that was delivered has one, malformed or not, unless
\* the database or the process failed under it.
LogIsFaithful ==
    /\ \A f \in Logged : f \in OnWire /\ row[f] = RowStatus(kind[f])
    /\ \A r \in Commands : callID[r] = NoID => r \notin Logged
    /\ \A f \in Frames : persist[f] = "done" => f \in Logged

-----------------------------------------------------------------------------
(* What the documentation says and the code does not do                    *)

\* MessageLogRepo.ListByChargePoint: "the most recent N message logs for a charge
\* point, newest first".  It orders by created_at, so a frame published earlier
\* must not have a later created_at.
NewestFirst ==
    \A i, j \in 1 .. Len(wire) :
        i < j /\ {wire[i], wire[j]} \subseteq Logged => createdAt[wire[i]] <= createdAt[wire[j]]
=============================================================================
