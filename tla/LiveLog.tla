------------------------------- MODULE LiveLog -------------------------------
(***************************************************************************)
(* The simulator's log: the live list of the page (stores/realtimeStore.ts) *)
(* and the log stored in IndexedDB (db/browserDb.ts, appendOcppLog to       *)
(* listOcppLogs, and the log's part of deleteChargePointCascade and of      *)
(* clearBrowserDb).                                                        *)
(*                                                                         *)
(* IndexedDB runs overlapping transactions in the order they were created.  *)
(* An event's put is created by the append itself, so the two are one step; *)
(* the list and the deletes of the prune that follows, and the reads of a   *)
(* load and of a deletion, are steps of their own, and what was read is     *)
(* used a step later.  A reload of the page ends everything under way.      *)
(*                                                                         *)
(* An event is its number in the order of creation, with a charge point and *)
(* a timestamp.  Several events may have one timestamp (a millisecond); the *)
(* store gives those in the order of their random keys.  totalLogCounts,    *)
(* the number shown beside the list, is left out, and so are two loads of   *)
(* one charge point at the same time and the logs of an import: they come   *)
(* from another clock, in any number.                                      *)
(***************************************************************************)
EXTENDS Naturals, Sequences, FiniteSets, SequencesExt

CONSTANTS
    ChargePoints,
    MaxLogs,      \* MAX_LOGS_PER_CHARGE_POINT: 1000
    LiveMax,      \* the 100 of realtimeStore
    MaxEvents     \* bound: events ever

ASSUME LiveLogAssumption == MaxLogs \in Nat \ {0} /\ LiveMax \in Nat \ {0} /\ MaxEvents \in Nat

VARIABLES
    event,        \* the events so far: charge point, timestamp, key
    stored,       \* store ocppLogs
    erased,       \* history: events a deletion of their charge point, or of the
                  \* whole database, took away
    append,       \* progress of an event's appendOcppLog
    victims,      \* what its pruneOldLogs is about to delete
    live,         \* realtimeStore: events
    load,         \* loadEventsForChargePoint: is it past its read
    loaded,       \* the events it read
    deletion,     \* deleteChargePointCascade: is it past its read
    doomed        \* the logs it read

dbVars == <<stored, erased>>
appendVars == <<append, victims>>
loadVars == <<load, loaded>>
deleteVars == <<deletion, doomed>>
vars == <<event, dbVars, appendVars, live, loadVars, deleteVars>>

-----------------------------------------------------------------------------
Events == 1 .. Len(event)

Of(cp, events) == {e \in events : event[e].cp = cp}

\* The store's order: timestamp, then key (getAll by key, a stable sort).
Before(d, e) ==
    \/ event[d].time < event[e].time
    \/ event[d].time = event[e].time /\ event[d].key < event[e].key

\* rows.sort(...).slice(-n).
Newest(events, n) ==
    {e \in events : Cardinality({d \in events : Before(e, d)}) < n}

\* The members of S in the order of Less.
InOrder(S, Less(_, _)) ==
    [n \in 1 .. Cardinality(S) |->
        CHOOSE x \in S : Cardinality({y \in S : Less(y, x)}) = n - 1]

\* Mutated form of Sorted: as the store gives them.
SortedByKey(events) ==
    InOrder(events, LAMBDA d, e : \/ event[d].key < event[e].key
                                  \/ event[d].key = event[e].key /\ d < e)

Sorted(events) == InOrder(events, Before)

Init ==
    /\ event = << >>
    /\ stored = {} /\ erased = {}
    /\ append = << >> /\ victims = << >>
    /\ live = << >>
    /\ load = [cp \in ChargePoints |-> FALSE]
    /\ loaded = [cp \in ChargePoints |-> {}]
    /\ deletion = [cp \in ChargePoints |-> FALSE]
    /\ doomed = [cp \in ChargePoints |-> {}]

-----------------------------------------------------------------------------
(* realtimeStore.appendEvent and appendOcppLog                             *)

\* The clock has moved on, or the event is in the millisecond of the last one
\* and its key's random part puts it after or before those.
NewEvent(cp) ==
    LET At(time, key) == [cp |-> cp, time |-> time, key |-> key]
        n             == Len(event)
    IN  IF n = 0 THEN {At(1, MaxEvents)}
        ELSE {At(Last(event).time + 1, MaxEvents),
              At(Last(event).time, MaxEvents + n), At(Last(event).time, MaxEvents - n)}

\* The put succeeds, or fails (a full disk, a database that does not open):
\* the page only warns.
AppendEvent(cp, new, ok) ==
    LET e    == Len(event) + 1
        list == Append(live, e)
    IN  /\ e <= MaxEvents
        /\ event' = Append(event, new)
        /\ live' = IF Len(list) > LiveMax THEN Tail(list) ELSE list
        /\ stored' = IF ok THEN stored \cup {e} ELSE stored
        /\ append' = Append(append, IF ok THEN "list" ELSE "failed")
        /\ victims' = Append(victims, {})
        /\ UNCHANGED <<erased, loadVars, deleteVars>>

\* Mutated form of PruneList: the newest rows are the ones to go.
PruneListNewest(e) ==
    LET rows == Of(event[e].cp, stored)
    IN  /\ append[e] = "list"
        /\ victims' = [victims EXCEPT ![e] =
                          IF Cardinality(rows) <= MaxLogs THEN {}
                          ELSE Newest(rows, Cardinality(rows) - MaxLogs)]
        /\ append' = [append EXCEPT ![e] = IF victims'[e] = {} THEN "done" ELSE "prune"]
        /\ UNCHANGED <<event, dbVars, live, loadVars, deleteVars>>

\* pruneOldLogs, its read: all but the newest MaxLogs rows are to go.
PruneList(e) ==
    LET rows == Of(event[e].cp, stored)
    IN  /\ append[e] = "list"
        /\ victims' = [victims EXCEPT ![e] = rows \ Newest(rows, MaxLogs)]
        /\ append' = [append EXCEPT ![e] = IF victims'[e] = {} THEN "done" ELSE "prune"]
        /\ UNCHANGED <<event, dbVars, live, loadVars, deleteVars>>

\* pruneOldLogs, its deletes: one transaction.
PruneDelete(e) ==
    /\ append[e] = "prune"
    /\ stored' = stored \ victims[e]
    /\ victims' = [victims EXCEPT ![e] = {}]
    /\ append' = [append EXCEPT ![e] = "done"]
    /\ UNCHANGED <<event, erased, live, loadVars, deleteVars>>

-----------------------------------------------------------------------------
(* realtimeStore.loadEventsForChargePoint                                  *)

\* listOcppLogs(chargePointId, 100).
LoadList(cp) ==
    /\ ~load[cp]
    /\ load' = [load EXCEPT ![cp] = TRUE]
    /\ loaded' = [loaded EXCEPT ![cp] = Newest(Of(cp, stored), LiveMax)]
    /\ UNCHANGED <<event, dbVars, appendVars, live, deleteVars>>

\* The list without the charge point's events.
Others(cp) ==
    LET kept == InOrder({i \in DOMAIN live : event[live[i]].cp # cp}, LAMBDA i, j : i < j)
    IN  [n \in DOMAIN kept |-> live[kept[n]]]

\* What was read takes the place of the charge point's events of the list.
LoadReplace(cp) ==
    /\ load[cp]
    /\ load' = [load EXCEPT ![cp] = FALSE]
    /\ live' = Others(cp) \o Sorted(loaded[cp])
    /\ loaded' = [loaded EXCEPT ![cp] = {}]
    /\ UNCHANGED <<event, dbVars, appendVars, deleteVars>>

-----------------------------------------------------------------------------
(* removeChargePoint                                                       *)

\* deleteChargePointCascade reads the logs ...
DeleteList(cp) ==
    /\ ~deletion[cp]
    /\ deletion' = [deletion EXCEPT ![cp] = TRUE]
    /\ doomed' = [doomed EXCEPT ![cp] = Of(cp, stored)]
    /\ UNCHANGED <<event, dbVars, appendVars, live, loadVars>>

\* ... and deletes what it read, and clearEventsForChargePoint follows.
Delete(cp) ==
    /\ deletion[cp]
    /\ deletion' = [deletion EXCEPT ![cp] = FALSE]
    /\ doomed' = [doomed EXCEPT ![cp] = {}]
    /\ stored' = stored \ doomed[cp]
    /\ erased' = erased \cup doomed[cp]
    /\ live' = Others(cp)
    /\ UNCHANGED <<event, appendVars, loadVars>>

\* The page starts anew; what was under way does not go on.
PageStarts ==
    /\ live' = << >>
    /\ load' = [cp \in ChargePoints |-> FALSE]
    /\ loaded' = [cp \in ChargePoints |-> {}]
    /\ deletion' = [cp \in ChargePoints |-> FALSE]
    /\ doomed' = [cp \in ChargePoints |-> {}]
    /\ append' = [e \in Events |-> IF append[e] \in {"list", "prune"} THEN "lost" ELSE append[e]]
    /\ victims' = [e \in Events |-> {}]
    /\ UNCHANGED event

Reload == PageStarts /\ UNCHANGED dbVars

\* clearBrowserDb: the database is deleted, and the page is reloaded.  (Between
\* the two are 1.5 s.  A put of that time is like one after the reload, and a
\* prune or a deletion under way then finds nothing left to delete.)
Clear ==
    /\ stored' = {}
    /\ erased' = erased \cup stored
    /\ PageStarts

Load(cp) == LoadList(cp) \/ LoadReplace(cp)

Next ==
    \/ \E cp \in ChargePoints :
          \/ \E new \in NewEvent(cp), ok \in BOOLEAN : AppendEvent(cp, new, ok)
          \/ Load(cp)
          \/ DeleteList(cp)
          \/ Delete(cp)
    \/ \E e \in Events : PruneList(e) \/ PruneDelete(e)
    \/ Clear
    \/ Reload

Spec == Init /\ [][Next]_vars

-----------------------------------------------------------------------------
(* Properties that hold                                                    *)

Put(cp) == {e \in Of(cp, Events) : append[e] # "failed"}

\* Whatever prunes of earlier events are still under way, working from lists
\* that are out of date, or were cut off by a reload: once the prune of a
\* charge point's last event is over, its log holds no more than MaxLogs events,
\* and it holds every event that fewer than MaxLogs others are as new as,
\* unless the charge point, or the whole database, was deleted.
NewestKept ==
    \A cp \in ChargePoints : \A e \in Put(cp) :
        append[e] = "done" /\ (\A d \in Put(cp) : d <= e) =>
            /\ Cardinality(Of(cp, stored)) <= MaxLogs
            /\ \A d \in Put(cp) \ erased :
                  Cardinality({f \in Put(cp) \ {d} : event[f].time >= event[d].time}) < MaxLogs
                      => d \in stored

\* The page shows a charge point's events oldest first and none of them twice,
\* however loads, appends, deletions and reloads meet.
LiveInOrder ==
    \A i, j \in DOMAIN live :
        i < j /\ event[live[i]].cp = event[live[j]].cp =>
            live[i] # live[j] /\ event[live[i]].time <= event[live[j]].time

-----------------------------------------------------------------------------
(* What the code's limits suggest and the code does not do                 *)

\* The live list has at most 100 events: a load adds up to 100 to those of the
\* other charge points, and an append takes one away for the one it adds.
LiveBounded == Len(live) <= LiveMax

\* Deleting a charge point leaves no log of it: an event appended between the
\* read and the deletes stays.
DeleteLeavesNothing == [][\A cp \in ChargePoints : Delete(cp) => Of(cp, stored') = {}]_vars
=============================================================================
