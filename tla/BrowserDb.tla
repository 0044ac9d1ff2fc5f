------------------------------ MODULE BrowserDb ------------------------------
(***************************************************************************)
(* The simulator's IndexedDB: the record of a charge point and those of its *)
(* connectors (db/browserDb.ts, api/chargePointsApi.ts).                   *)
(*                                                                         *)
(* Every IndexedDB transaction is atomic, but the operations are async      *)
(* functions of several transactions: between two of them anything else may *)
(* run, another click of the user first of all.  One action is one          *)
(* transaction, with the computation up to the next await.  A reload of the *)
(* page ends the operations under way; the database stays.                 *)
(*                                                                         *)
(* One charge point id is modelled; records of different ids do not meet.   *)
(* Of a charge point's record only connectorCount is kept, of a connector's *)
(* its key and its number.  The log is in LiveLog, without the logs that an *)
(* import brings.                                                          *)
(***************************************************************************)
EXTENDS Integers, FiniteSets

CONSTANTS
    Ops,         \* operations that may be under way at the same time
    MaxIds,      \* bound: connectors ever created
    None

ASSUME BrowserDbAssumption ==
    /\ MaxIds \in Nat
    /\ None \notin Nat

VARIABLES
    chargePoint, \* store chargePoints: the record's connectorCount, or None
    connectors,  \* store connectors
    nextId,      \* its key generator
    pc,          \* the next transaction of an operation
    got,         \* what it read of the store chargePoints
    rows,        \* what it read of the store connectors
    number,      \* the connector number it works on
    solo,        \* history: the operation under way has run on its own so far
    exact,       \* history: the last change of the records was by an operation
                 \* that ran on its own and counted the connectors
    clashed      \* history: two createConnectors, or one and an import, met
                 \* between the list and the insert, or an import brought
                 \* records that clash; never reset

dbVars == <<chargePoint, connectors, nextId>>
localVars == <<got, rows, number>>
vars == <<dbVars, pc, localVars, solo, exact, clashed>>

-----------------------------------------------------------------------------
Record == [id : 1 .. MaxIds, number : 1 .. MaxIds]

Clash(records) == \E c, d \in records : c # d /\ c.number = d.number

\* delete(id) of each of those records: what is deleted is what has the key now.
Without(records) == {c \in connectors : \A d \in records : c.id # d.id}

Running == {p \in Ops : pc[p] # "idle"}

\* The operation has its next transaction to run, with what it still needs of
\* what it read, or is over.
Goes(p, step, count, records, n) ==
    /\ pc' = [pc EXCEPT ![p] = step]
    /\ got' = [got EXCEPT ![p] = IF step = "idle" THEN None ELSE count]
    /\ rows' = [rows EXCEPT ![p] = IF step = "idle" THEN {} ELSE records]
    /\ number' = [number EXCEPT ![p] = IF step = "idle" THEN 0 ELSE n]
    /\ solo' = (solo /\ step # "idle")

Goto(p, step) == Goes(p, step, got[p], rows[p], number[p])

Init ==
    /\ chargePoint = None
    /\ connectors = {}
    /\ nextId = 1
    /\ pc = [p \in Ops |-> "idle"]
    /\ got = [p \in Ops |-> None]
    /\ rows = [p \in Ops |-> {}]
    /\ number = [p \in Ops |-> 0]
    /\ solo = FALSE
    /\ exact = TRUE
    /\ clashed = FALSE

\* An operation starts: createChargePoint, updateChargePoint, addConnector,
\* deleteConnector (of connector n) or deleteChargePoint.
Begin(p, step, n) ==
    /\ pc[p] = "idle"
    /\ pc' = [pc EXCEPT ![p] = step]
    /\ number' = [number EXCEPT ![p] = n]
    /\ solo' = (Running = {})
    /\ exact' = (exact /\ Running = {})
    /\ UNCHANGED <<dbVars, got, rows, clashed>>

\* getChargePoint: the operation goes on, or throws and ends.
Get(p, from, found, missing) ==
    /\ pc[p] = from
    /\ Goes(p, IF chargePoint = None THEN missing ELSE found, chargePoint, rows[p], number[p])
    /\ UNCHANGED <<dbVars, exact, clashed>>

\* listConnectors.
List(p, from, to) ==
    /\ pc[p] = from
    /\ Goes(p, to, None, connectors, number[p])
    /\ UNCHANGED <<dbVars, exact, clashed>>

\* putChargePoint, the last transaction of an operation: the whole record is
\* written, as it was read before and changed since.
Put(p, from, count, counted) ==
    /\ pc[p] = from
    /\ chargePoint' = count
    /\ exact' = (exact \/ (counted /\ solo))
    /\ Goto(p, "idle")
    /\ UNCHANGED <<connectors, nextId, clashed>>

-----------------------------------------------------------------------------
\* createChargePoint: refused when the id is taken.
Create(p) ==
    \/ Get(p, "createGet", "idle", "createPut")
    \/ Put(p, "createPut", 0, FALSE)

\* updateChargePoint: the name and the version are not modelled.
Update(p) ==
    \/ Get(p, "updateGet", "updatePut", "idle")
    \/ Put(p, "updatePut", got[p], FALSE)

\* Mutated form of FirstFree: the number of connectors plus one.
FirstFreeByCount(used) == Cardinality(used) + 1

\* The first number that is not in use.
FirstFree(used) ==
    CHOOSE n \in 1 .. Cardinality(used) + 1 : n \notin used /\ \A m \in 1 .. n - 1 : m \in used

\* createConnector, listConnectors and the choice of the number.  Another one
\* between its list and its insert will make one of the two lists out of date.
AddList(p) ==
    /\ pc[p] = "addList"
    /\ Goes(p, "addInsert", got[p], connectors, FirstFree({c.number : c \in connectors}))
    /\ clashed' = (clashed \/ \E q \in Ops : pc[q] = "addInsert")
    /\ UNCHANGED <<dbVars, exact>>

\* createConnector, connectorStore.add.
AddInsert(p) ==
    /\ pc[p] = "addInsert"
    /\ nextId <= MaxIds
    /\ connectors' = connectors \cup {[id |-> nextId, number |-> number[p]]}
    /\ nextId' = nextId + 1
    /\ Goes(p, "addPut", got[p], rows[p], 0)
    /\ UNCHANGED <<chargePoint, exact, clashed>>

\* Mutated form of AddConnector: connectorCount is one more than it was.
AddConnectorIncrements(p) ==
    \/ Get(p, "addGet", "addList", "idle")
    \/ AddList(p)
    \/ AddInsert(p)
    \/ Put(p, "addPut", got[p] + 1, TRUE)

\* createConnector: connectorCount comes from the list read before the insert.
AddConnector(p) ==
    \/ Get(p, "addGet", "addList", "idle")
    \/ AddList(p)
    \/ AddInsert(p)
    \/ Put(p, "addPut", Cardinality(rows[p]) + 1, TRUE)

\* deleteConnectorRecord, up to the delete: one record with that number.
RemoveList(p) ==
    /\ pc[p] = "removeList"
    /\ LET found == {c \in connectors : c.number = number[p]}
       IN  IF found = {} THEN Goto(p, "idle")
           ELSE \E c \in found : Goes(p, "removeDelete", got[p], {c}, number[p])
    /\ UNCHANGED <<dbVars, exact, clashed>>

RemoveDelete(p) ==
    /\ pc[p] = "removeDelete"
    /\ connectors' = Without(rows[p])
    /\ Goes(p, "removeGet", got[p], {}, 0)
    /\ UNCHANGED <<chargePoint, nextId, exact, clashed>>

\* deleteConnectorRecord: the rest of the connectors is counted anew.
RemoveConnector(p) ==
    \/ RemoveList(p)
    \/ RemoveDelete(p)
    \/ Get(p, "removeGet", "removeCount", "idle")
    \/ List(p, "removeCount", "removePut")
    \/ Put(p, "removePut", Cardinality(rows[p]), TRUE)

\* deleteChargePointCascade, its transaction: the connectors that were read.
Cascade(p) ==
    /\ pc[p] = "cascade"
    /\ chargePoint' = None
    /\ connectors' = Without(rows[p])
    /\ exact' = (exact \/ solo)
    /\ Goto(p, "idle")
    /\ UNCHANGED <<nextId, clashed>>

Remove(p) == List(p, "cascadeList", "cascade") \/ Cascade(p)

\* importBrowserDb: one transaction that clears every store and fills it from
\* the file; a key beyond the generator's moves it.  exportBrowserDb reads one
\* store after the other, so the records of a file need not belong together.
Import(count, records) ==
    /\ chargePoint' = count
    /\ connectors' = records
    /\ nextId' = CHOOSE n \in nextId .. MaxIds + 1 :
                    /\ \A c \in records : c.id < n
                    /\ n = nextId \/ \E c \in records : c.id = n - 1
    /\ exact' = FALSE
    /\ solo' = FALSE
    /\ clashed' = (clashed \/ Clash(records) \/ \E p \in Ops : pc[p] = "addInsert")
    /\ UNCHANGED <<pc, localVars>>

\* clearBrowserDb: the database is deleted, its key generator too.
Clear ==
    /\ chargePoint' = None
    /\ connectors' = {}
    /\ nextId' = 1
    /\ exact' = FALSE
    /\ solo' = FALSE
    /\ UNCHANGED <<pc, localVars, clashed>>

\* The page is reloaded, or closed and opened again.
Reload ==
    /\ Running # {}
    /\ pc' = [p \in Ops |-> "idle"]
    /\ got' = [p \in Ops |-> None]
    /\ rows' = [p \in Ops |-> {}]
    /\ number' = [p \in Ops |-> 0]
    /\ solo' = FALSE
    /\ exact' = FALSE
    /\ UNCHANGED <<dbVars, clashed>>

Step(p) ==
    Create(p) \/ Update(p) \/ AddConnector(p) \/ RemoveConnector(p) \/ Remove(p)

Files == {records \in SUBSET Record : \A c, d \in records : c.id = d.id => c = d}

Next ==
    \/ \E p \in Ops :
          \/ \E step \in {"createGet", "updateGet", "addGet", "cascadeList"} : Begin(p, step, 0)
          \/ \E n \in 1 .. MaxIds : Begin(p, "removeList", n)
          \/ Step(p)
    \/ \E count \in 0 .. MaxIds \cup {None}, records \in Files : Import(count, records)
    \/ Clear
    \/ Reload

Spec == Init /\ [][Next]_vars

-----------------------------------------------------------------------------
(* Properties that hold                                                    *)

\* connectorCount heals: whatever overlapping operations, reloads and imports
\* did to the records before, once a connector was added or removed (or the
\* charge point deleted) with nothing else under way, the count is the number
\* of connectors, and a charge point that is gone has none.
CountIsExact ==
    exact /\ Running = {} =>
        IF chargePoint = None THEN connectors = {} ELSE chargePoint = Cardinality(connectors)

\* Connector numbers stay distinct until two createConnectors are between the
\* list they choose their number from and their insert at the same time, or an
\* import comes in there or brings numbers that clash: removing, updating,
\* deleting and reloading at any point do not lead to it.  Nothing is said of
\* the time after the first such event, whether or not two numbers became equal.
NumbersClashOnlyIfStale ==
    ~clashed => ~Clash(connectors)

-----------------------------------------------------------------------------
(* What the user relies on and the code does not do                        *)

\* Two clicks on "add connector" in quick succession give two connectors of
\* the same number.
NumbersDistinct == ~Clash(connectors)
=============================================================================
