------------------------- MODULE TransactionService -------------------------
(***************************************************************************)
(* The transaction lifecycle owner of ocpp-core: the HTTP handlers          *)
(* /internal/transactions/start and /internal/transactions/stop, the Service   *)
(* with its in-memory counter nextID, and the transactions table.           *)
(*                                                                         *)
(* net/http runs every handler in a goroutine of its own, so the steps of   *)
(* different requests interleave freely.  Service.Start takes the mutex     *)
(* twice (to allocate, and to roll back) and talks to PostgreSQL between    *)
(* the two without holding it.  A request is answered at most once and is   *)
(* never reused; it stands for the UUID of the row it creates as well.      *)
(*                                                                         *)
(* The table is external (PostgreSQL): an INSERT either commits, fails on   *)
(* the unique index over (charge_point_id, numeric_id), or fails without    *)
(* effect; and a committed statement may still be reported as an error      *)
(* (the caller's context is cancelled, or the link drops, before the        *)
(* acknowledgement).  A statement whose caller gave up on it, or ended with  *)
(* the process, may be at the server still and take effect later, after a   *)
(* roll-back or a restart.                                                 *)
(***************************************************************************)
EXTENDS Integers, FiniteSets

CONSTANTS
    Requests,      \* HTTP requests to the two handlers
    ChargePoints,  \* values of chargePointId
    StopIDs,       \* transactionId values a StopTransaction may carry
    None           \* no charge point / no request

ASSUME ConstantsAssumption ==
    /\ StopIDs \subseteq Nat
    /\ None \notin Requests
    /\ None \notin ChargePoints

VARIABLES
    up,         \* is the ocpp-core process running
    nextID,     \* Service.nextID, lost in a crash
    pc,         \* where the handler of a request is
    cp,         \* chargePointId of a request
    numericID,  \* start: the id allocated; stop: the transactionId it carries
    target,     \* stop: the row findTransactionByNumericID returned
    row,        \* table: status of the row created by a request
    writer,     \* table: the stop request whose meterStop and reason it holds
    tainted     \* history: since the last start, an unsafe roll-back happened or
                \* an INSERT took effect late

vars == <<up, nextID, pc, cp, numericID, target, row, writer, tainted>>

table == <<row, writer>>

-----------------------------------------------------------------------------
Rows == {r \in Requests : row[r] # "absent"}

\* Handlers between the two critical sections of Service.Start.
Allocated == {r \in Requests : pc[r] \in {"create", "created", "faultErr", "dupErr"}}

InFlight == Allocated \cup {r \in Requests : pc[r] = "stop"}

PCs == {"new", "badRequest", "create", "created", "faultErr", "dupErr", "accepted",
        "failedFault", "failedDuplicate", "stop", "notFound", "stopAccepted",
        "stopFailed", "aborted", "adrift", "stopAdrift"}

TypeOK ==
    /\ up \in BOOLEAN
    /\ nextID \in Nat
    /\ pc \in [Requests -> PCs]
    /\ cp \in [Requests -> ChargePoints \cup {None}]
    /\ numericID \in [Requests -> Nat]
    /\ target \in [Requests -> Requests \cup {None}]
    /\ row \in [Requests -> {"absent", "active", "stopped"}]
    /\ writer \in [Requests -> Requests \cup {None}]
    /\ tainted \in BOOLEAN

\* A fresh database: MaxNumericID yields 0 and InitCounter sets 1.
Init ==
    /\ up = TRUE
    /\ nextID = 1
    /\ pc = [r \in Requests |-> "new"]
    /\ cp = [r \in Requests |-> None]
    /\ numericID = [r \in Requests |-> 0]
    /\ target = [r \in Requests |-> None]
    /\ row = [r \in Requests |-> "absent"]
    /\ writer = [r \in Requests |-> None]
    /\ tainted = FALSE

-----------------------------------------------------------------------------
(* POST /internal/transactions/start                                       *)

\* Either handler: an undecodable body or payload, or no idTag to start with: 400.
BadRequest(r, c) ==
    /\ up
    /\ pc[r] = "new"
    /\ pc' = [pc EXCEPT ![r] = "badRequest"]
    /\ cp' = [cp EXCEPT ![r] = c]
    /\ UNCHANGED <<up, nextID, numericID, target, table, tainted>>

\* Mutated form of Allocate: the counter is read but not advanced.
AllocateNoAdvance(r, c) ==
    /\ up
    /\ pc[r] = "new"
    /\ pc' = [pc EXCEPT ![r] = "create"]
    /\ cp' = [cp EXCEPT ![r] = c]
    /\ numericID' = [numericID EXCEPT ![r] = nextID]
    /\ UNCHANGED <<up, nextID, target, table, tainted>>

\* handleStartTransaction up to Service.Start's first critical section, which
\* reads and advances the counter atomically.
Allocate(r, c) ==
    /\ up
    /\ pc[r] = "new"
    /\ pc' = [pc EXCEPT ![r] = "create"]
    /\ cp' = [cp EXCEPT ![r] = c]
    /\ numericID' = [numericID EXCEPT ![r] = nextID]
    /\ nextID' = nextID + 1
    /\ UNCHANGED <<up, target, table, tainted>>

\* The unique index idx_transactions_cp_numeric rejects the row of r.
Conflicts(r) == \E s \in Rows : cp[s] = cp[r] /\ numericID[s] = numericID[r]

\* TransactionRepo.Create: the INSERT commits.
CreateCommits(r) ==
    /\ pc[r] = "create"
    /\ ~Conflicts(r)
    /\ row' = [row EXCEPT ![r] = "active"]
    /\ pc' = [pc EXCEPT ![r] = "created"]
    /\ UNCHANGED <<up, nextID, cp, numericID, target, writer, tainted>>

\* TransactionRepo.Create: the INSERT violates the unique index.
CreateDuplicate(r) ==
    /\ pc[r] = "create"
    /\ Conflicts(r)
    /\ pc' = [pc EXCEPT ![r] = "dupErr"]
    /\ UNCHANGED <<up, nextID, cp, numericID, target, table, tainted>>

\* Mutated form of CreateFault: the error of an INSERT is not looked at.
CreateErrorIgnored(r) ==
    /\ pc[r] \in {"create", "created"}
    /\ pc' = [pc EXCEPT ![r] = "created"]
    /\ UNCHANGED <<up, nextID, cp, numericID, target, table, tainted>>

\* TransactionRepo.Create reports an error although the database rejected
\* nothing: before the INSERT took effect, or after it committed.
CreateFault(r) ==
    /\ pc[r] \in {"create", "created"}
    /\ pc' = [pc EXCEPT ![r] = "faultErr"]
    /\ UNCHANGED <<up, nextID, cp, numericID, target, table, tainted>>

\* A roll-back is safe when it undoes this handler's own allocation: no id was
\* handed out since, and the id did not reach the table.
SafeRollback(r) == nextID = numericID[r] + 1 /\ row[r] = "absent"

\* Mutated form of Rollback: one id too far.
RollbackTooFar(r) ==
    /\ pc[r] \in {"faultErr", "dupErr"}
    /\ nextID' = numericID[r] - 1
    /\ tainted' = (tainted \/ ~SafeRollback(r))
    /\ pc' = [pc EXCEPT ![r] = IF pc[r] = "dupErr" THEN "failedDuplicate"
                                                   ELSE "failedFault"]
    /\ UNCHANGED <<up, cp, numericID, target, table>>

\* Service.Start's second critical section, and the 500 answer.
Rollback(r) ==
    /\ pc[r] \in {"faultErr", "dupErr"}
    /\ nextID' = numericID[r]
    /\ tainted' = (tainted \/ ~SafeRollback(r))
    /\ pc' = [pc EXCEPT ![r] = IF pc[r] = "dupErr" THEN "failedDuplicate"
                                                   ELSE "failedFault"]
    /\ UNCHANGED <<up, cp, numericID, target, table>>

\* Create returned: StartTransaction.conf with transactionId = numericID[r].
StartAnswer(r) ==
    /\ pc[r] = "created"
    /\ pc' = [pc EXCEPT ![r] = "accepted"]
    /\ UNCHANGED <<up, nextID, cp, numericID, target, table, tainted>>

-----------------------------------------------------------------------------
(* POST /internal/transactions/stop                                        *)

\* Mutated form of Matches: all rows are searched, not the charge point's own.
MatchesAnyChargePoint(c, n) == {t \in Rows : numericID[t] = n}

\* findTransactionByNumericID: ListByChargePoint, then the first row whose
\* numeric_id is the one asked for.
Matches(c, n) == {t \in Rows : cp[t] = c /\ numericID[t] = n}

\* The row is found; Service.Stop is called with its UUID.
StopLookup(r, c, n) ==
    /\ up
    /\ pc[r] = "new"
    /\ \E t \in Matches(c, n) : target' = [target EXCEPT ![r] = t]
    /\ pc' = [pc EXCEPT ![r] = "stop"]
    /\ cp' = [cp EXCEPT ![r] = c]
    /\ numericID' = [numericID EXCEPT ![r] = n]
    /\ UNCHANGED <<up, nextID, table, tainted>>

\* No such row, or the SELECT failed: both are answered 404.
StopNotFound(r, c, n) ==
    /\ up
    /\ pc[r] = "new"
    /\ pc' = [pc EXCEPT ![r] = "notFound"]
    /\ cp' = [cp EXCEPT ![r] = c]
    /\ numericID' = [numericID EXCEPT ![r] = n]
    /\ UNCHANGED <<up, nextID, target, table, tainted>>

\* TransactionRepo.Stop: the UPDATE is by UUID and does not look at the status.
StopCommits(r) ==
    /\ pc[r] = "stop"
    /\ row' = [row EXCEPT ![target[r]] = "stopped"]
    /\ writer' = [writer EXCEPT ![target[r]] = r]
    /\ pc' = [pc EXCEPT ![r] = "stopAccepted"]
    /\ UNCHANGED <<up, nextID, cp, numericID, target, tainted>>

\* TransactionRepo.Stop reports an error: 500.  The UPDATE had no effect, or its
\* acknowledgement is lost and the effect is LateStop's.
StopFault(r) ==
    /\ pc[r] = "stop"
    /\ pc' = [pc EXCEPT ![r] = "stopFailed"]
    /\ UNCHANGED <<up, nextID, cp, numericID, target, table, tainted>>

-----------------------------------------------------------------------------
(* The process                                                             *)

\* What becomes of a handler when its process ends: a statement it has sent and
\* got no answer to is adrift.
Abandoned(p) ==
    IF p \in {"create", "faultErr"} THEN "adrift"
    ELSE IF p = "stop" THEN "stopAdrift"
    ELSE IF p \in {"created", "dupErr"} THEN "aborted"
    ELSE p

\* The process ends; the handlers it was running end with it, wherever they
\* are, and the table keeps what was committed.
Crash ==
    /\ up
    /\ up' = FALSE
    /\ pc' = [r \in Requests |-> Abandoned(pc[r])]
    /\ UNCHANGED <<nextID, cp, numericID, target, table, tainted>>

\* An INSERT nobody waits for any more commits: its process ended, or was told
\* of an error and has rolled the counter back.
LateCommit(r) ==
    /\ pc[r] \in {"adrift", "failedFault"}
    /\ row[r] = "absent"
    /\ ~Conflicts(r)
    /\ row' = [row EXCEPT ![r] = "active"]
    /\ tainted' = TRUE
    /\ UNCHANGED <<up, nextID, pc, cp, numericID, target, writer>>

\* So does an UPDATE whose caller ended, or was told of an error.
LateStop(r) ==
    /\ pc[r] \in {"stopAdrift", "stopFailed"}
    /\ row' = [row EXCEPT ![target[r]] = "stopped"]
    /\ writer' = [writer EXCEPT ![target[r]] = r]
    /\ pc' = [pc EXCEPT ![r] = "aborted"]
    /\ UNCHANGED <<up, nextID, cp, numericID, target, tainted>>

\* TransactionRepo.MaxNumericID: COALESCE(MAX(numeric_id), 0).
IsMaxNumericID(m) ==
    /\ \/ m = 0 /\ Rows = {}
       \/ \E r \in Rows : m = numericID[r]
    /\ \A r \in Rows : numericID[r] <= m

\* Mutated form of Restart: the counter starts at the highest stored id itself.
RestartOffByOne ==
    /\ ~up
    /\ up' = TRUE
    /\ \E m \in {0} \cup {numericID[r] : r \in Rows} :
          /\ IsMaxNumericID(m)
          /\ nextID' = m
    /\ tainted' = FALSE
    /\ UNCHANGED <<pc, cp, numericID, target, table>>

\* InitCounter runs before the HTTP server is started.
Restart ==
    /\ ~up
    /\ up' = TRUE
    /\ \E m \in {0} \cup {numericID[r] : r \in Rows} :
          /\ IsMaxNumericID(m)
          /\ nextID' = m + 1
    /\ tainted' = FALSE
    /\ UNCHANGED <<pc, cp, numericID, target, table>>

Handler(r) ==
    \/ CreateCommits(r)
    \/ CreateDuplicate(r)
    \/ CreateFault(r)
    \/ Rollback(r)
    \/ StartAnswer(r)
    \/ StopCommits(r)
    \/ StopFault(r)

Late(r) == LateCommit(r) \/ LateStop(r)

Arrival(r) ==
    \E c \in ChargePoints :
        \/ BadRequest(r, c)
        \/ Allocate(r, c)
        \/ \E n \in StopIDs : StopLookup(r, c, n) \/ StopNotFound(r, c, n)

Next ==
    \/ \E r \in Requests : Arrival(r) \/ Handler(r) \/ Late(r)
    \/ Crash
    \/ Restart

Spec == Init /\ [][Next]_vars

-----------------------------------------------------------------------------
(* Properties that hold                                                    *)

\* While no unsafe roll-back happened since the process started and no INSERT
\* took effect after its caller had given up, the counter is beyond every id in
\* the table or in a handler's hands, and the id a handler carries from the first
\* critical section of Service.Start to its answer is nobody else's.  This is what "advanced atomically per StartTransaction call"
\* and the seeding from MAX(numeric_id) are for.
IdsFresh ==
    (up /\ ~tainted) =>
        /\ \A r \in Rows \cup Allocated : numericID[r] < nextID
        /\ \A r \in Allocated : \A s \in Rows \cup Allocated :
              s # r => numericID[s] # numericID[r]

\* The unique index refuses a StartTransaction only if the counter was rolled
\* back unsafely, or an INSERT took effect late, in this life of the process.
DuplicateOnlyIfTainted ==
    \A r \in Requests : pc[r] = "dupErr" => tainted

\* An INSERT that commits in an untainted life of the process brings an id that
\* no row of any charge point has, rows written before earlier crashes included.
InsertBringsNewId ==
    [][\A r \in Requests :
          row[r] = "absent" /\ row'[r] # "absent" /\ ~tainted'
              => \A s \in Rows : numericID[s] # numericID'[r]]_vars

\* A transactionId that a charge point was given in StartTransaction.conf is in
\* the table, so that a later StopTransaction can find it, across restarts.
AcceptedIsStored ==
    \A r \in Requests : pc[r] = "accepted" => r \in Rows

\* A row is stopped, and carries a meterStop and a reason, by and only by a
\* StopTransaction of its own charge point that named its id; and a stop that
\* was answered with a StopTransaction.conf left the row it named stopped.
StopsNamedRow ==
    /\ \A t \in Requests : row[t] = "stopped" =>
          /\ writer[t] \in Requests
          /\ target[writer[t]] = t
          /\ cp[writer[t]] = cp[t] /\ numericID[writer[t]] = numericID[t]
    /\ \A r \in Requests : pc[r] = "stopAccepted" =>
          target[r] \in Requests /\ row[target[r]] = "stopped"

-----------------------------------------------------------------------------
(* The ledger the handlers implement                                       *)

Key(r) == <<cp[r], numericID[r]>>

Ledger == INSTANCE TransactionLedger WITH
    active  <- {Key(r) : r \in {t \in Requests : row[t] = "active"}},
    stopped <- {Key(r) : r \in {t \in Requests : row[t] = "stopped"}},
    started <- {Key(r) : r \in {t \in Requests : pc[t] = "accepted"}},
    ended   <- {Key(r) : r \in {t \in Requests : pc[t] = "stopAccepted"}}

\* The handlers, the counter and the table together keep a ledger: a charge point
\* and id are entered once (also after unsafe roll-backs: the index sees to it),
\* only what is in the table is confirmed, a stop is final, and no crash, restart
\* or lost acknowledgement takes anything back.
ImplementsLedger == Ledger!Spec

-----------------------------------------------------------------------------
(* What the documentation says and the code does not do                    *)

\* docs/transaction_flow.md: "transactionId ... Unique id assigned by CS".  No two
\* StartTransaction.conf give the same id.
UniqueTransactionId ==
    \A r, s \in Requests :
        r # s /\ pc[r] = "accepted" /\ pc[s] = "accepted" => numericID[r] # numericID[s]

\* service.go: the counter is rolled back "so a transient failure does not
\* silently skip an id.  The next call will reuse the same numeric value": a
\* call that meets no failure of its own succeeds.
NextCallSucceeds ==
    \A r \in Requests : pc[r] # "failedDuplicate"
=============================================================================
