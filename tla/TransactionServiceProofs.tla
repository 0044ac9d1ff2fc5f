---------------------- MODULE TransactionServiceProofs ----------------------
(***************************************************************************)
(* Proofs about TransactionService, for any set of requests, of charge      *)
(* points and of transaction ids.                                          *)
(***************************************************************************)
EXTENDS TransactionService, TLAPS

\* The invariants of TransactionService are not inductive as they stand: a step
\* that gives a request its id must not change the id of a row, and a restart
\* must find no handler holding an id.
Lifecycle ==
    /\ \A r \in Requests : pc[r] \in {"new", "create"} => row[r] = "absent"
    /\ \A r \in Requests : pc[r] = "created" => row[r] # "absent"
    /\ \A r \in Requests : pc[r] # "new" => cp[r] \in ChargePoints
    /\ ~up => InFlight = {}
    /\ \A r \in Requests : pc[r] \in {"stop", "stopAdrift", "stopFailed"} =>
          target[r] \in Rows /\ cp[target[r]] = cp[r] /\ numericID[target[r]] = numericID[r]
    /\ \A r \in Requests : pc[r] = "new" => \A t \in Requests : writer[t] # r

\* The inductive strengthening of the safety invariants.
IInv ==
    /\ TypeOK
    /\ Lifecycle
    /\ IdsFresh
    /\ DuplicateOnlyIfTainted
    /\ AcceptedIsStored
    /\ StopsNamedRow

\* Every variable keeps its type.
THEOREM TypeCorrect == Spec => []TypeOK
<1>1. Init => TypeOK
  <2> SUFFICES ASSUME Init PROVE TypeOK
    OBVIOUS
  <2>1. up \in BOOLEAN /\ tainted \in BOOLEAN
    BY Zenon DEF Init
  <2>2. QED BY <2>1 DEF Init, TypeOK, PCs
<1>2. TypeOK /\ [Next]_vars => TypeOK'
  <2> SUFFICES ASSUME TypeOK, [Next]_vars PROVE TypeOK'
    OBVIOUS
  <2> USE ConstantsAssumption DEF TypeOK, PCs, table, Rows
  <2>1. ASSUME NEW r \in Requests, NEW c \in ChargePoints, BadRequest(r, c)
        PROVE  TypeOK'
    BY <2>1 DEF BadRequest
  <2>2. ASSUME NEW r \in Requests, NEW c \in ChargePoints, Allocate(r, c)
        PROVE  TypeOK'
    BY <2>2 DEF Allocate
  <2>3. ASSUME NEW r \in Requests, NEW c \in ChargePoints, NEW n \in StopIDs,
               StopLookup(r, c, n)
        PROVE  TypeOK'
    BY <2>3 DEF StopLookup, Matches
  <2>4. ASSUME NEW r \in Requests, NEW c \in ChargePoints, NEW n \in StopIDs,
               StopNotFound(r, c, n)
        PROVE  TypeOK'
    BY <2>4 DEF StopNotFound
  <2>5. ASSUME NEW r \in Requests, CreateCommits(r) PROVE TypeOK'
    BY <2>5 DEF CreateCommits
  <2>6. ASSUME NEW r \in Requests, CreateDuplicate(r) PROVE TypeOK'
    BY <2>6 DEF CreateDuplicate
  <2>7. ASSUME NEW r \in Requests, CreateFault(r) PROVE TypeOK'
    BY <2>7 DEF CreateFault
  <2>8. ASSUME NEW r \in Requests, Rollback(r) PROVE TypeOK'
    <3>1. tainted' \in BOOLEAN
      BY <2>8 DEF Rollback
    <3>2. QED BY <2>8, <3>1 DEF Rollback
  <2>9. ASSUME NEW r \in Requests, StartAnswer(r) PROVE TypeOK'
    BY <2>9 DEF StartAnswer
  <2>10. ASSUME NEW r \in Requests, StopCommits(r) PROVE TypeOK'
    BY <2>10 DEF StopCommits
  <2>11. ASSUME NEW r \in Requests, StopFault(r) PROVE TypeOK'
    BY <2>11 DEF StopFault
  <2>12. CASE Crash
    BY <2>12 DEF Crash, Abandoned
  <2>13. CASE Restart
    <3>1. up' \in BOOLEAN /\ tainted' \in BOOLEAN
      BY <2>13, Zenon DEF Restart
    <3>2. nextID' \in Nat
      BY <2>13 DEF Restart
    <3>3. QED BY <2>13, <3>1, <3>2 DEF Restart
  <2>14. ASSUME NEW r \in Requests, LateCommit(r) PROVE TypeOK'
    <3>1. tainted' \in BOOLEAN
      BY <2>14, Zenon DEF LateCommit
    <3>2. QED BY <2>14, <3>1 DEF LateCommit
  <2>15. ASSUME NEW r \in Requests, LateStop(r) PROVE TypeOK'
    BY <2>15 DEF LateStop
  <2>16. CASE UNCHANGED vars
    BY <2>16 DEF vars
  <2>17. QED
    BY <2>1, <2>2, <2>3, <2>4, <2>5, <2>6, <2>7, <2>8, <2>9, <2>10, <2>11,
       <2>12, <2>13, <2>14, <2>15, <2>16 DEF Next, Arrival, Handler, Late
<1>3. QED
  BY <1>1, <1>2, PTL DEF Spec

\* Every reachable state satisfies the inductive invariant; each of the safety
\* invariants is one of its conjuncts.
LEMMA InitIInv == Init => IInv
<1> SUFFICES ASSUME Init PROVE IInv
  OBVIOUS
<1>1. TypeOK
  <2>1. up \in BOOLEAN /\ tainted \in BOOLEAN
    BY Zenon DEF Init
  <2>2. QED BY <2>1 DEF Init, TypeOK, PCs
<1>2. Rows = {} /\ InFlight = {} /\ Allocated = {}
  BY DEF Init, Rows, InFlight, Allocated
<1>3. Lifecycle
  BY <1>2, ConstantsAssumption DEF Init, Lifecycle
<1>4. QED
  BY <1>1, <1>2, <1>3 DEF IInv, Init, IdsFresh, DuplicateOnlyIfTainted,
     AcceptedIsStored, StopsNamedRow

\* Life-cycle facts are preserved.
LEMMA LifecycleStep == IInv /\ TypeOK' /\ [Next]_vars => Lifecycle'
<1> SUFFICES ASSUME IInv, TypeOK', [Next]_vars PROVE Lifecycle'
  OBVIOUS
<1> USE ConstantsAssumption
    DEF IInv, Lifecycle, TypeOK, table, Rows, InFlight, Allocated
<1>1. ASSUME NEW r \in Requests, NEW c \in ChargePoints, BadRequest(r, c)
      PROVE  Lifecycle'
  BY <1>1 DEF BadRequest
<1>2. ASSUME NEW r \in Requests, NEW c \in ChargePoints, Allocate(r, c)
      PROVE  Lifecycle'
  BY <1>2 DEF Allocate
<1>3. ASSUME NEW r \in Requests, NEW c \in ChargePoints, NEW n \in StopIDs,
             StopLookup(r, c, n)
      PROVE  Lifecycle'
  BY <1>3 DEF StopLookup, Matches
<1>4. ASSUME NEW r \in Requests, NEW c \in ChargePoints, NEW n \in StopIDs,
             StopNotFound(r, c, n)
      PROVE  Lifecycle'
  BY <1>4 DEF StopNotFound
<1>5. ASSUME NEW r \in Requests, CreateCommits(r) PROVE Lifecycle'
  BY <1>5 DEF CreateCommits
<1>6. ASSUME NEW r \in Requests, CreateDuplicate(r) PROVE Lifecycle'
  BY <1>6 DEF CreateDuplicate
<1>7. ASSUME NEW r \in Requests, CreateFault(r) PROVE Lifecycle'
  BY <1>7 DEF CreateFault
<1>8. ASSUME NEW r \in Requests, Rollback(r) PROVE Lifecycle'
  BY <1>8 DEF Rollback
<1>9. ASSUME NEW r \in Requests, StartAnswer(r) PROVE Lifecycle'
  BY <1>9 DEF StartAnswer
<1>10. ASSUME NEW r \in Requests, StopCommits(r) PROVE Lifecycle'
  BY <1>10 DEF StopCommits
<1>11. ASSUME NEW r \in Requests, StopFault(r) PROVE Lifecycle'
  BY <1>11 DEF StopFault
<1>12. CASE Crash
  BY <1>12 DEF Crash, Abandoned
<1>13. CASE Restart
  BY <1>13 DEF Restart
<1>14. ASSUME NEW r \in Requests, LateCommit(r) PROVE Lifecycle'
  BY <1>14 DEF LateCommit
<1>15. ASSUME NEW r \in Requests, LateStop(r) PROVE Lifecycle'
  BY <1>15 DEF LateStop
<1>16. CASE UNCHANGED vars
  BY <1>16 DEF vars
<1>17. QED
  BY <1>1, <1>2, <1>3, <1>4, <1>5, <1>6, <1>7, <1>8, <1>9, <1>10, <1>11,
     <1>12, <1>13, <1>14, <1>15, <1>16 DEF Next, Arrival, Handler, Late

\* The counter stays ahead and ids in flight stay private.
LEMMA IdsFreshStep == IInv /\ TypeOK' /\ [Next]_vars => IdsFresh'
<1> SUFFICES ASSUME IInv, TypeOK', [Next]_vars PROVE IdsFresh'
  OBVIOUS
<1> USE ConstantsAssumption
    DEF IInv, Lifecycle, IdsFresh, TypeOK, table, Rows, Allocated
<1>1. ASSUME NEW r \in Requests, NEW c \in ChargePoints, BadRequest(r, c)
      PROVE  IdsFresh'
  BY <1>1 DEF BadRequest
<1>2. ASSUME NEW r \in Requests, NEW c \in ChargePoints, Allocate(r, c)
      PROVE  IdsFresh'
  BY <1>2 DEF Allocate
<1>3. ASSUME NEW r \in Requests, NEW c \in ChargePoints, NEW n \in StopIDs,
             StopLookup(r, c, n)
      PROVE  IdsFresh'
  BY <1>3 DEF StopLookup, Matches
<1>4. ASSUME NEW r \in Requests, NEW c \in ChargePoints, NEW n \in StopIDs,
             StopNotFound(r, c, n)
      PROVE  IdsFresh'
  BY <1>4 DEF StopNotFound
<1>5. ASSUME NEW r \in Requests, CreateCommits(r) PROVE IdsFresh'
  BY <1>5 DEF CreateCommits
<1>6. ASSUME NEW r \in Requests, CreateDuplicate(r) PROVE IdsFresh'
  BY <1>6 DEF CreateDuplicate
<1>7. ASSUME NEW r \in Requests, CreateFault(r) PROVE IdsFresh'
  BY <1>7 DEF CreateFault
<1>8. ASSUME NEW r \in Requests, Rollback(r) PROVE IdsFresh'
  \* If the roll-back is safe, r held the largest id and no one else has it.
  <2> SUFFICES ASSUME up, ~tainted, ~tainted' PROVE IdsFresh'
    <3>1. tainted => tainted'
      BY <1>8, Zenon DEF Rollback
    <3>2. up' = up
      BY <1>8 DEF Rollback
    <3>3. QED BY <3>1, <3>2, Zenon DEF IdsFresh
  <2>1. nextID = numericID[r] + 1 /\ row[r] = "absent"
    BY <1>8, Zenon DEF Rollback, SafeRollback
  <2>2. r \in Allocated /\ r \notin Rows /\ r \notin Allocated'
    BY <1>8, <2>1 DEF Rollback
  <2>3. Allocated' = Allocated \ {r} /\ Rows' = Rows /\ nextID' = numericID[r]
        /\ numericID' = numericID
    BY <1>8, <2>2 DEF Rollback
  <2>4. \A s \in Rows \cup Allocated : s # r => numericID[s] < numericID[r]
    <3> SUFFICES ASSUME NEW s \in Rows \cup Allocated, s # r
                 PROVE  numericID[s] < numericID[r]
      OBVIOUS
    <3>1. numericID[s] < nextID /\ numericID[s] # numericID[r]
      BY <2>2, Zenon
    <3>2. s \in Requests
      OBVIOUS
    <3>3. numericID[s] \in Nat /\ numericID[r] \in Nat
      BY <3>2
    <3>4. \A i, j, k \in Nat : i = j + 1 /\ k < i /\ k # j => k < j
      OBVIOUS
    <3>5. QED BY <2>1, <3>1, <3>3, <3>4
  <2>5. QED BY <2>2, <2>3, <2>4
<1>9. ASSUME NEW r \in Requests, StartAnswer(r) PROVE IdsFresh'
  BY <1>9 DEF StartAnswer
<1>10. ASSUME NEW r \in Requests, StopCommits(r) PROVE IdsFresh'
  BY <1>10 DEF StopCommits
<1>11. ASSUME NEW r \in Requests, StopFault(r) PROVE IdsFresh'
  BY <1>11 DEF StopFault
<1>12. CASE Crash
  BY <1>12 DEF Crash, Abandoned
<1>13. CASE Restart
  BY <1>13 DEF Restart, IsMaxNumericID, InFlight
<1>14. ASSUME NEW r \in Requests, LateCommit(r) PROVE IdsFresh'
  <2>1. tainted'
    BY <1>14, Zenon DEF LateCommit
  <2>2. QED BY <2>1, Zenon DEF IdsFresh
<1>15. ASSUME NEW r \in Requests, LateStop(r) PROVE IdsFresh'
  BY <1>15 DEF LateStop
<1>16. CASE UNCHANGED vars
  BY <1>16 DEF vars
<1>17. QED
  BY <1>1, <1>2, <1>3, <1>4, <1>5, <1>6, <1>7, <1>8, <1>9, <1>10, <1>11,
     <1>12, <1>13, <1>14, <1>15, <1>16 DEF Next, Arrival, Handler, Late

\* A duplicate key error needs an unsafe roll-back or a late INSERT before it.
LEMMA DuplicateStep == IInv /\ [Next]_vars => DuplicateOnlyIfTainted'
<1> SUFFICES ASSUME IInv, [Next]_vars PROVE DuplicateOnlyIfTainted'
  OBVIOUS
<1> USE DEF IInv, Lifecycle, DuplicateOnlyIfTainted, TypeOK, table
<1>1. ASSUME NEW r \in Requests, NEW c \in ChargePoints, Arrival(r)
      PROVE  DuplicateOnlyIfTainted'
  BY <1>1 DEF Arrival, BadRequest, Allocate, StopLookup, StopNotFound
<1>2. ASSUME NEW r \in Requests, CreateDuplicate(r)
      PROVE  DuplicateOnlyIfTainted'
  <2>1. up
    BY <1>2 DEF CreateDuplicate, InFlight, Allocated
  <2>2. tainted
    BY <1>2, <2>1 DEF CreateDuplicate, Conflicts, IdsFresh, Rows, Allocated
  <2>3. QED BY <1>2, <2>2 DEF CreateDuplicate
<1>3. ASSUME NEW r \in Requests, Rollback(r)
      PROVE  DuplicateOnlyIfTainted'
  <2>1. tainted => tainted'
    BY <1>3, Zenon DEF Rollback
  <2>2. QED BY <1>3, <2>1 DEF Rollback
<1>4. ASSUME NEW r \in Requests, Handler(r), ~CreateDuplicate(r), ~Rollback(r)
      PROVE  DuplicateOnlyIfTainted'
  BY <1>4 DEF Handler, CreateCommits, CreateFault, StartAnswer, StopCommits, StopFault
<1>5. CASE Crash
  BY <1>5 DEF Crash, Abandoned
<1>6. CASE Restart
  BY <1>6 DEF Restart, InFlight, Allocated
<1>7. ASSUME NEW r \in Requests, LateCommit(r) PROVE DuplicateOnlyIfTainted'
  <2>1. tainted'
    BY <1>7, Zenon DEF LateCommit
  <2>2. QED BY <2>1
<1>8. ASSUME NEW r \in Requests, LateStop(r) PROVE DuplicateOnlyIfTainted'
  BY <1>8 DEF LateStop
<1>9. CASE UNCHANGED vars
  BY <1>9 DEF vars
<1>10. QED
  BY <1>1, <1>2, <1>3, <1>4, <1>5, <1>6, <1>7, <1>8, <1>9 DEF Next, Arrival, Late

\* Answered ids stay in the table, and a row is stopped only by a stop naming it.
LEMMA StoredStep ==
    IInv /\ TypeOK' /\ [Next]_vars => AcceptedIsStored' /\ StopsNamedRow'
<1> SUFFICES ASSUME IInv, TypeOK', [Next]_vars
             PROVE  AcceptedIsStored' /\ StopsNamedRow'
  OBVIOUS
<1> USE ConstantsAssumption
    DEF IInv, Lifecycle, AcceptedIsStored, StopsNamedRow, TypeOK, table, Rows
<1>1. ASSUME NEW r \in Requests, NEW c \in ChargePoints,
             BadRequest(r, c) \/ Allocate(r, c)
      PROVE  AcceptedIsStored' /\ StopsNamedRow'
  BY <1>1 DEF BadRequest, Allocate
<1>2. ASSUME NEW r \in Requests, NEW c \in ChargePoints, NEW n \in StopIDs,
             StopLookup(r, c, n) \/ StopNotFound(r, c, n)
      PROVE  AcceptedIsStored' /\ StopsNamedRow'
  BY <1>2 DEF StopLookup, StopNotFound, Matches
<1>3. ASSUME NEW r \in Requests, CreateCommits(r)
      PROVE  AcceptedIsStored' /\ StopsNamedRow'
  BY <1>3 DEF CreateCommits
<1>4. ASSUME NEW r \in Requests,
             CreateDuplicate(r) \/ CreateFault(r) \/ Rollback(r) \/ StartAnswer(r) \/ StopFault(r)
      PROVE  AcceptedIsStored' /\ StopsNamedRow'
  BY <1>4 DEF CreateDuplicate, CreateFault, Rollback, StartAnswer, StopFault
<1>5. ASSUME NEW r \in Requests, StopCommits(r)
      PROVE  AcceptedIsStored' /\ StopsNamedRow'
  BY <1>5 DEF StopCommits
<1>6. CASE Crash
  BY <1>6 DEF Crash, Abandoned
<1>7. CASE Restart
  BY <1>7 DEF Restart
<1>8. ASSUME NEW r \in Requests, LateCommit(r)
      PROVE  AcceptedIsStored' /\ StopsNamedRow'
  BY <1>8 DEF LateCommit
<1>9. ASSUME NEW r \in Requests, LateStop(r)
      PROVE  AcceptedIsStored' /\ StopsNamedRow'
  BY <1>9 DEF LateStop
<1>10. CASE UNCHANGED vars
  BY <1>10 DEF vars
<1>11. QED
  BY <1>1, <1>2, <1>3, <1>4, <1>5, <1>6, <1>7, <1>8, <1>9, <1>10
     DEF Next, Arrival, Handler, Late

\* The inductive invariant holds in every reachable state.
LEMMA IInvHolds == Spec => []IInv
<1>1. IInv /\ TypeOK' /\ [Next]_vars => IInv'
  BY LifecycleStep, IdsFreshStep, DuplicateStep, StoredStep DEF IInv
<1>2. QED
  BY <1>1, InitIInv, TypeCorrect, PTL DEF Spec

\* For any number of concurrent StartTransaction requests, crashes and restarts:
\* as long as no roll-back undid somebody else's allocation or a committed one and
\* no INSERT took effect after its caller had given up, Service.nextID is ahead of every id and ids in flight are private.
THEOREM CounterStaysAhead == Spec => []IdsFresh
<1>1. IInv => IdsFresh
  BY DEF IInv
<1>2. QED BY <1>1, IInvHolds, PTL

\* The unique index refuses a StartTransaction only after an unsafe roll-back or an
\* INSERT that took effect late.
THEOREM DuplicatesAreRollbacks == Spec => []DuplicateOnlyIfTainted
<1>1. IInv => DuplicateOnlyIfTainted
  BY DEF IInv
<1>2. QED BY <1>1, IInvHolds, PTL

\* Every transactionId a charge point was given is in the table, and rows are
\* stopped by, and only by, a stop request of their charge point naming them.
THEOREM TableIsFaithful == Spec => [](AcceptedIsStored /\ StopsNamedRow)
<1>1. IInv => AcceptedIsStored /\ StopsNamedRow
  BY DEF IInv
<1>2. QED BY <1>1, IInvHolds, PTL

\* An INSERT of an untainted process brings an id no row has.
THEOREM InsertsAreFresh == Spec => InsertBringsNewId
<1> DEFINE Fresh ==
      \A r \in Requests :
          row[r] = "absent" /\ row'[r] # "absent" /\ ~tainted'
              => \A s \in Rows : numericID[s] # numericID'[r]
<1>1. IInv /\ [Next]_vars => [Fresh]_vars
  <2> SUFFICES ASSUME IInv, Next PROVE Fresh
    OBVIOUS
  <2> SUFFICES ASSUME NEW r \in Requests, row[r] = "absent", row'[r] # "absent", ~tainted'
               PROVE  \A s \in Rows : numericID[s] # numericID'[r]
    OBVIOUS
  <2> USE DEF IInv, Lifecycle, TypeOK, table
  <2>1. CreateCommits(r)
    <3>1. ASSUME NEW q \in Requests, StopCommits(q) PROVE FALSE
      BY <3>1 DEF StopCommits, Rows
    <3>2. ASSUME NEW q \in Requests, CreateCommits(q) PROVE q = r
      BY <3>2 DEF CreateCommits
    <3>3. ASSUME NEW q \in Requests, LateCommit(q) PROVE FALSE
      BY <3>3, Zenon DEF LateCommit
    <3>4. ASSUME NEW q \in Requests, LateStop(q) PROVE FALSE
      BY <3>4 DEF LateStop, Rows
    <3>5. QED
      BY <3>1, <3>2, <3>3, <3>4 DEF Next, Arrival, Handler, Late, BadRequest, Allocate,
         StopLookup, StopNotFound, CreateDuplicate, CreateFault, Rollback,
         StartAnswer, StopFault, Crash, Restart
  <2>2. up /\ r \in Allocated /\ r \notin Rows
    BY <2>1 DEF CreateCommits, InFlight, Allocated, Rows
  <2>3. QED
    BY <2>1, <2>2 DEF CreateCommits, IdsFresh
<1>2. QED
  BY <1>1, IInvHolds, PTL DEF Spec, InsertBringsNewId

-----------------------------------------------------------------------------
(* The handlers implement the ledger                                       *)

\* The unique index at work: a charge point and id name one row.
UniqueKeys == \A r, s \in Rows : Key(r) = Key(s) => r = s

\* The index admits no second row with the same key, and the charge point and id
\* of a row never change.
LEMMA UniqueKeysStep == IInv /\ UniqueKeys /\ [Next]_vars => UniqueKeys'
<1> SUFFICES ASSUME IInv, UniqueKeys, [Next]_vars PROVE UniqueKeys'
  OBVIOUS
<1> USE DEF IInv, Lifecycle, UniqueKeys, Key, TypeOK, table, Rows
<1>1. ASSUME NEW r \in Requests, Arrival(r) PROVE UniqueKeys'
  BY <1>1 DEF Arrival, BadRequest, Allocate, StopLookup, StopNotFound
<1>2. ASSUME NEW r \in Requests, CreateCommits(r) PROVE UniqueKeys'
  BY <1>2 DEF CreateCommits, Conflicts
<1>3. ASSUME NEW r \in Requests, StopCommits(r) PROVE UniqueKeys'
  BY <1>3 DEF StopCommits
<1>4. ASSUME NEW r \in Requests,
             CreateDuplicate(r) \/ CreateFault(r) \/ Rollback(r) \/ StartAnswer(r) \/ StopFault(r)
      PROVE  UniqueKeys'
  BY <1>4 DEF CreateDuplicate, CreateFault, Rollback, StartAnswer, StopFault
<1>5. CASE Crash \/ Restart \/ UNCHANGED vars
  BY <1>5 DEF Crash, Restart, vars
<1>6. ASSUME NEW r \in Requests, LateCommit(r) PROVE UniqueKeys'
  BY <1>6 DEF LateCommit, Conflicts
<1>7. ASSUME NEW r \in Requests, LateStop(r) PROVE UniqueKeys'
  BY <1>7 DEF LateStop
<1>8. QED
  BY <1>1, <1>2, <1>3, <1>4, <1>5, <1>6, <1>7 DEF Next, Handler, Late

\* So keys name one row in every reachable state, tainted or not.
LEMMA UniqueKeysHold == Spec => []UniqueKeys
<1>1. Init => UniqueKeys
  BY DEF Init, UniqueKeys, Rows
<1>2. QED BY <1>1, UniqueKeysStep, IInvHolds, PTL DEF Spec

\* Steps that leave the four sets of keys alone.
LEMMA LedgerStutters ==
    ASSUME IInv, [Next]_vars,
           \A r \in Requests : ~CreateCommits(r) /\ ~StartAnswer(r) /\ ~StopCommits(r) /\ ~Late(r)
    PROVE  UNCHANGED Ledger!ledger
<1> USE DEF IInv, Lifecycle, Key, TypeOK, table
<1>1. /\ row' = row
      /\ \A t \in Requests : row[t] # "absent" => cp'[t] = cp[t] /\ numericID'[t] = numericID[t]
      /\ \A t \in Requests :
            /\ pc'[t] = "accepted" <=> pc[t] = "accepted"
            /\ pc'[t] = "stopAccepted" <=> pc[t] = "stopAccepted"
            /\ pc[t] \in {"accepted", "stopAccepted"} =>
                  cp'[t] = cp[t] /\ numericID'[t] = numericID[t]
  <2>1. ASSUME NEW r \in Requests, Arrival(r) PROVE <1>1!:
    BY <2>1 DEF Arrival, BadRequest, Allocate, StopLookup, StopNotFound
  <2>2. ASSUME NEW r \in Requests,
               CreateDuplicate(r) \/ CreateFault(r) \/ Rollback(r) \/ StopFault(r)
        PROVE  <1>1!:
    BY <2>2 DEF CreateDuplicate, CreateFault, Rollback, StopFault
  <2>3. CASE Crash
    BY <2>3 DEF Crash, Abandoned
  <2>4. CASE Restart \/ UNCHANGED vars
    BY <2>4 DEF Restart, vars
  <2>5. QED
    BY <2>1, <2>2, <2>3, <2>4 DEF Next, Handler
<1>2. /\ {Key(r) : r \in {t \in Requests : row[t] = "active"}}'
         = {Key(r) : r \in {t \in Requests : row[t] = "active"}}
      /\ {Key(r) : r \in {t \in Requests : row[t] = "stopped"}}'
         = {Key(r) : r \in {t \in Requests : row[t] = "stopped"}}
  BY <1>1
<1>3. /\ {Key(r) : r \in {t \in Requests : pc[t] = "accepted"}}'
         = {Key(r) : r \in {t \in Requests : pc[t] = "accepted"}}
      /\ {Key(r) : r \in {t \in Requests : pc[t] = "stopAccepted"}}'
         = {Key(r) : r \in {t \in Requests : pc[t] = "stopAccepted"}}
  BY <1>1
<1>4. QED BY <1>2, <1>3 DEF Ledger!ledger

\* The sets of keys the ledger is about, under names of their own.
ActiveKeys == {Key(r) : r \in {t \in Requests : row[t] = "active"}}
StoppedKeys == {Key(r) : r \in {t \in Requests : row[t] = "stopped"}}
StartedKeys == {Key(r) : r \in {t \in Requests : pc[t] = "accepted"}}
EndedKeys == {Key(r) : r \in {t \in Requests : pc[t] = "stopAccepted"}}

\* An INSERT that commits, in time or late, enters a key the ledger does not know.
LEMMA CreateEnters ==
    ASSUME IInv, NEW r \in Requests, CreateCommits(r) \/ LateCommit(r)
    PROVE  Ledger!Next
<1> USE DEF IInv, Lifecycle, TypeOK
<1>1. row[r] = "absent" /\ pc[r] \in {"create", "adrift", "failedFault"}
      /\ cp' = cp /\ numericID' = numericID /\ row' = [row EXCEPT ![r] = "active"]
      /\ (pc' = [pc EXCEPT ![r] = "created"] \/ pc' = pc)
  BY DEF CreateCommits, LateCommit
<1>2. cp[r] \in ChargePoints
  BY <1>1
<1>3. Key(r) \in ChargePoints \X Nat
  BY <1>2 DEF Key
<1>4. Key(r) \notin ActiveKeys /\ Key(r) \notin StoppedKeys
  BY DEF CreateCommits, LateCommit, Conflicts, Rows, Key, ActiveKeys, StoppedKeys
<1>5. ActiveKeys' = ActiveKeys \cup {Key(r)}
  BY <1>1 DEF Key, ActiveKeys
<1>6. StoppedKeys' = StoppedKeys
  BY <1>1 DEF Key, StoppedKeys
<1>7. StartedKeys' = StartedKeys /\ EndedKeys' = EndedKeys
  BY <1>1 DEF Key, StartedKeys, EndedKeys
<1>8. Ledger!Enter(Key(r))
  BY <1>3, <1>4, <1>5, <1>6, <1>7
     DEF Ledger!Enter, Ledger!Keys, Ledger!Known, ActiveKeys, StoppedKeys, StartedKeys, EndedKeys
<1>9. Key(r) \in {Key(q) : q \in {t \in Requests : row[t] = "active"}}'
  BY <1>5 DEF ActiveKeys
<1>10. \E k \in {Key(q) : q \in {t \in Requests : row[t] = "active"}}' : Ledger!Enter(k)
  BY <1>8, <1>9 DEF Ledger!Enter
<1>11. QED BY <1>10 DEF Ledger!Next

\* A StartTransaction.conf confirms a key of the ledger.
LEMMA AnswerConfirms ==
    ASSUME IInv, NEW r \in Requests, StartAnswer(r)
    PROVE  Ledger!Next
<1> USE DEF IInv, Lifecycle, TypeOK, table
<1>1. row[r] # "absent" /\ cp' = cp /\ numericID' = numericID /\ row' = row
      /\ pc[r] = "created" /\ pc' = [pc EXCEPT ![r] = "accepted"]
  BY DEF StartAnswer
<1>2. Key(r) \in ActiveKeys \cup StoppedKeys
  BY <1>1 DEF ActiveKeys, StoppedKeys
<1>3. ActiveKeys' = ActiveKeys /\ StoppedKeys' = StoppedKeys
  BY <1>1 DEF Key, ActiveKeys, StoppedKeys
<1>4. StartedKeys' = StartedKeys \cup {Key(r)} /\ EndedKeys' = EndedKeys
  BY <1>1 DEF Key, StartedKeys, EndedKeys
<1>5. QED
  BY <1>2, <1>3, <1>4 DEF Ledger!Next, Ledger!ConfirmStart, Ledger!Known,
     ActiveKeys, StoppedKeys, StartedKeys, EndedKeys

\* An UPDATE that commits, in time or late, stops the key its request named, which is one row's.
LEMMA StopStops ==
    ASSUME IInv, UniqueKeys, NEW r \in Requests, StopCommits(r) \/ LateStop(r)
    PROVE  Ledger!Next
<1> USE DEF IInv, Lifecycle, TypeOK
<1> DEFINE t == target[r]
<1>1. t \in Requests /\ row[t] # "absent" /\ Key(t) = Key(r)
  BY DEF StopCommits, LateStop, Rows, Key
<1>2. cp' = cp /\ numericID' = numericID /\ row' = [row EXCEPT ![t] = "stopped"]
      /\ pc[r] \in {"stop", "stopAdrift", "stopFailed"}
      /\ (pc' = [pc EXCEPT ![r] = "stopAccepted"] \/ pc' = [pc EXCEPT ![r] = "aborted"])
  BY DEF StopCommits, LateStop
<1>3. Key(t) \in ActiveKeys \cup StoppedKeys
  BY <1>1 DEF ActiveKeys, StoppedKeys
<1>4. ActiveKeys' = ActiveKeys \ {Key(t)}
  <2>1. \A s \in Requests : row[s] = "active" /\ s # t => Key(s) # Key(t)
    BY <1>1 DEF UniqueKeys, Rows
  <2>2. QED BY <1>1, <1>2, <2>1 DEF Key, ActiveKeys
<1>5. StoppedKeys' = StoppedKeys \cup {Key(t)}
  BY <1>1, <1>2 DEF Key, StoppedKeys
<1>6. StartedKeys' = StartedKeys
  BY <1>2 DEF Key, StartedKeys
<1>7. EndedKeys' \in {EndedKeys, EndedKeys \cup {Key(t)}}
  BY <1>1, <1>2 DEF Key, EndedKeys
<1>8. QED
  BY <1>3, <1>4, <1>5, <1>6, <1>7 DEF Ledger!Next, Ledger!Stop, Ledger!Known,
     ActiveKeys, StoppedKeys, StartedKeys, EndedKeys

\* Refinement: whatever the interleaving, the crashes and the lost
\* acknowledgements, each step of the handlers is a step of the ledger or leaves
\* it alone.
THEOREM RefinesLedger == Spec => ImplementsLedger
<1>1. Init => Ledger!Init
  BY DEF Init, Ledger!Init
<1>2. IInv /\ UniqueKeys /\ [Next]_vars => [Ledger!Next]_(Ledger!ledger)
  <2> SUFFICES ASSUME IInv, UniqueKeys, [Next]_vars
               PROVE  Ledger!Next \/ UNCHANGED Ledger!ledger
    OBVIOUS
  <2>1. CASE \A r \in Requests : ~CreateCommits(r) /\ ~StartAnswer(r) /\ ~StopCommits(r) /\ ~Late(r)
    BY <2>1, LedgerStutters
  <2>2. QED
    BY <2>1, CreateEnters, AnswerConfirms, StopStops DEF Late
<1>3. QED
  BY <1>1, <1>2, UniqueKeysHold, IInvHolds, PTL DEF Spec, ImplementsLedger, Ledger!Spec
=============================================================================
