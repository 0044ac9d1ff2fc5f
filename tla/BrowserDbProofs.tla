--------------------------- MODULE BrowserDbProofs ---------------------------
(***************************************************************************)
(* Proofs about BrowserDb, for any number of operations under way and of   *)
(* connectors: numbers clash only through an outdated list, and a change   *)
(* made on its own makes connectorCount the number of connectors again.    *)
(***************************************************************************)
EXTENDS BrowserDb, FiniteSetTheorems, WellFoundedInduction, TLAPS

Numbers(records) == {c.number : c \in records}

Steps == {"idle", "createGet", "createPut", "updateGet", "updatePut", "addGet", "addList",
          "addInsert", "addPut", "removeList", "removeDelete", "removeGet", "removeCount",
          "removePut", "cascadeList", "cascade"}

Types ==
    /\ pc \in [Ops -> Steps]
    /\ number \in [Ops -> Nat]
    /\ clashed \in BOOLEAN
    /\ Numbers(connectors) \subseteq Nat
    /\ IsFiniteSet(Numbers(connectors))

\* As long as nothing went wrong, at most one createConnector is about to
\* insert its record, and its number is still free.
FreeIsFree ==
    ~clashed =>
        /\ ~Clash(connectors)
        /\ \A p \in Ops : pc[p] = "addInsert" => number[p] \notin Numbers(connectors)
        /\ \A p, q \in Ops : pc[p] = "addInsert" /\ pc[q] = "addInsert" => p = q

IInv == Types /\ FreeIsFree

-----------------------------------------------------------------------------
\* Every set of numbers that is not empty has a least one.
LEMMA LeastNumber ==
    ASSUME NEW T \in SUBSET Nat, T # {}
    PROVE  \E n \in T : \A m \in T : n <= m
<1>1. PICK n \in T : \A m \in T : ~(<<m, n>> \in OpToRel(<, Nat))
  BY NatLessThanWellFounded, WFMin
<1>2. \A m \in T : ~(m < n)
  BY <1>1 DEF OpToRel
<1>3. QED BY <1>2

\* The number that createConnector chooses is free in the list it has read.
LEMMA FirstFreeIsFree ==
    ASSUME NEW used \in SUBSET Nat, IsFiniteSet(used)
    PROVE  FirstFree(used) \in Nat \ used
<1> DEFINE k == Cardinality(used) + 1
           T == (1 .. k) \ used
<1>1. Cardinality(used) \in Nat
  BY FS_CardinalityType
<1>2. IsFiniteSet(1 .. k) /\ Cardinality(1 .. k) = k
  BY <1>1, FS_Interval
<1>3. ~(1 .. k \subseteq used)
  <2>1. 1 .. k \subseteq used => Cardinality(1 .. k) <= Cardinality(used)
    BY FS_Subset
  <2>2. QED BY <1>1, <1>2, <2>1
<1>4. T \in SUBSET Nat /\ T # {}
  BY <1>1, <1>3
<1>5. PICK n \in T : \A m \in T : n <= m
  BY <1>4, LeastNumber
<1>6. n \in 1 .. k /\ n \notin used /\ \A m \in 1 .. n - 1 : m \in used
  BY <1>1, <1>5
<1>7. FirstFree(used) \in 1 .. k /\ FirstFree(used) \notin used
  BY <1>6 DEF FirstFree
<1>8. QED BY <1>1, <1>7

\* Fewer records clash no more than before.
LEMMA FewerRecords ==
    ASSUME NEW records, NEW fewer \in SUBSET records,
           Numbers(records) \subseteq Nat, IsFiniteSet(Numbers(records))
    PROVE  /\ Numbers(fewer) \subseteq Numbers(records)
           /\ IsFiniteSet(Numbers(fewer))
           /\ Clash(fewer) => Clash(records)
<1>1. Numbers(fewer) \subseteq Numbers(records)
  BY DEF Numbers
<1>2. IsFiniteSet(Numbers(fewer))
  BY <1>1, FS_Subset
<1>3. Clash(fewer) => Clash(records)
  BY DEF Clash
<1>4. QED BY <1>1, <1>2, <1>3

LEMMA InitIInv == Init => IInv
<1> SUFFICES ASSUME Init PROVE IInv
  OBVIOUS
<1>1. Numbers(connectors) = {} /\ ~Clash(connectors)
  BY DEF Init, Numbers, Clash
<1>2. IsFiniteSet(Numbers(connectors))
  BY <1>1, FS_EmptySet
<1>3. QED BY <1>1, <1>2 DEF Init, IInv, Types, FreeIsFree, Steps

\* A step that inserts nothing and brings no createConnector to its insert.
LEMMA QuietStep ==
    ASSUME IInv, connectors' \in SUBSET connectors, clashed' = clashed,
           pc' \in [Ops -> Steps], number' \in [Ops -> Nat],
           \A p \in Ops : pc'[p] = "addInsert" =>
                              pc[p] = "addInsert" /\ number'[p] = number[p]
    PROVE  IInv'
<1>1. /\ Numbers(connectors') \subseteq Numbers(connectors)
      /\ IsFiniteSet(Numbers(connectors'))
      /\ Clash(connectors') => Clash(connectors)
  BY FewerRecords DEF IInv, Types
<1>2. Types'
  BY <1>1 DEF IInv, Types
<1>3. FreeIsFree'
  <2> SUFFICES ASSUME ~clashed
               PROVE  /\ ~Clash(connectors')
                      /\ \A p \in Ops : pc'[p] = "addInsert" => number'[p] \notin Numbers(connectors')
                      /\ \A p, q \in Ops : pc'[p] = "addInsert" /\ pc'[q] = "addInsert" => p = q
    BY DEF FreeIsFree
  <2>1. QED BY <1>1 DEF IInv, FreeIsFree
<1>4. QED BY <1>2, <1>3 DEF IInv

\* What Goes leaves as it was, and what it does to its own operation.
LEMMA GoesMoves ==
    ASSUME IInv, NEW p \in Ops, NEW step \in Steps, NEW count, NEW records, NEW n \in Nat,
           Goes(p, step, count, records, n)
    PROVE  /\ pc' \in [Ops -> Steps] /\ number' \in [Ops -> Nat]
           /\ pc'[p] = step
           /\ step # "idle" => number'[p] = n
           /\ \A q \in Ops : q # p => pc'[q] = pc[q] /\ number'[q] = number[q]
BY DEF IInv, Types, Goes

\* createConnector's list: its number is free, and another one on its way to an
\* insert is a clash to come.
LEMMA AddListKeeps ==
    ASSUME IInv, NEW p \in Ops, AddList(p)
    PROVE  IInv'
<1> DEFINE free == FirstFree(Numbers(connectors))
<1>1. free \in Nat \ Numbers(connectors)
  BY FirstFreeIsFree DEF IInv, Types
<1>2. Goes(p, "addInsert", got[p], connectors, free)
  BY DEF AddList, Numbers
<1>3. connectors' = connectors /\ clashed' = (clashed \/ \E q \in Ops : pc[q] = "addInsert")
  BY DEF AddList, dbVars
<1> HIDE DEF free
<1>4. /\ pc' \in [Ops -> Steps] /\ number' \in [Ops -> Nat]
      /\ pc'[p] = "addInsert" /\ number'[p] = free
      /\ \A q \in Ops : q # p => pc'[q] = pc[q] /\ number'[q] = number[q]
  <2>1. "addInsert" \in Steps /\ "addInsert" # "idle"
    BY DEF Steps
  <2>2. QED BY <1>1, <1>2, <2>1, GoesMoves
<1>5. Types'
  BY <1>3, <1>4 DEF IInv, Types
<1>6. FreeIsFree'
  <2> SUFFICES ASSUME ~clashed' PROVE FreeIsFree'
    BY DEF FreeIsFree
  <2>1. ~clashed /\ \A q \in Ops : pc[q] # "addInsert"
    BY <1>3
  <2>2. ~Clash(connectors')
    BY <1>3, <2>1 DEF IInv, FreeIsFree
  <2>3. \A q \in Ops : pc'[q] = "addInsert" => q = p
    BY <1>4, <2>1
  <2>4. number'[p] \notin Numbers(connectors')
    BY <1>1, <1>3, <1>4
  <2>5. QED BY <2>2, <2>3, <2>4 DEF FreeIsFree
<1>7. QED BY <1>5, <1>6 DEF IInv

\* createConnector's insert: the record that is added has a number of its own.
LEMMA AddInsertKeeps ==
    ASSUME IInv, NEW p \in Ops, AddInsert(p)
    PROVE  IInv'
<1> DEFINE new == [id |-> nextId, number |-> number[p]]
<1>1. /\ pc[p] = "addInsert" /\ clashed' = clashed
      /\ connectors' = connectors \cup {new}
  BY DEF AddInsert
<1>2. /\ pc' \in [Ops -> Steps] /\ number' \in [Ops -> Nat]
      /\ pc'[p] = "addPut"
      /\ \A q \in Ops : q # p => pc'[q] = pc[q] /\ number'[q] = number[q]
  <2>1. "addPut" \in Steps /\ 0 \in Nat
    BY DEF Steps
  <2>2. Goes(p, "addPut", got[p], rows[p], 0)
    BY DEF AddInsert
  <2>3. QED BY <2>1, <2>2, GoesMoves
<1>3. new.number = number[p] /\ number[p] \in Nat
  BY DEF IInv, Types
<1> HIDE DEF new
<1>4. Numbers(connectors') = Numbers(connectors) \cup {number[p]}
  BY <1>1, <1>3 DEF Numbers
<1>5. IsFiniteSet(Numbers(connectors'))
  BY <1>4, FS_AddElement DEF IInv, Types
<1>6. Types'
  BY <1>1, <1>2, <1>3, <1>4, <1>5 DEF IInv, Types
<1>7. FreeIsFree'
  <2> SUFFICES ASSUME ~clashed' PROVE FreeIsFree'
    BY DEF FreeIsFree
  <2>1. /\ ~Clash(connectors)
        /\ number[p] \notin Numbers(connectors)
        /\ \A q \in Ops : pc[q] = "addInsert" => q = p
    BY <1>1 DEF IInv, FreeIsFree
  <2>2. ~Clash(connectors')
    BY <1>1, <1>3, <2>1 DEF Clash, Numbers
  <2>3. \A q \in Ops : pc'[q] # "addInsert"
    BY <1>2, <2>1
  <2>4. QED BY <2>2, <2>3 DEF FreeIsFree
<1>8. QED BY <1>6, <1>7 DEF IInv

\* An import brings a clash with it or none, and outdates every list.
LEMMA ImportKeeps ==
    ASSUME IInv, NEW count, NEW records \in Files, Import(count, records)
    PROVE  IInv'
<1>1. /\ connectors' = records /\ UNCHANGED <<pc, number>>
      /\ clashed' = (clashed \/ Clash(records) \/ \E p \in Ops : pc[p] = "addInsert")
  BY DEF Import, localVars
<1>2. Numbers(records) \subseteq 1 .. MaxIds
  BY DEF Files, Record, Numbers
<1>3. IsFiniteSet(Numbers(records))
  <2>1. IsFiniteSet(1 .. MaxIds)
    BY FS_Interval, BrowserDbAssumption
  <2>2. QED BY <1>2, <2>1, FS_Subset
<1>4. Types'
  BY <1>1, <1>2, <1>3, BrowserDbAssumption DEF IInv, Types
<1>5. FreeIsFree'
  BY <1>1 DEF FreeIsFree
<1>6. QED BY <1>4, <1>5 DEF IInv

\* The same of a step of an operation.
LEMMA QuietGoes ==
    ASSUME IInv, NEW p \in Ops, NEW step \in Steps \ {"addInsert"}, NEW count, NEW records,
           NEW n \in Nat, Goes(p, step, count, records, n),
           connectors' \in SUBSET connectors, clashed' = clashed
    PROVE  IInv'
<1>1. /\ pc' \in [Ops -> Steps] /\ number' \in [Ops -> Nat] /\ pc'[p] = step
      /\ \A q \in Ops : q # p => pc'[q] = pc[q] /\ number'[q] = number[q]
  BY GoesMoves
<1>2. QED BY <1>1, QuietStep

\* Every other step of an operation.
LEMMA OtherSteps ==
    ASSUME IInv, NEW p \in Ops, Step(p), ~AddList(p), ~AddInsert(p)
    PROVE  IInv'
<1>0. number[p] \in Nat
  BY DEF IInv, Types
<1>1. ASSUME NEW from, NEW found \in Steps \ {"addInsert"}, NEW missing \in Steps \ {"addInsert"},
             Get(p, from, found, missing)
      PROVE  IInv'
  <2> DEFINE step == IF chargePoint = None THEN missing ELSE found
  <2>1. Goes(p, step, chargePoint, rows[p], number[p]) /\ UNCHANGED <<connectors, clashed>>
    BY <1>1 DEF Get, dbVars
  <2>2. step \in Steps \ {"addInsert"}
    OBVIOUS
  <2> HIDE DEF step
  <2>3. QED BY <1>0, <2>1, <2>2, QuietGoes
<1>2. ASSUME NEW from, NEW to \in Steps \ {"addInsert"}, List(p, from, to) PROVE IInv'
  <2>1. Goes(p, to, None, connectors, number[p]) /\ UNCHANGED <<connectors, clashed>>
    BY <1>2 DEF List, dbVars
  <2>2. QED BY <1>0, <2>1, QuietGoes
<1> DEFINE Ends == Goes(p, "idle", got[p], rows[p], number[p])
<1>3. Ends /\ connectors' \in SUBSET connectors /\ clashed' = clashed => IInv'
  <2>1. "idle" \in Steps \ {"addInsert"}
    BY DEF Steps
  <2>2. QED BY <1>0, <2>1, QuietGoes
<1>4. ASSUME NEW from, NEW count, NEW counted, Put(p, from, count, counted) PROVE IInv'
  <2>1. Ends /\ UNCHANGED <<connectors, clashed>>
    BY <1>4 DEF Put, Goto
  <2> HIDE DEF Ends
  <2>2. QED BY <1>3, <2>1
<1>5. CASE RemoveList(p)
  <2>1. UNCHANGED <<connectors, clashed>>
    BY <1>5 DEF RemoveList, dbVars
  <2>2. \/ Ends
        \/ \E c \in connectors : Goes(p, "removeDelete", got[p], {c}, number[p])
    BY <1>5 DEF RemoveList, Goto
  <2>3. ASSUME NEW c \in connectors, Goes(p, "removeDelete", got[p], {c}, number[p]) PROVE IInv'
    <3>1. "removeDelete" \in Steps \ {"addInsert"}
      BY DEF Steps
    <3>2. QED BY <1>0, <2>1, <2>3, <3>1, QuietGoes
  <2> HIDE DEF Ends
  <2>4. QED BY <1>3, <2>1, <2>2, <2>3
<1>6. CASE RemoveDelete(p)
  <2>1. /\ Goes(p, "removeGet", got[p], {}, 0)
        /\ connectors' \in SUBSET connectors /\ clashed' = clashed
    BY <1>6 DEF RemoveDelete, Without
  <2>2. "removeGet" \in Steps \ {"addInsert"} /\ 0 \in Nat
    BY DEF Steps
  <2>3. QED BY <2>1, <2>2, QuietGoes
<1>7. CASE Cascade(p)
  <2>1. Ends /\ connectors' \in SUBSET connectors /\ clashed' = clashed
    BY <1>7 DEF Cascade, Goto, Without
  <2> HIDE DEF Ends
  <2>2. QED BY <1>3, <2>1
<1>8. CASE Create(p) \/ Update(p)
  BY <1>1, <1>4, <1>8 DEF Create, Update, Steps
<1>9. CASE AddConnector(p)
  BY <1>1, <1>4, <1>9 DEF AddConnector, Steps
<1>10. CASE RemoveConnector(p)
  BY <1>1, <1>2, <1>4, <1>5, <1>6, <1>10 DEF RemoveConnector, Steps
<1>11. CASE Remove(p)
  BY <1>2, <1>7, <1>11 DEF Remove, Steps
<1>12. QED BY <1>8, <1>9, <1>10, <1>11 DEF Step

LEMMA IInvHolds == Spec => []IInv
<1>1. IInv /\ [Next]_vars => IInv'
  <2> SUFFICES ASSUME IInv, [Next]_vars PROVE IInv'
    OBVIOUS
  <2>1. ASSUME NEW p \in Ops, NEW step \in Steps \ {"addInsert"}, NEW n \in Nat, Begin(p, step, n)
        PROVE  IInv'
    <3>1. /\ UNCHANGED <<connectors, clashed>>
          /\ pc' \in [Ops -> Steps] /\ number' \in [Ops -> Nat] /\ pc'[p] = step
          /\ \A q \in Ops : q # p => pc'[q] = pc[q] /\ number'[q] = number[q]
      BY <2>1 DEF Begin, dbVars, IInv, Types
    <3>2. QED BY <3>1, QuietStep
  <2>2. ASSUME NEW p \in Ops, Step(p) PROVE IInv'
    BY <2>2, AddListKeeps, AddInsertKeeps, OtherSteps
  <2>3. ASSUME NEW count, NEW records \in Files, Import(count, records) PROVE IInv'
    BY <2>3, ImportKeeps
  <2>4. CASE Clear
    <3>1. connectors' \in SUBSET connectors /\ UNCHANGED <<pc, number, clashed>>
      BY <2>4 DEF Clear, localVars
    <3>2. QED BY <3>1, QuietStep DEF IInv, Types
  <2>5. CASE Reload
    <3>1. /\ UNCHANGED <<connectors, clashed>>
          /\ pc' \in [Ops -> Steps] /\ number' \in [Ops -> Nat]
          /\ \A q \in Ops : pc'[q] = "idle"
      BY <2>5 DEF Reload, dbVars, Steps
    <3>2. QED BY <3>1, QuietStep
  <2>6. CASE UNCHANGED vars
    <3>1. UNCHANGED <<connectors, pc, number, clashed>>
      BY <2>6 DEF vars, dbVars, localVars
    <3>2. QED BY <3>1, QuietStep DEF IInv, Types
  <2>7. ASSUME NEW p \in Ops, NEW n \in 1 .. MaxIds, Begin(p, "removeList", n) PROVE IInv'
    <3>1. "removeList" \in Steps \ {"addInsert"} /\ n \in Nat
      BY BrowserDbAssumption DEF Steps
    <3>2. QED BY <2>1, <2>7, <3>1
  <2>8. ASSUME NEW p \in Ops, NEW step \in {"createGet", "updateGet", "addGet", "cascadeList"},
               Begin(p, step, 0)
        PROVE  IInv'
    <3>1. step \in Steps \ {"addInsert"} /\ 0 \in Nat
      BY DEF Steps
    <3>2. QED BY <2>1, <2>8, <3>1
  <2>9. QED BY <2>2, <2>3, <2>4, <2>5, <2>6, <2>7, <2>8 DEF Next
<1>2. QED BY InitIInv, <1>1, PTL DEF Spec

-----------------------------------------------------------------------------
\* Connector numbers are distinct until two createConnectors, or one and an
\* import, meet between list and insert, or an import brings numbers that clash,
\* for any number of operations and connectors.
THEOREM NumbersClashOnlyThroughStaleLists == Spec => []NumbersClashOnlyIfStale
<1>1. IInv => NumbersClashOnlyIfStale
  BY DEF IInv, FreeIsFree, NumbersClashOnlyIfStale
<1>2. QED BY IInvHolds, <1>1, PTL

-----------------------------------------------------------------------------
(* connectorCount.                                                         *)

\* The key generator is ahead of every key in the store.
KeysAhead ==
    /\ IsFiniteSet(connectors)
    /\ nextId \in 1 .. MaxIds + 1
    /\ \A c \in connectors : c.id \in Nat /\ c.id < nextId

LocalsOK ==
    /\ DOMAIN rows = Ops
    /\ DOMAIN got = Ops
    /\ solo \in BOOLEAN
    /\ exact \in BOOLEAN

Good == IF chargePoint = None THEN connectors = {} ELSE chargePoint = Cardinality(connectors)

\* The steps of an operation that has changed the connectors and not yet written
\* the count.
Changed == {"addPut", "removeGet", "removeCount", "removePut"}

\* What an operation that runs on its own has read is what the stores hold.
Seen(p) ==
    /\ pc[p] = "createPut" => chargePoint = None
    /\ pc[p] = "updatePut" => got[p] = chargePoint
    /\ pc[p] \in {"addList", "addInsert"} => chargePoint # None
    /\ pc[p] \in {"addInsert", "removePut", "cascade"} => rows[p] = connectors
    /\ pc[p] = "addPut" => Cardinality(connectors) = Cardinality(rows[p]) + 1

CountInv ==
    /\ solo => \E p \in Ops : Running = {p} /\ Seen(p)
    /\ exact /\ Running # {} => solo
    /\ exact /\ chargePoint = None => connectors = {}
    /\ exact /\ (\A p \in Running : pc[p] \notin Changed) => Good

CInv == KeysAhead /\ LocalsOK /\ CountInv

LEMMA InitCInv == Init => CInv
<1> SUFFICES ASSUME Init PROVE CInv
  OBVIOUS
<1>1. KeysAhead
  BY FS_EmptySet, BrowserDbAssumption DEF Init, KeysAhead
<1>2. LocalsOK
  <2>1. solo \in BOOLEAN /\ exact \in BOOLEAN
    BY Zenon DEF Init
  <2>2. QED BY <2>1 DEF Init, LocalsOK
<1>3. CountInv
  BY DEF Init, CountInv, Running, Good
<1>4. QED BY <1>1, <1>2, <1>3 DEF CInv

\* Fewer connectors keep the keys behind the generator.
LEMMA FewerKeys ==
    ASSUME KeysAhead, connectors' \in SUBSET connectors, nextId' = nextId
    PROVE  KeysAhead'
<1>1. IsFiniteSet(connectors')
  BY FS_Subset DEF KeysAhead
<1>2. QED BY <1>1 DEF KeysAhead

\* importBrowserDb moves the generator past the keys it brings.
LEMMA ImportKeys ==
    ASSUME KeysAhead, NEW count, NEW records \in Files, Import(count, records)
    PROVE  KeysAhead'
<1> USE BrowserDbAssumption
<1> DEFINE T == {n \in nextId .. MaxIds + 1 : \A c \in records : c.id < n}
           P(n) == /\ \A c \in records : c.id < n
                   /\ n = nextId \/ \E c \in records : c.id = n - 1
<1>1. nextId \in 1 .. MaxIds + 1 /\ \A c \in records : c.id \in 1 .. MaxIds
  BY DEF KeysAhead, Files, Record
<1>2. MaxIds + 1 \in T /\ T \in SUBSET Nat
  BY <1>1
<1>3. PICK n \in T : \A m \in T : n <= m
  <2>1. T # {}
    BY <1>2
  <2> HIDE DEF T
  <2>2. QED BY <1>2, <2>1, LeastNumber
<1>4. P(n)
  <2>1. CASE n = nextId
    BY <2>1
  <2>2. CASE n # nextId
    <3>1. n - 1 \in nextId .. MaxIds + 1 /\ n - 1 \notin T
      BY <1>1, <1>3, <2>2
    <3>2. PICK c \in records : ~(c.id < n - 1)
      BY <3>1
    <3>3. c.id = n - 1
      BY <1>1, <1>3, <3>1, <3>2
    <3>4. QED BY <3>3
  <2>3. QED BY <2>1, <2>2
<1>5. nextId' \in nextId .. MaxIds + 1 /\ \A c \in records : c.id < nextId'
  <2>1. nextId' = CHOOSE m \in nextId .. MaxIds + 1 : P(m)
    BY DEF Import
  <2>2. n \in nextId .. MaxIds + 1
    OBVIOUS
  <2> HIDE DEF P
  <2>3. nextId' \in nextId .. MaxIds + 1 /\ P(nextId')
    BY <1>4, <2>1, <2>2
  <2>4. QED BY <2>3 DEF P
<1>6. IsFiniteSet(records)
  <2>1. IsFiniteSet(1 .. MaxIds)
    BY FS_Interval
  <2>2. IsFiniteSet((1 .. MaxIds) \X (1 .. MaxIds))
    BY <2>1, FS_Product
  <2> DEFINE S == (1 .. MaxIds) \X (1 .. MaxIds)
             f == [x \in S |-> [id |-> x[1], number |-> x[2]]]
  <2>3. f \in Surjection(S, Record)
    <3>1. \A r \in Record : \E x \in S : f[x] = r
      <4> SUFFICES ASSUME NEW r \in Record PROVE f[<<r.id, r.number>>] = r /\ <<r.id, r.number>> \in S
        OBVIOUS
      <4>1. QED BY DEF Record
    <3>2. f \in [S -> Record]
      BY DEF Record
    <3> HIDE DEF f
    <3>3. QED BY <3>1, <3>2 DEF Surjection
  <2>4. IsFiniteSet(Record)
    BY <2>2, <2>3, FS_Surjection
  <2>5. QED BY <2>4, FS_Subset DEF Files
<1>7. QED BY <1>1, <1>5, <1>6 DEF KeysAhead, Import

\* An operation with a step to run is the only one, or nothing is claimed.
LEMMA Alone ==
    ASSUME CInv, NEW p \in Ops, pc[p] # "idle"
    PROVE  /\ exact => solo
           /\ solo => Running = {p} /\ Seen(p)
BY DEF CInv, CountInv, Running

\* What a step of an operation has to show.
LEMMA StepCounts ==
    ASSUME IInv, CInv, NEW p \in Ops, pc[p] # "idle",
           NEW step \in Steps, NEW count, NEW records, NEW n, Goes(p, step, count, records, n),
           KeysAhead', exact' \in BOOLEAN, exact' => solo,
           solo /\ step # "idle" /\ pc'[p] = step /\ got'[p] = count /\ rows'[p] = records
               => Seen(p)',
           exact' /\ chargePoint' = None => connectors' = {},
           exact' /\ step \notin Changed => Good'
    PROVE  CInv'
<1>1. /\ DOMAIN rows' = Ops /\ DOMAIN got' = Ops
      /\ pc'[p] = step
      /\ step # "idle" => got'[p] = count /\ rows'[p] = records
      /\ \A q \in Ops : q # p => pc'[q] = pc[q]
  BY DEF Goes, CInv, LocalsOK, IInv, Types
<1>2. solo' = (solo /\ step # "idle")
  BY DEF Goes
<1>3. solo => Running' = IF step = "idle" THEN {} ELSE {p}
  BY <1>1, Alone DEF Running
<1>4. LocalsOK'
  BY <1>1, <1>2 DEF LocalsOK
<1>5. solo' => \E q \in Ops : Running' = {q} /\ Seen(q)'
  BY <1>1, <1>2, <1>3
<1>6. exact' /\ Running' # {} => solo'
  BY <1>2, <1>3
<1>7. exact' /\ (\A q \in Running' : pc'[q] \notin Changed) => Good'
  <2>1. step \in Changed => p \in Running' /\ pc'[p] \in Changed
    BY <1>1 DEF Running, Changed
  <2>2. QED BY <2>1
<1>8. QED BY <1>4, <1>5, <1>6, <1>7 DEF CInv, CountInv

\* Before an operation has changed the connectors, the count is right if it was
\* right when the operation began.
LEMMA GoodSoFar ==
    ASSUME CInv, NEW p \in Ops, pc[p] # "idle", pc[p] \notin Changed, exact
    PROVE  Good
BY Alone DEF CInv, CountInv

\* getChargePoint: what it finds is what the store holds, and an operation that
\* ends here ends with the count right.
LEMMA GetCounts ==
    ASSUME IInv, CInv, NEW p \in Ops, NEW from, NEW found, NEW missing,
           \/ from = "createGet" /\ found = "idle" /\ missing = "createPut"
           \/ from = "updateGet" /\ found = "updatePut" /\ missing = "idle"
           \/ from = "addGet" /\ found = "addList" /\ missing = "idle"
           \/ from = "removeGet" /\ found = "removeCount" /\ missing = "idle",
           Get(p, from, found, missing)
    PROVE  CInv'
<1> DEFINE step == IF chargePoint = None THEN missing ELSE found
<1>1. /\ pc[p] = from
      /\ Goes(p, step, chargePoint, rows[p], number[p])
      /\ UNCHANGED <<chargePoint, connectors, nextId, exact>>
  BY DEF Get, dbVars
<1>2. KeysAhead'
  BY <1>1, FewerKeys DEF CInv
<1>3. pc[p] # "idle" /\ step \in Steps
  BY <1>1 DEF Steps
<1>4. exact' \in BOOLEAN /\ (exact' => solo)
  BY <1>1, <1>3, Alone DEF CInv, LocalsOK
<1>5. step # "idle" /\ pc'[p] = step /\ got'[p] = chargePoint => Seen(p)'
  BY <1>1 DEF Seen
<1>6. exact' /\ chargePoint' = None => connectors' = {}
  BY <1>1 DEF CInv, CountInv
<1>7. exact' /\ step \notin Changed => Good'
  <2>1. CASE from = "removeGet"
    <3>1. step \notin Changed => chargePoint = None
      BY <2>1 DEF Changed
    <3>2. QED BY <1>1, <3>1 DEF CInv, CountInv, Good
  <2>2. CASE from # "removeGet"
    <3>1. from \notin Changed
      BY <2>2 DEF Changed
    <3>2. exact => Good
      BY <1>1, <1>3, <3>1, GoodSoFar
    <3>3. QED BY <1>1, <3>2 DEF Good
  <2>3. QED BY <2>1, <2>2
<1> HIDE DEF step
<1>8. QED BY <1>1, <1>2, <1>3, <1>4, <1>5, <1>6, <1>7, StepCounts

\* listConnectors.
LEMMA ListCounts ==
    ASSUME IInv, CInv, NEW p \in Ops, NEW from, NEW to,
           \/ from = "removeCount" /\ to = "removePut"
           \/ from = "cascadeList" /\ to = "cascade",
           List(p, from, to)
    PROVE  CInv'
<1>1. /\ pc[p] = from /\ pc[p] # "idle" /\ to \in Steps
      /\ Goes(p, to, None, connectors, number[p])
      /\ UNCHANGED <<chargePoint, connectors, nextId, exact>>
  BY DEF List, dbVars, Steps
<1>2. KeysAhead'
  BY <1>1, FewerKeys DEF CInv
<1>3. exact' \in BOOLEAN /\ (exact' => solo)
  BY <1>1, Alone DEF CInv, LocalsOK
<1>4. pc'[p] = to /\ rows'[p] = connectors => Seen(p)'
  BY <1>1 DEF Seen
<1>5. exact' /\ chargePoint' = None => connectors' = {}
  BY <1>1 DEF CInv, CountInv
<1>6. exact' /\ to \notin Changed => Good'
  <2>1. to \notin Changed => from \notin Changed
    BY DEF Changed
  <2>2. exact /\ to \notin Changed => Good
    BY <1>1, <2>1, GoodSoFar
  <2>3. QED BY <1>1, <2>2 DEF Good
<1>7. QED BY <1>1, <1>2, <1>3, <1>4, <1>5, <1>6, StepCounts

\* createConnector: the record it inserts is one more than those it has read.
LEMMA AddCounts ==
    ASSUME IInv, CInv, NEW p \in Ops, AddList(p) \/ AddInsert(p)
    PROVE  CInv'
<1> USE BrowserDbAssumption
<1>0. "addInsert" \in Steps /\ "addPut" \in Steps
  BY DEF Steps
<1>1. CASE AddList(p)
  <2>1. /\ pc[p] = "addList" /\ pc[p] # "idle"
        /\ Goes(p, "addInsert", got[p], connectors, FirstFree({c.number : c \in connectors}))
        /\ UNCHANGED <<chargePoint, connectors, nextId, exact>>
    BY <1>1 DEF AddList, dbVars
  <2>2. KeysAhead'
    BY <2>1, FewerKeys DEF CInv
  <2>3. exact' \in BOOLEAN /\ (exact' => solo) /\ (solo => chargePoint # None)
    BY <2>1, Alone DEF CInv, LocalsOK, Seen
  <2>4. solo /\ pc'[p] = "addInsert" /\ rows'[p] = connectors => Seen(p)'
    BY <2>1, <2>3 DEF Seen
  <2>5. exact' /\ chargePoint' = None => connectors' = {}
    BY <2>1 DEF CInv, CountInv
  <2>6. exact' => Good'
    BY <2>1, GoodSoFar DEF Changed, Good
  <2>7. QED BY <1>0, <2>1, <2>2, <2>3, <2>4, <2>5, <2>6, StepCounts
<1>2. CASE AddInsert(p)
  <2> DEFINE new == [id |-> nextId, number |-> number[p]]
  <2>1. /\ pc[p] = "addInsert" /\ pc[p] # "idle"
        /\ Goes(p, "addPut", got[p], rows[p], 0)
        /\ nextId <= MaxIds /\ nextId' = nextId + 1
        /\ connectors' = connectors \cup {new}
        /\ UNCHANGED <<chargePoint, exact>>
    BY <1>2 DEF AddInsert
  <2>2. /\ IsFiniteSet(connectors) /\ nextId \in 1 .. MaxIds + 1
        /\ \A c \in connectors : c.id \in Nat /\ c.id < nextId
    BY DEF CInv, KeysAhead
  <2>3. new.id = nextId /\ new \notin connectors
    BY <2>2
  <2> HIDE DEF new
  <2>4. IsFiniteSet(connectors') /\ Cardinality(connectors') = Cardinality(connectors) + 1
    BY <2>1, <2>2, <2>3, FS_AddElement
  <2>5. KeysAhead'
    <3>1. \A c \in connectors' : c.id \in Nat /\ c.id < nextId'
      BY <2>1, <2>2, <2>3
    <3>2. nextId' \in 1 .. MaxIds + 1
      BY <2>1, <2>2
    <3>3. QED BY <2>4, <3>1, <3>2 DEF KeysAhead
  <2>6. /\ exact' \in BOOLEAN /\ (exact' => solo)
        /\ solo => chargePoint # None /\ rows[p] = connectors
    BY <2>1, Alone DEF CInv, LocalsOK, Seen
  <2>7. solo /\ pc'[p] = "addPut" /\ rows'[p] = rows[p] => Seen(p)'
    BY <2>4, <2>6 DEF Seen
  <2>8. exact' /\ chargePoint' = None => connectors' = {}
    BY <2>1, <2>6
  <2>9. "addPut" \in Changed
    BY DEF Changed
  <2>10. QED BY <1>0, <2>1, <2>5, <2>6, <2>7, <2>8, <2>9, StepCounts
<1>3. QED BY <1>1, <1>2

\* The last transaction of an operation: the count it writes is the number of
\* connectors if it ran on its own, or if it counts nothing and the count was
\* right.
LEMMA PutCounts ==
    ASSUME IInv, CInv, NEW p \in Ops,
           \/ Put(p, "createPut", 0, FALSE) \/ Put(p, "updatePut", got[p], FALSE)
           \/ Put(p, "addPut", Cardinality(rows[p]) + 1, TRUE)
           \/ Put(p, "removePut", Cardinality(rows[p]), TRUE)
           \/ Cascade(p)
    PROVE  CInv'
<1> USE BrowserDbAssumption
<1>0. /\ Goes(p, "idle", got[p], rows[p], number[p]) /\ "idle" \in Steps
      /\ pc[p] # "idle" /\ nextId' = nextId /\ connectors' \in SUBSET connectors
  BY DEF Put, Cascade, Goto, Without, Steps
<1>1. KeysAhead' /\ IsFiniteSet(connectors)
  BY <1>0, FewerKeys DEF CInv, KeysAhead
<1>2. (exact => solo) /\ (solo => Seen(p)) /\ exact \in BOOLEAN
  BY <1>0, Alone DEF CInv, LocalsOK
<1>3. Cardinality(connectors) \in Nat
  BY <1>1, FS_CardinalityType
<1>4. /\ exact' \in BOOLEAN
      /\ exact' => solo
      /\ exact' => Good'
  <2>1. CASE Put(p, "createPut", 0, FALSE)
    <3>1. /\ pc[p] = "createPut" /\ chargePoint' = 0 /\ connectors' = connectors
          /\ exact' = exact
      BY <1>2, <2>1 DEF Put
    <3>2. exact => connectors = {}
      BY <1>2, <3>1 DEF Seen, CInv, CountInv
    <3>3. QED BY <1>2, <3>1, <3>2, FS_EmptySet DEF Good
  <2>2. CASE Put(p, "updatePut", got[p], FALSE)
    <3>1. /\ pc[p] = "updatePut" /\ chargePoint' = got[p] /\ connectors' = connectors
          /\ exact' = exact
      BY <1>2, <2>2 DEF Put
    <3>2. exact => Good /\ got[p] = chargePoint
      BY <1>0, <1>2, <3>1, GoodSoFar DEF Seen, Changed
    <3>3. QED BY <1>2, <3>1, <3>2 DEF Good
  <2>3. CASE Put(p, "addPut", Cardinality(rows[p]) + 1, TRUE)
    <3>1. /\ pc[p] = "addPut" /\ chargePoint' = Cardinality(rows[p]) + 1
          /\ connectors' = connectors /\ exact' = (exact \/ solo)
      BY <2>3 DEF Put
    <3>2. solo => chargePoint' = Cardinality(connectors)
      BY <1>2, <3>1 DEF Seen
    <3>3. solo \in BOOLEAN
      BY DEF CInv, LocalsOK
    <3>4. QED BY <1>2, <1>3, <3>1, <3>2, <3>3 DEF Good
  <2>4. CASE Put(p, "removePut", Cardinality(rows[p]), TRUE)
    <3>1. /\ pc[p] = "removePut" /\ chargePoint' = Cardinality(rows[p])
          /\ connectors' = connectors /\ exact' = (exact \/ solo)
      BY <2>4 DEF Put
    <3>2. solo => chargePoint' = Cardinality(connectors)
      BY <1>2, <3>1 DEF Seen
    <3>3. solo \in BOOLEAN
      BY DEF CInv, LocalsOK
    <3>4. QED BY <1>2, <1>3, <3>1, <3>2, <3>3 DEF Good
  <2>5. CASE Cascade(p)
    <3>1. /\ pc[p] = "cascade" /\ chargePoint' = None
          /\ connectors' = Without(rows[p]) /\ exact' = (exact \/ solo)
      BY <2>5 DEF Cascade
    <3>2. solo => connectors' = {}
      BY <1>2, <3>1 DEF Seen, Without
    <3>3. solo \in BOOLEAN
      BY DEF CInv, LocalsOK
    <3>4. QED BY <1>2, <3>1, <3>2, <3>3 DEF Good
  <2>6. QED BY <2>1, <2>2, <2>3, <2>4, <2>5
<1>5. exact' /\ chargePoint' = None => connectors' = {}
  BY <1>4 DEF Good
<1>6. QED BY <1>0, <1>1, <1>4, <1>5, StepCounts

\* deleteConnectorRecord up to its delete.
LEMMA RemoveCounts ==
    ASSUME IInv, CInv, NEW p \in Ops, RemoveList(p) \/ RemoveDelete(p)
    PROVE  CInv'
<1>0. {"idle", "removeDelete", "removeGet"} \subseteq Steps /\ "removeGet" \in Changed
  BY DEF Steps, Changed
<1>1. /\ pc[p] # "idle" /\ pc[p] \notin Changed
      /\ UNCHANGED <<chargePoint, nextId, exact>> /\ connectors' \in SUBSET connectors
  BY DEF RemoveList, RemoveDelete, dbVars, Without, Changed
<1>2. KeysAhead' /\ exact' \in BOOLEAN /\ (exact' => solo)
  BY <1>1, FewerKeys, Alone DEF CInv, LocalsOK
<1>3. exact' /\ chargePoint' = None => connectors' = {}
  BY <1>1 DEF CInv, CountInv
<1>4. exact => Good
  BY <1>1, GoodSoFar
<1>5. CASE RemoveList(p)
  <2>1. UNCHANGED connectors
    BY <1>5 DEF RemoveList, dbVars
  <2>2. exact' => Good'
    BY <1>1, <1>4, <2>1 DEF Good
  <2>3. ASSUME NEW step \in {"idle", "removeDelete"}, NEW records,
               Goes(p, step, got[p], records, number[p])
        PROVE  CInv'
    <3>1. step # "idle" /\ pc'[p] = step => Seen(p)'
      BY DEF Seen
    <3>2. QED BY <1>0, <1>1, <1>2, <1>3, <2>2, <2>3, <3>1, StepCounts
  <2>4. \/ Goes(p, "idle", got[p], rows[p], number[p])
        \/ \E c \in connectors : Goes(p, "removeDelete", got[p], {c}, number[p])
    BY <1>5 DEF RemoveList, Goto
  <2>5. QED BY <2>3, <2>4
<1>6. CASE RemoveDelete(p)
  <2>1. Goes(p, "removeGet", got[p], {}, 0)
    BY <1>6 DEF RemoveDelete
  <2>2. pc'[p] = "removeGet" => Seen(p)'
    BY DEF Seen
  <2>3. QED BY <1>0, <1>1, <1>2, <1>3, <2>1, <2>2, StepCounts
<1>7. QED BY <1>5, <1>6

\* An operation begins: on its own, or nothing is claimed until all are over.
LEMMA BeginCounts ==
    ASSUME IInv, CInv, NEW p \in Ops, NEW n,
           NEW step \in {"createGet", "updateGet", "addGet", "cascadeList", "removeList"},
           Begin(p, step, n)
    PROVE  CInv'
<1>1. /\ pc' = [pc EXCEPT ![p] = step] /\ pc[p] = "idle" /\ step # "idle"
      /\ solo' = (Running = {}) /\ exact' = (exact /\ Running = {})
      /\ UNCHANGED <<chargePoint, connectors, nextId, got, rows>>
  BY DEF Begin, dbVars
<1>2. Running' = Running \cup {p} /\ pc'[p] = step
  BY <1>1 DEF Running, IInv, Types
<1>3. KeysAhead' /\ LocalsOK'
  BY <1>1, FewerKeys DEF CInv, LocalsOK
<1>4. Seen(p)'
  BY <1>2 DEF Seen
<1>5. exact' => Good
  BY <1>1 DEF CInv, CountInv
<1>6. CountInv'
  <2>1. solo' => Running' = {p}
    BY <1>1, <1>2
  <2>2. exact' => solo' /\ Good'
    BY <1>1, <1>5 DEF Good
  <2>3. QED BY <1>4, <2>1, <2>2 DEF CountInv, Good
<1>7. QED BY <1>3, <1>6 DEF CInv

LEMMA CInvHolds == Spec => []CInv
<1>1. IInv /\ CInv /\ [Next]_vars => CInv'
  <2> SUFFICES ASSUME IInv, CInv, [Next]_vars PROVE CInv'
    OBVIOUS
  <2>1. ASSUME NEW p \in Ops, Step(p) PROVE CInv'
    <3>1. CASE Create(p) \/ Update(p)
      BY <3>1, GetCounts, PutCounts DEF Create, Update
    <3>2. CASE AddConnector(p)
      BY <3>2, GetCounts, AddCounts, PutCounts DEF AddConnector
    <3>3. CASE RemoveConnector(p)
      BY <3>3, GetCounts, ListCounts, RemoveCounts, PutCounts DEF RemoveConnector
    <3>4. CASE Remove(p)
      BY <3>4, ListCounts, PutCounts DEF Remove
    <3>5. QED BY <2>1, <3>1, <3>2, <3>3, <3>4 DEF Step
  <2>2. ASSUME NEW count, NEW records \in Files, Import(count, records) PROVE CInv'
    <3>1. KeysAhead'
      BY <2>2, ImportKeys DEF CInv
    <3>2. ~exact' /\ ~solo' /\ solo' \in BOOLEAN /\ exact' \in BOOLEAN /\ UNCHANGED localVars
      BY <2>2 DEF Import
    <3>3. QED BY <3>1, <3>2 DEF CInv, LocalsOK, CountInv, localVars
  <2>3. CASE Clear
    <3>1. KeysAhead'
      BY <2>3, FS_EmptySet, BrowserDbAssumption DEF Clear, KeysAhead
    <3>2. ~exact' /\ ~solo' /\ solo' \in BOOLEAN /\ exact' \in BOOLEAN /\ UNCHANGED localVars
      BY <2>3 DEF Clear
    <3>3. QED BY <3>1, <3>2 DEF CInv, LocalsOK, CountInv, localVars
  <2>4. CASE Reload
    <3>1. KeysAhead'
      BY <2>4, FewerKeys DEF Reload, dbVars, CInv
    <3>2. /\ ~exact' /\ ~solo' /\ solo' \in BOOLEAN /\ exact' \in BOOLEAN
          /\ DOMAIN got' = Ops /\ DOMAIN rows' = Ops
      BY <2>4 DEF Reload
    <3>3. QED BY <3>1, <3>2 DEF CInv, LocalsOK, CountInv
  <2>5. CASE UNCHANGED vars
    BY <2>5 DEF vars, dbVars, localVars, CInv, KeysAhead, LocalsOK, CountInv, Running, Seen, Good
  <2>6. QED BY <2>1, <2>2, <2>3, <2>4, <2>5, BeginCounts DEF Next
<1>2. QED BY InitCInv, IInvHolds, <1>1, PTL DEF Spec

\* connectorCount heals: once an operation that counts, or a deletion, has run on
\* its own, the count is the number of connectors until operations overlap, a
\* reload cuts one off or an import brings other records.
THEOREM CountHeals == Spec => []CountIsExact
<1>1. CInv => CountIsExact
  BY DEF CInv, CountInv, CountIsExact, Good
<1>2. QED BY CInvHolds, <1>1, PTL
=============================================================================
