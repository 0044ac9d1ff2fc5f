---------------------------- MODULE LiveLogProofs ----------------------------
(***************************************************************************)
(* Proofs about LiveLog, for any number of charge points and events and    *)
(* any limits: the stored log keeps the newest events and nothing beyond   *)
(* its limit, whatever stale lists the prunes under way work from, and the *)
(* live list has every event once and in order, whatever is loaded into it.*)
(***************************************************************************)
EXTENDS LiveLog, FiniteSetTheorems, SequenceTheorems, TLAPS

Progress == {"list", "failed", "prune", "done", "lost"}

Event == [cp : ChargePoints, time : Nat, key : Nat]

\* The order of the store is total: events of one millisecond have different
\* keys, those of a later one are later.
EventsOK ==
    /\ Len(event) \in 0 .. MaxEvents
    /\ event \in Seq(Event)
    /\ \A i \in Events : event[i].key \in {MaxEvents, MaxEvents + (i - 1), MaxEvents - (i - 1)}
    /\ \A i, j \in Events :
          i < j => /\ event[i].time <= event[j].time
                   /\ event[j].key = MaxEvents => event[i].time < event[j].time

\* Logs are events that were put, what a prune or a deletion is about to delete
\* too.
LogsOK ==
    /\ append \in Seq(Progress) /\ Len(append) = Len(event)
    /\ victims \in Seq(SUBSET Nat) /\ Len(victims) = Len(event)
    /\ DOMAIN doomed = ChargePoints
    /\ stored \subseteq {e \in Events : append[e] # "failed"}

\* The events other than d that are as new as d, of its charge point.
AsNew(d) == {f \in Put(event[d].cp) \ {d} : event[f].time >= event[d].time}

\* What a prune is about to delete, and what is gone without a deletion of the
\* charge point, was overtaken by MaxLogs others.
Overtaken(d) == Cardinality(AsNew(d)) >= MaxLogs

VictimsOvertaken ==
    \A e \in Events : \A d \in victims[e] : d \in Put(event[e].cp) /\ Overtaken(d)

GoneOvertaken ==
    \A d \in Events : append[d] # "failed" /\ d \notin stored \cup erased => Overtaken(d)

\* The prune of the last event leaves no more than MaxLogs, or has.
LastPrunes ==
    \A cp \in ChargePoints : \A e \in Put(cp) :
        (\A d \in Put(cp) : d <= e) =>
            /\ append[e] = "done" => Cardinality(Of(cp, stored)) <= MaxLogs
            /\ append[e] = "prune" => Cardinality(Of(cp, stored) \ victims[e]) <= MaxLogs

IInv == EventsOK /\ LogsOK /\ VictimsOvertaken /\ GoneOvertaken /\ LastPrunes

-----------------------------------------------------------------------------
(* The order of the store.                                                 *)

LEMMA EventTyped ==
    ASSUME EventsOK, NEW i \in Events
    PROVE  /\ event[i].cp \in ChargePoints
           /\ event[i].time \in Nat
           /\ event[i].key \in Nat
           /\ i \in Nat /\ i <= Len(event)
<1>1. event[i] \in Event /\ i \in Nat /\ i <= Len(event)
  BY DEF EventsOK, Events
<1>2. QED BY <1>1 DEF Event

LEMMA BeforeIsTotal ==
    ASSUME EventsOK, NEW d \in Events, NEW e \in Events, d # e
    PROVE  Before(d, e) \/ Before(e, d)
<1> USE LiveLogAssumption DEF Events
<1>1. ASSUME NEW i \in Events, NEW j \in Events, i < j PROVE Before(i, j) \/ Before(j, i)
  <2>1. /\ event[i].time \in Nat /\ event[i].key \in Nat
        /\ event[j].time \in Nat /\ event[j].key \in Nat
    BY EventTyped
  <2>2. /\ event[i].time <= event[j].time
        /\ event[j].key = MaxEvents => event[i].time < event[j].time
    BY <1>1 DEF EventsOK
  <2>3. event[i].time = event[j].time => event[i].key # event[j].key
    <3> SUFFICES ASSUME event[i].time = event[j].time PROVE event[i].key # event[j].key
      OBVIOUS
    <3>1. event[j].key # MaxEvents
      BY <2>1, <2>2
    <3>2. event[j].key \in {MaxEvents + (j - 1), MaxEvents - (j - 1)}
      BY <3>1 DEF EventsOK
    <3>3. event[i].key \in {MaxEvents, MaxEvents + (i - 1), MaxEvents - (i - 1)}
      BY DEF EventsOK
    <3>4. i \in Int /\ j \in Int /\ 1 <= i
      OBVIOUS
    <3>5. QED BY <1>1, <3>2, <3>3, <3>4
  <2>4. QED BY <2>1, <2>2, <2>3 DEF Before
<1>2. d < e \/ e < d
  OBVIOUS
<1>3. QED BY <1>1, <1>2

LEMMA BeforeIsStrict ==
    ASSUME EventsOK, NEW d \in Events, NEW e \in Events, NEW f \in Events
    PROVE  /\ ~Before(d, d)
           /\ Before(d, e) => event[d].time <= event[e].time
           /\ Before(d, e) /\ Before(e, f) => Before(d, f)
<1>1. \A i \in Events : event[i].time \in Nat /\ event[i].key \in Nat
  BY EventTyped
<1>2. QED BY <1>1 DEF Before

LEMMA EventsFinite ==
    ASSUME EventsOK, NEW S \in SUBSET Events
    PROVE  IsFiniteSet(S) /\ Cardinality(S) \in Nat
<1>0. Len(event) \in Int
  BY DEF EventsOK
<1>1. IsFiniteSet(Events)
  BY <1>0, FS_Interval DEF Events
<1>2. QED BY <1>1, FS_Subset, FS_CardinalityType

\* slice(-n) leaves at most n rows.
LEMMA NewestBounded ==
    ASSUME EventsOK, NEW rows \in SUBSET Events, NEW n \in Nat
    PROVE  Cardinality(Newest(rows, n)) <= n
<1> DEFINE after(e) == {d \in rows : Before(e, d)}
           N == Newest(rows, n)
           f == [e \in N |-> Cardinality(after(e))]
<1>1. \A e \in rows : after(e) \in SUBSET Events /\ IsFiniteSet(after(e))
                      /\ Cardinality(after(e)) \in Nat
  BY EventsFinite
<1>2. N \subseteq rows /\ \A e \in N : Cardinality(after(e)) < n
  BY DEF Newest
<1>3. ASSUME NEW d \in rows, NEW e \in rows, Before(d, e)
      PROVE  Cardinality(after(d)) # Cardinality(after(e))
  <2>1. after(e) \in SUBSET after(d)
    BY <1>3, BeforeIsStrict
  <2>2. e \in after(d) /\ e \notin after(e)
    BY <1>3, BeforeIsStrict
  <2> HIDE DEF after
  <2>3. QED BY <1>1, <2>1, <2>2, FS_Subset
<1> HIDE DEF after
<1>4. f \in Injection(N, 0 .. n - 1)
  <2>1. f \in [N -> 0 .. n - 1]
    BY <1>1, <1>2
  <2>2. ASSUME NEW d \in N, NEW e \in N, d # e PROVE f[d] # f[e]
    <3>1. Before(d, e) \/ Before(e, d)
      BY <1>2, <2>2, BeforeIsTotal
    <3>2. QED BY <1>2, <1>3, <3>1
  <2> HIDE DEF f
  <2>3. QED BY <2>1, <2>2 DEF Injection, IsInjective
<1>5. IsFiniteSet(0 .. n - 1) /\ Cardinality(0 .. n - 1) = n
  BY FS_Interval
<1> HIDE DEF N, f
<1>6. Cardinality(N) <= Cardinality(0 .. n - 1)
  BY <1>4, <1>5, FS_Injection
<1>7. QED BY <1>5, <1>6 DEF N

-----------------------------------------------------------------------------
(* Steps.                                                                  *)

LEMMA InitIInv == Init => IInv
<1> SUFFICES ASSUME Init PROVE IInv
  OBVIOUS
<1>1. Len(event) = 0 /\ Events = {}
  BY DEF Init, Events
<1>2. EventsOK
  BY <1>1, LiveLogAssumption DEF Init, EventsOK
<1>3. LogsOK
  BY <1>1 DEF Init, LogsOK
<1>4. QED
  BY <1>1, <1>2, <1>3
  DEF IInv, VictimsOvertaken, GoneOvertaken, LastPrunes, Put, Of

LEMMA PutTyped ==
    ASSUME NEW cp
    PROVE  Put(cp) = {e \in Events : event[e].cp = cp /\ append[e] # "failed"}
BY DEF Put, Of

\* While the events stay and none fails, what was overtaken is.
LEMMA StillOvertaken ==
    ASSUME UNCHANGED event, \A e \in Events : append'[e] = "failed" <=> append[e] = "failed",
           NEW cp, NEW d
    PROVE  /\ Put(cp)' = Put(cp)
           /\ Overtaken(d)' <=> Overtaken(d)
<1>1. \A c : Put(c)' = Put(c)
  BY DEF Put, Of, Events
<1>2. AsNew(d)' = AsNew(d)
  BY <1>1 DEF AsNew
<1>3. QED BY <1>1, <1>2 DEF Overtaken

\* A step that stores nothing, and takes nothing away but by a deletion or as
\* overtaken; a prune that ends or begins its deletes leaves MaxLogs rows.
LEMMA ShrinkingStep ==
    ASSUME IInv, UNCHANGED event,
           append' \in Seq(Progress), Len(append') = Len(event),
           victims' \in Seq(SUBSET Nat), Len(victims') = Len(event),
           DOMAIN doomed' = ChargePoints,
           \A e \in Events : append'[e] = "failed" <=> append[e] = "failed",
           stored' \in SUBSET stored,
           \A d \in stored \ stored' : d \in erased' \/ Overtaken(d),
           erased \subseteq erased',
           \A e \in Events : \A d \in victims'[e] : d \in Put(event[e].cp) /\ Overtaken(d),
           \A e \in Events :
               LET rows == Of(event[e].cp, stored)
                   left == Of(event[e].cp, stored')
               IN  /\ append'[e] = "done" =>
                          append[e] = "done" \/ Cardinality(left) <= MaxLogs
                             \/ (append[e] = "prune" /\ left \subseteq rows \ victims[e])
                   /\ append'[e] = "prune" =>
                          \/ append[e] = "prune" /\ victims'[e] = victims[e]
                          \/ Cardinality(left \ victims'[e]) <= MaxLogs
    PROVE  IInv'
<1>0. Events' = Events /\ EventsOK
  BY DEF Events, IInv
<1>1. EventsOK'
  BY <1>0 DEF EventsOK
<1>2. LogsOK'
  BY <1>0 DEF IInv, LogsOK
<1>3. VictimsOvertaken'
  BY <1>0, StillOvertaken DEF VictimsOvertaken
<1>4. GoneOvertaken'
  BY <1>0, StillOvertaken DEF IInv, GoneOvertaken
<1>5. LastPrunes'
  <2> SUFFICES ASSUME NEW cp \in ChargePoints, NEW e \in Put(cp), \A d \in Put(cp) : d <= e
               PROVE  /\ append'[e] = "done" => Cardinality(Of(cp, stored)') <= MaxLogs
                      /\ append'[e] = "prune" =>
                            Cardinality(Of(cp, stored)' \ victims'[e]) <= MaxLogs
    BY StillOvertaken DEF LastPrunes
  <2> DEFINE rows == Of(cp, stored)
             left == Of(cp, stored')
  <2>1. e \in Events /\ event[e].cp = cp
    BY DEF Put, Of
  <2>2. /\ append[e] = "done" => Cardinality(rows) <= MaxLogs
        /\ append[e] = "prune" => Cardinality(rows \ victims[e]) <= MaxLogs
    BY DEF IInv, LastPrunes
  <2>3. left \subseteq rows /\ rows \in SUBSET Events /\ Of(cp, stored)' = left
    BY DEF Of, IInv, LogsOK
  <2>4. /\ append'[e] = "done" =>
              append[e] = "done" \/ Cardinality(left) <= MaxLogs
                 \/ (append[e] = "prune" /\ left \subseteq rows \ victims[e])
        /\ append'[e] = "prune" =>
              \/ append[e] = "prune" /\ victims'[e] = victims[e]
              \/ Cardinality(left \ victims'[e]) <= MaxLogs
    BY <2>1
  <2> HIDE DEF rows, left
  <2>5. ASSUME NEW S \in SUBSET rows, NEW T \in SUBSET S, Cardinality(S) <= MaxLogs
        PROVE  Cardinality(T) <= MaxLogs
    <3>1. IsFiniteSet(S) /\ Cardinality(S) \in Nat /\ Cardinality(T) \in Nat
      BY <1>0, <2>3, EventsFinite
    <3>2. Cardinality(T) <= Cardinality(S)
      BY <3>1, FS_Subset
    <3>3. QED BY <2>5, <3>1, <3>2, LiveLogAssumption
  <2>6. append'[e] = "done" => Cardinality(left) <= MaxLogs
    BY <2>2, <2>3, <2>4, <2>5
  <2>7. append'[e] = "prune" => Cardinality(left \ victims'[e]) <= MaxLogs
    <3> SUFFICES ASSUME append[e] = "prune", victims'[e] = victims[e]
                 PROVE  Cardinality(left \ victims[e]) <= MaxLogs
      BY <2>4
    <3>1. rows \ victims[e] \in SUBSET rows /\ left \ victims[e] \in SUBSET (rows \ victims[e])
      BY <2>3
    <3>2. QED BY <2>2, <2>5, <3>1
  <2>8. QED BY <2>3, <2>6, <2>7
<1>6. QED BY <1>1, <1>2, <1>3, <1>4, <1>5 DEF IInv

\* Steps of loads, and the read of a deletion: the log stays.
LEMMA QuietStep ==
    ASSUME IInv, UNCHANGED <<event, stored, erased, append, victims>>,
           DOMAIN doomed' = ChargePoints
    PROVE  IInv'
<1>1. /\ append \in Seq(Progress) /\ Len(append) = Len(event)
      /\ victims \in Seq(SUBSET Nat) /\ Len(victims) = Len(event)
      /\ \A e \in Events : \A d \in victims[e] : d \in Put(event[e].cp) /\ Overtaken(d)
  BY DEF IInv, LogsOK, VictimsOvertaken
<1>2. QED BY <1>1, ShrinkingStep

\* pruneOldLogs reads: every victim has MaxLogs rows after it.
LEMMA PruneListKeeps ==
    ASSUME IInv, NEW e \in Events, PruneList(e)
    PROVE  IInv'
<1> DEFINE rows == Of(event[e].cp, stored)
           gone == rows \ Newest(rows, MaxLogs)
<1>0. /\ EventsOK /\ append \in Seq(Progress) /\ Len(append) = Len(event)
      /\ victims \in Seq(SUBSET Nat) /\ Len(victims) = Len(event)
      /\ MaxLogs \in Nat /\ DOMAIN doomed = ChargePoints
  BY LiveLogAssumption DEF IInv, LogsOK
<1>1. rows \in SUBSET Events /\ rows \subseteq Put(event[e].cp)
  BY DEF Of, IInv, LogsOK, Put
<1>2. /\ append[e] = "list"
      /\ victims' = [victims EXCEPT ![e] = gone]
      /\ append' = [append EXCEPT ![e] = IF victims'[e] = {} THEN "done" ELSE "prune"]
      /\ UNCHANGED <<event, stored, erased, doomed>>
  BY DEF PruneList, dbVars, deleteVars
<1>3. ASSUME NEW d \in gone PROVE Overtaken(d)
  <2> DEFINE after == {f \in rows : Before(d, f)}
  <2>1. d \in Events /\ after \in SUBSET Events /\ ~(Cardinality(after) < MaxLogs)
    BY <1>1 DEF Newest
  <2>2. event[d].cp = event[e].cp
    BY DEF Of
  <2>3. after \subseteq AsNew(d)
    <3> SUFFICES ASSUME NEW f \in after PROVE f \in AsNew(d)
      OBVIOUS
    <3>1. f \in Events /\ f \in Put(event[d].cp) /\ Before(d, f)
      BY <1>1, <2>2
    <3>2. f # d /\ event[d].time <= event[f].time
      BY <1>0, <2>1, <3>1, BeforeIsStrict
    <3>3. event[d].time \in Nat /\ event[f].time \in Nat
      BY <1>0, <2>1, <3>1, EventTyped
    <3>4. QED BY <3>1, <3>2, <3>3 DEF AsNew
  <2>4. AsNew(d) \in SUBSET Events
    BY DEF AsNew, Put, Of
  <2> HIDE DEF after
  <2>5. /\ IsFiniteSet(AsNew(d)) /\ Cardinality(AsNew(d)) \in Nat
        /\ Cardinality(after) \in Nat /\ Cardinality(after) <= Cardinality(AsNew(d))
    BY <1>0, <2>1, <2>3, <2>4, EventsFinite, FS_Subset
  <2>6. QED BY <1>0, <2>1, <2>5 DEF Overtaken
<1>4. gone \in SUBSET Nat
  BY <1>0, <1>1, EventTyped
<1>5. rows \ gone = Newest(rows, MaxLogs) /\ Cardinality(rows \ gone) <= MaxLogs
  <2>1. rows \ gone = Newest(rows, MaxLogs)
    BY DEF Newest
  <2>2. Cardinality(Newest(rows, MaxLogs)) <= MaxLogs
    BY <1>0, <1>1, NewestBounded
  <2>3. QED BY <2>1, <2>2
<1>6. gone \subseteq Put(event[e].cp)
  BY <1>1
<1>r. rows = Of(event[e].cp, stored)
  OBVIOUS
<1> HIDE DEF rows, gone
<1>7. \A d \in Events : /\ victims'[d] = IF d = e THEN gone ELSE victims[d]
                        /\ append'[d] = IF d = e THEN IF gone = {} THEN "done" ELSE "prune"
                                        ELSE append[d]
  BY <1>0, <1>2 DEF Events
<1>8. /\ append' \in Seq(Progress) /\ Len(append') = Len(event)
      /\ victims' \in Seq(SUBSET Nat) /\ Len(victims') = Len(event)
  <2>1. /\ e \in 1 .. Len(append) /\ e \in 1 .. Len(victims)
        /\ (IF victims'[e] = {} THEN "done" ELSE "prune") \in Progress
    BY <1>0 DEF Events, Progress
  <2>2. QED BY <1>0, <1>2, <1>4, <2>1, ExceptSeq
<1>9. \A d \in Events : \A v \in victims'[d] : v \in Put(event[d].cp) /\ Overtaken(v)
  BY <1>3, <1>6, <1>7 DEF IInv, VictimsOvertaken
<1>10. \A d \in Events : append'[d] = "failed" <=> append[d] = "failed"
  BY <1>2, <1>7
<1>11. \A d \in Events :
           LET all  == Of(event[d].cp, stored)
               left == Of(event[d].cp, stored')
           IN  /\ append'[d] = "done" =>
                      append[d] = "done" \/ Cardinality(left) <= MaxLogs
                         \/ (append[d] = "prune" /\ left \subseteq all \ victims[d])
               /\ append'[d] = "prune" =>
                      \/ append[d] = "prune" /\ victims'[d] = victims[d]
                      \/ Cardinality(left \ victims'[d]) <= MaxLogs
  <2> SUFFICES ASSUME NEW d \in Events
               PROVE  /\ append'[d] = "done" =>
                            append[d] = "done" \/ Cardinality(Of(event[d].cp, stored)) <= MaxLogs
                      /\ append'[d] = "prune" =>
                            \/ append[d] = "prune" /\ victims'[d] = victims[d]
                            \/ Cardinality(Of(event[d].cp, stored) \ victims'[d]) <= MaxLogs
    BY <1>2
  <2>1. CASE d # e
    BY <1>7, <2>1
  <2>2. CASE d = e
    <3>1. gone = {} => rows \ gone = rows
      OBVIOUS
    <3>2. QED BY <1>5, <1>7, <1>r, <2>2, <3>1
  <2>3. QED BY <2>1, <2>2
<1>12. QED BY <1>0, <1>2, <1>8, <1>9, <1>10, <1>11, ShrinkingStep

\* pruneOldLogs deletes what it has read, however old the list is by now.
LEMMA PruneDeleteKeeps ==
    ASSUME IInv, NEW e \in Events, PruneDelete(e)
    PROVE  IInv'
<1>0. /\ append \in Seq(Progress) /\ Len(append) = Len(event)
      /\ victims \in Seq(SUBSET Nat) /\ Len(victims) = Len(event)
      /\ DOMAIN doomed = ChargePoints
  BY DEF IInv, LogsOK
<1>1. /\ append[e] = "prune" /\ stored' = stored \ victims[e]
      /\ victims' = [victims EXCEPT ![e] = {}]
      /\ append' = [append EXCEPT ![e] = "done"]
      /\ UNCHANGED <<event, erased, doomed>>
  BY DEF PruneDelete, deleteVars
<1>2. \A d \in Events : /\ victims'[d] = IF d = e THEN {} ELSE victims[d]
                        /\ append'[d] = IF d = e THEN "done" ELSE append[d]
  BY <1>0, <1>1 DEF Events
<1>3. /\ append' \in Seq(Progress) /\ Len(append') = Len(event)
      /\ victims' \in Seq(SUBSET Nat) /\ Len(victims') = Len(event)
  <2>1. e \in 1 .. Len(append) /\ e \in 1 .. Len(victims) /\ "done" \in Progress
    BY <1>0 DEF Events, Progress
  <2>2. QED BY <1>0, <1>1, <2>1, ExceptSeq
<1>4. \A d \in stored \ stored' : Overtaken(d)
  BY <1>1 DEF IInv, VictimsOvertaken
<1>5. \A d \in Events : \A v \in victims'[d] : v \in Put(event[d].cp) /\ Overtaken(v)
  BY <1>2 DEF IInv, VictimsOvertaken
<1>6. \A d \in Events : append'[d] = "failed" <=> append[d] = "failed"
  BY <1>1, <1>2
<1>7. \A d \in Events :
          LET all  == Of(event[d].cp, stored)
              left == Of(event[d].cp, stored')
          IN  /\ append'[d] = "done" =>
                     append[d] = "done" \/ Cardinality(left) <= MaxLogs
                        \/ (append[d] = "prune" /\ left \subseteq all \ victims[d])
              /\ append'[d] = "prune" =>
                     \/ append[d] = "prune" /\ victims'[d] = victims[d]
                     \/ Cardinality(left \ victims'[d]) <= MaxLogs
  <2>1. Of(event[e].cp, stored') \subseteq Of(event[e].cp, stored) \ victims[e]
    BY <1>1 DEF Of
  <2>2. QED BY <1>1, <1>2, <2>1
<1>8. stored' \in SUBSET stored
  BY <1>1
<1>9. QED BY <1>0, <1>1, <1>3, <1>4, <1>5, <1>6, <1>7, <1>8, ShrinkingStep

\* deleteChargePointCascade takes what it has read.
LEMMA DeleteKeeps ==
    ASSUME IInv, NEW cp \in ChargePoints, Delete(cp)
    PROVE  IInv'
<1>0. /\ append \in Seq(Progress) /\ Len(append) = Len(event)
      /\ victims \in Seq(SUBSET Nat) /\ Len(victims) = Len(event)
      /\ \A e \in Events : \A d \in victims[e] : d \in Put(event[e].cp) /\ Overtaken(d)
      /\ DOMAIN doomed = ChargePoints
  BY DEF IInv, LogsOK, VictimsOvertaken
<1>1. /\ stored' = stored \ doomed[cp] /\ erased' = erased \cup doomed[cp]
      /\ doomed' = [doomed EXCEPT ![cp] = {}]
      /\ UNCHANGED <<event, append, victims>>
  BY DEF Delete, appendVars
<1>2. /\ stored' \in SUBSET stored /\ erased \subseteq erased'
      /\ \A d \in stored \ stored' : d \in erased'
      /\ DOMAIN doomed' = ChargePoints
  BY <1>0, <1>1
<1>3. QED BY <1>0, <1>1, <1>2, ShrinkingStep

\* A page that starts anew has no prune under way; clearBrowserDb has taken
\* everything.
LEMMA PageStartKeeps ==
    ASSUME IInv, Reload \/ Clear
    PROVE  IInv'
<1>0. append \in Seq(Progress) /\ Len(append) = Len(event) /\ Len(event) \in Nat
  BY DEF IInv, LogsOK, EventsOK
<1>1. /\ append' = [e \in Events |->
                       IF append[e] \in {"list", "prune"} THEN "lost" ELSE append[e]]
      /\ victims' = [e \in Events |-> {}]
      /\ UNCHANGED event /\ DOMAIN doomed' = ChargePoints
  BY DEF Reload, Clear, PageStarts
<1>2. /\ append' \in Seq(Progress) /\ Len(append') = Len(event)
      /\ victims' \in Seq(SUBSET Nat) /\ Len(victims') = Len(event)
  BY <1>0, <1>1 DEF Progress, Events
<1>3. \A e \in Events : /\ append'[e] = "failed" <=> append[e] = "failed"
                        /\ append'[e] = "done" => append[e] = "done"
                        /\ append'[e] # "prune"
                        /\ victims'[e] = {}
  BY <1>1
<1>4. /\ stored' \in SUBSET stored /\ erased \subseteq erased'
      /\ \A d \in stored \ stored' : d \in erased'
  BY DEF Reload, Clear, dbVars
<1>5. QED BY <1>1, <1>2, <1>3, <1>4, ShrinkingStep

\* A new event: its key keeps the order total, and it makes others older.
LEMMA AppendEventKeeps ==
    ASSUME IInv, NEW cp \in ChargePoints, NEW new \in NewEvent(cp), NEW ok \in BOOLEAN,
           AppendEvent(cp, new, ok)
    PROVE  IInv'
<1> USE LiveLogAssumption
<1> DEFINE n == Len(event)
           e == n + 1
<1>0. /\ EventsOK /\ n \in Nat /\ event \in Seq(Event)
      /\ append \in Seq(Progress) /\ Len(append) = n
      /\ victims \in Seq(SUBSET Nat) /\ Len(victims) = n
      /\ stored \subseteq {d \in Events : append[d] # "failed"}
  BY DEF IInv, EventsOK, LogsOK
<1>1. /\ e <= MaxEvents /\ event' = Append(event, new)
      /\ stored' = IF ok THEN stored \cup {e} ELSE stored
      /\ append' = Append(append, IF ok THEN "list" ELSE "failed")
      /\ victims' = Append(victims, {})
      /\ UNCHANGED <<erased, doomed>>
  BY DEF AppendEvent, deleteVars
<1>2. /\ Events' = Events \cup {e} /\ e \notin Events /\ Len(event') = e
      /\ \A i \in Events : i < e
      /\ \A i \in Events : event'[i] = event[i] /\ append'[i] = append[i] /\ victims'[i] = victims[i]
      /\ event'[e] = new /\ append'[e] = (IF ok THEN "list" ELSE "failed") /\ victims'[e] = {}
  BY <1>0, <1>1 DEF Events
<1>3. /\ new.cp = cp /\ new.time \in Nat /\ new.key \in Nat /\ new \in Event
      /\ new.key \in {MaxEvents, MaxEvents + n, MaxEvents - n}
      /\ \A i \in Events : event[i].time <= new.time
      /\ new.key = MaxEvents => \A i \in Events : event[i].time < new.time
  <2>1. CASE n = 0
    <3>1. new = [cp |-> cp, time |-> 1, key |-> MaxEvents]
      BY <2>1 DEF NewEvent
    <3>2. Events = {}
      BY <2>1 DEF Events
    <3>3. QED BY <3>1, <3>2 DEF Event
  <2>2. CASE n # 0
    <3>1. n \in Events /\ Last(event) = event[n]
      BY <1>0, <2>2 DEF Events, Last
    <3>2. event[n].time \in Nat
      BY <1>0, <3>1, EventTyped
    <3>3. PICK t \in {event[n].time, event[n].time + 1}, k \in Int :
              /\ new = [cp |-> cp, time |-> t, key |-> k]
              /\ \/ t = event[n].time + 1 /\ k = MaxEvents
                 \/ t = event[n].time /\ (k = MaxEvents + n \/ k = MaxEvents - n)
      BY <1>0, <2>2, <3>1 DEF NewEvent
    <3>4. new.cp = cp /\ new.time = t /\ new.key = k /\ k \in Nat
      BY <1>0, <1>1, <3>3
    <3>5. new \in Event
      BY <3>2, <3>3, <3>4 DEF Event
    <3>6. \A i \in Events : event[i].time \in Nat /\ event[i].time <= event[n].time
      <4> SUFFICES ASSUME NEW i \in Events
                   PROVE  event[i].time \in Nat /\ event[i].time <= event[n].time
        OBVIOUS
      <4>1. event[i].time \in Nat /\ i \in Nat /\ i <= n
        BY <1>0, EventTyped
      <4>2. i < n => event[i].time <= event[n].time
        BY <1>0, <3>1 DEF EventsOK
      <4>3. QED BY <1>0, <3>2, <4>1, <4>2
    <3>7. QED BY <1>0, <2>2, <3>2, <3>3, <3>4, <3>5, <3>6
  <2>3. QED BY <2>1, <2>2
<1> HIDE DEF e
<1>e. e = n + 1 /\ e \in Nat
  BY <1>0 DEF e
<1> HIDE DEF n
<1>4. EventsOK'
  <2>1. Len(event') \in 0 .. MaxEvents /\ event' \in Seq(Event)
    BY <1>0, <1>1, <1>2, <1>3, <1>e
  <2>2. \A i \in Events' : event'[i].key \in {MaxEvents, MaxEvents + (i - 1), MaxEvents - (i - 1)}
    <3>1. e - 1 = n
      BY <1>0, <1>e
    <3>2. QED BY <1>2, <1>3, <3>1 DEF IInv, EventsOK
  <2>3. ASSUME NEW i \in Events', NEW j \in Events', i < j
        PROVE  /\ event'[i].time <= event'[j].time
               /\ event'[j].key = MaxEvents => event'[i].time < event'[j].time
    <3>1. i \in Events
      <4>1. j \in Nat /\ j <= e
        BY <1>0, <1>2, <1>e, EventTyped
      <4>2. QED BY <1>2, <1>e, <2>3, <4>1
    <3>2. CASE j \in Events
      BY <1>2, <2>3, <3>1, <3>2 DEF IInv, EventsOK
    <3>3. CASE j = e
      BY <1>2, <1>3, <3>1, <3>3
    <3>4. QED BY <1>2, <3>2, <3>3
  <2>4. QED BY <2>1, <2>2, <2>3 DEF EventsOK
<1>5. LogsOK'
  <2>1. /\ append' \in Seq(Progress) /\ Len(append') = Len(event')
        /\ victims' \in Seq(SUBSET Nat) /\ Len(victims') = Len(event')
    <3>1. (IF ok THEN "list" ELSE "failed") \in Progress /\ {} \in SUBSET Nat
      BY DEF Progress
    <3>2. QED BY <1>0, <1>1, <1>2, <1>e, <3>1
  <2>2. stored' \subseteq {d \in Events' : append'[d] # "failed"}
    BY <1>0, <1>1, <1>2
  <2>3. QED BY <1>1, <2>1, <2>2 DEF IInv, LogsOK
<1>6. \A c : Put(c)' = IF ok /\ c = cp THEN Put(c) \cup {e} ELSE Put(c)
  <2>1. \A c : Put(c) = {d \in Events : event[d].cp = c /\ append[d] # "failed"}
    BY PutTyped
  <2>2. \A c : Put(c)' = {d \in Events' : event'[d].cp = c /\ append'[d] # "failed"}
    BY DEF Put, Of
  <2>3. QED BY <1>2, <1>3, <2>1, <2>2
<1>7. ASSUME NEW d \in Events, Overtaken(d) PROVE Overtaken(d)'
  <2>1. AsNew(d) \in SUBSET AsNew(d)'
    <3> SUFFICES ASSUME NEW f \in AsNew(d) PROVE f \in AsNew(d)'
      OBVIOUS
    <3>1. f \in Events /\ f \in Put(event[d].cp) /\ f # d /\ event[f].time >= event[d].time
      BY DEF AsNew, Put, Of
    <3>2. QED BY <1>2, <1>6, <3>1 DEF AsNew
  <2>2. AsNew(d)' \in SUBSET Events'
    BY DEF AsNew, Put, Of
  <2>3. IsFiniteSet(AsNew(d)') /\ Cardinality(AsNew(d)') \in Nat
    <3>1. Len(event') \in Int
      BY <1>2, <1>e
    <3>2. IsFiniteSet(Events')
      BY <3>1, FS_Interval DEF Events
    <3>3. QED BY <2>2, <3>2, FS_Subset, FS_CardinalityType
  <2>4. Cardinality(AsNew(d)) <= Cardinality(AsNew(d)') /\ Cardinality(AsNew(d)) \in Nat
    BY <2>1, <2>3, FS_Subset, FS_CardinalityType
  <2>5. QED BY <1>7, <2>3, <2>4 DEF Overtaken
<1>8. VictimsOvertaken'
  <2> SUFFICES ASSUME NEW i \in Events', NEW d \in victims'[i]
               PROVE  (d \in Put(event[i].cp) /\ Overtaken(d))'
    BY DEF VictimsOvertaken
  <2>1. i \in Events /\ d \in victims[i] /\ event'[i] = event[i]
    BY <1>2
  <2>2. d \in Put(event[i].cp) /\ d \in Events /\ Overtaken(d)
    BY <2>1 DEF IInv, VictimsOvertaken, Put, Of
  <2>3. d \in Events' /\ event'[d] = event[d] /\ append'[d] = append[d]
    BY <1>2, <2>2
  <2>4. event[d].cp = event[i].cp /\ append[d] # "failed"
    BY <2>2 DEF Put, Of
  <2>5. (d \in Put(event[i].cp))'
    BY <2>1, <2>3, <2>4 DEF Put, Of
  <2>6. QED BY <1>7, <2>2, <2>5
<1>9. GoneOvertaken'
  <2> SUFFICES ASSUME NEW d \in Events', append'[d] # "failed", d \notin stored' \cup erased'
               PROVE  Overtaken(d)'
    BY DEF GoneOvertaken
  <2>1. d \in Events
    BY <1>1, <1>2
  <2>2. append[d] # "failed" /\ d \notin stored \cup erased
    BY <1>1, <1>2, <2>1
  <2>3. QED BY <1>7, <2>1, <2>2 DEF IInv, GoneOvertaken
<1>10. LastPrunes'
  <2> SUFFICES ASSUME NEW c \in ChargePoints, NEW i \in Put(c)', \A d \in Put(c)' : d <= i
               PROVE  /\ append'[i] = "done" => Cardinality(Of(c, stored)') <= MaxLogs
                      /\ append'[i] = "prune" => Cardinality(Of(c, stored)' \ victims'[i]) <= MaxLogs
    BY DEF LastPrunes
  <2>1. CASE i = e
    BY <1>2, <2>1
  <2>2. CASE i # e
    <3>1. ~(ok /\ c = cp)
      <4> SUFFICES ASSUME ok, c = cp PROVE FALSE
        OBVIOUS
      <4>1. e <= i /\ i \in Events
        BY <1>6, <2>2 DEF Put, Of
      <4>2. i \in Nat
        BY <1>0, <4>1, EventTyped
      <4>3. QED BY <1>2, <1>e, <4>1, <4>2
    <3>2. Put(c)' = Put(c) /\ i \in Put(c) /\ i \in Events
      BY <1>6, <3>1 DEF Put, Of
    <3>3. Of(c, stored)' = Of(c, stored)
      BY <1>0, <1>1, <1>2, <1>3, <3>1 DEF Of
    <3>4. QED BY <1>2, <3>2, <3>3 DEF IInv, LastPrunes
  <2>3. QED BY <2>1, <2>2
<1>11. QED BY <1>4, <1>5, <1>8, <1>9, <1>10 DEF IInv

-----------------------------------------------------------------------------
LEMMA IInvHolds == Spec => []IInv
<1>1. IInv /\ [Next]_vars => IInv'
  <2> SUFFICES ASSUME IInv, [Next]_vars PROVE IInv'
    OBVIOUS
  <2>0. DOMAIN doomed = ChargePoints
    BY DEF IInv, LogsOK
  <2>1. ASSUME NEW cp \in ChargePoints, Load(cp) \/ DeleteList(cp) PROVE IInv'
    <3>1. /\ UNCHANGED <<event, stored, erased, append, victims>>
          /\ DOMAIN doomed' = ChargePoints
      BY <2>0, <2>1
      DEF Load, LoadList, LoadReplace, DeleteList, dbVars, appendVars, deleteVars
    <3>2. QED BY <3>1, QuietStep
  <2>2. CASE UNCHANGED vars
    <3>1. UNCHANGED <<event, stored, erased, append, victims, doomed>>
      BY <2>2 DEF vars, dbVars, appendVars, deleteVars
    <3>2. QED BY <2>0, <3>1, QuietStep
  <2>3. QED
    BY <2>1, <2>2, AppendEventKeeps, PruneListKeeps, PruneDeleteKeeps, DeleteKeeps,
       PageStartKeeps
    DEF Next
<1>2. QED BY InitIInv, <1>1, PTL DEF Spec

\* Prunes that overlap, or are cut off by a reload, never cost a charge point one
\* of its newest MaxLogs events, and the prune of the last event brings the log
\* down to MaxLogs.
THEOREM NewestKeptHolds == Spec => []NewestKept
<1>1. IInv => NewestKept
  <2> SUFFICES ASSUME IInv, NEW cp \in ChargePoints, NEW e \in Put(cp),
                      append[e] = "done", \A d \in Put(cp) : d <= e
               PROVE  /\ Cardinality(Of(cp, stored)) <= MaxLogs
                      /\ \A d \in Put(cp) \ erased :
                            Cardinality({f \in Put(cp) \ {d} : event[f].time >= event[d].time})
                                < MaxLogs => d \in stored
    BY DEF NewestKept
  <2>1. Cardinality(Of(cp, stored)) <= MaxLogs
    BY DEF IInv, LastPrunes
  <2>2. ASSUME NEW d \in Put(cp) \ erased, d \notin stored
        PROVE  ~(Cardinality({f \in Put(cp) \ {d} : event[f].time >= event[d].time}) < MaxLogs)
    <3>1. d \in Events /\ event[d].cp = cp /\ append[d] # "failed"
      BY DEF Put, Of
    <3>2. Overtaken(d)
      BY <2>2, <3>1 DEF IInv, GoneOvertaken
    <3>3. AsNew(d) = {f \in Put(cp) \ {d} : event[f].time >= event[d].time}
      BY <3>1 DEF AsNew
    <3>4. AsNew(d) \in SUBSET Events
      BY DEF AsNew, Put, Of
    <3>5. Cardinality(AsNew(d)) \in Nat
      BY <3>4, EventsFinite DEF IInv
    <3>6. QED BY <3>2, <3>3, <3>5, LiveLogAssumption DEF Overtaken
  <2>3. QED BY <2>1, <2>2
<1>2. QED BY IInvHolds, <1>1, PTL

-----------------------------------------------------------------------------
(* The live list.                                                          *)

\* In a finite set with a strict total order every rank is taken, and the ranks
\* are in the order of the members.
LEMMA Ranks ==
    ASSUME NEW S, IsFiniteSet(S), NEW R,
           \A x \in S : <<x, x>> \notin R,
           \A x, y \in S : x # y => <<x, y>> \in R \/ <<y, x>> \in R,
           \A x, y, z \in S : <<x, y>> \in R /\ <<y, z>> \in R => <<x, z>> \in R
    PROVE  /\ \A k \in 0 .. Cardinality(S) - 1 :
                 \E x \in S : Cardinality({y \in S : <<y, x>> \in R}) = k
           /\ \A x, y \in S :
                 Cardinality({z \in S : <<z, x>> \in R}) < Cardinality({z \in S : <<z, y>> \in R})
                     => <<x, y>> \in R
<1> DEFINE below(x) == {y \in S : <<y, x>> \in R}
           N == Cardinality(S)
           rank == [x \in S |-> Cardinality(below(x))]
<1>1. N \in Nat
  BY FS_CardinalityType
<1>2. ASSUME NEW x \in S
      PROVE  IsFiniteSet(below(x)) /\ Cardinality(below(x)) \in 0 .. N - 1
  <2>1. below(x) \in SUBSET S /\ below(x) # S
    OBVIOUS
  <2> HIDE DEF below
  <2>2. /\ IsFiniteSet(below(x)) /\ Cardinality(below(x)) <= N
        /\ N = Cardinality(below(x)) => S = below(x)
    BY <2>1, FS_Subset
  <2>3. Cardinality(below(x)) \in Nat
    BY <2>2, FS_CardinalityType
  <2>4. QED BY <1>1, <2>1, <2>2, <2>3
<1>3. ASSUME NEW x \in S, NEW y \in S, <<x, y>> \in R
      PROVE  Cardinality(below(x)) < Cardinality(below(y))
  <2>1. below(x) \in SUBSET below(y) /\ x \in below(y) /\ x \notin below(x)
    BY <1>3
  <2> HIDE DEF below
  <2>2. /\ Cardinality(below(x)) <= Cardinality(below(y))
        /\ Cardinality(below(y)) # Cardinality(below(x))
    BY <1>2, <2>1, FS_Subset
  <2>3. QED BY <1>1, <1>2, <2>2
<1> HIDE DEF below
<1>4. rank \in Injection(S, 0 .. N - 1)
  <2>1. rank \in [S -> 0 .. N - 1]
    BY <1>2
  <2>2. ASSUME NEW x \in S, NEW y \in S, x # y PROVE rank[x] # rank[y]
    <3>1. /\ Cardinality(below(x)) \in Int /\ Cardinality(below(y)) \in Int
          /\ Cardinality(below(x)) < Cardinality(below(y)) \/ Cardinality(below(y)) < Cardinality(below(x))
      <4>1. <<x, y>> \in R \/ <<y, x>> \in R
        BY <2>2
      <4>2. QED BY <1>2, <1>3, <4>1
    <3>2. QED BY <3>1
  <2> HIDE DEF rank
  <2>3. QED BY <2>1, <2>2 DEF Injection, IsInjective
<1>5. IsFiniteSet(0 .. N - 1) /\ Cardinality(0 .. N - 1) = N
  <2> HIDE DEF N
  <2>1. 0 \in Int /\ N - 1 \in Int
    BY <1>1
  <2>2. QED BY <1>1, <2>1, FS_Interval
<1>6. rank \in Surjection(S, 0 .. N - 1)
  <2> HIDE DEF rank, N
  <2>1. Cardinality(S) = Cardinality(0 .. N - 1)
    BY <1>5 DEF N
  <2>2. QED BY <1>4, <1>5, <2>1, FS_Injection
<1>7. \A k \in 0 .. N - 1 : \E x \in S : Cardinality(below(x)) = k
  BY <1>6 DEF Surjection
<1>8. ASSUME NEW x \in S, NEW y \in S, Cardinality(below(x)) < Cardinality(below(y))
      PROVE  <<x, y>> \in R
  <2>1. x # y /\ ~(<<y, x>> \in R)
    BY <1>1, <1>2, <1>3, <1>8
  <2>2. QED BY <2>1
<1>9. QED BY <1>7, <1>8 DEF below

\* Sorting the events that were read.
LEMMA SortedInOrder ==
    ASSUME EventsOK, NEW S \in SUBSET Events
    PROVE  /\ Sorted(S) \in Seq(S)
           /\ \A i, j \in DOMAIN Sorted(S) :
                 i < j => /\ Sorted(S)[i] # Sorted(S)[j]
                          /\ event[Sorted(S)[i]].time <= event[Sorted(S)[j]].time
<1> DEFINE R == {p \in S \X S : Before(p[1], p[2])}
           below(x) == {y \in S : Before(y, x)}
           f == Sorted(S)
<1>1. IsFiniteSet(S) /\ Cardinality(S) \in Nat
  BY EventsFinite
<1>2. \A x, y \in S : <<x, y>> \in R <=> Before(x, y)
  OBVIOUS
<1>3. /\ \A x \in S : ~Before(x, x)
      /\ \A x, y \in S : x # y => Before(x, y) \/ Before(y, x)
      /\ \A x, y, z \in S : Before(x, y) /\ Before(y, z) => Before(x, z)
  BY BeforeIsStrict, BeforeIsTotal
<1>4. \A x \in S : {y \in S : <<y, x>> \in R} = below(x)
  BY <1>2
<1> HIDE DEF R
<1>5. /\ \A k \in 0 .. Cardinality(S) - 1 : \E x \in S : Cardinality({y \in S : <<y, x>> \in R}) = k
      /\ \A x, y \in S :
            Cardinality({z \in S : <<z, x>> \in R}) < Cardinality({z \in S : <<z, y>> \in R})
                => <<x, y>> \in R
  BY <1>1, <1>2, <1>3, Ranks
<1>6. /\ \A k \in 0 .. Cardinality(S) - 1 : \E x \in S : Cardinality(below(x)) = k
      /\ \A x, y \in S : Cardinality(below(x)) < Cardinality(below(y)) => Before(x, y)
  BY <1>2, <1>4, <1>5
<1>7. f = [n \in 1 .. Cardinality(S) |-> CHOOSE x \in S : Cardinality(below(x)) = n - 1]
  BY DEF Sorted, InOrder
<1> HIDE DEF below, f
<1>8. ASSUME NEW n \in 1 .. Cardinality(S)
      PROVE  f[n] \in S /\ Cardinality(below(f[n])) = n - 1
  <2>1. \E x \in S : Cardinality(below(x)) = n - 1
    BY <1>1, <1>6
  <2>2. f[n] = CHOOSE x \in S : Cardinality(below(x)) = n - 1
    BY <1>7
  <2>3. QED BY <2>1, <2>2
<1>9. DOMAIN f = 1 .. Cardinality(S) /\ f \in Seq(S)
  BY <1>1, <1>7, <1>8
<1>10. ASSUME NEW i \in DOMAIN f, NEW j \in DOMAIN f, i < j
       PROVE  f[i] # f[j] /\ event[f[i]].time <= event[f[j]].time
  <2>1. Before(f[i], f[j]) /\ f[i] \in S /\ f[j] \in S
    BY <1>6, <1>8, <1>9, <1>10
  <2>2. QED BY <2>1, BeforeIsStrict
<1>11. QED BY <1>9, <1>10 DEF f

\* Taking a charge point's events out of the list keeps the others in order.
LEMMA OthersInOrder ==
    ASSUME live \in Seq(Events), NEW cp
    PROVE  \E kept \in Seq(DOMAIN live) :
              /\ Others(cp) = [n \in DOMAIN kept |-> live[kept[n]]]
              /\ Others(cp) \in Seq(Events) /\ Len(Others(cp)) = Len(kept)
              /\ \A i \in DOMAIN kept : event[live[kept[i]]].cp # cp
              /\ \A i, j \in DOMAIN kept : i < j => kept[i] < kept[j]
<1> DEFINE S == {i \in DOMAIN live : event[live[i]].cp # cp}
           R == {p \in S \X S : p[1] < p[2]}
           below(x) == {y \in S : y < x}
           kept == [n \in 1 .. Cardinality(S) |-> CHOOSE x \in S : Cardinality(below(x)) = n - 1]
<1>1. DOMAIN live = 1 .. Len(live) /\ Len(live) \in Nat /\ S \in SUBSET DOMAIN live
  OBVIOUS
<1>2. IsFiniteSet(S) /\ Cardinality(S) \in Nat
  <2> HIDE DEF S
  <2>1. IsFiniteSet(DOMAIN live)
    BY <1>1, FS_Interval
  <2>2. QED BY <1>1, <2>1, FS_Subset, FS_CardinalityType
<1>3. \A x \in S : x \in Int /\ x \in DOMAIN live /\ event[live[x]].cp # cp
  BY <1>1
<1>4. Others(cp) = [n \in DOMAIN kept |-> live[kept[n]]]
  BY DEF Others, InOrder
<1> HIDE DEF S
<1>5. \A x, y \in S : <<x, y>> \in R <=> x < y
  OBVIOUS
<1>6. \A x \in S : {y \in S : <<y, x>> \in R} = below(x)
  BY <1>5
<1>7. /\ \A x \in S : ~(x < x)
      /\ \A x, y \in S : x # y => x < y \/ y < x
      /\ \A x, y, z \in S : x < y /\ y < z => x < z
  BY <1>3
<1> HIDE DEF R
<1>8. /\ \A k \in 0 .. Cardinality(S) - 1 : \E x \in S : Cardinality({y \in S : <<y, x>> \in R}) = k
      /\ \A x, y \in S :
            Cardinality({z \in S : <<z, x>> \in R}) < Cardinality({z \in S : <<z, y>> \in R})
                => <<x, y>> \in R
  BY <1>2, <1>5, <1>7, Ranks
<1>9. /\ \A k \in 0 .. Cardinality(S) - 1 : \E x \in S : Cardinality(below(x)) = k
      /\ \A x, y \in S : Cardinality(below(x)) < Cardinality(below(y)) => x < y
  BY <1>5, <1>6, <1>8
<1> HIDE DEF below
<1>10. ASSUME NEW n \in 1 .. Cardinality(S)
       PROVE  kept[n] \in S /\ Cardinality(below(kept[n])) = n - 1
  <2>1. \E x \in S : Cardinality(below(x)) = n - 1
    BY <1>2, <1>9
  <2>2. kept[n] = CHOOSE x \in S : Cardinality(below(x)) = n - 1
    OBVIOUS
  <2> HIDE DEF kept
  <2>3. QED BY <2>1, <2>2
<1>11. DOMAIN kept = 1 .. Cardinality(S)
  OBVIOUS
<1> HIDE DEF kept
<1>12. kept \in Seq(DOMAIN live) /\ Len(kept) = Cardinality(S)
  <2>1. \A n \in 1 .. Cardinality(S) : kept[n] \in DOMAIN live
    BY <1>3, <1>10
  <2>2. kept = [n \in 1 .. Cardinality(S) |-> kept[n]]
    BY DEF kept
  <2>3. QED BY <1>2, <2>1, <2>2
<1>13. Others(cp) \in Seq(Events) /\ Len(Others(cp)) = Len(kept)
  <2>1. \A n \in 1 .. Cardinality(S) : live[kept[n]] \in Events
    BY <1>3, <1>10
  <2>2. Others(cp) = [n \in 1 .. Cardinality(S) |-> live[kept[n]]]
    BY <1>4, <1>11
  <2> HIDE DEF Others
  <2>3. QED BY <1>2, <1>12, <2>1, <2>2
<1>14. \A i \in DOMAIN kept : event[live[kept[i]]].cp # cp
  BY <1>3, <1>10, <1>11
<1>15. ASSUME NEW i \in DOMAIN kept, NEW j \in DOMAIN kept, i < j PROVE kept[i] < kept[j]
  <2>1. /\ kept[i] \in S /\ kept[j] \in S
        /\ Cardinality(below(kept[i])) = i - 1 /\ Cardinality(below(kept[j])) = j - 1
        /\ i \in Int /\ j \in Int
    BY <1>2, <1>10, <1>11
  <2>2. QED BY <1>9, <1>15, <2>1
<1>16. QED BY <1>4, <1>12, <1>13, <1>14, <1>15

\* The list and what a load read hold events, the latter of its charge point.
LiveOK ==
    /\ live \in Seq(Events)
    /\ DOMAIN loaded = ChargePoints
    /\ \A cp \in ChargePoints : loaded[cp] \subseteq Of(cp, Events)

LInv == LiveOK /\ LiveInOrder

\* A list of some of the entries of the list, in their order.
LEMMA SublistKeeps ==
    ASSUME LInv, UNCHANGED event,
           NEW kept \in Seq(DOMAIN live), \A i, j \in DOMAIN kept : i < j => kept[i] < kept[j],
           live' = [n \in DOMAIN kept |-> live[kept[n]]]
    PROVE  LiveInOrder'
<1> SUFFICES ASSUME NEW i \in DOMAIN live', NEW j \in DOMAIN live', i < j,
                    event[live'[i]].cp = event[live'[j]].cp
             PROVE  live'[i] # live'[j] /\ event[live'[i]].time <= event[live'[j]].time
  BY DEF LiveInOrder
<1>1. /\ live'[i] = live[kept[i]] /\ live'[j] = live[kept[j]] /\ kept[i] < kept[j]
      /\ kept[i] \in DOMAIN live /\ kept[j] \in DOMAIN live
  OBVIOUS
<1>2. QED BY <1>1 DEF LInv, LiveInOrder

LEMMA LiveAppendKeeps ==
    ASSUME IInv, IInv', LInv, NEW cp \in ChargePoints, NEW new \in NewEvent(cp), NEW ok \in BOOLEAN,
           AppendEvent(cp, new, ok)
    PROVE  LInv'
<1> DEFINE e == Len(event) + 1
           list == Append(live, e)
<1>1. /\ event' = Append(event, new) /\ UNCHANGED loaded
      /\ live' = IF Len(list) > LiveMax THEN Tail(list) ELSE list
  BY DEF AppendEvent, loadVars
<1>2. /\ event \in Seq(Event) /\ Len(event) \in Nat /\ EventsOK' /\ live \in Seq(Events)
      /\ Len(live) \in Nat
  BY DEF IInv, EventsOK, LInv, LiveOK
<1>3. /\ Events' = Events \cup {e} /\ e \notin Events /\ \A i \in Events : i < e /\ i \in Nat
      /\ \A i \in Events : event'[i] = event[i]
  BY <1>1, <1>2 DEF Events
<1> HIDE DEF e
<1>4. /\ list \in Seq(Events') /\ Len(list) = Len(live) + 1 /\ list[Len(live) + 1] = e
      /\ \A i \in 1 .. Len(live) : list[i] = live[i] /\ live[i] \in Events
  BY <1>2, <1>3
<1> HIDE DEF list
<1>5. ASSUME NEW i \in 1 .. Len(list), NEW j \in 1 .. Len(list), i < j,
             event'[list[i]].cp = event'[list[j]].cp
      PROVE  list[i] # list[j] /\ event'[list[i]].time <= event'[list[j]].time
  <2>1. i \in 1 .. Len(live) /\ list[i] \in Events
    BY <1>2, <1>4, <1>5
  <2>2. CASE j \in 1 .. Len(live)
    <3>1. /\ list[i] = live[i] /\ list[j] = live[j] /\ live[i] \in Events /\ live[j] \in Events
          /\ i \in DOMAIN live /\ j \in DOMAIN live
      BY <1>2, <1>4, <2>1, <2>2
    <3>2. event'[live[i]] = event[live[i]] /\ event'[live[j]] = event[live[j]]
      BY <1>3, <3>1
    <3>3. QED BY <1>5, <3>1, <3>2 DEF LInv, LiveInOrder
  <2>3. CASE j = Len(live) + 1
    <3>1. list[i] \in Events' /\ e \in Events' /\ list[i] < e /\ list[j] = e
      BY <1>3, <1>4, <2>1, <2>3
    <3>2. event'[list[i]].time <= event'[e].time
      BY <1>2, <3>1 DEF EventsOK
    <3>3. QED BY <1>3, <2>1, <3>1, <3>2
  <2>4. QED BY <1>2, <1>4, <2>2, <2>3
<1>6. LiveOK'
  <2>1. live' \in Seq(Events')
    BY <1>1, <1>2, <1>4
  <2>2. \A c \in ChargePoints : loaded[c] \subseteq Of(c, Events)'
    BY <1>3 DEF LInv, LiveOK, Of
  <2>3. QED BY <1>1, <2>1, <2>2 DEF LInv, LiveOK
<1>7. LiveInOrder'
  <2>1. CASE live' = list
    BY <1>4, <1>5, <2>1 DEF LiveInOrder
  <2>2. CASE live' = Tail(list)
    <3>1. /\ DOMAIN live' = 1 .. Len(list) - 1 /\ Len(list) \in Nat
          /\ \A i \in 1 .. Len(list) - 1 : live'[i] = list[i + 1]
      BY <1>2, <1>4, <2>2
    <3>2. ASSUME NEW i \in DOMAIN live', NEW j \in DOMAIN live', i < j,
                 event'[live'[i]].cp = event'[live'[j]].cp
          PROVE  live'[i] # live'[j] /\ event'[live'[i]].time <= event'[live'[j]].time
      <4>1. /\ i + 1 \in 1 .. Len(list) /\ j + 1 \in 1 .. Len(list) /\ i + 1 < j + 1
            /\ live'[i] = list[i + 1] /\ live'[j] = list[j + 1]
        BY <3>1, <3>2
      <4>2. QED BY <1>5, <3>2, <4>1
    <3>3. QED BY <3>2 DEF LiveInOrder
  <2>3. QED BY <1>1, <2>1, <2>2
<1>8. QED BY <1>6, <1>7 DEF LInv

LEMMA LoadReplaceKeeps ==
    ASSUME IInv, LInv, NEW cp \in ChargePoints, LoadReplace(cp)
    PROVE  LInv'
<1> DEFINE o == Others(cp)
           s == Sorted(loaded[cp])
<1>1. /\ live' = o \o s /\ loaded' = [loaded EXCEPT ![cp] = {}] /\ UNCHANGED event
  BY DEF LoadReplace
<1>2. live \in Seq(Events) /\ loaded[cp] \in SUBSET Events /\ EventsOK /\ Events' = Events
      /\ \A e \in loaded[cp] : event[e].cp = cp
  BY <1>1 DEF IInv, LInv, LiveOK, Of, Events
<1>3. PICK kept \in Seq(DOMAIN live) :
              /\ o = [n \in DOMAIN kept |-> live[kept[n]]]
              /\ o \in Seq(Events) /\ Len(o) = Len(kept)
              /\ \A i \in DOMAIN kept : event[live[kept[i]]].cp # cp
              /\ \A i, j \in DOMAIN kept : i < j => kept[i] < kept[j]
  BY <1>2, OthersInOrder
<1>4. /\ s \in Seq(loaded[cp])
      /\ \A i, j \in DOMAIN s : i < j => s[i] # s[j] /\ event[s[i]].time <= event[s[j]].time
  BY <1>2, SortedInOrder
<1> HIDE DEF o, s
<1>k. DOMAIN kept = 1 .. Len(o)
  BY <1>3
<1>5. /\ Len(o) \in Nat /\ Len(s) \in Nat /\ s \in Seq(Events)
      /\ DOMAIN live' = 1 .. Len(o) + Len(s)
      /\ \A i \in 1 .. Len(o) + Len(s) : live'[i] = IF i <= Len(o) THEN o[i] ELSE s[i - Len(o)]
      /\ live' \in Seq(Events)
  BY <1>1, <1>2, <1>3, <1>4
<1>6. ASSUME NEW i \in DOMAIN live', NEW j \in DOMAIN live', i < j,
             event[live'[i]].cp = event[live'[j]].cp
      PROVE  live'[i] # live'[j] /\ event[live'[i]].time <= event[live'[j]].time
  <2>1. CASE j <= Len(o)
    <3>1. /\ i \in DOMAIN kept /\ j \in DOMAIN kept
          /\ live'[i] = live[kept[i]] /\ live'[j] = live[kept[j]]
      <4>1. i \in 1 .. Len(o) /\ j \in 1 .. Len(o)
        BY <1>5, <1>6, <2>1
      <4>2. live'[i] = o[i] /\ live'[j] = o[j]
        BY <1>5, <1>6, <2>1, <4>1
      <4>3. QED BY <1>3, <1>k, <4>1, <4>2
    <3>2. kept[i] < kept[j] /\ kept[i] \in DOMAIN live /\ kept[j] \in DOMAIN live
      BY <1>3, <1>6, <3>1
    <3>3. QED BY <1>6, <3>1, <3>2 DEF LInv, LiveInOrder
  <2>2. CASE i <= Len(o) /\ j > Len(o)
    <3>1. i \in DOMAIN kept /\ live'[i] = live[kept[i]]
      <4>1. i \in 1 .. Len(o) /\ live'[i] = o[i]
        BY <1>5, <1>6, <2>2
      <4>2. QED BY <1>3, <1>k, <4>1
    <3>2. live'[j] \in loaded[cp]
      BY <1>4, <1>5, <1>6, <2>2
    <3>3. QED BY <1>2, <1>3, <1>6, <3>1, <3>2
  <2>3. CASE i > Len(o)
    <3>1. /\ i - Len(o) \in DOMAIN s /\ j - Len(o) \in DOMAIN s /\ i - Len(o) < j - Len(o)
          /\ live'[i] = s[i - Len(o)] /\ live'[j] = s[j - Len(o)]
      BY <1>4, <1>5, <1>6, <2>3
    <3>2. QED BY <1>4, <3>1
  <2>4. QED BY <1>5, <1>6, <2>1, <2>2, <2>3
<1>7. LiveInOrder'
  BY <1>1, <1>6 DEF LiveInOrder
<1>8. LiveOK'
  <2>1. \A c \in ChargePoints : loaded'[c] \subseteq loaded[c]
    BY <1>1 DEF LInv, LiveOK
  <2>2. \A c \in ChargePoints : Of(c, Events)' = Of(c, Events)
    BY <1>1, <1>2 DEF Of
  <2>3. QED BY <1>1, <1>2, <1>5, <2>1, <2>2 DEF LInv, LiveOK
<1>9. QED BY <1>7, <1>8 DEF LInv

\* Every step keeps the list in order.
LEMMA NextLInv == IInv /\ IInv' /\ LInv /\ [Next]_vars => LInv'
<1> SUFFICES ASSUME IInv, IInv', LInv, [Next]_vars PROVE LInv'
  OBVIOUS
<1>0. /\ stored \subseteq Events /\ DOMAIN loaded = ChargePoints
      /\ live \in Seq(Events) /\ \A cp \in ChargePoints : loaded[cp] \subseteq Of(cp, Events)
  BY DEF IInv, LogsOK, LInv, LiveOK
<1>1. ASSUME UNCHANGED <<event, live>>, DOMAIN loaded' = ChargePoints,
             \A cp \in ChargePoints : loaded'[cp] \subseteq Of(cp, Events)
      PROVE  LInv'
  <2>1. Events' = Events /\ \A cp : Of(cp, Events)' = Of(cp, Events)
    BY <1>1 DEF Events, Of
  <2>2. LiveOK'
    BY <1>0, <1>1, <2>1 DEF LiveOK
  <2>3. LiveInOrder'
    BY <1>1 DEF LInv, LiveInOrder
  <2>4. QED BY <2>2, <2>3 DEF LInv
<1>2. ASSUME NEW cp \in ChargePoints, LoadList(cp) PROVE LInv'
  <2>1. Newest(Of(cp, stored), LiveMax) \subseteq Of(cp, Events)
    BY <1>0 DEF Newest, Of
  <2>2. QED BY <1>0, <1>1, <1>2, <2>1 DEF LoadList
<1>3. ASSUME NEW cp \in ChargePoints, Delete(cp) PROVE LInv'
  <2>1. live' = Others(cp) /\ UNCHANGED <<event, loaded>>
    BY <1>3 DEF Delete, loadVars
  <2>2. PICK kept \in Seq(DOMAIN live) :
              /\ Others(cp) = [n \in DOMAIN kept |-> live[kept[n]]]
              /\ Others(cp) \in Seq(Events)
              /\ \A i, j \in DOMAIN kept : i < j => kept[i] < kept[j]
    BY <1>0, OthersInOrder
  <2>3. LiveInOrder'
    BY <2>1, <2>2, SublistKeeps
  <2>4. Events' = Events /\ \A c : Of(c, Events)' = Of(c, Events)
    BY <2>1 DEF Events, Of
  <2>5. LiveOK'
    BY <1>0, <2>1, <2>2, <2>4 DEF LiveOK
  <2>6. QED BY <2>3, <2>5 DEF LInv
<1>4. CASE Reload \/ Clear
  <2>1. live' = << >> /\ loaded' = [cp \in ChargePoints |-> {}]
    BY <1>4 DEF Reload, Clear, PageStarts
  <2>2. QED BY <2>1 DEF LInv, LiveOK, LiveInOrder
<1>5. ASSUME NEW cp \in ChargePoints, DeleteList(cp) PROVE LInv'
  BY <1>0, <1>1, <1>5 DEF DeleteList, loadVars
<1>6. ASSUME NEW e \in Events, PruneList(e) \/ PruneDelete(e) PROVE LInv'
  BY <1>0, <1>1, <1>6 DEF PruneList, PruneDelete, loadVars
<1>7. CASE UNCHANGED vars
  BY <1>0, <1>1, <1>7 DEF vars, loadVars
<1>8. QED
  BY <1>2, <1>3, <1>4, <1>5, <1>6, <1>7, LiveAppendKeeps, LoadReplaceKeeps DEF Next, Load

\* The page shows a charge point's events oldest first and none of them twice,
\* however the loads, appends, deletions and reloads of realtimeStore meet.
THEOREM LiveInOrderHolds == Spec => []LiveInOrder
<1>1. Init => LInv
  BY DEF Init, LInv, LiveOK, LiveInOrder
<1>2. LInv => LiveInOrder
  BY DEF LInv
<1>3. QED BY <1>1, <1>2, NextLInv, IInvHolds, PTL DEF Spec
=============================================================================
