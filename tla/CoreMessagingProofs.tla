------------------------- MODULE CoreMessagingProofs -------------------------
(***************************************************************************)
(* Proofs about CoreMessaging, for any commands, foreign frames and number *)
(* of restarts.                                                            *)
(***************************************************************************)
EXTENDS CoreMessaging, TLAPS

\* Where a handler can be.
PCs == Drawing \cup {"new", "id", "publish", "sent", "queued", "refused", "lost"}

\* The types the proofs need; counters are not bounded here.
Types ==
    /\ life \in Nat \ {0}
    /\ up \in BOOLEAN
    /\ uniqueID \in Nat
    /\ loaded \in [Commands -> Nat]
    /\ pc \in [Commands -> PCs]
    /\ callID \in [Commands -> [n : Nat, random : Randoms \cup {None}]]
    /\ bornIn \in [Commands -> Nat]
    /\ wire \in Seq(Frames)
    /\ persist \in [Frames -> {"none", "running", "insert", "done", "failed", "lost"}]
    /\ row \in [Frames -> Statuses \cup {"none"}]

\* The mutex at work: who is between Lock and Unlock holds it, so that what was
\* read of the counter is still true when it is written back.
Exclusive ==
    \A r \in Commands :
        /\ pc[r] \in Drawing => mu = r
        /\ pc[r] \in {"id"} \cup Drawing => up
        /\ pc[r] = "store" => loaded[r] = uniqueID

\* No id is of a life to come, none of this life is ahead of the counter, and all
\* are behind it when it has just been advanced.
IdsBehind ==
    /\ \A s \in Commands :
          /\ bornIn[s] <= life
          /\ bornIn[s] = life => callID[s].n <= uniqueID
    /\ \A r \in Commands : pc[r] = "take" =>
          /\ uniqueID > 0
          /\ \A s \in Commands : bornIn[s] = life => callID[s].n < uniqueID

\* Only a command with an id is published.
PublishedHasID ==
    \A r \in Commands :
        pc[r] \in {"publish", "sent", "queued"} \/ r \in OnWire => callID[r] # NoID

\* What persist knows of a frame.
LogState ==
    \A f \in Frames :
        /\ persist[f] # "none" => f \in OnWire
        /\ row[f] # "none" => persist[f] \in {"done", "failed"} /\ row[f] = RowStatus(kind[f])
        /\ persist[f] = "done" => row[f] # "none"

IInv == Types /\ Exclusive /\ IdsBehind /\ CallIDsDistinct /\ PublishedHasID /\ LogState

-----------------------------------------------------------------------------
\* A status is never the absence of a row.
LEMMA StatusIsOne == \A k : RowStatus(k) \in Statuses /\ RowStatus(k) # "none"
BY DEF RowStatus, Statuses

\* What a publish adds to the wire.
LEMMA AppendAdds ==
    ASSUME wire \in Seq(Frames), NEW g \in Frames, wire' = Append(wire, g)
    PROVE  wire' \in Seq(Frames) /\ OnWire' = OnWire \cup {g}
<1>1. wire' \in Seq(Frames) /\ Len(wire') = Len(wire) + 1 /\ Len(wire) \in Nat
  OBVIOUS
<1>2. \A i \in 1 .. Len(wire) : wire'[i] = wire[i]
  OBVIOUS
<1>3. wire'[Len(wire) + 1] = g
  OBVIOUS
<1>4. \A i : i \in 1 .. Len(wire') <=> i \in 1 .. Len(wire) \/ i = Len(wire) + 1
  BY <1>1
<1>5. ASSUME NEW f \in Frames
      PROVE  (\E i \in 1 .. Len(wire') : wire'[i] = f)
             <=> (\E i \in 1 .. Len(wire) : wire[i] = f) \/ f = g
  BY <1>2, <1>3, <1>4
<1>6. QED BY <1>1, <1>5 DEF OnWire, Frames

LEMMA InitIInv == Init => IInv
<1> SUFFICES ASSUME Init PROVE IInv
  OBVIOUS
<1>1. OnWire = {}
  BY DEF Init, OnWire
<1>2. Types
  <2>1. up \in BOOLEAN
    BY Zenon DEF Init
  <2>2. QED BY <2>1 DEF Init, Types, PCs, NoID, Statuses
<1>3. Exclusive /\ IdsBehind /\ CallIDsDistinct
  BY DEF Init, Exclusive, Drawing, IdsBehind, CallIDsDistinct, NoID
<1>4. PublishedHasID
  BY <1>1 DEF Init, PublishedHasID
<1>5. LogState
  BY DEF Init, LogState
<1>6. QED BY <1>2, <1>3, <1>4, <1>5 DEF IInv

\* A handler outside nextUniqueID: what it may do to the wire.
LEMMA CommandMoves ==
    ASSUME IInv, NEW r \in Commands,
           Refuse(r) \/ Accept(r) \/ Publish(r) \/ Answer(r) \/ PublishFails(r)
    PROVE  IInv'
<1> USE DEF IInv
<1>1. /\ UNCHANGED <<life, up, mu, uniqueID, loaded, callID, bornIn, kind, persist, row>>
      /\ pc' \in [Commands -> PCs]
      /\ \A s \in Commands : pc'[s] \in {"publish", "sent", "queued"} =>
                                 pc[s] \in {"publish", "sent", "queued"}
      /\ \A s \in Commands : pc'[s] \in Drawing => pc'[s] = pc[s]
      /\ \A s \in Commands : pc'[s] = "id" => up
  BY DEF Types, Exclusive, PCs, Drawing, Refuse, Accept, Publish, Answer, PublishFails, procVars, idVars, logVars
<1>2. r \in Frames
  BY DEF Frames
<1>3. /\ wire' \in Seq(Frames)
      /\ \/ OnWire' = OnWire
         \/ OnWire' = OnWire \cup {r} /\ pc[r] = "publish"
  <2>1. CASE wire' = wire
    BY <2>1 DEF OnWire, Types
  <2>2. CASE wire' = Append(wire, r) /\ pc[r] = "publish"
    BY <2>2, <1>2, AppendAdds DEF Types
  <2>3. QED BY <2>1, <2>2 DEF Refuse, Accept, Publish, Answer, PublishFails
<1>4. Types'
  BY <1>1, <1>3 DEF Types
<1>5. Exclusive' /\ IdsBehind' /\ CallIDsDistinct'
  BY <1>1 DEF Exclusive, Drawing, IdsBehind, CallIDsDistinct
<1>6. PublishedHasID'
  BY <1>1, <1>3 DEF PublishedHasID
<1>7. LogState'
  BY <1>1, <1>3 DEF LogState
<1>8. QED BY <1>4, <1>5, <1>6, <1>7

\* Inside nextUniqueID, up to the increment: nobody else is inside, so the counter
\* is advanced from where it is.
LEMMA Advances ==
    ASSUME IInv, NEW r \in Commands, Lock(r) \/ Load(r) \/ Store(r)
    PROVE  IInv'
<1> USE DEF IInv
<1>1. /\ UNCHANGED <<life, up, callID, bornIn, kind, wire, persist, row>>
      /\ OnWire' = OnWire
  BY DEF Lock, Load, Store, procVars, logVars, OnWire
<1>2. up
  <2>1. pc[r] \in {"id"} \cup Drawing
    BY DEF Lock, Load, Store, Drawing
  <2>2. QED BY <2>1 DEF Exclusive
<1>3. CASE Lock(r)
  BY <1>1, <1>2, <1>3, CoreMessagingAssumption
     DEF Lock, Types, PCs, Drawing, Exclusive, IdsBehind, CallIDsDistinct, PublishedHasID, LogState
<1>4. CASE Load(r)
  BY <1>1, <1>2, <1>4
     DEF Load, Types, PCs, Drawing, Exclusive, IdsBehind, CallIDsDistinct, PublishedHasID, LogState
<1>5. CASE Store(r)
  <2>1. loaded[r] = uniqueID /\ uniqueID' = uniqueID + 1
    BY <1>5 DEF Store, Exclusive
  <2>2. QED
    BY <1>1, <1>2, <1>5, <2>1
       DEF Store, Types, PCs, Drawing, Exclusive, IdsBehind, CallIDsDistinct, PublishedHasID, LogState
<1>6. QED BY <1>3, <1>4, <1>5

\* The id taken is ahead of every id of this life, and so like none of them.
LEMMA DrawsNewID ==
    ASSUME IInv, NEW r \in Commands, Unlock(r)
    PROVE  IInv'
<1> USE DEF IInv
<1> PICK b \in Randoms : callID' = [callID EXCEPT ![r] = [n |-> uniqueID, random |-> b]]
  BY DEF Unlock
<1> DEFINE new == [n |-> uniqueID, random |-> b]
<1>1. /\ UNCHANGED <<life, up, uniqueID, loaded, kind, wire, persist, row>>
      /\ pc[r] = "take" /\ pc' = [pc EXCEPT ![r] = "publish"]
      /\ bornIn' = [bornIn EXCEPT ![r] = life]
      /\ OnWire' = OnWire
  BY DEF Unlock, procVars, logVars, OnWire
<1>2. /\ new \in [n : Nat, random : Randoms \cup {None}] /\ new.n = uniqueID
      /\ uniqueID > 0 /\ new # NoID
  BY <1>1 DEF Types, NoID, IdsBehind
<1>3. /\ callID'[r] = new /\ bornIn'[r] = life
      /\ \A s \in Commands : s # r => /\ callID'[s] = callID[s] /\ bornIn'[s] = bornIn[s]
                                      /\ pc'[s] = pc[s] /\ pc[s] \notin Drawing
  BY <1>1 DEF Types, Exclusive, Drawing
<1>4. \A s \in Commands : s # r /\ bornIn[s] = life => callID[s].n < uniqueID
  BY <1>1 DEF IdsBehind
<1> HIDE DEF new
<1>5. Types'
  BY <1>1, <1>2, <1>3 DEF Types, PCs, new
<1>6. Exclusive' /\ IdsBehind'
  BY <1>1, <1>2, <1>3, <1>4 DEF Types, Exclusive, Drawing, IdsBehind
<1>7. CallIDsDistinct'
  BY <1>2, <1>3, <1>4 DEF CallIDsDistinct, Types
<1>8. PublishedHasID'
  BY <1>1, <1>2, <1>3 DEF PublishedHasID
<1>9. LogState'
  BY <1>1 DEF LogState
<1>10. QED BY <1>5, <1>6, <1>7, <1>8, <1>9

\* A frame of somebody else is no command.
LEMMA OthersAreNoCommands ==
    ASSUME IInv, NEW g \in Others, OtherPublishes(g)
    PROVE  IInv'
<1> USE DEF IInv
<1>1. UNCHANGED <<life, up, mu, uniqueID, loaded, pc, callID, bornIn, kind, persist, row>>
  BY DEF OtherPublishes, procVars, csmsVars, idVars, logVars
<1>2. wire' \in Seq(Frames) /\ OnWire' = OnWire \cup {g}
  BY AppendAdds DEF OtherPublishes, Types, Frames
<1>3. g \notin Commands
  BY CoreMessagingAssumption
<1>4. Types' /\ Exclusive' /\ IdsBehind' /\ CallIDsDistinct'
  BY <1>1, <1>2 DEF Types, Exclusive, IdsBehind, CallIDsDistinct
<1>5. PublishedHasID'
  BY <1>1, <1>2, <1>3 DEF PublishedHasID
<1>6. LogState'
  BY <1>1, <1>2 DEF LogState
<1>7. QED BY <1>4, <1>5, <1>6

\* The goroutine of a frame changes what the log says of that frame only.
LEMMA PersistKeeps ==
    ASSUME IInv, NEW g \in Frames, Persist(g)
    PROVE  IInv'
<1> USE DEF IInv
<1>1. /\ UNCHANGED <<life, up, mu, uniqueID, loaded, pc, callID, bornIn, kind, wire>>
      /\ OnWire' = OnWire
  BY DEF Persist, Deliver, Miss, Stamp, Insert, InsertFails, procVars, csmsVars, idVars, OnWire
<1>2. RowStatus(kind[g]) \in Statuses /\ RowStatus(kind[g]) # "none"
  BY StatusIsOne
<1>3. /\ persist' \in [Frames -> {"none", "running", "insert", "done", "failed", "lost"}]
      /\ row' \in [Frames -> Statuses \cup {"none"}]
      /\ \A f \in Frames : f # g => persist'[f] = persist[f] /\ row'[f] = row[f]
  BY <1>2 DEF Types, Persist, Deliver, Miss, Stamp, Insert, InsertFails
<1>4. g \in OnWire
  BY DEF Types, LogState, Persist, Deliver, Miss, Stamp, Insert, InsertFails
<1>5. /\ row'[g] # "none" => persist'[g] \in {"done", "failed"} /\ row'[g] = RowStatus(kind[g])
      /\ persist'[g] = "done" => row'[g] # "none"
  BY <1>2 DEF Types, LogState, Persist, Deliver, Miss, Stamp, Insert, InsertFails
<1>6. LogState'
  BY <1>1, <1>3, <1>4, <1>5 DEF LogState
<1>7. Types' /\ Exclusive' /\ IdsBehind' /\ CallIDsDistinct' /\ PublishedHasID'
  BY <1>1, <1>3 DEF Types, Exclusive, IdsBehind, CallIDsDistinct, PublishedHasID
<1>8. QED BY <1>6, <1>7

\* A crash ends handlers and goroutines; a restart begins a life no id is of.
LEMMA ProcessKeeps ==
    ASSUME IInv, Tick \/ Crash \/ Restart \/ UNCHANGED vars
    PROVE  IInv'
<1> USE DEF IInv
<1>1. UNCHANGED <<callID, bornIn, kind, wire, row>> /\ OnWire' = OnWire
  BY DEF Tick, Crash, Restart, vars, csmsVars, idVars, logVars, OnWire
<1>2. /\ pc' \in [Commands -> PCs]
      /\ \A s \in Commands : pc'[s] \in {pc[s], "lost"}
  BY DEF Types, PCs, Tick, Crash, Restart, vars, csmsVars
<1>3. /\ persist' \in [Frames -> {"none", "running", "insert", "done", "failed", "lost"}]
      /\ \A f \in Frames : \/ persist'[f] = persist[f]
                           \/ persist[f] \in {"running", "insert"} /\ persist'[f] = "lost"
  BY DEF Types, Tick, Crash, Restart, vars, logVars
<1>4. up' \in BOOLEAN /\ loaded' \in [Commands -> Nat]
  <2>1. up' \in BOOLEAN
    BY Zenon DEF Types, Tick, Crash, Restart, vars
  <2>2. loaded' \in [Commands -> Nat]
    BY DEF Types, Tick, Crash, Restart, vars, csmsVars, idVars
  <2>3. QED BY <2>1, <2>2
<1>5. CASE UNCHANGED <<life, up, mu, uniqueID, loaded, pc>>
  BY <1>1, <1>3, <1>5
     DEF Types, Exclusive, Drawing, IdsBehind, CallIDsDistinct, PublishedHasID, LogState
<1>6. CASE Crash
  <2>1. UNCHANGED <<life, uniqueID>> /\ \A s \in Commands : pc'[s] \notin {"id"} \cup Drawing
    BY <1>6 DEF Crash, Types, PCs, Drawing
  <2>2. QED
    BY <1>1, <1>2, <1>3, <1>4, <2>1
       DEF Types, Exclusive, Drawing, IdsBehind, CallIDsDistinct, PublishedHasID, LogState
<1>7. CASE Restart
  <2>1. /\ UNCHANGED <<mu, loaded, pc>> /\ life' = life + 1 /\ uniqueID' = 0
        /\ \A s \in Commands : pc[s] \notin {"id"} \cup Drawing
    BY <1>7 DEF Restart, Exclusive
  <2>2. Types'
    BY <1>1, <1>3, <1>4, <2>1 DEF Types
  <2>3. Exclusive' /\ PublishedHasID' /\ LogState'
    BY <1>1, <1>3, <2>1 DEF Exclusive, Drawing, PublishedHasID, LogState
  <2>4. IdsBehind' /\ CallIDsDistinct'
    <3>1. \A s \in Commands : bornIn'[s] <= life /\ bornIn'[s] # life'
      BY <1>1, <2>1 DEF Types, IdsBehind
    <3>2. QED BY <1>1, <2>1, <3>1 DEF Types, IdsBehind, Drawing, CallIDsDistinct
  <2>5. QED BY <2>2, <2>3, <2>4
<1>8. QED
  BY <1>5, <1>6, <1>7 DEF Tick, vars, csmsVars, idVars

LEMMA IInvHolds == Spec => []IInv
<1>1. IInv /\ [Next]_vars => IInv'
  <2> SUFFICES ASSUME IInv, [Next]_vars PROVE IInv'
    OBVIOUS
  <2>1. ASSUME NEW r \in Commands, Command(r) PROVE IInv'
    BY <2>1, CommandMoves, Advances, DrawsNewID DEF Command, nextUniqueID
  <2>2. ASSUME NEW f \in Others, OtherPublishes(f) PROVE IInv'
    BY <2>2, OthersAreNoCommands
  <2>3. ASSUME NEW f \in Frames, Persist(f) PROVE IInv'
    BY <2>3, PersistKeeps
  <2>4. CASE Tick \/ Crash \/ Restart \/ UNCHANGED vars
    BY <2>4, ProcessKeeps
  <2>5. QED BY <2>1, <2>2, <2>3, <2>4 DEF Next
<1>2. QED BY InitIInv, <1>1, PTL DEF Spec

-----------------------------------------------------------------------------
\* csms.Service.nextUniqueID: whatever the goroutines and the random bytes, no two
\* commands of one life of the process have the same unique id, because the mutex
\* keeps the increment of the counter whole.
THEOREM IDsAreDistinct == Spec => []CallIDsDistinct
<1>1. IInv => CallIDsDistinct
  BY DEF IInv
<1>2. QED BY IInvHolds, <1>1, PTL

\* The log says what was on the wire, and all that persist was through with.
THEOREM LogIsAlwaysFaithful == Spec => []LogIsFaithful
<1>1. IInv => LogIsFaithful
  <2> SUFFICES ASSUME IInv PROVE LogIsFaithful
    OBVIOUS
  <2>1. \A f \in Logged : f \in OnWire /\ row[f] = RowStatus(kind[f])
    BY DEF IInv, LogState, Logged
  <2>2. \A r \in Commands : callID[r] = NoID => r \notin Logged
    BY <2>1 DEF IInv, PublishedHasID
  <2>3. \A f \in Frames : persist[f] = "done" => f \in Logged
    BY DEF IInv, LogState, Logged
  <2>4. QED BY <2>1, <2>2, <2>3 DEF LogIsFaithful
<1>2. QED BY IInvHolds, <1>1, PTL
=============================================================================
