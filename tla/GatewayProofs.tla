---------------------------- MODULE GatewayProofs ----------------------------
(***************************************************************************)
(* Proofs about Gateway, for any number of sessions and charge points and   *)
(* any channel capacity.                                                   *)
(***************************************************************************)
EXTENDS Gateway, TLAPS

\* The part of the type invariant the argument about the registry needs.
RegistryType ==
    /\ registry \in [ChargePoints -> Sessions \cup {None}]
    /\ cp \in [Sessions -> ChargePoints \cup {None}]
    /\ pc \in [Sessions -> PCs]
    /\ evictee \in [Sessions -> Sessions \cup {None}]
    /\ victim \in [Sessions -> Sessions \cup {None}]
    /\ closed \in [Sessions -> BOOLEAN]

\* Facts that make TeardownOwned inductive: a session past its Upgrade has a
\* charge point, and a goroutine in the middle of a tear-down has a connection.
Bindings ==
    /\ \A s \in Sessions : pc[s] \notin {"idle", "refused"} => cp[s] \in ChargePoints
    /\ \A s \in Sessions : closed[s] => Registered(s)
    /\ \A s \in Sessions : pc[s] \in {"evictUnsub", "evictClose"} => evictee[s] \in Sessions
    /\ \A s \in Sessions : pc[s] \in {"discUnsub", "discClose"} => victim[s] \in Sessions

\* The inductive invariant.
IInv == RegistryType /\ Bindings /\ TeardownOwned

\* Handler states in which it tears a connection down.
Tearing == {"evictUnsub", "evictClose", "discUnsub", "discClose"}

\* The invariant holds before the first connection.
LEMMA InitIInv == Init => IInv
<1> SUFFICES ASSUME Init PROVE IInv
  OBVIOUS
<1>1. RegistryType
  BY DEF Init, RegistryType, PCs, Unregistered
<1>2. Bindings
  BY DEF Init, Bindings
<1>3. TeardownOwned
  BY DEF Init, TeardownOwned, TearsDown, Registered, Unregistered
<1>4. QED BY <1>1, <1>2, <1>3 DEF IInv

\* A handler step outside the registry: s moves between states in which it tears
\* nothing down, and stays on its side of the registration.
QuietMove(s) ==
    /\ UNCHANGED <<registry, evictee, victim, closed>>
    /\ pc' \in [Sessions -> PCs] /\ cp' \in [Sessions -> ChargePoints \cup {None}]
    /\ \A t \in Sessions : t # s => pc'[t] = pc[t] /\ cp'[t] = cp[t]
    /\ pc[s] \notin Tearing /\ pc'[s] \notin Tearing
    /\ Registered(s) <=> Registered(s)'
    /\ Registered(s) => cp'[s] = cp[s]
    /\ pc'[s] \notin {"idle", "refused"} => cp'[s] \in ChargePoints

\* Such a move disturbs nothing.
LEMMA QuietMoveKeeps ==
    ASSUME IInv, NEW s \in Sessions, QuietMove(s) PROVE IInv'
<1> USE GatewayAssumption DEF IInv, QuietMove, Tearing
<1>1. RegistryType'
  BY DEF RegistryType
<1>2. \A t \in Sessions : Registered(t) <=> Registered(t)'
  BY DEF Registered
<1>3. \A t, u \in Sessions : TearsDown(t, u) <=> TearsDown(t, u)'
  BY DEF TearsDown
<1>4. \A t \in Sessions : Registered(t) => cp'[t] = cp[t]
  OBVIOUS
<1>5. Bindings'
  BY <1>2 DEF Bindings, RegistryType
<1>6. TeardownOwned'
  BY <1>2, <1>3, <1>4 DEF TeardownOwned, RegistryType
<1>7. QED BY <1>1, <1>5, <1>6

\* The handler steps that do not touch the registry are quiet moves.
LEMMA QuietSteps ==
    ASSUME IInv, NEW s \in Sessions,
           \/ Refuse(s) \/ (\E c \in ChargePoints : Upgrade(s, c))
           \/ Subscribe(s) \/ SubscribeFails(s) \/ ReadFrame(s) \/ ReadFails(s)
           \/ Publish(s) \/ PublishFails(s) \/ CheckClosed(s)
    PROVE  QuietMove(s)
<1> USE DEF IInv, RegistryType, Bindings, QuietMove, Tearing, PCs, Registered,
        Unregistered, regVars
<1>1. CASE Refuse(s)
  BY <1>1 DEF Refuse
<1>2. CASE \E c \in ChargePoints : Upgrade(s, c)
  BY <1>2 DEF Upgrade
<1>3. CASE Subscribe(s)
  BY <1>3 DEF Subscribe
<1>4. CASE SubscribeFails(s)
  BY <1>4 DEF SubscribeFails
<1>5. CASE ReadFrame(s)
  BY <1>5 DEF ReadFrame
<1>6. CASE ReadFails(s)
  BY <1>6 DEF ReadFails
<1>7. CASE Publish(s)
  BY <1>7 DEF Publish
<1>8. CASE PublishFails(s)
  BY <1>8 DEF PublishFails
<1>9. CASE CheckClosed(s)
  BY <1>9 DEF CheckClosed
<1>10. QED
  BY <1>1, <1>2, <1>3, <1>4, <1>5, <1>6, <1>7, <1>8, <1>9

\* Register: the new connection enters the registry, the one it replaces passes
\* into the hands of this goroutine.
LEMMA RegisterKeeps ==
    ASSUME IInv, NEW s \in Sessions, Register(s) PROVE IInv'
<1> DEFINE c == cp[s]
<1> USE GatewayAssumption DEF IInv
<1>1. c \in ChargePoints /\ ~Registered(s) /\ cp' = cp /\ closed' = closed /\ victim' = victim
  BY DEF Register, Bindings, Registered, Unregistered
<1>2. RegistryType'
  BY <1>1 DEF Register, RegistryType, PCs
<1>3. \A t \in Sessions : Registered(t)' <=> (Registered(t) \/ t = s)
  BY DEF Register, RegistryType, Registered, Unregistered
<1>4. \A t, u \in Sessions : t # s => (TearsDown(t, u)' <=> TearsDown(t, u))
  BY DEF Register, RegistryType, TearsDown
<1>5. \A u \in Sessions : TearsDown(s, u)' <=> registry[c] = u
  BY <1>1 DEF Register, RegistryType, TearsDown
<1>6. \A u \in Sessions : ~TearsDown(s, u)
  BY DEF Register, TearsDown
<1>7. ~closed[s]
  BY <1>1 DEF Bindings
<1>8. Bindings'
  BY <1>1, <1>2, <1>3 DEF Register, RegistryType, Bindings
<1>9. registry[c] # s /\ (registry[c] # None => cp[registry[c]] = c)
  BY <1>1 DEF TeardownOwned, RegistryType
<1>10. registry' = [registry EXCEPT ![c] = s]
  BY DEF Register
<1> HIDE DEF c
<1>11. \A d \in ChargePoints : registry'[d] # None =>
          /\ cp'[registry'[d]] = d
          /\ Registered(registry[d])'
          /\ ~closed'[registry'[d]]
  <2> SUFFICES ASSUME NEW d \in ChargePoints, registry'[d] # None
               PROVE  /\ cp'[registry'[d]] = d
                      /\ Registered(registry[d])'
                      /\ ~closed'[registry'[d]]
    OBVIOUS
  <2>1. CASE d = c
    <3>1. registry'[d] = s /\ cp'[s] = c
      BY <2>1, <1>1, <1>10 DEF RegistryType, c
    <3>2. Registered(s)' /\ ~closed'[s]
      BY <1>1, <1>3, <1>7
    <3>3. Registered(registry[d])'
      BY <3>1, <3>2 DEF Registered
    <3>4. QED BY <2>1, <3>1, <3>2, <3>3
  <2>2. CASE d # c
    <3>1. registry'[d] = registry[d] /\ registry[d] \in Sessions
      BY <2>2, <1>10, <1>1 DEF RegistryType
    <3>2. /\ cp[registry[d]] = d
          /\ Registered(registry[d])
          /\ ~closed[registry[d]]
      BY <3>1 DEF TeardownOwned
    <3>3. Registered(registry[d]) => Registered(registry[d])'
      BY <3>1 DEF Register, RegistryType, Registered, Unregistered
    <3>4. QED BY <3>1, <3>2, <3>3, <1>1
  <2>3. QED BY <2>1, <2>2
<1>12. \A t, u \in Sessions : TearsDown(u, t)' =>
          /\ Registered(t)'
          /\ ~closed'[t]
          /\ registry'[cp'[t]] # t
          /\ \A v \in Sessions : TearsDown(v, t)' => v = u
  <2> SUFFICES ASSUME NEW t \in Sessions, NEW u \in Sessions, TearsDown(u, t)'
               PROVE  /\ Registered(t)'
                      /\ ~closed'[t]
                      /\ registry'[cp'[t]] # t
                      /\ \A v \in Sessions : TearsDown(v, t)' => v = u
    OBVIOUS
  <2>1. CASE u = s
    <3>1. registry[c] = t /\ t # s /\ t # None /\ cp[t] = c
      BY <2>1, <1>5, <1>9
    <3>2. Registered(t) /\ ~closed[t]
      BY <3>1, <1>1 DEF TeardownOwned
    <3>3. \A v \in Sessions : ~TearsDown(v, t)
      BY <3>1 DEF TeardownOwned
    <3>4. registry'[cp'[t]] # t
      BY <3>1, <1>1, <1>10 DEF RegistryType
    <3>5. QED BY <2>1, <3>1, <3>2, <3>3, <3>4, <1>1, <1>3, <1>4
  <2>2. CASE u # s
    <3>1. TearsDown(u, t)
      BY <2>2, <1>4
    <3>2. /\ Registered(t) /\ ~closed[t] /\ registry[cp[t]] # t
          /\ \A v \in Sessions : TearsDown(v, t) => v = u
      BY <3>1 DEF TeardownOwned
    <3>3. t # s /\ cp[t] \in ChargePoints
      BY <3>2, <1>1 DEF Bindings, Registered, Unregistered
    <3>4. ~TearsDown(s, t)'
      BY <3>2, <1>5, <1>9
    <3>5. registry'[cp'[t]] # t
      BY <3>2, <3>3, <1>1, <1>10 DEF RegistryType
    <3>6. QED BY <3>2, <3>4, <3>5, <1>1, <1>3, <1>4
  <2>3. QED BY <2>1, <2>2
<1>13. \A t \in Sessions : Registered(t)' =>
          closed'[t] \/ registry'[cp'[t]] = t \/ \E u \in Sessions : TearsDown(u, t)'
  <2> SUFFICES ASSUME NEW t \in Sessions, Registered(t)', ~closed'[t], registry'[cp'[t]] # t
               PROVE  \E u \in Sessions : TearsDown(u, t)'
    OBVIOUS
  <2>1. t # s
    BY <1>1, <1>10 DEF RegistryType, c
  <2>2. Registered(t) /\ ~closed[t] /\ cp[t] \in ChargePoints
    BY <2>1, <1>1, <1>3 DEF Bindings, Registered, Unregistered
  <2>3. CASE registry[cp[t]] = t
    <3>1. cp[t] = c
      BY <2>2, <2>3, <1>1, <1>10 DEF RegistryType
    <3>2. QED BY <3>1, <2>3, <1>5
  <2>4. CASE registry[cp[t]] # t
    <3>1. PICK u \in Sessions : TearsDown(u, t)
      BY <2>2, <2>4 DEF TeardownOwned
    <3>2. QED BY <3>1, <1>4, <1>6
  <2>5. QED BY <2>3, <2>4
<1>14. TeardownOwned'
  BY <1>11, <1>12, <1>13, Zenon DEF TeardownOwned
<1>15. QED
  BY <1>2, <1>8, <1>14

\* Disconnect: the entry, whichever session it is, passes into the hands of this
\* goroutine.
LEMMA DisconnectKeeps ==
    ASSUME IInv, NEW s \in Sessions, Disconnect(s) PROVE IInv'
<1> DEFINE c == cp[s]
<1> USE GatewayAssumption DEF IInv
<1>1. c \in ChargePoints /\ Registered(s) /\ cp' = cp /\ closed' = closed /\ evictee' = evictee
  BY DEF Disconnect, Bindings, Registered, Unregistered
<1>2. RegistryType'
  BY <1>1 DEF Disconnect, RegistryType, PCs
<1>3. \A t \in Sessions : Registered(t)' <=> Registered(t)
  BY <1>1 DEF Disconnect, RegistryType, Registered, Unregistered
<1>4. \A t, u \in Sessions : t # s => (TearsDown(t, u)' <=> TearsDown(t, u))
  BY DEF Disconnect, RegistryType, TearsDown
<1>5. \A u \in Sessions : TearsDown(s, u)' <=> registry[c] = u
  BY <1>1 DEF Disconnect, RegistryType, TearsDown
<1>6. \A u \in Sessions : ~TearsDown(s, u)
  BY DEF Disconnect, TearsDown
<1>7. Bindings'
  BY <1>1, <1>2, <1>3 DEF Disconnect, RegistryType, Bindings
<1>8. registry' = [registry EXCEPT ![c] = None]
  BY DEF Disconnect
<1> HIDE DEF c
<1>9. \A d \in ChargePoints : registry'[d] # None =>
          /\ cp'[registry'[d]] = d
          /\ Registered(registry[d])'
          /\ ~closed'[registry'[d]]
  <2> SUFFICES ASSUME NEW d \in ChargePoints, registry'[d] # None
               PROVE  /\ cp'[registry'[d]] = d
                      /\ Registered(registry[d])'
                      /\ ~closed'[registry'[d]]
    OBVIOUS
  <2>1. registry'[d] = registry[d] /\ registry[d] \in Sessions
    BY <1>8, <1>1 DEF RegistryType
  <2>2. /\ cp[registry[d]] = d
        /\ Registered(registry[d])
        /\ ~closed[registry[d]]
    BY <2>1 DEF TeardownOwned
  <2>3. Registered(registry[d]) => Registered(registry[d])'
    BY <2>1, <1>1 DEF Disconnect, RegistryType, Registered, Unregistered
  <2>4. QED BY <2>1, <2>2, <2>3, <1>1
<1>10. \A t, u \in Sessions : TearsDown(u, t)' =>
          /\ Registered(t)'
          /\ ~closed'[t]
          /\ registry'[cp'[t]] # t
          /\ \A v \in Sessions : TearsDown(v, t)' => v = u
  <2> SUFFICES ASSUME NEW t \in Sessions, NEW u \in Sessions, TearsDown(u, t)'
               PROVE  /\ Registered(t)'
                      /\ ~closed'[t]
                      /\ registry'[cp'[t]] # t
                      /\ \A v \in Sessions : TearsDown(v, t)' => v = u
    OBVIOUS
  <2>1. CASE u = s
    <3>1. registry[c] = t /\ t # None
      BY <2>1, <1>5
    <3>2. Registered(t) /\ ~closed[t] /\ cp[t] = c
      BY <3>1, <1>1 DEF TeardownOwned
    <3>3. \A v \in Sessions : ~TearsDown(v, t)
      BY <3>1, <3>2 DEF TeardownOwned
    <3>4. registry'[cp'[t]] # t
      BY <3>1, <3>2, <1>1, <1>8 DEF RegistryType
    <3>5. QED BY <2>1, <3>2, <3>3, <3>4, <1>1, <1>3, <1>4
  <2>2. CASE u # s
    <3>1. TearsDown(u, t)
      BY <2>2, <1>4
    <3>2. /\ Registered(t) /\ ~closed[t] /\ registry[cp[t]] # t
          /\ \A v \in Sessions : TearsDown(v, t) => v = u
      BY <3>1 DEF TeardownOwned
    <3>3. cp[t] \in ChargePoints /\ t # None
      BY <3>2 DEF Bindings, Registered, Unregistered
    <3>4. ~TearsDown(s, t)'
      BY <3>2, <3>3, <1>1, <1>5 DEF TeardownOwned
    <3>5. registry'[cp'[t]] # t
      BY <3>2, <3>3, <1>1, <1>8 DEF RegistryType
    <3>6. QED BY <3>2, <3>4, <3>5, <1>1, <1>3, <1>4
  <2>3. QED BY <2>1, <2>2
<1>11. \A t \in Sessions : Registered(t)' =>
          closed'[t] \/ registry'[cp'[t]] = t \/ \E u \in Sessions : TearsDown(u, t)'
  <2> SUFFICES ASSUME NEW t \in Sessions, Registered(t)', ~closed'[t], registry'[cp'[t]] # t
               PROVE  \E u \in Sessions : TearsDown(u, t)'
    OBVIOUS
  <2>1. Registered(t) /\ ~closed[t] /\ cp[t] \in ChargePoints
    BY <1>1, <1>3 DEF Bindings, Registered, Unregistered
  <2>2. CASE registry[cp[t]] = t
    <3>1. cp[t] = c
      BY <2>1, <2>2, <1>1, <1>8 DEF RegistryType
    <3>2. QED BY <3>1, <2>2, <1>5
  <2>3. CASE registry[cp[t]] # t
    <3>1. PICK u \in Sessions : TearsDown(u, t)
      BY <2>1, <2>3 DEF TeardownOwned
    <3>2. QED BY <3>1, <1>4, <1>6
  <2>4. QED BY <2>2, <2>3
<1>12. TeardownOwned'
  BY <1>9, <1>10, <1>11, Zenon DEF TeardownOwned
<1>13. QED
  BY <1>2, <1>7, <1>12

\* Between unsubscribing and closing a goroutine keeps the same connection.
LEMMA UnsubscribeKeeps ==
    ASSUME IInv, NEW s \in Sessions, EvictUnsubscribe(s) \/ DisconnectUnsubscribe(s)
    PROVE  IInv'
<1> USE GatewayAssumption DEF IInv
<1>1. UNCHANGED <<registry, cp, evictee, victim, closed>>
  BY DEF EvictUnsubscribe, DisconnectUnsubscribe, regVars
<1>2. RegistryType'
  BY <1>1 DEF EvictUnsubscribe, DisconnectUnsubscribe, RegistryType, PCs
<1>3. \A t \in Sessions : Registered(t)' <=> Registered(t)
  BY DEF EvictUnsubscribe, DisconnectUnsubscribe, RegistryType, Registered, Unregistered
<1>4. \A t, u \in Sessions : TearsDown(t, u)' <=> TearsDown(t, u)
  BY <1>1 DEF EvictUnsubscribe, DisconnectUnsubscribe, RegistryType, TearsDown
<1>5. Bindings'
  BY <1>1, <1>2, <1>3 DEF EvictUnsubscribe, DisconnectUnsubscribe, RegistryType, Bindings
<1>6. TeardownOwned'
  BY <1>1, <1>3, <1>4 DEF TeardownOwned, RegistryType
<1>7. QED BY <1>2, <1>5, <1>6

\* Closing ends the goroutine's hold on the connection.
LEMMA CloseKeeps ==
    ASSUME IInv, NEW s \in Sessions, NEW x \in Sessions, TearsDown(s, x),
           UNCHANGED <<registry, cp, evictee, victim>>,
           closed' = [closed EXCEPT ![x] = TRUE],
           \E next \in {"reading", "done"} : pc' = [pc EXCEPT ![s] = next]
    PROVE  IInv'
<1> USE GatewayAssumption DEF IInv
<1>1. RegistryType'
  BY DEF RegistryType, PCs
<1>2. \A t \in Sessions : Registered(t)' <=> Registered(t)
  BY DEF RegistryType, Registered, Unregistered, TearsDown
<1>3. \A t, u \in Sessions : t # s => (TearsDown(t, u)' <=> TearsDown(t, u))
  BY DEF RegistryType, TearsDown
<1>4. \A u \in Sessions : ~TearsDown(s, u)'
  BY DEF RegistryType, TearsDown
<1>5. \A u \in Sessions : TearsDown(s, u) => u = x
  BY DEF TearsDown
<1>6. /\ Registered(x) /\ registry[cp[x]] # x
      /\ \A v \in Sessions : TearsDown(v, x) => v = s
  BY DEF TeardownOwned
<1>7. \A t \in Sessions : t # x => closed'[t] = closed[t]
  BY DEF RegistryType
<1>8. closed'[x] = TRUE
  BY DEF RegistryType
<1>9. Bindings'
  <2>1. \A t \in Sessions : closed'[t] => Registered(t)'
    <3> SUFFICES ASSUME NEW t \in Sessions, closed'[t] PROVE Registered(t)
      BY <1>2
    <3>1. t = x \/ closed[t]
      BY <1>7
    <3>2. QED BY <3>1, <1>6 DEF Bindings
  <2>2. \A t \in Sessions : t # s => pc'[t] = pc[t]
    BY DEF RegistryType
  <2>3. pc'[s] \in {"reading", "done"} /\ pc[s] \notin {"idle", "refused"}
    BY DEF RegistryType, TearsDown
  <2>4. /\ \A t \in Sessions : pc'[t] \notin {"idle", "refused"} => cp'[t] \in ChargePoints
        /\ \A t \in Sessions : pc'[t] \in {"evictUnsub", "evictClose"} => evictee'[t] \in Sessions
        /\ \A t \in Sessions : pc'[t] \in {"discUnsub", "discClose"} => victim'[t] \in Sessions
    BY <2>2, <2>3 DEF Bindings
  <2>5. QED BY <2>1, <2>4 DEF Bindings
<1>10. \A d \in ChargePoints : registry'[d] # None =>
          /\ cp'[registry'[d]] = d
          /\ Registered(registry[d])'
          /\ ~closed'[registry'[d]]
  <2> SUFFICES ASSUME NEW d \in ChargePoints, registry[d] # None
               PROVE  cp[registry[d]] = d /\ Registered(registry[d])' /\ ~closed'[registry[d]]
    BY Zenon
  <2>1. registry[d] \in Sessions
    BY DEF RegistryType
  <2>2. cp[registry[d]] = d /\ Registered(registry[d]) /\ ~closed[registry[d]]
    BY DEF TeardownOwned
  <2>3. registry[d] # x
    BY <2>2, <1>6
  <2>4. Registered(registry[d])'
    BY <2>1, <2>2 DEF RegistryType, Registered, Unregistered, TearsDown
  <2>5. QED BY <2>1, <2>2, <2>3, <2>4, <1>7
<1>11. \A t, u \in Sessions : TearsDown(u, t)' =>
          /\ Registered(t)'
          /\ ~closed'[t]
          /\ registry'[cp'[t]] # t
          /\ \A v \in Sessions : TearsDown(v, t)' => v = u
  <2> SUFFICES ASSUME NEW t \in Sessions, NEW u \in Sessions, TearsDown(u, t)'
               PROVE  /\ Registered(t)'
                      /\ ~closed'[t]
                      /\ registry[cp[t]] # t
                      /\ \A v \in Sessions : TearsDown(v, t)' => v = u
    OBVIOUS
  <2>1. u # s /\ TearsDown(u, t)
    BY <1>3, <1>4
  <2>2. t # x
    BY <2>1, <1>6
  <2>3. /\ Registered(t) /\ ~closed[t] /\ registry[cp[t]] # t
        /\ \A v \in Sessions : TearsDown(v, t) => v = u
    BY <2>1 DEF TeardownOwned
  <2>4. QED BY <2>2, <2>3, <1>2, <1>3, <1>4, <1>7
<1>12. \A t \in Sessions : Registered(t)' =>
          closed'[t] \/ registry'[cp'[t]] = t \/ \E u \in Sessions : TearsDown(u, t)'
  <2> SUFFICES ASSUME NEW t \in Sessions, Registered(t)', ~closed'[t], registry[cp[t]] # t
               PROVE  \E u \in Sessions : TearsDown(u, t)'
    OBVIOUS
  <2>1. t # x
    BY <1>8
  <2>2. PICK u \in Sessions : TearsDown(u, t)
    BY <2>1, <1>2, <1>7 DEF TeardownOwned
  <2>3. u # s
    BY <2>1, <2>2, <1>5
  <2>4. QED BY <2>2, <2>3, <1>3
<1>13. TeardownOwned'
  BY <1>10, <1>11, <1>12, Zenon DEF TeardownOwned
<1>14. QED BY <1>1, <1>9, <1>13

\* Every step preserves the invariant.
LEMMA NextIInv == IInv /\ [Next]_vars => IInv'
<1> SUFFICES ASSUME IInv, [Next]_vars PROVE IInv'
  OBVIOUS
<1>1. ASSUME NEW s \in Sessions, HandlerStep(s) PROVE IInv'
  <2>1. CASE Register(s)
    BY <2>1, RegisterKeeps
  <2>2. CASE EvictUnsubscribe(s) \/ DisconnectUnsubscribe(s)
    BY <2>2, UnsubscribeKeeps
  <2>3. CASE EvictClose(s)
    <3>1. evictee[s] \in Sessions /\ TearsDown(s, evictee[s])
      BY <2>3 DEF EvictClose, IInv, Bindings, TearsDown
    <3>2. QED BY <2>3, <3>1, CloseKeeps DEF EvictClose
  <2>4. CASE DisconnectClose(s)
    <3>1. victim[s] \in Sessions /\ TearsDown(s, victim[s])
      BY <2>4 DEF DisconnectClose, IInv, Bindings, TearsDown
    <3>2. QED BY <2>4, <3>1, CloseKeeps DEF DisconnectClose
  <2>5. CASE Disconnect(s)
    BY <2>5, DisconnectKeeps
  <2>6. CASE Subscribe(s) \/ SubscribeFails(s) \/ ReadFails(s) \/ Publish(s)
             \/ PublishFails(s) \/ CheckClosed(s)
    BY <2>6, QuietSteps, QuietMoveKeeps
  <2>7. QED
    BY <1>1, <2>1, <2>2, <2>3, <2>4, <2>5, <2>6 DEF HandlerStep
<1>2. ASSUME UNCHANGED <<regVars, pc>> PROVE IInv'
  BY <1>2 DEF IInv, RegistryType, Bindings, TeardownOwned, TearsDown, Registered, regVars
<1>3. ASSUME NEW s \in Sessions, WriterStep(s) PROVE IInv'
  BY <1>2, <1>3 DEF WriterStep, WriteFrame, WriteFails, WriterStops
<1>4. ASSUME NEW s \in Sessions, PeerStep(s) PROVE IInv'
  <2>1. CASE PeerCloses(s)
    BY <1>2, <2>1 DEF PeerCloses
  <2>2. CASE ~PeerCloses(s)
    BY <1>4, <2>2, QuietSteps, QuietMoveKeeps DEF PeerStep
  <2>3. QED BY <2>1, <2>2
<1>5. CASE DispatchStep
  BY <1>2, <1>5 DEF DispatchStep, Push, PushAborted
<1>6. CASE BrokerStep
  BY <1>2, <1>6 DEF BrokerStep, Deliver, Lose, LinkChanges
<1>7. CASE UNCHANGED vars
  BY <1>2, <1>7 DEF vars
<1>8. QED
  BY <1>1, <1>3, <1>4, <1>5, <1>6, <1>7 DEF Next

\* For any number of overlapping connections of any charge points: a registered
\* connection is in the registry, or owned by exactly one goroutine that will
\* close it, or closed; so CloseOnce is never contended, no channel is closed
\* twice and no connection is lost open.
THEOREM ExactlyOneOwner == Spec => []TeardownOwned
<1>1. Spec => []IInv
  BY InitIInv, NextIInv, PTL DEF Spec
<1>2. IInv => TeardownOwned
  BY DEF IInv
<1>3. QED BY <1>1, <1>2, PTL

-----------------------------------------------------------------------------
(* Frames from the charge point                                            *)

\* Handler states that a session reaches before it publishes after a close.
BeforePublish == {"idle", "refused", "subscribe", "register", "failed", "evictUnsub",
                  "evictClose", "reading", "publish"}

\* A session publishes late at most once, because it then looks at Closed().
LateInv ==
    /\ late \in [Sessions -> Nat]
    /\ \A s \in Sessions : late[s] # 0 => closed[s] /\ late[s] = 1 /\ pc[s] \notin BeforePublish

LEMMA LateStep == IInv /\ LateInv /\ [Next]_vars => LateInv'
<1> SUFFICES ASSUME IInv, LateInv, [Next]_vars PROVE LateInv'
  OBVIOUS
<1> USE DEF BeforePublish
<1>1. RegistryType
  BY DEF IInv
<1>2. ASSUME NEW s \in Sessions, Publish(s) PROVE LateInv'
  <2>1. late' = [late EXCEPT ![s] = IF closed[s] THEN @ + 1 ELSE @]
    BY <1>2 DEF Publish
  <2>2. UNCHANGED closed /\ pc' = [pc EXCEPT ![s] = "check"]
    BY <1>2 DEF Publish, regVars
  <2>3. late[s] = 0
    BY <1>2 DEF LateInv, Publish
  <2>4. late' \in [Sessions -> Nat]
    BY <2>1 DEF LateInv
  <2>5. late'[s] = (IF closed[s] THEN 1 ELSE 0) /\ \A t \in Sessions : t # s => late'[t] = late[t]
    BY <2>1, <2>3 DEF LateInv
  <2>6. pc'[s] = "check" /\ \A t \in Sessions : t # s => pc'[t] = pc[t]
    BY <1>1, <2>2 DEF RegistryType
  <2>7. QED BY <2>2, <2>4, <2>5, <2>6 DEF LateInv
<1>3. ASSUME NEW s \in Sessions, UNCHANGED late,
             \A t \in Sessions : closed[t] => closed'[t],
             \A t \in Sessions : t # s => pc'[t] = pc[t],
             pc'[s] \in BeforePublish => pc[s] \in BeforePublish \/ ~closed[s]
      PROVE  LateInv'
  BY <1>3 DEF LateInv
<1>4. ASSUME NEW s \in Sessions, HandlerStep(s) \/ ReadFails(s), ~Publish(s) PROVE LateInv'
  <2>1. UNCHANGED late
    BY <1>4 DEF HandlerStep, Subscribe, SubscribeFails, Register, EvictUnsubscribe, EvictClose,
                ReadFails, PublishFails, CheckClosed, Disconnect,
                DisconnectUnsubscribe, DisconnectClose
  <2>2. \A t \in Sessions : closed[t] => closed'[t]
    BY <1>1, <1>4 DEF RegistryType, HandlerStep, Subscribe, SubscribeFails, Register,
                EvictUnsubscribe, EvictClose, ReadFails, PublishFails, CheckClosed, Disconnect,
                DisconnectUnsubscribe, DisconnectClose, regVars
  <2>3. /\ \A t \in Sessions : t # s => pc'[t] = pc[t]
        /\ pc'[s] \in BeforePublish => pc[s] \in BeforePublish \/ ~closed[s]
    BY <1>1, <1>4 DEF RegistryType, HandlerStep, Subscribe, SubscribeFails, Register,
                EvictUnsubscribe, EvictClose, ReadFails, PublishFails, CheckClosed, Disconnect,
                DisconnectUnsubscribe, DisconnectClose
  <2>4. QED BY <1>3, <2>1, <2>2, <2>3
<1>5. ASSUME NEW s \in Sessions, Refuse(s) \/ (\E c \in ChargePoints : Upgrade(s, c)) \/ ReadFrame(s)
      PROVE  LateInv'
  <2>1. /\ UNCHANGED <<late, closed>>
        /\ \A t \in Sessions : t # s => pc'[t] = pc[t]
        /\ pc[s] \in BeforePublish
    BY <1>1, <1>5 DEF RegistryType, Refuse, Upgrade, ReadFrame, regVars
  <2>2. QED BY <1>3, <2>1
<1>6. ASSUME UNCHANGED <<late, closed, pc>> PROVE LateInv'
  BY <1>6 DEF LateInv
<1>7. ASSUME NEW s \in Sessions, WriterStep(s) \/ PeerCloses(s) PROVE LateInv'
  BY <1>6, <1>7 DEF WriterStep, WriteFrame, WriteFails, WriterStops, PeerCloses, regVars
<1>8. CASE DispatchStep \/ BrokerStep \/ UNCHANGED vars
  BY <1>6, <1>8 DEF DispatchStep, Push, PushAborted, BrokerStep, Deliver, Lose, LinkChanges,
                    vars, regVars
<1>9. QED BY <1>2, <1>4, <1>5, <1>7, <1>8 DEF Next, HandlerStep, PeerStep

\* For any number of sessions: once a session is closed, whoever closed it, at
\* most one more frame goes out in its charge point's name.
THEOREM LateFramesAreFew == Spec => []AtMostOneLateFrame
<1>1. Init => LateInv
  BY DEF Init, LateInv
<1>2. LateInv => AtMostOneLateFrame
  BY DEF LateInv, AtMostOneLateFrame
<1>3. QED BY InitIInv, NextIInv, LateStep, <1>1, <1>2, PTL DEF Spec

-----------------------------------------------------------------------------
(* Frames to the charge point                                              *)

Elems(q) == {q[i] : i \in 1 .. Len(q)}
Increasing(q) == \A i, j \in 1 .. Len(q) : i < j => q[i] < q[j]

\* The frames a session has written or is going to write.
FramesOf(s) == Elems(written[s]) \cup Elems(outbound[s])

FrameTypes ==
    /\ msgs \in [ChargePoints -> Nat]
    /\ outbound \in [Sessions -> Seq(Nat)]
    /\ written \in [Sessions -> Seq(Nat)]
    /\ dispatch \in SUBSET [conn : Sessions, msg : Nat]

\* A session's frames are in order, the written ones before the waiting ones.
InOrder(s) ==
    /\ Increasing(written[s])
    /\ Increasing(outbound[s])
    /\ \A m \in Elems(written[s]), n \in Elems(outbound[s]) : m < n

\* Every frame was published; the one in the callback's hands, if any, is newer
\* than all frames of its charge point's sessions; no two sessions share one.
FrameInv ==
    /\ FrameTypes
    /\ \A s \in Sessions : InOrder(s)
    /\ \A s \in Sessions : FramesOf(s) # {} => Registered(s)
    /\ \A s \in Sessions : \A m \in FramesOf(s) : m <= msgs[cp[s]]
    /\ \A d \in dispatch : Registered(d.conn) /\ d.msg <= msgs[cp[d.conn]]
    /\ \A d, e \in dispatch : d = e
    /\ \A d \in dispatch, s \in Sessions :
          cp[s] = cp[d.conn] => \A m \in FramesOf(s) : m < d.msg
    /\ \A s, t \in Sessions : s # t /\ cp[s] = cp[t] => FramesOf(s) \cap FramesOf(t) = {}

\* What the channel operations do to a sequence.
LEMMA AppendKeepsOrder ==
    ASSUME NEW q \in Seq(Nat), NEW m \in Nat, Increasing(q), \A n \in Elems(q) : n < m
    PROVE  /\ Append(q, m) \in Seq(Nat)
           /\ Elems(Append(q, m)) = Elems(q) \cup {m}
           /\ Increasing(Append(q, m))
<1> DEFINE r == Append(q, m)
<1>1. r \in Seq(Nat) /\ Len(r) = Len(q) + 1 /\ Len(q) \in Nat
  OBVIOUS
<1>2. r[Len(q) + 1] = m /\ \A i \in 1 .. Len(q) : r[i] = q[i]
  OBVIOUS
<1> HIDE DEF r
<1>3. \A i : i \in 1 .. Len(r) <=> i \in 1 .. Len(q) \/ i = Len(q) + 1
  BY <1>1
<1>4. Elems(r) = Elems(q) \cup {m}
  BY <1>2, <1>3 DEF Elems
<1>5. Increasing(r)
  <2> SUFFICES ASSUME NEW i \in 1 .. Len(r), NEW j \in 1 .. Len(r), i < j PROVE r[i] < r[j]
    BY DEF Increasing
  <2>1. i \in 1 .. Len(q)
    BY <1>1
  <2>2. CASE j \in 1 .. Len(q)
    BY <1>2, <2>1, <2>2 DEF Increasing
  <2>3. CASE j = Len(q) + 1
    BY <1>2, <2>1, <2>3 DEF Elems
  <2>4. QED BY <1>3, <2>2, <2>3
<1>6. QED BY <1>1, <1>4, <1>5 DEF r

LEMMA TailKeepsOrder ==
    ASSUME NEW q \in Seq(Nat), q # <<>>, Increasing(q)
    PROVE  /\ Tail(q) \in Seq(Nat) /\ Head(q) \in Nat
           /\ Elems(q) = Elems(Tail(q)) \cup {Head(q)}
           /\ Increasing(Tail(q))
           /\ \A n \in Elems(Tail(q)) : Head(q) < n
<1> DEFINE r == Tail(q)
<1>1. /\ r \in Seq(Nat) /\ Len(r) = Len(q) - 1 /\ Len(q) \in Nat \ {0} /\ Len(r) \in Nat
      /\ Head(q) = q[1] /\ q[1] \in Nat
  OBVIOUS
<1>2. \A i \in 1 .. Len(r) : r[i] = q[i + 1] /\ i + 1 \in 1 .. Len(q)
  BY <1>1
<1> HIDE DEF r
<1>3. \A j \in 1 .. Len(q) : j = 1 \/ (j - 1 \in 1 .. Len(r) /\ r[j - 1] = q[j])
  BY <1>1, <1>2
<1>4. Elems(q) = Elems(r) \cup {q[1]}
  <2>1. ASSUME NEW j \in 1 .. Len(q) PROVE q[j] \in Elems(r) \cup {q[1]}
    BY <1>3 DEF Elems
  <2>2. ASSUME NEW i \in 1 .. Len(r) PROVE r[i] \in Elems(q)
    BY <1>2 DEF Elems
  <2>3. q[1] \in Elems(q)
    BY <1>1 DEF Elems
  <2>4. QED BY <2>1, <2>2, <2>3 DEF Elems
<1>5. Increasing(r)
  <2> SUFFICES ASSUME NEW i \in 1 .. Len(r), NEW j \in 1 .. Len(r), i < j PROVE r[i] < r[j]
    BY DEF Increasing
  <2>1. i + 1 \in 1 .. Len(q) /\ j + 1 \in 1 .. Len(q) /\ i + 1 < j + 1
    BY <1>2
  <2>2. q[i + 1] < q[j + 1]
    BY <2>1 DEF Increasing
  <2>3. QED BY <1>2, <2>2
<1>6. \A i \in 1 .. Len(r) : q[1] < r[i]
  <2> SUFFICES ASSUME NEW i \in 1 .. Len(r) PROVE q[1] < r[i]
    OBVIOUS
  <2>1. 1 \in 1 .. Len(q) /\ i + 1 \in 1 .. Len(q) /\ 1 < i + 1
    BY <1>1, <1>2
  <2>2. q[1] < q[i + 1]
    BY <2>1 DEF Increasing
  <2>3. QED BY <1>2, <2>2
<1>7. \A n \in Elems(r) : q[1] < n
  BY <1>6 DEF Elems
<1>8. QED BY <1>1, <1>4, <1>5, <1>7 DEF r

LEMMA InitFrames == Init => FrameInv
<1> SUFFICES ASSUME Init PROVE FrameInv
  OBVIOUS
<1>1. \A s \in Sessions : written[s] = <<>> /\ outbound[s] = <<>>
  BY DEF Init
<1>2. Elems(<<>>) = {} /\ Increasing(<<>>)
  BY DEF Elems, Increasing
<1>3. \A s \in Sessions : FramesOf(s) = {} /\ InOrder(s)
  BY <1>1, <1>2 DEF FramesOf, InOrder
<1>4. FrameTypes
  BY DEF Init, FrameTypes
<1>5. QED BY <1>3, <1>4 DEF Init, FrameInv

\* A step of a handler: no frame moves, and a session that has frames keeps its
\* charge point.
LEMMA FramesStay ==
    ASSUME FrameInv, UNCHANGED <<msgs, outbound, written, dispatch>>,
           \A s \in Sessions : Registered(s) => Registered(s)' /\ cp'[s] = cp[s]
    PROVE  FrameInv'
<1>1. FrameTypes' /\ \A s \in Sessions : InOrder(s)'
  BY DEF FrameInv, FrameTypes, InOrder
<1>2. \A s \in Sessions : FramesOf(s)' = FramesOf(s)
  BY DEF FramesOf
<1>3. \A s \in Sessions : FramesOf(s) # {} => Registered(s) /\ Registered(s)' /\ cp'[s] = cp[s]
  BY DEF FrameInv
<1>4. \A d \in dispatch : d.conn \in Sessions
  BY DEF FrameInv, FrameTypes
<1>5. \A d \in dispatch : Registered(d.conn) /\ Registered(d.conn)' /\ cp'[d.conn] = cp[d.conn]
  BY <1>4 DEF FrameInv
<1>6. \A s \in Sessions : \A m \in FramesOf(s)' : m <= msgs[cp'[s]]
  BY <1>2, <1>3 DEF FrameInv
<1>7. \A d \in dispatch : d.msg <= msgs[cp'[d.conn]]
  BY <1>5 DEF FrameInv
<1>8. \A d \in dispatch, s \in Sessions :
          cp'[s] = cp'[d.conn] => \A m \in FramesOf(s)' : m < d.msg
  BY <1>2, <1>3, <1>5 DEF FrameInv
<1>9. \A s, t \in Sessions : s # t /\ cp'[s] = cp'[t] => FramesOf(s)' \cap FramesOf(t)' = {}
  BY <1>2, <1>3 DEF FrameInv
<1>10. \A d, e \in dispatch' : d = e
  BY DEF FrameInv
<1>11. \A s \in Sessions : FramesOf(s)' # {} => Registered(s)'
  BY <1>2, <1>3
<1>12. \A d \in dispatch' : Registered(d.conn)'
  BY <1>4, <1>5 DEF Registered
<1>13. QED BY <1>1, <1>6, <1>7, <1>8, <1>9, <1>10, <1>11, <1>12 DEF FrameInv

\* A frame comes from the broker, or is lost: it is newer than all before it.
LEMMA DeliverKeeps ==
    ASSUME IInv, FrameInv, NEW c \in ChargePoints, Deliver(c) \/ Lose(c)
    PROVE  FrameInv'
<1> USE DEF FrameInv
<1>1. UNCHANGED <<registry, cp, pc, outbound, written>>
  BY DEF Deliver, Lose, regVars
<1>2. /\ msgs' \in [ChargePoints -> Nat]
      /\ msgs'[c] = msgs[c] + 1 /\ msgs[c] \in Nat
      /\ \A d \in ChargePoints : d # c => msgs'[d] = msgs[d]
  BY DEF Deliver, Lose, FrameTypes
<1>3. \A s \in Sessions : FramesOf(s)' = FramesOf(s) /\ InOrder(s)' /\ (Registered(s)' <=> Registered(s))
  BY <1>1 DEF FramesOf, InOrder, Registered
<1>4. \A s \in Sessions : Registered(s) => cp[s] \in ChargePoints
  BY DEF IInv, Bindings, Registered, Unregistered
<1>5. \A s \in Sessions : \A m \in FramesOf(s) : m \in Nat
  BY DEF FrameTypes, FramesOf, Elems
<1>6. \A s \in Sessions : \A m \in FramesOf(s)' : m <= msgs'[cp'[s]]
  <2> SUFFICES ASSUME NEW s \in Sessions, NEW m \in FramesOf(s) PROVE m <= msgs'[cp[s]]
    BY <1>1, <1>3
  <2>1. m <= msgs[cp[s]] /\ cp[s] \in ChargePoints /\ m \in Nat
    BY <1>4, <1>5
  <2>2. QED BY <1>2, <2>1
<1>7. CASE dispatch' = dispatch
  <2>1. FrameTypes'
    BY <1>1, <1>2, <1>7 DEF FrameTypes
  <2>2. \A d \in dispatch' : Registered(d.conn)' /\ d.msg <= msgs'[cp'[d.conn]]
    <3> SUFFICES ASSUME NEW d \in dispatch PROVE Registered(d.conn)' /\ d.msg <= msgs'[cp[d.conn]]
      BY <1>1, <1>7
    <3>1. d.conn \in Sessions /\ d.msg \in Nat
      BY DEF FrameTypes
    <3>2. Registered(d.conn) /\ d.msg <= msgs[cp[d.conn]] /\ cp[d.conn] \in ChargePoints
      BY <1>4, <3>1
    <3>3. Registered(d.conn)'
      BY <1>1, <3>2 DEF Registered
    <3>4. QED BY <1>2, <3>1, <3>2, <3>3
  <2>3. \A d \in dispatch', s \in Sessions :
            cp'[s] = cp'[d.conn] => \A m \in FramesOf(s)' : m < d.msg
    BY <1>1, <1>3, <1>7
  <2>4. \A d, e \in dispatch' : d = e
    BY <1>7
  <2>5. QED BY <1>1, <1>3, <1>6, <2>1, <2>2, <2>3, <2>4
<1>8. CASE dispatch' = {}
  BY <1>1, <1>2, <1>3, <1>6, <1>8 DEF FrameTypes
<1>9. CASE registry[c] # None /\ dispatch' = {[conn |-> registry[c], msg |-> msgs[c] + 1]}
  <2>1. registry[c] \in Sessions /\ cp[registry[c]] = c /\ Registered(registry[c])
    BY <1>9 DEF IInv, RegistryType, TeardownOwned
  <2>2. PICK new \in [conn : Sessions, msg : Nat] :
            new.conn = registry[c] /\ new.msg = msgs[c] + 1 /\ dispatch' = {new}
    BY <1>2, <1>9, <2>1
  <2>3. FrameTypes'
    BY <1>1, <1>2, <2>2 DEF FrameTypes
  <2>4. Registered(new.conn)' /\ new.msg <= msgs'[cp'[new.conn]]
    <3>1. Registered(new.conn)'
      BY <1>1, <2>1, <2>2 DEF Registered
    <3>2. QED BY <1>1, <1>2, <2>1, <2>2, <3>1
  <2>5. ASSUME NEW s \in Sessions, cp[s] = c, NEW m \in FramesOf(s) PROVE m < new.msg
    BY <1>2, <1>5, <2>2, <2>5
  <2>6. \A d \in dispatch', s \in Sessions :
            cp'[s] = cp'[d.conn] => \A m \in FramesOf(s)' : m < d.msg
    BY <1>1, <1>3, <2>1, <2>2, <2>5
  <2>7. \A d \in dispatch' : Registered(d.conn)' /\ d.msg <= msgs'[cp'[d.conn]]
    <3>1. \A d \in dispatch' : d = new
      BY <2>2
    <3>2. QED BY <2>4, <3>1 DEF Registered
  <2>8. \A d, e \in dispatch' : d = e
    BY <2>2
  <2>9. QED BY <1>1, <1>3, <1>6, <2>3, <2>6, <2>7, <2>8
<1>10. QED BY <1>7, <1>8, <1>9 DEF Deliver, Lose

\* The frame of the callback goes to the end of its session's channel, or away.
LEMMA PushKeeps ==
    ASSUME FrameInv, NEW d \in dispatch, Push(d) \/ PushAborted(d)
    PROVE  FrameInv'
<1> USE DEF FrameInv
<1>1. UNCHANGED <<cp, pc, msgs, written>>
  BY DEF Push, PushAborted, regVars
<1>2. dispatch' = {}
  BY DEF Push, PushAborted
<1>3. d.conn \in Sessions /\ d.msg \in Nat /\ Registered(d.conn) /\ d.msg <= msgs[cp[d.conn]]
  BY DEF FrameTypes
<1>4. \A s \in Sessions : Registered(s)' <=> Registered(s)
  BY <1>1 DEF Registered
<1>5. CASE outbound' = outbound
  <2>1. \A s \in Sessions : FramesOf(s)' = FramesOf(s) /\ InOrder(s)'
    BY <1>1, <1>5 DEF FramesOf, InOrder
  <2>2. FrameTypes'
    BY <1>1, <1>2, <1>5 DEF FrameTypes
  <2>3. QED BY <1>1, <1>2, <1>4, <2>1, <2>2
<1>6. CASE outbound' = [outbound EXCEPT ![d.conn] = Append(@, d.msg)]
  <2> DEFINE x == d.conn
             m == d.msg
  <2>1. outbound[x] \in Seq(Nat) /\ Increasing(outbound[x])
    BY <1>3 DEF FrameTypes, InOrder
  <2>2. \A n \in FramesOf(x) : n < m
    BY <1>3
  <2>3. /\ Append(outbound[x], m) \in Seq(Nat)
        /\ Elems(Append(outbound[x], m)) = Elems(outbound[x]) \cup {m}
        /\ Increasing(Append(outbound[x], m))
    BY <1>3, <2>1, <2>2, AppendKeepsOrder DEF FramesOf
  <2>4. /\ outbound'[x] = Append(outbound[x], m)
        /\ \A s \in Sessions : s # x => outbound'[s] = outbound[s]
    BY <1>3, <1>6 DEF FrameTypes
  <2>5. FrameTypes'
    BY <1>1, <1>2, <1>6, <2>3 DEF FrameTypes
  <2> HIDE DEF x, m
  <2>6. x \in Sessions /\ m \in Nat /\ Registered(x) /\ m <= msgs[cp[x]]
    BY <1>3 DEF x, m
  <2>7. FramesOf(x)' = FramesOf(x) \cup {m}
    BY <1>1, <2>3, <2>4 DEF FramesOf
  <2>8. \A s \in Sessions : s # x => FramesOf(s)' = FramesOf(s) /\ InOrder(s)'
    BY <1>1, <2>4 DEF FramesOf, InOrder
  <2>9. InOrder(x)'
    BY <1>1, <2>2, <2>3, <2>4, <2>6 DEF InOrder, FramesOf
  <2>10. \A s \in Sessions : cp[s] = cp[x] => m \notin FramesOf(s)
    <3>1. \A s \in Sessions : cp[s] = cp[x] => \A n \in FramesOf(s) : n < m
      BY DEF x, m
    <3>2. QED BY <2>6, <3>1
  <2>11. \A s, t \in Sessions : s # t /\ cp'[s] = cp'[t] => FramesOf(s)' \cap FramesOf(t)' = {}
    <3> SUFFICES ASSUME NEW s \in Sessions, NEW t \in Sessions, s # t, cp[s] = cp[t]
                 PROVE  FramesOf(s)' \cap FramesOf(t)' = {}
      BY <1>1
    <3>1. FramesOf(s) \cap FramesOf(t) = {}
      OBVIOUS
    <3>2. QED BY <2>7, <2>8, <2>10, <3>1
  <2>12. \A s \in Sessions : \A n \in FramesOf(s)' : n <= msgs[cp[s]]
    BY <2>6, <2>7, <2>8
  <2>13. \A s \in Sessions : InOrder(s)' /\ (FramesOf(s)' # {} => Registered(s)')
    BY <1>4, <2>6, <2>7, <2>8, <2>9
  <2>14. QED BY <1>1, <1>2, <2>5, <2>11, <2>12, <2>13
<1>7. QED BY <1>5, <1>6 DEF Push, PushAborted

\* The writer takes the first frame of its channel, and writes it or fails.
LEMMA WriteKeeps ==
    ASSUME FrameInv, NEW x \in Sessions, WriteFrame(x) \/ WriteFails(x)
    PROVE  FrameInv'
<1> USE DEF FrameInv
<1>1. UNCHANGED <<cp, pc, msgs, dispatch>> /\ outbound[x] # <<>>
  BY DEF WriteFrame, WriteFails, regVars
<1>2. outbound' = [outbound EXCEPT ![x] = Tail(@)]
  BY DEF WriteFrame, WriteFails
<1>3. written' = written \/ written' = [written EXCEPT ![x] = Append(@, Head(outbound[x]))]
  BY DEF WriteFrame, WriteFails
<1>4. outbound[x] \in Seq(Nat) /\ written[x] \in Seq(Nat) /\ InOrder(x)
  BY DEF FrameTypes
<1> DEFINE h == Head(outbound[x])
           q == Tail(outbound[x])
<1>5. /\ q \in Seq(Nat) /\ h \in Nat
      /\ Elems(outbound[x]) = Elems(q) \cup {h}
      /\ Increasing(q)
      /\ \A n \in Elems(q) : h < n
  BY <1>1, <1>4, TailKeepsOrder DEF InOrder
<1>6. \A n \in Elems(written[x]) : n < h
  BY <1>4, <1>5 DEF InOrder
<1>7. /\ Append(written[x], h) \in Seq(Nat)
      /\ Elems(Append(written[x], h)) = Elems(written[x]) \cup {h}
      /\ Increasing(Append(written[x], h))
  BY <1>4, <1>5, <1>6, AppendKeepsOrder DEF InOrder
<1>8. outbound'[x] = q /\ \A s \in Sessions : s # x => outbound'[s] = outbound[s]
  BY <1>2 DEF FrameTypes
<1>9. /\ written'[x] \in {written[x], Append(written[x], h)}
      /\ \A s \in Sessions : s # x => written'[s] = written[s]
  BY <1>3 DEF FrameTypes
<1>10. FrameTypes'
  BY <1>1, <1>2, <1>3, <1>5, <1>7 DEF FrameTypes
<1> HIDE DEF h, q
<1>11. \A s \in Sessions : FramesOf(s)' \subseteq FramesOf(s)
  BY <1>5, <1>7, <1>8, <1>9 DEF FramesOf
<1>12. \A s \in Sessions : InOrder(s)'
  <2>1. InOrder(x)'
    <3>1. Increasing(written'[x]) /\ Increasing(outbound'[x])
      BY <1>4, <1>5, <1>7, <1>8, <1>9 DEF InOrder
    <3>2. \A m \in Elems(written'[x]), n \in Elems(outbound'[x]) : m < n
      BY <1>4, <1>5, <1>7, <1>8, <1>9 DEF InOrder
    <3>3. QED BY <3>1, <3>2 DEF InOrder
  <2>2. \A s \in Sessions : s # x => InOrder(s)'
    BY <1>8, <1>9 DEF InOrder
  <2>3. QED BY <2>1, <2>2
<1>13. /\ \A s \in Sessions : FramesOf(s)' # {} => Registered(s)'
       /\ \A d \in dispatch' : Registered(d.conn)'
  BY <1>1, <1>11 DEF Registered
<1>14. /\ \A s \in Sessions : \A m \in FramesOf(s)' : m <= msgs'[cp'[s]]
       /\ \A d \in dispatch' : d.msg <= msgs'[cp'[d.conn]]
       /\ \A d \in dispatch', s \in Sessions :
             cp'[s] = cp'[d.conn] => \A m \in FramesOf(s)' : m < d.msg
  BY <1>1, <1>11
<1>15. /\ \A s, t \in Sessions : s # t /\ cp'[s] = cp'[t] => FramesOf(s)' \cap FramesOf(t)' = {}
       /\ \A d, e \in dispatch' : d = e
  BY <1>1, <1>11
<1>16. QED BY <1>10, <1>12, <1>13, <1>14, <1>15

LEMMA FramesStep == IInv /\ FrameInv /\ [Next]_vars => FrameInv'
<1> SUFFICES ASSUME IInv, FrameInv, [Next]_vars PROVE FrameInv'
  OBVIOUS
<1>1. RegistryType
  BY DEF IInv
<1>2. ASSUME NEW s \in Sessions, HandlerStep(s) \/ PeerStep(s) PROVE FrameInv'
  <2>1. UNCHANGED <<msgs, outbound, written, dispatch>>
    BY <1>2 DEF HandlerStep, PeerStep, Subscribe, SubscribeFails, Register, EvictUnsubscribe,
                EvictClose, ReadFails, Publish, PublishFails, CheckClosed, Disconnect,
                DisconnectUnsubscribe, DisconnectClose, Refuse, Upgrade, ReadFrame, PeerCloses,
                outVars
  <2>2. \A t \in Sessions : Registered(t) => Registered(t)' /\ cp'[t] = cp[t]
    BY <1>1, <1>2 DEF RegistryType, Registered, Unregistered, HandlerStep, PeerStep, Subscribe,
                SubscribeFails, Register, EvictUnsubscribe, EvictClose, ReadFails, Publish,
                PublishFails, CheckClosed, Disconnect, DisconnectUnsubscribe, DisconnectClose,
                Refuse, Upgrade, ReadFrame, PeerCloses, regVars
  <2>3. QED BY <2>1, <2>2, FramesStay
<1>3. ASSUME UNCHANGED <<cp, pc, msgs, outbound, written, dispatch>> PROVE FrameInv'
  BY <1>3, FramesStay DEF Registered
<1>4. ASSUME NEW s \in Sessions, WriterStep(s) PROVE FrameInv'
  <2>1. CASE WriterStops(s)
    BY <1>3, <2>1 DEF WriterStops, regVars
  <2>2. QED BY <1>4, <2>1, WriteKeeps DEF WriterStep
<1>5. CASE DispatchStep
  BY <1>5, PushKeeps DEF DispatchStep
<1>6. CASE BrokerStep
  <2>1. CASE LinkChanges
    BY <1>3, <2>1 DEF LinkChanges, regVars, outVars
  <2>2. QED BY <1>6, <2>1, DeliverKeeps DEF BrokerStep
<1>7. CASE UNCHANGED vars
  BY <1>3, <1>7 DEF vars, regVars, outVars
<1>8. QED BY <1>2, <1>4, <1>5, <1>6, <1>7 DEF Next

\* Where the elements of a concatenation come from.
LEMMA ConcatIndices ==
    ASSUME NEW w \in Seq(Nat), NEW o \in Seq(Nat)
    PROVE  /\ Len(w \o o) = Len(w) + Len(o) /\ Len(w) \in Nat /\ Len(o) \in Nat
           /\ \A i \in 1 .. Len(w) : (w \o o)[i] = w[i]
           /\ \A i \in Len(w) + 1 .. Len(w \o o) :
                 (w \o o)[i] = o[i - Len(w)] /\ i - Len(w) \in 1 .. Len(o)
<1>1. Len(w \o o) = Len(w) + Len(o) /\ Len(w) \in Nat /\ Len(o) \in Nat
  OBVIOUS
<1>2. ASSUME NEW i \in 1 .. Len(w) PROVE (w \o o)[i] = w[i]
  <2>1. i \in 1 .. Len(w) + Len(o) /\ i <= Len(w)
    BY <1>1
  <2>2. QED BY <2>1
<1>3. ASSUME NEW i \in Len(w) + 1 .. Len(w \o o)
      PROVE  (w \o o)[i] = o[i - Len(w)] /\ i - Len(w) \in 1 .. Len(o)
  <2>1. i \in 1 .. Len(w) + Len(o) /\ ~(i <= Len(w)) /\ i - Len(w) \in 1 .. Len(o)
    BY <1>1
  <2>2. QED BY <2>1
<1>4. QED BY <1>1, <1>2, <1>3

\* For any number of sessions, charge points and frames, and any capacity of the
\* channels: a charge point's frames reach its sockets in order, none twice.
THEOREM FramesKeepOrder == Spec => []FramesInOrder
<1>1. FrameInv => FramesInOrder
  <2> SUFFICES ASSUME FrameInv PROVE FramesInOrder
    OBVIOUS
  <2>1. ASSUME NEW s \in Sessions
        PROVE  LET f == written[s] \o outbound[s]
               IN  \A i, j \in 1 .. Len(f) : i < j => f[i] < f[j]
    <3> DEFINE w == written[s]
               o == outbound[s]
               f == w \o o
    <3>1. w \in Seq(Nat) /\ o \in Seq(Nat) /\ InOrder(s)
      BY DEF FrameInv, FrameTypes
    <3>2. /\ Len(f) = Len(w) + Len(o) /\ Len(w) \in Nat /\ Len(o) \in Nat
          /\ \A i \in 1 .. Len(w) : f[i] = w[i]
          /\ \A i \in Len(w) + 1 .. Len(f) : f[i] = o[i - Len(w)] /\ i - Len(w) \in 1 .. Len(o)
      BY <3>1, ConcatIndices
    <3>3. /\ Increasing(w) /\ Increasing(o)
          /\ \A m \in Elems(w), n \in Elems(o) : m < n
      BY <3>1 DEF InOrder
    <3> SUFFICES ASSUME NEW i \in 1 .. Len(f), NEW j \in 1 .. Len(f), i < j PROVE f[i] < f[j]
      OBVIOUS
    <3> HIDE DEF w, o, f
    <3>4. CASE j <= Len(w)
      <4>1. i \in 1 .. Len(w) /\ j \in 1 .. Len(w)
        BY <3>2, <3>4
      <4>2. w[i] < w[j]
        BY <3>3, <4>1 DEF Increasing
      <4>3. QED BY <3>2, <4>1, <4>2
    <3>5. CASE i <= Len(w) /\ j > Len(w)
      <4>1. i \in 1 .. Len(w) /\ j \in Len(w) + 1 .. Len(f)
        BY <3>2, <3>5
      <4>2. w[i] \in Elems(w) /\ o[j - Len(w)] \in Elems(o)
        BY <3>2, <4>1 DEF Elems
      <4>3. QED BY <3>2, <3>3, <4>1, <4>2
    <3>6. CASE i > Len(w)
      <4>1. i \in Len(w) + 1 .. Len(f) /\ j \in Len(w) + 1 .. Len(f)
        BY <3>2, <3>6
      <4>2. i - Len(w) \in 1 .. Len(o) /\ j - Len(w) \in 1 .. Len(o) /\ i - Len(w) < j - Len(w)
        BY <3>2, <4>1
      <4>3. o[i - Len(w)] < o[j - Len(w)]
        BY <3>3, <4>2 DEF Increasing
      <4>4. QED BY <3>2, <4>1, <4>3
    <3>7. QED BY <3>2, <3>4, <3>5, <3>6
  <2>2. ASSUME NEW s \in Sessions, NEW t \in Sessions, s # t, cp[s] = cp[t],
               NEW i \in 1 .. Len(written[s]), NEW j \in 1 .. Len(written[t])
        PROVE  written[s][i] # written[t][j]
    <3>1. written[s][i] \in FramesOf(s) /\ written[t][j] \in FramesOf(t)
      BY DEF FramesOf, Elems
    <3>2. FramesOf(s) \cap FramesOf(t) = {}
      BY <2>2 DEF FrameInv
    <3>3. QED BY <3>1, <3>2
  <2>3. QED BY <2>1, <2>2 DEF FramesInOrder
<1>2. QED BY InitIInv, NextIInv, InitFrames, FramesStep, <1>1, PTL DEF Spec
=============================================================================
