------------------------- MODULE CentralSystemProofs -------------------------
(***************************************************************************)
(* Proofs about Processor, for any set of frames and of actions, and about *)
(* CentralSystem: each of the two processes does in the whole what it does *)
(* alone, so the theorems about each carry over, and together they give    *)
(* what a charge point can rely on.                                        *)
(***************************************************************************)
EXTENDS CentralSystem, TLAPS

TSP == INSTANCE TransactionServiceProofs WITH Requests <- Frames, up <- coreUp, pc <- tpc

-----------------------------------------------------------------------------
(* message-processor alone                                                 *)

\* Before the answer is published: the goroutine works for a CALL and nothing is
\* on the wire.
Unanswered == {"call", "lookup", "compile", "store", "validate", "result", "error"}

\* On the way to a CALLRESULT.
Succeeding == {"lookup", "compile", "store", "validate", "result"}

\* Where a frame can be, given what was published and audited for it.
Progress(f) ==
    /\ pc[f] = "new" => kind[f] = None /\ answers[f] = <<>> /\ audit[f] = "none"
    /\ pc[f] \in Unanswered => IsCall(f) /\ answers[f] = <<>> /\ audit[f] = "consumed"
    /\ pc[f] = "call" => kind[f] = "business"
    /\ pc[f] \in {"call"} \cup Succeeding => action[f] \in Actions
    /\ pc[f] = "published" => answers[f] \in {<<"result">>, <<"error">>}
    /\ pc[f] \in {"published", "unpublished"} => audit[f] = "consumed"
    /\ answers[f] \in {<<>>, <<"result">>, <<"error">>}
    /\ answers[f] # <<>> => IsCall(f)
    /\ pc[f] = "done" /\ IsCall(f) =>
          audit[f] \in {"responded", "not_implemented", "publish_failed"}
    /\ kind[f] = "unknown" => pc[f] \notin Succeeding /\ answers[f] # <<"result">>
    /\ pc[f] = "unpublished" \/ audit[f] = "publish_failed" => LinkFaults
    /\ audit[f] \in {"responded", "not_implemented"} => answers[f] # <<>>
    /\ audit[f] = "not_implemented" => kind[f] = "unknown"

\* What the answer rests on.
Backed(f) ==
    /\ core[f] = "ok" => effect[f] = TRUE
    /\ kind[f] = "business" /\ (pc[f] \in Succeeding \/ answers[f] = <<"result">>)
          => core[f] = "ok"

IInv ==
    /\ TypeOK
    /\ \A f \in Frames : Progress(f) /\ Backed(f)

\* The three values a frame's answers can have.
LEMMA AnswerFacts ==
    /\ Append(<<>>, "result") = <<"result">>
    /\ Append(<<>>, "error") = <<"error">>
    /\ <<"result">> # <<>> /\ <<"error">> # <<>> /\ <<"result">> # <<"error">>
    /\ Len(<<>>) = 0 /\ Len(<<"result">>) = 1 /\ Len(<<"error">>) = 1
    /\ <<>> \in Seq({"result", "error"})
    /\ <<"result">> \in Seq({"result", "error"})
    /\ <<"error">> \in Seq({"result", "error"})
  OBVIOUS

\* The initial state satisfies the invariant.
LEMMA InitIInv == Init => IInv
<1> SUFFICES ASSUME Init PROVE IInv
  OBVIOUS
<1>1. up \in BOOLEAN /\ effect \in [Frames -> BOOLEAN]
  BY Zenon DEF Init
<1>2. TypeOK
  BY <1>1, AnswerFacts DEF Init, TypeOK, InFlight, Running, Decisions
<1>3. QED
  BY <1>2, ProcessorAssumption, AnswerFacts
     DEF Init, IInv, Progress, Backed, Unanswered, Succeeding, IsCall, CallKinds

\* Every variable keeps its type.
LEMMA TypeStep == IInv /\ [Next]_vars => TypeOK'
<1> SUFFICES ASSUME IInv, [Next]_vars PROVE TypeOK'
  OBVIOUS
<1> USE AnswerFacts, ProcessorAssumption
    DEF IInv, TypeOK, coreVars, outVars, Kinds, CallKinds, Actions, InFlight, Running,
        Decisions, Progress, Unanswered, Succeeding
<1>1. ASSUME NEW f \in Frames, NEW k \in {"garbage", "answer"}, Ignore(f, k) PROVE TypeOK'
  BY <1>1 DEF Ignore
<1>2. ASSUME NEW f \in Frames, NEW a \in LocalActions, AnswerLocally(f, a) PROVE TypeOK'
  BY <1>2 DEF AnswerLocally
<1>3. ASSUME NEW f \in Frames, NEW a \in CoreActions, CallCore(f, a) PROVE TypeOK'
  BY <1>3 DEF CallCore
<1>4. ASSUME NEW f \in Frames, CoreRuns(f) PROVE TypeOK'
  <2>1. effect' \in [Frames -> BOOLEAN]
    BY <1>4, Zenon DEF CoreRuns
  <2>2. core' \in [Frames -> {"idle", "queued", "ok", "failed"}]
    BY <1>4 DEF CoreRuns
  <2>3. QED BY <1>4, <2>1, <2>2 DEF CoreRuns
<1>5. ASSUME NEW f \in Frames, CoreAnswers(f) PROVE TypeOK'
  BY <1>5 DEF CoreAnswers
<1>6. ASSUME NEW f \in Frames, CoreFails(f) PROVE TypeOK'
  BY <1>6 DEF CoreFails
<1>7. ASSUME NEW f \in Frames, CoreTimesOut(f) PROVE TypeOK'
  BY <1>7 DEF CoreTimesOut
<1>8. ASSUME NEW f \in Frames, Lookup(f) PROVE TypeOK'
  BY <1>8 DEF Lookup
<1>9. ASSUME NEW f \in Frames, Compile(f) PROVE TypeOK'
  BY <1>9 DEF Compile
<1>10. ASSUME NEW f \in Frames, Store(f) PROVE TypeOK'
  BY <1>10 DEF Store
<1>11. ASSUME NEW f \in Frames, Validate(f) PROVE TypeOK'
  BY <1>11 DEF Validate
<1>12. ASSUME NEW f \in Frames, Publish(f) PROVE TypeOK'
  BY <1>12 DEF Publish
<1>13. ASSUME NEW f \in Frames, PublishFails(f) PROVE TypeOK'
  <2>1. Append(answers[f], pc[f]) \in Seq({"result", "error"})
    BY <1>13 DEF PublishFails
  <2>2. answers' \in [Frames -> Seq({"result", "error"})]
    BY <1>13, <2>1 DEF PublishFails
  <2>3. QED BY <1>13, <2>2 DEF PublishFails
<1>14. ASSUME NEW f \in Frames, Emit(f) PROVE TypeOK'
  BY <1>14 DEF Emit
<1>15. ASSUME NEW f \in Frames, Lose(f) PROVE TypeOK'
  BY <1>15 DEF Lose
<1>16. ASSUME NEW f \in Frames, NotImplemented(f) PROVE TypeOK'
  BY <1>16 DEF NotImplemented
<1>17. CASE Dies
  BY <1>17 DEF Dies, Running
<1>18. CASE Restart
  BY <1>18 DEF Restart
<1>19. CASE UNCHANGED vars
  BY <1>19 DEF vars
<1> HIDE DEF IInv, TypeOK, Progress, Backed
<1>20. QED
  BY <1>1, <1>2, <1>3, <1>4, <1>5, <1>6, <1>7, <1>8, <1>9, <1>10, <1>11, <1>12, <1>13, <1>14, <1>15, <1>16, <1>17, <1>18, <1>19
     DEF Next, Arrival, Goroutine, Crash, RaceCrash

\* Every frame stays where its answer and its audit event say, and results stay
\* backed.
LEMMA ProgressStep ==
    IInv /\ TypeOK' /\ [Next]_vars => \A g \in Frames : Progress(g)' /\ Backed(g)'
<1> SUFFICES ASSUME IInv, TypeOK', [Next]_vars, NEW g \in Frames
             PROVE  Progress(g)' /\ Backed(g)'
  OBVIOUS
<1> USE AnswerFacts, ProcessorAssumption
    DEF IInv, TypeOK, coreVars, outVars, CallKinds, IsCall, Actions, InFlight, Running,
        Progress, Backed, Unanswered, Succeeding
<1>1. ASSUME NEW f \in Frames, NEW k \in {"garbage", "answer"}, Ignore(f, k) PROVE Progress(g)' /\ Backed(g)'
  BY <1>1 DEF Ignore
<1>2. ASSUME NEW f \in Frames, NEW a \in LocalActions, AnswerLocally(f, a) PROVE Progress(g)' /\ Backed(g)'
  BY <1>2 DEF AnswerLocally
<1>3. ASSUME NEW f \in Frames, NEW a \in CoreActions, CallCore(f, a) PROVE Progress(g)' /\ Backed(g)'
  <2>1. CASE g # f
    BY <1>3, <2>1 DEF CallCore
  <2>2. CASE g = f
    <3>1. Progress(g)'
      BY <1>3, <2>2 DEF CallCore
    <3>2. Backed(g)'
      <4>1. answers'[g] = <<>> /\ core'[g] = "queued" /\ pc'[g] = "call"
        BY <1>3, <2>2 DEF CallCore
      <4>2. QED BY <4>1
    <3>3. QED BY <3>1, <3>2
  <2>3. QED BY <2>1, <2>2
<1>4. ASSUME NEW f \in Frames, CoreRuns(f) PROVE Progress(g)' /\ Backed(g)'
  <2>1. CASE g # f
    BY <1>4, <2>1 DEF CoreRuns
  <2>2. CASE g = f
    <3>1. Progress(g)'
      BY <1>4, <2>2 DEF CoreRuns
    <3>2. Backed(g)'
      BY <1>4, <2>2 DEF CoreRuns
    <3>3. QED BY <3>1, <3>2
  <2>3. QED BY <2>1, <2>2
<1>5. ASSUME NEW f \in Frames, CoreAnswers(f) PROVE Progress(g)' /\ Backed(g)'
  <2>1. CASE g # f
    BY <1>5, <2>1 DEF CoreAnswers
  <2>2. CASE g = f
    <3>1. Progress(g)'
      BY <1>5, <2>2 DEF CoreAnswers
    <3>2. Backed(g)'
      BY <1>5, <2>2 DEF CoreAnswers
    <3>3. QED BY <3>1, <3>2
  <2>3. QED BY <2>1, <2>2
<1>6. ASSUME NEW f \in Frames, CoreFails(f) PROVE Progress(g)' /\ Backed(g)'
  BY <1>6 DEF CoreFails
<1>7. ASSUME NEW f \in Frames, CoreTimesOut(f) PROVE Progress(g)' /\ Backed(g)'
  BY <1>7 DEF CoreTimesOut
<1>8. ASSUME NEW f \in Frames, Lookup(f) PROVE Progress(g)' /\ Backed(g)'
  BY <1>8 DEF Lookup
<1>9. ASSUME NEW f \in Frames, Compile(f) PROVE Progress(g)' /\ Backed(g)'
  BY <1>9 DEF Compile
<1>10. ASSUME NEW f \in Frames, Store(f) PROVE Progress(g)' /\ Backed(g)'
  BY <1>10 DEF Store
<1>11. ASSUME NEW f \in Frames, Validate(f) PROVE Progress(g)' /\ Backed(g)'
  BY <1>11 DEF Validate
<1>12. ASSUME NEW f \in Frames, Publish(f) PROVE Progress(g)' /\ Backed(g)'
  <2>1. CASE g # f
    BY <1>12, <2>1 DEF Publish
  <2>2. CASE g = f
    <3>1. answers[g] = <<>> /\ IsCall(g) /\ audit[g] = "consumed" /\ UNCHANGED <<kind, core, effect, audit, action>>
      BY <1>12, <2>2 DEF Publish
    <3>2. \/ pc[g] = "result" /\ answers'[g] = <<"result">>
          \/ pc[g] = "error" /\ answers'[g] = <<"error">>
      BY <1>12, <2>2, <3>1 DEF Publish
    <3>3. pc'[g] = "published"
      BY <1>12, <2>2, <3>1 DEF Publish
    <3>4. Progress(g)'
      BY <3>1, <3>2, <3>3
    <3>5. Backed(g)'
      BY <3>1, <3>2, <3>3
    <3>6. QED BY <3>4, <3>5
  <2>3. QED BY <2>1, <2>2
<1>13. ASSUME NEW f \in Frames, PublishFails(f) PROVE Progress(g)' /\ Backed(g)'
  <2>1. CASE g # f
    BY <1>13, <2>1 DEF PublishFails
  <2>2. CASE g = f
    <3>1. answers[g] = <<>> /\ IsCall(g) /\ audit[g] = "consumed" /\ UNCHANGED <<kind, core, effect, audit, action>>
      BY <1>13, <2>2 DEF PublishFails
    <3>2. \/ pc[g] = "result" /\ answers'[g] \in {<<>>, <<"result">>}
          \/ pc[g] = "error" /\ answers'[g] \in {<<>>, <<"error">>}
      BY <1>13, <2>2, <3>1 DEF PublishFails
    <3>3. (pc'[g] = "published" /\ answers'[g] # <<>>) \/ (pc'[g] = "unpublished" /\ LinkFaults)
      BY <1>13, <2>2, <3>1 DEF PublishFails
    <3>4. Progress(g)'
      BY <3>1, <3>2, <3>3
    <3>5. Backed(g)'
      BY <3>1, <3>2, <3>3
    <3>6. QED BY <3>4, <3>5
  <2>3. QED BY <2>1, <2>2
<1>14. ASSUME NEW f \in Frames, Emit(f) PROVE Progress(g)' /\ Backed(g)'
  <2>1. CASE g # f
    BY <1>14, <2>1 DEF Emit
  <2>2. CASE g = f
    <3>1. pc'[g] = "done" /\ UNCHANGED <<kind, core, effect, action, answers>>
      BY <1>14, <2>2 DEF Emit
    <3>2. CASE pc[g] = "unpublished"
      <4>1. audit'[g] = "publish_failed"
        BY <1>14, <2>2, <3>2 DEF Emit
      <4>2. QED BY <3>1, <3>2, <4>1
    <3>3. CASE pc[g] = "published" /\ kind[g] = "unknown"
      <4>1. audit'[g] = "not_implemented"
        BY <1>14, <2>2, <3>3 DEF Emit
      <4>2. QED BY <3>1, <3>3, <4>1
    <3>4. CASE pc[g] = "published" /\ kind[g] # "unknown"
      <4>1. audit'[g] = "responded"
        BY <1>14, <2>2, <3>4 DEF Emit
      <4>2. QED BY <3>1, <3>4, <4>1
    <3>5. QED BY <1>14, <2>2, <3>2, <3>3, <3>4 DEF Emit
  <2>3. QED BY <2>1, <2>2
<1>15. ASSUME NEW f \in Frames, Lose(f) PROVE Progress(g)' /\ Backed(g)'
  BY <1>15 DEF Lose
<1>16. ASSUME NEW f \in Frames, NotImplemented(f) PROVE Progress(g)' /\ Backed(g)'
  <2>1. CASE g # f
    BY <1>16, <2>1 DEF NotImplemented
  <2>2. CASE g = f
    <3>1. Progress(g)'
      <4>1. answers'[g] = <<>> /\ audit'[g] = "consumed" /\ pc'[g] = "error" /\ kind'[g] = "unknown"
        BY <1>16, <2>2 DEF NotImplemented
      <4>2. QED BY <4>1
    <3>2. Backed(g)'
      BY <1>16, <2>2 DEF NotImplemented
    <3>3. QED BY <3>1, <3>2
  <2>3. QED BY <2>1, <2>2
<1>17. CASE Dies
  BY <1>17 DEF Dies, Running
<1>18. CASE Restart
  BY <1>18 DEF Restart
<1>19. CASE UNCHANGED vars
  BY <1>19 DEF vars
<1> HIDE DEF IInv, TypeOK, Progress, Backed
<1>20. QED
  BY <1>1, <1>2, <1>3, <1>4, <1>5, <1>6, <1>7, <1>8, <1>9, <1>10, <1>11, <1>12, <1>13, <1>14, <1>15, <1>16, <1>17, <1>18, <1>19
     DEF Next, Arrival, Goroutine, Crash, RaceCrash

\* The inductive invariant holds in every reachable state.
LEMMA IInvHolds == Spec => []IInv
<1>1. IInv /\ [Next]_vars => IInv'
  BY TypeStep, ProgressStep DEF IInv
<1>2. QED BY <1>1, InitIInv, PTL DEF Spec

\* However many frames are handled at once, a CALL is answered at most once, and
\* nothing else ever is.
THEOREM AtMostOneAnswer == Spec => []AnsweredOnce
<1>1. IInv => AnsweredOnce
  <2> SUFFICES ASSUME IInv, NEW f \in Frames
               PROVE  Len(answers[f]) <= (IF IsCall(f) THEN 1 ELSE 0)
    BY DEF AnsweredOnce
  <2>1. answers[f] \in {<<>>, <<"result">>, <<"error">>} /\ (answers[f] # <<>> => IsCall(f))
    BY DEF IInv, Progress
  <2>2. CASE answers[f] = <<>>
    BY <2>2, AnswerFacts
  <2>3. CASE answers[f] # <<>>
    <3>1. Len(answers[f]) = 1 /\ IsCall(f)
      BY <2>1, <2>3, AnswerFacts
    <3>2. QED BY <3>1
  <2>4. QED BY <2>2, <2>3
<1>2. QED BY <1>1, IInvHolds, PTL

\* A CALLRESULT to a business CALL rests on a request ocpp-core carried out.
THEOREM ResultsAreBacked == Spec => []ResultIsBacked
<1>1. IInv => ResultIsBacked
  BY DEF IInv, Backed, ResultIsBacked
<1>2. QED BY <1>1, IInvHolds, PTL

\* The audit log agrees with the wire, through failing publishes and crashes.
THEOREM AuditAgrees == Spec => []AuditIsTrue
<1>1. IInv => AuditIsTrue
  <2> SUFFICES ASSUME IInv, NEW f \in Frames
               PROVE  /\ audit[f] \in {"responded", "not_implemented"} => Len(answers[f]) = 1
                      /\ audit[f] = "not_implemented" => answers[f] = <<"error">>
                      /\ answers[f] # <<>> =>
                            \/ audit[f] \in {"responded", "not_implemented"}
                            \/ pc[f] \in {"published", "unpublished", "lost"}
                            \/ audit[f] = "publish_failed" /\ LinkFaults
    BY DEF AuditIsTrue
  <2>1. Progress(f) /\ pc[f] \in Running \cup {"new", "done", "lost"}
    BY DEF IInv, TypeOK
  <2>2. QED BY <2>1, AnswerFacts DEF Progress, Running, Unanswered
<1>2. QED BY <1>1, IInvHolds, PTL

-----------------------------------------------------------------------------
(* message-processor with ocpp-core                                        *)

\* The transaction service takes a step of its own or none.
LEMMA TransactionsStep == [CentralNext]_centralVars => [TS!Next]_tsVars
<1> SUFFICES ASSUME [CentralNext]_centralVars PROVE [TS!Next]_tsVars
  OBVIOUS
<1>1. CASE ProcessorStep
  BY <1>1 DEF ProcessorStep
<1>2. ASSUME NEW f \in Frames, CoreStep(f) PROVE TS!Next
  BY <1>2 DEF CoreStep, TS!Next, TS!Arrival
<1>3. ASSUME NEW f \in Frames, AuthorizeStep(f) PROVE UNCHANGED tsVars
  BY <1>3 DEF AuthorizeStep
<1>4. CASE CoreCrash
  BY <1>4 DEF CoreCrash, TS!Next
<1>5. CASE CoreRestart
  BY <1>5 DEF CoreRestart, TS!Next
<1>6. ASSUME NEW f \in Frames, CoreLate(f) PROVE TS!Next
  BY <1>6 DEF CoreLate, TS!Next
<1>7. CASE UNCHANGED centralVars
  BY <1>7 DEF centralVars
<1>8. QED BY <1>1, <1>2, <1>3, <1>4, <1>5, <1>6, <1>7 DEF CentralNext

\* So everything proved of it holds here.
LEMMA TransactionsInv == CentralSpec => [](TSP!IInv /\ TSP!UniqueKeys)
<1>1. TS!Init <=> TSP!Init
  BY DEF TS!Init, TSP!Init
<1>2. TS!Next <=> TSP!Next
  BY DEF TS!Next, TS!Arrival, TS!Handler, TS!BadRequest, TS!Allocate, TS!StopLookup,
         TS!StopNotFound, TS!Matches, TS!CreateCommits, TS!CreateDuplicate, TS!Conflicts,
         TS!CreateFault, TS!Rollback, TS!SafeRollback, TS!StartAnswer, TS!StopCommits,
         TS!StopFault, TS!Crash, TS!Abandoned, TS!Late, TS!LateCommit, TS!LateStop, TS!Restart, TS!IsMaxNumericID,
         TS!Rows, TS!table, TSP!Next, TSP!Arrival, TSP!Handler, TSP!BadRequest, TSP!Allocate,
         TSP!StopLookup, TSP!StopNotFound, TSP!Matches, TSP!CreateCommits,
         TSP!CreateDuplicate, TSP!Conflicts, TSP!CreateFault, TSP!Rollback, TSP!SafeRollback,
         TSP!StartAnswer, TSP!StopCommits, TSP!StopFault, TSP!Crash, TSP!Abandoned,
         TSP!Late, TSP!LateCommit, TSP!LateStop, TSP!Restart, TSP!IsMaxNumericID, TSP!Rows, TSP!table
<1>3. CentralSpec => TSP!Spec
  BY <1>1, <1>2, TransactionsStep, PTL DEF CentralSpec, CentralInit, TSP!Spec, TSP!vars, tsVars
<1>4. TSP!ConstantsAssumption
  BY CentralAssumption DEF TSP!ConstantsAssumption
<1>5. TSP!Spec => []TSP!IInv
  BY <1>4, TSP!IInvHolds
<1>6. TSP!Spec => []TSP!UniqueKeys
  BY <1>4, TSP!UniqueKeysHold
<1>7. QED BY <1>3, <1>5, <1>6, PTL

-----------------------------------------------------------------------------
StartPCs == {"new", "badRequest", "create", "created", "faultErr", "dupErr", "accepted",
             "failedFault", "failedDuplicate", "aborted", "adrift"}
StopPCs == {"new", "badRequest", "stop", "notFound", "stopAccepted", "stopFailed", "aborted",
            "stopAdrift"}

\* How the two processes' views of a request agree.
Joint(f) ==
    /\ pc[f] = "new" => core[f] = "idle"
    /\ core[f] = "idle" => tpc[f] = "new" /\ action[f] \notin CoreActions
    /\ core[f] \in {"idle", "queued"} => effect[f] = FALSE
    /\ action[f] \in CoreActions => kind[f] = "business"
    /\ action[f] = StartTransaction =>
          tpc[f] \in StartPCs /\ (core[f] = "ok" => tpc[f] = "accepted")
    /\ action[f] = StopTransaction =>
          tpc[f] \in StopPCs /\ (core[f] = "ok" => tpc[f] = "stopAccepted")

JointInv == IInv /\ \A f \in Frames : Joint(f)

\* A handler's step is a step of the ocpp-core that Processor imagines: a 2xx
\* answer comes from a request that left its mark in the table.
LEMMA CoreStepRuns ==
    ASSUME JointInv, TSP!IInv, NEW f \in Frames, CoreStep(f)
    PROVE  CoreRuns(f) \/ UNCHANGED vars
<1> USE DEF JointInv, IInv, TypeOK, Joint
<1>1. core[f] = "queued" /\ effect[f] = FALSE /\ UNCHANGED <<up, pc, kind, action, cache, answers, audit>>
  BY DEF CoreStep, outVars
<1>2. core' = [core EXCEPT ![f] = Reported(tpc'[f])]
      /\ effect' = [effect EXCEPT ![f] = core'[f] # "queued" /\ Carried(f)']
  BY DEF CoreStep
<1>3. core'[f] = Reported(tpc'[f])
  BY <1>2
<1>4. CASE core'[f] = "queued"
  <2>1. core' = core
    BY <1>1, <1>2, <1>3, <1>4
  <2>2. effect' = [effect EXCEPT ![f] = FALSE]
    BY <1>2, <1>4, Zenon
  <2>3. effect' = effect
    BY <1>1, <2>2
  <2>4. QED BY <1>1, <2>1, <2>3 DEF vars
<1>5. CASE core'[f] = "failed"
  <2>1. \E e \in BOOLEAN : effect' = [effect EXCEPT ![f] = e]
    BY <1>2, Zenon
  <2>2. QED BY <1>1, <1>2, <1>3, <1>5, <2>1 DEF CoreRuns, outVars
<1>6. CASE core'[f] = "ok"
  <2>1. tpc'[f] \in {"accepted", "stopAccepted"}
    BY <1>3, <1>6 DEF Reported
  <2>2. tpc[f] \notin {"accepted", "stopAccepted"}
    BY <1>1 DEF CoreStep, TS!Handler, TS!BadRequest, TS!Allocate, TS!StopLookup, TS!StopNotFound,
       TS!CreateCommits, TS!CreateDuplicate, TS!CreateFault, TS!Rollback, TS!StartAnswer,
       TS!StopCommits, TS!StopFault
  <2>3. Carried(f)'
    BY <2>1, <2>2 DEF CoreStep, TS!Handler, TS!BadRequest, TS!Allocate, TS!StopLookup, TS!StopNotFound,
       TS!CreateCommits, TS!CreateDuplicate, TS!CreateFault, TS!Rollback, TS!StartAnswer,
       TS!StopCommits, TS!StopFault, TS!table, Carried, TSP!IInv, TSP!TypeOK, TSP!Lifecycle, TSP!Rows
  <2>4. effect' = [effect EXCEPT ![f] = TRUE]
    BY <1>2, <1>6, <2>3
  <2>5. QED BY <1>1, <1>2, <1>3, <1>6, <2>4 DEF CoreRuns, outVars
<1>7. QED BY <1>3, <1>4, <1>5, <1>6 DEF Reported

\* Every step of the whole is a step of the processor alone, or none of its.
LEMMA ProcessorRefined ==
    JointInv /\ TSP!IInv /\ [CentralNext]_centralVars => [Next]_vars
<1> SUFFICES ASSUME JointInv, TSP!IInv, [CentralNext]_centralVars PROVE [Next]_vars
  OBVIOUS
<1>1. CASE ProcessorStep
  BY <1>1 DEF ProcessorStep, Next
<1>2. ASSUME NEW f \in Frames, CoreStep(f) PROVE [Next]_vars
  BY <1>2, CoreStepRuns DEF Next
<1>3. ASSUME NEW f \in Frames, AuthorizeStep(f) PROVE Next
  BY <1>3 DEF AuthorizeStep, Next
<1>4. CASE CoreCrash \/ CoreRestart \/ UNCHANGED centralVars
  BY <1>4 DEF CoreCrash, CoreRestart, centralVars
<1>5. ASSUME NEW f \in Frames, CoreLate(f) PROVE UNCHANGED vars
  BY <1>5 DEF CoreLate
<1>6. QED BY <1>1, <1>2, <1>3, <1>4, <1>5 DEF CentralNext

\* The views go on agreeing.
LEMMA JointStep ==
    JointInv /\ TSP!IInv /\ IInv' /\ [CentralNext]_centralVars => \A g \in Frames : Joint(g)'
<1> SUFFICES ASSUME JointInv, TSP!IInv, IInv', [CentralNext]_centralVars, NEW g \in Frames
             PROVE  Joint(g)'
  OBVIOUS
<1> USE CentralAssumption, ProcessorAssumption
    DEF JointInv, IInv, TypeOK, Joint, StartPCs, StopPCs, coreVars, tsVars
<1>1. CASE ProcessorStep
  <2>1. UNCHANGED <<coreUp, nextID, tpc, cp, numericID, target, row, writer, tainted>>
    BY <1>1 DEF ProcessorStep
  <2>2. ASSUME NEW f \in Frames, NEW a \in LocalActions, AnswerLocally(f, a) PROVE Joint(g)'
    BY <2>1, <2>2 DEF AnswerLocally
  <2>3. ASSUME NEW f \in Frames, NEW a \in CoreActions, CallCore(f, a) PROVE Joint(g)'
    BY <2>1, <2>3 DEF CallCore
  <2>4. ASSUME NEW f \in Frames,
               (\E k \in {"garbage", "answer"} : Ignore(f, k)) \/ NotImplemented(f) \/ Lose(f)
        PROVE  Joint(g)'
    BY <2>1, <2>4 DEF Ignore, NotImplemented, Lose
  <2>5. ASSUME NEW f \in Frames, Goroutine(f) PROVE Joint(g)'
    <3>1. UNCHANGED <<kind, action, core, effect>> /\ (pc'[g] = "new" => pc[g] = "new")
      BY <2>5 DEF Goroutine, CoreAnswers, CoreFails, CoreTimesOut, Lookup, Compile, Store,
         Validate, Publish, PublishFails, Emit
    <3>2. QED BY <2>1, <3>1
  <2>6. CASE Crash \/ RaceCrash \/ Restart
    BY <2>1, <2>6 DEF Crash, RaceCrash, Restart, Dies
  <2>7. QED BY <1>1, <2>2, <2>3, <2>4, <2>5, <2>6 DEF ProcessorStep, Arrival
<1>2. ASSUME NEW f \in Frames, CoreStep(f) PROVE Joint(g)'
  <2>1. CoreRuns(f) \/ UNCHANGED vars
    BY <1>2, CoreStepRuns
  <2>2. UNCHANGED <<pc, kind, action>> /\ core[f] = "queued" /\ core' = [core EXCEPT ![f] = Reported(tpc'[f])]
    BY <1>2 DEF CoreStep
  <2>3. tpc' = [tpc EXCEPT ![f] = tpc'[f]] /\ DOMAIN tpc = Frames
    BY <1>2 DEF CoreStep, TS!Handler, TS!BadRequest, TS!Allocate, TS!StopLookup, TS!StopNotFound,
       TS!CreateCommits, TS!CreateDuplicate, TS!CreateFault, TS!Rollback, TS!StartAnswer,
       TS!StopCommits, TS!StopFault, TSP!IInv, TSP!TypeOK
  <2>4. CASE g # f
    <3>1. tpc'[g] = tpc[g] /\ core'[g] = core[g]
      BY <2>2, <2>3, <2>4
    <3>2. effect'[g] = effect[g]
      <4>1. effect' = effect \/ \E e \in BOOLEAN : effect' = [effect EXCEPT ![f] = e]
        BY <2>1, Zenon DEF CoreRuns, vars
      <4>2. QED BY <2>4, <4>1
    <3>3. QED BY <2>2, <3>1, <3>2
  <2>5. CASE g = f
    <3>1. core'[f] = Reported(tpc'[f]) /\ core'[f] # "idle"
      BY <2>2 DEF Reported
    <3>2. core'[f] = "queued" => effect'[f] = FALSE
      BY <2>1, <2>2 DEF CoreRuns, vars
    <3>3. /\ action[f] = StartTransaction => tpc'[f] \in StartPCs
          /\ action[f] = StopTransaction => tpc'[f] \in StopPCs
      <4>1. f \in DOMAIN tpc
        BY <2>3
      <4>2. CASE TS!Handler(f)
        BY <4>1, <4>2 DEF TS!Handler, TS!CreateCommits, TS!CreateDuplicate, TS!CreateFault,
           TS!Rollback, TS!StartAnswer, TS!StopCommits, TS!StopFault
      <4>3. CASE \E c \in ChargePoints : TS!BadRequest(f, c)
        BY <4>1, <4>3 DEF TS!BadRequest
      <4>4. CASE \E c \in ChargePoints : action[f] = StartTransaction /\ TS!Allocate(f, c)
        BY <4>1, <4>4 DEF TS!Allocate
      <4>5. CASE \E c \in ChargePoints, n \in StopIDs :
                    action[f] = StopTransaction /\ (TS!StopLookup(f, c, n) \/ TS!StopNotFound(f, c, n))
        BY <4>1, <4>5 DEF TS!StopLookup, TS!StopNotFound
      <4>6. QED BY <1>2, <4>2, <4>3, <4>4, <4>5 DEF CoreStep
    <3>4. pc[f] # "new"
      BY <2>2
    <3>5. QED BY <2>2, <2>5, <3>1, <3>2, <3>3, <3>4 DEF Reported
  <2>6. QED BY <2>4, <2>5
<1>3. ASSUME NEW f \in Frames, AuthorizeStep(f) PROVE Joint(g)'
  BY <1>3 DEF AuthorizeStep, CoreRuns
<1>4. CASE CoreCrash
  BY <1>4 DEF CoreCrash, TS!Crash, TS!Abandoned, vars, TSP!IInv, TSP!TypeOK
<1>5. CASE CoreRestart
  BY <1>5 DEF CoreRestart, TS!Restart, vars
<1>6. ASSUME NEW f \in Frames, CoreLate(f) PROVE Joint(g)'
  <2>1. UNCHANGED <<pc, kind, action, core, effect>>
    BY <1>6 DEF CoreLate, vars, coreVars
  <2>2. tpc' = tpc \/ (tpc[f] \in {"stopAdrift", "stopFailed"} /\ tpc' = [tpc EXCEPT ![f] = "aborted"])
    BY <1>6 DEF CoreLate, TS!Late, TS!LateCommit, TS!LateStop
  <2>3. tpc \in [Frames -> TSP!PCs]
    BY DEF TSP!IInv, TSP!TypeOK
  <2>4. QED BY <2>1, <2>2, <2>3
<1>7. CASE UNCHANGED centralVars
  BY <1>7 DEF centralVars, vars
<1>8. QED BY <1>1, <1>2, <1>3, <1>4, <1>5, <1>6, <1>7 DEF CentralNext

\* The joint invariant and the invariants of both halves hold throughout.
LEMMA CentralInv == CentralSpec => [](JointInv /\ TSP!IInv /\ TSP!UniqueKeys)
<1>1. CentralInit => JointInv
  <2> SUFFICES ASSUME CentralInit PROVE JointInv
    OBVIOUS
  <2>1. IInv
    BY InitIInv DEF CentralInit
  <2>2. QED
    BY <2>1, CentralAssumption, ProcessorAssumption
       DEF JointInv, Joint, StartPCs, StopPCs, CentralInit, Init, TS!Init
<1>2. JointInv /\ TSP!IInv /\ [CentralNext]_centralVars => JointInv'
  <2> SUFFICES ASSUME JointInv, TSP!IInv, [CentralNext]_centralVars PROVE JointInv'
    OBVIOUS
  <2>1. IInv'
    BY ProcessorRefined, TypeStep, ProgressStep DEF JointInv, IInv
  <2>2. QED BY <2>1, JointStep DEF JointInv
<1>3. QED
  BY <1>1, <1>2, TransactionsInv, PTL DEF CentralSpec

\* Composition: what Processor assumes of ocpp-core, ocpp-core delivers, for any
\* number of frames, charge points and restarts of either process.
THEOREM CentralRefinesProcessor == CentralSpec => ProcessorAlone
<1>1. CentralInit => Init
  BY DEF CentralInit
<1>2. QED
  BY <1>1, CentralInv, ProcessorRefined, PTL DEF CentralSpec, ProcessorAlone, Spec

\* End to end: a transactionId on the wire is in the table under one key, and a
\* StopTransaction.conf on the wire comes from a stopped transaction.
THEOREM ToldIsAlwaysSo == CentralSpec => []ToldIsSo
<1>1. JointInv /\ TSP!IInv /\ TSP!UniqueKeys => ToldIsSo
  <2> SUFFICES ASSUME JointInv, TSP!IInv, TSP!UniqueKeys,
                      NEW f \in Frames, answers[f] = <<"result">>
               PROVE  /\ action[f] = StartTransaction =>
                            /\ row[f] # "absent"
                            /\ \A g \in Frames \ {f} :
                                  row[g] # "absent" => TS!Key(g) # TS!Key(f)
                      /\ action[f] = StopTransaction =>
                            target[f] \in Frames /\ row[target[f]] = "stopped"
    BY DEF ToldIsSo
  <2>1. action[f] \in {StartTransaction, StopTransaction} => core[f] = "ok"
    BY CentralAssumption DEF JointInv, Joint, IInv, Backed
  <2>2. CASE action[f] = StartTransaction
    <3>1. tpc[f] = "accepted"
      BY <2>1, <2>2 DEF JointInv, Joint
    <3>2. row[f] # "absent"
      BY <3>1 DEF TSP!IInv, TSP!AcceptedIsStored, TSP!Rows
    <3>3. \A g \in Frames \ {f} : row[g] # "absent" => TS!Key(g) # TS!Key(f)
      BY <3>2 DEF TSP!UniqueKeys, TSP!Rows, TSP!Key, TS!Key
    <3>4. QED BY <2>2, <3>2, <3>3, CentralAssumption
  <2>3. CASE action[f] = StopTransaction
    <3>1. tpc[f] = "stopAccepted"
      BY <2>1, <2>3 DEF JointInv, Joint
    <3>2. target[f] \in Frames /\ row[target[f]] = "stopped"
      BY <3>1 DEF TSP!IInv, TSP!StopsNamedRow
    <3>3. QED BY <2>3, <3>2, CentralAssumption
  <2>4. QED BY <2>2, <2>3
<1>2. QED BY <1>1, CentralInv, PTL
=============================================================================
