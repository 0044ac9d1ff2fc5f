---------------------------- MODULE CentralSystem ----------------------------
(***************************************************************************)
(* The central system as a charge point sees it: message-processor and the *)
(* transaction half of ocpp-core, joined by the HTTP requests of           *)
(* HTTPCoreClient.  A frame of the processor is the request it makes, so   *)
(* the two processes are joined frame by frame; each may stop and start    *)
(* on its own.                                                             *)
(*                                                                         *)
(* Processor leaves ocpp-core open (its action CoreRuns, the variables     *)
(* core and effect).  Here TransactionService takes that place, so what    *)
(* Processor assumes of ocpp-core becomes a property, ProcessorAlone.      *)
(***************************************************************************)
EXTENDS Processor

CONSTANTS
    StartTransaction, StopTransaction,  \* the core actions that use the table
    ChargePoints,  \* charge points whose topics the frames come from
    StopIDs        \* transactionId values a StopTransaction may carry

ASSUME CentralAssumption ==
    /\ {StartTransaction, StopTransaction} \subseteq CoreActions
    /\ StartTransaction # StopTransaction
    /\ StopIDs \subseteq Nat
    /\ None \notin Frames
    /\ None \notin ChargePoints

VARIABLES
    coreUp, nextID, tpc, cp, numericID, target, row, writer, tainted,
    reached   \* requests that a running ocpp-core has, or has had, on a connection

tsVars == <<coreUp, nextID, tpc, cp, numericID, target, row, writer, tainted>>
centralVars == <<vars, tsVars, reached>>

TS == INSTANCE TransactionService WITH Requests <- Frames, up <- coreUp, pc <- tpc

CentralInit == Init /\ TS!Init /\ reached = {}

-----------------------------------------------------------------------------
\* A step of message-processor.  A request it makes while ocpp-core is down is
\* refused and never arrives.
ProcessorStep ==
    /\ \/ \E f \in Frames : Arrival(f) \/ Goroutine(f)
       \/ Crash \/ RaceCrash \/ Restart
    /\ reached' = IF coreUp
                  THEN reached \cup {f \in Frames : core[f] = "idle" /\ core'[f] = "queued"}
                  ELSE reached
    /\ UNCHANGED tsVars

\* Mutated form: a StartTransaction that failed is answered 200 all the same.
ReportedOk(p) ==
    CASE p \in {"accepted", "stopAccepted", "failedFault"} -> "ok"
      [] p \in {"badRequest", "failedDuplicate", "notFound", "stopFailed"} -> "failed"
      [] OTHER -> "queued"

\* What the processor sees of a request: a 2xx answer, another answer, or none.
Reported(p) ==
    CASE p \in {"accepted", "stopAccepted"} -> "ok"
      [] p \in {"badRequest", "failedFault", "failedDuplicate", "notFound", "stopFailed"} -> "failed"
      [] OTHER -> "queued"

\* Whether a request has left its mark in the table.
Carried(f) == row[f] # "absent" \/ \E t \in Frames : writer[t] = f

\* A handler of the transaction service takes a step; its last one is the answer.
\* It goes on whether or not the processor still waits.
CoreStep(f) ==
    /\ core[f] = "queued"
    /\ f \in reached
    /\ \/ TS!Handler(f)
       \/ \E c \in ChargePoints :
             \/ TS!BadRequest(f, c)
             \/ action[f] = StartTransaction /\ TS!Allocate(f, c)
             \/ /\ action[f] = StopTransaction
                /\ \E n \in StopIDs : TS!StopLookup(f, c, n) \/ TS!StopNotFound(f, c, n)
    /\ action[f] \in {StartTransaction, StopTransaction}
    /\ core' = [core EXCEPT ![f] = Reported(tpc'[f])]
    /\ effect' = [effect EXCEPT ![f] = core'[f] # "queued" /\ Carried(f)']
    /\ UNCHANGED <<up, pc, kind, action, cache, outVars, reached>>

\* Authorize uses neither the counter nor the table.
AuthorizeStep(f) ==
    /\ f \in reached
    /\ coreUp
    /\ action[f] \notin {StartTransaction, StopTransaction}
    /\ CoreRuns(f)
    /\ UNCHANGED <<tsVars, reached>>

\* ocpp-core ends, and with it the connections it had.
CoreCrash ==
    /\ TS!Crash
    /\ reached' = {}
    /\ UNCHANGED vars

\* A statement nobody waits for any more takes effect.
CoreLate(f) ==
    /\ TS!Late(f)
    /\ UNCHANGED <<vars, reached>>

CoreRestart ==
    /\ TS!Restart
    /\ UNCHANGED <<vars, reached>>

CentralNext ==
    \/ ProcessorStep
    \/ \E f \in Frames : CoreStep(f) \/ AuthorizeStep(f) \/ CoreLate(f)
    \/ CoreCrash
    \/ CoreRestart

CentralSpec == CentralInit /\ [][CentralNext]_centralVars

\* The processor's goroutines are scheduled; ocpp-core promises nothing.
CentralFairSpec ==
    CentralSpec /\ \A f \in Frames : WF_centralVars(Goroutine(f) /\ ProcessorStep)

-----------------------------------------------------------------------------
(* Properties                                                              *)

\* The processor behaves in the whole as it does alone: what Processor takes for
\* granted of ocpp-core (a 2xx answer comes from a request that was carried out,
\* an answer comes once) is what the handlers and the table really do.
ProcessorAlone == Spec

\* What a charge point is told is so, whichever process stopped in between: the
\* transactionId of a StartTransaction.conf on the wire is in the table, under
\* its charge point and no other start's; and after a StopTransaction.conf on the
\* wire the transaction it named is stopped, and stays so.
ToldIsSo ==
    \A f \in Frames : answers[f] = <<"result">> =>
        /\ action[f] = StartTransaction =>
              /\ row[f] # "absent"
              /\ \A g \in Frames \ {f} :
                    row[g] # "absent" => TS!Key(g) # TS!Key(f)
        /\ action[f] = StopTransaction =>
              target[f] \in Frames /\ row[target[f]] = "stopped"

-----------------------------------------------------------------------------
(* What a CALLERROR does not tell                                          *)

\* A StartTransaction answered with a CALLERROR started nothing.  It does not
\* hold: after a timeout, or an INSERT whose acknowledgement was lost, the row is
\* there and active, and no charge point knows its id.
ErrorStartsNothing ==
    \A f \in Frames :
        action[f] = StartTransaction /\ answers[f] = <<"error">> => row[f] = "absent"
=============================================================================
