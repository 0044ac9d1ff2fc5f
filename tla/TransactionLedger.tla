------------------------- MODULE TransactionLedger -------------------------
(***************************************************************************)
(* What ocpp-core promises about transactions, without requests, counter,  *)
(* statements or crashes: a durable ledger of transactions, each known by  *)
(* its charge point and its transactionId.  A key is entered once, is      *)
(* stopped for good, and is confirmed to the charge point only when it is  *)
(* in the ledger.  Nothing is ever removed or started again, so a crash or *)
(* restart of the process is no step of the ledger at all.                 *)
(***************************************************************************)
EXTENDS Naturals

CONSTANT ChargePoints

VARIABLES
    active,     \* keys of transactions that run
    stopped,    \* keys of transactions that were stopped
    started,    \* keys a charge point was given in a StartTransaction.conf
    ended       \* keys whose StopTransaction was answered with a conf

ledger == <<active, stopped, started, ended>>

Keys == ChargePoints \X Nat
Known == active \cup stopped

Init ==
    /\ active = {}
    /\ stopped = {}
    /\ started = {}
    /\ ended = {}

\* A transaction is entered under a key its charge point never used.
Enter(k) ==
    /\ k \in Keys \ Known
    /\ active' = active \cup {k}
    /\ UNCHANGED <<stopped, started, ended>>

\* The charge point is told the transactionId.
ConfirmStart(k) ==
    /\ started' = started \cup {k}
    /\ UNCHANGED <<active, stopped, ended>>

\* A transaction is stopped, once or again, and the charge point may be told so.
Stop(k) ==
    /\ active' = active \ {k}
    /\ stopped' = stopped \cup {k}
    /\ ended' \in {ended, ended \cup {k}}
    /\ UNCHANGED started

\* (The new key is looked for in active', so that TLC need not enumerate Keys.)
Next ==
    \/ \E k \in active' : Enter(k)
    \/ \E k \in Known : ConfirmStart(k) \/ Stop(k)

Spec == Init /\ [][Next]_ledger
=============================================================================
