---------------------------- MODULE MCCommandPath ----------------------------
(* TLC instance of CommandPath.                                            *)
EXTENDS CommandPath

\* A value of every type, the edges of numbers and strings, and members of the
\* enumerations.
MCValues ==
    {JNull, Num(-1), Num(0), Num(1), Str(""), Str("x"), Str("long"), Str("Hard"),
     Str("Inoperative"), Str("Heartbeat"), Arr(<<>>), Arr(<<"x">>)}

MCElements ==
    {JNull, Num(2), Num(3), Num(4), Str("Reset"), Obj([type |-> Str("Soft")])}
=============================================================================
