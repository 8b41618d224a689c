---------------------------- MODULE MCConnection ----------------------------
(***************************************************************************)
(* Connection for TLC: careful clients with losses and disconnections, and *)
(* each thing that goes wrong with them (a cancel: no loss besides).       *)
(***************************************************************************)
EXTENDS Connection

MCHandles == 1..2
MCAddress == CHOOSE a \in [Devices -> 1..2] : \A d, e \in Devices : a[d] = a[e] => d = e

Wrong == {"again", "slow", "early", "reuse"}
OnceEach(S) == [b \in Deeds |-> IF b \in S THEN 1 ELSE 0]
MCBudgets ==
    {[OnceEach({"loss"}) EXCEPT !["disconnect"] = 2], OnceEach({"cancel", "disconnect"})} \cup
    {OnceEach({w, "disconnect", "loss"}) : w \in Wrong}
=============================================================================
