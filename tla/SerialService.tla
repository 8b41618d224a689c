--------------------------- MODULE SerialService ----------------------------
(***************************************************************************)
(* What BLEHub::executeCommand promises every thread that calls it: the    *)
(* request is carried out exactly once, and the call returns only after    *)
(* that.                                                                   *)
(***************************************************************************)
CONSTANT Threads           \* the threads that call

VARIABLE call              \* "idle", "pending" or "done", per thread

Init == call = [t \in Threads |-> "idle"]

Invoke(t)  == call[t] = "idle"    /\ call' = [call EXCEPT ![t] = "pending"]
Execute(t) == call[t] = "pending" /\ call' = [call EXCEPT ![t] = "done"]
Return(t)  == call[t] = "done"    /\ call' = [call EXCEPT ![t] = "idle"]

Next == \E t \in Threads : Invoke(t) \/ Execute(t) \/ Return(t)

Spec == Init /\ [][Next]_call
=============================================================================
