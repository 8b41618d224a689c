------------------------------ MODULE NpiQueue ------------------------------
(***************************************************************************)
(* NPI_Queue, the ring buffer between the threads of the dongle's          *)
(* transport: two counting semaphores and a critical section.  Push is     *)
(* ClaimSpace and then Store, Pop is ClaimData and then Fetch: a thread    *)
(* waits in the first until it is allowed, and the second is the critical  *)
(* section with the release that follows it.                               *)
(***************************************************************************)
EXTENDS Naturals

CONSTANT QueueSize         \* CMD_QUEUE_SIZE and EVT_QUEUE_SIZE

ASSUME QueueSizeAssumption == QueueSize \in Nat \ {0}

NoItem == [kind |-> "none"]

NewQueue ==
    [buffer |-> [i \in 0..QueueSize - 1 |-> NoItem],
     in_pos |-> 0, out_pos |-> 0,
     space_avail |-> QueueSize, data_avail |-> 0]

MaySpace(q) == q.space_avail > 0
ClaimSpace(q) == [q EXCEPT !.space_avail = @ - 1]

\* Mutant: one position for both ends of the ring.
StoreAtFront(q, x) ==
    [q EXCEPT !.buffer[q.out_pos] = x, !.in_pos = (@ + 1) % QueueSize,
              !.data_avail = @ + 1]

Store(q, x) ==
    [q EXCEPT !.buffer[q.in_pos] = x, !.in_pos = (@ + 1) % QueueSize,
              !.data_avail = @ + 1]

MayFetch(q) == q.data_avail > 0
ClaimData(q) == [q EXCEPT !.data_avail = @ - 1]

Front(q) == q.buffer[q.out_pos]
Fetch(q) == [q EXCEPT !.out_pos = (@ + 1) % QueueSize, !.space_avail = @ + 1]
=============================================================================
