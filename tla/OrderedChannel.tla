--------------------------- MODULE OrderedChannel ---------------------------
(***************************************************************************)
(* What the dongle's command path promises: whatever several threads hand  *)
(* over goes out exactly once, in the order in which it was taken, and the *)
(* path never holds more than its size.                                    *)
(***************************************************************************)
EXTENDS Naturals, Sequences

CONSTANTS Items,           \* what may be handed over
          Size             \* how much the channel holds

VARIABLES accepted,        \* what was taken so far, in order
          sent             \* what has gone out so far, in order

vars == <<accepted, sent>>

Init == accepted = <<>> /\ sent = <<>>

Accept(x) ==
    /\ Len(accepted) - Len(sent) < Size
    /\ accepted' = Append(accepted, x)
    /\ UNCHANGED sent

Send ==
    /\ Len(sent) < Len(accepted)
    /\ sent' = Append(sent, accepted[Len(sent) + 1])
    /\ UNCHANGED accepted

Next == (\E x \in Items : Accept(x)) \/ Send

Spec == Init /\ [][Next]_vars
=============================================================================
