--------------------------- MODULE CommandChannel ---------------------------
(***************************************************************************)
(* What the control-command queue of a connected device promises its       *)
(* callers: commands go out in the order they were accepted, the next one  *)
(* as soon as the previous one has been answered, never two at a time, and *)
(* none is lost while the link is up.                                      *)
(***************************************************************************)
EXTENDS Naturals, Sequences

CONSTANT Commands          \* the commands clients may issue

VARIABLES accepted,        \* commands accepted so far, in order
          sent,            \* commands handed to the radio, in order
          answered,        \* how many of the sent ones have been answered
          open             \* the link is up

vars == <<accepted, sent, answered, open>>

Init == /\ accepted = <<>>
        /\ sent = <<>>
        /\ answered = 0
        /\ open = TRUE

Idle == answered = Len(sent)

\* An accepted command goes out at once when nothing is awaited.
Accept(c) ==
    /\ open
    /\ accepted' = Append(accepted, c)
    /\ sent' = IF Idle THEN Append(sent, c) ELSE sent
    /\ UNCHANGED <<answered, open>>

\* An answer lets the oldest waiting command out.
Answer ==
    /\ open
    /\ ~Idle
    /\ answered' = answered + 1
    /\ sent' = IF Len(sent) < Len(accepted)
                 THEN Append(sent, accepted[Len(sent) + 1])
                 ELSE sent
    /\ UNCHANGED <<accepted, open>>

Close ==
    /\ open
    /\ open' = FALSE
    /\ UNCHANGED <<accepted, sent, answered>>

Next == \/ \E c \in Commands : Accept(c)
        \/ Answer
        \/ Close

Spec == Init /\ [][Next]_vars
=============================================================================
