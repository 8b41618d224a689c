----------------------------- MODULE GattProofs -----------------------------
(***************************************************************************)
(* The GATT client of one dongle: the control-command queue of a connected *)
(* device (typing, the order of commands, one request under way), then the *)
(* discovery walk before it (typing, the saved services, the order of the  *)
(* walk), for any number of devices and any layout of their services.      *)
(***************************************************************************)
EXTENDS GattQueue, GattDiscovery, Integers, FiniteSetTheorems, SequenceTheorems,
        WellFoundedInduction, NaturalsInduction, TLAPS

\* What Head, Tail and Append do to the type of a sequence, in the form the
\* proofs below need it.
LEMMA SeqFacts ==
    ASSUME NEW S, NEW s \in Seq(S), NEW x \in S
    PROVE  /\ Append(s, x) \in Seq(S)
           /\ Len(Append(s, x)) = Len(s) + 1
           /\ s # <<>> => /\ Head(s) \in S
                          /\ Tail(s) \in Seq(S)
                          /\ Len(Tail(s)) = Len(s) - 1
                          /\ Len(s) > 0
BY AppendProperties, HeadTailProperties, EmptySeq

\* Enqueue keeps the queue's variables typed.
LEMMA EnqueueType ==
    ASSUME TypeOK, NEW c \in Commands, Enqueue(c)
    PROVE  /\ mCommand' \in Seq(Commands)
           /\ mBusy' \in {GF_FALSE, GF_TRUE}
           /\ air' \in Seq(OnAir)
           /\ sent' \in Seq(Commands)
<1>1. c \in OnAir
  BY DEF OnAir
<1>2. /\ Append(air, c) \in Seq(OnAir)
      /\ Append(sent, c) \in Seq(Commands)
      /\ Append(mCommand, c) \in Seq(Commands)
  BY <1>1, SeqFacts DEF TypeOK
<1>3. CASE mBusy = GF_TRUE
  BY <1>2, <1>3 DEF Enqueue, TypeOK
<1>4. CASE mBusy # GF_TRUE
  BY <1>2, <1>4 DEF Enqueue, SendInternal, TypeOK
<1> QED
  BY <1>3, <1>4

\* Dequeue keeps the queue's variables typed.
LEMMA DequeueType ==
    ASSUME TypeOK, Dequeue
    PROVE  /\ mCommand' \in Seq(Commands)
           /\ mBusy' \in {GF_FALSE, GF_TRUE}
           /\ air' \in Seq(OnAir)
           /\ sent' \in Seq(Commands)
<1>1. CASE mCommand = <<>>
  BY <1>1 DEF Dequeue, TypeOK
<1>2. CASE mCommand # <<>>
  <2>1. Head(mCommand) \in Commands /\ Tail(mCommand) \in Seq(Commands)
    BY <1>2, HeadTailProperties DEF TypeOK
  <2>2. Head(mCommand) \in OnAir
    BY <2>1 DEF OnAir
  <2>3. /\ Append(air, Head(mCommand)) \in Seq(OnAir)
        /\ Append(sent, Head(mCommand)) \in Seq(Commands)
    BY <2>1, <2>2, AppendProperties DEF TypeOK
  <2> QED
    BY <1>2, <2>1, <2>3 DEF Dequeue, SendInternal, TypeOK
<1> QED
  BY <1>1, <1>2

\* Queues are sequences in every reachable state (all of GattQueue's steps).
THEOREM TypeCorrect == Spec => []TypeOK
<1>1. Init => TypeOK
  BY DEF Init, TypeOK
<1>2. TypeOK /\ [Next]_vars => TypeOK'
  <2> SUFFICES ASSUME TypeOK, [Next]_vars PROVE TypeOK'
    OBVIOUS
  <2>1. CASE Discovered
    BY <2>1 DEF Discovered, histVars, TypeOK
  <2>2. ASSUME NEW c \in Commands, Issue(c) PROVE TypeOK'
    <3>1. Append(accepted, c) \in Seq(Commands)
      BY AppendProperties DEF TypeOK
    <3>2. Enqueue(c)
      BY <2>2 DEF Issue
    <3> QED
      BY <2>2, <3>1, <3>2, EnqueueType DEF Issue, devVars, TypeOK
  <2>3. ASSUME NEW w \in DirectWrites, WriteDirect(w) PROVE TypeOK'
    BY <2>3 DEF WriteDirect, devVars, histVars, OnAir, TypeOK
  <2>4. CASE Respond
    BY <2>4 DEF Respond, devVars, histVars, Replies, OnAir, TypeOK
  <2>5. CASE ProcessMessage
    <3>1. Tail(inbox) \in Seq(Replies)
      BY <2>5, HeadTailProperties DEF ProcessMessage, TypeOK
    <3>2. CASE Dequeue /\ answered' = answered + 1
      BY <2>5, <3>1, <3>2, DequeueType DEF ProcessMessage, devVars, TypeOK
    <3>3. CASE UNCHANGED <<mCommand, mBusy, air, sent, answered>>
      BY <2>5, <3>1, <3>3 DEF ProcessMessage, devVars, TypeOK
    <3> QED
      BY <2>5, <3>2, <3>3 DEF ProcessMessage
  <2>6. CASE DeInit
    BY <2>6 DEF DeInit, histVars, TypeOK
  <2>7. CASE UNCHANGED vars
    BY <2>7 DEF vars, devVars, histVars, TypeOK
  <2> QED
    BY <2>1, <2>2, <2>3, <2>4, <2>5, <2>6, <2>7 DEF Next
<1> QED
  BY <1>1, <1>2, PTL DEF Spec
-----------------------------------------------------------------------------
\* What ties the queue to the state of its device, and its two order
\* properties: the inductive strengthening of both.
QueueInv ==
    /\ mState = "connected" <=> mCommandQueue = "queue"
    /\ mState = "discovering" => /\ accepted = <<>>
                                 /\ sent = <<>>
                                 /\ air = <<>>
                                 /\ inbox = <<>>
                                 /\ answered = 0
    /\ NothingLostOrReordered
    /\ WaitingOnlyWhileBusy

\* The concatenation facts that say "sent, then waiting, is what was accepted".
LEMMA ConcatFacts ==
    ASSUME NEW S, NEW s \in Seq(S), NEW q \in Seq(S), NEW x \in S
    PROVE  /\ s \o <<>> = s
           /\ s \o Append(q, x) = Append(s \o q, x)
           /\ q # <<>> => Append(s, Head(q)) \o Tail(q) = s \o q
<1>1. s \o <<>> = s
  BY ConcatEmptySeq
<1>2. s \o Append(q, x) = Append(s \o q, x)
  <2>1. <<x>> \in Seq(S)
    OBVIOUS
  <2>2. Append(q, x) = q \o <<x>>
    BY AppendIsConcat
  <2>3. Append(s \o q, x) = (s \o q) \o <<x>>
    BY AppendIsConcat, ConcatProperties
  <2> QED
    BY <2>1, <2>2, <2>3, ConcatAssociative
<1>3. ASSUME q # <<>> PROVE Append(s, Head(q)) \o Tail(q) = s \o q
  <2>1. Head(q) \in S /\ Tail(q) \in Seq(S)
    BY <1>3, HeadTailProperties
  <2>2. <<Head(q)>> \in Seq(S)
    BY <2>1
  <2>3. Append(s, Head(q)) = s \o <<Head(q)>>
    BY <2>1, AppendIsConcat
  <2>4. q = <<Head(q)>> \o Tail(q)
    BY <1>3, <2>1
  <2> QED
    BY <2>1, <2>2, <2>3, <2>4, ConcatAssociative
<1> QED
  BY <1>1, <1>2, <1>3

\* Enqueue keeps the order: the new command is sent at once only when nothing
\* waits, and goes last otherwise.
LEMMA EnqueueOrder ==
    ASSUME TypeOK, QueueInv, NEW c \in Commands, Issue(c)
    PROVE  /\ accepted' = sent' \o mCommand'
           /\ mCommand' # <<>> => mBusy' = GF_TRUE
<1>1. mState = "connected" /\ mCommandQueue = "queue"
  BY DEF Issue, QueueInv, TypeOK
<1>2. accepted = sent \o mCommand /\ accepted' = Append(accepted, c)
  BY <1>1 DEF Issue, QueueInv, NothingLostOrReordered
<1>3. CASE mBusy = GF_TRUE
  <2>1. mCommand' = Append(mCommand, c) /\ sent' = sent /\ mBusy' = mBusy
    BY <1>3 DEF Issue, Enqueue
  <2>2. sent \o Append(mCommand, c) = Append(sent \o mCommand, c)
    BY ConcatFacts DEF TypeOK
  <2> QED
    BY <1>2, <1>3, <2>1, <2>2
<1>4. CASE mBusy # GF_TRUE
  <2>1. sent' = Append(sent, c) /\ mCommand' = mCommand /\ mBusy' = GF_TRUE
    BY <1>1, <1>4 DEF Issue, Enqueue, SendInternal
  <2>2. mCommand = <<>>
    BY <1>1, <1>4 DEF QueueInv, WaitingOnlyWhileBusy
  <2>3. Append(sent, c) \o <<>> = Append(sent, c)
    BY SeqFacts, ConcatEmptySeq DEF TypeOK
  <2>4. sent \o <<>> = sent
    BY ConcatEmptySeq DEF TypeOK
  <2> QED
    BY <1>2, <2>1, <2>2, <2>3, <2>4
<1> QED
  BY <1>3, <1>4

\* So does Dequeue: the oldest waiting command is the next one sent.
LEMMA DequeueOrder ==
    ASSUME TypeOK, QueueInv, mState = "connected", Dequeue, accepted' = accepted
    PROVE  /\ accepted' = sent' \o mCommand'
           /\ mCommand' # <<>> => mBusy' = GF_TRUE
<1>1. accepted = sent \o mCommand
  BY DEF QueueInv, NothingLostOrReordered
<1>2. CASE mCommand = <<>>
  BY <1>1, <1>2 DEF Dequeue
<1>3. CASE mCommand # <<>>
  <2>1. /\ sent' = Append(sent, Head(mCommand))
        /\ mCommand' = Tail(mCommand)
        /\ mBusy' = mBusy
    BY <1>3 DEF Dequeue, SendInternal
  <2>2. mBusy = GF_TRUE
    BY <1>3 DEF QueueInv, WaitingOnlyWhileBusy
  <2>3. Head(mCommand) \in Commands
    BY <1>3, HeadTailProperties DEF TypeOK
  <2>4. Append(sent, Head(mCommand)) \o Tail(mCommand) = sent \o mCommand
    BY <1>3, <2>3, ConcatFacts DEF TypeOK
  <2> QED
    BY <1>1, <2>1, <2>2, <2>4
<1> QED
  BY <1>2, <1>3

\* QueueInv is inductive together with the types.
LEMMA QueueInvariant == Spec => []QueueInv
<1>1. Init => QueueInv
  BY DEF Init, QueueInv, NothingLostOrReordered, WaitingOnlyWhileBusy
<1>2. TypeOK /\ QueueInv /\ [Next]_vars => QueueInv'
  <2> SUFFICES ASSUME TypeOK, QueueInv, [Next]_vars PROVE QueueInv'
    OBVIOUS
  <2> USE DEF QueueInv, NothingLostOrReordered, WaitingOnlyWhileBusy
  <2>1. CASE Discovered
    <3>1. sent' \o mCommand' = <<>>
      BY <2>1 DEF Discovered, histVars
    <3> QED
      BY <2>1, <3>1 DEF Discovered, histVars
  <2>2. ASSUME NEW c \in Commands, Issue(c) PROVE QueueInv'
    <3>1. mState = "connected" /\ UNCHANGED devVars
      BY <2>2 DEF Issue, TypeOK
    <3>2. /\ accepted' = sent' \o mCommand'
          /\ mCommand' # <<>> => mBusy' = GF_TRUE
      BY <2>2, EnqueueOrder
    <3> QED
      BY <3>1, <3>2 DEF devVars
  <2>3. ASSUME NEW w \in DirectWrites, WriteDirect(w) PROVE QueueInv'
    BY <2>3 DEF WriteDirect, devVars
  <2>4. CASE Respond
    BY <2>4 DEF Respond, devVars, histVars
  <2>5. CASE ProcessMessage
    <3>1. mState = "connected" /\ UNCHANGED devVars /\ accepted' = accepted
      BY <2>5 DEF ProcessMessage
    <3>2. CASE Dequeue
      <4>1. /\ accepted' = sent' \o mCommand'
            /\ mCommand' # <<>> => mBusy' = GF_TRUE
        BY <3>1, <3>2, DequeueOrder
      <4> QED
        BY <3>1, <4>1 DEF devVars
    <3>3. CASE UNCHANGED <<mCommand, mBusy, air, sent, answered>>
      BY <3>1, <3>3 DEF devVars
    <3> QED
      BY <2>5, <3>2, <3>3 DEF ProcessMessage
  <2>6. CASE DeInit
    BY <2>6 DEF DeInit, histVars
  <2>7. CASE UNCHANGED vars
    BY <2>7 DEF vars, devVars, histVars
  <2> QED
    BY <2>1, <2>2, <2>3, <2>4, <2>5, <2>6, <2>7 DEF Next
<1> QED
  BY <1>1, <1>2, TypeCorrect, PTL DEF Spec

\* While the device is connected no command is lost or overtaken, whatever is
\* issued, written past the queue or answered with an error (Enqueue and
\* Dequeue of GF_CCONTROLCOMMANDQUEUE).
THEOREM OrderKept == Spec => []NothingLostOrReordered
<1>1. QueueInv => NothingLostOrReordered
  BY DEF QueueInv
<1> QED
  BY <1>1, QueueInvariant, PTL

\* An idle queue strands no command (Enqueue and Dequeue).
THEOREM NoneStranded == Spec => []WaitingOnlyWhileBusy
<1>1. QueueInv => WaitingOnlyWhileBusy
  BY DEF QueueInv
<1> QED
  BY <1>1, QueueInvariant, PTL
-----------------------------------------------------------------------------
\* The strengthening of OneOutstanding: mBusy also counts the sent command that
\* has not been answered.
OutstandingInv ==
    /\ OneOutstanding
    /\ mState = "connected" /\ written = {} =>
          Len(sent) = IF mBusy = GF_TRUE THEN answered + 1 ELSE answered

\* The count of answers is inductive together with QueueInv.
LEMMA OutstandingInvariant == Spec => []OutstandingInv
<1>1. Init => OutstandingInv
  BY DEF Init, OutstandingInv, OneOutstanding
<1>2. TypeOK /\ QueueInv /\ OutstandingInv /\ [Next]_vars => OutstandingInv'
  <2> SUFFICES ASSUME TypeOK, QueueInv, OutstandingInv, [Next]_vars
               PROVE  OutstandingInv'
    OBVIOUS
  <2> USE DEF OutstandingInv, OneOutstanding, GF_TRUE, GF_FALSE
  <2> SUFFICES ASSUME written' = {}
               PROVE  OutstandingInv'
    OBVIOUS
  <2>w. written = {} /\ (\A w \in DirectWrites : ~WriteDirect(w))
    BY DEF Next, vars, histVars, Discovered, Issue, WriteDirect, Respond, ProcessMessage, DeInit
  <2> USE <2>w
  <2>0. /\ Len(air) \in Nat
        /\ Len(inbox) \in Nat
        /\ Len(sent) \in Nat
        /\ answered \in Nat
    BY LenProperties DEF TypeOK
  <2>1. CASE Discovered
    BY <2>1 DEF Discovered, QueueInv, histVars
  <2>2. ASSUME NEW c \in Commands, Issue(c) PROVE OutstandingInv'
    <3>1. /\ mState = "connected" /\ mState' = mState
          /\ inbox' = inbox /\ answered' = answered
      BY <2>2 DEF Issue, QueueInv, TypeOK, devVars
    <3>2. CASE mBusy = GF_TRUE
      BY <2>2, <3>1, <3>2 DEF Issue, Enqueue
    <3>3. CASE mBusy # GF_TRUE
      <4>1. air' = Append(air, c) /\ sent' = Append(sent, c) /\ mBusy' = GF_TRUE
        BY <2>2, <3>1, <3>3 DEF Issue, Enqueue, SendInternal
      <4>2. Len(air') = Len(air) + 1 /\ Len(sent') = Len(sent) + 1
        BY <4>1, AppendProperties DEF TypeOK, OnAir
      <4> QED
        BY <2>0, <3>1, <3>3, <4>1, <4>2
    <3> QED
      BY <3>2, <3>3
  <2>3. ASSUME NEW w \in DirectWrites, WriteDirect(w) PROVE OutstandingInv'
    BY <2>3, <2>w
  <2>4. CASE Respond
    <3>1. /\ Len(air') = Len(air) - 1
          /\ UNCHANGED <<mState, mBusy, sent, answered>>
      BY <2>4, HeadTailProperties DEF Respond, devVars, histVars, TypeOK
    <3>2. Len(inbox') = Len(inbox) + 1
      <4>1. PICK r \in Replies : inbox' = Append(inbox, r)
        BY <2>4 DEF Respond, Replies
      <4> QED
        BY <4>1, AppendProperties DEF TypeOK
    <3> QED
      BY <2>0, <3>1, <3>2
  <2>5. CASE ProcessMessage
    <3>1. /\ mState = "connected" /\ mState' = mState
          /\ Len(inbox') = Len(inbox) - 1
          /\ Len(inbox) >= 1
      BY <2>5, HeadTailProperties, LenProperties, EmptySeq
         DEF ProcessMessage, devVars, TypeOK
    <3>2. mBusy = GF_TRUE /\ Len(air) = 0 /\ Len(inbox) = 1
      BY <2>0, <3>1
    <3>3. CASE Dequeue /\ answered' = answered + 1
      <4>1. CASE mCommand = <<>>
        BY <2>0, <3>1, <3>2, <3>3, <4>1 DEF Dequeue
      <4>2. CASE mCommand # <<>>
        <5>1. Head(mCommand) \in Commands
          BY <4>2, HeadTailProperties DEF TypeOK
        <5>2. /\ air' = Append(air, Head(mCommand))
              /\ sent' = Append(sent, Head(mCommand))
              /\ mBusy' = mBusy
          BY <3>1, <3>3, <4>2 DEF Dequeue, SendInternal
        <5>3. Len(air') = Len(air) + 1 /\ Len(sent') = Len(sent) + 1
          BY <5>1, <5>2, AppendProperties DEF TypeOK, OnAir
        <5> QED
          BY <2>0, <3>1, <3>2, <3>3, <5>2, <5>3
      <4> QED
        BY <4>1, <4>2
    <3>4. CASE UNCHANGED <<mCommand, mBusy, air, sent, answered>>
      BY <2>0, <3>1, <3>2, <3>4
    <3> QED
      BY <2>5, <3>3, <3>4 DEF ProcessMessage
  <2>6. CASE DeInit
    BY <2>6 DEF DeInit
  <2>7. CASE UNCHANGED vars
    BY <2>7 DEF vars, devVars, histVars
  <2> QED
    BY <2>1, <2>2, <2>3, <2>4, <2>5, <2>6, <2>7 DEF Next
<1> QED
  BY <1>1, <1>2, TypeCorrect, QueueInvariant, PTL DEF Spec

\* As long as every write has gone through the queue, the device never has two
\* requests or replies under way (Enqueue, Dequeue and both threads around them).
THEOREM OneAtATime == Spec => []OneOutstanding
<1>1. OutstandingInv => OneOutstanding
  BY DEF OutstandingInv
<1> QED
  BY <1>1, OutstandingInvariant, PTL

\* As long as every write has gone through the queue, it implements
\* CommandChannel.
THEOREM Refinement == Spec => ImplementsChannel
<1>1. Init => Channel!Init
  BY DEF Init, Channel!Init
<1>2. TypeOK /\ QueueInv /\ OutstandingInv /\ [Next]_vars
        => [written' = {} => [Channel!Next]_(Channel!vars)]_vars
  <2> SUFFICES ASSUME TypeOK, QueueInv, OutstandingInv, [Next]_vars, written' = {}
               PROVE  [Channel!Next]_(Channel!vars)
    OBVIOUS
  <2>w. written = {} /\ (\A w \in DirectWrites : ~WriteDirect(w))
    BY DEF Next, vars, histVars, Discovered, Issue, WriteDirect, Respond, ProcessMessage, DeInit
  <2> USE DEF GF_TRUE, GF_FALSE
  <2>1. CASE Discovered
    BY <2>1 DEF Discovered, histVars, Channel!vars
  <2>2. ASSUME NEW c \in Commands, Issue(c) PROVE Channel!Accept(c)
    <3>1. mState = "connected" /\ mState' = mState
      BY <2>2 DEF Issue, QueueInv, TypeOK, devVars
    <3>2. Channel!Idle <=> mBusy # GF_TRUE
      BY <3>1, <2>w DEF Channel!Idle, OutstandingInv, TypeOK
    <3>3. sent' = IF mBusy # GF_TRUE THEN Append(sent, c) ELSE sent
      BY <2>2, <3>1 DEF Issue, Enqueue, SendInternal
    <3> QED
      BY <2>2, <3>1, <3>2, <3>3 DEF Issue, Channel!Accept
  <2>3. ASSUME NEW w \in DirectWrites, WriteDirect(w) PROVE FALSE
    BY <2>3, <2>w
  <2>4. CASE Respond
    BY <2>4 DEF Respond, devVars, histVars, Channel!vars
  <2>5. CASE ProcessMessage
    <3>1. /\ mState = "connected" /\ mState' = mState
          /\ accepted' = accepted
          /\ Len(inbox) >= 1
      BY <2>5, LenProperties, EmptySeq DEF ProcessMessage, devVars, TypeOK
    <3>2. mBusy = GF_TRUE
      BY <2>w, <3>1, LenProperties DEF OutstandingInv, OneOutstanding, TypeOK
    <3>3. CASE Dequeue /\ answered' = answered + 1
      <4>1. ~Channel!Idle
        BY <2>w, <3>1, <3>2 DEF Channel!Idle, OutstandingInv, TypeOK
      <4>2. accepted = sent \o mCommand
        BY <3>1 DEF QueueInv, NothingLostOrReordered
      <4>3. /\ Len(accepted) = Len(sent) + Len(mCommand)
            /\ \A i \in 1..Len(mCommand) :
                  accepted[Len(sent) + i] = mCommand[i]
        <5>1. Len(accepted) = Len(sent) + Len(mCommand)
          BY <4>2, ConcatProperties DEF TypeOK
        <5>2. ASSUME NEW i \in 1..Len(mCommand)
              PROVE  accepted[Len(sent) + i] = mCommand[i]
          <6>1. Len(sent) \in Nat /\ Len(mCommand) \in Nat
            BY LenProperties DEF TypeOK
          <6>2. /\ Len(sent) + i \in 1..(Len(sent) + Len(mCommand))
                /\ ~(Len(sent) + i <= Len(sent))
                /\ (Len(sent) + i) - Len(sent) = i
            BY <6>1
          <6> QED
            BY <4>2, <6>1, <6>2, ConcatProperties DEF TypeOK
        <5> QED
          BY <5>1, <5>2
      <4>4. CASE mCommand = <<>>
        <5>1. ~(Len(sent) < Len(accepted))
          BY <4>3, <4>4, LenProperties DEF TypeOK
        <5> QED
          BY <3>1, <3>3, <4>1, <4>4, <5>1 DEF Dequeue, Channel!Next, Channel!Answer
      <4>5. CASE mCommand # <<>>
        <5>1. Len(mCommand) >= 1 /\ Head(mCommand) = mCommand[1]
          BY <4>5, LenProperties, EmptySeq DEF TypeOK
        <5>2. /\ Len(sent) < Len(accepted)
              /\ accepted[Len(sent) + 1] = Head(mCommand)
          <6>1. Len(sent) \in Nat /\ Len(mCommand) \in Nat
            BY LenProperties DEF TypeOK
          <6>2. 1 \in 1..Len(mCommand)
            BY <5>1, <6>1
          <6>3. accepted[Len(sent) + 1] = mCommand[1]
            BY <4>3, <6>2
          <6> QED
            BY <4>3, <5>1, <6>1, <6>3
        <5>3. sent' = Append(sent, Head(mCommand))
          BY <3>1, <3>3, <4>5 DEF Dequeue, SendInternal
        <5> QED
          BY <3>1, <3>3, <4>1, <5>2, <5>3 DEF Channel!Next, Channel!Answer
      <4> QED
        BY <4>4, <4>5
    <3>4. CASE UNCHANGED <<mCommand, mBusy, air, sent, answered>>
      BY <3>1, <3>4 DEF Channel!vars
    <3> QED
      BY <2>5, <3>3, <3>4 DEF ProcessMessage
  <2>6. CASE DeInit
    BY <2>6 DEF DeInit, histVars, Channel!Next, Channel!Close
  <2>7. CASE UNCHANGED vars
    BY <2>7 DEF vars, devVars, histVars, Channel!vars
  <2> QED
    BY <2>1, <2>2, <2>3, <2>4, <2>5, <2>6, <2>7 DEF Next, Channel!Next
<1> QED
  BY <1>1, <1>2, TypeCorrect, QueueInvariant, OutstandingInvariant, PTL
     DEF Spec, ImplementsChannel
-----------------------------------------------------------------------------
(* The discovery walk.  Its inductive invariant says, for each state of the *)
(* walk, what the device knows, what it waits for and which messages can    *)
(* arrive; what its part of the file holds; whose value the shared buffer   *)
(* collects; and that the requests made so far are the announced ones up to *)
(* the last.                                                                *)

\* A queue of one answer at most, and one of n items and the answer that ends them.
One(m, answers) == m = <<>> \/ (Len(m) = 1 /\ m[1] \in answers)
Rest(m, item, last, n) ==
    n \in Nat /\ Len(m) = n + 1 /\ m[n + 1] = last /\ \A i \in 1..n : m[i] = item

\* The services before the one the walk is at are known, those after it are not.
StandsAt(L, r) ==
    /\ r.mNeedSaveService
    /\ Len(r.mService) = Len(L)
    /\ r.svc \in DOMAIN L /\ ~L[r.svc].empty
    /\ \A s \in 1..r.svc - 1 : r.mService[s] = Known(L)[s]
    /\ \A s \in r.svc + 1..Len(L) : r.mService[s] = <<>>

\* What a RemoteDevice r knows and waits for in each state, in front of the
\* armband L and with the messages m.
AtConnection(r, m) ==
    /\ r.mService = <<>> /\ r.svc = 1 /\ r.mNeedSaveService
    /\ r.request = None /\ One(m, {"connected"})

AtSecurity(r, m) ==
    /\ r.mService = <<>> /\ r.svc = 1 /\ r.mNeedSaveService
    /\ \/ r.request \in {Request("auth", 0, 0, 0), Request("bond", 0, 0, 0)}
       \/ /\ r.request = None
          /\ One(m, {"authOk", "authUnsupported", "authNoKey", "authError",
                     "bondOk", "bondKeyMissing", "bondError"})

AtPrimary(L, r, m) ==
    /\ r.svc = 1 /\ r.mNeedSaveService
    /\ \A s \in DOMAIN r.mService : r.mService[s] = <<>>
    /\ \/ /\ r.mService = <<>>
          /\ r.request \in {Request("mtu", 0, 0, 0), Request("primary", 0, 0, 0)}
       \/ r.mService = <<>> /\ r.request = None /\ One(m, {"mtu", "error"})
       \/ r.request = None /\ Rest(m, "group", "groupDone", Len(L) - Len(r.mService))

AtIncluded(L, r, m) ==
    /\ StandsAt(L, r) /\ r.mService[r.svc] = <<>>
    /\ \/ r.request = Request("included", r.svc, 0, 0)
       \/ r.request = None /\ One(m, {"notFound", "typeDone", "error"})

AtCharacteristics(L, r, m) ==
    /\ StandsAt(L, r)
    /\ \A c \in DOMAIN r.mService[r.svc] : r.mService[r.svc][c] = <<>>
    /\ \/ /\ r.mService[r.svc] = <<>>
          /\ r.request = Request("characteristics", r.svc, 0, 0)
       \/ r.mService[r.svc] = <<>> /\ r.request = None /\ One(m, {"notFound", "error"})
       \/ /\ r.request = None
          /\ Rest(m, "type", "typeDone", Len(L[r.svc].chars) - Len(r.mService[r.svc]))

\* A service without characteristics was refused: the walk finds nothing more.
Stuck(L, r, m) ==
    /\ Len(r.mService) = Len(L) /\ r.svc \in DOMAIN L
    /\ \A s \in r.svc..Len(L) : r.mService[s] = <<>>
    /\ \/ r.request = Request("included", r.svc, 0, 0)
       \/ r.request = None /\ One(m, {"notFound", "typeDone", "error"})

\* The characteristics before the one the walk is at are known.
StandsIn(L, r) ==
    /\ StandsAt(L, r)
    /\ Len(r.mService[r.svc]) = Len(L[r.svc].chars)
    /\ r.chr \in DOMAIN L[r.svc].chars
    /\ \A c \in 1..r.chr - 1 : r.mService[r.svc][c] = L[r.svc].chars[c].descs
    /\ \A c \in r.chr + 1..Len(L[r.svc].chars) : r.mService[r.svc][c] = <<>>

AtValue(L, r, m) ==
    /\ StandsIn(L, r)
    /\ \/ /\ r.mService[r.svc][r.chr] = <<>>
          /\ \/ \E op \in {"value", "long", "descriptors"} :
                   r.request = Request(op, r.svc, r.chr, 0)
             \/ r.request = None /\ One(m, {"read", "readLong", "notFound", "error"})
             \/ r.request = None /\ \E n \in 0..Blobs : Rest(m, "blob", "blobDone", n)
       \/ LET found == r.mService[r.svc][r.chr]
              descs == L[r.svc].chars[r.chr].descs
          IN  /\ r.request = None /\ Rest(m, "info", "infoDone", Len(descs) - Len(found))
              /\ \A k \in DOMAIN found : found[k] = descs[k]

AtDescriptors(L, r, m) ==
    /\ r.mService = Known(L)
    /\ \/ /\ r.at \in Positions(Known(L))
          /\ r.request = Request(ToConfigure(Known(L), r.at), r.at[1], r.at[2], r.at[3])
       \/ r.request = None /\ One(m, {"read", "write", "error"})

Stands(L, r, m) ==
    /\ r.request # None => m = <<>>
    /\ r.mState = "IDLE" => AtConnection(r, m)
    /\ r.mState = "W4SECU" => AtSecurity(r, m)
    /\ r.mState = "GATT_PRI_SVC" => AtPrimary(L, r, m)
    /\ r.mState = "GATT_INC_SVC" => AtIncluded(L, r, m)
    /\ r.mState = "GATT_DIS_CHARC" => AtCharacteristics(L, r, m) \/ Stuck(L, r, m)
    /\ r.mState = "GATT_READ_CHARC_VALUE" => AtValue(L, r, m)
    /\ r.mState = "GATT_READ_CHARC_DESCRIPTOR_VALUE" => AtDescriptors(L, r, m)
    /\ r.mState = "CONNECTED" => r.request = None /\ m = <<>>

LinkInv ==
    \A d \in Devices :
        IF link[d] = "down"
          THEN rd[d].mState = "IDLE" /\ rd[d].request = None /\ mMessage[d] = <<>>
          ELSE d \in DOMAIN layout /\ Stands(layout[d], rd[d], mMessage[d])

\* What was asked for are the requests up to the last one, in their order, ...
UpTo(all, last) == {q \in all : q = last \/ Earlier(q, last)}
LastAsked(a) == a[Len(a)]
InOrder(L, loaded, a) ==
    /\ a # <<>> => /\ LastAsked(a) \in Documented(L, loaded)
                   /\ Range(a) = UpTo(Documented(L, loaded), LastAsked(a))
    /\ \A i, j \in DOMAIN a : i < j => Earlier(a[i], a[j])

\* ... which is the one the state is about.
About(L, r, m, a) ==
    /\ r.mState # "aborted"
    /\ r.mState \in {"IDLE", "W4SECU"} => a = <<>> /\ \A i \in DOMAIN m : m[i] # "authError"
    /\ r.mState \notin {"IDLE", "W4SECU"} => a # <<>>
    /\ r.mState = "GATT_PRI_SVC" =>
          /\ LastAsked(a) \in {Request("mtu", 0, 0, 0), Request("primary", 0, 0, 0)}
          /\ r.request # None => LastAsked(a) = r.request
          /\ m # <<>> => (LastAsked(a).op = "mtu" <=> m[Len(m)] = "mtu")
    /\ r.mState = "GATT_INC_SVC" => LastAsked(a) = Request("included", r.svc, 0, 0)
    /\ r.mState = "GATT_DIS_CHARC" =>
          /\ LastAsked(a) = Request("characteristics", r.svc, 0, 0)
          /\ AtCharacteristics(L, r, m)
          /\ m # <<>> => m[Len(m)] = "typeDone"
    /\ r.mState = "GATT_READ_CHARC_VALUE" =>
          /\ LastAsked(a) = Request(
                IF r.request.op = "descriptors" \/ (m # <<>> /\ m[Len(m)] = "infoDone")
                  THEN "descriptors" ELSE "value", r.svc, r.chr, 0)
          /\ m # <<>> => m[Len(m)] # "notFound"
    /\ r.mState = "GATT_READ_CHARC_DESCRIPTOR_VALUE" /\ (r.request # None \/ m # <<>>) =>
          /\ r.at \in Positions(Known(L))
          /\ LastAsked(a) = Request(ToConfigure(Known(L), r.at), r.at[1], r.at[2], r.at[3])
    /\ r.mState = "CONNECTED" => Range(a) = Documented(L, ~r.mNeedSaveService)

AskedInv ==
    \A d \in DOMAIN layout :
        ~refused[d] =>
            /\ InOrder(layout[d], ~rd[d].mNeedSaveService, asked[d])
            /\ link[d] # "down" => About(layout[d], rd[d], mMessage[d], asked[d])

\* A file holds nothing but a link key and the services of the armband, whole;
\* what was cut off is the last of it.
ServicesOf(d) ==
    Element("GATTService", 0, "none", 0,
            [s \in DOMAIN layout[d] |->
                SavePrimaryService(s, Known(layout[d])[s], ReadableOf(d)[s])])
Roots(d) == {LinkKey, Torn} \cup (IF d \in DOMAIN layout THEN {ServicesOf(d)} ELSE {})
WellFormed(d, file) ==
    file \in Seq(Roots(d)) /\ \A i \in DOMAIN file : i < Len(file) => file[i] # Torn
FileInv ==
    /\ DOMAIN database = Devices
    /\ \A d \in Devices : WellFormed(d, database[d])

\* The buffer holds the parts of the long value under way.
Long(d) ==
    \/ rd[d].request.op = "long"
    \/ mMessage[d] # <<>> /\ mMessage[d][Len(mMessage[d])] = "blobDone"
BufferInv ==
    ~overlap =>
        \A d \in Devices :
            /\ value[d] # <<>> => value[d] = Times(Blobs, d)
            /\ rd[d].request.op = "long" => Temp_Buffer = <<>>
            /\ mMessage[d] # <<>> /\ mMessage[d][Len(mMessage[d])] = "blobDone" =>
                  Temp_Buffer = Times(Blobs + 1 - Len(mMessage[d]), d)
            /\ Long(d) => \A e \in Devices \ {d} : ~Long(e)
-----------------------------------------------------------------------------
(* Least elements.                                                          *)

\* The order of the naturals is well-founded, ...
LEMMA NaturalOrder == IsWellFoundedOn({s \in Nat \X Nat : s[1] < s[2]}, Nat)
<1>1. OpToRel(<, Nat) = {s \in Nat \X Nat : s[1] < s[2]}
  BY DEF OpToRel
<1> QED
  BY <1>1, NatLessThanWellFounded DEF OpToRel

\* ... so that a set of them has a least one, ...
LEMMA LeastOf ==
  ASSUME NEW S \in SUBSET Nat, S # {}
  PROVE  \E n \in S : \A m \in S : n <= m
<1> DEFINE R == {s \in Nat \X Nat : s[1] < s[2]}
<1>1. IsWellFoundedOn(R, Nat)
  BY NaturalOrder
<1> HIDE DEF R
<1>2. \E n \in S : \A m \in S : ~(<<m, n>> \in R)
  BY <1>1, WFMin
<1>3. PICK n \in S : \A m \in S : ~(<<m, n>> \in R)
  BY <1>2
<1>4. ASSUME NEW m \in S PROVE n <= m
  <2>1. n \in Nat /\ m \in Nat /\ ~(<<m, n>> \in R)
    BY <1>3
  <2>2. m < n => <<m, n>> \in R
    BY <2>1 DEF R
  <2> QED
    BY <2>1, <2>2
<1> QED
  BY <1>4

\* ... which Least picks.
LEMMA LeastPicked ==
  ASSUME NEW S \in SUBSET Nat, S # {}
  PROVE  Least(S) \in S /\ \A y \in S : Least(S) <= y
<1>1. \E x \in S : \A y \in S : x <= y
  BY LeastOf
<1> QED
  BY <1>1 DEF Least

Triples == Nat \X Nat \X Nat

\* The positions too have a first in their order.
LEMMA FirstPosition ==
  ASSUME NEW P \in SUBSET Triples, P # {}
  PROVE  \E q \in P : \A o \in P : ~Before(o, q)
<1> DEFINE A == {p[1] : p \in P}
<1>0. \A p \in P : p[1] \in Nat /\ p[2] \in Nat /\ p[3] \in Nat
  BY DEF Triples
<1>1. A \in SUBSET Nat /\ A # {}
  BY <1>0
<1>2. PICK a \in A : \A x \in A : a <= x
  <2> HIDE DEF A
  <2> QED  BY <1>1, LeastOf
<1> DEFINE B == {p[2] : p \in {p \in P : p[1] = a}}
<1>3. B \in SUBSET Nat /\ B # {}
  BY <1>0, <1>2
<1>4. PICK b \in B : \A x \in B : b <= x
  <2> HIDE DEF B
  <2> QED  BY <1>3, LeastOf
<1> DEFINE C == {p[3] : p \in {p \in P : p[1] = a /\ p[2] = b}}
<1>5. C \in SUBSET Nat /\ C # {}
  BY <1>0, <1>4
<1>6. PICK c \in C : \A x \in C : c <= x
  <2> HIDE DEF C
  <2> QED  BY <1>5, LeastOf
<1>7. PICK q \in P : q[1] = a /\ q[2] = b /\ q[3] = c
  BY <1>6
<1>8. ASSUME NEW o \in P, Before(o, q) PROVE FALSE
  <2>1. o[1] \in A /\ o[1] \in Nat /\ o[2] \in Nat /\ o[3] \in Nat
    BY <1>0
  <2>2. a <= o[1] /\ a \in Nat /\ b \in Nat /\ c \in Nat
    BY <2>1, <1>0, <1>2, <1>7
  <2>3. o[1] = a
    BY <1>8, <1>7, <2>1, <2>2 DEF Before
  <2>4. o[2] \in B
    BY <2>3
  <2>5. b <= o[2]
    BY <2>4, <1>4
  <2>6. o[2] = b /\ o[3] < c
    BY <1>8, <1>7, <2>1, <2>2, <2>3, <2>5 DEF Before
  <2>7. o[3] \in C
    BY <2>3, <2>6
  <2>8. c <= o[3]
    BY <2>7, <1>6
  <2> QED
    BY <2>1, <2>2, <2>6, <2>8
<1> QED
  BY <1>7, <1>8

-----------------------------------------------------------------------------
(* The armbands.                                                            *)

Kinds    == {"ccc", "other"}
Armbands == UNION {Range(f) : f \in Layouts}

\* An armband in range belongs to a device.
LEMMA InRange ==
  ASSUME layout \in Layouts, NEW d \in DOMAIN layout
  PROVE  d \in Devices /\ layout[d] \in Armbands
BY DiscoveryAssumption DEF Armbands, Range

\* What the layout of an armband is.
LEMMA Shape ==
  ASSUME NEW L \in Armbands
  PROVE  /\ L \in Seq(Service) /\ Len(L) \in Nat /\ Len(L) >= 1
         /\ DOMAIN L = 1..Len(L) /\ ~L[1].empty
         /\ \A s \in 1..Len(L) :
               /\ L[s] \in Service /\ L[s].chars \in Seq(Characteristic)
               /\ Len(L[s].chars) \in Nat /\ DOMAIN L[s].chars = 1..Len(L[s].chars)
               /\ L[s].empty => L[s].chars = <<>>
               /\ \A c \in 1..Len(L[s].chars) :
                     /\ L[s].chars[c] \in Characteristic
                     /\ L[s].chars[c].descs \in Seq(Kinds)
                     /\ L[s].chars[c].descs # <<>> => L[s].chars[c].room
<1>1. L \in Seq(Service) /\ L # <<>> /\ ~L[1].empty
  BY DiscoveryAssumption DEF Armbands
<1>2. Len(L) \in Nat /\ DOMAIN L = 1..Len(L) /\ Len(L) >= 1
  BY <1>1, EmptySeq, LenProperties
<1>3. ASSUME NEW s \in 1..Len(L)
      PROVE  /\ L[s] \in Service /\ L[s].chars \in Seq(Characteristic)
             /\ Len(L[s].chars) \in Nat /\ DOMAIN L[s].chars = 1..Len(L[s].chars)
  <2>1. L[s] \in Service
    BY <1>1, <1>2, ElementOfSeq
  <2>2. L[s].chars \in Seq(Characteristic)
    BY <2>1 DEF Service
  <2> QED
    BY <2>1, <2>2, LenProperties
<1>4. ASSUME NEW s \in 1..Len(L)
      PROVE  /\ L[s].empty => L[s].chars = <<>>
             /\ \A c \in DOMAIN L[s].chars :
                   L[s].chars[c].descs # <<>> => L[s].chars[c].room
  BY <1>2, DiscoveryAssumption DEF Armbands
<1>5. ASSUME NEW s \in 1..Len(L), NEW c \in 1..Len(L[s].chars)
      PROVE  L[s].chars[c] \in Characteristic /\ L[s].chars[c].descs \in Seq(Kinds)
  <2>1. L[s].chars[c] \in Characteristic
    BY <1>3, ElementOfSeq
  <2> QED
    BY <2>1 DEF Characteristic, Kinds
<1> QED
  BY <1>1, <1>2, <1>3, <1>4, <1>5

\* What there is to know of it.
LEMMA KnownShape ==
  ASSUME NEW L \in Armbands
  PROVE  /\ Known(L) \in Services /\ Len(Known(L)) = Len(L)
         /\ \A s \in 1..Len(L) :
               /\ Known(L)[s] \in Seq(Seq(Kinds))
               /\ Len(Known(L)[s]) = Len(L[s].chars)
               /\ \A c \in 1..Len(L[s].chars) : Known(L)[s][c] = L[s].chars[c].descs
<1>1. ASSUME NEW s \in 1..Len(L)
      PROVE  /\ Known(L)[s] \in Seq(Seq(Kinds))
             /\ Len(Known(L)[s]) = Len(L[s].chars)
             /\ \A c \in 1..Len(L[s].chars) : Known(L)[s][c] = L[s].chars[c].descs
  <2>1. Known(L)[s] = [c \in 1..Len(L[s].chars) |-> L[s].chars[c].descs]
    BY Shape DEF Known
  <2>2. \A c \in 1..Len(L[s].chars) : L[s].chars[c].descs \in Seq(Kinds)
    BY Shape
  <2>3. Len(L[s].chars) \in Nat
    BY Shape
  <2> QED
    BY <2>1, <2>2, <2>3
<1>2. Known(L) \in [1..Len(L) -> Seq(Seq(Kinds))]
  <2>1. DOMAIN L = 1..Len(L)
    BY Shape
  <2>2. Known(L) = [s \in 1..Len(L) |-> Known(L)[s]]
    BY <2>1 DEF Known
  <2> QED
    BY <1>1, <2>2
<1>3. Len(L) \in Nat
  BY Shape
<1> QED
  BY <1>1, <1>2, <1>3 DEF Services, Kinds

\* The positions of descriptors among services.
LEMMA PositionsAre ==
  ASSUME NEW K \in Services
  PROVE  \A p : p \in Positions(K) <=>
            /\ p \in Triples
            /\ p[1] \in 1..Len(K) /\ p[2] \in 1..Len(K[p[1]])
            /\ p[3] \in 1..Len(K[p[1]][p[2]])
<1>1. DOMAIN K = 1..Len(K) /\ Len(K) \in Nat
  BY DEF Services
<1>2. \A s \in 1..Len(K) :
         /\ K[s] \in Seq(Seq(Kinds)) /\ DOMAIN K[s] = 1..Len(K[s]) /\ Len(K[s]) \in Nat
  BY <1>1 DEF Services, Kinds
<1>3. \A s \in 1..Len(K) : \A c \in 1..Len(K[s]) :
         /\ K[s][c] \in Seq(Kinds) /\ DOMAIN K[s][c] = 1..Len(K[s][c])
         /\ Len(K[s][c]) \in Nat
  BY <1>2
<1>4. ASSUME NEW p, p \in Positions(K)
      PROVE  \E s \in 1..Len(K) : \E c \in 1..Len(K[s]) : \E k \in 1..Len(K[s][c]) :
                p = <<s, c, k>>
  <2>1. PICK s \in DOMAIN K : p \in UNION {{<<s, c, k>> : k \in DOMAIN K[s][c]}
                                             : c \in DOMAIN K[s]}
    BY <1>4 DEF Positions
  <2>2. PICK c \in DOMAIN K[s] : p \in {<<s, c, k>> : k \in DOMAIN K[s][c]}
    BY <2>1
  <2>3. PICK k \in DOMAIN K[s][c] : p = <<s, c, k>>
    BY <2>2
  <2> QED
    BY <1>1, <1>2, <1>3, <2>1, <2>2, <2>3
<1>5. ASSUME NEW s \in 1..Len(K), NEW c \in 1..Len(K[s]), NEW k \in 1..Len(K[s][c])
      PROVE  <<s, c, k>> \in Positions(K)
  <2>1. <<s, c, k>> \in {<<s, c, j>> : j \in DOMAIN K[s][c]}
    BY <1>3
  <2>2. <<s, c, k>> \in UNION {{<<s, x, j>> : j \in DOMAIN K[s][x]} : x \in DOMAIN K[s]}
    BY <1>2, <2>1
  <2> QED
    BY <1>1, <2>2 DEF Positions
<1>6. ASSUME NEW p, p \in Positions(K)
      PROVE  /\ p \in Triples /\ p[1] \in 1..Len(K) /\ p[2] \in 1..Len(K[p[1]])
             /\ p[3] \in 1..Len(K[p[1]][p[2]])
  <2>0. \E s \in 1..Len(K) : \E c \in 1..Len(K[s]) : \E k \in 1..Len(K[s][c]) :
           p = <<s, c, k>>
    BY <1>4, <1>6
  <2>1. PICK s \in 1..Len(K) : \E c \in 1..Len(K[s]) : \E k \in 1..Len(K[s][c]) :
           p = <<s, c, k>>
    BY <2>0
  <2>3. PICK c \in 1..Len(K[s]) : \E k \in 1..Len(K[s][c]) : p = <<s, c, k>>
    BY <2>1
  <2>4. PICK k \in 1..Len(K[s][c]) : p = <<s, c, k>>
    BY <2>3
  <2>2. s \in Nat /\ c \in Nat /\ k \in Nat
    BY <1>1, <1>2, <1>3
  <2> QED
    BY <2>2, <2>4 DEF Triples
<1>7. ASSUME NEW p \in Triples, p[1] \in 1..Len(K), p[2] \in 1..Len(K[p[1]]),
             p[3] \in 1..Len(K[p[1]][p[2]])
      PROVE  p \in Positions(K)
  <2>1. p = <<p[1], p[2], p[3]>>
    BY DEF Triples
  <2>2. <<p[1], p[2], p[3]>> \in Positions(K)
    BY <1>5, <1>7
  <2> QED
    BY <2>1, <2>2
<1> QED
  BY <1>6, <1>7
-----------------------------------------------------------------------------
(* What the helpers that move the walk on return.                           *)

Ops == {"none", "auth", "bond", "mtu", "primary", "included", "characteristics",
        "value", "long", "descriptors", "read", "write"}
Remotes == [mState : States, mService : Services, svc : Nat, chr : Nat,
            at : Nat \X Nat \X Nat, mNeedSaveService : BOOLEAN, request : Requests]

\* The fields of a RemoteDevice, typed.
LEMMA RemoteFields ==
  ASSUME NEW r \in Remotes
  PROVE  /\ r.mState \in States /\ r.mService \in Services /\ r.svc \in Nat
         /\ r.chr \in Nat /\ r.at \in Triples /\ r.mNeedSaveService \in BOOLEAN
         /\ r.request \in Requests
BY DEF Remotes, Triples

\* The fields of a request.
LEMMA RequestIs ==
  ASSUME NEW op, NEW s, NEW c, NEW k
  PROVE  /\ Request(op, s, c, k).op = op /\ Request(op, s, c, k).svc = s
         /\ Request(op, s, c, k).chr = c /\ Request(op, s, c, k).des = k
         /\ op \in Ops /\ s \in Nat /\ c \in Nat /\ k \in Nat =>
               Request(op, s, c, k) \in Requests
         /\ op # "none" => Request(op, s, c, k) # None
BY DEF Request, Requests, Ops, None

\* The same but for the cursors, the state and the request.
Keeps(r, n) ==
    /\ n \in Remotes /\ n.mService = r.mService
    /\ n.mNeedSaveService = r.mNeedSaveService

\* The first position from p on.
First(K, p, n) ==
    /\ n.at \in Positions(K) /\ ~Before(n.at, p)
    /\ \A o \in Positions(K) : ~Before(o, p) => ~Before(o, n.at)
    /\ n.request = Request(ToConfigure(K, n.at), n.at[1], n.at[2], n.at[3])

\* Configure asks for the first descriptor that is left, and touches nothing else.
LEMMA ConfigureDoes ==
  ASSUME NEW r \in Remotes, NEW p
  PROVE  LET n == Configure(r, p)
         IN  /\ Keeps(r, n) /\ n.mState = r.mState /\ n.svc = r.svc /\ n.chr = r.chr
             /\ IF Unconfigured(r, p) = {} THEN n = r ELSE First(r.mService, p, n)
<1>0. Keeps(r, r)
  BY DEF Keeps
<1>1. CASE Unconfigured(r, p) = {}
  BY <1>0, <1>1 DEF Configure
<1>2. CASE Unconfigured(r, p) # {}
  <2> DEFINE U == Unconfigured(r, p)
             q == CHOOSE q \in U : \A o \in U : ~Before(o, q)
  <2>1. U \in SUBSET Triples
    BY PositionsAre, RemoteFields DEF Unconfigured
  <2>2. \E x \in U : \A o \in U : ~Before(o, x)
    <3> HIDE DEF U
    <3> QED  BY <2>1, <1>2, FirstPosition DEF U
  <2>3. q \in U /\ \A o \in U : ~Before(o, q)
    <3> HIDE DEF U
    <3> QED  BY <2>2
  <2>4. q \in Triples /\ q \in Positions(r.mService) /\ ~Before(q, p)
    BY <2>1, <2>3 DEF Unconfigured
  <2>5. \A o \in Positions(r.mService) : ~Before(o, p) => ~Before(o, q)
    BY <2>3 DEF Unconfigured
  <2>6. Configure(r, p) = Ask([r EXCEPT !.at = q], r.mState, ToConfigure(r.mService, q),
                              q[1], q[2], q[3])
    BY <1>2 DEF Configure
  <2> HIDE DEF q, U
  <2> DEFINE a == [r EXCEPT !.at = q]
  <2>7. a \in Remotes /\ a.mService = r.mService /\ a.mNeedSaveService = r.mNeedSaveService
        /\ a.svc = r.svc /\ a.chr = r.chr /\ a.at = q
    BY <2>4 DEF Remotes, Triples
  <2>8. q[1] \in Nat /\ q[2] \in Nat /\ q[3] \in Nat /\ r.mState \in States
    BY <2>4, RemoteFields DEF Triples
  <2>9. ToConfigure(r.mService, q) \in Ops
    BY DEF ToConfigure, Ops
  <2> HIDE DEF a
  <2>10. PICK n : n = Configure(r, p)
    OBVIOUS
  <2>11. PICK o \in Requests : o = Request(ToConfigure(r.mService, q), q[1], q[2], q[3])
    BY <2>8, <2>9, RequestIs
  <2>12. n = [a EXCEPT !.mState = r.mState, !.request = o]
    BY <2>6, <2>10, <2>11 DEF a, Ask
  <2>13. /\ Keeps(a, n) /\ n.mState = r.mState /\ n.request = o
         /\ n.svc = a.svc /\ n.chr = a.chr /\ n.at = a.at
    BY <2>7, <2>8, <2>12 DEF Keeps, Remotes
  <2>14. /\ Keeps(r, n) /\ n.mState = r.mState /\ n.svc = r.svc /\ n.chr = r.chr
         /\ First(r.mService, p, n)
    BY <2>4, <2>5, <2>7, <2>11, <2>13 DEF Keeps, First
  <2> QED
    BY <1>2, <2>10, <2>14
<1> QED
  BY <1>1, <1>2

\* The configuration starts at the first position of all.
Starts(r, n) ==
    /\ n.mState = "GATT_READ_CHARC_DESCRIPTOR_VALUE"
    /\ IF Positions(r.mService) = {} THEN n.request = r.request
       ELSE First(r.mService, <<1, 1, 1>>, n)

\* No descriptor comes before the place the configuration starts from.
LEMMA NoneBeforeFirst ==
  ASSUME NEW K \in Services, NEW p \in Positions(K)
  PROVE  ~Before(p, <<1, 1, 1>>)
<1>1. p \in Triples /\ p[1] \in 1..Len(K) /\ p[2] \in 1..Len(K[p[1]])
      /\ p[3] \in 1..Len(K[p[1]][p[2]])
  BY PositionsAre
<1>2. p[1] >= 1 /\ p[2] >= 1 /\ p[3] >= 1
  BY <1>1
<1>3. p[1] \in Nat /\ p[2] \in Nat /\ p[3] \in Nat
  BY <1>1 DEF Triples
<1> QED
  BY <1>2, <1>3 DEF Before

\* StartConfiguration asks for the first descriptor, or leaves the device without a request.
LEMMA StartDoes ==
  ASSUME NEW r \in Remotes
  PROVE  LET n == StartConfiguration(r)
         IN  Keeps(r, n) /\ n.svc = r.svc /\ n.chr = r.chr /\ Starts(r, n)
<1> DEFINE m == Configure(r, <<1, 1, 1>>)
<1>1. /\ Keeps(r, m) /\ m.svc = r.svc /\ m.chr = r.chr
      /\ IF Unconfigured(r, <<1, 1, 1>>) = {} THEN m = r
         ELSE First(r.mService, <<1, 1, 1>>, m)
  BY ConfigureDoes
<1>2. Unconfigured(r, <<1, 1, 1>>) = Positions(r.mService)
  BY NoneBeforeFirst, RemoteFields DEF Unconfigured
<1>3. StartConfiguration(r) = [m EXCEPT !.mState = "GATT_READ_CHARC_DESCRIPTOR_VALUE"]
  BY DEF StartConfiguration
<1> HIDE DEF m
<1>4. m \in Remotes
  BY <1>1 DEF Keeps
<1> DEFINE n == [m EXCEPT !.mState = "GATT_READ_CHARC_DESCRIPTOR_VALUE"]
<1>5. /\ n \in Remotes /\ n.mService = m.mService /\ n.mNeedSaveService = m.mNeedSaveService
      /\ n.svc = m.svc /\ n.chr = m.chr /\ n.at = m.at /\ n.request = m.request
      /\ n.mState = "GATT_READ_CHARC_DESCRIPTOR_VALUE"
  BY <1>4 DEF Remotes, States
<1> HIDE DEF n
<1>6. Keeps(r, n) /\ n.svc = r.svc /\ n.chr = r.chr /\ Starts(r, n)
  BY <1>1, <1>2, <1>5 DEF Keeps, Starts, First
<1> QED
  BY <1>3, <1>6 DEF n

\* The next service with a range, or the configuration when there is none.
ToService(L, r, n) ==
    \/ /\ n.svc \in r.svc + 1..Len(L) /\ ~L[n.svc].empty
       /\ \A s \in r.svc + 1..n.svc - 1 : L[s].empty
       /\ n.mState = "GATT_INC_SVC" /\ n.request = Request("included", n.svc, 0, 0)
    \/ /\ \A s \in r.svc + 1..Len(L) : L[s].empty
       /\ n.svc = r.svc /\ Starts(r, n)

\* The next available service is the first behind the cursor that has a range.
LEMMA AvailableIs ==
  ASSUME layout \in Layouts, NEW d \in DOMAIN layout, NEW r \in Remotes,
         Len(r.mService) = Len(layout[d]), NextServices(d, r) # {}
  PROVE  LET s == NextAvailable(d, r)
         IN  /\ s \in r.svc + 1..Len(layout[d]) /\ ~layout[d][s].empty
             /\ \A x \in r.svc + 1..s - 1 : layout[d][x].empty
<1> DEFINE S == NextServices(d, r)
<1>1. r.svc \in Nat /\ Len(layout[d]) \in Nat
  BY RemoteFields, InRange, Shape
<1>2. S \in SUBSET Nat
  BY <1>1 DEF NextServices
<1>3. Least(S) \in S /\ \A y \in S : Least(S) <= y
  <2> HIDE DEF S
  <2> QED  BY <1>2, LeastPicked DEF S
<1>4. \A x \in r.svc + 1..Least(S) - 1 : layout[d][x].empty
  <2> SUFFICES ASSUME NEW x \in r.svc + 1..Least(S) - 1, ~layout[d][x].empty PROVE FALSE
    OBVIOUS
  <2>1. Least(S) \in r.svc + 1..Len(layout[d])
    BY <1>3 DEF NextServices
  <2> HIDE DEF S
  <2>2. x \in r.svc + 1..Len(layout[d]) /\ x < Least(S)
    BY <2>1, <1>1
  <2>3. x \in S
    BY <2>2 DEF NextServices, S
  <2> QED
    BY <2>1, <2>2, <2>3, <1>1, <1>3
<1> QED
  BY <1>3, <1>4 DEF NextAvailable, NextServices

\* NextService goes to that service, or starts the configuration behind the last.
LEMMA NextServiceDoes ==
  ASSUME layout \in Layouts, NEW d \in DOMAIN layout, NEW r \in Remotes,
         Len(r.mService) = Len(layout[d])
  PROVE  LET n == NextService(d, r)
         IN  Keeps(r, n) /\ n.chr = r.chr /\ ToService(layout[d], r, n)
<1>1. CASE NextServices(d, r) = {}
  <2>1. NextService(d, r) = StartConfiguration(r)
    BY <1>1 DEF NextService
  <2>2. \A s \in r.svc + 1..Len(layout[d]) : layout[d][s].empty
    BY <1>1 DEF NextServices
  <2> QED
    BY <2>1, <2>2, StartDoes DEF ToService
<1>2. CASE NextServices(d, r) # {}
  <2> DEFINE s == NextAvailable(d, r)
             a == [r EXCEPT !.svc = s]
  <2>1. /\ s \in r.svc + 1..Len(layout[d]) /\ ~layout[d][s].empty
        /\ \A x \in r.svc + 1..s - 1 : layout[d][x].empty
    BY <1>2, AvailableIs
  <2>2. NextService(d, r) = Ask(a, "GATT_INC_SVC", "included", s, 0, 0)
    BY <1>2 DEF NextService
  <2> HIDE DEF s
  <2>3. s \in Nat
    BY <2>1, RemoteFields, InRange, Shape
  <2>4. a \in Remotes /\ a.mService = r.mService /\ a.mNeedSaveService = r.mNeedSaveService
        /\ a.svc = s /\ a.chr = r.chr
    BY <2>3 DEF Remotes
  <2> HIDE DEF a
  <2>5. PICK o \in Requests : o = Request("included", s, 0, 0)
    BY <2>3, RequestIs DEF Ops
  <2>6. PICK n : n = [a EXCEPT !.mState = "GATT_INC_SVC", !.request = o]
    OBVIOUS
  <2>7. /\ Keeps(a, n) /\ n.mState = "GATT_INC_SVC" /\ n.request = o
        /\ n.svc = a.svc /\ n.chr = a.chr
    <3>1. "GATT_INC_SVC" \in States
      BY DEF States
    <3> QED
      BY <3>1, <2>4, <2>6 DEF Keeps, Remotes
  <2>8. Keeps(r, n) /\ n.chr = r.chr /\ ToService(layout[d], r, n)
    BY <2>1, <2>4, <2>5, <2>7 DEF Keeps, ToService
  <2> QED
    BY <2>2, <2>5, <2>6, <2>8 DEF Ask
<1> QED
  BY <1>1, <1>2

\* The next characteristic with something to ask for, or the next service.
RoomIn(L, s, c) == L[s].chars[c].room \/ (s = Len(L) /\ c = Len(L[s].chars))
Skipped(L, s, c) == ~L[s].chars[c].readable /\ ~RoomIn(L, s, c)
ToCharacteristic(L, r, from, n) ==
    /\ n.chr \in from..Len(L[r.svc].chars) /\ ~Skipped(L, r.svc, n.chr)
    /\ \A c \in from..n.chr - 1 : Skipped(L, r.svc, c)
    /\ n.mState = "GATT_READ_CHARC_VALUE" /\ n.svc = r.svc
    /\ n.request = Request(IF L[r.svc].chars[n.chr].readable THEN "value" ELSE "descriptors",
                           r.svc, n.chr, 0)
MovesOn(L, r, from, n) ==
    \/ ToCharacteristic(L, r, from, n)
    \/ /\ \A c \in from..Len(L[r.svc].chars) : Skipped(L, r.svc, c)
       /\ ToService(L, r, n)

\* Room for descriptors and readability, said of the armband instead of the device.
LEMMA RoomIs ==
  ASSUME NEW d, NEW r, Len(r.mService) = Len(layout[d]),
         Len(r.mService[r.svc]) = Len(layout[d][r.svc].chars), NEW c
  PROVE  /\ HasRoom(d, r, c) <=> RoomIn(layout[d], r.svc, c)
         /\ Readable(d, r, c) <=> layout[d][r.svc].chars[c].readable
BY DEF HasRoom, RoomIn, Readable

\* Visit goes to the first characteristic that is not skipped, or to the next service.
LEMMA VisitDoes ==
  ASSUME layout \in Layouts, NEW d \in DOMAIN layout, NEW r \in Remotes,
         Len(r.mService) = Len(layout[d]), r.svc \in 1..Len(layout[d]),
         Len(r.mService[r.svc]) = Len(layout[d][r.svc].chars), NEW from \in Nat
  PROVE  LET n == Visit(d, r, from)
         IN  Keeps(r, n) /\ MovesOn(layout[d], r, from, n)
<1> DEFINE L == layout[d]
           S == {c \in from..Len(r.mService[r.svc]) : Readable(d, r, c) \/ HasRoom(d, r, c)}
<1>1. Len(L[r.svc].chars) \in Nat /\ L[r.svc].chars \in Seq(Characteristic)
  BY InRange, Shape
<1>2. S = {c \in from..Len(L[r.svc].chars) : ~Skipped(L, r.svc, c)}
  BY RoomIs DEF Skipped
<1>3. Visit(d, r, from) =
         IF S = {} THEN NextService(d, r)
         ELSE Ask([r EXCEPT !.chr = Least(S)], "GATT_READ_CHARC_VALUE",
                  IF Readable(d, r, Least(S)) THEN "value" ELSE "descriptors",
                  r.svc, Least(S), 0)
  BY DEF Visit
<1> HIDE DEF S
<1>4. CASE S = {}
  <2>1. \A c \in from..Len(L[r.svc].chars) : Skipped(L, r.svc, c)
    BY <1>2, <1>4
  <2> QED
    BY <1>3, <1>4, <2>1, NextServiceDoes DEF MovesOn
<1>5. CASE S # {}
  <2> DEFINE c == Least(S)
             a == [r EXCEPT !.chr = c]
             op == IF Readable(d, r, c) THEN "value" ELSE "descriptors"
  <2>1. S \in SUBSET Nat
    BY <1>1, <1>2
  <2>2. c \in S /\ \A y \in S : c <= y
    BY <2>1, <1>5, LeastPicked
  <2> HIDE DEF c
  <2>3. c \in from..Len(L[r.svc].chars) /\ ~Skipped(L, r.svc, c) /\ c \in Nat
    BY <2>1, <2>2, <1>2
  <2>4. \A x \in from..c - 1 : Skipped(L, r.svc, x)
    <3> SUFFICES ASSUME NEW x \in from..c - 1, ~Skipped(L, r.svc, x) PROVE FALSE
      OBVIOUS
    <3>1. x \in from..Len(L[r.svc].chars) /\ x < c
      BY <2>3, <1>1
    <3>2. x \in S
      BY <3>1, <1>2
    <3> QED
      BY <3>1, <3>2, <2>2, <2>3
  <2>5. a \in Remotes /\ a.mService = r.mService /\ a.mNeedSaveService = r.mNeedSaveService
        /\ a.svc = r.svc /\ a.chr = c
    BY <2>3 DEF Remotes
  <2>6. Visit(d, r, from) = Ask(a, "GATT_READ_CHARC_VALUE", op, r.svc, c, 0)
    BY <1>3, <1>5 DEF c
  <2> HIDE DEF a
  <2>7. "GATT_READ_CHARC_VALUE" \in States /\ op \in Ops /\ 0 \in Nat /\ r.svc \in Nat
    BY RemoteFields DEF States, Ops
  <2>8. op = IF L[r.svc].chars[c].readable THEN "value" ELSE "descriptors"
    BY RoomIs
  <2> HIDE DEF op, L
  <2>9. PICK o \in Requests : o = Request(op, r.svc, c, 0)
    BY <2>3, <2>7, RequestIs
  <2>10. PICK n : n = [a EXCEPT !.mState = "GATT_READ_CHARC_VALUE", !.request = o]
    OBVIOUS
  <2>11. /\ Keeps(a, n) /\ n.mState = "GATT_READ_CHARC_VALUE" /\ n.request = o
         /\ n.svc = a.svc /\ n.chr = a.chr
    BY <2>5, <2>7, <2>10 DEF Keeps, Remotes
  <2>12. Keeps(r, n) /\ MovesOn(L, r, from, n)
    BY <2>3, <2>4, <2>5, <2>8, <2>9, <2>11 DEF Keeps, MovesOn, ToCharacteristic
  <2> QED
    BY <2>6, <2>9, <2>10, <2>12 DEF L, Ask
<1> QED
  BY <1>4, <1>5
-----------------------------------------------------------------------------
(* The file of an armband.                                                  *)

\* The fields of an element of the file.
LEMMA ElementIs ==
  ASSUME NEW name, NEW index, NEW uuid, NEW num, NEW children
  PROVE  LET e == Element(name, index, uuid, num, children)
         IN  /\ e.name = name /\ e.index = index /\ e.uuid = uuid
             /\ e.num = num /\ e.children = children
BY DEF Element

\* Items that carry their index are found again by it.
LEMMA ByIndexIs ==
  ASSUME NEW n \in Nat, NEW f, NEW S,
         \A i \in 1..n : f[i] \in S /\ f[i].index = i,
         \A e \in S : \E i \in 1..n : e = f[i]
  PROVE  ByIndex(S, n) = [i \in 1..n |-> f[i]]
<1>1. ASSUME NEW i \in 1..n PROVE (CHOOSE e \in S : e.index = i) = f[i]
  <2>1. (CHOOSE e \in S : e.index = i) \in S /\ (CHOOSE e \in S : e.index = i).index = i
    OBVIOUS
  <2> QED
    BY <2>1
<1> QED
  BY <1>1 DEF ByIndex

\* A sequence is the function of its items.
LEMMA SeqIsFunction ==
  ASSUME NEW S, NEW s \in Seq(S)
  PROVE  s = [i \in 1..Len(s) |-> s[i]]
OBVIOUS

\* The descriptors of a characteristic come back as they were, ...
LEMMA CharacteristicComesBack ==
  ASSUME NEW c, NEW descs \in Seq(Kinds), NEW readable
  PROVE  LoadCharacteristic(SaveCharacteristic(c, descs, readable)) = descs
<1> DEFINE n == Len(descs)
           B == [k \in 1..n |-> SaveCharacteristicDescriptor(k, descs[k])]
           A == IF readable THEN <<SaveChracteristicValue>> ELSE <<>>
           S == {SaveChracteristicValue} \cup {B[k] : k \in 1..n}
           D == {B[k] : k \in 1..n}
<1>1. n \in Nat /\ DOMAIN descs = 1..n
  OBVIOUS
<1>2. SaveCharacteristic(c, descs, readable) = Element("Characteristic", c, "none", n, A \o B)
  BY <1>1 DEF SaveCharacteristic
<1>3. ASSUME NEW k \in 1..n
      PROVE  /\ B[k].name = "CharacteristicDescriptor" /\ B[k].index = k
             /\ B[k].uuid = descs[k]
  BY ElementIs DEF SaveCharacteristicDescriptor
<1>4. SaveChracteristicValue.name = "CharacteristicValue"
  BY ElementIs DEF SaveChracteristicValue
<1>5. B \in Seq(S) /\ Len(B) = n
  BY <1>1
<1>6. A \in Seq(S)
  <2>1. SaveChracteristicValue \in S
    OBVIOUS
  <2> HIDE DEF S
  <2>2. <<>> \in Seq(S) /\ <<SaveChracteristicValue>> \in Seq(S)
    BY <2>1
  <2> QED
    BY <2>2
<1> HIDE DEF A, B, S
<1>7. /\ Len(A \o B) = Len(A) + n /\ DOMAIN (A \o B) = 1..Len(A) + n
      /\ \A i \in 1..Len(A) : (A \o B)[i] = A[i]
      /\ \A k \in 1..n : (A \o B)[Len(A) + k] = B[k]
  BY <1>1, <1>5, <1>6
<1>8. \A i \in 1..Len(A) : A[i] = SaveChracteristicValue
  BY DEF A
<1>9. Len(A) \in Nat
  BY <1>6
<1>10. ASSUME NEW i \in 1..Len(A) + n,
              (A \o B)[i].name = "CharacteristicDescriptor"
       PROVE  \E k \in 1..n : (A \o B)[i] = B[k]
  <2>1. CASE i \in 1..Len(A)
    BY <1>4, <1>7, <1>8, <1>10, <2>1
  <2>2. CASE i \notin 1..Len(A)
    <3>1. i - Len(A) \in 1..n /\ i = Len(A) + (i - Len(A))
      BY <1>1, <1>9, <2>2
    <3> QED
      BY <3>1, <1>7
  <2> QED
    BY <2>1, <2>2
<1>11. Named(A \o B, "CharacteristicDescriptor") = D
  <2>1. ASSUME NEW e \in Named(A \o B, "CharacteristicDescriptor") PROVE e \in D
    <3>1. PICK i \in 1..Len(A) + n : e = (A \o B)[i]
                                     /\ (A \o B)[i].name = "CharacteristicDescriptor"
      BY <1>7 DEF Named, Places
    <3> QED
      BY <3>1, <1>10
  <2>2. ASSUME NEW k \in 1..n PROVE B[k] \in Named(A \o B, "CharacteristicDescriptor")
    <3>1. Len(A) + k \in 1..Len(A) + n
      BY <1>1, <1>9
    <3>2. Len(A) + k \in Places(A \o B, "CharacteristicDescriptor")
      BY <3>1, <1>3, <1>7 DEF Places
    <3> QED
      BY <3>2, <1>7 DEF Named
  <2> QED
    BY <2>1, <2>2
<1> DEFINE e == SaveCharacteristic(c, descs, readable)
<1>12. e.num = n /\ GetCharacteristicDescriptor(e) = D
  BY <1>2, <1>11, ElementIs DEF GetCharacteristicDescriptor
<1>13. ByIndex(D, n) = [k \in 1..n |-> B[k]]
  <2>1. \A k \in 1..n : B[k] \in D /\ B[k].index = k
    BY <1>3
  <2>2. \A x \in D : \E k \in 1..n : x = B[k]
    OBVIOUS
  <2> HIDE DEF D
  <2> QED
    BY <1>1, <2>1, <2>2, ByIndexIs
<1> HIDE DEF e, D
<1>14. LoadCharacteristic(e) = [k \in DOMAIN ByIndex(D, n) |-> ByIndex(D, n)[k].uuid]
  BY <1>12 DEF LoadCharacteristic
<1>15. LoadCharacteristic(e) = [k \in 1..n |-> B[k].uuid]
  BY <1>13, <1>14
<1>16. LoadCharacteristic(e) = [k \in 1..n |-> descs[k]]
  BY <1>15, <1>3
<1> QED
  BY <1>16, SeqIsFunction DEF e, n

\* ... and so do the characteristics of a service.
LEMMA ServiceComesBack ==
  ASSUME NEW s, NEW charas \in Seq(Seq(Kinds)), NEW readable
  PROVE  LoadPrimaryService(SavePrimaryService(s, charas, readable)) = charas
<1> DEFINE n == Len(charas)
           B == [c \in 1..n |-> SaveCharacteristic(c, charas[c], readable[c])]
           D == {B[c] : c \in 1..n}
           e == SavePrimaryService(s, charas, readable)
<1>1. n \in Nat /\ DOMAIN charas = 1..n /\ \A c \in 1..n : charas[c] \in Seq(Kinds)
  <2>1. n \in Nat /\ DOMAIN charas = 1..n
    OBVIOUS
  <2> QED
    BY <2>1, ElementOfSeq
<1>2. e.num = n /\ e.children = B
  <2>1. B = [c \in DOMAIN charas |-> SaveCharacteristic(c, charas[c], readable[c])]
    BY <1>1
  <2>2. e = Element("PrimaryService", s, "none", n, B)
    BY <2>1 DEF SavePrimaryService
  <2> QED
    BY <2>2, ElementIs
<1>3. \A c \in 1..n : B[c].name = "Characteristic" /\ B[c].index = c
  BY ElementIs DEF SaveCharacteristic
<1>4. \A c \in 1..n : LoadCharacteristic(B[c]) = charas[c]
  BY <1>1, CharacteristicComesBack
<1>5. DOMAIN B = 1..n
  OBVIOUS
<1> HIDE DEF B, e
<1>6. Named(B, "Characteristic") = D
  BY <1>3, <1>5 DEF Named, Places
<1>7. GetCharacteristic(e) = D
  BY <1>2, <1>6 DEF GetCharacteristic
<1>8. ByIndex(D, n) = [c \in 1..n |-> B[c]]
  <2>1. \A c \in 1..n : B[c] \in D /\ B[c].index = c
    BY <1>3
  <2>2. \A x \in D : \E c \in 1..n : x = B[c]
    OBVIOUS
  <2> HIDE DEF D
  <2> QED
    BY <1>1, <2>1, <2>2, ByIndexIs, SMTT(30)
<1> HIDE DEF D
<1>9. LoadPrimaryService(e) = [c \in DOMAIN ByIndex(D, n) |-> LoadCharacteristic(ByIndex(D, n)[c])]
  BY <1>2, <1>7 DEF LoadPrimaryService
<1>10. LoadPrimaryService(e) = [c \in 1..n |-> LoadCharacteristic(B[c])]
  BY <1>8, <1>9
<1>11. LoadPrimaryService(e) = [c \in 1..n |-> charas[c]]
  BY <1>4, <1>10
<1> QED
  BY <1>11, SeqIsFunction DEF e, n

\* No two roots are taken for each other.
LEMMA RootNames ==
  ASSUME NEW d
  PROVE  /\ LinkKey.name = "SecurityInfomation" /\ Torn.name = "torn"
         /\ ServicesOf(d).name = "GATTService"
         /\ Torn # LinkKey /\ Torn # ServicesOf(d)
<1>1. /\ LinkKey.name = "SecurityInfomation" /\ Torn.name = "torn"
      /\ ServicesOf(d).name = "GATTService"
  BY ElementIs DEF LinkKey, Torn, ServicesOf
<1> QED
  BY <1>1

Whole(d) == Roots(d) \ {Torn}

\* A document without what was cut off is a well-formed file, ...
LEMMA WholeIsWellFormed ==
  ASSUME NEW d, NEW file \in Seq(Whole(d))
  PROVE  WellFormed(d, file)
<1>1. file \in Seq(Roots(d))
  BY SeqMonotonic DEF Whole
<1>2. \A i \in DOMAIN file : file[i] # Torn
  BY DEF Whole
<1> QED
  BY <1>1, <1>2 DEF WellFormed

\* ... and LoadFile gives one.
LEMMA LoadFileIs ==
  ASSUME NEW d, NEW file, WellFormed(d, file)
  PROVE  LoadFile(file) \in Seq(Whole(d))
<1>1. file \in Seq(Roots(d)) /\ Len(file) \in Nat /\ DOMAIN file = 1..Len(file)
  BY DEF WellFormed
<1>2. CASE LoadFails(file)
  <2>1. file # <<>>
    BY <1>2 DEF LoadFails, Range
  <2>2. \A i \in 1..Len(file) - 1 : file[i] \in Whole(d)
    BY <1>1 DEF WellFormed, Whole
  <2>3. SubSeq(file, 1, Len(file) - 1) \in Seq(Whole(d))
    <3> HIDE DEF Whole
    <3>1. 1 \in Int /\ Len(file) - 1 \in Int
      BY <1>1
    <3> QED  BY <2>2, <3>1, SubSeqProperties
  <2> QED
    BY <1>2, <2>3 DEF LoadFile, Front
<1>3. CASE ~LoadFails(file)
  <2>1. \A i \in 1..Len(file) : file[i] \in Whole(d)
    BY <1>1, <1>3 DEF LoadFails, Range, Whole
  <2>2. file \in Seq(Whole(d))
    BY <1>1, <2>1
  <2> QED
    BY <1>3, <2>2 DEF LoadFile
<1> QED
  BY <1>2, <1>3

\* What DeleteNode leaves is the file itself or whole.
LEMMA DeleteNodeDoes ==
  ASSUME NEW d, NEW file, WellFormed(d, file), NEW name
  PROVE  DeleteNode(file, name) = file \/ DeleteNode(file, name) \in Seq(Whole(d))
<1> DEFINE roots == LoadFile(file)
           P == Places(roots, name)
           i == Least(P)
<1>1. roots \in Seq(Whole(d)) /\ DOMAIN roots = 1..Len(roots) /\ Len(roots) \in Nat
  BY LoadFileIs
<1>2. CASE P = {}
  BY <1>2 DEF DeleteNode
<1>3. CASE P # {}
  <2>1. P \in SUBSET (1..Len(roots)) /\ P \in SUBSET Nat
    BY <1>1 DEF Places
  <2>2. i \in P
    <3> HIDE DEF P
    <3> QED  BY <2>1, <1>3, LeastPicked
  <2>3. i \in 1..Len(roots)
    BY <2>1, <2>2
  <2>4. DeleteNode(file, name) = RemoveAt(roots, i)
    BY <1>3 DEF DeleteNode
  <2> HIDE DEF i, P, roots
  <2>5. SubSeq(roots, 1, i - 1) \in Seq(Whole(d))
    <3>1. \A j \in 1..i - 1 : roots[j] \in Whole(d)
      BY <1>1, <2>3
    <3> QED  BY <3>1, <1>1, <2>3, SubSeqProperties
  <2>6. SubSeq(roots, i + 1, Len(roots)) \in Seq(Whole(d))
    <3>1. \A j \in i + 1..Len(roots) : roots[j] \in Whole(d)
      BY <1>1, <2>3
    <3> QED  BY <3>1, <1>1, <2>3, SubSeqProperties
  <2>7. RemoveAt(roots, i) \in Seq(Whole(d))
    BY <2>5, <2>6, ConcatProperties DEF RemoveAt
  <2> QED
    BY <2>4, <2>7
<1> QED
  BY <1>2, <1>3

\* A document that was cut off while it was written is well-formed.
LEMMA CutOff ==
  ASSUME NEW d, NEW document \in Seq(Whole(d)), NEW file \in Interrupted(document)
  PROVE  WellFormed(d, file)
<1>1. CASE file = document
  BY <1>1, WholeIsWellFormed
<1>2. CASE file # document
  <2>1. PICK k \in 0..Len(document) - 1 :
           file \in {SubSeq(document, 1, k), Append(SubSeq(document, 1, k), Torn)}
    BY <1>2 DEF Interrupted
  <2> DEFINE part == SubSeq(document, 1, k)
  <2>2. part \in Seq(Whole(d)) /\ Len(part) \in Nat
    <3>1. \A j \in 1..k : document[j] \in Whole(d)
      OBVIOUS
    <3> QED  BY <3>1, SubSeqProperties
  <2>3. CASE file = part
    BY <2>2, <2>3, WholeIsWellFormed
  <2>4. CASE file = Append(part, Torn)
    <3> HIDE DEF part
    <3>1. part \in Seq(Roots(d)) /\ Torn \in Roots(d)
      BY <2>2, SeqMonotonic DEF Whole, Roots
    <3>2. /\ file \in Seq(Roots(d)) /\ Len(file) = Len(part) + 1
          /\ \A j \in 1..Len(part) : file[j] = part[j]
      BY <3>1, <2>4, AppendProperties
    <3>3. \A j \in 1..Len(part) : part[j] # Torn
      BY <2>2 DEF Whole
    <3>4. ASSUME NEW j \in DOMAIN file, j < Len(file) PROVE file[j] # Torn
      <4>1. j \in 1..Len(part)
        BY <2>2, <3>2, <3>4
      <4> QED
        BY <4>1, <3>2, <3>3
    <3> QED
      BY <3>2, <3>4 DEF WellFormed
  <2> QED
    BY <2>1, <2>3, <2>4
<1> QED
  BY <1>1, <1>2

\* Services that are loaded from a well-formed file are those of the armband.
LEMMA ComesBack ==
  ASSUME layout \in Layouts, NEW d \in DOMAIN layout, NEW file, WellFormed(d, file),
         LoadsService(file)
  PROVE  LoadService(file) = Known(layout[d])
<1> DEFINE L == layout[d]
           roots == LoadFile(file)
           P == Places(roots, "GATTService")
           i == Least(P)
           B == [s \in 1..Len(L) |-> SavePrimaryService(s, Known(L)[s], ReadableOf(d)[s])]
<1>1. roots \in Seq(Whole(d)) /\ DOMAIN roots = 1..Len(roots) /\ Len(roots) \in Nat
  BY LoadFileIs
<1>2. P # {}
  BY DEF LoadsService, Named
<1>3. i \in P
  <2>1. P \in SUBSET Nat
    BY <1>1 DEF Places
  <2> HIDE DEF P
  <2> QED  BY <2>1, <1>2, LeastPicked
<1>4. roots[i] = ServicesOf(d)
  <2>1. roots[i] \in Whole(d) /\ roots[i].name = "GATTService"
    BY <1>1, <1>3 DEF Places
  <2> QED
    BY <2>1, RootNames DEF Whole, Roots
<1>5. DOMAIN L = 1..Len(L) /\ Len(L) \in Nat
  BY InRange, Shape
<1>6. roots[i].children = B
  BY <1>4, <1>5, ElementIs DEF ServicesOf
<1>7. \A s \in 1..Len(L) : B[s].index = s
  BY ElementIs DEF SavePrimaryService
<1>8. \A s \in 1..Len(L) : LoadPrimaryService(B[s]) = Known(L)[s]
  <2>1. \A s \in 1..Len(L) : Known(L)[s] \in Seq(Seq(Kinds))
    BY InRange, KnownShape
  <2> QED
    BY <2>1, ServiceComesBack
<1>9. Len(B) = Len(L) /\ DOMAIN B = 1..Len(L)
  BY <1>5
<1>10. LoadService(file) = [s \in DOMAIN ByIndex(Range(B), Len(B)) |->
                               LoadPrimaryService(ByIndex(Range(B), Len(B))[s])]
  BY <1>6 DEF LoadService
<1> HIDE DEF B, i, P, roots, L
<1>11. ByIndex(Range(B), Len(L)) = [s \in 1..Len(L) |-> B[s]]
  <2>1. \A s \in 1..Len(L) : B[s] \in Range(B) /\ B[s].index = s
    BY <1>7, <1>9 DEF Range
  <2>2. \A x \in Range(B) : \E s \in 1..Len(L) : x = B[s]
    BY <1>9 DEF Range
  <2> QED
    BY <1>5, <2>1, <2>2, ByIndexIs
<1>12. LoadService(file) = [s \in 1..Len(L) |-> LoadPrimaryService(B[s])]
  BY <1>9, <1>10, <1>11
<1>13. LoadService(file) = [s \in 1..Len(L) |-> Known(L)[s]]
  BY <1>8, <1>12
<1>14. Known(L) \in Seq(Seq(Seq(Kinds))) /\ Len(Known(L)) = Len(L)
  BY InRange, KnownShape DEF L, Services, Kinds
<1>15. Known(L) = [s \in 1..Len(L) |-> Known(L)[s]]
  BY <1>14, SeqIsFunction
<1> QED
  BY <1>13, <1>15 DEF L

\* Saving what is known adds it to what the file held.
LEMMA SavingKnown ==
  ASSUME layout \in Layouts, NEW d \in DOMAIN layout, NEW file, WellFormed(d, file)
  PROVE  SaveService(file, Known(layout[d]), ReadableOf(d)) \in Seq(Whole(d))
<1>1. LoadFile(file) \in Seq(Whole(d))
  BY LoadFileIs
<1>2. DOMAIN Known(layout[d]) = DOMAIN layout[d]
  BY DEF Known
<1>3. SaveService(file, Known(layout[d]), ReadableOf(d)) = Append(LoadFile(file), ServicesOf(d))
  BY <1>2 DEF SaveService, ServicesOf
<1>4. ServicesOf(d) \in Whole(d)
  BY RootNames DEF Whole, Roots
<1> QED
  BY <1>1, <1>3, <1>4, AppendProperties
-----------------------------------------------------------------------------
(* The messages of one answer.                                              *)

\* Taking the only message leaves none.
LEMMA OneTaken ==
  ASSUME NEW m \in Seq(Messages), m # <<>>, NEW S, One(m, S)
  PROVE  Head(m) \in S /\ Tail(m) = <<>> /\ m[Len(m)] = Head(m)
BY DEF One

\* Taking an item, or the answer that ends a list, leaves the rest of the list.
LEMMA RestTaken ==
  ASSUME NEW m \in Seq(Messages), m # <<>>, NEW item, NEW last, NEW n,
         Rest(m, item, last, n)
  PROVE  /\ n \in Nat /\ m[Len(m)] = last
         /\ n = 0 => Head(m) = last /\ Tail(m) = <<>>
         /\ n # 0 => Head(m) = item /\ Rest(Tail(m), item, last, n - 1)
         /\ Tail(m) # <<>> => Tail(m)[Len(Tail(m))] = last
<1>1. n \in Nat /\ Len(m) = n + 1 /\ m[n + 1] = last /\ \A i \in 1..n : m[i] = item
  BY DEF Rest
<1>2. /\ Head(m) = m[1] /\ Tail(m) \in Seq(Messages) /\ Len(Tail(m)) = n
      /\ \A i \in 1..n : Tail(m)[i] = m[i + 1]
  BY <1>1
<1>3. m[Len(m)] = last /\ (n = 0 => Head(m) = last /\ Tail(m) = <<>>)
  BY <1>1, <1>2
<1>4. n # 0 => Head(m) = item /\ Rest(Tail(m), item, last, n - 1)
  <2> SUFFICES ASSUME n # 0 PROVE Head(m) = item /\ Rest(Tail(m), item, last, n - 1)
    OBVIOUS
  <2>1. \A i \in 1..n - 1 : Tail(m)[i] = item
    BY <1>1, <1>2
  <2>2. n - 1 \in Nat /\ Len(Tail(m)) = (n - 1) + 1 /\ Tail(m)[(n - 1) + 1] = last
    BY <1>1, <1>2
  <2>3. Head(m) = item
    BY <1>1, <1>2
  <2> QED
    BY <2>1, <2>2, <2>3 DEF Rest
<1>5. Tail(m) # <<>> => Tail(m)[Len(Tail(m))] = last
  BY <1>1, <1>2
<1> QED
  BY <1>1, <1>3, <1>4, <1>5

\* An empty queue is one of at most one message.
LEMMA OneOfNone ==
  ASSUME NEW S
  PROVE  One(<<>>, S)
BY DEF One

-----------------------------------------------------------------------------
(* Where a message takes the walk.                                          *)

InService(n) == n.svc = 1 \/ n.svc \in DOMAIN n.mService
Lands(L, n, t) == n \in Remotes /\ Stands(L, n, t) /\ InService(n)

\* A device that asks: its new state and request, and what it keeps.
LEMMA AskFields ==
  ASSUME NEW r \in Remotes, NEW state \in States, NEW q \in Requests
  PROVE  \A op, s, c, k : q = Request(op, s, c, k) =>
            LET n == Ask(r, state, op, s, c, k)
            IN  /\ n \in Remotes /\ n.mService = r.mService
                /\ n.mNeedSaveService = r.mNeedSaveService
                /\ n.mState = state /\ n.request = q
                /\ n.svc = r.svc /\ n.chr = r.chr /\ n.at = r.at
<1> SUFFICES ASSUME NEW op, NEW s, NEW c, NEW k, q = Request(op, s, c, k)
             PROVE  LET n == Ask(r, state, op, s, c, k)
                    IN  /\ n \in Remotes /\ n.mService = r.mService
                        /\ n.mNeedSaveService = r.mNeedSaveService
                        /\ n.mState = state /\ n.request = q
                        /\ n.svc = r.svc /\ n.chr = r.chr /\ n.at = r.at
  OBVIOUS
<1> DEFINE n == [r EXCEPT !.mState = state, !.request = q]
<1>1. Ask(r, state, op, s, c, k) = n
  BY DEF Ask
<1>2. /\ n \in Remotes /\ n.mService = r.mService
      /\ n.mNeedSaveService = r.mNeedSaveService
      /\ n.mState = state /\ n.request = q
      /\ n.svc = r.svc /\ n.chr = r.chr /\ n.at = r.at
  BY DEF Remotes
<1> HIDE DEF n
<1> QED
  BY <1>1, <1>2

\* The requests of the first states.
LEMMA FirstRequests ==
  \A op \in {"auth", "bond", "mtu", "primary"} :
     Request(op, 0, 0, 0) \in Requests /\ Request(op, 0, 0, 0) # None
BY RequestIs DEF Ops

\* The states the walk goes to by name.
LEMMA FirstStates ==
  /\ "W4SECU" \in States /\ "GATT_PRI_SVC" \in States /\ "GATT_INC_SVC" \in States
  /\ "GATT_DIS_CHARC" \in States /\ "GATT_READ_CHARC_VALUE" \in States
  /\ "CONNECTED" \in States /\ "aborted" \in States
BY DEF States

\* From the connection to the security, ...
LEMMA ConnectionTaken ==
  ASSUME NEW L, NEW r \in Remotes, NEW m \in Seq(Messages), m # <<>>, Stands(L, r, m),
         r.mState = "IDLE", NEW op \in {"auth", "bond"}
  PROVE  Lands(L, Ask(r, "W4SECU", op, 0, 0, 0), Tail(m))
<1> DEFINE n == Ask(r, "W4SECU", op, 0, 0, 0)
           q == Request(op, 0, 0, 0)
<1>1. AtConnection(r, m)
  BY DEF Stands
<1>2. Tail(m) = <<>>
  BY <1>1, OneTaken DEF AtConnection
<1>3. q \in Requests
  BY FirstRequests
<1>4. n \in Remotes /\ n.mService = r.mService /\ n.mNeedSaveService = r.mNeedSaveService
      /\ n.mState = "W4SECU" /\ n.request = q /\ n.svc = r.svc
  BY <1>3, FirstStates, AskFields
<1> HIDE DEF n, q
<1>5. AtSecurity(n, <<>>)
  BY <1>1, <1>4 DEF AtConnection, AtSecurity, q
<1> QED
  BY <1>1, <1>2, <1>4, <1>5 DEF n, Stands, Lands, InService, AtConnection

\* ... and from there to the MTU exchange.
LEMMA SecurityTaken ==
  ASSUME NEW L, NEW r \in Remotes, NEW m \in Seq(Messages), m # <<>>, Stands(L, r, m),
         r.mState = "W4SECU"
  PROVE  /\ Tail(m) = <<>> /\ r.request = None /\ r.mNeedSaveService
         /\ Lands(L, r, Tail(m))
         /\ Lands(L, [r EXCEPT !.mNeedSaveService = TRUE], Tail(m))
         /\ Lands(L, [r EXCEPT !.mState = "aborted"], Tail(m))
         /\ Lands(L, Ask(r, "W4SECU", "bond", 0, 0, 0), Tail(m))
         /\ Lands(L, Ask(r, "GATT_PRI_SVC", "mtu", 0, 0, 0), Tail(m))
<1>1. AtSecurity(r, m) /\ r.request = None
  BY DEF Stands
<1>2. Tail(m) = <<>> /\ r.mService = <<>> /\ r.svc = 1 /\ r.mNeedSaveService
  <2>1. One(m, {"authOk", "authUnsupported", "authNoKey", "authError",
                "bondOk", "bondKeyMissing", "bondError"})
    BY <1>1, FirstRequests DEF AtSecurity
  <2> QED
    BY <1>1, <2>1, OneTaken DEF AtSecurity
<1>3. AtSecurity(r, <<>>)
  BY <1>1, <1>2, OneOfNone DEF AtSecurity
<1>4. Lands(L, r, <<>>)
  BY <1>2, <1>3 DEF Stands, Lands, InService
<1>5. Lands(L, [r EXCEPT !.mNeedSaveService = TRUE], <<>>)
  <2>1. [r EXCEPT !.mNeedSaveService = TRUE] = r
    BY <1>2 DEF Remotes
  <2> QED
    BY <1>4, <2>1
<1>6. Lands(L, [r EXCEPT !.mState = "aborted"], <<>>)
  <2> DEFINE n == [r EXCEPT !.mState = "aborted"]
  <2>1. n \in Remotes /\ n.mState = "aborted" /\ n.svc = r.svc
    BY FirstStates DEF Remotes
  <2> HIDE DEF n
  <2> QED
    BY <1>2, <2>1 DEF n, Stands, Lands, InService
<1>7. Lands(L, Ask(r, "W4SECU", "bond", 0, 0, 0), <<>>)
  <2> DEFINE n == Ask(r, "W4SECU", "bond", 0, 0, 0)
             q == Request("bond", 0, 0, 0)
  <2>1. q \in Requests
    BY FirstRequests
  <2>2. n \in Remotes /\ n.mService = r.mService /\ n.mNeedSaveService = r.mNeedSaveService
        /\ n.mState = "W4SECU" /\ n.request = q /\ n.svc = r.svc
    BY <2>1, FirstStates, AskFields
  <2> HIDE DEF n, q
  <2>3. AtSecurity(n, <<>>)
    BY <1>2, <2>2 DEF AtSecurity, q
  <2> QED
    BY <1>2, <2>2, <2>3 DEF n, Stands, Lands, InService
<1>8. Lands(L, Ask(r, "GATT_PRI_SVC", "mtu", 0, 0, 0), <<>>)
  <2> DEFINE n == Ask(r, "GATT_PRI_SVC", "mtu", 0, 0, 0)
             q == Request("mtu", 0, 0, 0)
  <2>1. q \in Requests
    BY FirstRequests
  <2>2. n \in Remotes /\ n.mService = r.mService /\ n.mNeedSaveService = r.mNeedSaveService
        /\ n.mState = "GATT_PRI_SVC" /\ n.request = q /\ n.svc = r.svc
    BY <2>1, FirstStates, AskFields
  <2> HIDE DEF n, q
  <2>3. AtPrimary(L, n, <<>>)
    BY <1>2, <2>2 DEF AtPrimary, q
  <2> QED
    BY <1>2, <2>2, <2>3 DEF n, Stands, Lands, InService
<1> QED
  BY <1>1, <1>2, <1>4, <1>5, <1>6, <1>7, <1>8

\* The configuration starts with everything known.
LEMMA StartsLands ==
  ASSUME NEW L \in Armbands, NEW r, r.mService = Known(L), r.request = None,
         InService(r), NEW n \in Remotes, n.mService = Known(L), n.svc = r.svc, Starts(r, n)
  PROVE  Lands(L, n, <<>>)
<1>1. AtDescriptors(L, n, <<>>)
  BY OneOfNone DEF AtDescriptors, Starts, First
<1> QED
  BY <1>1 DEF Starts, Stands, Lands, InService

\* The services of the armband.
LEMMA PrimaryTaken ==
  ASSUME NEW L \in Armbands, NEW r \in Remotes, NEW m \in Seq(Messages), m # <<>>,
         Stands(L, r, m), r.mState = "GATT_PRI_SVC"
  PROVE  /\ r.svc = 1 /\ r.mNeedSaveService /\ r.request = None
         /\ \/ r.mService = <<>> /\ Head(m) \in {"mtu", "error"} /\ Tail(m) = <<>>
            \/ Rest(m, "group", "groupDone", Len(L) - Len(r.mService))
<1>1. AtPrimary(L, r, m) /\ r.request = None
  BY DEF Stands
<1>2. CASE One(m, {"mtu", "error"}) /\ r.mService = <<>>
  BY <1>1, <1>2, OneTaken DEF AtPrimary
<1>3. CASE Rest(m, "group", "groupDone", Len(L) - Len(r.mService))
  BY <1>1, <1>3 DEF AtPrimary
<1> QED
  BY <1>1, <1>2, <1>3, FirstRequests DEF AtPrimary

\* The same for an error while the services are asked for: it is ignored, ...
LEMMA ErrorAtPrimaryTaken ==
  ASSUME NEW L \in Armbands, NEW r \in Remotes, NEW m \in Seq(Messages), m # <<>>,
         Stands(L, r, m), r.mState = "GATT_PRI_SVC", Head(m) = "error"
  PROVE  Lands(L, r, Tail(m))
<1>1. ~Rest(m, "group", "groupDone", Len(L) - Len(r.mService))
  BY RestTaken
<1>2. /\ r.svc = 1 /\ r.mNeedSaveService /\ r.request = None
      /\ r.mService = <<>> /\ Tail(m) = <<>>
  BY <1>1, PrimaryTaken
<1>3. AtPrimary(L, r, <<>>)
  BY <1>2, OneOfNone DEF AtPrimary
<1> QED
  BY <1>2, <1>3 DEF Stands, Lands, InService

\* ... for the MTU, after which the services are asked for, ...
LEMMA MTUTaken ==
  ASSUME NEW L \in Armbands, NEW r \in Remotes, NEW m \in Seq(Messages), m # <<>>,
         Stands(L, r, m), r.mState = "GATT_PRI_SVC", Head(m) = "mtu"
  PROVE  /\ r.svc = 1 /\ r.mNeedSaveService /\ r.request = None /\ r.mService = <<>>
         /\ Tail(m) = <<>>
         /\ Lands(L, Ask(r, "GATT_PRI_SVC", "primary", 0, 0, 0), Tail(m))
<1>1. ~Rest(m, "group", "groupDone", Len(L) - Len(r.mService))
  BY RestTaken
<1>2. /\ r.svc = 1 /\ r.mNeedSaveService /\ r.request = None
      /\ r.mService = <<>> /\ Tail(m) = <<>>
  BY <1>1, PrimaryTaken
<1>3. Lands(L, Ask(r, "GATT_PRI_SVC", "primary", 0, 0, 0), <<>>)
  <2> DEFINE n == Ask(r, "GATT_PRI_SVC", "primary", 0, 0, 0)
             q == Request("primary", 0, 0, 0)
  <2>1. q \in Requests
    BY FirstRequests
  <2>2. n \in Remotes /\ n.mService = r.mService /\ n.mNeedSaveService = r.mNeedSaveService
        /\ n.mState = "GATT_PRI_SVC" /\ n.request = q /\ n.svc = r.svc
    BY <2>1, FirstStates, AskFields
  <2> HIDE DEF n, q
  <2>3. AtPrimary(L, n, <<>>)
    BY <1>2, <2>2 DEF AtPrimary, q
  <2> QED
    BY <1>2, <2>2, <2>3 DEF n, Stands, Lands, InService
<1> QED
  BY <1>2, <1>3

\* Services that were loaded are configured at once.
LEMMA LoadedTaken ==
  ASSUME NEW L \in Armbands, NEW r \in Remotes, r.svc = 1, r.request = None, NEW a, NEW n,
         a = [r EXCEPT !.mService = Known(L)],
         n = [StartConfiguration(a) EXCEPT !.mNeedSaveService = FALSE]
  PROVE  /\ n.mNeedSaveService = FALSE /\ n.mService = Known(L) /\ Lands(L, n, <<>>)
         /\ a.mService = Known(L) /\ a.request = None /\ Starts(a, n)
<1> DEFINE b == StartConfiguration(a)
<1>4. a \in Remotes /\ a.mService = Known(L) /\ a.request = None /\ a.svc = 1
  <2>1. Known(L) \in Services
    BY KnownShape
  <2> QED
    BY <2>1 DEF Remotes
<1>5. Keeps(a, b) /\ b.svc = a.svc /\ Starts(a, b)
  BY <1>4, StartDoes
<1>6. /\ n \in Remotes /\ n.mService = b.mService /\ n.svc = b.svc /\ n.mState = b.mState
      /\ n.request = b.request /\ n.at = b.at /\ n.mNeedSaveService = FALSE
  <2>1. n = [b EXCEPT !.mNeedSaveService = FALSE]
    OBVIOUS
  <2>2. b \in Remotes
    BY <1>5, Zenon DEF Keeps
  <2> HIDE DEF b
  <2> QED
    BY <2>1, <2>2 DEF Remotes
<1> HIDE DEF b
<1>7. Starts(a, n)
  BY <1>5, <1>6 DEF Starts, First
<1>8. n.mService = Known(L) /\ n.svc = a.svc /\ InService(a)
  BY <1>4, <1>5, <1>6 DEF Keeps, InService
<1>9. Lands(L, n, <<>>)
  BY <1>4, <1>6, <1>7, <1>8, StartsLands
<1> QED
  BY <1>4, <1>6, <1>7, <1>8, <1>9

\* ... for a service found, ...
LEMMA ServiceTaken ==
  ASSUME NEW L \in Armbands, NEW r \in Remotes, NEW m \in Seq(Messages), m # <<>>,
         Stands(L, r, m), r.mState = "GATT_PRI_SVC", Head(m) = "group"
  PROVE  /\ Lands(L, [r EXCEPT !.mService = Append(@, <<>>)], Tail(m))
         /\ r.request = None /\ Tail(m) # <<>> /\ Tail(m)[Len(Tail(m))] = m[Len(m)]
<1> DEFINE K == r.mService
           n == [r EXCEPT !.mService = Append(@, <<>>)]
           x == Len(L) - Len(K)
<1>1. /\ r.svc = 1 /\ r.mNeedSaveService /\ r.request = None
      /\ Rest(m, "group", "groupDone", x)
  BY PrimaryTaken
<1>2. x \in Nat /\ x # 0 /\ Rest(Tail(m), "group", "groupDone", x - 1)
  BY <1>1, RestTaken
<1>3. K \in Services /\ Len(K) \in Nat /\ Len(L) \in Nat
  BY RemoteFields, Shape DEF Services
<1>4. Append(K, <<>>) \in Services /\ Len(Append(K, <<>>)) = Len(K) + 1
      /\ \A s \in 1..Len(K) : Append(K, <<>>)[s] = K[s]
      /\ Append(K, <<>>)[Len(K) + 1] = <<>>
  <2>1. <<>> \in Seq(Seq({"ccc", "other"}))
    BY EmptySeq
  <2> HIDE DEF K
  <2> QED
    BY <1>3, <2>1, AppendProperties DEF Services
<1>5. n \in Remotes /\ n.mService = Append(K, <<>>) /\ n.svc = r.svc /\ n.mState = r.mState
      /\ n.mNeedSaveService = r.mNeedSaveService /\ n.request = r.request
  BY <1>4 DEF Remotes
<1>6. \A s \in DOMAIN K : K[s] = <<>>
  BY DEF Stands, AtPrimary
<1> DEFINE J == Append(K, <<>>)
<1>7. \A s \in DOMAIN J : J[s] = <<>>
  <2>1. DOMAIN J = 1..Len(K) + 1 /\ DOMAIN K = 1..Len(K)
    BY <1>3, <1>4 DEF Services
  <2>2. \A s \in 1..Len(K) : J[s] = <<>>
    BY <1>4, <1>6, <2>1
  <2> HIDE DEF J, K
  <2>3. J[Len(K) + 1] = <<>>
    BY <1>4 DEF J
  <2> QED
    BY <1>3, <2>1, <2>2, <2>3
<1>8. Len(L) - Len(J) = x - 1
  <2>1. Len(J) = Len(K) + 1
    BY <1>4
  <2> HIDE DEF J, K
  <2> QED
    BY <1>3, <2>1
<1> HIDE DEF n, x, J, K
<1>9. AtPrimary(L, n, Tail(m))
  <2>1. Rest(Tail(m), "group", "groupDone", Len(L) - Len(n.mService))
    BY <1>2, <1>5, <1>8 DEF J
  <2> QED
    BY <1>1, <1>5, <1>7, <2>1 DEF AtPrimary, J
<1>10. Tail(m) # <<>> /\ Tail(m)[Len(Tail(m))] = m[Len(m)]
  <2>1. Tail(m) # <<>>
    <3>1. Len(Tail(m)) = (x - 1) + 1 /\ x - 1 \in Nat
      BY <1>2 DEF Rest
    <3>2. Len(Tail(m)) # 0
      BY <1>2, <3>1
    <3>3. Len(<<>>) = 0
      OBVIOUS
    <3> QED
      BY <3>2, <3>3
  <2> QED
    BY <1>1, <2>1, RestTaken
<1>11. Lands(L, n, Tail(m))
  BY <1>1, <1>5, <1>9 DEF Stands, Lands, InService
<1> QED
  BY <1>1, <1>10, <1>11 DEF n

\* ... and for the end of the services, after which the first is visited.
LEMMA ServicesTaken ==
  ASSUME NEW L \in Armbands, NEW r \in Remotes, NEW m \in Seq(Messages), m # <<>>,
         Stands(L, r, m), r.mState = "GATT_PRI_SVC", Head(m) = "groupDone"
  PROVE  /\ Tail(m) = <<>> /\ r.svc = 1 /\ r.mNeedSaveService /\ m[Len(m)] = "groupDone"
         /\ Lands(L, Ask(r, "GATT_INC_SVC", "included", r.svc, 0, 0), Tail(m))
<1> DEFINE K == r.mService
           n == Ask(r, "GATT_INC_SVC", "included", r.svc, 0, 0)
           q == Request("included", r.svc, 0, 0)
<1>1. /\ r.svc = 1 /\ r.mNeedSaveService
      /\ Rest(m, "group", "groupDone", Len(L) - Len(K))
  BY PrimaryTaken
<1>2. Len(L) - Len(K) = 0 /\ Tail(m) = <<>> /\ m[Len(m)] = "groupDone"
  BY <1>1, RestTaken
<1>3. K \in Services /\ Len(K) \in Nat /\ Len(L) \in Nat /\ DOMAIN K = 1..Len(K)
      /\ 1 \in DOMAIN L /\ ~L[1].empty
  BY RemoteFields, Shape DEF Services
<1>4. Len(K) = Len(L)
  BY <1>2, <1>3
<1>5. \A s \in 1..Len(L) : K[s] = <<>>
  BY <1>3, <1>4 DEF Stands, AtPrimary
<1>6. q \in Requests
  BY <1>1, RequestIs DEF Ops
<1>7. n \in Remotes /\ n.mService = K /\ n.mNeedSaveService = r.mNeedSaveService
      /\ n.mState = "GATT_INC_SVC" /\ n.request = q /\ n.svc = r.svc
  BY <1>6, FirstStates, AskFields
<1> HIDE DEF n, K
<1>8. StandsAt(L, n) /\ n.mService[n.svc] = <<>>
  BY <1>1, <1>3, <1>4, <1>5, <1>7 DEF StandsAt
<1>9. AtIncluded(L, n, <<>>)
  BY <1>7, <1>8 DEF AtIncluded
<1>10. Lands(L, n, <<>>)
  BY <1>1, <1>7, <1>9 DEF Stands, Lands, InService
<1> QED
  BY <1>1, <1>2, <1>10 DEF n

\* The services included in one.
LEMMA IncludedTaken ==
  ASSUME NEW L \in Armbands, NEW r \in Remotes, NEW m \in Seq(Messages), m # <<>>,
         Stands(L, r, m), r.mState = "GATT_INC_SVC"
  PROVE  /\ Tail(m) = <<>> /\ r.request = None /\ m[Len(m)] = Head(m)
         /\ Lands(L, r, Tail(m))
         /\ LET n == StartDiscoveryCharacteristic(r)
            IN  /\ n.mState = "GATT_DIS_CHARC" /\ n.mNeedSaveService
                /\ n.request = Request("characteristics", r.svc, 0, 0) /\ n.svc = r.svc
                /\ AtCharacteristics(L, n, <<>>) /\ Lands(L, n, Tail(m))
<1>1. AtIncluded(L, r, m) /\ r.request = None
  BY DEF Stands
<1>2. r.svc \in Nat /\ Request("included", r.svc, 0, 0) # None
  BY RemoteFields, RequestIs
<1>3. One(m, {"notFound", "typeDone", "error"})
  BY <1>1, <1>2 DEF AtIncluded
<1>4. Tail(m) = <<>> /\ m[Len(m)] = Head(m)
  BY <1>3, OneTaken
<1>5. StandsAt(L, r) /\ r.mService[r.svc] = <<>>
  BY <1>1 DEF AtIncluded
<1>6. r.svc \in DOMAIN r.mService
  BY <1>5, Shape, RemoteFields DEF StandsAt, Services
<1>7. Lands(L, r, <<>>)
  <2>1. AtIncluded(L, r, <<>>)
    BY <1>1, <1>5, OneOfNone DEF AtIncluded
  <2> QED
    BY <1>6, <2>1 DEF Stands, Lands, InService
<1> DEFINE n == StartDiscoveryCharacteristic(r)
           q == Request("characteristics", r.svc, 0, 0)
<1>8. q \in Requests
  BY <1>2, RequestIs DEF Ops
<1>9. n \in Remotes /\ n.mService = r.mService /\ n.mNeedSaveService = r.mNeedSaveService
      /\ n.mState = "GATT_DIS_CHARC" /\ n.request = q /\ n.svc = r.svc
  BY <1>8, FirstStates, AskFields DEF StartDiscoveryCharacteristic
<1> HIDE DEF n
<1>10. StandsAt(L, n) /\ n.mService[n.svc] = <<>>
  BY <1>5, <1>9 DEF StandsAt
<1>11. AtCharacteristics(L, n, <<>>)
  BY <1>9, <1>10 DEF AtCharacteristics
<1>12. Lands(L, n, <<>>)
  BY <1>6, <1>9, <1>11 DEF Stands, Lands, InService
<1>13. n.mNeedSaveService
  BY <1>10 DEF StandsAt
<1> QED
  BY <1>1, <1>4, <1>7, <1>9, <1>11, <1>12, <1>13 DEF n

\* The characteristics of a service.
LEMMA CharacteristicsAre ==
  ASSUME NEW L \in Armbands, NEW r \in Remotes, NEW m \in Seq(Messages), m # <<>>,
         Stands(L, r, m), r.mState = "GATT_DIS_CHARC"
  PROVE  /\ r.request = None
         /\ Len(r.mService) = Len(L) /\ r.svc \in 1..Len(L) /\ r.svc \in DOMAIN r.mService
         /\ AtCharacteristics(L, r, m) => StandsAt(L, r)
         /\ \/ /\ AtCharacteristics(L, r, m)
               /\ Rest(m, "type", "typeDone",
                       Len(L[r.svc].chars) - Len(r.mService[r.svc]))
            \/ /\ \A s \in r.svc..Len(L) : r.mService[s] = <<>>
               /\ Tail(m) = <<>> /\ Head(m) \in {"notFound", "typeDone", "error"}
               /\ AtCharacteristics(L, r, m) => Head(m) \in {"notFound", "error"}
               /\ m[Len(m)] = Head(m)
               /\ AtCharacteristics(L, r, m) \/ Stuck(L, r, m)
<1>0. r.request = None
  BY DEF Stands
<1>1. Request("characteristics", r.svc, 0, 0) # None /\ Request("included", r.svc, 0, 0) # None
  BY RequestIs
<1>2. DOMAIN r.mService = 1..Len(r.mService) /\ DOMAIN L = 1..Len(L) /\ Len(L) \in Nat
  BY RemoteFields, Shape DEF Services
<1>3. CASE AtCharacteristics(L, r, m)
  <2>1. StandsAt(L, r)
    BY <1>3 DEF AtCharacteristics
  <2>2. Len(r.mService) = Len(L) /\ r.svc \in 1..Len(L) /\ r.svc \in DOMAIN r.mService
    BY <1>2, <2>1 DEF StandsAt
  <2>3. CASE r.mService[r.svc] = <<>> /\ One(m, {"notFound", "error"})
    <3>1. Tail(m) = <<>> /\ Head(m) \in {"notFound", "error"} /\ m[Len(m)] = Head(m)
      BY <2>3, OneTaken
    <3>2. \A s \in r.svc..Len(L) : r.mService[s] = <<>>
      BY <1>2, <2>1, <2>2, <2>3 DEF StandsAt
    <3> QED
      BY <1>0, <1>3, <2>1, <2>2, <3>1, <3>2
  <2>4. CASE Rest(m, "type", "typeDone", Len(L[r.svc].chars) - Len(r.mService[r.svc]))
    BY <1>0, <1>3, <2>1, <2>2, <2>4
  <2> QED
    BY <1>0, <1>1, <1>3, <2>3, <2>4 DEF AtCharacteristics
<1>4. CASE Stuck(L, r, m) /\ ~AtCharacteristics(L, r, m)
  <2>1. /\ Len(r.mService) = Len(L) /\ r.svc \in 1..Len(L) /\ r.svc \in DOMAIN r.mService
        /\ \A s \in r.svc..Len(L) : r.mService[s] = <<>>
    BY <1>2, <1>4 DEF Stuck
  <2>2. One(m, {"notFound", "typeDone", "error"})
    BY <1>0, <1>1, <1>4 DEF Stuck
  <2>3. Tail(m) = <<>> /\ Head(m) \in {"notFound", "typeDone", "error"} /\ m[Len(m)] = Head(m)
    BY <2>2, OneTaken
  <2> QED
    BY <1>0, <1>4, <2>1, <2>3
<1> QED
  BY <1>3, <1>4 DEF Stands

\* A characteristic found is added to the service the walk is at, ...
LEMMA CharacteristicTaken ==
  ASSUME NEW L \in Armbands, NEW r \in Remotes, NEW m \in Seq(Messages), m # <<>>,
         Stands(L, r, m), r.mState = "GATT_DIS_CHARC", Head(m) = "type"
  PROVE  LET n == [r EXCEPT !.mService[r.svc] = Append(@, <<>>)]
         IN  /\ Lands(L, n, Tail(m)) /\ n.mState = "GATT_DIS_CHARC" /\ n.svc = r.svc
             /\ n.request = None /\ r.request = None
             /\ n.mNeedSaveService = r.mNeedSaveService
             /\ AtCharacteristics(L, n, Tail(m))
             /\ Tail(m) # <<>> => Tail(m)[Len(Tail(m))] = "typeDone"
<1> DEFINE K == r.mService
           s == r.svc
           J == [K EXCEPT ![s] = Append(@, <<>>)]
           n == [r EXCEPT !.mService[r.svc] = Append(@, <<>>)]
           x == Len(L[s].chars) - Len(K[s])
<1>1. /\ r.request = None /\ Len(K) = Len(L) /\ s \in 1..Len(L)
      /\ AtCharacteristics(L, r, m) /\ StandsAt(L, r) /\ Rest(m, "type", "typeDone", x)
  BY CharacteristicsAre
<1> HIDE DEF x
<1>2. /\ x \in Nat /\ x # 0 /\ Rest(Tail(m), "type", "typeDone", x - 1)
      /\ Tail(m) # <<>> => Tail(m)[Len(Tail(m))] = "typeDone"
  BY <1>1, RestTaken
<1>3. /\ K \in Services /\ Len(K) \in Nat /\ DOMAIN K = 1..Len(K)
      /\ Len(L[s].chars) \in Nat /\ DOMAIN L = 1..Len(L)
  BY <1>1, RemoteFields, Shape DEF Services
<1>4. K[s] \in Seq(Seq(Kinds)) /\ Len(K[s]) \in Nat /\ DOMAIN K[s] = 1..Len(K[s])
  BY <1>1, <1>3 DEF Services, Kinds
<1> DEFINE A == Append(K[s], <<>>)
<1>5. /\ A \in Seq(Seq(Kinds)) /\ Len(A) = Len(K[s]) + 1 /\ DOMAIN A = 1..Len(A)
      /\ \A c \in 1..Len(K[s]) : A[c] = K[s][c]
      /\ A[Len(K[s]) + 1] = <<>>
  <2>1. <<>> \in Seq(Kinds)
    BY EmptySeq
  <2> QED
    BY <1>4, <2>1, AppendProperties, LenProperties
<1>6. \A c \in DOMAIN K[s] : K[s][c] = <<>>
  BY <1>1 DEF AtCharacteristics
<1> HIDE DEF A
<1>7. \A c \in DOMAIN A : A[c] = <<>>
  <2> SUFFICES ASSUME NEW c \in DOMAIN A PROVE A[c] = <<>>
    OBVIOUS
  <2>1. c \in 1..Len(K[s]) \/ c = Len(K[s]) + 1
    BY <1>4, <1>5
  <2>2. CASE c \in 1..Len(K[s])
    BY <1>4, <1>5, <1>6, <2>2, Zenon
  <2>3. CASE c = Len(K[s]) + 1
    BY <1>5, <2>3, Zenon
  <2> QED
    BY <2>1, <2>2, <2>3
<1>8. /\ J = [K EXCEPT ![s] = A] /\ J \in Services /\ Len(J) = Len(L) /\ J[s] = A
      /\ DOMAIN J = 1..Len(J)
      /\ \A t \in 1..Len(L) : t # s => J[t] = K[t]
  <2>1. J = [K EXCEPT ![s] = A]
    BY DEF A
  <2> HIDE DEF J
  <2>2. PICK T : T = Seq(Seq(Kinds))
    OBVIOUS
  <2>3. K \in Seq(T) /\ A \in T
    BY <1>3, <1>5, <2>2 DEF Services, Kinds
  <2>4. /\ J \in Seq(T) /\ Len(J) = Len(K)
        /\ \A j \in 1..Len(K) : J[j] = IF j = s THEN A ELSE K[j]
    BY <1>1, <2>1, <2>3
  <2>5. J \in Services
    BY <2>2, <2>4 DEF Services, Kinds
  <2> QED
    BY <1>1, <2>1, <2>4, <2>5, LenProperties
<1> HIDE DEF J
<1>9. n = [r EXCEPT !.mService = J]
  BY DEF J
<1>10. n \in Remotes /\ n.mService = J /\ n.svc = s /\ n.mState = r.mState
       /\ n.mNeedSaveService = r.mNeedSaveService /\ n.request = r.request
  BY <1>8, <1>9 DEF Remotes
<1> HIDE DEF n
<1>11. StandsAt(L, n)
  BY <1>1, <1>3, <1>8, <1>10 DEF StandsAt
<1>12. Len(L[s].chars) - Len(A) = x - 1
  BY <1>3, <1>4, <1>5 DEF x
<1> HIDE DEF s
<1>13. AtCharacteristics(L, n, Tail(m))
  BY <1>1, <1>2, <1>7, <1>8, <1>10, <1>11, <1>12, ZenonT(60) DEF AtCharacteristics
<1>14. Lands(L, n, Tail(m))
  BY <1>1, <1>8, <1>10, <1>13 DEF Stands, Lands, InService
<1> QED
  BY <1>1, <1>2, <1>10, <1>13, <1>14 DEF n, s

\* ... the end of them leaves all the service has, each without descriptors, ...
LEMMA CharacteristicsTaken ==
  ASSUME NEW L \in Armbands, NEW r \in Remotes, NEW m \in Seq(Messages), m # <<>>,
         Stands(L, r, m), r.mState = "GATT_DIS_CHARC", Head(m) = "typeDone"
  PROVE  /\ Tail(m) = <<>> /\ r.request = None
         /\ Len(r.mService) = Len(L) /\ r.svc \in 1..Len(L)
         /\ r.mService[r.svc] = <<>> => Lands(L, r, Tail(m))
         /\ r.mService[r.svc] # <<>> \/ AtCharacteristics(L, r, m) =>
               /\ StandsAt(L, r) /\ Len(r.mService[r.svc]) = Len(L[r.svc].chars)
               /\ \A c \in 1..Len(L[r.svc].chars) : r.mService[r.svc][c] = <<>>
               /\ r.mService[r.svc] = <<>> => AtCharacteristics(L, r, <<>>)
<1>0. r.request = None /\ Len(r.mService) = Len(L) /\ r.svc \in 1..Len(L)
      /\ r.svc \in DOMAIN r.mService
  BY CharacteristicsAre
<1>1. CASE /\ AtCharacteristics(L, r, m)
           /\ Rest(m, "type", "typeDone", Len(L[r.svc].chars) - Len(r.mService[r.svc]))
  <2> DEFINE x == Len(L[r.svc].chars) - Len(r.mService[r.svc])
  <2>0. Rest(m, "type", "typeDone", x)
    BY <1>1
  <2> HIDE DEF x
  <2>1. x = 0 /\ Tail(m) = <<>>
    BY <2>0, RestTaken
  <2>2. /\ Len(L[r.svc].chars) \in Nat
        /\ Len(r.mService[r.svc]) \in Nat
        /\ DOMAIN r.mService[r.svc] = 1..Len(r.mService[r.svc])
    BY <1>0, RemoteFields, Shape DEF Services
  <2>3. Len(r.mService[r.svc]) = Len(L[r.svc].chars)
    BY <2>1, <2>2 DEF x
  <2>4. StandsAt(L, r) /\ \A c \in DOMAIN r.mService[r.svc] : r.mService[r.svc][c] = <<>>
    BY <1>1 DEF AtCharacteristics
  <2>5. r.mService[r.svc] = <<>> => AtCharacteristics(L, r, <<>>)
    BY <1>0, <2>4, OneOfNone DEF AtCharacteristics
  <2>6. r.mService[r.svc] = <<>> => Lands(L, r, <<>>)
    BY <1>0, <2>5 DEF Stands, Lands, InService
  <2>7. \A c \in 1..Len(L[r.svc].chars) : r.mService[r.svc][c] = <<>>
    BY <2>2, <2>3, <2>4, Zenon
  <2> QED
    BY <1>0, <2>1, <2>3, <2>4, <2>5, <2>6, <2>7, Zenon
<1>2. CASE /\ \A s \in r.svc..Len(L) : r.mService[s] = <<>>
           /\ Tail(m) = <<>> /\ Stuck(L, r, m) /\ ~AtCharacteristics(L, r, m)
  <2>1. r.mService[r.svc] = <<>>
    BY <1>0, <1>2, Shape
  <2>2. Stuck(L, r, <<>>)
    BY <1>0, <1>2, OneOfNone DEF Stuck
  <2>3. Lands(L, r, <<>>)
    BY <1>0, <2>2 DEF Stands, Lands, InService
  <2> QED
    BY <1>0, <1>2, <2>1, <2>3
<1> QED
  BY <1>1, <1>2, CharacteristicsAre

\* ... a service without any is left for the next one, or the program aborts, ...
LEMMA NotFoundTaken ==
  ASSUME NEW L \in Armbands, NEW r \in Remotes, NEW m \in Seq(Messages), m # <<>>,
         Stands(L, r, m), r.mState = "GATT_DIS_CHARC", Head(m) = "notFound"
  PROVE  /\ Tail(m) = <<>> /\ r.request = None /\ m[Len(m)] = "notFound"
         /\ Len(r.mService) = Len(L)
         /\ \A n : n = [r EXCEPT !.svc = Len(r.mService)] => Lands(L, n, Tail(m))
         /\ \A s \in r.svc + 1..Len(L), state \in {"GATT_DIS_CHARC", "aborted"} :
               Lands(L, Ask([r EXCEPT !.svc = s], state, "included", s, 0, 0), Tail(m))
<1>1. /\ r.request = None /\ Len(r.mService) = Len(L) /\ r.svc \in 1..Len(L)
      /\ r.svc \in DOMAIN r.mService
  BY CharacteristicsAre
<1>2. ~Rest(m, "type", "typeDone", Len(L[r.svc].chars) - Len(r.mService[r.svc]))
  <2>1. PICK x : x = Len(L[r.svc].chars) - Len(r.mService[r.svc])
    OBVIOUS
  <2>2. ~Rest(m, "type", "typeDone", x)
    BY RestTaken
  <2> QED
    BY <2>1, <2>2
<1>3. /\ \A s \in r.svc..Len(L) : r.mService[s] = <<>>
      /\ Tail(m) = <<>> /\ m[Len(m)] = "notFound"
  BY <1>2, CharacteristicsAre
<1>4. /\ Len(L) \in Nat /\ DOMAIN L = 1..Len(L) /\ DOMAIN r.mService = 1..Len(r.mService)
      /\ r.svc \in Nat
  BY <1>1, Shape, RemoteFields DEF Services
<1>5. ASSUME NEW n, n = [r EXCEPT !.svc = Len(r.mService)] PROVE Lands(L, n, <<>>)
  <2>1. n \in Remotes /\ n.mService = r.mService /\ n.svc = Len(L) /\ n.mState = r.mState
        /\ n.request = None
    BY <1>1, <1>4, <1>5 DEF Remotes
  <2>2. Stuck(L, n, <<>>)
    BY <1>1, <1>3, <1>4, <2>1, OneOfNone DEF Stuck
  <2>3. n.svc \in DOMAIN n.mService
    BY <1>1, <1>4, <2>1
  <2> QED
    BY <2>1, <2>2, <2>3 DEF Stands, Lands, InService
<1>6. ASSUME NEW s \in r.svc + 1..Len(L), NEW state \in {"GATT_DIS_CHARC", "aborted"}
      PROVE  Lands(L, Ask([r EXCEPT !.svc = s], state, "included", s, 0, 0), <<>>)
  <2> DEFINE a == [r EXCEPT !.svc = s]
             n == Ask(a, state, "included", s, 0, 0)
             q == Request("included", s, 0, 0)
  <2>1. s \in Nat /\ s \in 1..Len(L)
    BY <1>1, <1>4
  <2>2. a \in Remotes /\ a.mService = r.mService /\ a.svc = s
    BY <2>1 DEF Remotes
  <2>3. q \in Requests /\ state \in States
    BY <2>1, RequestIs, FirstStates DEF Ops
  <2> HIDE DEF a
  <2>4. n \in Remotes /\ n.mService = r.mService /\ n.svc = s /\ n.mState = state
        /\ n.request = q
    BY <2>2, <2>3, AskFields
  <2> HIDE DEF n
  <2>5. Stuck(L, n, <<>>)
    BY <1>1, <1>3, <1>4, <2>1, <2>4 DEF Stuck
  <2>6. n.svc \in DOMAIN n.mService
    BY <1>1, <1>4, <2>1, <2>4
  <2> QED
    BY <2>4, <2>5, <2>6 DEF a, n, Stands, Lands, InService
<1> QED
  BY <1>1, <1>3, <1>5, <1>6

\* ... and an error is ignored.
LEMMA ErrorAtCharacteristicsTaken ==
  ASSUME NEW L \in Armbands, NEW r \in Remotes, NEW m \in Seq(Messages), m # <<>>,
         Stands(L, r, m), r.mState = "GATT_DIS_CHARC", Head(m) = "error"
  PROVE  Lands(L, r, Tail(m)) /\ m[Len(m)] = "error"
<1>1. /\ r.request = None /\ Len(r.mService) = Len(L) /\ r.svc \in 1..Len(L)
      /\ r.svc \in DOMAIN r.mService
  BY CharacteristicsAre
<1>2. ~Rest(m, "type", "typeDone", Len(L[r.svc].chars) - Len(r.mService[r.svc]))
  <2>1. PICK x : x = Len(L[r.svc].chars) - Len(r.mService[r.svc])
    OBVIOUS
  <2>2. ~Rest(m, "type", "typeDone", x)
    BY RestTaken
  <2> QED
    BY <2>1, <2>2
<1>3. /\ \A s \in r.svc..Len(L) : r.mService[s] = <<>>
      /\ Tail(m) = <<>> /\ m[Len(m)] = "error"
  BY <1>2, CharacteristicsAre
<1>4. /\ Len(L) \in Nat /\ DOMAIN L = 1..Len(L)
  BY Shape
<1>5. Stuck(L, r, <<>>)
  BY <1>1, <1>3, <1>4, OneOfNone DEF Stuck
<1> QED
  BY <1>1, <1>3, <1>5 DEF Stands, Lands, InService

\* The characteristics that are passed over have no descriptors, ...
LEMMA SkippedIsBare ==
  ASSUME NEW L \in Armbands, NEW s \in 1..Len(L), NEW c \in 1..Len(L[s].chars),
         ~RoomIn(L, s, c)
  PROVE  L[s].chars[c].descs = <<>>
BY Shape DEF RoomIn

\* ... and the services without a range no characteristics.
LEMMA EmptyIsBare ==
  ASSUME NEW L \in Armbands, NEW s \in 1..Len(L), L[s].empty
  PROVE  Known(L)[s] = <<>>
<1>1. Known(L)[s] \in Seq(Seq(Kinds)) /\ Len(Known(L)[s]) = Len(L[s].chars)
      /\ L[s].chars = <<>>
  BY Shape, KnownShape
<1> QED
  BY <1>1, EmptySeq

\* A service whose characteristics are all known is known.
LEMMA ServiceKnown ==
  ASSUME NEW L \in Armbands, NEW K \in Services, NEW s \in 1..Len(L),
         Len(K) = Len(L), Len(K[s]) = Len(L[s].chars),
         \A c \in 1..Len(L[s].chars) : K[s][c] = L[s].chars[c].descs
  PROVE  K[s] = Known(L)[s]
<1>1. K[s] \in Seq(Seq(Kinds))
  BY ElementOfSeq DEF Services, Kinds
<1>2. /\ Known(L)[s] \in Seq(Seq(Kinds)) /\ Len(Known(L)[s]) = Len(K[s])
      /\ \A c \in 1..Len(K[s]) : Known(L)[s][c] = K[s][c]
  BY KnownShape
<1> QED
  BY <1>1, <1>2, SeqEqual

\* Wherever the walk moves on to, what is behind it is known.
LEMMA MoveLands ==
  ASSUME NEW L \in Armbands, NEW r \in Remotes, StandsAt(L, r), r.request = None,
         Len(r.mService[r.svc]) = Len(L[r.svc].chars),
         NEW from \in Nat, from >= 1, from <= Len(L[r.svc].chars) + 1,
         \A c \in 1..from - 1 : r.mService[r.svc][c] = L[r.svc].chars[c].descs,
         \A c \in from..Len(L[r.svc].chars) : r.mService[r.svc][c] = <<>>,
         NEW n, Keeps(r, n), MovesOn(L, r, from, n)
  PROVE  Lands(L, n, <<>>)
<1> DEFINE K == r.mService
           s == r.svc
           C == L[s].chars
<1>1. /\ K \in Services /\ DOMAIN K = 1..Len(K) /\ Len(K) = Len(L) /\ s \in 1..Len(L)
      /\ s \in Nat /\ Len(L) \in Nat /\ DOMAIN L = 1..Len(L) /\ Len(C) \in Nat
      /\ DOMAIN C = 1..Len(C)
  BY RemoteFields, Shape, SMTT(30) DEF StandsAt, Services
<1>2. n \in Remotes /\ n.mService = K /\ n.mNeedSaveService
  BY DEF Keeps, StandsAt
<1>3. \A c \in from..Len(C) : Skipped(L, s, c) => K[s][c] = C[c].descs
  BY <1>1, SkippedIsBare DEF Skipped
<1>4. CASE ToCharacteristic(L, r, from, n)
  <2>1. /\ n.chr \in from..Len(C) /\ \A c \in from..n.chr - 1 : Skipped(L, s, c)
        /\ n.mState = "GATT_READ_CHARC_VALUE" /\ n.svc = s
    BY <1>4 DEF ToCharacteristic
  <2>2. \A c \in 1..n.chr - 1 : K[s][c] = C[c].descs
    <3> SUFFICES ASSUME NEW c \in 1..n.chr - 1 PROVE K[s][c] = C[c].descs
      OBVIOUS
    <3>1. CASE c < from
      BY <3>1, <2>1, <1>1
    <3>2. CASE c >= from
      <4>1. c \in from..n.chr - 1 /\ c \in from..Len(C)
        BY <3>2, <2>1, <1>1
      <4> QED
        BY <4>1, <2>1, <1>3
    <3> QED
      BY <3>1, <3>2, <2>1, <1>1
  <2>3. \A c \in n.chr..Len(C) : K[s][c] = <<>>
    BY <2>1, <1>1
  <2>4. n.chr \in 1..Len(C)
    BY <2>1, <1>1
  <2>5. \E op \in {"value", "long", "descriptors"} : n.request = Request(op, s, n.chr, 0)
    BY <1>4 DEF ToCharacteristic
  <2> HIDE DEF C
  <2>6. StandsAt(L, n)
    BY <1>1, <1>2, <2>1 DEF StandsAt
  <2>7. n.mService[n.svc][n.chr] = <<>> /\ n.svc = s /\ n.mService[n.svc] = K[s]
    BY <1>1, <1>2, <2>1, <2>3, <2>4
  <2>8. StandsIn(L, n)
    <3>1. Len(K[s]) = Len(C) /\ n.chr \in DOMAIN C
      BY <1>1, <2>4 DEF C
    <3>2. \A c \in n.chr + 1..Len(C) : K[s][c] = <<>>
      BY <1>1, <2>3, <2>4
    <3> HIDE DEF K, s
    <3> QED
      BY <2>2, <2>6, <2>7, <3>1, <3>2 DEF StandsIn, C
  <2>9. AtValue(L, n, <<>>)
    BY <2>5, <2>7, <2>8 DEF AtValue
  <2> QED
    BY <1>1, <1>2, <2>1, <2>9 DEF Stands, Lands, InService
<1>5. CASE /\ \A c \in from..Len(C) : Skipped(L, s, c)
           /\ ToService(L, r, n)
  <2>1. \A c \in 1..Len(C) : K[s][c] = C[c].descs
    <3> SUFFICES ASSUME NEW c \in 1..Len(C) PROVE K[s][c] = C[c].descs
      OBVIOUS
    <3>1. CASE c < from
      BY <3>1, <1>1
    <3>2. CASE c >= from
      <4>1. c \in from..Len(C)
        BY <3>2, <1>1
      <4> QED
        BY <4>1, <1>3, <1>5
    <3> QED
      BY <3>1, <3>2, <1>1
  <2>2. K[s] = Known(L)[s]
    BY <1>1, <2>1, ServiceKnown
  <2>3. /\ \A t \in 1..s - 1 : K[t] = Known(L)[t]
        /\ \A t \in s + 1..Len(L) : K[t] = <<>>
    BY DEF StandsAt
  <2>4. \A t \in s + 1..Len(L) : L[t].empty => K[t] = Known(L)[t]
    BY <1>1, <2>3, EmptyIsBare
  <2>5. CASE /\ n.svc \in s + 1..Len(L) /\ ~L[n.svc].empty
             /\ \A t \in s + 1..n.svc - 1 : L[t].empty
             /\ n.mState = "GATT_INC_SVC" /\ n.request = Request("included", n.svc, 0, 0)
    <3>1. \A t \in 1..n.svc - 1 : K[t] = Known(L)[t]
      <4> SUFFICES ASSUME NEW t \in 1..n.svc - 1 PROVE K[t] = Known(L)[t]
        OBVIOUS
      <4>1. t < s \/ t = s \/ (t \in s + 1..n.svc - 1 /\ t \in s + 1..Len(L))
        BY <1>1, <2>5
      <4>2. t < s => t \in 1..s - 1
        BY <1>1
      <4> QED
        BY <4>1, <4>2, <2>2, <2>3, <2>4, <2>5
    <3>2. n.svc \in 1..Len(L) /\ n.svc \in Nat
      BY <1>1, <2>5
    <3>3. \A t \in n.svc..Len(L) : K[t] = <<>>
      BY <1>1, <2>3, <2>5, <3>2
    <3>4. StandsAt(L, n) /\ n.mService[n.svc] = <<>>
      BY <1>1, <1>2, <2>5, <3>1, <3>2, <3>3, SMTT(30) DEF StandsAt
    <3>5. AtIncluded(L, n, <<>>)
      BY <2>5, <3>4 DEF AtIncluded
    <3> QED
      BY <1>1, <1>2, <2>5, <3>2, <3>5 DEF Stands, Lands, InService
  <2>6. CASE (\A t \in s + 1..Len(L) : L[t].empty) /\ n.svc = s /\ Starts(r, n)
    <3>1. \A t \in 1..Len(L) : K[t] = Known(L)[t]
      <4> SUFFICES ASSUME NEW t \in 1..Len(L) PROVE K[t] = Known(L)[t]
        OBVIOUS
      <4>1. t < s \/ t = s \/ t \in s + 1..Len(L)
        BY <1>1
      <4>2. t < s => t \in 1..s - 1
        BY <1>1
      <4> QED
        BY <4>1, <4>2, <2>2, <2>3, <2>4, <2>6
    <3>2. K = Known(L)
      <4>1. Known(L) \in Services /\ Len(Known(L)) = Len(L)
        BY KnownShape
      <4> HIDE DEF K
      <4> QED
        BY <1>1, <3>1, <4>1, SeqEqual DEF Services
    <3>3. InService(r)
      BY <1>1, ZenonT(60) DEF InService
    <3> QED
      BY <1>2, <2>6, <3>2, <3>3, StartsLands
  <2> QED
    BY <1>5, <2>5, <2>6 DEF ToService
<1> QED
  BY <1>4, <1>5 DEF MovesOn

\* The value and the descriptors of a characteristic.
LEMMA ValuesAre ==
  ASSUME NEW L \in Armbands, NEW r \in Remotes, NEW m \in Seq(Messages), m # <<>>,
         Stands(L, r, m), r.mState = "GATT_READ_CHARC_VALUE"
  PROVE  /\ r.request = None /\ StandsIn(L, r)
         /\ \/ /\ r.mService[r.svc][r.chr] = <<>> /\ Tail(m) = <<>> /\ m[Len(m)] = Head(m)
               /\ Head(m) \in {"read", "readLong", "notFound", "error"}
            \/ /\ r.mService[r.svc][r.chr] = <<>>
               /\ \E n \in 0..Blobs : Rest(m, "blob", "blobDone", n)
            \/ /\ Rest(m, "info", "infoDone", Len(L[r.svc].chars[r.chr].descs)
                                                - Len(r.mService[r.svc][r.chr]))
               /\ \A k \in DOMAIN r.mService[r.svc][r.chr] :
                     r.mService[r.svc][r.chr][k] = L[r.svc].chars[r.chr].descs[k]
<1>1. AtValue(L, r, m) /\ r.request = None
  BY DEF Stands
<1>2. \A op \in {"value", "long", "descriptors"} : Request(op, r.svc, r.chr, 0) # None
  BY RequestIs
<1>3. \A S : One(m, S) => Tail(m) = <<>> /\ m[Len(m)] = Head(m) /\ Head(m) \in S
  BY OneTaken
<1> QED
  BY <1>1, <1>2, <1>3, ZenonT(60) DEF AtValue

\* Which answer it was shows in the message.
LEMMA AnswerIs ==
  ASSUME NEW L \in Armbands, NEW r \in Remotes, NEW m \in Seq(Messages), m # <<>>,
         Stands(L, r, m), r.mState = "GATT_READ_CHARC_VALUE"
  PROVE  /\ Head(m) \in {"read", "readLong", "notFound", "error"} =>
               r.mService[r.svc][r.chr] = <<>> /\ Tail(m) = <<>> /\ m[Len(m)] = Head(m)
         /\ Head(m) \in {"blob", "blobDone"} =>
               /\ r.mService[r.svc][r.chr] = <<>>
               /\ \E n \in 0..Blobs : Rest(m, "blob", "blobDone", n)
         /\ Head(m) \in {"info", "infoDone"} =>
               /\ Rest(m, "info", "infoDone", Len(L[r.svc].chars[r.chr].descs)
                                                - Len(r.mService[r.svc][r.chr]))
               /\ \A k \in DOMAIN r.mService[r.svc][r.chr] :
                     r.mService[r.svc][r.chr][k] = L[r.svc].chars[r.chr].descs[k]
<1> DEFINE x == Len(L[r.svc].chars[r.chr].descs) - Len(r.mService[r.svc][r.chr])
<1>1. Rest(m, "info", "infoDone", x) => Head(m) \in {"info", "infoDone"}
  <2> HIDE DEF x
  <2> QED
    BY RestTaken
<1>2. \A n \in 0..Blobs : Rest(m, "blob", "blobDone", n) => Head(m) \in {"blob", "blobDone"}
  BY RestTaken
<1> QED
  BY <1>1, <1>2, ValuesAre

\* Where the walk is in the layout.
LEMMA WithinCharacteristic ==
  ASSUME NEW L \in Armbands, NEW r \in Remotes, StandsIn(L, r)
  PROVE  /\ StandsAt(L, r) /\ r.svc \in 1..Len(L) /\ r.svc \in DOMAIN r.mService
         /\ r.svc \in Nat /\ r.chr \in Nat /\ Len(L) \in Nat
         /\ Len(r.mService) = Len(L) /\ Len(L[r.svc].chars) \in Nat
         /\ Len(r.mService[r.svc]) = Len(L[r.svc].chars)
         /\ r.chr \in 1..Len(L[r.svc].chars)
         /\ r.mService[r.svc] \in Seq(Seq(Kinds))
         /\ r.mService[r.svc][r.chr] \in Seq(Kinds)
         /\ L[r.svc].chars[r.chr].descs \in Seq(Kinds)
         /\ \A c \in 1..r.chr - 1 : r.mService[r.svc][c] = L[r.svc].chars[c].descs
         /\ \A c \in r.chr + 1..Len(L[r.svc].chars) : r.mService[r.svc][c] = <<>>
<1>1. /\ StandsAt(L, r) /\ Len(r.mService[r.svc]) = Len(L[r.svc].chars)
      /\ r.chr \in DOMAIN L[r.svc].chars
      /\ \A c \in 1..r.chr - 1 : r.mService[r.svc][c] = L[r.svc].chars[c].descs
      /\ \A c \in r.chr + 1..Len(L[r.svc].chars) : r.mService[r.svc][c] = <<>>
  BY DEF StandsIn
<1>2. /\ r.svc \in 1..Len(L) /\ Len(r.mService) = Len(L)
      /\ DOMAIN r.mService = 1..Len(r.mService) /\ r.mService \in Seq(Seq(Seq(Kinds)))
      /\ r.svc \in Nat /\ r.chr \in Nat /\ Len(L) \in Nat
  BY <1>1, RemoteFields, Shape DEF StandsAt, Services, Kinds
<1>3. r.mService[r.svc] \in Seq(Seq(Kinds))
  BY <1>2, ElementOfSeq
<1>4. r.chr \in 1..Len(L[r.svc].chars) /\ L[r.svc].chars[r.chr].descs \in Seq(Kinds)
      /\ Len(L[r.svc].chars) \in Nat
  BY <1>1, <1>2, Shape
<1>5. r.mService[r.svc][r.chr] \in Seq(Kinds)
  BY <1>1, <1>3, <1>4, ElementOfSeq
<1> QED
  BY <1>1, <1>2, <1>3, <1>4, <1>5

\* After the descriptors of one characteristic the walk visits the next, ...
LEMMA CharacteristicDone ==
  ASSUME layout \in Layouts, NEW d \in DOMAIN layout, NEW r \in Remotes,
         StandsIn(layout[d], r), r.request = None,
         r.mService[r.svc][r.chr] = layout[d][r.svc].chars[r.chr].descs
  PROVE  LET n == Visit(d, r, r.chr + 1)
         IN  Keeps(r, n) /\ MovesOn(layout[d], r, r.chr + 1, n) /\ Lands(layout[d], n, <<>>)
<1> DEFINE L == layout[d]
           n == Visit(d, r, r.chr + 1)
<1>0. L \in Armbands
  BY InRange
<1> HIDE DEF L
<1>1. /\ StandsAt(L, r) /\ r.svc \in 1..Len(L) /\ r.svc \in Nat /\ r.chr \in Nat
      /\ Len(r.mService) = Len(L) /\ Len(L[r.svc].chars) \in Nat
      /\ Len(r.mService[r.svc]) = Len(L[r.svc].chars)
      /\ r.chr \in 1..Len(L[r.svc].chars)
      /\ \A c \in 1..r.chr - 1 : r.mService[r.svc][c] = L[r.svc].chars[c].descs
      /\ \A c \in r.chr + 1..Len(L[r.svc].chars) : r.mService[r.svc][c] = <<>>
  BY <1>0, WithinCharacteristic DEF L
<1> DEFINE from == r.chr + 1
<1>2. /\ from \in Nat /\ from >= 1 /\ from <= Len(L[r.svc].chars) + 1
      /\ \A c \in 1..from - 1 : r.mService[r.svc][c] = L[r.svc].chars[c].descs
      /\ \A c \in from..Len(L[r.svc].chars) : r.mService[r.svc][c] = <<>>
  <2>1. r.mService[r.svc][r.chr] = L[r.svc].chars[r.chr].descs
    BY DEF L
  <2>2. ASSUME NEW c \in 1..from - 1
        PROVE  r.mService[r.svc][c] = L[r.svc].chars[c].descs
    <3>1. c = r.chr \/ c \in 1..r.chr - 1
      BY <1>1
    <3> QED
      BY <3>1, <2>1, <1>1
  <2>3. from \in Nat /\ from >= 1 /\ from <= Len(L[r.svc].chars) + 1
    BY <1>1
  <2>4. \A c \in from..Len(L[r.svc].chars) : r.mService[r.svc][c] = <<>>
    BY <1>1, Zenon
  <2> QED
    BY <2>2, <2>3, <2>4, Zenon
<1>3. Keeps(r, n) /\ MovesOn(L, r, from, n)
  BY <1>1, <1>2, VisitDoes DEF L
<1> HIDE DEF n, from
<1>4. Lands(L, n, <<>>)
  BY <1>0, <1>1, <1>2, <1>3, MoveLands
<1> QED
  BY <1>3, <1>4 DEF L, n, from

\* ... and after its value the descriptors, if there is room for them.
Follows(L, r, n) ==
    IF RoomIn(L, r.svc, r.chr)
      THEN /\ n.mState = "GATT_READ_CHARC_VALUE" /\ n.svc = r.svc /\ n.chr = r.chr
           /\ n.request = Request("descriptors", r.svc, r.chr, 0)
      ELSE MovesOn(L, r, r.chr + 1, n)

\* When the value of a characteristic was read, its descriptors are asked for or it is left.
LEMMA ValueDone ==
  ASSUME layout \in Layouts, NEW d \in DOMAIN layout, NEW r \in Remotes,
         StandsIn(layout[d], r), r.request = None, r.mService[r.svc][r.chr] = <<>>
  PROVE  LET n == DiscoveryDescriptor(d, r)
         IN  Keeps(r, n) /\ Follows(layout[d], r, n) /\ Lands(layout[d], n, <<>>)
<1> DEFINE L == layout[d]
           n == DiscoveryDescriptor(d, r)
<1>0. L \in Armbands
  BY InRange
<1>1. /\ r.svc \in 1..Len(L) /\ r.svc \in Nat /\ r.chr \in Nat
      /\ Len(r.mService) = Len(L) /\ r.svc \in DOMAIN r.mService
      /\ Len(r.mService[r.svc]) = Len(L[r.svc].chars)
      /\ r.chr \in 1..Len(L[r.svc].chars)
  BY <1>0, WithinCharacteristic
<1>2. HasRoom(d, r, r.chr) <=> RoomIn(L, r.svc, r.chr)
  BY <1>1, RoomIs
<1>3. CASE ~RoomIn(L, r.svc, r.chr)
  <2>1. r.mService[r.svc][r.chr] = L[r.svc].chars[r.chr].descs
    BY <1>0, <1>1, <1>3, SkippedIsBare
  <2>2. n = Visit(d, r, r.chr + 1)
    BY <1>2, <1>3 DEF DiscoveryDescriptor
  <2> QED
    BY <1>3, <2>1, <2>2, CharacteristicDone DEF Follows
<1>4. CASE RoomIn(L, r.svc, r.chr)
  <2> DEFINE q == Request("descriptors", r.svc, r.chr, 0)
             a == Ask(r, "GATT_READ_CHARC_VALUE", "descriptors", r.svc, r.chr, 0)
  <2>1. q \in Requests
    BY <1>1, RequestIs DEF Ops
  <2>2. n = a
    BY <1>2, <1>4 DEF DiscoveryDescriptor
  <2>3. a \in Remotes /\ a.mService = r.mService /\ a.mNeedSaveService = r.mNeedSaveService
        /\ a.mState = "GATT_READ_CHARC_VALUE" /\ a.request = q /\ a.svc = r.svc
        /\ a.chr = r.chr
    BY <2>1, FirstStates, AskFields
  <2> HIDE DEF n, a, L
  <2>4. StandsIn(L, a)
    BY <2>3 DEF StandsIn, StandsAt, L
  <2>5. AtValue(L, a, <<>>)
    BY <2>3, <2>4 DEF AtValue
  <2>6. Lands(L, a, <<>>)
    BY <1>1, <2>3, <2>5 DEF Stands, Lands, InService
  <2>7. Follows(L, r, a) /\ Keeps(r, a)
    BY <1>4, <2>3 DEF Follows, Keeps
  <2> QED
    BY <2>2, <2>6, <2>7 DEF n, L
<1> QED
  BY <1>3, <1>4

\* A value is announced as long, ...
LEMMA LongTaken ==
  ASSUME NEW L \in Armbands, NEW r \in Remotes, NEW m \in Seq(Messages), m # <<>>,
         Stands(L, r, m), r.mState = "GATT_READ_CHARC_VALUE", Head(m) = "readLong"
  PROVE  LET n == Ask(r, "GATT_READ_CHARC_VALUE", "long", r.svc, r.chr, 0)
         IN  /\ Tail(m) = <<>> /\ n.mState = "GATT_READ_CHARC_VALUE"
             /\ n.svc = r.svc /\ n.chr = r.chr
             /\ n.mNeedSaveService = r.mNeedSaveService
             /\ n.request = Request("long", r.svc, r.chr, 0) /\ Lands(L, n, Tail(m))
<1> DEFINE n == Ask(r, "GATT_READ_CHARC_VALUE", "long", r.svc, r.chr, 0)
           q == Request("long", r.svc, r.chr, 0)
<1>1. StandsIn(L, r) /\ r.mService[r.svc][r.chr] = <<>> /\ Tail(m) = <<>>
  BY ValuesAre, AnswerIs
<1>2. r.svc \in Nat /\ r.chr \in Nat /\ r.svc \in DOMAIN r.mService
  BY <1>1, WithinCharacteristic
<1>3. q \in Requests
  BY <1>2, RequestIs DEF Ops
<1>4. n \in Remotes /\ n.mService = r.mService /\ n.mNeedSaveService = r.mNeedSaveService
      /\ n.mState = "GATT_READ_CHARC_VALUE" /\ n.request = q /\ n.svc = r.svc /\ n.chr = r.chr
  BY <1>3, FirstStates, AskFields
<1> HIDE DEF n
<1>5. StandsIn(L, n)
  BY <1>1, <1>4 DEF StandsIn, StandsAt
<1>6. AtValue(L, n, <<>>)
  BY <1>1, <1>4, <1>5 DEF AtValue
<1>7. Lands(L, n, <<>>)
  BY <1>2, <1>4, <1>6 DEF Stands, Lands, InService
<1> QED
  BY <1>1, <1>4, <1>7 DEF n

\* ... and its parts are taken one by one.
LEMMA PartTaken ==
  ASSUME NEW L \in Armbands, NEW r \in Remotes, NEW m \in Seq(Messages), m # <<>>,
         Stands(L, r, m), r.mState = "GATT_READ_CHARC_VALUE", Head(m) = "blob"
  PROVE  /\ r.request = None /\ Lands(L, r, Tail(m))
         /\ m[Len(m)] = "blobDone" /\ Tail(m) # <<>> /\ Tail(m)[Len(Tail(m))] = "blobDone"
<1>1. /\ r.request = None /\ StandsIn(L, r) /\ r.mService[r.svc][r.chr] = <<>>
      /\ \E n \in 0..Blobs : Rest(m, "blob", "blobDone", n)
  BY ValuesAre, AnswerIs
<1>2. PICK n \in 0..Blobs : Rest(m, "blob", "blobDone", n)
  BY <1>1
<1>3. n # 0 /\ Rest(Tail(m), "blob", "blobDone", n - 1) /\ m[Len(m)] = "blobDone"
      /\ (Tail(m) # <<>> => Tail(m)[Len(Tail(m))] = "blobDone")
  BY <1>2, RestTaken
<1>4. n - 1 \in 0..Blobs
  BY <1>2, <1>3 DEF Blobs
<1>5. Tail(m) # <<>>
  <2>1. Len(Tail(m)) = (n - 1) + 1
    BY <1>3 DEF Rest
  <2>2. Len(Tail(m)) # 0
    BY <1>3, <2>1
  <2>3. Len(<<>>) = 0
    OBVIOUS
  <2> QED
    BY <2>2, <2>3
<1>6. AtValue(L, r, Tail(m))
  BY <1>1, <1>3, <1>4 DEF AtValue
<1>7. r.svc \in DOMAIN r.mService
  BY <1>1, WithinCharacteristic
<1> QED
  BY <1>1, <1>3, <1>5, <1>6, <1>7 DEF Stands, Lands, InService

\* The last part of a long value is the last message.
LEMMA LastPartTaken ==
  ASSUME NEW L \in Armbands, NEW r \in Remotes, NEW m \in Seq(Messages), m # <<>>,
         Stands(L, r, m), r.mState = "GATT_READ_CHARC_VALUE", Head(m) = "blobDone"
  PROVE  Tail(m) = <<>> /\ m[Len(m)] = "blobDone" /\ Len(m) = 1
<1>1. PICK n \in 0..Blobs : Rest(m, "blob", "blobDone", n)
  BY AnswerIs, Zenon
<1>2. n = 0
  BY <1>1, RestTaken
<1>3. Tail(m) = <<>> /\ m[Len(m)] = "blobDone"
  BY <1>1, <1>2, RestTaken
<1>4. Len(m) = 1
  BY <1>1, <1>2 DEF Rest
<1> QED
  BY <1>3, <1>4

\* The descriptors are added in the order of the layout, ...
LEMMA DescriptorTaken ==
  ASSUME NEW L \in Armbands, NEW r \in Remotes, NEW m \in Seq(Messages), m # <<>>,
         Stands(L, r, m), r.mState = "GATT_READ_CHARC_VALUE", Head(m) = "info"
  PROVE  LET known == r.mService[r.svc][r.chr]
             n == [r EXCEPT !.mService[r.svc][r.chr] =
                       Append(known, L[r.svc].chars[r.chr].descs[Len(known) + 1])]
         IN  /\ Lands(L, n, Tail(m)) /\ n.mState = "GATT_READ_CHARC_VALUE"
             /\ n.svc = r.svc /\ n.chr = r.chr /\ n.request = None /\ r.request = None
             /\ n.mNeedSaveService = r.mNeedSaveService
             /\ m[Len(m)] = "infoDone" /\ Tail(m) # <<>>
             /\ Tail(m)[Len(Tail(m))] = "infoDone"
<1> DEFINE K == r.mService
           s == r.svc
           c == r.chr
           F == K[s][c]
           D == L[s].chars[c].descs
           A == Append(F, D[Len(F) + 1])
           B == [K[s] EXCEPT ![c] = A]
           J == [K EXCEPT ![s] = B]
           n == [r EXCEPT !.mService[r.svc][r.chr] = A]
           x == Len(D) - Len(F)
<1>1. /\ r.request = None /\ StandsIn(L, r) /\ Rest(m, "info", "infoDone", x)
      /\ \A k \in DOMAIN F : F[k] = D[k]
  BY ValuesAre, AnswerIs
<1>2. /\ StandsAt(L, r) /\ s \in 1..Len(L) /\ s \in DOMAIN K /\ s \in Nat /\ c \in Nat
      /\ Len(L) \in Nat /\ Len(K) = Len(L) /\ Len(L[s].chars) \in Nat
      /\ Len(K[s]) = Len(L[s].chars) /\ c \in 1..Len(L[s].chars)
      /\ K[s] \in Seq(Seq(Kinds)) /\ F \in Seq(Kinds) /\ D \in Seq(Kinds)
      /\ \A i \in 1..c - 1 : K[s][i] = L[s].chars[i].descs
      /\ \A i \in c + 1..Len(L[s].chars) : K[s][i] = <<>>
  BY <1>1, WithinCharacteristic
<1>3. K \in Seq(Seq(Seq(Kinds)))
  BY RemoteFields DEF Services, Kinds
<1>4. /\ x \in Nat /\ x # 0 /\ Rest(Tail(m), "info", "infoDone", x - 1)
      /\ m[Len(m)] = "infoDone" /\ (Tail(m) # <<>> => Tail(m)[Len(Tail(m))] = "infoDone")
  <2> HIDE DEF x
  <2> QED
    BY <1>1, RestTaken
<1> HIDE DEF K, F, D, s, c
<1>5. Len(F) \in Nat /\ Len(D) \in Nat /\ Len(F) + 1 \in 1..Len(D) /\ DOMAIN F = 1..Len(F)
  BY <1>2, <1>4
<1>6. D[Len(F) + 1] \in Kinds
  BY <1>2, <1>5, ElementOfSeq
<1>7. /\ A \in Seq(Kinds) /\ Len(A) = Len(F) + 1 /\ DOMAIN A = 1..Len(F) + 1
      /\ \A k \in 1..Len(F) : A[k] = F[k]
      /\ A[Len(F) + 1] = D[Len(F) + 1]
  BY <1>2, <1>6, AppendProperties, LenProperties
<1> HIDE DEF A
<1>8. \A k \in DOMAIN A : A[k] = D[k]
  <2> SUFFICES ASSUME NEW k \in DOMAIN A PROVE A[k] = D[k]
    OBVIOUS
  <2>1. k \in 1..Len(F) \/ k = Len(F) + 1
    BY <1>5, <1>7
  <2>2. CASE k \in 1..Len(F)
    BY <1>1, <1>5, <1>7, <2>2, Zenon
  <2>3. CASE k = Len(F) + 1
    BY <1>7, <2>3, Zenon
  <2> QED
    BY <2>1, <2>2, <2>3
<1>9. Len(D) - Len(A) = x - 1
  BY <1>5, <1>7 DEF x
<1> HIDE DEF x
<1>10. /\ B \in Seq(Seq(Kinds)) /\ Len(B) = Len(K[s]) /\ B[c] = A
       /\ \A i \in 1..Len(K[s]) : i # c => B[i] = K[s][i]
  <2>1. PICK T : T = Seq(Kinds)
    OBVIOUS
  <2>2. K[s] \in Seq(T) /\ A \in T /\ c \in 1..Len(K[s])
    BY <1>2, <1>7, <2>1
  <2>3. B \in Seq(T) /\ Len(B) = Len(K[s]) /\ B[c] = A
        /\ \A i \in 1..Len(K[s]) : i # c => B[i] = K[s][i]
    BY <2>2
  <2> QED
    BY <2>1, <2>3
<1> HIDE DEF B
<1>11. /\ J \in Services /\ Len(J) = Len(L) /\ J[s] = B /\ s \in DOMAIN J
       /\ \A t \in 1..Len(L) : t # s => J[t] = K[t]
  <2>1. PICK T : T = Seq(Seq(Kinds))
    OBVIOUS
  <2>2. K \in Seq(T) /\ B \in T /\ s \in 1..Len(K)
    BY <1>2, <1>3, <1>10, <2>1
  <2>3. J \in Seq(T) /\ Len(J) = Len(K) /\ J[s] = B /\ DOMAIN J = 1..Len(K)
        /\ \A t \in 1..Len(K) : t # s => J[t] = K[t]
    BY <2>2
  <2> QED
    BY <1>2, <2>1, <2>3 DEF Services, Kinds
<1>12. n = [r EXCEPT !.mService = J]
  BY DEF J, B, K, s, c
<1> HIDE DEF J
<1>13. n \in Remotes /\ n.mService = J /\ n.svc = s /\ n.chr = c /\ n.mState = r.mState
       /\ n.mNeedSaveService = r.mNeedSaveService /\ n.request = r.request
  BY <1>11, <1>12 DEF Remotes, s, c
<1> HIDE DEF n
<1>14. StandsAt(L, n)
  <2>1. /\ r.mNeedSaveService /\ s \in DOMAIN L /\ ~L[s].empty
        /\ \A t \in 1..s - 1 : K[t] = Known(L)[t]
        /\ \A t \in s + 1..Len(L) : K[t] = <<>>
    BY <1>2 DEF StandsAt, K, s
  <2>2. \A t \in 1..s - 1 : t \in 1..Len(L) /\ t # s
    BY <1>2
  <2>3. \A t \in s + 1..Len(L) : t \in 1..Len(L) /\ t # s
    BY <1>2
  <2>4. /\ \A t \in 1..s - 1 : J[t] = Known(L)[t]
        /\ \A t \in s + 1..Len(L) : J[t] = <<>>
    BY <1>11, <2>1, <2>2, <2>3
  <2> QED
    BY <1>11, <1>13, <2>1, <2>4 DEF StandsAt
<1>15. StandsIn(L, n)
  <2>1. Len(B) = Len(L[s].chars) /\ c \in DOMAIN L[s].chars
    BY <1>2, <1>10, Shape
  <2>2. ASSUME NEW i \in 1..c - 1 PROVE B[i] = L[s].chars[i].descs
    <3>1. i \in 1..Len(K[s]) /\ i # c
      BY <1>2, SMTT(30)
    <3> QED
      BY <1>2, <1>10, <3>1
  <2>3. ASSUME NEW i \in c + 1..Len(L[s].chars) PROVE B[i] = <<>>
    <3>1. i \in 1..Len(K[s]) /\ i # c
      BY <1>2
    <3> QED
      BY <1>2, <1>10, <3>1
  <2> QED
    BY <1>11, <1>13, <1>14, <2>1, <2>2, <2>3 DEF StandsIn
<1>16. AtValue(L, n, Tail(m))
  <2>1. n.mService[n.svc][n.chr] = A /\ n.request = None /\ L[n.svc].chars[n.chr].descs = D
    BY <1>1, <1>10, <1>11, <1>13 DEF D
  <2>2. Rest(Tail(m), "info", "infoDone", Len(D) - Len(A))
    BY <1>4, <1>9
  <2> QED
    BY <1>8, <1>15, <2>1, <2>2 DEF AtValue
<1>17. Tail(m) # <<>>
  <2>1. Len(Tail(m)) = (x - 1) + 1
    BY <1>4 DEF Rest
  <2>2. Len(Tail(m)) # 0
    BY <1>4, <2>1
  <2>3. Len(<<>>) = 0
    OBVIOUS
  <2> QED
    BY <2>2, <2>3
<1>18. Lands(L, n, Tail(m))
  BY <1>1, <1>11, <1>13, <1>16 DEF Stands, Lands, InService
<1> QED
  BY <1>1, <1>4, <1>13, <1>17, <1>18, Zenon DEF n, s, c, K, F, A, D

\* ... until they are all there.
LEMMA DescriptorsTaken ==
  ASSUME NEW L \in Armbands, NEW r \in Remotes, NEW m \in Seq(Messages), m # <<>>,
         Stands(L, r, m), r.mState = "GATT_READ_CHARC_VALUE", Head(m) = "infoDone"
  PROVE  /\ r.request = None /\ StandsIn(L, r) /\ Tail(m) = <<>> /\ m[Len(m)] = "infoDone"
         /\ r.mService[r.svc][r.chr] = L[r.svc].chars[r.chr].descs
<1> DEFINE F == r.mService[r.svc][r.chr]
           D == L[r.svc].chars[r.chr].descs
           x == Len(D) - Len(F)
<1>1. /\ r.request = None /\ StandsIn(L, r) /\ Rest(m, "info", "infoDone", x)
      /\ \A k \in DOMAIN F : F[k] = D[k]
  BY ValuesAre, AnswerIs
<1>2. F \in Seq(Kinds) /\ D \in Seq(Kinds)
  BY <1>1, WithinCharacteristic
<1>3. x = 0 /\ Tail(m) = <<>> /\ m[Len(m)] = "infoDone"
  <2> HIDE DEF x
  <2> QED
    BY <1>1, RestTaken
<1>4. Len(F) = Len(D) /\ DOMAIN F = 1..Len(F)
  <2> HIDE DEF F, D
  <2> QED
    BY <1>2, <1>3
<1>5. F = D
  <2> HIDE DEF F, D
  <2> QED
    BY <1>1, <1>2, <1>4, SeqEqual
<1> QED
  BY <1>1, <1>3, <1>5

\* The configuration of one descriptor is followed by that of the next.
LEMMA ConfiguredTaken ==
  ASSUME NEW L \in Armbands, NEW r \in Remotes, NEW m \in Seq(Messages), m # <<>>,
         Stands(L, r, m), r.mState = "GATT_READ_CHARC_DESCRIPTOR_VALUE"
  PROVE  /\ Tail(m) = <<>> /\ r.request = None /\ r.mService = Known(L)
         /\ m[Len(m)] = Head(m) /\ Head(m) \in {"read", "write", "error"}
         /\ InService(r) => /\ Lands(L, r, Tail(m))
                            /\ Lands(L, [r EXCEPT !.mState = "CONNECTED"], Tail(m))
                            /\ \A n : /\ Keeps(r, n) /\ n.svc = r.svc /\ n.mState = r.mState
                                      /\ First(r.mService, NextPosition(r), n)
                                      => Lands(L, n, Tail(m))
<1>1. AtDescriptors(L, r, m) /\ r.request = None /\ r.mService = Known(L)
  BY DEF Stands, AtDescriptors
<1>2. \A p : Request(ToConfigure(Known(L), p), p[1], p[2], p[3]) # None
  BY RequestIs DEF ToConfigure
<1>3. One(m, {"read", "write", "error"})
  BY <1>1, <1>2 DEF AtDescriptors
<1>4. Tail(m) = <<>> /\ m[Len(m)] = Head(m) /\ Head(m) \in {"read", "write", "error"}
  BY <1>3, OneTaken
<1>5. AtDescriptors(L, r, <<>>)
  BY <1>1, OneOfNone DEF AtDescriptors
<1>6. ASSUME InService(r) PROVE Lands(L, r, <<>>)
  BY <1>1, <1>5, <1>6 DEF Stands, Lands
<1>7. ASSUME InService(r) PROVE Lands(L, [r EXCEPT !.mState = "CONNECTED"], <<>>)
  <2> DEFINE n == [r EXCEPT !.mState = "CONNECTED"]
  <2>1. n \in Remotes /\ n.mService = r.mService /\ n.svc = r.svc /\ n.mState = "CONNECTED"
        /\ n.request = r.request
    BY FirstStates DEF Remotes
  <2> HIDE DEF n
  <2>2. Lands(L, n, <<>>)
    BY <1>1, <1>7, <2>1 DEF Stands, Lands, InService
  <2> QED
    BY <2>2 DEF n
<1>8. ASSUME InService(r), NEW n, Keeps(r, n), n.svc = r.svc, n.mState = r.mState,
             First(r.mService, NextPosition(r), n)
      PROVE  Lands(L, n, <<>>)
  <2>1. AtDescriptors(L, n, <<>>)
    BY <1>1, <1>8 DEF AtDescriptors, First, Keeps
  <2> QED
    BY <1>8, <2>1 DEF Stands, Lands, InService, Keeps
<1> QED
  BY <1>1, <1>4, <1>6, <1>7, <1>8
-----------------------------------------------------------------------------
(* The walk and the file.                                                   *)

Typed ==
    /\ layout \in Layouts
    /\ rd \in [Devices -> Remotes] /\ \A d \in Devices : InService(rd[d])
    /\ mMessage \in [Devices -> Seq(Messages)]
    /\ link \in [Devices -> {"up", "closing", "down"}]
Base == Typed /\ LinkInv /\ FileInv

\* What a message finds when it is taken.
LEMMA TakeFinds ==
  ASSUME Base, NEW d \in Devices, NEW states, NEW messages, NEW new,
         Take(d, states, messages, new)
  PROVE  /\ layout \in Layouts /\ d \in DOMAIN layout /\ layout[d] \in Armbands
         /\ rd[d] \in Remotes /\ InService(rd[d])
         /\ mMessage[d] \in Seq(Messages) /\ mMessage[d] # <<>>
         /\ Stands(layout[d], rd[d], mMessage[d])
         /\ rd[d].mState \in states /\ Head(mMessage[d]) \in messages
<1>1. link[d] # "down" /\ mMessage[d] # <<>> /\ rd[d].mState \in states
      /\ Head(mMessage[d]) \in messages
  BY DEF Take
<1>2. d \in DOMAIN layout /\ Stands(layout[d], rd[d], mMessage[d]) /\ layout \in Layouts
      /\ rd[d] \in Remotes /\ InService(rd[d]) /\ mMessage[d] \in Seq(Messages)
  BY <1>1 DEF Base, Typed, LinkInv
<1>3. layout[d] \in Armbands
  BY <1>2, InRange
<1> QED
  BY <1>1, <1>2, <1>3

Taken(d, n) ==
    /\ Take(d, States, Messages, n) /\ Lands(layout[d], n, Tail(mMessage[d]))

\* The actions of the first states.
LEMMA FirstSteps ==
  ASSUME Base, NEW d \in Devices,
         \/ OnDeviceConnected(d) \/ Authenticated(d) \/ AuthenticationNotSupported(d)
         \/ AuthenticationFailed(d) \/ Bonded(d) \/ BondKeyMissing(d)
  PROVE  \E n : /\ Taken(d, n) /\ n.request.op # "long" /\ Tail(mMessage[d]) = <<>>
                /\ (UNCHANGED link \/ Disconnect(d))
<1> DEFINE r == rd[d]
           m == mMessage[d]
           L == layout[d]
<1>0. /\ {"IDLE", "W4SECU"} \subseteq States
      /\ {"connected", "authOk", "authUnsupported", "authNoKey", "authError",
          "bondOk", "bondKeyMissing"} \subseteq Messages
  BY DEF States, Messages
<1>1. CASE OnDeviceConnected(d)
  <2>1. PICK op \in {"auth", "bond"} :
           Take(d, {"IDLE"}, {"connected"}, Ask(r, "W4SECU", op, 0, 0, 0))
    BY <1>1 DEF OnDeviceConnected
  <2> DEFINE n == Ask(r, "W4SECU", op, 0, 0, 0)
  <2>2. /\ L \in Armbands /\ r \in Remotes /\ m \in Seq(Messages) /\ m # <<>>
        /\ Stands(L, r, m) /\ r.mState = "IDLE"
    BY <2>1, TakeFinds
  <2>3. Lands(L, n, Tail(m))
    BY <2>2, ConnectionTaken
  <2>4. n.request.op = op
    <3>1. Request(op, 0, 0, 0) \in Requests
      BY FirstRequests
    <3>2. n.request = Request(op, 0, 0, 0)
      BY <2>2, <3>1, FirstStates, AskFields
    <3> QED
      BY <3>2, RequestIs
  <2>5. Tail(m) = <<>>
    BY <2>2, OneTaken DEF Stands, AtConnection
  <2> HIDE DEF n
  <2>6. Take(d, States, Messages, n)
    BY <1>0, <2>1 DEF Take, n
  <2> QED
    BY <1>1, <2>3, <2>4, <2>5, <2>6 DEF Taken, OnDeviceConnected
<1>2. ASSUME NEW messages \in SUBSET Messages, NEW n, Take(d, {"W4SECU"}, messages, n),
             \/ n = r \/ n = [r EXCEPT !.mNeedSaveService = TRUE]
             \/ n = [r EXCEPT !.mState = "aborted"]
             \/ n = Ask(r, "W4SECU", "bond", 0, 0, 0)
             \/ n = Ask(r, "GATT_PRI_SVC", "mtu", 0, 0, 0)
      PROVE  Taken(d, n) /\ n.request.op # "long" /\ Tail(mMessage[d]) = <<>>
  <2>1. /\ L \in Armbands /\ r \in Remotes /\ m \in Seq(Messages) /\ m # <<>>
        /\ Stands(L, r, m) /\ r.mState = "W4SECU"
    BY <1>2, TakeFinds
  <2>2. Lands(L, n, Tail(m)) /\ Tail(m) = <<>> /\ r.request = None
    BY <1>2, <2>1, SecurityTaken, ZenonT(60)
  <2>3. n.request.op # "long"
    <3>1. None.op = "none" /\ Request("mtu", 0, 0, 0).op = "mtu"
          /\ Request("bond", 0, 0, 0).op = "bond"
      BY RequestIs DEF None
    <3>2. \A op \in {"mtu", "bond"}, state \in {"W4SECU", "GATT_PRI_SVC"} :
             Ask(r, state, op, 0, 0, 0).request = Request(op, 0, 0, 0)
      <4> SUFFICES ASSUME NEW op \in {"mtu", "bond"},
                          NEW state \in {"W4SECU", "GATT_PRI_SVC"}
                   PROVE  Ask(r, state, op, 0, 0, 0).request = Request(op, 0, 0, 0)
        OBVIOUS
      <4>1. Request(op, 0, 0, 0) \in Requests /\ state \in States
        BY FirstRequests, FirstStates
      <4> QED
        BY <2>1, <4>1, AskFields
    <3>3. [r EXCEPT !.mNeedSaveService = TRUE].request = r.request
          /\ [r EXCEPT !.mState = "aborted"].request = r.request
      BY <2>1 DEF Remotes
    <3>4. CASE n = r
      BY <3>1, <3>4, <2>2
    <3>5. CASE n = [r EXCEPT !.mNeedSaveService = TRUE]
      BY <3>1, <3>3, <3>5, <2>2, Zenon
    <3>6. CASE n = [r EXCEPT !.mState = "aborted"]
      BY <3>1, <3>3, <3>6, <2>2, Zenon
    <3>7. CASE n = Ask(r, "W4SECU", "bond", 0, 0, 0)
      BY <3>1, <3>2, <3>7
    <3>8. CASE n = Ask(r, "GATT_PRI_SVC", "mtu", 0, 0, 0)
      BY <3>1, <3>2, <3>8
    <3> QED
      BY <1>2, <3>4, <3>5, <3>6, <3>7, <3>8
  <2>4. Take(d, States, Messages, n)
    BY <1>0, <1>2 DEF Take
  <2> QED
    BY <2>2, <2>3, <2>4 DEF Taken
<1>3. /\ {"authOk"} \in SUBSET Messages /\ {"authUnsupported"} \in SUBSET Messages
      /\ {"authNoKey", "authError"} \in SUBSET Messages /\ {"authError"} \in SUBSET Messages
      /\ {"bondOk"} \in SUBSET Messages /\ {"bondKeyMissing"} \in SUBSET Messages
  BY <1>0
<1>4. CASE Authenticated(d)
  <2>1. PICK n : n = Ask(r, "W4SECU", "bond", 0, 0, 0)
    OBVIOUS
  <2>2. Take(d, {"W4SECU"}, {"authOk"}, n) /\ UNCHANGED link
    BY <1>4, <2>1 DEF Authenticated
  <2> QED
    BY <1>2, <1>3, <2>1, <2>2
<1>5. CASE AuthenticationNotSupported(d)
  <2>1. PICK n : n = Ask(r, "GATT_PRI_SVC", "mtu", 0, 0, 0)
    OBVIOUS
  <2>2. Take(d, {"W4SECU"}, {"authUnsupported"}, n) /\ UNCHANGED link
    BY <1>5, <2>1 DEF AuthenticationNotSupported
  <2> QED
    BY <1>2, <1>3, <2>1, <2>2
<1>6. CASE AuthenticationFailed(d)
  <2>1. CASE Take(d, {"W4SECU"}, {"authNoKey", "authError"}, r) /\ Disconnect(d)
    BY <1>2, <1>3, <2>1
  <2>2. CASE Take(d, {"W4SECU"}, {"authError"}, [r EXCEPT !.mState = "aborted"])
             /\ UNCHANGED link
    <3>1. PICK n : n = [r EXCEPT !.mState = "aborted"]
      OBVIOUS
    <3>2. Take(d, {"W4SECU"}, {"authError"}, n)
      BY <2>2, <3>1
    <3> QED
      BY <1>2, <1>3, <2>2, <3>1, <3>2
  <2> QED
    BY <1>6, <2>1, <2>2 DEF AuthenticationFailed
<1>7. CASE Bonded(d)
  <2>1. PICK n : n = Ask(r, "GATT_PRI_SVC", "mtu", 0, 0, 0)
    OBVIOUS
  <2>2. Take(d, {"W4SECU"}, {"bondOk"}, n) /\ UNCHANGED link
    BY <1>7, <2>1 DEF Bonded
  <2> QED
    BY <1>2, <1>3, <2>1, <2>2
<1>8. CASE BondKeyMissing(d)
  <2>1. PICK n : n = [r EXCEPT !.mNeedSaveService = TRUE]
    OBVIOUS
  <2>2. Take(d, {"W4SECU"}, {"bondKeyMissing"}, n) /\ Disconnect(d)
    BY <1>8, <2>1 DEF BondKeyMissing
  <2> QED
    BY <1>2, <1>3, <2>1, <2>2
<1> QED
  BY <1>1, <1>4, <1>5, <1>6, <1>7, <1>8

\* A step that has nothing to do with long values.
Quiet(n, m) ==
    n.request.op # "long" /\ (Tail(m) # <<>> => Tail(m)[Len(Tail(m))] # "blobDone")

\* A long value is read only in the state of the values.
LEMMA OnlyAtValue ==
  ASSUME NEW L, NEW n \in Remotes, NEW t, Stands(L, n, t),
         n.mState \notin {"GATT_READ_CHARC_VALUE", "aborted"}
  PROVE  n.request.op # "long"
<1>1. n.mState \in States
  BY RemoteFields
<1>2. None.op = "none" /\ \A op, s, c, k : Request(op, s, c, k).op = op
  BY RequestIs DEF None
<1>3. \A K, p : Request(ToConfigure(K, p), p[1], p[2], p[3]).op \in {"read", "write"}
  BY RequestIs DEF ToConfigure
<1>4. CASE n.mState = "IDLE"
  BY <1>2, <1>4 DEF Stands, AtConnection
<1>5. CASE n.mState = "W4SECU"
  BY <1>2, <1>5 DEF Stands, AtSecurity
<1>6. CASE n.mState = "GATT_PRI_SVC"
  BY <1>2, <1>6 DEF Stands, AtPrimary
<1>7. CASE n.mState = "GATT_INC_SVC"
  BY <1>2, <1>7 DEF Stands, AtIncluded
<1>8. CASE n.mState = "GATT_DIS_CHARC"
  <2>1. \/ n.request = None \/ n.request = Request("included", n.svc, 0, 0)
        \/ n.request = Request("characteristics", n.svc, 0, 0)
    BY <1>8, Zenon DEF Stands, AtCharacteristics, Stuck
  <2> QED
    BY <1>2, <2>1
<1>9. CASE n.mState = "GATT_READ_CHARC_DESCRIPTOR_VALUE"
  BY <1>2, <1>3, <1>9 DEF Stands, AtDescriptors
<1>10. CASE n.mState = "CONNECTED"
  BY <1>2, <1>10 DEF Stands
<1> QED
  BY <1>1, <1>4, <1>5, <1>6, <1>7, <1>8, <1>9, <1>10 DEF States

\* The states in which messages are taken, in the form Take needs them, ...
LEMMA WalkStates ==
  /\ {"GATT_PRI_SVC"} \in SUBSET States /\ {"GATT_INC_SVC"} \in SUBSET States
  /\ {"GATT_DIS_CHARC"} \in SUBSET States /\ {"GATT_READ_CHARC_VALUE"} \in SUBSET States
  /\ {"GATT_READ_CHARC_DESCRIPTOR_VALUE"} \in SUBSET States
  /\ {"W4SECU"} \in SUBSET States
  /\ {"GATT_PRI_SVC", "GATT_INC_SVC", "GATT_DIS_CHARC",
      "GATT_READ_CHARC_DESCRIPTOR_VALUE"} \in SUBSET States
BY DEF States

\* ... and the messages.
LEMMA WalkMessages ==
  /\ {"mtu"} \in SUBSET Messages /\ {"group"} \in SUBSET Messages
  /\ {"groupDone"} \in SUBSET Messages /\ {"notFound", "typeDone"} \in SUBSET Messages
  /\ {"type"} \in SUBSET Messages /\ {"typeDone"} \in SUBSET Messages
  /\ {"notFound"} \in SUBSET Messages /\ {"read", "error", "notFound"} \in SUBSET Messages
  /\ {"readLong"} \in SUBSET Messages /\ {"blob"} \in SUBSET Messages
  /\ {"blobDone"} \in SUBSET Messages /\ {"info"} \in SUBSET Messages
  /\ {"infoDone"} \in SUBSET Messages /\ {"read", "write"} \in SUBSET Messages
  /\ {"error"} \in SUBSET Messages /\ {"bondError"} \in SUBSET Messages
BY DEF Messages

\* A message is taken in any case.
LEMMA TakeMore ==
  ASSUME NEW d, NEW states \in SUBSET States, NEW messages \in SUBSET Messages, NEW n,
         Take(d, states, messages, n)
  PROVE  Take(d, States, Messages, n)
BY DEF Take

\* Those of the MTU exchange and the services, ...
LEMMA ServiceSteps ==
  ASSUME Base, NEW d \in Devices,
         MTUExchanged(d) \/ ServiceFound(d) \/ ServicesComplete(d) \/ IncludedComplete(d)
  PROVE  \E n : Taken(d, n) /\ Quiet(n, mMessage[d]) /\ UNCHANGED link
<1> DEFINE r == rd[d]
           m == mMessage[d]
           L == layout[d]
<1>1. CASE MTUExchanged(d)
  <2>0. PICK n :
           /\ Take(d, {"GATT_PRI_SVC"}, {"mtu"}, n)
           /\ n = IF LoadsService(database[d])
                    THEN [StartConfiguration([r EXCEPT !.mService = LoadService(database[d])])
                             EXCEPT !.mNeedSaveService = FALSE]
                    ELSE Ask(r, "GATT_PRI_SVC", "primary", 0, 0, 0)
    BY <1>1 DEF MTUExchanged
  <2>1. /\ layout \in Layouts /\ d \in DOMAIN layout /\ L \in Armbands /\ r \in Remotes
        /\ m \in Seq(Messages) /\ m # <<>> /\ Stands(L, r, m)
        /\ r.mState = "GATT_PRI_SVC" /\ Head(m) = "mtu"
    BY <2>0, TakeFinds
  <2>2. WellFormed(d, database[d])
    BY DEF Base, FileInv
  <2>3. LoadsService(database[d]) => LoadService(database[d]) = Known(L)
    BY <2>1, <2>2, ComesBack
  <2>4. CASE LoadsService(database[d])
    <3>0. PICK a : a = [r EXCEPT !.mService = Known(L)]
      OBVIOUS
    <3>1. n = [StartConfiguration(a) EXCEPT !.mNeedSaveService = FALSE]
      BY <2>0, <2>3, <2>4, <3>0
    <3>5. r.svc = 1 /\ r.request = None /\ Tail(m) = <<>>
      BY <2>1, MTUTaken
    <3>2. Lands(L, n, Tail(m)) /\ Tail(m) = <<>>
          /\ n.mState = "GATT_READ_CHARC_DESCRIPTOR_VALUE"
      <4>1. Lands(L, n, <<>>) /\ Starts(a, n)
        <5> HIDE DEF L, r
        <5> QED
          BY <2>1, <3>0, <3>1, <3>5, LoadedTaken
      <4>2. n.mState = "GATT_READ_CHARC_DESCRIPTOR_VALUE"
        BY <4>1 DEF Starts
      <4> QED
        BY <3>5, <4>1, <4>2
    <3>3. n.request.op # "long"
      BY <3>2, OnlyAtValue DEF Lands
    <3>4. Take(d, States, Messages, n)
      BY <2>0, TakeMore, WalkStates, WalkMessages
    <3> QED
      BY <1>1, <3>2, <3>3, <3>4 DEF Taken, Quiet, MTUExchanged
  <2>5. CASE ~LoadsService(database[d])
    <3>1. n = Ask(r, "GATT_PRI_SVC", "primary", 0, 0, 0)
      BY <2>0, <2>5
    <3>2. Lands(L, n, Tail(m)) /\ Tail(m) = <<>>
      BY <2>1, <3>1, MTUTaken
    <3>3. n.request.op # "long"
      <4>1. Request("primary", 0, 0, 0) \in Requests
        BY FirstRequests
      <4>2. n.request = Request("primary", 0, 0, 0)
        BY <2>1, <3>1, <4>1, FirstStates, AskFields
      <4> QED
        BY <4>2, RequestIs
    <3>4. Take(d, States, Messages, n)
      BY <2>0, TakeMore, WalkStates, WalkMessages
    <3> QED
      BY <1>1, <3>2, <3>3, <3>4 DEF Taken, Quiet, MTUExchanged
  <2> QED
    BY <2>4, <2>5
<1>2. CASE ServiceFound(d)
  <2>0. PICK n : /\ Take(d, {"GATT_PRI_SVC"}, {"group"}, n)
                 /\ n = [r EXCEPT !.mService = Append(@, <<>>)]
    BY <1>2 DEF ServiceFound
  <2>1. /\ L \in Armbands /\ r \in Remotes
        /\ m \in Seq(Messages) /\ m # <<>> /\ Stands(L, r, m)
        /\ r.mState = "GATT_PRI_SVC" /\ Head(m) = "group"
    BY <2>0, TakeFinds
  <2>2. Lands(L, n, Tail(m)) /\ Tail(m)[Len(Tail(m))] = m[Len(m)]
    BY <2>0, <2>1, ServiceTaken
  <2>3. m[Len(m)] = "groupDone"
    <3>1. PICK x : x = Len(L) - Len(r.mService)
      OBVIOUS
    <3>2. Rest(m, "group", "groupDone", x)
      BY <2>1, <3>1, PrimaryTaken
    <3> QED
      BY <2>1, <3>2, RestTaken
  <2>4. n.mState = "GATT_PRI_SVC"
    BY <2>0, <2>1 DEF Remotes
  <2>5. n.request.op # "long"
    BY <2>2, <2>4, OnlyAtValue DEF Lands
  <2>6. Take(d, States, Messages, n)
    BY <2>0, TakeMore, WalkStates, WalkMessages
  <2> QED
    BY <1>2, <2>2, <2>3, <2>5, <2>6 DEF Taken, Quiet, ServiceFound
<1>3. CASE ServicesComplete(d)
  <2>0. PICK n : /\ Take(d, {"GATT_PRI_SVC"}, {"groupDone"}, n)
                 /\ n = Ask(r, "GATT_INC_SVC", "included", r.svc, 0, 0)
    BY <1>3 DEF ServicesComplete
  <2>1. /\ L \in Armbands /\ r \in Remotes
        /\ m \in Seq(Messages) /\ m # <<>> /\ Stands(L, r, m)
        /\ r.mState = "GATT_PRI_SVC" /\ Head(m) = "groupDone"
    BY <2>0, TakeFinds
  <2>2. Lands(L, n, Tail(m)) /\ Tail(m) = <<>>
    BY <2>0, <2>1, ServicesTaken
  <2>3. n.mState = "GATT_INC_SVC"
    <3>1. r.svc \in Nat
      BY <2>1, RemoteFields
    <3>2. Request("included", r.svc, 0, 0) \in Requests
      BY <3>1, RequestIs DEF Ops
    <3> QED
      BY <2>0, <2>1, <3>2, FirstStates, AskFields
  <2>4. n.request.op # "long"
    BY <2>2, <2>3, OnlyAtValue DEF Lands
  <2>5. Take(d, States, Messages, n)
    BY <2>0, TakeMore, WalkStates, WalkMessages
  <2> QED
    BY <1>3, <2>2, <2>4, <2>5 DEF Taken, Quiet, ServicesComplete
<1>4. CASE IncludedComplete(d)
  <2>0. PICK n : /\ Take(d, {"GATT_INC_SVC"}, {"notFound", "typeDone"}, n)
                 /\ n = StartDiscoveryCharacteristic(r)
    BY <1>4 DEF IncludedComplete
  <2>1. /\ L \in Armbands /\ r \in Remotes
        /\ m \in Seq(Messages) /\ m # <<>> /\ Stands(L, r, m)
        /\ r.mState = "GATT_INC_SVC"
    BY <2>0, TakeFinds
  <2>2. Lands(L, n, Tail(m)) /\ Tail(m) = <<>> /\ n.mState = "GATT_DIS_CHARC"
    BY <2>0, <2>1, IncludedTaken
  <2>3. n.request.op # "long"
    BY <2>2, OnlyAtValue DEF Lands
  <2>4. Take(d, States, Messages, n)
    BY <2>0, TakeMore, WalkStates, WalkMessages
  <2> QED
    BY <1>4, <2>2, <2>3, <2>4 DEF Taken, Quiet, IncludedComplete
<1> QED
  BY <1>1, <1>2, <1>3, <1>4

\* ... of the characteristics of a service, ...
LEMMA MoveIsQuiet ==
  ASSUME NEW L, NEW r, NEW from, NEW n, NEW t, MovesOn(L, r, from, n), Lands(L, n, t)
  PROVE  n.request.op # "long"
<1>1. n \in Remotes /\ Stands(L, n, t)
  BY DEF Lands
<1>2. CASE ToCharacteristic(L, r, from, n)
  BY <1>2, RequestIs DEF ToCharacteristic
<1>3. CASE ToService(L, r, n)
  <2>1. n.mState \in {"GATT_INC_SVC", "GATT_READ_CHARC_DESCRIPTOR_VALUE"}
    BY <1>3 DEF ToService, Starts
  <2> QED
    BY <1>1, <2>1, OnlyAtValue
<1> QED
  BY <1>2, <1>3 DEF MovesOn

\* The move to the first characteristic of a service lands in a state of the walk.
LEMMA FirstMoveLands ==
  ASSUME NEW L \in Armbands, NEW r \in Remotes, StandsAt(L, r), r.request = None,
         r.svc \in 1..Len(L), Len(r.mService[r.svc]) = Len(L[r.svc].chars),
         \A c \in 1..Len(L[r.svc].chars) : r.mService[r.svc][c] = <<>>,
         NEW n, Keeps(r, n), MovesOn(L, r, 1, n)
  PROVE  Lands(L, n, <<>>)
<1>1. PICK from \in Nat : from = 1
  OBVIOUS
<1>2. PICK x : x = Len(L[r.svc].chars)
  OBVIOUS
<1>3. x \in Nat
  BY <1>2, Shape
<1>4. 1 <= x + 1 /\ \A c \in 1..from - 1 : FALSE
  BY <1>1, <1>3
<1>5. from <= x + 1 /\ \A c \in from..x : r.mService[r.svc][c] = <<>>
  BY <1>1, <1>2, <1>4
<1>6. /\ from >= 1 /\ from <= Len(L[r.svc].chars) + 1
      /\ \A c \in 1..from - 1 : r.mService[r.svc][c] = L[r.svc].chars[c].descs
      /\ \A c \in from..Len(L[r.svc].chars) : r.mService[r.svc][c] = <<>>
      /\ MovesOn(L, r, from, n)
  BY <1>1, <1>2, <1>4, <1>5
<1> QED
  BY <1>6, MoveLands

\* Each step while characteristics are discovered takes a message and lands, ...
LEMMA CharacteristicSteps ==
  ASSUME Base, NEW d \in Devices,
         CharacteristicFound(d) \/ CharacteristicsComplete(d) \/ NoCharacteristicFound(d)
  PROVE  \E n : Taken(d, n) /\ Quiet(n, mMessage[d]) /\ UNCHANGED link
<1> DEFINE r == rd[d]
           m == mMessage[d]
           L == layout[d]
<1>1. CASE CharacteristicFound(d)
  <2>0. PICK n : /\ Take(d, {"GATT_DIS_CHARC"}, {"type"}, n)
                 /\ n = [r EXCEPT !.mService[r.svc] = Append(@, <<>>)]
    BY <1>1 DEF CharacteristicFound
  <2>1. /\ L \in Armbands /\ r \in Remotes
        /\ m \in Seq(Messages) /\ m # <<>> /\ Stands(L, r, m)
        /\ r.mState = "GATT_DIS_CHARC" /\ Head(m) = "type"
    BY <2>0, TakeFinds
  <2>2. Lands(L, n, Tail(m)) /\ n.mState = "GATT_DIS_CHARC"
        /\ (Tail(m) # <<>> => Tail(m)[Len(Tail(m))] = "typeDone")
    BY <2>0, <2>1, CharacteristicTaken
  <2>3. n.request.op # "long"
    BY <2>2, OnlyAtValue DEF Lands
  <2>4. Take(d, States, Messages, n)
    BY <2>0, TakeMore, WalkStates, WalkMessages
  <2> QED
    BY <1>1, <2>2, <2>3, <2>4 DEF Taken, Quiet, CharacteristicFound
<1>2. CASE CharacteristicsComplete(d)
  <2>0. PICK n : /\ Take(d, {"GATT_DIS_CHARC"}, {"typeDone"}, n)
                 /\ n = IF r.mService[r.svc] = <<>> THEN r ELSE Visit(d, r, 1)
    BY <1>2 DEF CharacteristicsComplete
  <2>1. /\ layout \in Layouts /\ d \in DOMAIN layout /\ L \in Armbands /\ r \in Remotes
        /\ m \in Seq(Messages) /\ m # <<>> /\ Stands(L, r, m)
        /\ r.mState = "GATT_DIS_CHARC" /\ Head(m) = "typeDone"
    BY <2>0, TakeFinds
  <2>2. Tail(m) = <<>> /\ r.request = None /\ Len(r.mService) = Len(L) /\ r.svc \in 1..Len(L)
    BY <2>1, CharacteristicsTaken
  <2>3. Take(d, States, Messages, n)
    BY <2>0, TakeMore, WalkStates, WalkMessages
  <2>4. CASE r.mService[r.svc] = <<>>
    <3>1. Lands(L, n, Tail(m)) /\ n = r
      BY <2>0, <2>1, <2>4, CharacteristicsTaken
    <3>2. n.request.op # "long"
      BY <2>1, <3>1, OnlyAtValue DEF Lands
    <3> QED
      BY <1>2, <2>2, <2>3, <3>1, <3>2 DEF Taken, Quiet, CharacteristicsComplete
  <2>5. CASE r.mService[r.svc] # <<>>
    <3>1. /\ StandsAt(L, r) /\ Len(r.mService[r.svc]) = Len(L[r.svc].chars)
          /\ \A c \in 1..Len(L[r.svc].chars) : r.mService[r.svc][c] = <<>>
      BY <2>1, <2>5, CharacteristicsTaken
    <3>2. Keeps(r, n) /\ MovesOn(L, r, 1, n)
      BY <2>0, <2>1, <2>2, <2>5, <3>1, VisitDoes
    <3>5. Lands(L, n, <<>>)
      <4> HIDE DEF L, r
      <4> QED
        BY <2>1, <2>2, <3>1, <3>2, FirstMoveLands
    <3>6. n.request.op # "long"
      BY <3>2, <3>5, MoveIsQuiet
    <3> QED
      BY <1>2, <2>2, <2>3, <3>5, <3>6 DEF Taken, Quiet, CharacteristicsComplete
  <2> QED
    BY <2>4, <2>5
<1>3. CASE NoCharacteristicFound(d)
  <2>1. CASE Take(d, {"GATT_DIS_CHARC"}, {"notFound"}, [r EXCEPT !.svc = Len(r.mService)])
    <3>0. PICK n : /\ Take(d, {"GATT_DIS_CHARC"}, {"notFound"}, n)
                   /\ n = [r EXCEPT !.svc = Len(r.mService)]
      BY <2>1
    <3>1. /\ L \in Armbands /\ r \in Remotes
          /\ m \in Seq(Messages) /\ m # <<>> /\ Stands(L, r, m)
          /\ r.mState = "GATT_DIS_CHARC" /\ Head(m) = "notFound"
      BY <3>0, TakeFinds
    <3>2. Lands(L, n, Tail(m)) /\ Tail(m) = <<>>
      BY <3>0, <3>1, NotFoundTaken
    <3>5. n.mState = r.mState
      BY <3>0, <3>1 DEF Remotes
    <3>3. n.request.op # "long"
      BY <3>1, <3>2, <3>5, OnlyAtValue DEF Lands
    <3>4. Take(d, States, Messages, n)
      BY <3>0, TakeMore, WalkStates, WalkMessages
    <3> QED
      BY <1>3, <3>2, <3>3, <3>4 DEF Taken, Quiet, NoCharacteristicFound
  <2>2. CASE /\ NextServices(d, r) # {}
             /\ \E state \in {"GATT_DIS_CHARC", "aborted"} :
                   Take(d, {"GATT_DIS_CHARC"}, {"notFound"},
                        Ask([r EXCEPT !.svc = NextAvailable(d, r)], state,
                            "included", NextAvailable(d, r), 0, 0))
    <3>0. PICK state \in {"GATT_DIS_CHARC", "aborted"} :
                   Take(d, {"GATT_DIS_CHARC"}, {"notFound"},
                        Ask([r EXCEPT !.svc = NextAvailable(d, r)], state,
                            "included", NextAvailable(d, r), 0, 0))
      BY <2>2
    <3>1. PICK s : s = NextAvailable(d, r)
      OBVIOUS
    <3>2. PICK n : n = Ask([r EXCEPT !.svc = s], state, "included", s, 0, 0)
      OBVIOUS
    <3>3. Take(d, {"GATT_DIS_CHARC"}, {"notFound"}, n)
      BY <3>0, <3>1, <3>2
    <3>4. /\ layout \in Layouts /\ d \in DOMAIN layout /\ L \in Armbands /\ r \in Remotes
          /\ m \in Seq(Messages) /\ m # <<>> /\ Stands(L, r, m)
          /\ r.mState = "GATT_DIS_CHARC" /\ Head(m) = "notFound"
      BY <3>3, TakeFinds
    <3>5. Len(r.mService) = Len(L) /\ Tail(m) = <<>>
      BY <3>4, NotFoundTaken
    <3>6. s \in r.svc + 1..Len(L)
      BY <2>2, <3>1, <3>4, <3>5, AvailableIs
    <3>7. Lands(L, n, Tail(m))
      BY <3>2, <3>4, <3>6, NotFoundTaken
    <3>8. n.request.op # "long"
      <4>1. n.request = Request("included", s, 0, 0)
        BY <3>2 DEF Ask, Lands, Remotes, Requests
      <4> QED
        BY <4>1, RequestIs
    <3>9. Take(d, States, Messages, n)
      BY <3>3, TakeMore, WalkStates, WalkMessages
    <3> QED
      BY <1>3, <3>5, <3>7, <3>8, <3>9 DEF Taken, Quiet, NoCharacteristicFound
  <2> QED
    BY <1>3, <2>1, <2>2 DEF NoCharacteristicFound
<1> QED
  BY <1>1, <1>2, <1>3

\* ... of a characteristic, ...
LEMMA FollowsIsQuiet ==
  ASSUME NEW L, NEW r, NEW n, NEW t, Follows(L, r, n), Lands(L, n, t)
  PROVE  n.request.op # "long"
<1>1. CASE RoomIn(L, r.svc, r.chr)
  BY <1>1, RequestIs DEF Follows
<1>2. CASE ~RoomIn(L, r.svc, r.chr)
  BY <1>2, MoveIsQuiet DEF Follows
<1> QED
  BY <1>1, <1>2

\* ... and each while values and descriptors are read.
LEMMA ValueSteps ==
  ASSUME Base, NEW d \in Devices,
         ValueRead(d) \/ LongValueRead(d) \/ DescriptorFound(d) \/ DescriptorsComplete(d)
  PROVE  \E n : Taken(d, n) /\ Quiet(n, mMessage[d]) /\ UNCHANGED link
<1> DEFINE r == rd[d]
           m == mMessage[d]
           L == layout[d]
<1>1. CASE ValueRead(d) \/ LongValueRead(d)
  <2>1. PICK n : n = DiscoveryDescriptor(d, r)
    OBVIOUS
  <2>2. PICK messages \in SUBSET Messages :
           /\ Take(d, {"GATT_READ_CHARC_VALUE"}, messages, n)
           /\ messages \subseteq {"read", "error", "notFound", "blobDone"}
    <3>1. CASE ValueRead(d)
      <4>1. Take(d, {"GATT_READ_CHARC_VALUE"}, {"read", "error", "notFound"}, n)
        BY <2>1, <3>1 DEF ValueRead
      <4>2. PICK messages \in SUBSET Messages : messages = {"read", "error", "notFound"}
        BY WalkMessages
      <4> QED
        BY <4>1, <4>2
    <3>2. CASE LongValueRead(d)
      <4>1. Take(d, {"GATT_READ_CHARC_VALUE"}, {"blobDone"}, n)
        BY <2>1, <3>2 DEF LongValueRead
      <4>2. PICK messages \in SUBSET Messages : messages = {"blobDone"}
        BY WalkMessages
      <4> QED
        BY <4>1, <4>2
    <3> QED
      BY <1>1, <3>1, <3>2
  <2>3. /\ layout \in Layouts /\ d \in DOMAIN layout /\ L \in Armbands /\ r \in Remotes
        /\ m \in Seq(Messages) /\ m # <<>> /\ Stands(L, r, m)
        /\ r.mState = "GATT_READ_CHARC_VALUE"
        /\ Head(m) \in {"read", "error", "notFound", "blobDone"}
    <3>1. Take(d, {"GATT_READ_CHARC_VALUE"}, messages, n)
      BY <2>2
    <3>2. /\ layout \in Layouts /\ d \in DOMAIN layout /\ L \in Armbands /\ r \in Remotes
          /\ m \in Seq(Messages) /\ m # <<>> /\ Stands(L, r, m)
          /\ r.mState = "GATT_READ_CHARC_VALUE" /\ Head(m) \in messages
      BY <3>1, TakeFinds
    <3> QED
      BY <2>2, <3>2
  <2>4. r.request = None /\ StandsIn(L, r)
    BY <2>3, ValuesAre
  <2>5. r.mService[r.svc][r.chr] = <<>> /\ Tail(m) = <<>>
    BY <2>3, AnswerIs, LastPartTaken, ZenonT(60)
  <2>6. Lands(L, n, <<>>) /\ Follows(L, r, n)
    BY <2>1, <2>3, <2>4, <2>5, ValueDone
  <2>7. n.request.op # "long"
    BY <2>6, FollowsIsQuiet
  <2>8. Take(d, States, Messages, n)
    BY <2>2, TakeMore, WalkStates
  <2> QED
    BY <1>1, <2>5, <2>6, <2>7, <2>8 DEF Taken, Quiet, ValueRead, LongValueRead
<1>2. CASE DescriptorFound(d)
  <2>0. PICK n :
           /\ Take(d, {"GATT_READ_CHARC_VALUE"}, {"info"}, n)
           /\ n = [r EXCEPT !.mService[r.svc][r.chr] =
                      Append(r.mService[r.svc][r.chr],
                             L[r.svc].chars[r.chr].descs[Len(r.mService[r.svc][r.chr]) + 1])]
    BY <1>2, Zenon DEF DescriptorFound
  <2>1. /\ L \in Armbands /\ r \in Remotes
        /\ m \in Seq(Messages) /\ m # <<>> /\ Stands(L, r, m)
        /\ r.mState = "GATT_READ_CHARC_VALUE" /\ Head(m) = "info"
    <3>1. Take(d, {"GATT_READ_CHARC_VALUE"}, {"info"}, n)
      BY <2>0, Zenon
    <3> QED
      BY <3>1, TakeFinds
  <2>2. Lands(L, n, Tail(m)) /\ n.request = None /\ Tail(m)[Len(Tail(m))] = "infoDone"
    BY <2>0, <2>1, DescriptorTaken, Zenon
  <2>3. n.request.op # "long"
    BY <2>2, RequestIs DEF None
  <2>4. Take(d, States, Messages, n)
    BY <2>0, TakeMore, WalkStates, WalkMessages, Zenon
  <2> QED
    BY <1>2, <2>2, <2>3, <2>4, Zenon DEF Taken, Quiet, DescriptorFound
<1>3. CASE DescriptorsComplete(d)
  <2>0. PICK n : /\ Take(d, {"GATT_READ_CHARC_VALUE"}, {"infoDone"}, n)
                 /\ n = Visit(d, r, r.chr + 1)
    BY <1>3 DEF DescriptorsComplete
  <2>1. /\ layout \in Layouts /\ d \in DOMAIN layout /\ L \in Armbands /\ r \in Remotes
        /\ m \in Seq(Messages) /\ m # <<>> /\ Stands(L, r, m)
        /\ r.mState = "GATT_READ_CHARC_VALUE" /\ Head(m) = "infoDone"
    BY <2>0, TakeFinds
  <2>2. /\ r.request = None /\ StandsIn(L, r) /\ Tail(m) = <<>>
        /\ r.mService[r.svc][r.chr] = L[r.svc].chars[r.chr].descs
    BY <2>1, DescriptorsTaken
  <2>3. MovesOn(L, r, r.chr + 1, n) /\ Lands(L, n, <<>>)
    BY <2>0, <2>1, <2>2, CharacteristicDone
  <2>4. n.request.op # "long"
    BY <2>3, MoveIsQuiet
  <2>5. Take(d, States, Messages, n)
    BY <2>0, TakeMore, WalkStates, WalkMessages
  <2> QED
    BY <1>3, <2>2, <2>3, <2>4, <2>5 DEF Taken, Quiet, DescriptorsComplete
<1> QED
  BY <1>1, <1>2, <1>3

\* ... and those of the configuration.
LEMMA ConfigurationSteps ==
  ASSUME Base, NEW d \in Devices, Configured(d) \/ Ignored(d)
  PROVE  \E n : Taken(d, n) /\ Quiet(n, mMessage[d]) /\ UNCHANGED link
<1> DEFINE r == rd[d]
           m == mMessage[d]
           L == layout[d]
<1>1. CASE Configured(d)
  <2>0. PICK n : /\ Take(d, {"GATT_READ_CHARC_DESCRIPTOR_VALUE"}, {"read", "write"}, n)
                 /\ n = IF LastPosition(r) THEN [r EXCEPT !.mState = "CONNECTED"]
                        ELSE Configure(r, NextPosition(r))
    BY <1>1 DEF Configured
  <2>1. /\ L \in Armbands /\ r \in Remotes /\ InService(r)
        /\ m \in Seq(Messages) /\ m # <<>> /\ Stands(L, r, m)
        /\ r.mState = "GATT_READ_CHARC_DESCRIPTOR_VALUE"
    BY <2>0, TakeFinds
  <2>2. Tail(m) = <<>>
    BY <2>1, ConfiguredTaken
  <2>3. Lands(L, n, Tail(m)) /\ n.mState \in {"CONNECTED", r.mState}
    <3>1. CASE LastPosition(r)
      BY <2>0, <2>1, <3>1, ConfiguredTaken DEF Remotes
    <3>2. CASE ~LastPosition(r)
      <4>1. /\ Keeps(r, n) /\ n.mState = r.mState /\ n.svc = r.svc
            /\ First(r.mService, NextPosition(r), n)
        BY <2>0, <2>1, <3>2, ConfigureDoes DEF LastPosition
      <4> QED
        BY <2>1, <4>1, ConfiguredTaken
    <3> QED
      BY <3>1, <3>2
  <2>4. n.request.op # "long"
    BY <2>1, <2>3, OnlyAtValue DEF Lands
  <2>5. Take(d, States, Messages, n)
    BY <2>0, TakeMore, WalkStates, WalkMessages
  <2> QED
    BY <1>1, <2>2, <2>3, <2>4, <2>5 DEF Taken, Quiet, Configured
<1>2. CASE Ignored(d)
  <2>1. UNCHANGED link
    BY <1>2 DEF Ignored
  <2>2. CASE Take(d, {"W4SECU"}, {"bondError"}, r)
    <3>1. /\ L \in Armbands /\ r \in Remotes /\ m \in Seq(Messages) /\ m # <<>>
          /\ Stands(L, r, m) /\ r.mState = "W4SECU"
      BY <2>2, TakeFinds
    <3>2. Lands(L, r, Tail(m)) /\ Tail(m) = <<>>
      BY <3>1, SecurityTaken
    <3>3. r.request.op # "long"
      BY <3>1, OnlyAtValue
    <3>4. Take(d, States, Messages, r)
      BY <2>2, TakeMore, WalkStates, WalkMessages
    <3> QED
      BY <2>1, <3>2, <3>3, <3>4 DEF Taken, Quiet
  <2>3. CASE Take(d, {"GATT_PRI_SVC", "GATT_INC_SVC", "GATT_DIS_CHARC",
                      "GATT_READ_CHARC_DESCRIPTOR_VALUE"}, {"error"}, r)
    <3>1. /\ L \in Armbands /\ r \in Remotes /\ InService(r)
          /\ m \in Seq(Messages) /\ m # <<>> /\ Head(m) = "error"
          /\ Stands(L, r, m)
          /\ r.mState \in {"GATT_PRI_SVC", "GATT_INC_SVC", "GATT_DIS_CHARC",
                           "GATT_READ_CHARC_DESCRIPTOR_VALUE"}
      BY <2>3, TakeFinds
    <3>2. Lands(L, r, Tail(m))
      <4>1. CASE r.mState = "GATT_PRI_SVC"
        BY <3>1, <4>1, ErrorAtPrimaryTaken
      <4>2. CASE r.mState = "GATT_INC_SVC"
        BY <3>1, <4>2, IncludedTaken
      <4>3. CASE r.mState = "GATT_DIS_CHARC"
        BY <3>1, <4>3, ErrorAtCharacteristicsTaken
      <4>4. CASE r.mState = "GATT_READ_CHARC_DESCRIPTOR_VALUE"
        BY <3>1, <4>4, ConfiguredTaken
      <4> QED
        BY <3>1, <4>1, <4>2, <4>3, <4>4
    <3>3. r.request.op # "long"
      BY <3>1, OnlyAtValue
    <3>4. Tail(m) # <<>> => Tail(m)[Len(Tail(m))] # "blobDone"
      <4>1. CASE r.mState = "GATT_PRI_SVC"
        <5>1. PICK x : x = Len(L) - Len(r.mService)
          OBVIOUS
        <5>2. ~Rest(m, "group", "groupDone", x)
          BY <3>1, RestTaken
        <5> QED
          BY <3>1, <4>1, <5>1, <5>2, PrimaryTaken
      <4>2. CASE r.mState = "GATT_DIS_CHARC"
        <5>1. PICK x : x = Len(L[r.svc].chars) - Len(r.mService[r.svc])
          OBVIOUS
        <5>2. ~Rest(m, "type", "typeDone", x)
          BY <3>1, RestTaken
        <5> QED
          BY <3>1, <4>2, <5>1, <5>2, CharacteristicsAre
      <4> QED
        BY <3>1, <4>1, <4>2, IncludedTaken, ConfiguredTaken
    <3>5. Take(d, States, Messages, r)
      BY <2>3, TakeMore, WalkStates, WalkMessages
    <3> QED
      BY <2>1, <3>2, <3>3, <3>4, <3>5 DEF Taken, Quiet
  <2> QED
    BY <1>2, <2>2, <2>3 DEF Ignored
<1> QED
  BY <1>1, <1>2

\* The two that begin a long value and take a part of it.
LEMMA LongSteps ==
  ASSUME Base, NEW d \in Devices
  PROVE  /\ LongValueAnnounced(d) => \E n : Taken(d, n) /\ Tail(mMessage[d]) = <<>>
         /\ PartRead(d) => /\ Taken(d, rd[d]) /\ rd[d].request = None
                           /\ mMessage[d][Len(mMessage[d])] = "blobDone"
                           /\ Tail(mMessage[d]) # <<>>
                           /\ Tail(mMessage[d])[Len(Tail(mMessage[d]))] = "blobDone"
         /\ LongValueRead(d) => /\ mMessage[d][Len(mMessage[d])] = "blobDone"
                                /\ Len(mMessage[d]) = 1
<1> DEFINE r == rd[d]
           m == mMessage[d]
           L == layout[d]
<1>1. ASSUME LongValueAnnounced(d) PROVE \E n : Taken(d, n) /\ Tail(m) = <<>>
  <2>0. PICK n : /\ Take(d, {"GATT_READ_CHARC_VALUE"}, {"readLong"}, n)
                 /\ n = Ask(r, "GATT_READ_CHARC_VALUE", "long", r.svc, r.chr, 0)
    BY <1>1 DEF LongValueAnnounced
  <2>1. /\ L \in Armbands /\ r \in Remotes
        /\ m \in Seq(Messages) /\ m # <<>> /\ Stands(L, r, m)
        /\ r.mState = "GATT_READ_CHARC_VALUE" /\ Head(m) = "readLong"
    BY <2>0, TakeFinds
  <2>2. Lands(L, n, Tail(m)) /\ Tail(m) = <<>>
    BY <2>0, <2>1, LongTaken
  <2>3. Take(d, States, Messages, n)
    BY <2>0, TakeMore, WalkStates, WalkMessages
  <2> QED
    BY <2>2, <2>3 DEF Taken
<1>2. ASSUME PartRead(d)
      PROVE  /\ Taken(d, r) /\ r.request = None /\ m[Len(m)] = "blobDone"
             /\ Tail(m) # <<>> /\ Tail(m)[Len(Tail(m))] = "blobDone"
  <2>0. Take(d, {"GATT_READ_CHARC_VALUE"}, {"blob"}, r)
    BY <1>2 DEF PartRead
  <2>1. /\ L \in Armbands /\ r \in Remotes
        /\ m \in Seq(Messages) /\ m # <<>> /\ Stands(L, r, m)
        /\ r.mState = "GATT_READ_CHARC_VALUE" /\ Head(m) = "blob"
    BY <2>0, TakeFinds
  <2>2. Take(d, States, Messages, r)
    BY <2>0, TakeMore, WalkStates, WalkMessages
  <2> QED
    BY <2>1, <2>2, PartTaken DEF Taken
<1>3. ASSUME LongValueRead(d) PROVE m[Len(m)] = "blobDone" /\ Len(m) = 1
  <2>0. PICK n : Take(d, {"GATT_READ_CHARC_VALUE"}, {"blobDone"}, n)
    BY <1>3 DEF LongValueRead
  <2>1. /\ L \in Armbands /\ r \in Remotes
        /\ m \in Seq(Messages) /\ m # <<>> /\ Stands(L, r, m)
        /\ r.mState = "GATT_READ_CHARC_VALUE" /\ Head(m) = "blobDone"
    BY <2>0, TakeFinds
  <2> QED
    BY <2>1, LastPartTaken
<1> QED
  BY <1>1, <1>2, <1>3
-----------------------------------------------------------------------------
(* What the armband answers.                                                *)

\* A list of answers: its length and its last message.
LEMMA ListedIs ==
  ASSUME NEW n \in Nat, NEW item \in Messages, NEW last \in Messages
  PROVE  LET a == Listed(n, item, last)
         IN  /\ a \in Seq(Messages) /\ Rest(a, item, last, n) /\ a # <<>>
             /\ Len(a) = n + 1 /\ a[Len(a)] = last
<1> DEFINE t == [i \in 1..n |-> item]
           a == t \o <<last>>
<1>1. t \in Seq(Messages) /\ Len(t) = n /\ \A i \in 1..n : t[i] = item
  OBVIOUS
<1> HIDE DEF t
<1>2. <<last>> \in Seq(Messages) /\ Len(<<last>>) = 1 /\ <<last>>[1] = last
  OBVIOUS
<1>3. /\ a \in Seq(Messages) /\ Len(a) = n + 1 /\ a[n + 1] = last
      /\ \A i \in 1..n : a[i] = item
  BY <1>1, <1>2
<1>4. a # <<>>
  BY <1>3
<1> QED
  BY <1>3, <1>4 DEF Listed, Times, Rest, t

\* An answer of one message.
LEMMA SingleIs ==
  ASSUME NEW x \in Messages, NEW S, x \in S
  PROVE  /\ <<x>> \in Seq(Messages) /\ One(<<x>>, S) /\ <<x>> # <<>>
         /\ Len(<<x>>) = 1 /\ <<x>>[Len(<<x>>)] = x
BY DEF One

\* The messages of an answer to a request, refused or not.
SecurityAnswers == {"authOk", "authUnsupported", "authNoKey", "authError",
                    "bondOk", "bondKeyMissing", "bondError"}
Fits(L, q, a) ==
    /\ q.op \in {"auth", "bond"} => One(a, SecurityAnswers)
    /\ q.op = "mtu" => One(a, {"mtu", "error"})
    /\ q.op = "primary" =>
          Rest(a, "group", "groupDone", Len(L)) \/ One(a, {"error"})
    /\ q.op = "included" => One(a, {"notFound", "typeDone", "error"})
    /\ q.op = "characteristics" =>
          Rest(a, "type", "typeDone", Len(L[q.svc].chars)) \/ One(a, {"notFound", "error"})
    /\ q.op = "value" => One(a, {"read", "readLong", "error"})
    /\ q.op = "long" => Rest(a, "blob", "blobDone", Blobs) \/ One(a, {"error"})
    /\ q.op = "descriptors" =>
          \/ Rest(a, "info", "infoDone", Len(L[q.svc].chars[q.chr].descs))
          \/ One(a, {"notFound", "error"})
    /\ q.op \in {"read", "write"} => One(a, {"read", "write", "error"})

\* A request is about what the layout has.
Within(L, q) ==
    /\ q.op \in {"characteristics", "value", "long", "descriptors"} => q.svc \in 1..Len(L)
    /\ q.op \in {"value", "long", "descriptors"} => q.chr \in 1..Len(L[q.svc].chars)

\* A request of the walk is about something the armband has.
LEMMA RequestWithin ==
  ASSUME NEW L \in Armbands, NEW r \in Remotes, NEW m, Stands(L, r, m), r.mState # "aborted"
  PROVE  Within(L, r.request)
<1> DEFINE q == r.request
<1>1. None.op = "none" /\ \A op, s, c, k : /\ Request(op, s, c, k).op = op
                                          /\ Request(op, s, c, k).svc = s
                                          /\ Request(op, s, c, k).chr = c
  BY RequestIs DEF None
<1>2. \A K, p : Request(ToConfigure(K, p), p[1], p[2], p[3]).op \in {"read", "write"}
  BY RequestIs DEF ToConfigure
<1>3. r.mState \in States /\ DOMAIN L = 1..Len(L)
  BY RemoteFields, Shape
<1>4. CASE r.mState = "GATT_READ_CHARC_VALUE"
  <2>1. StandsIn(L, r) /\ AtValue(L, r, m)
    BY <1>4, Zenon DEF Stands, AtValue
  <2>2. r.svc \in 1..Len(L) /\ r.chr \in 1..Len(L[r.svc].chars)
    BY <2>1, WithinCharacteristic
  <2>3. q = None \/ \E op : q = Request(op, r.svc, r.chr, 0)
    BY <2>1 DEF AtValue
  <2> QED
    BY <1>1, <2>2, <2>3 DEF Within
<1>5. CASE r.mState = "GATT_DIS_CHARC"
  <2>1. r.svc \in 1..Len(L)
    BY <1>3, <1>5 DEF Stands, AtCharacteristics, Stuck, StandsAt
  <2>2. \/ q = None \/ q = Request("included", r.svc, 0, 0)
        \/ q = Request("characteristics", r.svc, 0, 0)
    BY <1>5, Zenon DEF Stands, AtCharacteristics, Stuck
  <2> QED
    BY <1>1, <2>1, <2>2 DEF Within
<1>6. CASE r.mState \notin {"GATT_READ_CHARC_VALUE", "GATT_DIS_CHARC"}
  <2>1. q.op \notin {"characteristics", "value", "long", "descriptors"}
    <3>1. CASE r.mState = "IDLE"
      BY <1>1, <3>1 DEF Stands, AtConnection
    <3>2. CASE r.mState = "W4SECU"
      BY <1>1, <3>2 DEF Stands, AtSecurity
    <3>3. CASE r.mState = "GATT_PRI_SVC"
      BY <1>1, <3>3 DEF Stands, AtPrimary
    <3>4. CASE r.mState = "GATT_INC_SVC"
      BY <1>1, <3>4 DEF Stands, AtIncluded
    <3>5. CASE r.mState = "GATT_READ_CHARC_DESCRIPTOR_VALUE"
      BY <1>1, <1>2, <3>5 DEF Stands, AtDescriptors
    <3>6. CASE r.mState = "CONNECTED"
      BY <1>1, <3>6 DEF Stands
    <3> QED
      BY <1>3, <1>6, <3>1, <3>2, <3>3, <3>4, <3>5, <3>6 DEF States
  <2> QED
    BY <2>1 DEF Within
<1> QED
  BY <1>4, <1>5, <1>6

\* What the armband answers, in whatever way, fits the request.
LEMMA AnswersFit ==
  ASSUME NEW d, NEW q \in Requests, rd[d].request = q, layout[d] \in Armbands,
         Within(layout[d], q), NEW a \in Answers(d) \cup Refusals(d)
  PROVE  /\ q.op # "none" /\ a \in Seq(Messages) /\ a # <<>> /\ Fits(layout[d], q, a)
         /\ a[Len(a)] = "blobDone" => q.op = "long" /\ Len(a) = Blobs + 1
<1> DEFINE L == layout[d]
           Good(b) == /\ b \in Seq(Messages) /\ b # <<>> /\ Fits(L, q, b)
                      /\ b[Len(b)] = "blobDone" => q.op = "long" /\ Len(b) = Blobs + 1
<1>0. q.op \in Ops /\ Len(L) \in Nat
  BY Shape DEF Requests, Ops
<1>1. CASE q.op = "none"
  BY <1>1 DEF Answers, Refusals
<1>2. CASE q.op \in {"auth", "bond"}
  <2>1. PICK x \in SecurityAnswers : a = <<x>>
    BY <1>2 DEF Answers, Refusals, SecurityAnswers
  <2>2. x \in Messages /\ x # "blobDone"
    BY <2>1 DEF SecurityAnswers, Messages
  <2> QED
    BY <1>2, <2>1, <2>2, SingleIs DEF Fits
<1>3. CASE q.op = "mtu"
  <2>1. PICK x \in {"mtu", "error"} : a = <<x>>
    BY <1>3 DEF Answers, Refusals
  <2>2. x \in Messages /\ x # "blobDone"
    BY <2>1 DEF Messages
  <2> QED
    BY <1>3, <2>1, <2>2, SingleIs DEF Fits
<1>4. CASE q.op = "included"
  <2>1. PICK x \in {"notFound", "typeDone", "error"} : a = <<x>>
    BY <1>4 DEF Answers, Refusals
  <2>2. x \in Messages /\ x # "blobDone"
    BY <2>1 DEF Messages
  <2> QED
    BY <1>4, <2>1, <2>2, SingleIs DEF Fits
<1>5. CASE q.op \in {"read", "write"}
  <2>1. PICK x \in {"read", "write", "error"} : a = <<x>>
    BY <1>5 DEF Answers, Refusals
  <2>2. x \in Messages /\ x # "blobDone"
    BY <2>1 DEF Messages
  <2> QED
    BY <1>5, <2>1, <2>2, SingleIs DEF Fits
<1>6. CASE q.op = "value"
  <2>1. PICK x \in {"read", "readLong", "error"} : a = <<x>>
    BY <1>6 DEF Answers, Refusals
  <2>2. x \in Messages /\ x # "blobDone"
    BY <2>1 DEF Messages
  <2> QED
    BY <1>6, <2>1, <2>2, SingleIs DEF Fits
<1>7. CASE q.op = "primary"
  <2>1. a = Listed(Len(L), "group", "groupDone") \/ a = <<"error">>
    BY <1>7 DEF Answers, Refusals
  <2>2. "group" \in Messages /\ "groupDone" \in Messages /\ "error" \in Messages
    BY DEF Messages
  <2>3. CASE a = Listed(Len(L), "group", "groupDone")
    <3>1. /\ a \in Seq(Messages) /\ a # <<>> /\ Rest(a, "group", "groupDone", Len(L))
          /\ a[Len(a)] = "groupDone"
      BY <1>0, <2>2, <2>3, ListedIs, ZenonT(60)
    <3> QED
      BY <1>7, <3>1 DEF Fits
  <2>4. CASE a = <<"error">>
    BY <1>7, <2>2, <2>4, SingleIs DEF Fits
  <2> QED
    BY <2>1, <2>3, <2>4
<1>8. CASE q.op = "long"
  <2>1. a = Listed(Blobs, "blob", "blobDone") \/ a = <<"error">>
    BY <1>8 DEF Answers, Refusals
  <2>2. "blob" \in Messages /\ "blobDone" \in Messages /\ "error" \in Messages
    BY DEF Messages
  <2>3. Blobs \in Nat
    BY DEF Blobs
  <2>4. CASE a = Listed(Blobs, "blob", "blobDone")
    <3>1. PICK b : b = Blobs
      OBVIOUS
    <3>2. /\ a \in Seq(Messages) /\ a # <<>> /\ Rest(a, "blob", "blobDone", b)
          /\ Len(a) = b + 1
      BY <2>2, <2>3, <2>4, <3>1, ListedIs
    <3> QED
      BY <1>8, <3>1, <3>2 DEF Fits
  <2>5. CASE a = <<"error">>
    BY <1>8, <2>2, <2>5, SingleIs DEF Fits
  <2> QED
    BY <2>1, <2>4, <2>5
<1>9. CASE q.op = "characteristics"
  <2>1. PICK n : n = Len(L[q.svc].chars)
    OBVIOUS
  <2>2. n \in Nat /\ (L[q.svc].chars = <<>> <=> n = 0)
    BY <1>9, <2>1, Shape, EmptySeq DEF Within
  <2>3. a = Listed(n, "type", "typeDone") \/ a = <<"notFound">> \/ a = <<"error">>
        \/ (n = 0 /\ a = <<"typeDone">>)
    BY <1>9, <2>1, <2>2 DEF Answers, Refusals
  <2>4. "type" \in Messages /\ "typeDone" \in Messages /\ "notFound" \in Messages
        /\ "error" \in Messages
    BY DEF Messages
  <2>5. CASE a = Listed(n, "type", "typeDone")
    <3>1. /\ a \in Seq(Messages) /\ a # <<>> /\ Rest(a, "type", "typeDone", n)
          /\ a[Len(a)] = "typeDone"
      BY <2>2, <2>4, <2>5, ListedIs, ZenonT(60)
    <3> QED
      BY <1>9, <2>1, <3>1 DEF Fits
  <2>6. CASE a = <<"notFound">> \/ a = <<"error">>
    BY <1>9, <2>4, <2>6, SingleIs DEF Fits
  <2>7. CASE n = 0 /\ a = <<"typeDone">>
    <3>1. Rest(a, "type", "typeDone", n)
      BY <2>7 DEF Rest
    <3>2. a \in Seq(Messages) /\ a # <<>> /\ a[Len(a)] = "typeDone"
      BY <2>4, <2>7, SingleIs
    <3> QED
      BY <1>9, <2>1, <3>1, <3>2 DEF Fits
  <2> QED
    BY <1>9, <2>3, <2>5, <2>6, <2>7
<1>10. CASE q.op = "descriptors"
  <2>1. PICK n : n = Len(L[q.svc].chars[q.chr].descs)
    OBVIOUS
  <2>2. n \in Nat
    <3>1. PICK s \in 1..Len(L) : s = q.svc
      BY <1>10 DEF Within
    <3>2. PICK c \in 1..Len(L[s].chars) : c = q.chr
      BY <1>10, <3>1 DEF Within
    <3>3. L[s].chars[c].descs \in Seq(Kinds)
      BY Shape
    <3>4. PICK t \in Seq(Kinds) : t = L[s].chars[c].descs
      BY <3>3
    <3>5. Len(t) \in Nat
      BY LenProperties
    <3> QED
      BY <2>1, <3>1, <3>2, <3>4, <3>5
  <2>3. a = Listed(n, "info", "infoDone") \/ a = <<"notFound">> \/ a = <<"error">>
    BY <1>10, <2>1 DEF Answers, Refusals
  <2>4. "info" \in Messages /\ "infoDone" \in Messages /\ "notFound" \in Messages
        /\ "error" \in Messages
    BY DEF Messages
  <2>5. CASE a = Listed(n, "info", "infoDone")
    <3>1. /\ a \in Seq(Messages) /\ a # <<>> /\ Rest(a, "info", "infoDone", n)
          /\ a[Len(a)] = "infoDone"
      BY <2>2, <2>4, <2>5, ListedIs
    <3> QED
      BY <1>10, <2>1, <3>1 DEF Fits
  <2>6. CASE a = <<"notFound">> \/ a = <<"error">>
    BY <1>10, <2>4, <2>6, SingleIs DEF Fits
  <2> QED
    BY <1>10, <2>3, <2>5, <2>6
<1> QED
  BY <1>0, <1>1, <1>2, <1>3, <1>4, <1>5, <1>6, <1>7, <1>8, <1>9, <1>10 DEF Ops

\* The state waits for the answer to its request.
LEMMA ReplyLands ==
  ASSUME NEW L \in Armbands, NEW r \in Remotes, Stands(L, r, <<>>), InService(r),
         NEW a, r.request.op # "none", Fits(L, r.request, a)
  PROVE  Lands(L, [r EXCEPT !.request = None], a)
<1> DEFINE n == [r EXCEPT !.request = None]
           q == r.request
<1>1. None \in Requests /\ None.op = "none"
  BY RequestIs DEF None, Ops
<1>2. /\ n \in Remotes /\ n.mService = r.mService /\ n.svc = r.svc /\ n.chr = r.chr
      /\ n.at = r.at /\ n.mState = r.mState /\ n.mNeedSaveService = r.mNeedSaveService
      /\ n.request = None
  BY <1>1 DEF Remotes
<1> HIDE DEF n
<1>3. q # None /\ r.mState \in States
  BY <1>1, RemoteFields
<1>4. \A op, s, c, k : Request(op, s, c, k).op = op /\ Request(op, s, c, k).svc = s
                       /\ Request(op, s, c, k).chr = c
  BY RequestIs
<1>5. ASSUME r.mState = "W4SECU" PROVE AtSecurity(n, a)
  BY <1>2, <1>3, <1>4, <1>5 DEF Stands, AtSecurity, Fits, SecurityAnswers
<1>6. ASSUME r.mState = "GATT_PRI_SVC" PROVE AtPrimary(L, n, a)
  <2>1. /\ r.svc = 1 /\ r.mNeedSaveService /\ r.mService = <<>>
        /\ q \in {Request("mtu", 0, 0, 0), Request("primary", 0, 0, 0)}
    BY <1>3, <1>6 DEF Stands, AtPrimary
  <2>2. CASE One(a, {"mtu", "error"})
    BY <1>2, <2>1, <2>2 DEF AtPrimary
  <2>3. CASE Rest(a, "group", "groupDone", Len(L))
    <3>1. Len(L) - Len(n.mService) = Len(L)
      BY <1>2, <2>1, Shape
    <3> QED
      BY <1>2, <2>1, <2>3, <3>1 DEF AtPrimary
  <2> QED
    BY <1>4, <2>1, <2>2, <2>3 DEF Fits, One
<1>7. ASSUME r.mState = "GATT_INC_SVC" PROVE AtIncluded(L, n, a)
  <2>1. StandsAt(L, r) /\ r.mService[r.svc] = <<>> /\ q = Request("included", r.svc, 0, 0)
    BY <1>3, <1>7 DEF Stands, AtIncluded
  <2> QED
    BY <1>2, <1>4, <2>1 DEF Fits, AtIncluded, StandsAt
<1>8. ASSUME r.mState = "GATT_DIS_CHARC" PROVE AtCharacteristics(L, n, a) \/ Stuck(L, n, a)
  <2>1. CASE AtCharacteristics(L, r, <<>>)
    <3>1. StandsAt(L, r) /\ r.mService[r.svc] = <<>>
          /\ q = Request("characteristics", r.svc, 0, 0)
      BY <1>3, <2>1 DEF AtCharacteristics
    <3>2. StandsAt(L, n) /\ \A c \in DOMAIN n.mService[n.svc] : n.mService[n.svc][c] = <<>>
      BY <1>2, <3>1 DEF StandsAt
    <3>3. CASE One(a, {"notFound", "error"})
      BY <1>2, <3>1, <3>2, <3>3 DEF AtCharacteristics
    <3>4. CASE Rest(a, "type", "typeDone", Len(L[r.svc].chars))
      <4>1. Len(L[r.svc].chars) \in Nat
        BY <3>1, Shape DEF StandsAt
      <4>2. Len(L[n.svc].chars) - Len(n.mService[n.svc]) = Len(L[r.svc].chars)
        BY <1>2, <3>1, <4>1
      <4> QED
        BY <1>2, <3>2, <3>4, <4>2 DEF AtCharacteristics
    <3> QED
      BY <1>4, <3>1, <3>3, <3>4 DEF Fits
  <2>2. CASE Stuck(L, r, <<>>)
    <3>1. q = Request("included", r.svc, 0, 0)
      BY <1>3, <2>2 DEF Stuck
    <3> QED
      BY <1>2, <1>4, <2>2, <3>1 DEF Fits, Stuck
  <2> QED
    BY <1>8, <2>1, <2>2 DEF Stands
<1>9. ASSUME r.mState = "GATT_READ_CHARC_VALUE" PROVE AtValue(L, n, a)
  <2>1. /\ StandsIn(L, r) /\ r.mService[r.svc][r.chr] = <<>>
        /\ \E op \in {"value", "long", "descriptors"} : q = Request(op, r.svc, r.chr, 0)
    BY <1>3, <1>9 DEF Stands, AtValue
  <2>2. StandsIn(L, n) /\ n.mService[n.svc][n.chr] = <<>>
    BY <1>2, <2>1 DEF StandsIn, StandsAt
  <2>3. CASE One(a, {"read", "readLong", "error"}) \/ One(a, {"error"})
             \/ One(a, {"notFound", "error"})
    BY <1>2, <2>2, <2>3 DEF AtValue, One
  <2>4. CASE Rest(a, "blob", "blobDone", Blobs)
    <3>1. Blobs \in 0..Blobs
      BY DEF Blobs
    <3> QED
      BY <1>2, <2>2, <2>4, <3>1 DEF AtValue
  <2>5. CASE Rest(a, "info", "infoDone", Len(L[r.svc].chars[r.chr].descs))
    <3>1. Len(L[r.svc].chars[r.chr].descs) \in Nat
      <4>1. PICK t \in Seq(Kinds) : t = L[r.svc].chars[r.chr].descs
        BY <2>1, WithinCharacteristic
      <4>2. Len(t) \in Nat
        BY LenProperties
      <4> QED
        BY <4>1, <4>2
    <3>2. Len(L[n.svc].chars[n.chr].descs) - Len(n.mService[n.svc][n.chr])
             = Len(L[r.svc].chars[r.chr].descs)
      BY <1>2, <2>2, <3>1
    <3>3. \A k \in DOMAIN n.mService[n.svc][n.chr] :
             n.mService[n.svc][n.chr][k] = L[n.svc].chars[n.chr].descs[k]
      BY <2>2
    <3> QED
      BY <1>2, <2>2, <2>5, <3>2, <3>3 DEF AtValue
  <2> QED
    BY <1>4, <2>1, <2>3, <2>4, <2>5, SMTT(30) DEF Fits
<1>10. ASSUME r.mState = "GATT_READ_CHARC_DESCRIPTOR_VALUE" PROVE AtDescriptors(L, n, a)
  <2>1. /\ r.mService = Known(L)
        /\ q = Request(ToConfigure(Known(L), r.at), r.at[1], r.at[2], r.at[3])
    <3>1. AtDescriptors(L, r, <<>>)
      BY <1>3, <1>10, Zenon DEF Stands
    <3> QED
      BY <1>3, <3>1 DEF AtDescriptors
  <2>2. q.op \in {"read", "write"}
    <3>1. q.op = ToConfigure(Known(L), r.at)
      BY <1>4, <2>1
    <3> QED
      BY <3>1 DEF ToConfigure
  <2> QED
    BY <1>2, <2>1, <2>2 DEF Fits, AtDescriptors
<1>11. r.mState # "IDLE" /\ r.mState # "CONNECTED"
  BY <1>3 DEF Stands, AtConnection
<1>12. Stands(L, n, a)
  BY <1>2, <1>5, <1>6, <1>7, <1>8, <1>9, <1>10, <1>11 DEF Stands
<1> QED
  BY <1>2, <1>12 DEF Lands, InService, n

\* Nothing is left to be taken when an answer comes.
LEMMA ReplyFinds ==
  ASSUME Base, ~Aborted, NEW d \in Devices, NEW a \in Answers(d) \cup Refusals(d),
         Reply(d, a)
  PROVE  /\ layout \in Layouts /\ d \in DOMAIN layout /\ layout[d] \in Armbands
         /\ rd[d] \in Remotes /\ InService(rd[d]) /\ rd[d].mState # "aborted"
         /\ mMessage[d] = <<>> /\ mMessage' = [mMessage EXCEPT ![d] = a]
         /\ Stands(layout[d], rd[d], <<>>)
         /\ rd[d].request.op # "none" /\ a \in Seq(Messages) /\ a # <<>>
         /\ Fits(layout[d], rd[d].request, a)
         /\ a[Len(a)] = "blobDone" => rd[d].request.op = "long" /\ Len(a) = Blobs + 1
         /\ Lands(layout[d], [rd[d] EXCEPT !.request = None], a)
<1>1. /\ d \in DOMAIN layout /\ Stands(layout[d], rd[d], mMessage[d]) /\ layout \in Layouts
      /\ rd[d] \in Remotes /\ InService(rd[d]) /\ mMessage[d] \in Seq(Messages)
  BY DEF Base, Typed, LinkInv, Reply
<1>2. layout[d] \in Armbands
  BY <1>1, InRange
<1>3. rd[d].mState # "aborted" /\ rd[d].request \in Requests
  BY <1>1, RemoteFields DEF Aborted
<1>4. Within(layout[d], rd[d].request)
  BY <1>1, <1>2, <1>3, RequestWithin
<1>5. /\ rd[d].request.op # "none" /\ a \in Seq(Messages) /\ a # <<>>
      /\ Fits(layout[d], rd[d].request, a)
      /\ a[Len(a)] = "blobDone" => rd[d].request.op = "long" /\ Len(a) = Blobs + 1
  BY <1>2, <1>3, <1>4, AnswersFit
<1>6. mMessage[d] = <<>>
  <2>1. None.op = "none"
    BY RequestIs DEF None
  <2> QED
    BY <1>1, <1>5, <2>1 DEF Stands
<1>7. mMessage' = [mMessage EXCEPT ![d] = a]
  <2>1. mMessage' = [mMessage EXCEPT ![d] = mMessage[d] \o a]
    BY DEF Reply
  <2>2. <<>> \o a = a
    BY <1>5
  <2> QED
    BY <1>6, <2>1, <2>2
<1>8. Lands(layout[d], [rd[d] EXCEPT !.request = None], a)
  BY <1>1, <1>2, <1>5, <1>6, ReplyLands
<1> QED
  BY <1>1, <1>2, <1>3, <1>5, <1>6, <1>7, <1>8
-----------------------------------------------------------------------------
(* The walk and the file are kept by every step.                            *)

\* A new RemoteDevice waits for nothing and knows nothing.
LEMMA FreshIs ==
  /\ Fresh \in Remotes /\ InService(Fresh) /\ Fresh.mState = "IDLE" /\ Fresh.request = None
  /\ Fresh.mService = <<>> /\ Fresh.svc = 1 /\ Fresh.mNeedSaveService
<1>1. None \in Requests
  BY RequestIs DEF None, Ops
<1>2. <<>> \in Services /\ "IDLE" \in States
  BY EmptySeq DEF Services, States
<1> QED
  BY <1>1, <1>2 DEF Fresh, Remotes, InService

\* One device moves, the others stay.
LEMMA DeviceMoves ==
  ASSUME Typed, LinkInv, NEW d \in Devices, NEW n \in Remotes, NEW t \in Seq(Messages),
         rd' = [rd EXCEPT ![d] = n], mMessage' = [mMessage EXCEPT ![d] = t],
         InService(n), layout' = layout,
         NEW l \in {"up", "closing", "down"}, link' = [link EXCEPT ![d] = l],
         l = "down" => n.mState = "IDLE" /\ n.request = None /\ t = <<>>,
         l # "down" => d \in DOMAIN layout /\ Stands(layout[d], n, t)
  PROVE  Typed' /\ LinkInv'
<1>1. /\ rd'[d] = n /\ mMessage'[d] = t /\ link'[d] = l
      /\ \A e \in Devices \ {d} : /\ rd'[e] = rd[e] /\ mMessage'[e] = mMessage[e]
                                  /\ link'[e] = link[e]
  BY DEF Typed
<1>2. Typed'
  <2>1. rd' \in [Devices -> Remotes]
    BY DEF Typed
  <2>2. mMessage' \in [Devices -> Seq(Messages)]
    BY DEF Typed
  <2>3. link' \in [Devices -> {"up", "closing", "down"}]
    BY DEF Typed
  <2>4. \A e \in Devices : InService(rd'[e])
    BY <1>1 DEF Typed
  <2> QED
    BY <2>1, <2>2, <2>3, <2>4 DEF Typed
<1>3. ASSUME NEW e \in Devices
      PROVE  IF link'[e] = "down"
               THEN rd'[e].mState = "IDLE" /\ rd'[e].request = None /\ mMessage'[e] = <<>>
               ELSE e \in DOMAIN layout /\ Stands(layout[e], rd'[e], mMessage'[e])
  <2>1. CASE e = d
    BY <1>1, <2>1
  <2>2. CASE e # d
    BY <1>1, <2>2 DEF LinkInv
  <2> QED
    BY <2>1, <2>2
<1> QED
  BY <1>2, <1>3 DEF LinkInv

\* Types and links survive a step of a device's thread, ...
LEMMA TakenMoves ==
  ASSUME Base, NEW d \in Devices, NEW n, Taken(d, n), UNCHANGED link \/ Disconnect(d)
  PROVE  Typed' /\ LinkInv'
<1>1. /\ link[d] # "down" /\ mMessage' = [mMessage EXCEPT ![d] = Tail(mMessage[d])]
      /\ rd' = [rd EXCEPT ![d] = n] /\ layout' = layout /\ mMessage[d] # <<>>
  BY DEF Taken, Take
<1>2. n \in Remotes /\ Stands(layout[d], n, Tail(mMessage[d])) /\ InService(n)
  BY DEF Taken, Lands
<1>3. Tail(mMessage[d]) \in Seq(Messages)
  BY <1>1 DEF Base, Typed
<1>4. d \in DOMAIN layout /\ link \in [Devices -> {"up", "closing", "down"}]
  BY <1>1 DEF Base, Typed, LinkInv
<1>5. CASE UNCHANGED link
  <2>1. link' = [link EXCEPT ![d] = link[d]] /\ link[d] \in {"up", "closing", "down"}
    BY <1>4, <1>5
  <2>2. PICK l \in {"up", "closing", "down"} : l = link[d]
    BY <2>1
  <2> QED
    BY <1>1, <1>2, <1>3, <1>4, <2>1, <2>2, DeviceMoves DEF Base
<1>6. CASE Disconnect(d)
  <2>1. PICK l \in {"up", "closing", "down"} : l = "closing"
    OBVIOUS
  <2>2. link' = [link EXCEPT ![d] = l]
    BY <1>6, <2>1 DEF Disconnect
  <2> QED
    BY <1>1, <1>2, <1>3, <1>4, <2>1, <2>2, DeviceMoves DEF Base
<1> QED
  BY <1>5, <1>6

\* What a device's thread does.
LEMMA DeviceStepMoves ==
  ASSUME Base, NEW d \in Devices, DeviceStep(d)
  PROVE  /\ \E n : Taken(d, n) /\ (UNCHANGED link \/ Disconnect(d))
         /\ Typed' /\ LinkInv'
<1>1. \E n : Taken(d, n) /\ (UNCHANGED link \/ Disconnect(d))
  <2>1. CASE LongValueAnnounced(d) \/ PartRead(d)
    <3>1. UNCHANGED link
      BY <2>1 DEF LongValueAnnounced, PartRead
    <3> QED
      BY <2>1, <3>1, LongSteps
  <2>2. CASE \/ OnDeviceConnected(d) \/ Authenticated(d) \/ AuthenticationNotSupported(d)
             \/ AuthenticationFailed(d) \/ Bonded(d) \/ BondKeyMissing(d)
    BY <2>2, FirstSteps
  <2>3. CASE MTUExchanged(d) \/ ServiceFound(d) \/ ServicesComplete(d) \/ IncludedComplete(d)
    BY <2>3, ServiceSteps
  <2>4. CASE CharacteristicFound(d) \/ CharacteristicsComplete(d) \/ NoCharacteristicFound(d)
    BY <2>4, CharacteristicSteps
  <2>5. CASE ValueRead(d) \/ LongValueRead(d) \/ DescriptorFound(d) \/ DescriptorsComplete(d)
    BY <2>5, ValueSteps
  <2>6. CASE Configured(d) \/ Ignored(d)
    BY <2>6, ConfigurationSteps
  <2> QED
    BY <2>1, <2>2, <2>3, <2>4, <2>5, <2>6 DEF DeviceStep
<1> QED
  BY <1>1, TakenMoves

\* ... an answer of the armband, ...
LEMMA ReplyMoves ==
  ASSUME Base, ~Aborted, NEW d \in Devices, NEW a \in Answers(d) \cup Refusals(d),
         Reply(d, a)
  PROVE  Typed' /\ LinkInv'
<1> DEFINE n == [rd[d] EXCEPT !.request = None]
<1>1. /\ d \in DOMAIN layout /\ Lands(layout[d], n, a) /\ a \in Seq(Messages)
      /\ mMessage' = [mMessage EXCEPT ![d] = a]
  BY ReplyFinds
<1>2. rd' = [rd EXCEPT ![d] = n] /\ layout' = layout /\ link' = link
  BY DEF Reply, Base, Typed
<1> HIDE DEF n
<1>3. link' = [link EXCEPT ![d] = link[d]] /\ link[d] \in {"up", "closing", "down"}
      /\ link[d] # "down"
  BY <1>2 DEF Base, Typed, Reply
<1>4. PICK l \in {"up", "closing", "down"} : l = link[d]
  BY <1>3
<1> QED
  BY <1>1, <1>2, <1>3, <1>4, DeviceMoves DEF Base, Lands

\* ... the link's coming and going ...
LEMMA LinkMoves ==
  ASSUME Base, NEW d \in Devices, LinkUp(d) \/ LinkDown(d)
  PROVE  Typed' /\ LinkInv'
<1>1. CASE LinkUp(d)
  <2>1. PICK l \in {"up", "closing", "down"} : l = "up"
    OBVIOUS
  <2>2. PICK n \in Remotes : n = Fresh
    BY FreshIs
  <2>3. PICK t \in Seq(Messages) : t = <<"connected">>
    <3>1. "connected" \in Messages
      BY DEF Messages
    <3> QED
      BY <3>1, SingleIs
  <2>4. /\ link' = [link EXCEPT ![d] = l] /\ rd' = [rd EXCEPT ![d] = n]
        /\ mMessage' = [mMessage EXCEPT ![d] = t] /\ layout' = layout /\ d \in DOMAIN layout
    BY <1>1, <2>1, <2>2, <2>3 DEF LinkUp
  <2>5. Stands(layout[d], n, t) /\ InService(n)
    BY <2>2, <2>3, FreshIs DEF Stands, AtConnection, One
  <2> QED
    BY <2>1, <2>4, <2>5, DeviceMoves DEF Base
<1>2. CASE LinkDown(d)
  <2>1. PICK l \in {"up", "closing", "down"} : l = "down"
    OBVIOUS
  <2>2. PICK n : n = [rd[d] EXCEPT !.mState = "IDLE", !.request = None]
    OBVIOUS
  <2>3. rd[d] \in Remotes /\ InService(rd[d]) /\ None \in Requests /\ "IDLE" \in States
    BY FreshIs, RemoteFields DEF Base, Typed
  <2>4. n \in Remotes /\ InService(n) /\ n.mState = "IDLE" /\ n.request = None
    BY <2>2, <2>3 DEF Remotes, InService
  <2>5. PICK t \in Seq(Messages) : t = <<>>
    BY EmptySeq
  <2>6. /\ link' = [link EXCEPT ![d] = l] /\ rd' = [rd EXCEPT ![d] = n]
        /\ mMessage' = [mMessage EXCEPT ![d] = t] /\ layout' = layout
    BY <1>2, <2>1, <2>2, <2>5 DEF LinkDown, Base, Typed
  <2> QED
    BY <2>1, <2>4, <2>5, <2>6, DeviceMoves DEF Base
<1> QED
  BY <1>1, <1>2

\* ... and the end of the program.
LEMMA CrashMoves ==
  ASSUME Base, Crash
  PROVE  Typed' /\ LinkInv'
<1>1. /\ rd' = [d \in Devices |-> Fresh] /\ mMessage' = [d \in Devices |-> <<>>]
      /\ link' = [d \in Devices |-> "down"] /\ layout' = layout
  BY DEF Crash
<1>2. <<>> \in Seq(Messages)
  BY EmptySeq
<1>3. /\ rd' \in [Devices -> Remotes] /\ mMessage' \in [Devices -> Seq(Messages)]
      /\ link' \in [Devices -> {"up", "closing", "down"}]
  BY <1>1, <1>2, FreshIs
<1>4. \A d \in Devices : InService(rd'[d])
  BY <1>1, FreshIs
<1> QED
  BY <1>1, <1>3, <1>4, FreshIs DEF Base, Typed, LinkInv

\* A file that loses a root stays what it may be, ...
LEMMA DeletedIsWellFormed ==
  ASSUME NEW d, NEW file, WellFormed(d, file), NEW name
  PROVE  WellFormed(d, DeleteNode(file, name))
BY DeleteNodeDoes, WholeIsWellFormed

\* ... and so does every document that is saved, ...
LEMMA SavedIsWhole ==
  ASSUME Base, NEW d \in Devices, NEW document \in Saved(d)
  PROVE  document \in Seq(Whole(d))
<1> DEFINE file == database[d]
           one == DeleteNode(file, "SecurityInfomation")
           two == DeleteNode(one, "GATTService")
<1>1. WellFormed(d, file)
  BY DEF Base, FileInv
<1>2. link[d] # "down" /\ mMessage[d] # <<>>
  BY DEF Saved
<1>3. CASE rd[d].mState = "W4SECU" /\ Head(mMessage[d]) = "bondKeyMissing"
  <2>1. document \in {one, two} /\ document # file
    BY <1>2, <1>3 DEF Saved, WithoutKey, WithoutServices
  <2>2. one = file \/ one \in Seq(Whole(d))
    BY <1>1, DeleteNodeDoes
  <2>3. WellFormed(d, one)
    BY <1>1, DeletedIsWellFormed
  <2> HIDE DEF one, file
  <2>4. two = one \/ two \in Seq(Whole(d))
    BY <2>3, DeleteNodeDoes
  <2> QED
    BY <2>1, <2>2, <2>4
<1>4. CASE /\ rd[d].mState = "GATT_READ_CHARC_DESCRIPTOR_VALUE"
           /\ Head(mMessage[d]) \in {"read", "write"}
           /\ LastPosition(rd[d]) /\ rd[d].mNeedSaveService
  <2>1. document = SaveService(file, rd[d].mService, ReadableOf(d))
    BY <1>2, <1>4 DEF Saved, WithServices
  <2>2. d \in DOMAIN layout /\ layout \in Layouts /\ rd[d].mService = Known(layout[d])
    BY <1>2, <1>4 DEF Base, Typed, LinkInv, Stands, AtDescriptors
  <2> QED
    BY <1>1, <2>1, <2>2, SavingKnown
<1>5. CASE /\ ~(rd[d].mState = "W4SECU" /\ Head(mMessage[d]) = "bondKeyMissing")
           /\ ~(/\ rd[d].mState = "GATT_READ_CHARC_DESCRIPTOR_VALUE"
                /\ Head(mMessage[d]) \in {"read", "write"}
                /\ LastPosition(rd[d]) /\ rd[d].mNeedSaveService)
  BY <1>2, <1>5 DEF Saved
<1> QED
  BY <1>3, <1>4, <1>5

\* ... even if it is cut off.
LEMMA FilesKept ==
  ASSUME Base, DiscoveryNext
  PROVE  FileInv'
<1>0. layout' = layout
  <2>1. \A d \in Devices : DeviceStep(d) => layout' = layout
    BY DeviceStepMoves DEF Taken, Take
  <2> QED
    BY <2>1 DEF DiscoveryNext, Answer, Refuse, Reply, LinkUp, LinkDown, Crash
<1>1. SUFFICES /\ DOMAIN database' = Devices
               /\ \A d \in Devices : WellFormed(d, database'[d])
  BY <1>0, ZenonT(60) DEF FileInv, WellFormed, Roots, ServicesOf, ReadableOf
<1>2. DOMAIN database = Devices /\ \A d \in Devices : WellFormed(d, database[d])
  BY DEF Base, FileInv
<1>3. CASE UNCHANGED database
  BY <1>2, <1>3
<1>4. ASSUME NEW d \in Devices, NEW file, WellFormed(d, file),
             database' = [database EXCEPT ![d] = file]
      PROVE  DOMAIN database' = Devices /\ \A e \in Devices : WellFormed(e, database'[e])
  <2>1. DOMAIN database' = Devices /\ database'[d] = file
        /\ \A e \in Devices \ {d} : database'[e] = database[e]
    BY <1>2, <1>4
  <2> QED
    BY <1>2, <1>4, <2>1
<1>5. CASE \E d \in Devices : BondKeyMissing(d)
  <2>1. PICK d \in Devices : BondKeyMissing(d)
    BY <1>5
  <2>2. PICK file : file = WithoutServices(WithoutKey(database[d]))
    OBVIOUS
  <2>3. WellFormed(d, file)
    BY <1>2, <2>2, DeletedIsWellFormed DEF WithoutServices, WithoutKey
  <2>4. database' = [database EXCEPT ![d] = file]
    BY <2>1, <2>2 DEF BondKeyMissing
  <2> QED
    BY <1>4, <2>3, <2>4
<1>6. CASE \E d \in Devices : Configured(d)
  <2>1. PICK d \in Devices : Configured(d)
    BY <1>6
  <2>2. CASE LastPosition(rd[d]) /\ rd[d].mNeedSaveService
    <3>1. PICK file : file = SaveService(database[d], rd[d].mService, ReadableOf(d))
      OBVIOUS
    <3>2. database' = [database EXCEPT ![d] = file]
      BY <2>1, <2>2, <3>1 DEF Configured, WithServices
    <3>3. d \in DOMAIN layout /\ layout \in Layouts /\ rd[d].mService = Known(layout[d])
      BY <2>1 DEF Configured, Take, Base, Typed, LinkInv, Stands, AtDescriptors
    <3>4. WellFormed(d, file)
      BY <1>2, <3>1, <3>3, SavingKnown, WholeIsWellFormed
    <3> QED
      BY <1>4, <3>2, <3>4
  <2>3. CASE ~(LastPosition(rd[d]) /\ rd[d].mNeedSaveService)
    <3>1. database' = database
      BY <2>1, <2>3 DEF Configured
    <3> QED
      BY <1>2, <3>1
  <2> QED
    BY <2>2, <2>3
<1>7. CASE Crash
  <2>1. PICK left \in [Devices -> UNION {LeftBehind(d) : d \in Devices}] :
           (\A d \in Devices : left[d] \in LeftBehind(d)) /\ database' = left
    BY <1>7 DEF Crash
  <2>2. ASSUME NEW d \in Devices PROVE WellFormed(d, left[d])
    <3>1. left[d] \in LeftBehind(d)
      BY <2>1
    <3>2. CASE left[d] = database[d]
      BY <1>2, <3>2
    <3>3. CASE \E document \in Saved(d) : left[d] \in Interrupted(document)
      BY <3>3, SavedIsWhole, CutOff
    <3> QED
      BY <3>1, <3>2, <3>3 DEF LeftBehind
  <2> QED
    BY <2>1, <2>2
<1> QED
  BY <1>3, <1>5, <1>6, <1>7, ZenonT(60) DEF DiscoveryNext, DeviceStep, OnDeviceConnected,
         Authenticated, AuthenticationNotSupported, AuthenticationFailed, Bonded,
         MTUExchanged, ServiceFound, ServicesComplete, IncludedComplete,
         CharacteristicFound, CharacteristicsComplete, NoCharacteristicFound, ValueRead,
         LongValueAnnounced, PartRead, LongValueRead, DescriptorFound,
         DescriptorsComplete, Ignored, Answer, Refuse, Reply, LinkUp, LinkDown,
         files, buffers

\* The first part of the invariant holds in the beginning ...
LEMMA BaseInit ==
  ASSUME DiscoveryInit
  PROVE  Base
<1>1. Typed
  <2>1. <<>> \in Seq(Messages)
    BY EmptySeq
  <2> QED
    BY <2>1, FreshIs DEF DiscoveryInit, Typed
<1>2. LinkInv
  BY FreshIs DEF DiscoveryInit, LinkInv
<1>3. FileInv
  <2>1. PICK file \in {<<>>, <<LinkKey>>} : database = [d \in Devices |-> file]
    BY DEF DiscoveryInit
  <2>2. ASSUME NEW d \in Devices PROVE WellFormed(d, file)
    <3>1. LinkKey \in Roots(d)
      BY DEF Roots
    <3>5. PICK R : R = Roots(d)
      OBVIOUS
    <3>2. PICK k \in R : R = Roots(d) /\ k = LinkKey
      BY <3>1, <3>5
    <3>3. <<>> \in Seq(R) /\ <<k>> \in Seq(R)
      OBVIOUS
    <3>4. file \in Seq(R) /\ \A i \in DOMAIN file : ~(i < Len(file))
      <4>1. CASE file = <<>>
        BY <3>3, <4>1
      <4>2. CASE file = <<LinkKey>>
        <5>1. file = <<k>> /\ Len(<<k>>) = 1 /\ DOMAIN <<k>> = 1..1
          BY <3>2, <4>2
        <5> QED
          BY <3>3, <5>1
      <4> QED
        BY <2>1, <4>1, <4>2
    <3> QED
      BY <3>2, <3>4 DEF WellFormed
  <2> QED
    BY <2>1, <2>2 DEF FileInv
<1> QED
  BY <1>1, <1>2, <1>3 DEF Base

\* ... and in every step.
LEMMA BaseNext ==
  ASSUME Base, DiscoveryNext
  PROVE  Base'
<1>1. FileInv'
  BY FilesKept
<1>2. ~Aborted
  BY DEF DiscoveryNext
<1>3. ASSUME NEW d \in Devices, Answer(d) \/ Refuse(d) PROVE Typed' /\ LinkInv'
  <2>1. PICK a \in Answers(d) \cup Refusals(d) : Reply(d, a)
    BY <1>3 DEF Answer, Refuse
  <2> QED
    BY <1>2, <2>1, ReplyMoves
<1> QED
  BY <1>1, <1>3, DeviceStepMoves, LinkMoves, CrashMoves DEF DiscoveryNext, Base
-----------------------------------------------------------------------------
(* The buffer of the long values.                                           *)

BufferTypes ==
    Temp_Buffer \in Seq(Devices) /\ value \in [Devices -> Seq(Devices)] /\ overlap \in BOOLEAN

\* A device in the middle of a long value is one LongUnderWay knows of.
LEMMA LongIs ==
  ASSUME NEW e, mMessage[e] \in Seq(Messages), Long(e)
  PROVE  LongUnderWay(e)
<1>1. CASE rd[e].request.op = "long"
  BY <1>1 DEF LongUnderWay
<1>2. CASE mMessage[e] # <<>> /\ mMessage[e][Len(mMessage[e])] = "blobDone"
  <2>1. Len(mMessage[e]) \in DOMAIN mMessage[e]
    BY <1>2
  <2> QED
    BY <1>2, <2>1 DEF LongUnderWay
<1> QED
  BY <1>1, <1>2 DEF Long

\* A device that does not read a long value leaves the buffer to the others.
LEMMA QuietKeeps ==
  ASSUME Typed, BufferTypes, BufferInv, NEW d \in Devices, NEW n, NEW t,
         rd' = [rd EXCEPT ![d] = n], mMessage' = [mMessage EXCEPT ![d] = t],
         n.request.op # "long", t # <<>> => t[Len(t)] # "blobDone",
         Temp_Buffer' = Temp_Buffer, overlap' = overlap,
         NEW v \in Seq(Devices), value' = [value EXCEPT ![d] = v],
         v = value[d] \/ overlap \/ v = Times(Blobs, d)
  PROVE  BufferTypes' /\ BufferInv'
<1>1. /\ rd'[d] = n /\ mMessage'[d] = t /\ value'[d] = v
      /\ \A e \in Devices \ {d} : /\ rd'[e] = rd[e] /\ mMessage'[e] = mMessage[e]
                                  /\ value'[e] = value[e]
  BY DEF Typed, BufferTypes
<1>2. ~Long(d)' /\ \A e \in Devices \ {d} : Long(e)' <=> Long(e)
  BY <1>1 DEF Long
<1>3. BufferTypes'
  BY DEF BufferTypes
<1>4. ASSUME ~overlap', NEW e \in Devices
      PROVE  /\ value'[e] # <<>> => value'[e] = Times(Blobs, e)
             /\ rd'[e].request.op = "long" => Temp_Buffer' = <<>>
             /\ mMessage'[e] # <<>> /\ mMessage'[e][Len(mMessage'[e])] = "blobDone" =>
                   Temp_Buffer' = Times(Blobs + 1 - Len(mMessage'[e]), e)
             /\ Long(e)' => \A x \in Devices \ {e} : ~Long(x)'
  <2>1. CASE e = d
    BY <1>1, <1>2, <1>4, <2>1 DEF BufferInv
  <2>2. CASE e # d
    <3>1. /\ value[e] # <<>> => value[e] = Times(Blobs, e)
          /\ rd[e].request.op = "long" => Temp_Buffer = <<>>
          /\ mMessage[e] # <<>> /\ mMessage[e][Len(mMessage[e])] = "blobDone" =>
                Temp_Buffer = Times(Blobs + 1 - Len(mMessage[e]), e)
          /\ Long(e) => \A x \in Devices \ {e} : ~Long(x)
      BY <1>4 DEF BufferInv
    <3> QED
      BY <1>1, <1>2, <2>2, <3>1
  <2> QED
    BY <2>1, <2>2
<1> QED
  BY <1>3, <1>4 DEF BufferInv

\* One that begins to read a long value or gets a part of it has the buffer alone.
LEMMA LongKeeps ==
  ASSUME Typed, BufferTypes, BufferInv, NEW d \in Devices, NEW n, NEW t,
         rd' = [rd EXCEPT ![d] = n], mMessage' = [mMessage EXCEPT ![d] = t],
         ~overlap' => ~overlap /\ \A e \in Devices \ {d} : ~Long(e),
         overlap' \in BOOLEAN, value' = value, Temp_Buffer' \in Seq(Devices),
         n.request.op = "long" /\ ~overlap' => Temp_Buffer' = <<>>,
         ~overlap' /\ t # <<>> /\ t[Len(t)] = "blobDone" =>
            Temp_Buffer' = Times(Blobs + 1 - Len(t), d)
  PROVE  BufferTypes' /\ BufferInv'
<1>1. /\ rd'[d] = n /\ mMessage'[d] = t
      /\ \A e \in Devices \ {d} : rd'[e] = rd[e] /\ mMessage'[e] = mMessage[e]
  BY DEF Typed
<1>2. \A e \in Devices \ {d} : Long(e)' <=> Long(e)
  BY <1>1 DEF Long
<1>3. BufferTypes'
  BY DEF BufferTypes
<1>4. ASSUME ~overlap', NEW e \in Devices
      PROVE  /\ value'[e] # <<>> => value'[e] = Times(Blobs, e)
             /\ rd'[e].request.op = "long" => Temp_Buffer' = <<>>
             /\ mMessage'[e] # <<>> /\ mMessage'[e][Len(mMessage'[e])] = "blobDone" =>
                   Temp_Buffer' = Times(Blobs + 1 - Len(mMessage'[e]), e)
             /\ Long(e)' => \A x \in Devices \ {e} : ~Long(x)'
  <2>1. value[e] # <<>> => value[e] = Times(Blobs, e)
    BY <1>4 DEF BufferInv
  <2>2. CASE e = d
    BY <1>1, <1>2, <1>4, <2>1, <2>2
  <2>3. CASE e # d
    <3>1. ~Long(e)'
      BY <1>2, <1>4, <2>3
    <3> QED
      BY <2>1, <3>1 DEF Long
  <2> QED
    BY <2>2, <2>3
<1> QED
  BY <1>3, <1>4 DEF BufferInv

\* A part more.
LEMMA TimesAppend ==
  ASSUME NEW k \in Nat, NEW d \in Devices
  PROVE  /\ Times(k, d) \in Seq(Devices) /\ Append(Times(k, d), d) = Times(k + 1, d)
         /\ Times(0, d) = <<>>
<1>1. Times(k, d) \in Seq(Devices) /\ Len(Times(k, d)) = k
      /\ \A i \in 1..k : Times(k, d)[i] = d
  BY DEF Times
<1>2. Times(k + 1, d) \in Seq(Devices) /\ Len(Times(k + 1, d)) = k + 1
      /\ \A i \in 1..k + 1 : Times(k + 1, d)[i] = d
  BY DEF Times
<1>3. Times(0, d) = <<>>
  BY DEF Times
<1> DEFINE a == Append(Times(k, d), d)
<1>4. a \in Seq(Devices) /\ Len(a) = k + 1 /\ \A i \in 1..k + 1 : a[i] = d
  <2>1. PICK t \in Seq(Devices) : t = Times(k, d)
    BY <1>1
  <2>2. /\ Append(t, d) \in Seq(Devices) /\ Len(Append(t, d)) = Len(t) + 1
        /\ \A i \in 1..Len(t) : Append(t, d)[i] = t[i]
        /\ Append(t, d)[Len(t) + 1] = d
    BY AppendProperties
  <2>3. \A i \in 1..k + 1 : i \in 1..k \/ i = k + 1
    OBVIOUS
  <2> QED
    BY <1>1, <2>1, <2>2, <2>3
<1>5. a = Times(k + 1, d)
  <2> HIDE DEF a
  <2> QED
    BY <1>2, <1>4, SeqEqual
<1> QED
  BY <1>1, <1>3, <1>5

\* What is said of the shared buffer survives a step of a device's thread, ...
LEMMA BufferStep ==
  ASSUME Base, BufferTypes, BufferInv, NEW d \in Devices, DeviceStep(d)
  PROVE  BufferTypes' /\ BufferInv'
<1>0. Typed /\ value[d] \in Seq(Devices) /\ value = [value EXCEPT ![d] = value[d]]
  BY DEF Base, BufferTypes
<1>1. ASSUME UNCHANGED buffers, \E n : Taken(d, n) /\ Quiet(n, mMessage[d])
      PROVE  BufferTypes' /\ BufferInv'
  <2>1. PICK n : Taken(d, n) /\ Quiet(n, mMessage[d])
    BY <1>1
  <2>2. PICK t : t = Tail(mMessage[d])
    OBVIOUS
  <2>3. /\ rd' = [rd EXCEPT ![d] = n] /\ mMessage' = [mMessage EXCEPT ![d] = t]
        /\ n.request.op # "long" /\ (t # <<>> => t[Len(t)] # "blobDone")
    BY <2>1, <2>2 DEF Taken, Take, Quiet
  <2>4. PICK v \in Seq(Devices) : v = value[d]
    BY <1>0
  <2>5. /\ Temp_Buffer' = Temp_Buffer /\ overlap' = overlap
        /\ value' = [value EXCEPT ![d] = v]
    BY <1>0, <1>1, <2>4 DEF buffers
  <2> QED
    BY <1>0, <2>3, <2>4, <2>5, QuietKeeps
<1>2. CASE \/ OnDeviceConnected(d) \/ Authenticated(d) \/ AuthenticationNotSupported(d)
           \/ AuthenticationFailed(d) \/ Bonded(d) \/ BondKeyMissing(d)
  <2>1. UNCHANGED buffers
    BY <1>2 DEF OnDeviceConnected, Authenticated, AuthenticationNotSupported,
                AuthenticationFailed, Bonded, BondKeyMissing
  <2> QED
    BY <1>1, <1>2, <2>1, FirstSteps DEF Quiet
<1>3. CASE MTUExchanged(d) \/ ServiceFound(d) \/ ServicesComplete(d) \/ IncludedComplete(d)
  <2>1. UNCHANGED buffers
    BY <1>3 DEF MTUExchanged, ServiceFound, ServicesComplete, IncludedComplete
  <2> QED
    BY <1>1, <1>3, <2>1, ServiceSteps
<1>4. CASE CharacteristicFound(d) \/ CharacteristicsComplete(d) \/ NoCharacteristicFound(d)
  <2>1. UNCHANGED buffers
    BY <1>4 DEF CharacteristicFound, CharacteristicsComplete, NoCharacteristicFound
  <2> QED
    BY <1>1, <1>4, <2>1, CharacteristicSteps
<1>5. CASE ValueRead(d) \/ DescriptorFound(d) \/ DescriptorsComplete(d)
  <2>1. UNCHANGED buffers
    BY <1>5, Zenon DEF ValueRead, DescriptorFound, DescriptorsComplete
  <2> QED
    BY <1>1, <1>5, <2>1, ValueSteps
<1>6. CASE Configured(d) \/ Ignored(d)
  <2>1. UNCHANGED buffers
    BY <1>6 DEF Configured, Ignored
  <2> QED
    BY <1>1, <1>6, <2>1, ConfigurationSteps
<1>7. CASE LongValueRead(d)
  <2>1. PICK n : Taken(d, n) /\ Quiet(n, mMessage[d])
    BY <1>7, ValueSteps
  <2>2. PICK t : t = Tail(mMessage[d])
    OBVIOUS
  <2>3. /\ rd' = [rd EXCEPT ![d] = n] /\ mMessage' = [mMessage EXCEPT ![d] = t]
        /\ n.request.op # "long" /\ (t # <<>> => t[Len(t)] # "blobDone")
        /\ mMessage[d] # <<>>
    BY <2>1, <2>2 DEF Taken, Take, Quiet
  <2>4. PICK v \in Seq(Devices) : v = Temp_Buffer
    BY DEF BufferTypes
  <2>5. /\ Temp_Buffer' = Temp_Buffer /\ overlap' = overlap
        /\ value' = [value EXCEPT ![d] = v]
    BY <1>7, <2>4 DEF LongValueRead
  <2>6. overlap \/ v = Times(Blobs, d)
    <3>1. mMessage[d][Len(mMessage[d])] = "blobDone" /\ Len(mMessage[d]) = 1
      BY <1>7, LongSteps
    <3>2. Blobs + 1 - Len(mMessage[d]) = Blobs
      BY <3>1 DEF Blobs
    <3> QED
      BY <2>3, <2>4, <3>1, <3>2 DEF BufferInv
  <2> QED
    BY <1>0, <2>3, <2>4, <2>5, <2>6, QuietKeeps
<1>8. CASE LongValueAnnounced(d)
  <2>1. PICK n : Taken(d, n) /\ Tail(mMessage[d]) = <<>>
    BY <1>8, LongSteps
  <2>2. PICK t : t = Tail(mMessage[d])
    OBVIOUS
  <2>3. rd' = [rd EXCEPT ![d] = n] /\ mMessage' = [mMessage EXCEPT ![d] = t] /\ t = <<>>
    BY <2>1, <2>2 DEF Taken, Take
  <2>4. /\ Temp_Buffer' = <<>> /\ value' = value
        /\ overlap' = (overlap \/ \E e \in Devices \ {d} : LongUnderWay(e))
    BY <1>8 DEF LongValueAnnounced
  <2>5. ~overlap' => ~overlap /\ \A e \in Devices \ {d} : ~Long(e)
    BY <1>0, <2>4, LongIs DEF Typed
  <2>6. overlap' \in BOOLEAN /\ Temp_Buffer' \in Seq(Devices)
    BY <2>4 DEF BufferTypes
  <2> QED
    BY <1>0, <2>3, <2>4, <2>5, <2>6, LongKeeps
<1>9. CASE PartRead(d)
  <2>1. /\ Taken(d, rd[d]) /\ rd[d].request = None
        /\ mMessage[d][Len(mMessage[d])] = "blobDone"
        /\ Tail(mMessage[d]) # <<>>
        /\ Tail(mMessage[d])[Len(Tail(mMessage[d]))] = "blobDone"
    BY <1>9, LongSteps
  <2>2. PICK t : t = Tail(mMessage[d])
    OBVIOUS
  <2>3. PICK n : n = rd[d]
    OBVIOUS
  <2>4. /\ rd' = [rd EXCEPT ![d] = n] /\ mMessage' = [mMessage EXCEPT ![d] = t]
        /\ mMessage[d] # <<>> /\ mMessage[d] \in Seq(Messages)
    BY <2>1, <2>2, <2>3, <1>0 DEF Taken, Take, Typed
  <2>5. /\ Temp_Buffer' = Append(Temp_Buffer, d) /\ value' = value /\ overlap' = overlap
    BY <1>9 DEF PartRead
  <2>6. Long(d)
    BY <2>1, <2>4 DEF Long
  <2>7. ~overlap' => ~overlap /\ \A e \in Devices \ {d} : ~Long(e)
    BY <2>5, <2>6 DEF BufferInv
  <2>8. n.request.op # "long"
    BY <2>1, <2>3, RequestIs DEF None
  <2>9. overlap' \in BOOLEAN /\ Temp_Buffer' \in Seq(Devices)
    BY <2>5, AppendProperties DEF BufferTypes
  <2>10. ASSUME ~overlap' PROVE Temp_Buffer' = Times(Blobs + 1 - Len(t), d)
    <3>1. Temp_Buffer = Times(Blobs + 1 - Len(mMessage[d]), d)
      BY <2>1, <2>4, <2>5, <2>10 DEF BufferInv
    <3>2. Len(mMessage[d]) = Len(t) + 1 /\ Len(t) \in Nat
      BY <2>2, <2>4
    <3>3. PICK k : k = Blobs + 1 - Len(mMessage[d])
      OBVIOUS
    <3>4. k \in Nat /\ Blobs + 1 - Len(t) = k + 1
      <4>1. \E x \in 0..Blobs : Rest(mMessage[d], "blob", "blobDone", x)
        <5>1. Take(d, {"GATT_READ_CHARC_VALUE"}, {"blob"}, rd[d])
          BY <1>9 DEF PartRead
        <5>2. /\ layout[d] \in Armbands /\ rd[d] \in Remotes
              /\ Stands(layout[d], rd[d], mMessage[d])
              /\ rd[d].mState = "GATT_READ_CHARC_VALUE" /\ Head(mMessage[d]) = "blob"
          BY <5>1, TakeFinds
        <5> QED
          BY <2>4, <5>2, AnswerIs
      <4>2. Len(mMessage[d]) \in 1..Blobs + 1
        BY <4>1 DEF Rest, Blobs
      <4> QED
        BY <3>2, <3>3, <4>2 DEF Blobs
    <3> QED
      BY <2>5, <3>1, <3>3, <3>4, TimesAppend
  <2> QED
    BY <1>0, <2>4, <2>5, <2>7, <2>8, <2>9, <2>10, LongKeeps
<1> QED
  BY <1>2, <1>3, <1>4, <1>5, <1>6, <1>7, <1>8, <1>9 DEF DeviceStep

\* ... an answer of the armband, ...
LEMMA BufferReply ==
  ASSUME Base, ~Aborted, BufferTypes, BufferInv, NEW d \in Devices,
         NEW a \in Answers(d) \cup Refusals(d), Reply(d, a)
  PROVE  BufferTypes' /\ BufferInv'
<1> DEFINE n == [rd[d] EXCEPT !.request = None]
<1>1. /\ a \in Seq(Messages) /\ a # <<>> /\ mMessage' = [mMessage EXCEPT ![d] = a]
      /\ a[Len(a)] = "blobDone" => rd[d].request.op = "long" /\ Len(a) = Blobs + 1
      /\ rd[d] \in Remotes
  BY ReplyFinds
<1>2. n.request.op # "long"
  <2>1. n.request = None
    BY <1>1 DEF Remotes
  <2> QED
    BY <2>1, RequestIs DEF None
<1>3. /\ rd' = [rd EXCEPT ![d] = n] /\ Temp_Buffer' = Temp_Buffer /\ overlap' = overlap
      /\ value' = value
  BY DEF Reply, buffers, Base, Typed
<1>4. Typed /\ value[d] \in Seq(Devices) /\ value = [value EXCEPT ![d] = value[d]]
  BY DEF Base, BufferTypes
<1> HIDE DEF n
<1>5. CASE a[Len(a)] # "blobDone"
  <2>1. PICK v \in Seq(Devices) : v = value[d]
    BY <1>4
  <2>2. value' = [value EXCEPT ![d] = v]
    BY <1>3, <1>4, <2>1
  <2> QED
    BY <1>1, <1>2, <1>3, <1>4, <1>5, <2>1, <2>2, QuietKeeps
<1>6. CASE a[Len(a)] = "blobDone"
  <2>1. rd[d].request.op = "long" /\ Len(a) = Blobs + 1
    BY <1>1, <1>6
  <2>2. Long(d)
    BY <2>1 DEF Long
  <2>3. ~overlap' => ~overlap /\ Temp_Buffer' = <<>> /\ \A e \in Devices \ {d} : ~Long(e)
    BY <1>3, <2>1, <2>2 DEF BufferInv
  <2>4. Times(Blobs + 1 - Len(a), d) = <<>>
    <3>1. Blobs + 1 - Len(a) = 0
      BY <2>1 DEF Blobs
    <3> QED
      BY <3>1, TimesAppend
  <2>5. overlap' \in BOOLEAN /\ Temp_Buffer' \in Seq(Devices)
    BY <1>3 DEF BufferTypes
  <2> QED
    BY <1>1, <1>2, <1>3, <1>4, <2>3, <2>4, <2>5, LongKeeps
<1> QED
  BY <1>5, <1>6

\* ... the link's coming and going ...
LEMMA BufferLink ==
  ASSUME Base, BufferTypes, BufferInv, NEW d \in Devices, LinkUp(d) \/ LinkDown(d)
  PROVE  BufferTypes' /\ BufferInv'
<1>0. Typed /\ value[d] \in Seq(Devices) /\ value = [value EXCEPT ![d] = value[d]]
  BY DEF Base, BufferTypes
<1>1. \E n, t : /\ rd' = [rd EXCEPT ![d] = n] /\ mMessage' = [mMessage EXCEPT ![d] = t]
                /\ n.request = None /\ (t # <<>> => t[Len(t)] # "blobDone")
  <2>1. CASE LinkUp(d)
    <3>1. PICK t : t = <<"connected">>
      OBVIOUS
    <3>2. rd' = [rd EXCEPT ![d] = Fresh] /\ mMessage' = [mMessage EXCEPT ![d] = t]
      BY <2>1, <3>1 DEF LinkUp
    <3>3. t # <<>> => t[Len(t)] # "blobDone"
      BY <3>1
    <3> QED
      BY <3>2, <3>3, FreshIs
  <2>2. CASE LinkDown(d)
    <3>1. PICK n : n = [rd[d] EXCEPT !.mState = "IDLE", !.request = None]
      OBVIOUS
    <3>2. n.request = None
      BY <3>1 DEF Base, Typed, Remotes
    <3>3. rd' = [rd EXCEPT ![d] = n] /\ mMessage' = [mMessage EXCEPT ![d] = <<>>]
      BY <2>2, <3>1 DEF LinkDown, Base, Typed
    <3> QED
      BY <3>2, <3>3
  <2> QED
    BY <2>1, <2>2
<1>2. PICK n, t : /\ rd' = [rd EXCEPT ![d] = n] /\ mMessage' = [mMessage EXCEPT ![d] = t]
                  /\ n.request = None /\ (t # <<>> => t[Len(t)] # "blobDone")
  BY <1>1
<1>3. n.request.op # "long"
  BY <1>2, RequestIs DEF None
<1>4. PICK v \in Seq(Devices) : v = value[d]
  BY <1>0
<1>5. /\ Temp_Buffer' = Temp_Buffer /\ overlap' = overlap
      /\ value' = [value EXCEPT ![d] = v]
  BY <1>0, <1>4 DEF LinkUp, LinkDown, buffers
<1> QED
  BY <1>0, <1>2, <1>3, <1>4, <1>5, QuietKeeps

\* ... and so every step, ...
LEMMA BufferKept ==
  ASSUME Base, BufferTypes, BufferInv, DiscoveryNext
  PROVE  BufferTypes' /\ BufferInv'
<1>1. ~Aborted
  BY DEF DiscoveryNext
<1>2. ASSUME NEW d \in Devices, Answer(d) \/ Refuse(d) PROVE BufferTypes' /\ BufferInv'
  <2>1. PICK a \in Answers(d) \cup Refusals(d) : Reply(d, a)
    BY <1>2 DEF Answer, Refuse
  <2> QED
    BY <1>1, <2>1, BufferReply
<1>3. CASE Crash
  <2>1. /\ Temp_Buffer' = <<>> /\ value' = [d \in Devices |-> <<>>] /\ overlap' = FALSE
        /\ rd' = [d \in Devices |-> Fresh] /\ mMessage' = [d \in Devices |-> <<>>]
    BY <1>3 DEF Crash
  <2>2. BufferTypes'
    BY <2>1, EmptySeq DEF BufferTypes
  <2>3. Fresh.request.op # "long"
    BY FreshIs, RequestIs DEF None
  <2>4. \A d \in Devices : ~Long(d)'
    BY <2>1, <2>3 DEF Long
  <2> QED
    BY <2>1, <2>2, <2>3, <2>4 DEF BufferInv
<1> QED
  BY <1>2, <1>3, BufferStep, BufferLink DEF DiscoveryNext

\* ... and holds in the beginning.
LEMMA BufferInit ==
  ASSUME DiscoveryInit
  PROVE  BufferTypes /\ BufferInv
<1>1. Fresh.request.op # "long"
  BY FreshIs, RequestIs DEF None
<1>2. \A d \in Devices : ~Long(d)
  BY <1>1 DEF DiscoveryInit, Long
<1>3. BufferTypes
  BY EmptySeq DEF DiscoveryInit, BufferTypes
<1> QED
  BY <1>1, <1>2, <1>3 DEF DiscoveryInit, BufferInv
-----------------------------------------------------------------------------
(* The types of the history, and the theorems.                              *)

HistoryTypes ==
    /\ asked \in [Devices -> Seq(Requests)]
    /\ refused \in [Devices -> BOOLEAN]
    /\ budget \in [connect : Nat, loss : Nat, refusal : Nat]

\* The history variables are typed in the beginning.
LEMMA HistoryInit ==
  ASSUME DiscoveryInit
  PROVE  HistoryTypes
<1>1. <<>> \in Seq(Requests)
  BY EmptySeq
<1>2. MaxConnects \in Nat /\ MaxLosses \in Nat /\ MaxRefusals \in Nat
  BY DiscoveryAssumption
<1> QED
  BY <1>1, <1>2 DEF DiscoveryInit, HistoryTypes

\* What is asked for is added to what was.
LEMMA HistoryKept ==
  ASSUME Base, HistoryTypes, DiscoveryNext
  PROVE  HistoryTypes'
<1>0. <<>> \in Seq(Requests)
  BY EmptySeq
<1>1. ASSUME NEW d \in Devices, DeviceStep(d) PROVE HistoryTypes'
  <2>1. PICK n : Taken(d, n)
    BY <1>1, DeviceStepMoves
  <2>2. n.request \in Requests
    BY <2>1, RemoteFields DEF Taken, Lands
  <2>3. /\ refused' = refused /\ budget' = budget
        /\ asked' = asked \/ asked' = [asked EXCEPT ![d] = Append(asked[d], n.request)]
    BY <2>1 DEF Taken, Take
  <2>4. Append(asked[d], n.request) \in Seq(Requests)
    BY <2>2, AppendProperties DEF HistoryTypes
  <2> QED
    BY <2>3, <2>4 DEF HistoryTypes
<1>2. ASSUME NEW d \in Devices, Answer(d) PROVE HistoryTypes'
  BY <1>2 DEF Answer, Reply, HistoryTypes
<1>3. ASSUME NEW d \in Devices, Refuse(d) PROVE HistoryTypes'
  <2>1. asked' = asked
    BY <1>3 DEF Refuse, Reply
  <2>2. PICK x \in BOOLEAN : refused' = [refused EXCEPT ![d] = x]
    BY <1>3 DEF Refuse, HistoryTypes
  <2>3. budget' \in [connect : Nat, loss : Nat, refusal : Nat]
    BY <1>3 DEF Refuse, HistoryTypes
  <2> QED
    BY <2>1, <2>2, <2>3 DEF HistoryTypes
<1>4. ASSUME NEW d \in Devices, LinkUp(d) PROVE HistoryTypes'
  BY <1>0, <1>4, SMTT(30) DEF LinkUp, HistoryTypes
<1>5. ASSUME NEW d \in Devices, LinkDown(d) PROVE HistoryTypes'
  <2>1. asked' = asked /\ refused' = refused
    BY <1>5 DEF LinkDown
  <2>2. budget' \in [connect : Nat, loss : Nat, refusal : Nat]
    BY <1>5 DEF LinkDown, HistoryTypes
  <2> QED
    BY <2>1, <2>2 DEF HistoryTypes
<1>6. ASSUME Crash PROVE HistoryTypes'
  <2>1. asked' = [d \in Devices |-> <<>>] /\ refused' = [d \in Devices |-> FALSE]
    BY <1>6 DEF Crash
  <2>2. budget.loss > 0 /\ budget' = [budget EXCEPT !.loss = budget.loss - 1]
    BY <1>6 DEF Crash
  <2>3. budget' \in [connect : Nat, loss : Nat, refusal : Nat]
    BY <2>2 DEF HistoryTypes
  <2> QED
    BY <1>0, <2>1, <2>3 DEF HistoryTypes
<1> QED
  BY <1>1, <1>2, <1>3, <1>4, <1>5, <1>6 DEF DiscoveryNext
-----------------------------------------------------------------------------
(* The order of the walk.  Every documented request has a place: its phase  *)
(* and its position; the places are ordered like the requests.              *)

Quads == Nat \X Nat \X Nat \X Nat
Less(k, l) ==
    \/ k[1] < l[1]
    \/ k[1] = l[1] /\ k[2] < l[2]
    \/ k[1] = l[1] /\ k[2] = l[2] /\ k[3] < l[3]
    \/ k[1] = l[1] /\ k[2] = l[2] /\ k[3] = l[3] /\ k[4] < l[4]

\* The places of a layout ...
InPlace(L, k) == k[2] \in 1..Len(L) /\ ~L[k[2]].empty
DueHere(L, k) ==
    \/ k[3] = 0 /\ k[4] \in {0, 1}
    \/ /\ k[3] \in 1..Len(L[k[2]].chars)
       /\ \/ k[4] = 0 /\ L[k[2]].chars[k[3]].readable
          \/ k[4] = 1 /\ RoomIn(L, k[2], k[3])
Due(L, loaded, k) ==
    \/ k = <<1, 0, 0, 0>>
    \/ k = <<2, 0, 0, 0>> /\ ~loaded
    \/ k[1] = 3 /\ ~loaded /\ InPlace(L, k) /\ DueHere(L, k)
    \/ k[1] = 4 /\ <<k[2], k[3], k[4]>> \in Positions(Known(L))
Dues(L, loaded) == {k \in Quads : Due(L, loaded, k)}

\* ... and what is asked for at each.
OpAt(L, k) ==
    CASE k[1] = 1 -> "mtu"
      [] k[1] = 2 -> "primary"
      [] k[1] = 3 /\ k[3] = 0 /\ k[4] = 0 -> "included"
      [] k[1] = 3 /\ k[3] = 0 /\ k[4] = 1 -> "characteristics"
      [] k[1] = 3 /\ k[3] # 0 /\ k[4] = 0 -> "value"
      [] k[1] = 3 /\ k[3] # 0 /\ k[4] = 1 -> "descriptors"
      [] OTHER -> ToConfigure(Known(L), <<k[2], k[3], k[4]>>)
AskedAt(L, k) == Request(OpAt(L, k), k[2], k[3], IF k[1] = 4 THEN k[4] ELSE 0)

\* A quadruple is its four parts.
LEMMA QuadIs ==
  ASSUME NEW k \in Quads
  PROVE  /\ k = <<k[1], k[2], k[3], k[4]>>
         /\ k[1] \in Nat /\ k[2] \in Nat /\ k[3] \in Nat /\ k[4] \in Nat
BY DEF Quads

\* The operations of the phases.
LEMMA OpsOfPhases ==
  ASSUME NEW L, NEW loaded \in BOOLEAN, NEW k \in Dues(L, loaded)
  PROVE  /\ k[1] = 1 => OpAt(L, k) = "mtu" /\ k = <<1, 0, 0, 0>>
         /\ k[1] = 2 => OpAt(L, k) = "primary" /\ k = <<2, 0, 0, 0>> /\ loaded = FALSE
         /\ k[1] = 3 => /\ loaded = FALSE /\ InPlace(L, k) /\ DueHere(L, k)
                        /\ \/ k[3] = 0 /\ k[4] = 0 /\ OpAt(L, k) = "included"
                           \/ k[3] = 0 /\ k[4] = 1 /\ OpAt(L, k) = "characteristics"
                           \/ k[3] # 0 /\ k[4] = 0 /\ OpAt(L, k) = "value"
                           \/ k[3] # 0 /\ k[4] = 1 /\ OpAt(L, k) = "descriptors"
         /\ k[1] = 4 => /\ <<k[2], k[3], k[4]>> \in Positions(Known(L))
                        /\ OpAt(L, k) = ToConfigure(Known(L), <<k[2], k[3], k[4]>>)
                        /\ OpAt(L, k) \in {"read", "write"}
         /\ k[1] \in 1..4 /\ k \in Quads
<1>1. k \in Quads /\ Due(L, loaded, k)
  BY DEF Dues
<1>2. k[1] \in 1..4
  BY <1>1 DEF Due
<1>3. k[1] = 1 => OpAt(L, k) = "mtu" /\ k = <<1, 0, 0, 0>>
  BY <1>1 DEF Due, OpAt
<1>4. k[1] = 2 => OpAt(L, k) = "primary" /\ k = <<2, 0, 0, 0>> /\ loaded = FALSE
  BY <1>1 DEF Due, OpAt
<1>5. ASSUME k[1] = 3
      PROVE  /\ loaded = FALSE /\ InPlace(L, k) /\ DueHere(L, k)
             /\ \/ k[3] = 0 /\ k[4] = 0 /\ OpAt(L, k) = "included"
                \/ k[3] = 0 /\ k[4] = 1 /\ OpAt(L, k) = "characteristics"
                \/ k[3] # 0 /\ k[4] = 0 /\ OpAt(L, k) = "value"
                \/ k[3] # 0 /\ k[4] = 1 /\ OpAt(L, k) = "descriptors"
  <2>1. loaded = FALSE /\ InPlace(L, k) /\ DueHere(L, k)
    BY <1>1, <1>5 DEF Due
  <2>2. k[4] \in {0, 1}
    BY <2>1 DEF DueHere
  <2> QED
    BY <1>5, <2>1, <2>2 DEF OpAt
<1>6. ASSUME k[1] = 4
      PROVE  /\ <<k[2], k[3], k[4]>> \in Positions(Known(L))
             /\ OpAt(L, k) = ToConfigure(Known(L), <<k[2], k[3], k[4]>>)
  BY <1>1, <1>6 DEF Due, OpAt
<1>7. \A p : ToConfigure(Known(L), p) \in {"read", "write"}
  BY DEF ToConfigure
<1> QED
  BY <1>1, <1>2, <1>3, <1>4, <1>5, <1>6, <1>7

\* The phase and the position of what is asked for at a place.
LEMMA PlaceOf ==
  ASSUME NEW L, NEW loaded \in BOOLEAN, NEW k \in Dues(L, loaded)
  PROVE  /\ Phase(AskedAt(L, k)) = k[1]
         /\ Position(AskedAt(L, k)) = <<k[2], k[3], k[4]>>
         /\ AskedAt(L, k).op = OpAt(L, k)
<1> DEFINE q == AskedAt(L, k)
<1>1. q.op = OpAt(L, k) /\ q.svc = k[2] /\ q.chr = k[3]
      /\ q.des = (IF k[1] = 4 THEN k[4] ELSE 0)
  BY RequestIs DEF AskedAt
<1> HIDE DEF q
<1>2. CASE k[1] = 1
  <2>1. q.op = "mtu" /\ k[2] = 0 /\ k[3] = 0 /\ k[4] = 0
    <3>1. k = <<1, 0, 0, 0>> /\ OpAt(L, k) = "mtu"
      BY <1>2, OpsOfPhases
    <3> QED
      BY <1>1, <3>1
  <2> QED
    BY <1>1, <1>2, <2>1 DEF Phase, Position, q
<1>3. CASE k[1] = 2
  <2>1. q.op = "primary" /\ k[2] = 0 /\ k[3] = 0 /\ k[4] = 0
    <3>1. k = <<2, 0, 0, 0>> /\ OpAt(L, k) = "primary"
      BY <1>3 DEF Dues, Due, OpAt
    <3> QED
      BY <1>1, <3>1
  <2> QED
    BY <1>1, <1>3, <2>1 DEF Phase, Position, q
<1>4. CASE k[1] = 3
  <2>1. \/ q.op = "included" /\ k[4] = 0
        \/ q.op = "characteristics" /\ k[4] = 1
        \/ q.op = "value" /\ k[4] = 0
        \/ q.op = "descriptors" /\ k[4] = 1
    <3>1. \/ k[3] = 0 /\ k[4] = 0 /\ OpAt(L, k) = "included"
          \/ k[3] = 0 /\ k[4] = 1 /\ OpAt(L, k) = "characteristics"
          \/ k[3] # 0 /\ k[4] = 0 /\ OpAt(L, k) = "value"
          \/ k[3] # 0 /\ k[4] = 1 /\ OpAt(L, k) = "descriptors"
      BY <1>4, OpsOfPhases, Zenon
    <3> QED
      BY <1>1, <3>1, Zenon
  <2> QED
    BY <1>1, <1>4, <2>1 DEF Phase, Position, q
<1>5. CASE k[1] = 4
  <2>1. q.op \in {"read", "write"}
    BY <1>1, <1>5, OpsOfPhases
  <2> QED
    BY <1>1, <1>5, <2>1 DEF Phase, Position, q
<1>6. k[1] \in 1..4
  BY OpsOfPhases
<1> QED
  BY <1>1, <1>2, <1>3, <1>4, <1>5, <1>6 DEF q

\* The order of places, written out.
LEMMA BeforeIs ==
  ASSUME NEW a \in Nat, NEW b \in Nat, NEW c \in Nat,
         NEW x \in Nat, NEW y \in Nat, NEW z \in Nat
  PROVE  Before(<<a, b, c>>, <<x, y, z>>) <=>
            \/ a < x
            \/ a = x /\ b < y
            \/ a = x /\ b = y /\ c < z
BY DEF Before

\* Requests are ordered like their places, ...
LEMMA EarlierIs ==
  ASSUME NEW L, NEW loaded \in BOOLEAN, NEW k \in Dues(L, loaded), NEW l \in Dues(L, loaded)
  PROVE  Earlier(AskedAt(L, k), AskedAt(L, l)) <=> Less(k, l)
<1>1. Phase(AskedAt(L, k)) = k[1] /\ Phase(AskedAt(L, l)) = l[1]
  BY PlaceOf
<1>2. /\ Position(AskedAt(L, k)) = <<k[2], k[3], k[4]>>
      /\ Position(AskedAt(L, l)) = <<l[2], l[3], l[4]>>
  BY PlaceOf
<1>3. Before(<<k[2], k[3], k[4]>>, <<l[2], l[3], l[4]>>) <=>
         \/ k[2] < l[2]
         \/ k[2] = l[2] /\ k[3] < l[3]
         \/ k[2] = l[2] /\ k[3] = l[3] /\ k[4] < l[4]
  <2>1. k \in Quads /\ l \in Quads
    BY DEF Dues
  <2> QED
    BY <2>1, QuadIs, BeforeIs
<1>4. Earlier(AskedAt(L, k), AskedAt(L, l)) <=>
         \/ k[1] < l[1]
         \/ k[1] = l[1] /\ Before(<<k[2], k[3], k[4]>>, <<l[2], l[3], l[4]>>)
  BY <1>1, <1>2, Zenon DEF Earlier
<1> QED
  BY <1>3, <1>4, Zenon DEF Less

\* ... which one order goes through.
LEMMA LessIsAnOrder ==
  ASSUME NEW j \in Quads, NEW k \in Quads, NEW l \in Quads
  PROVE  /\ ~Less(k, k)
         /\ Less(j, k) /\ Less(k, l) => Less(j, l)
         /\ k = l \/ Less(k, l) \/ Less(l, k)
<1>1. ~Less(k, k)
  BY QuadIs DEF Less
<1>2. Less(j, k) /\ Less(k, l) => Less(j, l)
  BY QuadIs DEF Less
<1>3. k = l \/ Less(k, l) \/ Less(l, k)
  <2>1. k = <<k[1], k[2], k[3], k[4]>> /\ l = <<l[1], l[2], l[3], l[4]>>
    BY QuadIs
  <2>2. \/ k[1] = l[1] /\ k[2] = l[2] /\ k[3] = l[3] /\ k[4] = l[4]
        \/ Less(k, l) \/ Less(l, k)
    BY QuadIs DEF Less
  <2> QED
    BY <2>1, <2>2
<1> QED
  BY <1>1, <1>2, <1>3

\* The places of the requests.
LEMMA QuadOf ==
  ASSUME NEW p \in Nat, NEW x \in Nat, NEW y \in Nat, NEW z \in Nat
  PROVE  LET k == <<p, x, y, z>>
         IN  k \in Quads /\ k[1] = p /\ k[2] = x /\ k[3] = y /\ k[4] = z
BY DEF Quads

\* The MTU and the services have their places, ...
LEMMA FirstPlaces ==
  ASSUME NEW L
  PROVE  /\ \A loaded \in BOOLEAN : <<1, 0, 0, 0>> \in Dues(L, loaded)
         /\ <<2, 0, 0, 0>> \in Dues(L, FALSE)
         /\ AskedAt(L, <<1, 0, 0, 0>>) = Request("mtu", 0, 0, 0)
         /\ AskedAt(L, <<2, 0, 0, 0>>) = Request("primary", 0, 0, 0)
<1>1. <<1, 0, 0, 0>> \in Quads /\ <<2, 0, 0, 0>> \in Quads
  BY QuadOf
<1>2. \A loaded \in BOOLEAN : Due(L, loaded, <<1, 0, 0, 0>>)
  BY DEF Due
<1>3. Due(L, FALSE, <<2, 0, 0, 0>>)
  BY DEF Due
<1>4. ASSUME NEW p \in {1, 2}
      PROVE  AskedAt(L, <<p, 0, 0, 0>>) = Request(IF p = 1 THEN "mtu" ELSE "primary", 0, 0, 0)
  <2> DEFINE k == <<p, 0, 0, 0>>
  <2>1. k[1] = p /\ k[2] = 0 /\ k[3] = 0 /\ k[4] = 0
    OBVIOUS
  <2> HIDE DEF k
  <2>2. OpAt(L, k) = IF p = 1 THEN "mtu" ELSE "primary"
    BY <2>1 DEF OpAt
  <2>3. AskedAt(L, k) = Request(OpAt(L, k), 0, 0, 0)
    BY <2>1 DEF AskedAt
  <2> QED
    BY <2>2, <2>3 DEF k
<1>5. AskedAt(L, <<1, 0, 0, 0>>) = Request("mtu", 0, 0, 0)
  BY <1>4, Zenon
<1>6. AskedAt(L, <<2, 0, 0, 0>>) = Request("primary", 0, 0, 0)
  <2>1. PICK p \in {1, 2} : p = 2
    OBVIOUS
  <2>2. AskedAt(L, <<p, 0, 0, 0>>) = Request("primary", 0, 0, 0)
    BY <1>4, <2>1
  <2> QED
    BY <2>1, <2>2
<1> QED
  BY <1>1, <1>2, <1>3, <1>5, <1>6 DEF Dues

\* ... a service with a range has two, ...
LEMMA ServicePlaces ==
  ASSUME NEW L, NEW s \in 1..Len(L), Len(L) \in Nat, ~L[s].empty, NEW z \in {0, 1}
  PROVE  /\ <<3, s, 0, z>> \in Dues(L, FALSE)
         /\ AskedAt(L, <<3, s, 0, z>>)
               = Request(IF z = 0 THEN "included" ELSE "characteristics", s, 0, 0)
<1> DEFINE k == <<3, s, 0, z>>
<1>1. s \in Nat /\ z \in Nat
  OBVIOUS
<1>2. k \in Quads /\ k[1] = 3 /\ k[2] = s /\ k[3] = 0 /\ k[4] = z
  BY <1>1, QuadOf
<1> HIDE DEF k
<1>3. InPlace(L, k) /\ DueHere(L, k)
  BY <1>2 DEF InPlace, DueHere
<1>4. Due(L, FALSE, k)
  BY <1>2, <1>3 DEF Due
<1>5. OpAt(L, k) = IF z = 0 THEN "included" ELSE "characteristics"
  BY <1>2 DEF OpAt
<1>6. AskedAt(L, k) = Request(OpAt(L, k), s, 0, 0)
  BY <1>2 DEF AskedAt
<1> QED
  BY <1>2, <1>4, <1>5, <1>6 DEF Dues, k

\* ... a characteristic has one for its value and one for its descriptors ...
LEMMA CharacteristicPlaces ==
  ASSUME NEW L, NEW s \in 1..Len(L), Len(L) \in Nat, ~L[s].empty,
         NEW c \in 1..Len(L[s].chars), Len(L[s].chars) \in Nat, NEW z \in {0, 1},
         IF z = 0 THEN L[s].chars[c].readable ELSE RoomIn(L, s, c)
  PROVE  /\ <<3, s, c, z>> \in Dues(L, FALSE)
         /\ AskedAt(L, <<3, s, c, z>>)
               = Request(IF z = 0 THEN "value" ELSE "descriptors", s, c, 0)
<1> DEFINE k == <<3, s, c, z>>
<1>1. s \in Nat /\ c \in Nat /\ c # 0 /\ z \in Nat
  OBVIOUS
<1>2. k \in Quads /\ k[1] = 3 /\ k[2] = s /\ k[3] = c /\ k[4] = z
  BY <1>1, QuadOf
<1> HIDE DEF k
<1>3. InPlace(L, k) /\ DueHere(L, k)
  BY <1>2 DEF InPlace, DueHere
<1>4. Due(L, FALSE, k)
  BY <1>2, <1>3 DEF Due
<1>5. OpAt(L, k) = IF z = 0 THEN "value" ELSE "descriptors"
  BY <1>1, <1>2 DEF OpAt
<1>6. AskedAt(L, k) = Request(OpAt(L, k), s, c, 0)
  BY <1>2 DEF AskedAt
<1> QED
  BY <1>2, <1>4, <1>5, <1>6 DEF Dues, k

\* ... and every descriptor has its own.
LEMMA PositionPlaces ==
  ASSUME NEW L \in Armbands, NEW loaded \in BOOLEAN, NEW p \in Positions(Known(L))
  PROVE  /\ <<4, p[1], p[2], p[3]>> \in Dues(L, loaded)
         /\ AskedAt(L, <<4, p[1], p[2], p[3]>>)
               = Request(ToConfigure(Known(L), p), p[1], p[2], p[3])
<1> DEFINE k == <<4, p[1], p[2], p[3]>>
<1>1. p \in Triples
  BY KnownShape, PositionsAre
<1>2. p = <<p[1], p[2], p[3]>> /\ p[1] \in Nat /\ p[2] \in Nat /\ p[3] \in Nat
  BY <1>1 DEF Triples
<1>3. k \in Quads /\ k[1] = 4 /\ k[2] = p[1] /\ k[3] = p[2] /\ k[4] = p[3]
  BY <1>2, QuadOf
<1>4. <<k[2], k[3], k[4]>> = p
  BY <1>2, <1>3
<1> HIDE DEF k
<1>5. Due(L, loaded, k)
  BY <1>3, <1>4 DEF Due
<1>6. OpAt(L, k) = ToConfigure(Known(L), p)
  BY <1>3, <1>4 DEF OpAt
<1>7. AskedAt(L, k) = Request(OpAt(L, k), p[1], p[2], p[3])
  BY <1>3 DEF AskedAt
<1> QED
  BY <1>3, <1>5, <1>6, <1>7 DEF Dues, k

\* What is documented is asked for at one of the places, ...
LEMMA PlaceFound ==
  ASSUME NEW L \in Armbands, NEW loaded \in BOOLEAN, NEW q \in Documented(L, loaded)
  PROVE  \E k \in Dues(L, loaded) : q = AskedAt(L, k)
<1>1. CASE q = Request("mtu", 0, 0, 0)
  BY <1>1, FirstPlaces
<1>2. CASE loaded = FALSE /\ q = Request("primary", 0, 0, 0)
  BY <1>2, FirstPlaces
<1>3. ASSUME loaded = FALSE, NEW s \in 1..Len(L), ~L[s].empty, q \in OfService(L, s)
      PROVE  \E k \in Dues(L, loaded) : q = AskedAt(L, k)
  <2>0. Len(L) \in Nat /\ Len(L[s].chars) \in Nat /\ DOMAIN L[s].chars = 1..Len(L[s].chars)
    BY Shape
  <2>1. CASE q = Request("included", s, 0, 0)
    <3>1. <<3, s, 0, 0>> \in Dues(L, FALSE) /\ AskedAt(L, <<3, s, 0, 0>>) = q
      BY <1>3, <2>0, <2>1, ServicePlaces
    <3> QED
      BY <1>3, <3>1
  <2>2. CASE q = Request("characteristics", s, 0, 0)
    <3>2. PICK z \in {0, 1} : z = 1
      OBVIOUS
    <3>3. <<3, s, 0, z>> \in Dues(L, FALSE) /\ AskedAt(L, <<3, s, 0, z>>) = q
      <4>1. /\ <<3, s, 0, z>> \in Dues(L, FALSE)
            /\ AskedAt(L, <<3, s, 0, z>>)
                  = Request(IF z = 0 THEN "included" ELSE "characteristics", s, 0, 0)
        BY <1>3, <2>0, ServicePlaces, Zenon
      <4>2. (IF z = 0 THEN "included" ELSE "characteristics") = "characteristics"
        BY <3>2
      <4> QED
        BY <2>2, <4>1, <4>2, Zenon
    <3>1. <<3, s, 0, 1>> \in Dues(L, FALSE) /\ AskedAt(L, <<3, s, 0, 1>>) = q
      BY <3>2, <3>3
    <3> QED
      BY <1>3, <3>1
  <2>3. ASSUME NEW c \in 1..Len(L[s].chars), L[s].chars[c].readable,
               q = Request("value", s, c, 0)
        PROVE  \E k \in Dues(L, loaded) : q = AskedAt(L, k)
    <3>1. <<3, s, c, 0>> \in Dues(L, FALSE) /\ AskedAt(L, <<3, s, c, 0>>) = q
      BY <1>3, <2>0, <2>3, CharacteristicPlaces
    <3> QED
      BY <1>3, <3>1
  <2>4. ASSUME NEW c \in 1..Len(L[s].chars), RoomIn(L, s, c),
               q = Request("descriptors", s, c, 0)
        PROVE  \E k \in Dues(L, loaded) : q = AskedAt(L, k)
    <3>2. PICK z \in {0, 1} : z = 1
      OBVIOUS
    <3>3. <<3, s, c, z>> \in Dues(L, FALSE) /\ AskedAt(L, <<3, s, c, z>>) = q
      <4>1. /\ <<3, s, c, z>> \in Dues(L, FALSE)
            /\ AskedAt(L, <<3, s, c, z>>)
                  = Request(IF z = 0 THEN "value" ELSE "descriptors", s, c, 0)
        <5>1. IF z = 0 THEN L[s].chars[c].readable ELSE RoomIn(L, s, c)
          BY <2>4, <3>2
        <5> QED
          BY <1>3, <2>0, <5>1, CharacteristicPlaces
      <4>2. (IF z = 0 THEN "value" ELSE "descriptors") = "descriptors"
        BY <3>2
      <4> QED
        BY <2>4, <4>1, <4>2, Zenon
    <3>1. <<3, s, c, 1>> \in Dues(L, FALSE) /\ AskedAt(L, <<3, s, c, 1>>) = q
      BY <3>2, <3>3
    <3> QED
      BY <1>3, <3>1
  <2>5. \/ q = Request("included", s, 0, 0) \/ q = Request("characteristics", s, 0, 0)
        \/ \E c \in 1..Len(L[s].chars) :
              L[s].chars[c].readable /\ q = Request("value", s, c, 0)
        \/ \E c \in 1..Len(L[s].chars) : RoomIn(L, s, c) /\ q = Request("descriptors", s, c, 0)
    BY <1>3, <2>0 DEF OfService, RoomIn
  <2> QED
    BY <2>1, <2>2, <2>3, <2>4, <2>5
<1>4. ASSUME NEW p \in Positions(Known(L)),
             q = Request(ToConfigure(Known(L), p), p[1], p[2], p[3])
      PROVE  \E k \in Dues(L, loaded) : q = AskedAt(L, k)
  BY <1>4, PositionPlaces
<1>5. DOMAIN L = 1..Len(L)
  BY Shape
<1> QED
  BY <1>1, <1>2, <1>3, <1>4, <1>5 DEF Documented

\* ... and at each of them something documented is.
LEMMA PlaceIsDocumented ==
  ASSUME NEW L \in Armbands, NEW loaded \in BOOLEAN, NEW k \in Dues(L, loaded)
  PROVE  AskedAt(L, k) \in Documented(L, loaded)
<1> DEFINE q == AskedAt(L, k)
<1>1. CASE k[1] = 1
  <2>1. k = <<1, 0, 0, 0>>
    BY <1>1 DEF Dues, Due
  <2> QED
    BY <2>1, FirstPlaces DEF Documented
<1>2. CASE k[1] = 2
  <2>1. k = <<2, 0, 0, 0>> /\ loaded = FALSE
    BY <1>2 DEF Dues, Due
  <2> QED
    BY <2>1, FirstPlaces DEF Documented
<1>3. CASE k[1] = 3
  <2> DEFINE s == k[2]
             c == k[3]
  <2>1. loaded = FALSE /\ s \in DOMAIN L /\ ~L[s].empty /\ DueHere(L, k)
    BY <1>3, OpsOfPhases, Shape DEF InPlace
  <2>2. q = Request(OpAt(L, k), s, c, 0)
    BY <1>3 DEF AskedAt
  <2>3. DOMAIN L[s].chars = 1..Len(L[s].chars)
    BY <2>1, Shape
  <2>4. \/ c = 0 /\ OpAt(L, k) = "included"
        \/ c = 0 /\ OpAt(L, k) = "characteristics"
        \/ c # 0 /\ k[4] = 0 /\ OpAt(L, k) = "value"
        \/ c # 0 /\ k[4] = 1 /\ OpAt(L, k) = "descriptors"
    BY <1>3, OpsOfPhases, Zenon
  <2> HIDE DEF q, s, c
  <2>5. q \in OfService(L, s)
    <3>1. CASE c = 0 /\ OpAt(L, k) = "included"
      BY <2>2, <3>1 DEF OfService
    <3>2. CASE c = 0 /\ OpAt(L, k) = "characteristics"
      BY <2>2, <3>2 DEF OfService
    <3>3. CASE c # 0 /\ k[4] = 0 /\ OpAt(L, k) = "value"
      <4>1. c \in DOMAIN L[s].chars /\ L[s].chars[c].readable
        BY <2>1, <2>3, <3>3 DEF DueHere, s, c
      <4> QED
        BY <2>2, <3>3, <4>1 DEF OfService
    <3>4. CASE c # 0 /\ k[4] = 1 /\ OpAt(L, k) = "descriptors"
      <4>1. c \in DOMAIN L[s].chars /\ RoomIn(L, s, c)
        BY <2>1, <2>3, <3>4 DEF DueHere, s, c
      <4> QED
        BY <2>2, <3>4, <4>1 DEF OfService, RoomIn
    <3> QED
      BY <2>4, <3>1, <3>2, <3>3, <3>4
  <2> QED
    BY <2>1, <2>5 DEF Documented, q, s
<1>4. CASE k[1] = 4
  <2>1. PICK p \in Positions(Known(L)) : p = <<k[2], k[3], k[4]>>
    BY <1>4, OpsOfPhases
  <2>2. p[1] = k[2] /\ p[2] = k[3] /\ p[3] = k[4]
    BY <2>1
  <2>3. OpAt(L, k) = ToConfigure(Known(L), p)
    BY <1>4, <2>1, OpsOfPhases
  <2>4. q = Request(ToConfigure(Known(L), p), p[1], p[2], p[3])
    BY <1>4, <2>2, <2>3 DEF AskedAt
  <2> QED
    BY <2>4 DEF Documented
<1>5. k[1] \in 1..4
  BY OpsOfPhases
<1> QED
  BY <1>1, <1>2, <1>3, <1>4, <1>5

\* The place of a documented request.
LEMMA PlaceIs ==
  ASSUME NEW L \in Armbands, NEW loaded \in BOOLEAN, NEW q \in Documented(L, loaded)
  PROVE  \E k \in Dues(L, loaded) :
            /\ q = AskedAt(L, k)
            /\ q.op = "mtu" => k = <<1, 0, 0, 0>>
            /\ q.op = "primary" => k = <<2, 0, 0, 0>> /\ loaded = FALSE
            /\ q.op = "included" => k = <<3, q.svc, 0, 0>> /\ loaded = FALSE
            /\ q.op = "characteristics" => k = <<3, q.svc, 0, 1>> /\ loaded = FALSE
            /\ q.op = "value" => k = <<3, q.svc, q.chr, 0>> /\ loaded = FALSE
            /\ q.op = "descriptors" => k = <<3, q.svc, q.chr, 1>> /\ loaded = FALSE
            /\ q.op \in {"read", "write"} => k = <<4, q.svc, q.chr, q.des>>
<1>1. PICK k \in Dues(L, loaded) : q = AskedAt(L, k)
  BY PlaceFound
<1>2. q.op = OpAt(L, k) /\ q.svc = k[2] /\ q.chr = k[3]
      /\ q.des = (IF k[1] = 4 THEN k[4] ELSE 0)
  BY <1>1, RequestIs DEF AskedAt
<1>3. k = <<k[1], k[2], k[3], k[4]>>
  BY QuadIs DEF Dues
<1>4. k[1] \in 1..4
  BY OpsOfPhases
<1>5. CASE k[1] = 1
  <2>1. q.op = "mtu" /\ k = <<1, 0, 0, 0>>
    BY <1>2, <1>5, OpsOfPhases
  <2> QED
    BY <1>1, <2>1
<1>6. CASE k[1] = 2
  <2>1. k = <<2, 0, 0, 0>> /\ loaded = FALSE
    BY <1>6 DEF Dues, Due
  <2>2. q.op = "primary"
    BY <1>2, <1>6 DEF OpAt
  <2> QED
    BY <1>1, <2>1, <2>2
<1>7. CASE k[1] = 3
  <2>1. \/ k[3] = 0 /\ k[4] = 0 /\ q.op = "included"
        \/ k[3] = 0 /\ k[4] = 1 /\ q.op = "characteristics"
        \/ k[3] # 0 /\ k[4] = 0 /\ q.op = "value"
        \/ k[3] # 0 /\ k[4] = 1 /\ q.op = "descriptors"
    BY <1>2, <1>7, OpsOfPhases, Zenon
  <2>2. loaded = FALSE
    BY <1>7 DEF Dues, Due
  <2>3. q.op = "included" => k = <<3, q.svc, 0, 0>>
    BY <1>2, <1>3, <1>7, <2>1
  <2>4. q.op = "characteristics" => k = <<3, q.svc, 0, 1>>
    BY <1>2, <1>3, <1>7, <2>1
  <2>5. q.op = "value" => k = <<3, q.svc, q.chr, 0>>
    BY <1>2, <1>3, <1>7, <2>1
  <2>6. q.op = "descriptors" => k = <<3, q.svc, q.chr, 1>>
    BY <1>2, <1>3, <1>7, <2>1
  <2> QED
    BY <1>1, <2>1, <2>2, <2>3, <2>4, <2>5, <2>6
<1>8. CASE k[1] = 4
  <2>1. q.op \in {"read", "write"}
    BY <1>2, <1>8, OpsOfPhases, Zenon
  <2>2. k = <<4, q.svc, q.chr, q.des>>
    BY <1>2, <1>3, <1>8
  <2> QED
    BY <1>1, <2>1, <2>2
<1>9. k[1] = 1 \/ k[1] = 2 \/ k[1] = 3 \/ k[1] = 4
  BY <1>4
<1> QED
  BY <1>5, <1>6, <1>7, <1>8, <1>9, Zenon

\* Of two documented requests one is earlier, and so on.
LEMMA WalkIsLinear ==
  ASSUME NEW L \in Armbands, NEW loaded \in BOOLEAN, NEW o \in Documented(L, loaded),
         NEW q \in Documented(L, loaded), NEW x \in Documented(L, loaded)
  PROVE  /\ o = q \/ Earlier(o, q) \/ Earlier(q, o)
         /\ ~Earlier(o, o)
         /\ Earlier(o, q) /\ Earlier(q, x) => Earlier(o, x)
<1>1. PICK i \in Dues(L, loaded) : o = AskedAt(L, i)
  BY PlaceFound
<1>2. PICK j \in Dues(L, loaded) : q = AskedAt(L, j)
  BY PlaceFound
<1>3. PICK k \in Dues(L, loaded) : x = AskedAt(L, k)
  BY PlaceFound
<1>4. i \in Quads /\ j \in Quads /\ k \in Quads
  BY DEF Dues
<1>5. /\ Earlier(o, q) <=> Less(i, j)
      /\ Earlier(q, o) <=> Less(j, i)
      /\ Earlier(o, o) <=> Less(i, i)
      /\ Earlier(q, x) <=> Less(j, k)
      /\ Earlier(o, x) <=> Less(i, k)
  BY <1>1, <1>2, <1>3, EarlierIs
<1>6. /\ i = j \/ Less(i, j) \/ Less(j, i)
      /\ ~Less(i, i)
      /\ Less(i, j) /\ Less(j, k) => Less(i, k)
  BY <1>4, LessIsAnOrder
<1> QED
  BY <1>1, <1>2, <1>5, <1>6

\* The next request: nothing that is documented lies between it and the last.
NextPlace(L, loaded, k, l) ==
    Less(k, l) /\ \A o \in Dues(L, loaded) : ~(Less(k, o) /\ Less(o, l))

\* A walk goes on with the next request.
LEMMA GoesOn ==
  ASSUME NEW L \in Armbands, NEW loaded \in BOOLEAN, NEW a \in Seq(Requests), a # <<>>,
         InOrder(L, loaded, a), NEW k \in Dues(L, loaded), LastAsked(a) = AskedAt(L, k),
         NEW l \in Dues(L, loaded), NextPlace(L, loaded, k, l),
         NEW q \in Requests, q = AskedAt(L, l)
  PROVE  /\ InOrder(L, loaded, Append(a, q)) /\ Append(a, q) # <<>>
         /\ LastAsked(Append(a, q)) = q
<1> DEFINE D == Documented(L, loaded)
           b == Append(a, q)
           n == Len(a)
           last == LastAsked(a)
<1>1. /\ n \in Nat /\ n >= 1 /\ DOMAIN a = 1..n /\ a \in [1..n -> Requests]
  BY EmptySeq, LenProperties
<1>2. /\ b \in Seq(Requests) /\ Len(b) = n + 1 /\ b[n + 1] = q /\ DOMAIN b = 1..n + 1
      /\ \A i \in 1..n : b[i] = a[i]
  <2>1. /\ Append(a, q) \in Seq(Requests) /\ Len(Append(a, q)) = Len(a) + 1
        /\ \A i \in 1..Len(a) : Append(a, q)[i] = a[i] /\ Append(a, q)[Len(a) + 1] = q
    BY AppendProperties
  <2> QED
    BY <1>1, <2>1
<1>3. last \in D /\ q \in D
  BY PlaceIsDocumented
<1>4. Earlier(last, q) /\ \A o \in D : ~(Earlier(last, o) /\ Earlier(o, q))
  <2>1. Earlier(last, q)
    BY EarlierIs DEF NextPlace
  <2>2. ASSUME NEW o \in D, Earlier(last, o), Earlier(o, q) PROVE FALSE
    <3>1. PICK i \in Dues(L, loaded) : o = AskedAt(L, i)
      BY PlaceFound
    <3>2. Less(k, i) /\ Less(i, l)
      BY <2>2, <3>1, EarlierIs
    <3> QED
      BY <3>2 DEF NextPlace
  <2> QED
    BY <2>1, <2>2
<1>5. Range(a) = UpTo(D, last) /\ \A i, j \in DOMAIN a : i < j => Earlier(a[i], a[j])
  BY DEF InOrder
<1>6. \A i \in 1..n : a[i] \in D /\ Earlier(a[i], q)
  <2> SUFFICES ASSUME NEW i \in 1..n PROVE a[i] \in D /\ Earlier(a[i], q)
    OBVIOUS
  <2>1. a[i] \in UpTo(D, last)
    BY <1>1, <1>5 DEF Range
  <2>2. a[i] \in D /\ (a[i] = last \/ Earlier(a[i], last))
    BY <2>1 DEF UpTo
  <2> HIDE DEF D, last
  <2> QED
    BY <1>3, <1>4, <2>2, WalkIsLinear DEF D
<1>7. \A i, j \in DOMAIN b : i < j => Earlier(b[i], b[j])
  <2> HIDE DEF D, b, n, last
  <2> SUFFICES ASSUME NEW i \in 1..n + 1, NEW j \in 1..n + 1, i < j
               PROVE  Earlier(b[i], b[j])
    BY <1>2
  <2>1. CASE j = n + 1
    <3>1. i \in 1..n
      BY <1>1, <2>1
    <3> QED
      BY <1>2, <1>6, <2>1, <3>1
  <2>2. CASE j # n + 1
    <3>1. i \in 1..n /\ j \in 1..n
      BY <1>1, <2>2
    <3> QED
      BY <1>1, <1>2, <1>5, <3>1
  <2> QED
    BY <2>1, <2>2
<1>8. Range(b) = Range(a) \cup {q}
  <2> HIDE DEF D, b, n, last
  <2>1. 1..n + 1 = 1..n \cup {n + 1}
    BY <1>1
  <2>2. Range(b) = {b[i] : i \in 1..n + 1} /\ Range(a) = {a[i] : i \in 1..n}
    BY <1>1, <1>2 DEF Range
  <2> QED
    BY <1>2, <2>1, <2>2
<1>9. Range(b) = UpTo(D, q)
  <2> HIDE DEF b, n, last
  <2>1. ASSUME NEW o \in UpTo(D, last) PROVE o \in UpTo(D, q)
    BY <1>3, <1>4, <2>1, WalkIsLinear DEF UpTo
  <2>2. ASSUME NEW o \in UpTo(D, q), o # q PROVE o \in UpTo(D, last)
    BY <1>3, <1>4, <2>2, WalkIsLinear DEF UpTo
  <2>3. q \in UpTo(D, q)
    BY <1>3 DEF UpTo
  <2> HIDE DEF D
  <2> QED
    BY <1>5, <1>8, <2>1, <2>2, <2>3
<1>10. b # <<>> /\ LastAsked(b) = q
  <2> HIDE DEF b, n
  <2> QED
    BY <1>1, <1>2, EmptySeq DEF LastAsked
<1> HIDE DEF D, b, n, last
<1> QED
  BY <1>3, <1>7, <1>9, <1>10 DEF InOrder, D, b

\* The places that follow each other.
LEMMA LessFrom ==
  ASSUME NEW p, NEW x, NEW y, NEW z, NEW o
  PROVE  Less(<<p, x, y, z>>, o) <=>
            \/ p < o[1]
            \/ p = o[1] /\ x < o[2]
            \/ p = o[1] /\ x = o[2] /\ y < o[3]
            \/ p = o[1] /\ x = o[2] /\ y = o[3] /\ z < o[4]
BY DEF Less

\* What is less than a place, written out.
LEMMA LessTo ==
  ASSUME NEW p, NEW x, NEW y, NEW z, NEW o
  PROVE  Less(o, <<p, x, y, z>>) <=>
            \/ o[1] < p
            \/ o[1] = p /\ o[2] < x
            \/ o[1] = p /\ o[2] = x /\ o[3] < y
            \/ o[1] = p /\ o[2] = x /\ o[3] = y /\ o[4] < z
BY DEF Less

\* The MTU exchange comes first, ...
LEMMA OnlyMTU ==
  ASSUME NEW L \in Armbands, NEW loaded \in BOOLEAN
  PROVE  LET q == Request("mtu", 0, 0, 0)
         IN  q \in Documented(L, loaded) /\ UpTo(Documented(L, loaded), q) = {q}
<1> DEFINE q == Request("mtu", 0, 0, 0)
           k == <<1, 0, 0, 0>>
<1>1. k \in Dues(L, loaded) /\ AskedAt(L, k) = q
  BY FirstPlaces
<1>2. q \in Documented(L, loaded)
  BY <1>1, PlaceIsDocumented
<1>3. ASSUME NEW o \in Documented(L, loaded), Earlier(o, q) PROVE FALSE
  <2>1. PICK i \in Dues(L, loaded) : o = AskedAt(L, i)
    BY PlaceFound
  <2>2. Less(i, k)
    <3> HIDE DEF q, k
    <3> QED
      BY <1>1, <1>3, <2>1, EarlierIs
  <2>3. i \in Quads /\ i[1] \in 1..4
    BY OpsOfPhases
  <2>4. i[2] \in Nat /\ i[3] \in Nat /\ i[4] \in Nat /\ i[1] >= 1
    BY <2>3, QuadIs
  <2>5. i[1] < 1 \/ i[2] < 0 \/ i[3] < 0 \/ i[4] < 0
    BY <2>2, LessTo, Zenon DEF k
  <2> QED
    BY <2>3, <2>4, <2>5
<1> HIDE DEF q, k
<1> QED
  BY <1>2, <1>3 DEF UpTo, q

\* The MTU is the first request.
LEMMA StartsWithMTU ==
  ASSUME NEW L \in Armbands, NEW loaded \in BOOLEAN
  PROVE  LET q == Request("mtu", 0, 0, 0)
             a == Append(<<>>, q)
         IN  InOrder(L, loaded, a) /\ a # <<>> /\ LastAsked(a) = q
<1> DEFINE q == Request("mtu", 0, 0, 0)
           a == Append(<<>>, q)
<1>1. a = <<q>> /\ Len(<<q>>) = 1 /\ DOMAIN <<q>> = {1} /\ <<q>>[1] = q
  OBVIOUS
<1> HIDE DEF q
<1>2. a # <<>> /\ LastAsked(a) = q /\ Range(a) = {q}
  BY <1>1 DEF LastAsked, Range
<1>3. \A i, j \in DOMAIN a : ~(i < j)
  BY <1>1
<1>4. q \in Documented(L, loaded) /\ UpTo(Documented(L, loaded), q) = {q}
  BY OnlyMTU DEF q
<1> HIDE DEF a
<1> QED
  BY <1>2, <1>3, <1>4 DEF InOrder, q, a

\* ... whether the services are loaded or not.
LEMMA MTUEither ==
  ASSUME NEW L \in Armbands, NEW loaded \in BOOLEAN, NEW a, a # <<>>,
         InOrder(L, loaded, a), LastAsked(a) = Request("mtu", 0, 0, 0), NEW x \in BOOLEAN
  PROVE  InOrder(L, x, a)
<1> DEFINE q == Request("mtu", 0, 0, 0)
<1>1. q \in Documented(L, x)
      /\ UpTo(Documented(L, x), q) = {q} /\ UpTo(Documented(L, loaded), q) = {q}
  BY OnlyMTU
<1> HIDE DEF q
<1>2. LastAsked(a) = q
  BY DEF q
<1> QED
  BY <1>1, <1>2 DEF InOrder

\* The services are discovered after it, ...
LEMMA FirstPlacesFollow ==
  ASSUME NEW L \in Armbands
  PROVE  /\ NextPlace(L, FALSE, <<1, 0, 0, 0>>, <<2, 0, 0, 0>>)
         /\ NextPlace(L, FALSE, <<2, 0, 0, 0>>, <<3, 1, 0, 0>>)
<1>1. ASSUME NEW o \in Dues(L, FALSE)
      PROVE  /\ o[1] \in 1..4 /\ o[2] \in Nat /\ o[3] \in Nat /\ o[4] \in Nat
             /\ o[1] = 1 => o[2] = 0 /\ o[3] = 0 /\ o[4] = 0
             /\ o[1] = 2 => o[2] = 0 /\ o[3] = 0 /\ o[4] = 0
             /\ o[1] = 3 => o[2] >= 1
  <2>1. o \in Quads /\ o[1] \in 1..4 /\ Due(L, FALSE, o)
    BY OpsOfPhases DEF Dues
  <2>2. o[1] = 1 \/ o[1] = 2 => o[2] = 0 /\ o[3] = 0 /\ o[4] = 0
    BY <2>1 DEF Due
  <2>3. o[1] = 3 => o[2] >= 1
    BY <2>1, Shape DEF Due, InPlace
  <2> QED
    BY <2>1, <2>2, <2>3, QuadIs
<1>2. Less(<<1, 0, 0, 0>>, <<2, 0, 0, 0>>) /\ Less(<<2, 0, 0, 0>>, <<3, 1, 0, 0>>)
  BY DEF Less
<1>3. ASSUME NEW o \in Dues(L, FALSE), Less(<<1, 0, 0, 0>>, o), Less(o, <<2, 0, 0, 0>>)
      PROVE  FALSE
  <2>1. \/ 1 < o[1]
        \/ 1 = o[1] /\ (0 < o[2] \/ 0 < o[3] \/ 0 < o[4])
    BY <1>3, LessFrom, Zenon
  <2>2. \/ o[1] < 2
        \/ o[1] = 2 /\ o[2] < 0
        \/ o[1] = 2 /\ o[2] = 0 /\ o[3] < 0
        \/ o[1] = 2 /\ o[2] = 0 /\ o[3] = 0 /\ o[4] < 0
    BY <1>3, LessTo, Zenon
  <2>3. /\ o[1] \in 1..4 /\ o[2] \in Nat /\ o[3] \in Nat /\ o[4] \in Nat
        /\ o[1] = 1 => o[2] = 0 /\ o[3] = 0 /\ o[4] = 0
    BY <1>1, Zenon
  <2>4. o[1] = 3 => o[2] >= 1
    BY <1>1, Zenon
  <2>5. o[1] = 2 => o[2] = 0 /\ o[3] = 0 /\ o[4] = 0
    BY <1>1, Zenon
  <2> QED
    BY <2>1, <2>2, <2>3, <2>4, <2>5
<1>4. ASSUME NEW o \in Dues(L, FALSE), Less(<<2, 0, 0, 0>>, o), Less(o, <<3, 1, 0, 0>>)
      PROVE  FALSE
  <2>1. \/ 2 < o[1]
        \/ 2 = o[1] /\ (0 < o[2] \/ 0 < o[3] \/ 0 < o[4])
    BY <1>4, LessFrom, Zenon
  <2>2. \/ o[1] < 3
        \/ o[1] = 3 /\ o[2] < 1
        \/ o[1] = 3 /\ o[2] = 1 /\ o[3] < 0
        \/ o[1] = 3 /\ o[2] = 1 /\ o[3] = 0 /\ o[4] < 0
    BY <1>4, LessTo, Zenon
  <2>3. /\ o[1] \in 1..4 /\ o[2] \in Nat /\ o[3] \in Nat /\ o[4] \in Nat
        /\ o[1] = 1 => o[2] = 0 /\ o[3] = 0 /\ o[4] = 0
    BY <1>1, Zenon
  <2>4. o[1] = 3 => o[2] >= 1
    BY <1>1, Zenon
  <2>5. o[1] = 2 => o[2] = 0 /\ o[3] = 0 /\ o[4] = 0
    BY <1>1, Zenon
  <2> QED
    BY <2>1, <2>2, <2>3, <2>4, <2>5
<1> QED
  BY <1>2, <1>3, <1>4 DEF NextPlace

\* ... the characteristics of a service after what it includes, and the
\* descriptors of a characteristic after its value.
LEMMA InnerPlacesFollow ==
  ASSUME NEW L, NEW loaded, NEW s \in Nat, NEW c \in Nat
  PROVE  NextPlace(L, loaded, <<3, s, c, 0>>, <<3, s, c, 1>>)
<1>1. Less(<<3, s, c, 0>>, <<3, s, c, 1>>)
  BY DEF Less
<1>2. ASSUME NEW o \in Dues(L, loaded), Less(<<3, s, c, 0>>, o), Less(o, <<3, s, c, 1>>)
      PROVE  FALSE
  <2>1. o[1] \in Nat /\ o[2] \in Nat /\ o[3] \in Nat /\ o[4] \in Nat
    BY QuadIs DEF Dues
  <2> QED
    BY <1>2, <2>1, LessFrom, LessTo
<1> QED
  BY <1>1, <1>2 DEF NextPlace

\* The walk has reached characteristic c of service s: nothing is left before
\* the next one.
Reached(L, k, s, c) ==
    /\ k[1] = 3 /\ ~Less(<<3, s, c, 1>>, k)
    /\ \A o \in Dues(L, FALSE) : o[1] = 3 /\ Less(k, o) => Less(<<3, s, c, 1>>, o)

\* The fields of the places at which something is to be asked.
LEMMA DueFields ==
  ASSUME NEW L, NEW loaded \in BOOLEAN, NEW o \in Dues(L, loaded)
  PROVE  /\ o \in Quads /\ o[1] \in 1..4
         /\ o[1] \in Nat /\ o[2] \in Nat /\ o[3] \in Nat /\ o[4] \in Nat
         /\ o[1] = 3 => /\ loaded = FALSE /\ o[2] \in 1..Len(L) /\ ~L[o[2]].empty
                        /\ o[4] \in {0, 1} /\ DueHere(L, o)
                        /\ o[3] = 0 \/ o[3] \in 1..Len(L[o[2]].chars)
<1>1. o \in Quads /\ o[1] \in 1..4 /\ Due(L, loaded, o)
  BY OpsOfPhases DEF Dues
<1>2. o[1] \in Nat /\ o[2] \in Nat /\ o[3] \in Nat /\ o[4] \in Nat
  BY <1>1, QuadIs
<1>3. ASSUME o[1] = 3
      PROVE  loaded = FALSE /\ InPlace(L, o) /\ DueHere(L, o)
  BY <1>1, <1>3 DEF Due
<1>4. ASSUME o[1] = 3
      PROVE  o[2] \in 1..Len(L) /\ ~L[o[2]].empty
  BY <1>3, <1>4 DEF InPlace
<1>5. ASSUME o[1] = 3
      PROVE  o[4] \in {0, 1} /\ (o[3] = 0 \/ o[3] \in 1..Len(L[o[2]].chars))
  BY <1>3, <1>5 DEF DueHere
<1> QED
  BY <1>1, <1>2, <1>3, <1>4, <1>5

\* What is left has its place behind the characteristic.
LEMMA Behind ==
  ASSUME NEW s \in Nat, NEW c \in Nat, NEW o \in Quads, o[1] = 3, o[4] \in {0, 1}
  PROVE  Less(<<3, s, c, 1>>, o) <=> o[2] > s \/ (o[2] = s /\ o[3] > c)
<1>1. o[2] \in Nat /\ o[3] \in Nat
  BY QuadIs
<1>2. Less(<<3, s, c, 1>>, o) <=>
         \/ 3 < o[1]
         \/ 3 = o[1] /\ s < o[2]
         \/ 3 = o[1] /\ s = o[2] /\ c < o[3]
         \/ 3 = o[1] /\ s = o[2] /\ c = o[3] /\ 1 < o[4]
  BY LessFrom
<1> QED
  BY <1>1, <1>2

\* The two places at which a characteristic is left.
LEMMA ReachedAt ==
  ASSUME NEW L, NEW s \in Nat, NEW c \in Nat
  PROVE  /\ Reached(L, <<3, s, c, 1>>, s, c)
         /\ c # 0 /\ ~RoomIn(L, s, c) => Reached(L, <<3, s, c, 0>>, s, c)
<1>1. ~Less(<<3, s, c, 1>>, <<3, s, c, 1>>) /\ ~Less(<<3, s, c, 1>>, <<3, s, c, 0>>)
  BY DEF Less
<1>2. ASSUME c # 0, ~RoomIn(L, s, c), NEW o \in Dues(L, FALSE), o[1] = 3,
             Less(<<3, s, c, 0>>, o)
      PROVE  Less(<<3, s, c, 1>>, o)
  <2>1. /\ o \in Quads /\ o[2] \in Nat /\ o[3] \in Nat /\ o[4] \in {0, 1} /\ DueHere(L, o)
    BY <1>2, DueFields
  <2>2. \/ 3 < o[1]
        \/ 3 = o[1] /\ s < o[2]
        \/ 3 = o[1] /\ s = o[2] /\ c < o[3]
        \/ 3 = o[1] /\ s = o[2] /\ c = o[3] /\ 0 < o[4]
    BY <1>2, LessFrom
  <2>3. ~(s = o[2] /\ c = o[3] /\ o[4] = 1)
    BY <1>2, <2>1 DEF DueHere
  <2>4. o[2] > s \/ (o[2] = s /\ o[3] > c)
    BY <1>2, <2>1, <2>2, <2>3
  <2> QED
    BY <1>2, <2>1, <2>4, Behind
<1>3. <<3, s, c, 1>>[1] = 3 /\ <<3, s, c, 0>>[1] = 3
  OBVIOUS
<1> QED
  BY <1>1, <1>2, <1>3 DEF Reached

\* If nothing is due in the rest of a service, the next one is in another.
LEMMA RestSkipped ==
  ASSUME NEW L, NEW s \in Nat, NEW c \in Nat, NEW last \in Nat,
         \A x \in c + 1..last : Skipped(L, s, x),
         NEW o \in Dues(L, FALSE), o[1] = 3, Less(<<3, s, c, 1>>, o)
  PROVE  o[2] > s \/ (o[2] = s /\ o[3] > last)
<1>1. /\ o \in Quads /\ o[2] \in Nat /\ o[3] \in Nat /\ o[4] \in {0, 1} /\ DueHere(L, o)
  BY DueFields
<1>2. o[2] > s \/ (o[2] = s /\ o[3] > c)
  BY <1>1, Behind
<1>3. ASSUME o[2] = s, o[3] > c, o[3] <= last PROVE FALSE
  <2>1. Skipped(L, o[2], o[3]) /\ o[3] # 0
    BY <1>1, <1>3
  <2> QED
    BY <1>1, <2>1 DEF DueHere, Skipped
<1> QED
  BY <1>1, <1>2, <1>3

\* Where the walk goes on from there.
LEMMA Nearest ==
  ASSUME NEW L, NEW s \in Nat, NEW c \in Nat, NEW k \in Dues(L, FALSE),
         NEW l \in Dues(L, FALSE), Reached(L, k, s, c), Less(<<3, s, c, 1>>, l),
         \A o \in Dues(L, FALSE) :
            o[1] = 4 \/ (o[1] = 3 /\ Less(<<3, s, c, 1>>, o)) => ~Less(o, l)
  PROVE  NextPlace(L, FALSE, k, l)
<1> DEFINE j == <<3, s, c, 1>>
<1>1. j \in Quads /\ k \in Quads /\ l \in Quads
  BY QuadOf DEF Dues
<1>2. ~Less(j, k) /\ k[1] = 3
  BY DEF Reached
<1>3. Less(j, l)
  OBVIOUS
<1> HIDE DEF j
<1>4. Less(k, l)
  BY <1>1, <1>2, <1>3, LessIsAnOrder
<1>5. ASSUME NEW o \in Dues(L, FALSE), Less(k, o), Less(o, l) PROVE FALSE
  <2>1. o[1] \in 1..4 /\ o[1] \in Nat
    BY DueFields
  <2>2. o[1] >= 3
    BY <1>2, <1>5, <2>1 DEF Less
  <2>3. o[1] = 3 => Less(j, o)
    BY <1>5 DEF Reached, j
  <2>4. o[1] = 3 \/ o[1] = 4
    BY <2>1, <2>2
  <2> QED
    BY <1>5, <2>3, <2>4 DEF j
<1> QED
  BY <1>4, <1>5 DEF NextPlace

\* The place after a characteristic is the next one that is not skipped, ...
LEMMA CharacteristicFollows ==
  ASSUME NEW L \in Armbands, NEW r, NEW n, r.svc \in 1..Len(L), ~L[r.svc].empty,
         NEW c \in Nat, NEW k \in Dues(L, FALSE), Reached(L, k, r.svc, c),
         ToCharacteristic(L, r, c + 1, n)
  PROVE  \E l \in Dues(L, FALSE) : NextPlace(L, FALSE, k, l) /\ n.request = AskedAt(L, l)
<1>1. PICK s \in 1..Len(L) : s = r.svc
  OBVIOUS
<1>2. PICK last \in Nat : last = Len(L[s].chars)
  BY Shape
<1>3. PICK x \in c + 1..last : x = n.chr
  BY <1>1, <1>2 DEF ToCharacteristic
<1>4. PICK z \in {0, 1} : z = IF L[s].chars[x].readable THEN 0 ELSE 1
  OBVIOUS
<1>5. IF z = 0 THEN L[s].chars[x].readable ELSE RoomIn(L, s, x)
  BY <1>1, <1>3, <1>4 DEF ToCharacteristic, Skipped
<1>6. Len(L) \in Nat /\ s \in Nat /\ x \in Nat /\ x \in 1..Len(L[s].chars) /\ x > c /\ x # 0
  BY <1>2, <1>3, Shape
<1> DEFINE l == <<3, s, x, z>>
<1>7. /\ l \in Dues(L, FALSE)
      /\ AskedAt(L, l) = Request(IF z = 0 THEN "value" ELSE "descriptors", s, x, 0)
  BY <1>1, <1>2, <1>5, <1>6, CharacteristicPlaces
<1>8. l[1] = 3 /\ l[2] = s /\ l[3] = x /\ l[4] = z
  OBVIOUS
<1> HIDE DEF l
<1>9. (IF L[s].chars[x].readable THEN "value" ELSE "descriptors")
         = (IF z = 0 THEN "value" ELSE "descriptors")
  BY <1>4
<1>10. n.request = AskedAt(L, l)
  BY <1>1, <1>3, <1>7, <1>9, Zenon DEF ToCharacteristic
<1>11. Less(<<3, s, c, 1>>, l)
  <2>1. l \in Quads
    BY <1>7 DEF Dues
  <2> QED
    BY <1>6, <1>8, <2>1, Behind
<1>12. ASSUME NEW o \in Dues(L, FALSE), o[1] = 3, Less(<<3, s, c, 1>>, o), Less(o, l)
       PROVE  FALSE
  <2>1. /\ o \in Quads /\ o[2] \in Nat /\ o[3] \in Nat /\ o[4] \in {0, 1} /\ DueHere(L, o)
    BY <1>12, DueFields
  <2>2. \A y \in c + 1..x - 1 : Skipped(L, s, y)
    BY <1>1, <1>3 DEF ToCharacteristic
  <2>3. o[2] > s \/ (o[2] = s /\ o[3] > x - 1)
    <3>1. PICK y \in Nat : y = x - 1
      BY <1>6
    <3>2. \A i \in c + 1..y : Skipped(L, s, i)
      BY <2>2, <3>1
    <3> QED
      BY <1>6, <1>12, <3>1, <3>2, RestSkipped
  <2>4. \/ o[1] < 3
        \/ o[1] = 3 /\ o[2] < s
        \/ o[1] = 3 /\ o[2] = s /\ o[3] < x
        \/ o[1] = 3 /\ o[2] = s /\ o[3] = x /\ o[4] < z
    <3>1. Less(o, <<3, s, x, z>>)
      BY <1>12 DEF l
    <3> QED
      BY <3>1 DEF Less
  <2>5. o[2] = s /\ o[3] = x /\ o[4] = 0 /\ z = 1
    BY <1>6, <1>12, <2>1, <2>3, <2>4
  <2>6. ~L[s].chars[x].readable
    BY <1>4, <2>5
  <2> QED
    BY <1>6, <2>1, <2>5, <2>6 DEF DueHere
<1>13. ASSUME NEW o \in Dues(L, FALSE), o[1] = 4 PROVE ~Less(o, l)
  BY <1>8, <1>13 DEF Less
<1>14. NextPlace(L, FALSE, k, l)
  BY <1>1, <1>6, <1>7, <1>11, <1>12, <1>13, Nearest
<1> QED
  BY <1>7, <1>10, <1>14

\* ... or that of the next service with a range.
LEMMA ServiceFollows ==
  ASSUME NEW L \in Armbands, NEW s \in 1..Len(L), NEW c \in Nat, NEW k \in Dues(L, FALSE),
         Reached(L, k, s, c), \A x \in c + 1..Len(L[s].chars) : Skipped(L, s, x),
         NEW t \in s + 1..Len(L), ~L[t].empty, \A x \in s + 1..t - 1 : L[x].empty
  PROVE  \E l \in Dues(L, FALSE) :
            NextPlace(L, FALSE, k, l) /\ AskedAt(L, l) = Request("included", t, 0, 0)
<1>1. PICK last \in Nat : last = Len(L[s].chars)
  BY Shape
<1>2. Len(L) \in Nat /\ s \in Nat /\ t \in Nat /\ t > s /\ t \in 1..Len(L)
  BY Shape
<1>3. PICK z \in {0, 1} : z = 0
  OBVIOUS
<1> DEFINE l == <<3, t, 0, z>>
<1>4. l \in Dues(L, FALSE) /\ AskedAt(L, l) = Request("included", t, 0, 0)
  <2>1. /\ l \in Dues(L, FALSE)
        /\ AskedAt(L, l) = Request(IF z = 0 THEN "included" ELSE "characteristics", t, 0, 0)
    BY <1>2, ServicePlaces
  <2>2. (IF z = 0 THEN "included" ELSE "characteristics") = "included"
    BY <1>3
  <2> HIDE DEF l
  <2> QED
    BY <2>1, <2>2, Zenon
<1>5. l[1] = 3 /\ l[2] = t /\ l[3] = 0 /\ l[4] = z
  OBVIOUS
<1> HIDE DEF l
<1>6. Less(<<3, s, c, 1>>, l)
  <2>1. l \in Quads
    BY <1>4 DEF Dues
  <2> QED
    BY <1>2, <1>5, <2>1, Behind
<1>7. ASSUME NEW o \in Dues(L, FALSE), o[1] = 3, Less(<<3, s, c, 1>>, o), Less(o, l)
      PROVE  FALSE
  <2>1. /\ o[2] \in 1..Len(L) /\ ~L[o[2]].empty /\ o[3] \in Nat /\ o[4] \in {0, 1}
        /\ o[3] = 0 \/ o[3] \in 1..Len(L[o[2]].chars)
    BY <1>7, DueFields
  <2>2. o[2] > s \/ (o[2] = s /\ o[3] > last)
    <3>1. \A x \in c + 1..last : Skipped(L, s, x)
      BY <1>1
    <3> QED
      BY <1>2, <1>7, <3>1, RestSkipped
  <2>3. o[2] > s
    BY <1>1, <2>1, <2>2
  <2>4. ~(o[2] < t)
    BY <1>2, <2>1, <2>3
  <2>5. \/ o[1] < 3
        \/ o[1] = 3 /\ o[2] < t
        \/ o[1] = 3 /\ o[2] = t /\ o[3] < 0
        \/ o[1] = 3 /\ o[2] = t /\ o[3] = 0 /\ o[4] < z
    <3>1. Less(o, <<3, t, 0, z>>)
      BY <1>7 DEF l
    <3> QED
      BY <3>1 DEF Less
  <2> QED
    BY <1>3, <1>7, <2>1, <2>4, <2>5
<1>8. ASSUME NEW o \in Dues(L, FALSE), o[1] = 4 PROVE ~Less(o, l)
  BY <1>5, <1>8 DEF Less
<1>9. NextPlace(L, FALSE, k, l)
  BY <1>2, <1>4, <1>6, <1>7, <1>8, Nearest
<1> QED
  BY <1>4, <1>9

\* The places of two positions are ordered like these.
LEMMA PositionsAreOrdered ==
  ASSUME NEW L \in Armbands, NEW p \in Positions(Known(L)), NEW o, o[1] = 4,
         <<o[2], o[3], o[4]>> \in Positions(Known(L))
  PROVE  /\ Less(<<4, p[1], p[2], p[3]>>, o) <=> Before(p, <<o[2], o[3], o[4]>>)
         /\ Less(o, <<4, p[1], p[2], p[3]>>) <=> Before(<<o[2], o[3], o[4]>>, p)
<1>1. PICK q \in Positions(Known(L)) : q = <<o[2], o[3], o[4]>>
  OBVIOUS
<1>2. p \in Triples /\ q \in Triples
  BY KnownShape, PositionsAre
<1>3. q[1] = o[2] /\ q[2] = o[3] /\ q[3] = o[4]
  BY <1>1
<1>4. /\ p[1] \in Nat /\ p[2] \in Nat /\ p[3] \in Nat
      /\ q[1] \in Nat /\ q[2] \in Nat /\ q[3] \in Nat
  BY <1>2 DEF Triples
<1>5. Less(<<4, p[1], p[2], p[3]>>, o) <=> Before(p, q)
  <2>1. Less(<<4, p[1], p[2], p[3]>>, o) <=>
           \/ 4 < o[1]
           \/ 4 = o[1] /\ p[1] < o[2]
           \/ 4 = o[1] /\ p[1] = o[2] /\ p[2] < o[3]
           \/ 4 = o[1] /\ p[1] = o[2] /\ p[2] = o[3] /\ p[3] < o[4]
    BY LessFrom
  <2> QED
    BY <1>3, <1>4, <2>1 DEF Before
<1>6. Less(o, <<4, p[1], p[2], p[3]>>) <=> Before(q, p)
  <2>1. Less(o, <<4, p[1], p[2], p[3]>>) <=>
           \/ o[1] < 4
           \/ o[1] = 4 /\ o[2] < p[1]
           \/ o[1] = 4 /\ o[2] = p[1] /\ o[3] < p[2]
           \/ o[1] = 4 /\ o[2] = p[1] /\ o[3] = p[2] /\ o[4] < p[3]
    BY LessTo
  <2> QED
    BY <1>3, <1>4, <2>1 DEF Before
<1> QED
  BY <1>1, <1>5, <1>6

\* The configuration starts with the first position, ...
LEMMA ConfigurationFollows ==
  ASSUME NEW L \in Armbands, NEW s \in 1..Len(L), NEW c \in Nat, NEW k \in Dues(L, FALSE),
         Reached(L, k, s, c), \A x \in c + 1..Len(L[s].chars) : Skipped(L, s, x),
         \A x \in s + 1..Len(L) : L[x].empty, NEW n, First(Known(L), <<1, 1, 1>>, n)
  PROVE  \E l \in Dues(L, FALSE) : NextPlace(L, FALSE, k, l) /\ n.request = AskedAt(L, l)
<1>1. PICK last \in Nat : last = Len(L[s].chars)
  BY Shape
<1>2. Len(L) \in Nat /\ s \in Nat
  BY Shape
<1>3. PICK p \in Positions(Known(L)) : p = n.at
  BY DEF First
<1> DEFINE l == <<4, p[1], p[2], p[3]>>
<1>4. l \in Dues(L, FALSE) /\ n.request = AskedAt(L, l)
  BY <1>3, PositionPlaces DEF First
<1>5. Less(<<3, s, c, 1>>, l)
  BY DEF Less
<1>6. ASSUME NEW o \in Dues(L, FALSE), o[1] = 3, Less(<<3, s, c, 1>>, o) PROVE FALSE
  <2>1. /\ o[2] \in 1..Len(L) /\ ~L[o[2]].empty /\ o[3] \in Nat
        /\ o[3] = 0 \/ o[3] \in 1..Len(L[o[2]].chars)
    BY <1>6, DueFields
  <2>2. o[2] > s \/ (o[2] = s /\ o[3] > last)
    <3>1. \A x \in c + 1..last : Skipped(L, s, x)
      BY <1>1
    <3> QED
      BY <1>2, <1>6, <3>1, RestSkipped
  <2>3. o[2] > s
    BY <1>1, <2>1, <2>2
  <2> QED
    BY <1>2, <2>1, <2>3
<1>7. ASSUME NEW o \in Dues(L, FALSE), o[1] = 4 PROVE ~Less(o, l)
  <2>1. PICK q \in Positions(Known(L)) : q = <<o[2], o[3], o[4]>>
    BY <1>7, OpsOfPhases
  <2>2. ~Before(q, <<1, 1, 1>>)
    BY KnownShape, NoneBeforeFirst
  <2>3. ~Before(q, p)
    BY <1>3, <2>2 DEF First
  <2> QED
    BY <1>7, <2>1, <2>3, PositionsAreOrdered
<1> HIDE DEF l
<1>8. NextPlace(L, FALSE, k, l)
  BY <1>2, <1>4, <1>5, <1>6, <1>7, Nearest
<1> QED
  BY <1>4, <1>8

\* ... also if the services are loaded, ...
LEMMA LoadedFollows ==
  ASSUME NEW L \in Armbands, NEW n, First(Known(L), <<1, 1, 1>>, n)
  PROVE  \E l \in Dues(L, TRUE) :
            NextPlace(L, TRUE, <<1, 0, 0, 0>>, l) /\ n.request = AskedAt(L, l)
<1>1. PICK p \in Positions(Known(L)) : p = n.at
  BY DEF First
<1> DEFINE k == <<1, 0, 0, 0>>
           l == <<4, p[1], p[2], p[3]>>
<1>2. l \in Dues(L, TRUE) /\ n.request = AskedAt(L, l)
  BY <1>1, PositionPlaces DEF First
<1>3. Less(k, l)
  BY DEF Less
<1>4. ASSUME NEW o \in Dues(L, TRUE), Less(k, o), Less(o, l) PROVE FALSE
  <2>1. o = k \/ o[1] = 4
    BY DEF Dues, Due
  <2>2. o # k
    BY <1>4 DEF Less
  <2>3. PICK q \in Positions(Known(L)) : q = <<o[2], o[3], o[4]>>
    BY <2>1, <2>2, OpsOfPhases
  <2>4. ~Before(q, <<1, 1, 1>>)
    BY KnownShape, NoneBeforeFirst
  <2>5. ~Before(q, p)
    BY <1>1, <2>4 DEF First
  <2> QED
    BY <1>4, <2>1, <2>2, <2>3, <2>5, PositionsAreOrdered
<1> HIDE DEF k, l
<1> QED
  BY <1>2, <1>3, <1>4 DEF NextPlace, k

\* ... goes on with the next one and ends with the last.
LEMMA NextConfigured ==
  ASSUME NEW L \in Armbands, NEW loaded \in BOOLEAN, NEW p \in Positions(Known(L)),
         NEW n, First(Known(L), <<p[1], p[2], p[3] + 1>>, n)
  PROVE  \E l \in Dues(L, loaded) :
            /\ NextPlace(L, loaded, <<4, p[1], p[2], p[3]>>, l)
            /\ n.request = AskedAt(L, l)
<1>1. PICK q \in Positions(Known(L)) : q = n.at
  BY DEF First
<1> DEFINE k == <<4, p[1], p[2], p[3]>>
           l == <<4, q[1], q[2], q[3]>>
           e == <<p[1], p[2], p[3] + 1>>
<1>2. l \in Dues(L, loaded) /\ n.request = AskedAt(L, l)
  BY <1>1, PositionPlaces DEF First
<1>3. p \in Triples /\ q \in Triples
  BY KnownShape, PositionsAre
<1>4. \A x \in Triples : Before(x, e) <=> (x = p \/ Before(x, p))
  <2> SUFFICES ASSUME NEW x \in Triples
               PROVE  Before(x, e) <=> (x = p \/ Before(x, p))
    OBVIOUS
  <2>1. /\ p = <<p[1], p[2], p[3]>> /\ x = <<x[1], x[2], x[3]>>
        /\ p[1] \in Nat /\ p[2] \in Nat /\ p[3] \in Nat
        /\ x[1] \in Nat /\ x[2] \in Nat /\ x[3] \in Nat
    BY <1>3 DEF Triples
  <2>2. e[1] = p[1] /\ e[2] = p[2] /\ e[3] = p[3] + 1
    OBVIOUS
  <2> HIDE DEF e
  <2>3. Before(x, e) <=> (x[1] = p[1] /\ x[2] = p[2] /\ x[3] = p[3]) \/ Before(x, p)
    BY <2>1, <2>2 DEF Before
  <2> QED
    BY <2>1, <2>3
<1>5. \A x \in Triples : x = p \/ Before(x, p) \/ Before(p, x)
  <2> SUFFICES ASSUME NEW x \in Triples
               PROVE  x = p \/ Before(x, p) \/ Before(p, x)
    OBVIOUS
  <2>1. /\ p = <<p[1], p[2], p[3]>> /\ x = <<x[1], x[2], x[3]>>
        /\ p[1] \in Nat /\ p[2] \in Nat /\ p[3] \in Nat
        /\ x[1] \in Nat /\ x[2] \in Nat /\ x[3] \in Nat
    BY <1>3 DEF Triples
  <2>2. \/ x[1] = p[1] /\ x[2] = p[2] /\ x[3] = p[3]
        \/ Before(x, p) \/ Before(p, x)
    BY <2>1 DEF Before
  <2> QED
    BY <2>1, <2>2
<1>6. ~Before(q, e)
  BY <1>1 DEF First
<1>7. Before(p, q)
  BY <1>3, <1>4, <1>5, <1>6
<1>8. ~Before(p, p)
  BY <1>3 DEF Before, Triples
<1>9. ASSUME NEW x \in Positions(Known(L)), Before(p, x) PROVE ~Before(x, q)
  <2>1. x \in Triples
    BY KnownShape, PositionsAre
  <2>2. ~Before(x, p) /\ x # p
    BY <1>3, <1>8, <1>9, <2>1 DEF Before, Triples
  <2>3. ~Before(x, e)
    BY <1>4, <2>1, <2>2
  <2> QED
    BY <1>1, <2>3 DEF First
<1>10. Less(k, l)
  BY <1>3, <1>7 DEF Less, Before, Triples
<1>11. ASSUME NEW o \in Dues(L, loaded), Less(k, o), Less(o, l) PROVE FALSE
  <2>1. o[1] \in 1..4
    BY DueFields
  <2>2. o[1] >= 4
    <3>1. \/ 4 < o[1]
          \/ 4 = o[1] /\ p[1] < o[2]
          \/ 4 = o[1] /\ p[1] = o[2] /\ p[2] < o[3]
          \/ 4 = o[1] /\ p[1] = o[2] /\ p[2] = o[3] /\ p[3] < o[4]
      BY <1>11, LessFrom, ZenonT(60)
    <3> QED
      BY <2>1, <3>1
  <2>3. o[1] = 4
    BY <2>1, <2>2
  <2>4. PICK x \in Positions(Known(L)) : x = <<o[2], o[3], o[4]>>
    BY <2>3, OpsOfPhases
  <2>5. Before(p, x) /\ Before(x, q)
    BY <1>11, <2>3, <2>4, PositionsAreOrdered
  <2> QED
    BY <1>9, <2>5
<1> HIDE DEF k, l, e
<1> QED
  BY <1>2, <1>10, <1>11 DEF NextPlace, k
-----------------------------------------------------------------------------
(* What was asked for, and the state that it is about.                      *)

After(a, q)      == IF q.op \in {"none", "auth", "bond", "long"} THEN a ELSE Append(a, q)
Goes(L, n, t, a) == InOrder(L, ~n.mNeedSaveService, a) /\ About(L, n, t, a)

\* InOrder for a device that has to save its services, and for one that loaded them.
LEMMA Unloaded ==
  ASSUME NEW L, NEW r \in Remotes, NEW a
  PROVE  /\ r.mNeedSaveService => (InOrder(L, ~r.mNeedSaveService, a) <=> InOrder(L, FALSE, a))
         /\ ~r.mNeedSaveService => (InOrder(L, ~r.mNeedSaveService, a) <=> InOrder(L, TRUE, a))
<1>1. r.mNeedSaveService = TRUE \/ r.mNeedSaveService = FALSE
  BY RemoteFields
<1>2. CASE r.mNeedSaveService = TRUE
  <2>1. (~r.mNeedSaveService) = FALSE
    BY <1>2
  <2> QED
    BY <1>2, <2>1
<1>3. CASE r.mNeedSaveService = FALSE
  <2>1. (~r.mNeedSaveService) = TRUE
    BY <1>3
  <2> QED
    BY <1>3, <2>1
<1> QED
  BY <1>1, <1>2, <1>3

\* A request that the walk records.
LEMMA AfterIs ==
  ASSUME NEW a, NEW q
  PROVE  /\ q = None => After(a, q) = a
         /\ \A op, s, c, k : q = Request(op, s, c, k) =>
               After(a, q) = IF op \in {"none", "auth", "bond", "long"} THEN a
                             ELSE Append(a, q)
<1>1. None.op = "none" /\ \A op, s, c, k : Request(op, s, c, k).op = op
  BY RequestIs DEF None
<1> QED
  BY <1>1 DEF After

\* The walk goes on from a place to the next.
LEMMA MoveGoes ==
  ASSUME NEW L \in Armbands, NEW a \in Seq(Requests), a # <<>>, InOrder(L, FALSE, a),
         NEW r \in Remotes, StandsAt(L, r), r.request = None,
         NEW c \in Nat, NEW k \in Dues(L, FALSE), LastAsked(a) = AskedAt(L, k),
         Reached(L, k, r.svc, c), NEW n, Keeps(r, n), MovesOn(L, r, c + 1, n),
         Stands(L, n, <<>>)
  PROVE  Goes(L, n, <<>>, After(a, n.request))
<1>1. /\ n \in Remotes /\ n.request \in Requests /\ n.mNeedSaveService = TRUE
      /\ n.mService = r.mService
  BY RemoteFields DEF Keeps, StandsAt
<1>2. r.svc \in 1..Len(L) /\ ~L[r.svc].empty
  BY Shape DEF StandsAt
<1> DEFINE q == n.request
           b == Append(a, q)
<1>3. ASSUME NEW l \in Dues(L, FALSE), NextPlace(L, FALSE, k, l), q = AskedAt(L, l)
      PROVE  InOrder(L, FALSE, b) /\ b # <<>> /\ LastAsked(b) = q
  <2>1. FALSE \in BOOLEAN
    OBVIOUS
  <2> HIDE DEF q, b
  <2> QED
    BY <1>1, <1>3, <2>1, GoesOn DEF q, b
<1>4. CASE ToCharacteristic(L, r, c + 1, n)
  <2>1. PICK l \in Dues(L, FALSE) : NextPlace(L, FALSE, k, l) /\ q = AskedAt(L, l)
    BY <1>2, <1>4, CharacteristicFollows
  <2>2. InOrder(L, FALSE, b) /\ b # <<>> /\ LastAsked(b) = q
    BY <1>3, <2>1
  <2>3. PICK op \in {"value", "descriptors"} :
           /\ n.mState = "GATT_READ_CHARC_VALUE" /\ n.svc = r.svc
           /\ q = Request(op, n.svc, n.chr, 0)
    BY <1>4 DEF ToCharacteristic
  <2>4. After(a, q) = b /\ q.op = op
    BY <2>3, AfterIs, RequestIs
  <2> HIDE DEF b
  <2>5. About(L, n, <<>>, b)
    BY <2>2, <2>3, <2>4 DEF About
  <2> HIDE DEF q
  <2> QED
    BY <1>1, <2>2, <2>4, <2>5, Unloaded DEF Goes, q
<1>5. CASE (\A x \in c + 1..Len(L[r.svc].chars) : Skipped(L, r.svc, x)) /\ ToService(L, r, n)
  <2>1. CASE /\ n.svc \in r.svc + 1..Len(L) /\ ~L[n.svc].empty
             /\ \A s \in r.svc + 1..n.svc - 1 : L[s].empty
             /\ n.mState = "GATT_INC_SVC" /\ n.request = Request("included", n.svc, 0, 0)
    <3>1. PICK l \in Dues(L, FALSE) : NextPlace(L, FALSE, k, l) /\ q = AskedAt(L, l)
      <4>1. PICK s \in 1..Len(L) : s = r.svc
        BY <1>2
      <4>2. PICK t \in s + 1..Len(L) : t = n.svc
        BY <2>1, <4>1
      <4>3. PICK l \in Dues(L, FALSE) :
               NextPlace(L, FALSE, k, l) /\ AskedAt(L, l) = Request("included", t, 0, 0)
        <5>1. ~L[t].empty /\ \A x \in s + 1..t - 1 : L[x].empty
          BY <2>1, <4>1, <4>2
        <5>2. Reached(L, k, s, c) /\ \A x \in c + 1..Len(L[s].chars) : Skipped(L, s, x)
          BY <1>5, <4>1
        <5> QED
          BY <5>1, <5>2, ServiceFollows
      <4> QED
        BY <2>1, <4>2, <4>3
    <3>2. InOrder(L, FALSE, b) /\ b # <<>> /\ LastAsked(b) = q
      BY <1>3, <3>1
    <3>3. After(a, q) = b
      BY <2>1, AfterIs
    <3> HIDE DEF b
    <3>4. About(L, n, <<>>, b)
      BY <2>1, <3>2 DEF About
    <3> HIDE DEF q
    <3> QED
      BY <1>1, <3>2, <3>3, <3>4, Unloaded DEF Goes, q
  <2>2. CASE /\ \A s \in r.svc + 1..Len(L) : L[s].empty
             /\ n.svc = r.svc /\ Starts(r, n)
    <3>1. n.mState = "GATT_READ_CHARC_DESCRIPTOR_VALUE"
      BY <2>2 DEF Starts
    <3>2. r.mService = Known(L)
      BY <1>1, <3>1 DEF Stands, AtDescriptors
    <3>3. CASE Positions(Known(L)) = {}
      <4>1. q = None
        BY <2>2, <3>2, <3>3 DEF Starts
      <4>2. After(a, q) = a
        BY <4>1, AfterIs
      <4>3. About(L, n, <<>>, a)
        BY <3>1, <4>1 DEF About
      <4> HIDE DEF q
      <4> QED
        BY <1>1, <4>2, <4>3, Unloaded DEF Goes, q
    <3>4. CASE Positions(Known(L)) # {}
      <4>1. First(Known(L), <<1, 1, 1>>, n)
        BY <2>2, <3>2, <3>4 DEF Starts
      <4>2. PICK l \in Dues(L, FALSE) : NextPlace(L, FALSE, k, l) /\ q = AskedAt(L, l)
        BY <1>2, <1>5, <2>2, <4>1, ConfigurationFollows
      <4>3. InOrder(L, FALSE, b) /\ b # <<>> /\ LastAsked(b) = q
        BY <1>3, <4>2
      <4>4. /\ n.at \in Positions(Known(L))
            /\ q = Request(ToConfigure(Known(L), n.at), n.at[1], n.at[2], n.at[3])
        BY <4>1 DEF First
      <4>5. After(a, q) = b
        BY <4>4, AfterIs DEF ToConfigure
      <4> HIDE DEF b
      <4>6. About(L, n, <<>>, b)
        BY <3>1, <4>3, <4>4 DEF About
      <4> HIDE DEF q
      <4> QED
        BY <1>1, <4>3, <4>5, <4>6, Unloaded DEF Goes, q
    <3> QED
      BY <3>3, <3>4
  <2> QED
    BY <1>5, <2>1, <2>2 DEF ToService
<1> QED
  BY <1>4, <1>5 DEF MovesOn

-----------------------------------------------------------------------------
(* Each message that is taken leaves what was asked for, and what the state *)
(* is about, in order.                                                      *)

\* Goes, for a device that has to save its services and for one that loaded them.
LEMMA GoesIs ==
  ASSUME NEW L, NEW r \in Remotes, NEW t, NEW a
  PROVE  /\ r.mNeedSaveService => (Goes(L, r, t, a) <=> InOrder(L, FALSE, a) /\ About(L, r, t, a))
         /\ r.mNeedSaveService = FALSE
               => (Goes(L, r, t, a) <=> InOrder(L, TRUE, a) /\ About(L, r, t, a))
<1>1. r.mNeedSaveService = TRUE \/ r.mNeedSaveService = FALSE
  BY RemoteFields
<1>2. (~TRUE) = FALSE /\ (~FALSE) = TRUE
  OBVIOUS
<1> QED
  BY <1>1, <1>2, Zenon DEF Goes

\* The only message is the last one.
LEMMA OnlyOne ==
  ASSUME NEW m \in Seq(Messages), m # <<>>, Tail(m) = <<>>
  PROVE  m[Len(m)] = Head(m)
<1>1. Len(Tail(m)) = Len(m) - 1 /\ Len(m) \in Nat
  BY HeadTailProperties, LenProperties
<1>2. Len(Tail(m)) = 0
  BY EmptySeq
<1>3. Len(m) = 1
  BY <1>1, <1>2
<1> QED
  BY <1>3

\* The place of the last request.
WalkOps == {"included", "characteristics", "value", "descriptors"}
PlaceFor(op, s, c) ==
    <<3, s, IF op \in {"included", "characteristics"} THEN 0 ELSE c,
      IF op \in {"included", "value"} THEN 0 ELSE 1>>

LastPlaces(L, a) == {k \in Dues(L, FALSE) : LastAsked(a) = AskedAt(L, k)}

\* The last request tells where in the walk the device is.
LEMMA LastPlace ==
  ASSUME NEW L \in Armbands, NEW a, a # <<>>, InOrder(L, FALSE, a),
         NEW op \in WalkOps, NEW s, NEW c, LastAsked(a) = Request(op, s, c, 0)
  PROVE  PlaceFor(op, s, c) \in LastPlaces(L, a)
<1> DEFINE k == PlaceFor(op, s, c)
<1>1. PICK q \in Documented(L, FALSE) : q = LastAsked(a)
  BY DEF InOrder
<1>2. q.op = op /\ q.svc = s /\ q.chr = c
  BY <1>1, RequestIs
<1>3. FALSE \in BOOLEAN
  OBVIOUS
<1>4. PICK l \in Dues(L, FALSE) :
            /\ q = AskedAt(L, l)
            /\ q.op = "included" => l = <<3, q.svc, 0, 0>>
            /\ q.op = "characteristics" => l = <<3, q.svc, 0, 1>>
            /\ q.op = "value" => l = <<3, q.svc, q.chr, 0>>
            /\ q.op = "descriptors" => l = <<3, q.svc, q.chr, 1>>
  BY <1>3, PlaceIs
<1>5. l = k
  <2>2. CASE op = "included"
    BY <1>2, <1>4, <2>2 DEF PlaceFor
  <2>3. CASE op = "characteristics"
    BY <1>2, <1>4, <2>3 DEF PlaceFor
  <2>4. CASE op = "value"
    BY <1>2, <1>4, <2>4 DEF PlaceFor
  <2>5. CASE op = "descriptors"
    BY <1>2, <1>4, <2>5 DEF PlaceFor
  <2> QED
    BY <2>2, <2>3, <2>4, <2>5 DEF WalkOps
<1> HIDE DEF k
<1>6. k \in LastPlaces(L, a)
  BY <1>1, <1>4, <1>5 DEF LastPlaces
<1> QED
  BY <1>6, Zenon DEF k

\* The connection and the security are before the walk, ...
LEMMA ConnectionGoes ==
  ASSUME NEW L, NEW r \in Remotes, NEW m \in Seq(Messages), m # <<>>, Stands(L, r, m),
         r.mState = "IDLE", NEW a, Goes(L, r, m, a), NEW op \in {"auth", "bond"},
         NEW n, n = Ask(r, "W4SECU", op, 0, 0, 0)
  PROVE  Goes(L, n, Tail(m), After(a, n.request))
<1>1. AtConnection(r, m)
  BY DEF Stands
<1>2. One(m, {"connected"}) /\ r.mNeedSaveService = TRUE
  BY <1>1, RemoteFields DEF AtConnection
<1>3. Tail(m) = <<>>
  BY <1>2, OneTaken
<1>4. PICK q \in Requests : q = Request(op, 0, 0, 0)
  BY FirstRequests
<1>5. n \in Remotes /\ n.mNeedSaveService = r.mNeedSaveService /\ n.mState = "W4SECU"
      /\ n.request = q
  BY <1>4, AskFields, FirstStates
<1>6. After(a, n.request) = a
  BY <1>4, <1>5, AfterIs
<1>7. a = <<>> /\ InOrder(L, FALSE, a)
  <2>1. InOrder(L, FALSE, a) /\ About(L, r, m, a)
    BY <1>2, GoesIs, Zenon
  <2> QED
    BY <2>1 DEF About
<1>8. About(L, n, <<>>, a)
  BY <1>5, <1>7 DEF About
<1> QED
  BY <1>2, <1>3, <1>5, <1>6, <1>7, <1>8, GoesIs

\* ... which the MTU exchange begins.
LEMMA SecurityGoes ==
  ASSUME NEW L \in Armbands, NEW r \in Remotes, NEW m \in Seq(Messages), m # <<>>,
         Stands(L, r, m), r.mState = "W4SECU", NEW a, Goes(L, r, m, a)
  PROVE  /\ Head(m) # "authError"
         /\ Goes(L, r, Tail(m), After(a, r.request))
         /\ \A n : n = [r EXCEPT !.mNeedSaveService = TRUE] =>
                Goes(L, n, Tail(m), After(a, n.request))
         /\ \A n : n = Ask(r, "W4SECU", "bond", 0, 0, 0) =>
                Goes(L, n, Tail(m), After(a, n.request))
         /\ \A n : n = Ask(r, "GATT_PRI_SVC", "mtu", 0, 0, 0) =>
                Goes(L, n, Tail(m), After(a, n.request))
<1>1. Tail(m) = <<>> /\ r.request = None /\ r.mNeedSaveService = TRUE
  BY SecurityTaken, RemoteFields
<1>2. a = <<>> /\ InOrder(L, FALSE, a) /\ \A i \in DOMAIN m : m[i] # "authError"
  BY <1>1, GoesIs, ZenonT(60) DEF About
<1>3. Head(m) # "authError"
  <2>1. 1 \in DOMAIN m /\ Head(m) = m[1]
    BY HeadTailProperties, LenProperties, EmptySeq
  <2> QED
    BY <1>2, <2>1
<1>4. After(a, r.request) = a /\ Goes(L, r, Tail(m), a)
  <2>1. After(a, r.request) = a
    BY <1>1, AfterIs
  <2>2. About(L, r, <<>>, a)
    BY <1>2 DEF About
  <2> QED
    BY <1>1, <1>2, <2>1, <2>2, GoesIs
<1>5. ASSUME NEW n, n = [r EXCEPT !.mNeedSaveService = TRUE]
      PROVE  Goes(L, n, Tail(m), After(a, n.request))
  <2>1. n = r
    BY <1>1, <1>5 DEF Remotes
  <2> QED
    BY <1>4, <2>1
<1>6. ASSUME NEW n, n = Ask(r, "W4SECU", "bond", 0, 0, 0)
      PROVE  Goes(L, n, Tail(m), After(a, n.request))
  <2>1. PICK q \in Requests : q = Request("bond", 0, 0, 0)
    BY FirstRequests
  <2>2. n \in Remotes /\ n.mNeedSaveService = TRUE /\ n.mState = "W4SECU" /\ n.request = q
    BY <1>1, <1>6, <2>1, AskFields, FirstStates
  <2>3. After(a, n.request) = a
    BY <2>1, <2>2, AfterIs
  <2>4. About(L, n, <<>>, a)
    BY <1>2, <2>2 DEF About
  <2> QED
    BY <1>1, <1>2, <2>2, <2>3, <2>4, GoesIs
<1>7. ASSUME NEW n, n = Ask(r, "GATT_PRI_SVC", "mtu", 0, 0, 0)
      PROVE  Goes(L, n, Tail(m), After(a, n.request))
  <2>1. PICK q \in Requests : q = Request("mtu", 0, 0, 0)
    BY FirstRequests
  <2>2. n \in Remotes /\ n.mNeedSaveService = TRUE /\ n.mState = "GATT_PRI_SVC"
        /\ n.request = q
    BY <1>1, <1>7, <2>1, AskFields, FirstStates
  <2>3. PICK b : b = Append(<<>>, q)
    OBVIOUS
  <2>4. After(a, n.request) = b
    BY <1>2, <2>1, <2>2, <2>3, AfterIs
  <2>5. FALSE \in BOOLEAN
    OBVIOUS
  <2>6. InOrder(L, FALSE, b) /\ b # <<>> /\ LastAsked(b) = q
    BY <2>1, <2>3, <2>5, StartsWithMTU
  <2>7. About(L, n, <<>>, b)
    BY <2>1, <2>2, <2>6 DEF About
  <2> QED
    BY <1>1, <2>2, <2>4, <2>6, <2>7, GoesIs
<1> QED
  BY <1>3, <1>4, <1>5, <1>6, <1>7

\* A walk that asks for nothing stays where it is.
LEMMA StayGoes ==
  ASSUME NEW L, NEW r \in Remotes, NEW m, m # <<>>, NEW a, Goes(L, r, m, a), NEW t,
         r.request = None, r.mState \notin {"IDLE", "W4SECU", "GATT_DIS_CHARC"},
         \/ t = <<>> /\ r.mState # "GATT_READ_CHARC_VALUE"
         \/ t # <<>> /\ t[Len(t)] = m[Len(m)]
  PROVE  Goes(L, r, t, After(a, r.request))
<1>1. After(a, r.request) = a
  BY AfterIs
<1>2. About(L, r, m, a) /\ InOrder(L, ~r.mNeedSaveService, a)
  BY Zenon DEF Goes
<1>3. About(L, r, t, a)
  BY <1>2 DEF About
<1> QED
  BY <1>1, <1>2, <1>3, Zenon DEF Goes

\* Without services in the file the walk begins, ...
LEMMA MTUGoes ==
  ASSUME NEW L \in Armbands, NEW r \in Remotes, NEW m \in Seq(Messages), m # <<>>,
         Stands(L, r, m), r.mState = "GATT_PRI_SVC", Head(m) = "mtu",
         NEW a \in Seq(Requests), Goes(L, r, m, a),
         NEW n, n = Ask(r, "GATT_PRI_SVC", "primary", 0, 0, 0)
  PROVE  /\ Goes(L, n, Tail(m), After(a, n.request))
         /\ a # <<>> /\ InOrder(L, FALSE, a) /\ LastAsked(a) = Request("mtu", 0, 0, 0)
<1>1. r.mNeedSaveService = TRUE /\ Tail(m) = <<>>
  BY MTUTaken, RemoteFields
<1>2. InOrder(L, FALSE, a) /\ About(L, r, m, a)
  BY <1>1, GoesIs
<1>3. m[Len(m)] = "mtu"
  BY <1>1, OnlyOne
<1>4. a # <<>> /\ LastAsked(a) = Request("mtu", 0, 0, 0)
  <2>1. /\ a # <<>> /\ LastAsked(a).op = "mtu"
        /\ LastAsked(a) \in {Request("mtu", 0, 0, 0), Request("primary", 0, 0, 0)}
    BY <1>2, <1>3 DEF About
  <2>2. Request("primary", 0, 0, 0).op = "primary"
    BY RequestIs
  <2> QED
    BY <2>1, <2>2
<1>5. PICK q \in Requests : q = Request("primary", 0, 0, 0)
  BY FirstRequests
<1>6. n \in Remotes /\ n.mNeedSaveService = TRUE /\ n.mState = "GATT_PRI_SVC"
      /\ n.request = q
  BY <1>1, <1>5, AskFields, FirstStates
<1>7. PICK b : b = Append(a, q)
  OBVIOUS
<1>8. After(a, n.request) = b
  BY <1>5, <1>6, <1>7, AfterIs
<1>9. InOrder(L, FALSE, b) /\ b # <<>> /\ LastAsked(b) = q
  <2>1. FALSE \in BOOLEAN
    OBVIOUS
  <2>2. PICK k \in Dues(L, FALSE) : k = <<1, 0, 0, 0>>
    BY <2>1, FirstPlaces
  <2>3. PICK l \in Dues(L, FALSE) : l = <<2, 0, 0, 0>>
    BY FirstPlaces
  <2>4. LastAsked(a) = AskedAt(L, k) /\ q = AskedAt(L, l)
    BY <1>4, <1>5, <2>2, <2>3, FirstPlaces
  <2>5. NextPlace(L, FALSE, k, l)
    BY <2>2, <2>3, FirstPlacesFollow
  <2> QED
    BY <1>2, <1>4, <1>7, <2>1, <2>4, <2>5, GoesOn, ZenonT(60)
<1>10. About(L, n, <<>>, b)
  BY <1>5, <1>6, <1>9 DEF About
<1> QED
  BY <1>1, <1>2, <1>4, <1>6, <1>8, <1>9, <1>10, GoesIs

\* ... and with them the configuration.
LEMMA LoadedGoes ==
  ASSUME NEW L \in Armbands, NEW a \in Seq(Requests), a # <<>>, InOrder(L, FALSE, a),
         LastAsked(a) = Request("mtu", 0, 0, 0), NEW b, b.mService = Known(L),
         b.request = None, NEW n \in Remotes, Starts(b, n), n.mNeedSaveService = FALSE
  PROVE  Goes(L, n, <<>>, After(a, n.request))
<1>1. TRUE \in BOOLEAN /\ FALSE \in BOOLEAN
  OBVIOUS
<1>2. InOrder(L, TRUE, a)
  BY <1>1, MTUEither
<1>3. n.mState = "GATT_READ_CHARC_DESCRIPTOR_VALUE"
  BY DEF Starts
<1>4. CASE Positions(Known(L)) = {}
  <2>1. n.request = None
    BY <1>4 DEF Starts
  <2>2. After(a, n.request) = a
    BY <2>1, AfterIs
  <2>3. About(L, n, <<>>, a)
    BY <1>3, <2>1 DEF About
  <2> QED
    BY <1>2, <2>2, <2>3, GoesIs
<1>5. CASE Positions(Known(L)) # {}
  <2>1. First(Known(L), <<1, 1, 1>>, n)
    BY <1>5 DEF Starts
  <2>2. PICK q \in Requests : q = n.request
    BY RemoteFields
  <2>3. /\ n.at \in Positions(Known(L))
        /\ q = Request(ToConfigure(Known(L), n.at), n.at[1], n.at[2], n.at[3])
    BY <2>1, <2>2 DEF First
  <2>4. PICK c : c = Append(a, q)
    OBVIOUS
  <2>5. After(a, n.request) = c
    <3>1. ToConfigure(Known(L), n.at) \in {"read", "write"}
      BY DEF ToConfigure
    <3> QED
      BY <2>2, <2>3, <2>4, <3>1, AfterIs
  <2>6. PICK k \in Dues(L, TRUE) : k = <<1, 0, 0, 0>>
    BY <1>1, FirstPlaces
  <2>7. PICK l \in Dues(L, TRUE) : NextPlace(L, TRUE, k, l) /\ q = AskedAt(L, l)
    BY <2>1, <2>2, <2>6, LoadedFollows
  <2>8. LastAsked(a) = AskedAt(L, k)
    BY <2>6, FirstPlaces
  <2>9. InOrder(L, TRUE, c) /\ c # <<>> /\ LastAsked(c) = q
    BY <1>1, <1>2, <2>4, <2>7, <2>8, GoesOn, ZenonT(60)
  <2>10. About(L, n, <<>>, c)
    BY <1>3, <2>3, <2>9 DEF About
  <2> QED
    BY <2>5, <2>9, <2>10, GoesIs
<1> QED
  BY <1>4, <1>5

\* A service more, ...
LEMMA ServiceGoes ==
  ASSUME NEW L \in Armbands, NEW r \in Remotes, NEW m \in Seq(Messages), m # <<>>,
         Stands(L, r, m), r.mState = "GATT_PRI_SVC", Head(m) = "group",
         NEW a, Goes(L, r, m, a), NEW n, n = [r EXCEPT !.mService = Append(@, <<>>)]
  PROVE  Goes(L, n, Tail(m), After(a, n.request))
<1>1. n.mState = "GATT_PRI_SVC" /\ n.request = None
      /\ n.mNeedSaveService = r.mNeedSaveService
  BY ServiceTaken DEF Remotes
<1>2. Tail(m) # <<>> /\ Tail(m)[Len(Tail(m))] = m[Len(m)]
  BY ServiceTaken
<1>3. About(L, r, m, a) /\ InOrder(L, ~r.mNeedSaveService, a)
  BY Zenon DEF Goes
<1>4. About(L, n, Tail(m), a)
  BY <1>1, <1>2, <1>3 DEF About
<1>5. After(a, n.request) = a
  BY <1>1, AfterIs
<1> QED
  BY <1>1, <1>3, <1>4, <1>5, Zenon DEF Goes

\* ... and after the last one the first is looked into.
LEMMA ServicesGo ==
  ASSUME NEW L \in Armbands, NEW r \in Remotes, NEW m \in Seq(Messages), m # <<>>,
         Stands(L, r, m), r.mState = "GATT_PRI_SVC", Head(m) = "groupDone",
         NEW a \in Seq(Requests), Goes(L, r, m, a),
         NEW n, n = Ask(r, "GATT_INC_SVC", "included", r.svc, 0, 0)
  PROVE  Goes(L, n, Tail(m), After(a, n.request))
<1>1. r.mNeedSaveService = TRUE /\ Tail(m) = <<>> /\ r.svc = 1 /\ m[Len(m)] = "groupDone"
  BY ServicesTaken, RemoteFields
<1>2. InOrder(L, FALSE, a) /\ About(L, r, m, a)
  BY <1>1, GoesIs
<1>3. a # <<>> /\ LastAsked(a) = Request("primary", 0, 0, 0)
  <2>1. /\ a # <<>> /\ LastAsked(a).op # "mtu"
        /\ LastAsked(a) \in {Request("mtu", 0, 0, 0), Request("primary", 0, 0, 0)}
    BY <1>1, <1>2 DEF About
  <2>2. Request("mtu", 0, 0, 0).op = "mtu"
    BY RequestIs
  <2> QED
    BY <2>1, <2>2
<1>4. PICK q \in Requests : q = Request("included", 1, 0, 0)
  <2>1. "included" \in Ops /\ 1 \in Nat /\ 0 \in Nat
    BY DEF Ops
  <2> QED
    BY <2>1, RequestIs
<1>5. n \in Remotes /\ n.mNeedSaveService = TRUE /\ n.mState = "GATT_INC_SVC"
      /\ n.request = q /\ n.svc = 1
  BY <1>1, <1>4, AskFields, FirstStates
<1>6. PICK b : b = Append(a, q)
  OBVIOUS
<1>7. After(a, n.request) = b
  BY <1>4, <1>5, <1>6, AfterIs
<1>8. InOrder(L, FALSE, b) /\ b # <<>> /\ LastAsked(b) = q
  <2>1. FALSE \in BOOLEAN
    OBVIOUS
  <2>2. PICK k \in Dues(L, FALSE) : k = <<2, 0, 0, 0>>
    BY FirstPlaces
  <2>3. PICK s \in 1..Len(L), z \in {0, 1} : s = 1 /\ z = 0
    BY Shape
  <2>4. /\ <<3, s, 0, z>> \in Dues(L, FALSE)
        /\ AskedAt(L, <<3, s, 0, z>>) = Request("included", s, 0, 0)
    BY <2>3, Shape, ServicePlaces
  <2>5. PICK l \in Dues(L, FALSE) : l = <<3, 1, 0, 0>> /\ q = AskedAt(L, l)
    BY <1>4, <2>3, <2>4
  <2>6. LastAsked(a) = AskedAt(L, k)
    BY <1>3, <2>2, FirstPlaces
  <2>7. NextPlace(L, FALSE, k, l)
    BY <2>2, <2>5, FirstPlacesFollow
  <2> QED
    BY <1>2, <1>3, <1>6, <2>1, <2>5, <2>6, <2>7, GoesOn, ZenonT(60)
<1>9. About(L, n, <<>>, b)
  BY <1>4, <1>5, <1>8 DEF About
<1> QED
  BY <1>1, <1>5, <1>7, <1>8, <1>9, GoesIs

\* The characteristics are asked for after the services included, ...
LEMMA IncludedGoes ==
  ASSUME NEW L \in Armbands, NEW r \in Remotes, NEW m \in Seq(Messages), m # <<>>,
         Stands(L, r, m), r.mState = "GATT_INC_SVC", NEW a \in Seq(Requests),
         Goes(L, r, m, a), NEW n, n = StartDiscoveryCharacteristic(r)
  PROVE  Goes(L, n, Tail(m), After(a, n.request))
<1>1. /\ Tail(m) = <<>> /\ n.mState = "GATT_DIS_CHARC" /\ n.mNeedSaveService = TRUE
      /\ n.request = Request("characteristics", r.svc, 0, 0) /\ n.svc = r.svc
      /\ AtCharacteristics(L, n, <<>>) /\ n \in Remotes
  BY IncludedTaken, RemoteFields DEF Lands
<1>2. StandsAt(L, r)
  BY DEF Stands, AtIncluded
<1>3. r.mNeedSaveService = TRUE /\ r.svc \in 1..Len(L) /\ ~L[r.svc].empty
      /\ Len(L) \in Nat
  BY <1>2, Shape, RemoteFields DEF StandsAt
<1>4. InOrder(L, FALSE, a) /\ About(L, r, m, a)
  BY <1>3, GoesIs
<1>5. a # <<>> /\ LastAsked(a) = Request("included", r.svc, 0, 0)
  BY <1>4 DEF About
<1>6. PICK q \in Requests : q = n.request
  BY <1>1, RemoteFields
<1>7. PICK b : b = Append(a, q)
  OBVIOUS
<1>8. After(a, n.request) = b
  BY <1>1, <1>6, <1>7, AfterIs
<1>9. InOrder(L, FALSE, b) /\ b # <<>> /\ LastAsked(b) = q
  <2>1. FALSE \in BOOLEAN
    OBVIOUS
  <2>2. PICK s \in 1..Len(L) : s = r.svc
    BY <1>3
  <2>3. PICK k \in Dues(L, FALSE) : LastAsked(a) = AskedAt(L, k) /\ k = <<3, s, 0, 0>>
    <3>1. PICK op \in WalkOps : op = "included"
      BY DEF WalkOps
    <3>2. PICK k : k = PlaceFor(op, s, 0)
      OBVIOUS
    <3>3. k = <<3, s, 0, 0>>
      BY <3>1, <3>2 DEF PlaceFor
    <3>4. k \in Dues(L, FALSE) /\ LastAsked(a) = AskedAt(L, k)
      <4>1. LastAsked(a) = Request(op, s, 0, 0)
        BY <1>5, <2>2, <3>1
      <4>2. PlaceFor(op, s, 0) \in LastPlaces(L, a)
        BY <1>4, <1>5, <4>1, LastPlace, Zenon
      <4> QED
        BY <3>2, <4>2 DEF LastPlaces
    <3> QED
      BY <3>3, <3>4
  <2>4. PICK z \in {0, 1} : z = 1
    OBVIOUS
  <2>5. /\ <<3, s, 0, z>> \in Dues(L, FALSE)
        /\ AskedAt(L, <<3, s, 0, z>>) = Request("characteristics", s, 0, 0)
    <3>1. ~L[s].empty
      BY <1>3, <2>2
    <3>2. /\ <<3, s, 0, z>> \in Dues(L, FALSE)
          /\ AskedAt(L, <<3, s, 0, z>>)
                = Request(IF z = 0 THEN "included" ELSE "characteristics", s, 0, 0)
      BY <1>3, <3>1, ServicePlaces, Zenon
    <3>3. (IF z = 0 THEN "included" ELSE "characteristics") = "characteristics"
      BY <2>4
    <3> QED
      BY <3>2, <3>3
  <2>6. PICK l \in Dues(L, FALSE) : l = <<3, s, 0, 1>> /\ q = AskedAt(L, l)
    BY <1>1, <1>6, <2>2, <2>4, <2>5
  <2>7. NextPlace(L, FALSE, k, l)
    <3>1. s \in Nat /\ 0 \in Nat
      BY <1>3
    <3> QED
      BY <2>3, <2>6, <3>1, InnerPlacesFollow
  <2> QED
    BY <1>4, <1>5, <1>7, <2>1, <2>3, <2>6, <2>7, GoesOn, ZenonT(60)
<1>10. About(L, n, <<>>, b)
  BY <1>1, <1>6, <1>9 DEF About
<1> QED
  BY <1>1, <1>8, <1>9, <1>10, GoesIs

\* ... and their list grows as the answers come.
LEMMA CharacteristicGoes ==
  ASSUME NEW L \in Armbands, NEW r \in Remotes, NEW m \in Seq(Messages), m # <<>>,
         Stands(L, r, m), r.mState = "GATT_DIS_CHARC", Head(m) = "type",
         NEW a, Goes(L, r, m, a), NEW n, n = [r EXCEPT !.mService[r.svc] = Append(@, <<>>)]
  PROVE  Goes(L, n, Tail(m), After(a, n.request))
<1>1. /\ n.mState = "GATT_DIS_CHARC" /\ n.svc = r.svc /\ n.request = None
      /\ n.mNeedSaveService = r.mNeedSaveService /\ AtCharacteristics(L, n, Tail(m))
      /\ Tail(m) # <<>> => Tail(m)[Len(Tail(m))] = "typeDone"
  BY CharacteristicTaken
<1>2. About(L, r, m, a) /\ InOrder(L, ~r.mNeedSaveService, a)
  BY Zenon DEF Goes
<1>3. About(L, n, Tail(m), a)
  BY <1>1, <1>2 DEF About
<1>4. After(a, n.request) = a
  BY <1>1, AfterIs
<1> QED
  BY <1>1, <1>2, <1>3, <1>4, Zenon DEF Goes

\* The error that is taken for the end of a list of characteristics was a
\* refusal, ...
LEMMA NotFoundRefused ==
  ASSUME NEW L \in Armbands, NEW r \in Remotes, NEW m \in Seq(Messages), m # <<>>,
         Stands(L, r, m), r.mState = "GATT_DIS_CHARC", NEW a, Goes(L, r, m, a)
  PROVE  Head(m) \notin {"notFound", "error"}
<1>1. About(L, r, m, a)
  BY Zenon DEF Goes
<1>2. m[Len(m)] = "typeDone"
  BY <1>1 DEF About
<1> QED
  BY <1>2, NotFoundTaken, ErrorAtCharacteristicsTaken

\* ... and after the list the walk visits the first of it.
LEMMA CharacteristicsGo ==
  ASSUME NEW L \in Armbands, NEW r \in Remotes, NEW m \in Seq(Messages), m # <<>>,
         Stands(L, r, m), r.mState = "GATT_DIS_CHARC", Head(m) = "typeDone",
         NEW a \in Seq(Requests), Goes(L, r, m, a)
  PROVE  /\ r.mService[r.svc] = <<>> => Goes(L, r, Tail(m), After(a, r.request))
         /\ r.mService[r.svc] # <<>> =>
               \A n : Keeps(r, n) /\ MovesOn(L, r, 1, n) /\ Stands(L, n, <<>>) =>
                  Goes(L, n, Tail(m), After(a, n.request))
<1>1. About(L, r, m, a) /\ InOrder(L, ~r.mNeedSaveService, a)
  BY Zenon DEF Goes
<1>2. AtCharacteristics(L, r, m) /\ a # <<>>
      /\ LastAsked(a) = Request("characteristics", r.svc, 0, 0)
  BY <1>1 DEF About
<1>3. /\ Tail(m) = <<>> /\ r.request = None /\ StandsAt(L, r) /\ r.svc \in 1..Len(L)
      /\ r.mService[r.svc] = <<>> => AtCharacteristics(L, r, <<>>)
  BY <1>2, CharacteristicsTaken
<1>4. ASSUME r.mService[r.svc] = <<>>
      PROVE  Goes(L, r, Tail(m), After(a, r.request))
  <2>1. About(L, r, <<>>, a)
    BY <1>1, <1>3, <1>4 DEF About
  <2>2. After(a, r.request) = a
    BY <1>3, AfterIs
  <2> QED
    BY <1>1, <1>3, <2>1, <2>2, Zenon DEF Goes
<1>5. ASSUME NEW n, Keeps(r, n), MovesOn(L, r, 1, n), Stands(L, n, <<>>)
      PROVE  Goes(L, n, Tail(m), After(a, n.request))
  <2>1. r.mNeedSaveService = TRUE
    BY <1>3, RemoteFields DEF StandsAt
  <2>2. InOrder(L, FALSE, a)
    BY <2>1, GoesIs
  <2>3. PICK k \in Dues(L, FALSE) : LastAsked(a) = AskedAt(L, k) /\ k = <<3, r.svc, 0, 1>>
    <3>1. PICK op \in WalkOps : op = "characteristics"
      BY DEF WalkOps
    <3>2. PICK k : k = PlaceFor(op, r.svc, 0)
      OBVIOUS
    <3>3. k = <<3, r.svc, 0, 1>>
      BY <3>1, <3>2 DEF PlaceFor
    <3>4. k \in Dues(L, FALSE) /\ LastAsked(a) = AskedAt(L, k)
      <4>1. LastAsked(a) = Request(op, r.svc, 0, 0)
        BY <1>2, <3>1
      <4>2. PlaceFor(op, r.svc, 0) \in LastPlaces(L, a)
        BY <1>2, <2>2, <4>1, LastPlace, Zenon
      <4> QED
        BY <3>2, <4>2 DEF LastPlaces
    <3> QED
      BY <3>3, <3>4
  <2>4. PICK c \in Nat : c = 0
    OBVIOUS
  <2>5. r.svc \in Nat
    BY RemoteFields
  <2>6. Reached(L, k, r.svc, c)
    BY <2>3, <2>4, <2>5, ReachedAt
  <2>7. MovesOn(L, r, c + 1, n)
    BY <1>5, <2>4
  <2> QED
    BY <1>2, <1>3, <1>5, <2>2, <2>3, <2>6, <2>7, MoveGoes
<1> QED
  BY <1>4, <1>5

\* The places of a characteristic's two requests.
LEMMA PlaceForIs ==
  \A s, c : /\ PlaceFor("value", s, c) = <<3, s, c, 0>>
            /\ PlaceFor("descriptors", s, c) = <<3, s, c, 1>>
BY DEF PlaceFor

\* The descriptors of a characteristic are asked for after its value, ...
LEMMA ValueGoes ==
  ASSUME NEW L \in Armbands, NEW r \in Remotes, NEW m, m # <<>>, StandsIn(L, r),
         r.request = None, r.mState = "GATT_READ_CHARC_VALUE", m[Len(m)] # "infoDone",
         NEW a \in Seq(Requests), Goes(L, r, m, a),
         NEW n, Keeps(r, n), Follows(L, r, n), Stands(L, n, <<>>)
  PROVE  Goes(L, n, <<>>, After(a, n.request))
<1>1. r.mNeedSaveService = TRUE /\ r.svc \in 1..Len(L) /\ ~L[r.svc].empty
      /\ Len(L) \in Nat /\ StandsAt(L, r) /\ r.chr \in 1..Len(L[r.svc].chars)
      /\ Len(L[r.svc].chars) \in Nat /\ r.svc \in Nat /\ r.chr \in Nat /\ r.chr # 0
  <2>1. /\ StandsAt(L, r) /\ r.svc \in 1..Len(L) /\ r.svc \in Nat /\ r.chr \in Nat
        /\ Len(L) \in Nat /\ Len(L[r.svc].chars) \in Nat
        /\ r.chr \in 1..Len(L[r.svc].chars)
    BY WithinCharacteristic
  <2>2. r.mNeedSaveService = TRUE /\ ~L[r.svc].empty
    BY <2>1, RemoteFields DEF StandsAt
  <2>3. r.chr # 0
    BY <2>1
  <2> QED
    BY <2>1, <2>2, <2>3
<1>2. InOrder(L, FALSE, a) /\ About(L, r, m, a)
  BY <1>1, GoesIs
<1>3. a # <<>> /\ LastAsked(a) = Request("value", r.svc, r.chr, 0)
  <2>1. r.request.op = "none"
    BY RequestIs DEF None
  <2> QED
    BY <1>2, <2>1 DEF About
<1>4. PICK s \in 1..Len(L) : s = r.svc
  BY <1>1
<1>5. PICK c \in 1..Len(L[s].chars) : c = r.chr
  BY <1>1, <1>4
<1>6. PICK k \in Dues(L, FALSE) : LastAsked(a) = AskedAt(L, k) /\ k = <<3, s, c, 0>>
  <2>1. PICK op \in WalkOps : op = "value"
    BY DEF WalkOps
  <2>2. LastAsked(a) = Request(op, s, c, 0)
    BY <1>3, <1>4, <1>5, <2>1
  <2>3. PlaceFor(op, s, c) \in LastPlaces(L, a)
    BY <1>2, <1>3, <2>2, LastPlace, Zenon
  <2> QED
    BY <2>1, <2>3, PlaceForIs DEF LastPlaces
<1>7. n \in Remotes /\ n.mNeedSaveService = TRUE /\ n.request \in Requests
  BY <1>1, RemoteFields DEF Keeps
<1>8. CASE RoomIn(L, r.svc, r.chr)
  <2>1. PICK q \in Requests : q = n.request
    BY <1>7
  <2>2. /\ n.mState = "GATT_READ_CHARC_VALUE" /\ n.svc = s /\ n.chr = c
        /\ q = Request("descriptors", s, c, 0)
    BY <1>4, <1>5, <1>8, <2>1 DEF Follows
  <2>3. PICK b : b = Append(a, q)
    OBVIOUS
  <2>4. After(a, n.request) = b
    BY <2>1, <2>2, <2>3, AfterIs
  <2>5. PICK z \in {0, 1} : z = 1
    OBVIOUS
  <2>6. /\ <<3, s, c, z>> \in Dues(L, FALSE)
        /\ AskedAt(L, <<3, s, c, z>>) = Request("descriptors", s, c, 0)
    <3>1. (IF z = 0 THEN L[s].chars[c].readable ELSE RoomIn(L, s, c))
      BY <1>4, <1>5, <1>8, <2>5
    <3>2. /\ <<3, s, c, z>> \in Dues(L, FALSE)
          /\ AskedAt(L, <<3, s, c, z>>)
                = Request(IF z = 0 THEN "value" ELSE "descriptors", s, c, 0)
      <4>1. ~L[s].empty /\ Len(L[s].chars) \in Nat
        BY <1>1, <1>4
      <4> QED
        BY <1>1, <3>1, <4>1, CharacteristicPlaces, Zenon
    <3>3. (IF z = 0 THEN "value" ELSE "descriptors") = "descriptors"
      BY <2>5
    <3> QED
      BY <3>2, <3>3
  <2>7. PICK l \in Dues(L, FALSE) : l = <<3, s, c, 1>> /\ q = AskedAt(L, l)
    BY <2>2, <2>5, <2>6
  <2>8. NextPlace(L, FALSE, k, l)
    <3>1. s \in Nat /\ c \in Nat
      BY <1>1, <1>4, <1>5
    <3> QED
      BY <1>6, <2>7, <3>1, InnerPlacesFollow
  <2>9. InOrder(L, FALSE, b) /\ b # <<>> /\ LastAsked(b) = q
    <3>1. FALSE \in BOOLEAN
      OBVIOUS
    <3> QED
      BY <1>2, <1>3, <1>6, <2>3, <2>7, <2>8, <3>1, GoesOn, ZenonT(60)
  <2>10. q.op = "descriptors"
    BY <2>2, RequestIs
  <2>11. About(L, n, <<>>, b)
    BY <2>1, <2>2, <2>9, <2>10 DEF About
  <2> QED
    BY <1>7, <2>4, <2>9, <2>11, GoesIs
<1>9. CASE ~RoomIn(L, r.svc, r.chr)
  <2>1. MovesOn(L, r, r.chr + 1, n)
    BY <1>9 DEF Follows
  <2>2. Reached(L, k, r.svc, r.chr)
    BY <1>1, <1>4, <1>5, <1>6, <1>9, ReachedAt
  <2> QED
    BY <1>1, <1>2, <1>3, <1>6, <2>1, <2>2, MoveGoes
<1> QED
  BY <1>8, <1>9

\* ... a long value again in parts, ...
LEMMA LongGoes ==
  ASSUME NEW L \in Armbands, NEW r \in Remotes, NEW m \in Seq(Messages), m # <<>>,
         Stands(L, r, m), r.mState = "GATT_READ_CHARC_VALUE", Head(m) = "readLong",
         NEW a, Goes(L, r, m, a),
         NEW n, n = Ask(r, "GATT_READ_CHARC_VALUE", "long", r.svc, r.chr, 0)
  PROVE  Goes(L, n, Tail(m), After(a, n.request))
<1>1. /\ Tail(m) = <<>> /\ n.mState = "GATT_READ_CHARC_VALUE"
      /\ n.svc = r.svc /\ n.chr = r.chr /\ n.mNeedSaveService = r.mNeedSaveService
      /\ n.request = Request("long", r.svc, r.chr, 0)
  BY LongTaken
<1>2. m[Len(m)] = "readLong" /\ r.request = None
  BY <1>1, OnlyOne, ValuesAre
<1>3. r.request.op = "none" /\ n.request.op = "long"
  BY <1>1, <1>2, RequestIs DEF None
<1>4. About(L, r, m, a) /\ InOrder(L, ~r.mNeedSaveService, a)
  BY Zenon DEF Goes
<1>5. About(L, n, <<>>, a)
  BY <1>1, <1>2, <1>3, <1>4 DEF About
<1>6. After(a, n.request) = a
  BY <1>1, AfterIs
<1> QED
  BY <1>1, <1>4, <1>5, <1>6, Zenon DEF Goes

\* ... and the list of the descriptors grows as the answers come, ...
LEMMA DescriptorGoes ==
  ASSUME NEW L \in Armbands, NEW r \in Remotes, NEW m \in Seq(Messages), m # <<>>,
         Stands(L, r, m), r.mState = "GATT_READ_CHARC_VALUE", Head(m) = "info",
         NEW a, Goes(L, r, m, a), NEW n,
         n = [r EXCEPT !.mService[r.svc][r.chr] =
                 Append(r.mService[r.svc][r.chr],
                        L[r.svc].chars[r.chr].descs[Len(r.mService[r.svc][r.chr]) + 1])]
  PROVE  Goes(L, n, Tail(m), After(a, n.request))
<1>1. /\ n.mState = "GATT_READ_CHARC_VALUE"
      /\ n.svc = r.svc /\ n.chr = r.chr /\ n.request = None /\ r.request = None
      /\ n.mNeedSaveService = r.mNeedSaveService
      /\ m[Len(m)] = "infoDone" /\ Tail(m) # <<>> /\ Tail(m)[Len(Tail(m))] = "infoDone"
  BY DescriptorTaken, ZenonT(60)
<1>2. About(L, r, m, a) /\ InOrder(L, ~r.mNeedSaveService, a)
  BY Zenon DEF Goes
<1>3. About(L, n, Tail(m), a)
  BY <1>1, <1>2, Zenon DEF About
<1>4. After(a, n.request) = a
  BY <1>1, AfterIs, ZenonT(60)
<1> QED
  BY <1>1, <1>2, <1>3, <1>4, Zenon DEF Goes

\* ... after which the walk visits the next characteristic.
LEMMA DescriptorsGo ==
  ASSUME NEW L \in Armbands, NEW r \in Remotes, NEW m, m # <<>>, StandsIn(L, r),
         r.request = None, r.mState = "GATT_READ_CHARC_VALUE", m[Len(m)] = "infoDone",
         NEW a \in Seq(Requests), Goes(L, r, m, a),
         NEW n, Keeps(r, n), MovesOn(L, r, r.chr + 1, n), Stands(L, n, <<>>)
  PROVE  Goes(L, n, <<>>, After(a, n.request))
<1>1. r.mNeedSaveService = TRUE /\ StandsAt(L, r) /\ r.svc \in Nat /\ r.chr \in Nat
  BY WithinCharacteristic, RemoteFields DEF StandsAt
<1>2. InOrder(L, FALSE, a) /\ About(L, r, m, a)
  BY <1>1, GoesIs
<1>3. a # <<>> /\ LastAsked(a) = Request("descriptors", r.svc, r.chr, 0)
  BY <1>2 DEF About
<1>4. PICK k \in Dues(L, FALSE) : LastAsked(a) = AskedAt(L, k) /\ k = <<3, r.svc, r.chr, 1>>
  <2>1. PICK op \in WalkOps : op = "descriptors"
    BY DEF WalkOps
  <2>2. LastAsked(a) = Request(op, r.svc, r.chr, 0)
    BY <1>3, <2>1
  <2>3. PlaceFor(op, r.svc, r.chr) \in LastPlaces(L, a)
    BY <1>2, <1>3, <2>2, LastPlace, Zenon
  <2> QED
    BY <2>1, <2>3, PlaceForIs DEF LastPlaces
<1>5. Reached(L, k, r.svc, r.chr)
  BY <1>1, <1>4, ReachedAt
<1> QED
  BY <1>1, <1>2, <1>3, <1>4, <1>5, MoveGoes

\* Between two positions next to each other there is no third.
LEMMA NextIsAfter ==
  ASSUME NEW L \in Armbands, NEW p \in Positions(Known(L)), NEW o \in Positions(Known(L)),
         Before(p, o)
  PROVE  ~Before(o, <<p[1], p[2], p[3] + 1>>)
<1>1. p \in Triples /\ o \in Triples
  BY KnownShape, PositionsAre
<1>2. /\ p[1] \in Nat /\ p[2] \in Nat /\ p[3] \in Nat
      /\ o[1] \in Nat /\ o[2] \in Nat /\ o[3] \in Nat
  BY <1>1 DEF Triples
<1>3. PICK e : e[1] = p[1] /\ e[2] = p[2] /\ e[3] = p[3] + 1 /\ e = <<p[1], p[2], p[3] + 1>>
  <2>1. LET e == <<p[1], p[2], p[3] + 1>> IN e[1] = p[1] /\ e[2] = p[2] /\ e[3] = p[3] + 1
    OBVIOUS
  <2> QED
    BY <2>1
<1>4. ~Before(o, e)
  BY <1>2, <1>3 DEF Before
<1> QED
  BY <1>3, <1>4

\* A descriptor is configured after the one before it, ...
LEMMA ConfiguredGoes ==
  ASSUME NEW L \in Armbands, NEW r \in Remotes, NEW m, m # <<>>, r.mService = Known(L),
         r.mState = "GATT_READ_CHARC_DESCRIPTOR_VALUE",
         NEW a \in Seq(Requests), Goes(L, r, m, a),
         NEW n, Keeps(r, n), n.mState = r.mState, First(r.mService, NextPosition(r), n)
  PROVE  Goes(L, n, <<>>, After(a, n.request))
<1>1. PICK loaded \in BOOLEAN : loaded = ~r.mNeedSaveService
  BY RemoteFields
<1>2. n \in Remotes /\ n.mNeedSaveService = r.mNeedSaveService /\ n.request \in Requests
  BY RemoteFields DEF Keeps
<1>3. InOrder(L, loaded, a) /\ About(L, r, m, a)
  BY <1>1, Zenon DEF Goes
<1>4. /\ a # <<>> /\ r.at \in Positions(Known(L))
      /\ LastAsked(a) = Request(ToConfigure(Known(L), r.at), r.at[1], r.at[2], r.at[3])
  BY <1>3 DEF About
<1>5. PICK p \in Positions(Known(L)) : p = r.at
  BY <1>4
<1>6. PICK k \in Dues(L, loaded) : LastAsked(a) = AskedAt(L, k) /\ k = <<4, p[1], p[2], p[3]>>
  BY <1>4, <1>5, PositionPlaces
<1>7. First(Known(L), <<p[1], p[2], p[3] + 1>>, n)
  BY <1>5 DEF NextPosition
<1>8. PICK q \in Requests : q = n.request
  BY <1>2
<1>9. PICK l \in Dues(L, loaded) : NextPlace(L, loaded, k, l) /\ q = AskedAt(L, l)
  BY <1>6, <1>7, <1>8, NextConfigured
<1>10. PICK b : b = Append(a, q)
  OBVIOUS
<1>11. InOrder(L, loaded, b) /\ b # <<>> /\ LastAsked(b) = q
  BY <1>3, <1>4, <1>6, <1>9, <1>10, GoesOn
<1>12. /\ n.at \in Positions(Known(L))
       /\ q = Request(ToConfigure(Known(L), n.at), n.at[1], n.at[2], n.at[3])
  BY <1>7, <1>8 DEF First
<1>13. After(a, n.request) = b
  <2>1. ToConfigure(Known(L), n.at) \in {"read", "write"}
    BY DEF ToConfigure
  <2> QED
    BY <1>8, <1>10, <1>12, <2>1, AfterIs
<1>14. About(L, n, <<>>, b)
  BY <1>11, <1>12 DEF About
<1> QED
  BY <1>1, <1>2, <1>11, <1>13, <1>14, Zenon DEF Goes

\* ... and after the last one everything that is documented was asked for.
LEMMA AllAsked ==
  ASSUME NEW L \in Armbands, NEW loaded \in BOOLEAN, NEW a, a # <<>>, InOrder(L, loaded, a),
         NEW p \in Positions(Known(L)),
         LastAsked(a) = Request(ToConfigure(Known(L), p), p[1], p[2], p[3]),
         \A o \in Positions(Known(L)) : Before(o, <<p[1], p[2], p[3] + 1>>)
  PROVE  Range(a) = Documented(L, loaded)
<1>1. PICK k \in Dues(L, loaded) : LastAsked(a) = AskedAt(L, k) /\ k = <<4, p[1], p[2], p[3]>>
  BY PositionPlaces
<1>2. /\ LastAsked(a) \in Documented(L, loaded)
      /\ Range(a) = UpTo(Documented(L, loaded), LastAsked(a))
  BY DEF InOrder
<1>3. ASSUME NEW q \in Documented(L, loaded)
      PROVE  q = LastAsked(a) \/ Earlier(q, LastAsked(a))
  <2>1. SUFFICES ASSUME Earlier(LastAsked(a), q)
                 PROVE  FALSE
    BY <1>2, WalkIsLinear
  <2>2. PICK l \in Dues(L, loaded) : q = AskedAt(L, l)
    BY PlaceFound
  <2>3. Less(k, l)
    BY <1>1, <2>1, <2>2, EarlierIs
  <2>4. l[1] \in 1..4
    BY DueFields
  <2>5. l[1] = 4
    <3>1. \/ 4 < l[1]
          \/ 4 = l[1] /\ p[1] < l[2]
          \/ 4 = l[1] /\ p[1] = l[2] /\ p[2] < l[3]
          \/ 4 = l[1] /\ p[1] = l[2] /\ p[2] = l[3] /\ p[3] < l[4]
      BY <1>1, <2>3, LessFrom, Zenon
    <3> QED
      BY <2>4, <3>1
  <2>6. PICK x \in Positions(Known(L)) : x = <<l[2], l[3], l[4]>>
    BY <2>5, OpsOfPhases
  <2>7. Before(p, x)
    BY <1>1, <2>3, <2>5, <2>6, PositionsAreOrdered
  <2> QED
    BY <2>7, NextIsAfter
<1> QED
  BY <1>2, <1>3 DEF UpTo

\* After the last descriptor every request was made, and the device is CONNECTED.
LEMMA LastGoes ==
  ASSUME NEW L \in Armbands, NEW r \in Remotes, NEW m, m # <<>>, r.mService = Known(L),
         r.mState = "GATT_READ_CHARC_DESCRIPTOR_VALUE", r.request = None,
         NEW a \in Seq(Requests), Goes(L, r, m, a), LastPosition(r),
         NEW n, n = [r EXCEPT !.mState = "CONNECTED"]
  PROVE  Goes(L, n, <<>>, After(a, n.request))
<1>1. PICK loaded \in BOOLEAN : loaded = ~r.mNeedSaveService
  BY RemoteFields
<1>2. /\ n.mNeedSaveService = r.mNeedSaveService /\ n.request = None
      /\ n.mState = "CONNECTED"
  BY DEF Remotes
<1>3. InOrder(L, loaded, a) /\ About(L, r, m, a)
  BY <1>1, Zenon DEF Goes
<1>4. /\ a # <<>> /\ r.at \in Positions(Known(L))
      /\ LastAsked(a) = Request(ToConfigure(Known(L), r.at), r.at[1], r.at[2], r.at[3])
  BY <1>3 DEF About
<1>5. PICK p \in Positions(Known(L)) : p = r.at
  BY <1>4
<1>6. \A o \in Positions(Known(L)) : Before(o, <<p[1], p[2], p[3] + 1>>)
  BY <1>5 DEF LastPosition, Unconfigured, NextPosition
<1>7. LastAsked(a) = Request(ToConfigure(Known(L), p), p[1], p[2], p[3])
  BY <1>4, <1>5
<1>8. Range(a) = Documented(L, loaded)
  BY <1>3, <1>4, <1>6, <1>7, AllAsked
<1>9. About(L, n, <<>>, a)
  <2>1. Range(a) = Documented(L, ~n.mNeedSaveService)
    BY <1>1, <1>2, <1>8, Zenon
  <2> QED
    BY <1>2, <1>4, <2>1 DEF About
<1>10. After(a, n.request) = a
  BY <1>2, AfterIs
<1> QED
  BY <1>1, <1>2, <1>3, <1>9, <1>10, Zenon DEF Goes

WalkBase == Base /\ HistoryTypes /\ AskedInv


\* Only what concerns a device changes what the invariant says of it.
LEMMA OthersAsk ==
  ASSUME WalkBase, NEW d, layout' = layout,
         \A e \in Devices \ {d} : /\ rd'[e] = rd[e] /\ mMessage'[e] = mMessage[e]
                                  /\ link'[e] = link[e] /\ asked'[e] = asked[e]
                                  /\ refused'[e] = refused[e],
         d \in DOMAIN layout =>
            \/ refused'[d]
            \/ /\ InOrder(layout[d], ~rd'[d].mNeedSaveService, asked'[d])
               /\ link'[d] # "down" => About(layout[d], rd'[d], mMessage'[d], asked'[d])
  PROVE  AskedInv'
<1>1. ASSUME NEW e \in DOMAIN layout
      PROVE  ~refused'[e] =>
                /\ InOrder(layout[e], ~rd'[e].mNeedSaveService, asked'[e])
                /\ link'[e] # "down" => About(layout[e], rd'[e], mMessage'[e], asked'[e])
  <2>1. e \in Devices
    BY InRange DEF WalkBase, Base, Typed
  <2>2. CASE e = d
    BY <1>1, <2>2
  <2>3. CASE e # d
    <3>1. /\ rd'[e] = rd[e] /\ mMessage'[e] = mMessage[e]
          /\ link'[e] = link[e] /\ asked'[e] = asked[e] /\ refused'[e] = refused[e]
      BY <2>1, <2>3
    <3>2. ~refused[e] =>
             /\ InOrder(layout[e], ~rd[e].mNeedSaveService, asked[e])
             /\ link[e] # "down" => About(layout[e], rd[e], mMessage[e], asked[e])
      BY <1>1 DEF WalkBase, AskedInv
    <3> QED
      BY <3>1, <3>2, Zenon
  <2> QED
    BY <2>2, <2>3
<1> QED
  BY <1>1 DEF AskedInv

\* A message that is taken.
Walked(d, n) ==
    /\ Take(d, States, Messages, n)
    /\ ~refused[d] => Goes(layout[d], n, Tail(mMessage[d]), After(asked[d], n.request))

\* A device's step that goes on in order keeps the order of the requests.
LEMMA WalkedMoves ==
  ASSUME WalkBase, NEW d \in Devices, NEW n, Walked(d, n), UNCHANGED link \/ Disconnect(d)
  PROVE  AskedInv'
<1>1. /\ link[d] # "down" /\ mMessage' = [mMessage EXCEPT ![d] = Tail(mMessage[d])]
      /\ rd' = [rd EXCEPT ![d] = n] /\ layout' = layout /\ refused' = refused
      /\ asked' = IF n.request.op \in {"none", "auth", "bond", "long"} THEN asked
                  ELSE [asked EXCEPT ![d] = Append(asked[d], n.request)]
  BY DEF Walked, Take
<1>2. /\ rd \in [Devices -> Remotes] /\ mMessage \in [Devices -> Seq(Messages)]
      /\ asked \in [Devices -> Seq(Requests)]
      /\ link \in [Devices -> {"up", "closing", "down"}]
  BY DEF WalkBase, Base, Typed, HistoryTypes
<1>3. /\ rd'[d] = n /\ mMessage'[d] = Tail(mMessage[d])
      /\ asked'[d] = After(asked[d], n.request)
      /\ \A e \in Devices \ {d} : /\ rd'[e] = rd[e] /\ mMessage'[e] = mMessage[e]
                                  /\ asked'[e] = asked[e] /\ refused'[e] = refused[e]
  BY <1>1, <1>2 DEF After
<1>4. \A e \in Devices \ {d} : link'[e] = link[e]
  BY <1>2 DEF Disconnect
<1>5. refused[d] \/ Goes(layout[d], n, Tail(mMessage[d]), After(asked[d], n.request))
  BY DEF Walked
<1>6. \/ refused'[d]
      \/ /\ InOrder(layout[d], ~rd'[d].mNeedSaveService, asked'[d])
         /\ About(layout[d], rd'[d], mMessage'[d], asked'[d])
  BY <1>1, <1>3, <1>5, Zenon DEF Goes
<1> QED
  BY <1>1, <1>3, <1>4, <1>6, OthersAsk

\* What was asked for before a message is taken.
LEMMA TakeGoes ==
  ASSUME WalkBase, NEW d \in Devices, NEW states, NEW messages, NEW n,
         Take(d, states, messages, n), ~refused[d]
  PROVE  /\ asked[d] \in Seq(Requests)
         /\ Goes(layout[d], rd[d], mMessage[d], asked[d])
<1>1. d \in DOMAIN layout /\ link[d] # "down"
  <2>1. Base
    BY DEF WalkBase
  <2>2. link[d] # "down"
    BY DEF Take
  <2> QED
    BY <2>1, <2>2, TakeFinds
<1> QED
  BY <1>1 DEF WalkBase, AskedInv, HistoryTypes, Goes

\* The messages of the first states, ...
LEMMA FirstGo ==
  ASSUME WalkBase, NEW d \in Devices,
         \/ OnDeviceConnected(d) \/ Authenticated(d) \/ AuthenticationNotSupported(d)
         \/ AuthenticationFailed(d) \/ Bonded(d) \/ BondKeyMissing(d)
  PROVE  \E n : Walked(d, n)
<1> DEFINE r == rd[d]
           m == mMessage[d]
           L == layout[d]
           a == asked[d]
<1>0. /\ {"IDLE", "W4SECU"} \subseteq States
      /\ {"connected", "authOk", "authUnsupported", "authNoKey", "authError",
          "bondOk", "bondKeyMissing"} \subseteq Messages
  BY DEF States, Messages
<1>9. Base
  BY DEF WalkBase
<1>1. CASE OnDeviceConnected(d)
  <2>1. PICK op \in {"auth", "bond"} :
           Take(d, {"IDLE"}, {"connected"}, Ask(r, "W4SECU", op, 0, 0, 0))
    BY <1>1 DEF OnDeviceConnected
  <2>2. PICK n : n = Ask(r, "W4SECU", op, 0, 0, 0)
    OBVIOUS
  <2>3. Take(d, {"IDLE"}, {"connected"}, n)
    BY <2>1, <2>2
  <2>4. /\ L \in Armbands /\ r \in Remotes /\ m \in Seq(Messages) /\ m # <<>>
        /\ Stands(L, r, m) /\ r.mState = "IDLE"
    BY <1>9, <2>3, TakeFinds
  <2>5. ASSUME ~refused[d] PROVE Goes(L, n, Tail(m), After(a, n.request))
    <3>1. Goes(L, r, m, a)
      BY <2>3, <2>5, TakeGoes
    <3> HIDE DEF r, m, L, a
    <3> QED
      BY <2>2, <2>4, <3>1, ConnectionGoes
  <2>6. Take(d, States, Messages, n)
    BY <1>0, <2>3 DEF Take
  <2> QED
    BY <2>5, <2>6 DEF Walked
<1>2. ASSUME NEW messages \in SUBSET Messages, NEW n, Take(d, {"W4SECU"}, messages, n),
             \/ n = r \/ n = [r EXCEPT !.mNeedSaveService = TRUE]
             \/ Head(m) = "authError"
             \/ n = Ask(r, "W4SECU", "bond", 0, 0, 0)
             \/ n = Ask(r, "GATT_PRI_SVC", "mtu", 0, 0, 0)
      PROVE  Walked(d, n)
  <2>1. /\ L \in Armbands /\ r \in Remotes /\ m \in Seq(Messages) /\ m # <<>>
        /\ Stands(L, r, m) /\ r.mState = "W4SECU"
    BY <1>9, <1>2, TakeFinds
  <2>2. ASSUME ~refused[d] PROVE Goes(L, n, Tail(m), After(a, n.request))
    <3>1. Goes(L, r, m, a)
      BY <1>2, <2>2, TakeGoes
    <3> HIDE DEF r, m, L, a
    <3> QED
      BY <1>2, <2>1, <3>1, SecurityGoes
  <2>3. Take(d, States, Messages, n)
    BY <1>0, <1>2 DEF Take
  <2> QED
    BY <2>2, <2>3 DEF Walked
<1>3. /\ {"authOk"} \in SUBSET Messages /\ {"authUnsupported"} \in SUBSET Messages
      /\ {"authNoKey", "authError"} \in SUBSET Messages /\ {"authError"} \in SUBSET Messages
      /\ {"bondOk"} \in SUBSET Messages /\ {"bondKeyMissing"} \in SUBSET Messages
  BY <1>0
<1>4. CASE Authenticated(d)
  <2>1. PICK n : n = Ask(r, "W4SECU", "bond", 0, 0, 0)
    OBVIOUS
  <2>2. Take(d, {"W4SECU"}, {"authOk"}, n)
    BY <1>4, <2>1 DEF Authenticated
  <2> QED
    BY <1>2, <1>3, <2>1, <2>2
<1>5. CASE AuthenticationNotSupported(d)
  <2>1. PICK n : n = Ask(r, "GATT_PRI_SVC", "mtu", 0, 0, 0)
    OBVIOUS
  <2>2. Take(d, {"W4SECU"}, {"authUnsupported"}, n)
    BY <1>5, <2>1 DEF AuthenticationNotSupported
  <2> QED
    BY <1>2, <1>3, <2>1, <2>2
<1>6. CASE AuthenticationFailed(d)
  <2>1. CASE Take(d, {"W4SECU"}, {"authNoKey", "authError"}, r)
    BY <1>2, <1>3, <2>1
  <2>2. CASE Take(d, {"W4SECU"}, {"authError"}, [r EXCEPT !.mState = "aborted"])
    <3>1. PICK n : n = [r EXCEPT !.mState = "aborted"]
      OBVIOUS
    <3>2. Take(d, {"W4SECU"}, {"authError"}, n)
      BY <2>2, <3>1
    <3>3. Head(m) = "authError"
      BY <3>2 DEF Take
    <3> QED
      BY <1>2, <1>3, <3>2, <3>3
  <2> QED
    BY <1>6, <2>1, <2>2 DEF AuthenticationFailed
<1>7. CASE Bonded(d)
  <2>1. PICK n : n = Ask(r, "GATT_PRI_SVC", "mtu", 0, 0, 0)
    OBVIOUS
  <2>2. Take(d, {"W4SECU"}, {"bondOk"}, n)
    BY <1>7, <2>1 DEF Bonded
  <2> QED
    BY <1>2, <1>3, <2>1, <2>2
<1>8. CASE BondKeyMissing(d)
  <2>1. PICK n : n = [r EXCEPT !.mNeedSaveService = TRUE]
    OBVIOUS
  <2>2. Take(d, {"W4SECU"}, {"bondKeyMissing"}, n)
    BY <1>8, <2>1 DEF BondKeyMissing
  <2> QED
    BY <1>2, <1>3, <2>1, <2>2
<1> QED
  BY <1>1, <1>4, <1>5, <1>6, <1>7, <1>8

\* ... of the MTU exchange and the services, ...
LEMMA WalkFinds ==
  ASSUME WalkBase, NEW d \in Devices, NEW states \in SUBSET States,
         NEW messages \in SUBSET Messages, NEW n, Take(d, states, messages, n)
  PROVE  /\ layout \in Layouts /\ d \in DOMAIN layout /\ layout[d] \in Armbands
         /\ rd[d] \in Remotes /\ InService(rd[d])
         /\ mMessage[d] \in Seq(Messages) /\ mMessage[d] # <<>>
         /\ Stands(layout[d], rd[d], mMessage[d])
         /\ rd[d].mState \in states /\ Head(mMessage[d]) \in messages
         /\ ~refused[d] => /\ asked[d] \in Seq(Requests)
                           /\ Goes(layout[d], rd[d], mMessage[d], asked[d])
         /\ (~refused[d] => Goes(layout[d], n, Tail(mMessage[d]), After(asked[d], n.request)))
               => Walked(d, n)
<1>1. Base
  BY DEF WalkBase
<1>2. ~refused[d] => /\ asked[d] \in Seq(Requests)
                     /\ Goes(layout[d], rd[d], mMessage[d], asked[d])
  BY TakeGoes
<1>3. Take(d, States, Messages, n)
  BY TakeMore
<1>4. (~refused[d] => Goes(layout[d], n, Tail(mMessage[d]), After(asked[d], n.request)))
         => Walked(d, n)
  BY <1>3 DEF Walked
<1> QED
  BY <1>1, <1>2, <1>4, TakeFinds

\* The steps up to the first service go on in order.
LEMMA ServiceGo ==
  ASSUME WalkBase, NEW d \in Devices,
         MTUExchanged(d) \/ ServiceFound(d) \/ ServicesComplete(d) \/ IncludedComplete(d)
  PROVE  \E n : Walked(d, n)
<1> DEFINE r == rd[d]
           m == mMessage[d]
           L == layout[d]
           a == asked[d]
<1>1. CASE MTUExchanged(d)
  <2>0. PICK n :
           /\ Take(d, {"GATT_PRI_SVC"}, {"mtu"}, n)
           /\ n = IF LoadsService(database[d])
                    THEN [StartConfiguration([r EXCEPT !.mService = LoadService(database[d])])
                             EXCEPT !.mNeedSaveService = FALSE]
                    ELSE Ask(r, "GATT_PRI_SVC", "primary", 0, 0, 0)
    BY <1>1 DEF MTUExchanged
  <2>1. /\ layout \in Layouts /\ d \in DOMAIN layout /\ L \in Armbands /\ r \in Remotes
        /\ m \in Seq(Messages) /\ m # <<>> /\ Stands(L, r, m)
        /\ r.mState = "GATT_PRI_SVC" /\ Head(m) = "mtu"
        /\ ~refused[d] => a \in Seq(Requests) /\ Goes(L, r, m, a)
        /\ (~refused[d] => Goes(L, n, Tail(m), After(a, n.request))) => Walked(d, n)
    <3>1. Take(d, {"GATT_PRI_SVC"}, {"mtu"}, n)
      BY <2>0
    <3> QED
      BY <3>1, WalkFinds, WalkStates, WalkMessages
  <2>2. WellFormed(d, database[d])
    BY DEF WalkBase, Base, FileInv
  <2>3. LoadsService(database[d]) => LoadService(database[d]) = Known(L)
    BY <2>1, <2>2, ComesBack
  <2>4. CASE LoadsService(database[d])
    <3>0. PICK b : b = [r EXCEPT !.mService = Known(L)]
      OBVIOUS
    <3>1. n = [StartConfiguration(b) EXCEPT !.mNeedSaveService = FALSE]
      BY <2>0, <2>3, <2>4, <3>0
    <3>2. r.svc = 1 /\ r.request = None /\ Tail(m) = <<>>
      BY <2>1, MTUTaken
    <3>3. ASSUME ~refused[d] PROVE Goes(L, n, Tail(m), After(a, n.request))
      <4>1. a \in Seq(Requests) /\ Goes(L, r, m, a)
        BY <2>1, <3>3
      <4>2. PICK x : x = Ask(r, "GATT_PRI_SVC", "primary", 0, 0, 0)
        OBVIOUS
      <4> HIDE DEF r, m, L, a
      <4>3. a # <<>> /\ InOrder(L, FALSE, a) /\ LastAsked(a) = Request("mtu", 0, 0, 0)
        BY <2>1, <4>1, <4>2, MTUGoes
      <4>4. /\ n.mNeedSaveService = FALSE /\ Lands(L, n, <<>>)
            /\ b.mService = Known(L) /\ b.request = None /\ Starts(b, n)
        BY <2>1, <3>0, <3>1, <3>2, LoadedTaken
      <4>5. n \in Remotes
        BY <4>4 DEF Lands
      <4>6. Goes(L, n, <<>>, After(a, n.request))
        BY <2>1, <4>1, <4>3, <4>4, <4>5, LoadedGoes
      <4> QED
        BY <3>2, <4>6
    <3> QED
      BY <2>1, <3>3
  <2>5. CASE ~LoadsService(database[d])
    <3>1. n = Ask(r, "GATT_PRI_SVC", "primary", 0, 0, 0)
      BY <2>0, <2>5
    <3>2. ASSUME ~refused[d] PROVE Goes(L, n, Tail(m), After(a, n.request))
      <4>1. a \in Seq(Requests) /\ Goes(L, r, m, a)
        BY <2>1, <3>2
      <4> HIDE DEF r, m, L, a
      <4> QED
        BY <2>1, <3>1, <4>1, MTUGoes
    <3> QED
      BY <2>1, <3>2
  <2> QED
    BY <2>4, <2>5
<1>2. CASE ServiceFound(d)
  <2>0. PICK n : /\ Take(d, {"GATT_PRI_SVC"}, {"group"}, n)
                 /\ n = [r EXCEPT !.mService = Append(@, <<>>)]
    BY <1>2 DEF ServiceFound
  <2>1. /\ L \in Armbands /\ r \in Remotes
        /\ m \in Seq(Messages) /\ m # <<>> /\ Stands(L, r, m)
        /\ r.mState = "GATT_PRI_SVC" /\ Head(m) = "group"
        /\ ~refused[d] => a \in Seq(Requests) /\ Goes(L, r, m, a)
        /\ (~refused[d] => Goes(L, n, Tail(m), After(a, n.request))) => Walked(d, n)
    BY <2>0, WalkFinds, WalkStates, WalkMessages
  <2>2. ASSUME ~refused[d] PROVE Goes(L, n, Tail(m), After(a, n.request))
    <3>1. Goes(L, r, m, a)
      BY <2>1, <2>2
    <3> HIDE DEF r, m, L, a
    <3> QED
      BY <2>0, <2>1, <3>1, ServiceGoes
  <2> QED
    BY <2>1, <2>2
<1>3. CASE ServicesComplete(d)
  <2>0. PICK n : /\ Take(d, {"GATT_PRI_SVC"}, {"groupDone"}, n)
                 /\ n = Ask(r, "GATT_INC_SVC", "included", r.svc, 0, 0)
    BY <1>3 DEF ServicesComplete
  <2>1. /\ L \in Armbands /\ r \in Remotes
        /\ m \in Seq(Messages) /\ m # <<>> /\ Stands(L, r, m)
        /\ r.mState = "GATT_PRI_SVC" /\ Head(m) = "groupDone"
        /\ ~refused[d] => a \in Seq(Requests) /\ Goes(L, r, m, a)
        /\ (~refused[d] => Goes(L, n, Tail(m), After(a, n.request))) => Walked(d, n)
    BY <2>0, WalkFinds, WalkStates, WalkMessages
  <2>2. ASSUME ~refused[d] PROVE Goes(L, n, Tail(m), After(a, n.request))
    <3>1. a \in Seq(Requests) /\ Goes(L, r, m, a)
      BY <2>1, <2>2
    <3> HIDE DEF r, m, L, a
    <3> QED
      BY <2>0, <2>1, <3>1, ServicesGo
  <2> QED
    BY <2>1, <2>2
<1>4. CASE IncludedComplete(d)
  <2>0. PICK n : /\ Take(d, {"GATT_INC_SVC"}, {"notFound", "typeDone"}, n)
                 /\ n = StartDiscoveryCharacteristic(r)
    BY <1>4 DEF IncludedComplete
  <2>1. /\ L \in Armbands /\ r \in Remotes
        /\ m \in Seq(Messages) /\ m # <<>> /\ Stands(L, r, m)
        /\ r.mState = "GATT_INC_SVC"
        /\ ~refused[d] => a \in Seq(Requests) /\ Goes(L, r, m, a)
        /\ (~refused[d] => Goes(L, n, Tail(m), After(a, n.request))) => Walked(d, n)
    BY <2>0, WalkFinds, WalkStates, WalkMessages
  <2>2. ASSUME ~refused[d] PROVE Goes(L, n, Tail(m), After(a, n.request))
    <3>1. a \in Seq(Requests) /\ Goes(L, r, m, a)
      BY <2>1, <2>2
    <3> HIDE DEF r, m, L, a
    <3> QED
      BY <2>0, <2>1, <3>1, IncludedGoes
  <2> QED
    BY <2>1, <2>2
<1> QED
  BY <1>1, <1>2, <1>3, <1>4

\* ... of the characteristics of a service, ...
LEMMA CharacteristicGo ==
  ASSUME WalkBase, NEW d \in Devices,
         CharacteristicFound(d) \/ CharacteristicsComplete(d) \/ NoCharacteristicFound(d)
  PROVE  \E n : Walked(d, n)
<1> DEFINE r == rd[d]
           m == mMessage[d]
           L == layout[d]
           a == asked[d]
<1>1. CASE CharacteristicFound(d)
  <2>0. PICK n : /\ Take(d, {"GATT_DIS_CHARC"}, {"type"}, n)
                 /\ n = [r EXCEPT !.mService[r.svc] = Append(@, <<>>)]
    BY <1>1 DEF CharacteristicFound
  <2>1. /\ L \in Armbands /\ r \in Remotes
        /\ m \in Seq(Messages) /\ m # <<>> /\ Stands(L, r, m)
        /\ r.mState = "GATT_DIS_CHARC" /\ Head(m) = "type"
        /\ ~refused[d] => a \in Seq(Requests) /\ Goes(L, r, m, a)
        /\ (~refused[d] => Goes(L, n, Tail(m), After(a, n.request))) => Walked(d, n)
    BY <2>0, WalkFinds, WalkStates, WalkMessages
  <2>2. ASSUME ~refused[d] PROVE Goes(L, n, Tail(m), After(a, n.request))
    <3>1. Goes(L, r, m, a)
      BY <2>1, <2>2
    <3> HIDE DEF r, m, L, a
    <3> QED
      BY <2>0, <2>1, <3>1, CharacteristicGoes
  <2> QED
    BY <2>1, <2>2
<1>2. CASE CharacteristicsComplete(d)
  <2>0. PICK n : /\ Take(d, {"GATT_DIS_CHARC"}, {"typeDone"}, n)
                 /\ n = IF r.mService[r.svc] = <<>> THEN r ELSE Visit(d, r, 1)
    BY <1>2 DEF CharacteristicsComplete
  <2>1. /\ layout \in Layouts /\ d \in DOMAIN layout /\ L \in Armbands /\ r \in Remotes
        /\ m \in Seq(Messages) /\ m # <<>> /\ Stands(L, r, m)
        /\ r.mState = "GATT_DIS_CHARC" /\ Head(m) = "typeDone"
        /\ ~refused[d] => a \in Seq(Requests) /\ Goes(L, r, m, a)
        /\ (~refused[d] => Goes(L, n, Tail(m), After(a, n.request))) => Walked(d, n)
    <3>1. Take(d, {"GATT_DIS_CHARC"}, {"typeDone"}, n)
      BY <2>0
    <3> QED
      BY <3>1, WalkFinds, WalkStates, WalkMessages
  <2>2. /\ Tail(m) = <<>> /\ r.request = None
        /\ Len(r.mService) = Len(L) /\ r.svc \in 1..Len(L)
    BY <2>1, CharacteristicsTaken
  <2>3. ASSUME ~refused[d] PROVE Goes(L, n, Tail(m), After(a, n.request))
    <3>1. a \in Seq(Requests) /\ Goes(L, r, m, a)
      BY <2>1, <2>3
    <3>2. CASE r.mService[r.svc] = <<>>
      <4>1. n = r
        BY <2>0, <3>2
      <4>2. Goes(L, r, Tail(m), After(a, r.request))
        <5> HIDE DEF r, m, L, a
        <5> QED
          BY <2>1, <3>1, <3>2, CharacteristicsGo
      <4> QED
        BY <4>1, <4>2
    <3>3. CASE r.mService[r.svc] # <<>>
      <4>1. /\ StandsAt(L, r) /\ Len(r.mService[r.svc]) = Len(L[r.svc].chars)
            /\ \A c \in 1..Len(L[r.svc].chars) : r.mService[r.svc][c] = <<>>
        BY <2>1, <3>3, CharacteristicsTaken
      <4>2. Keeps(r, n) /\ MovesOn(L, r, 1, n)
        BY <2>0, <2>1, <2>2, <3>3, <4>1, VisitDoes
      <4>3. Stands(L, n, <<>>)
        <5> HIDE DEF r, L
        <5> QED
          BY <2>1, <2>2, <4>1, <4>2, FirstMoveLands DEF Lands
      <4> HIDE DEF r, m, L, a
      <4> QED
        BY <2>1, <3>1, <3>3, <4>2, <4>3, CharacteristicsGo
    <3> QED
      BY <3>2, <3>3
  <2> QED
    BY <2>1, <2>3
<1>3. CASE NoCharacteristicFound(d)
  <2>1. PICK n : Take(d, {"GATT_DIS_CHARC"}, {"notFound"}, n)
    BY <1>3 DEF NoCharacteristicFound
  <2>2. /\ L \in Armbands /\ r \in Remotes
        /\ m \in Seq(Messages) /\ m # <<>> /\ Stands(L, r, m)
        /\ r.mState = "GATT_DIS_CHARC" /\ Head(m) = "notFound"
        /\ ~refused[d] => a \in Seq(Requests) /\ Goes(L, r, m, a)
        /\ (~refused[d] => Goes(L, n, Tail(m), After(a, n.request))) => Walked(d, n)
    BY <2>1, WalkFinds, WalkStates, WalkMessages
  <2>3. refused[d]
    <3>1. SUFFICES ASSUME ~refused[d] PROVE FALSE
      OBVIOUS
    <3>2. Goes(L, r, m, a)
      BY <2>2, <3>1
    <3> HIDE DEF r, m, L, a
    <3> QED
      BY <2>2, <3>2, NotFoundRefused
  <2> QED
    BY <2>2, <2>3
<1> QED
  BY <1>1, <1>2, <1>3

\* ... of a characteristic, ...
LEMMA ValueGo ==
  ASSUME WalkBase, NEW d \in Devices,
         \/ ValueRead(d) \/ LongValueRead(d) \/ LongValueAnnounced(d)
         \/ PartRead(d) \/ DescriptorFound(d) \/ DescriptorsComplete(d)
  PROVE  \E n : Walked(d, n)
<1> DEFINE r == rd[d]
           m == mMessage[d]
           L == layout[d]
           a == asked[d]
<1>1. CASE ValueRead(d) \/ LongValueRead(d)
  <2>1. PICK n : n = DiscoveryDescriptor(d, r)
    OBVIOUS
  <2>2. PICK messages \in SUBSET Messages :
           /\ Take(d, {"GATT_READ_CHARC_VALUE"}, messages, n)
           /\ messages \subseteq {"read", "error", "notFound", "blobDone"}
    <3>1. CASE ValueRead(d)
      <4>1. Take(d, {"GATT_READ_CHARC_VALUE"}, {"read", "error", "notFound"}, n)
        BY <2>1, <3>1 DEF ValueRead
      <4>2. PICK messages \in SUBSET Messages : messages = {"read", "error", "notFound"}
        BY WalkMessages
      <4> QED
        BY <4>1, <4>2
    <3>2. CASE LongValueRead(d)
      <4>1. Take(d, {"GATT_READ_CHARC_VALUE"}, {"blobDone"}, n)
        BY <2>1, <3>2 DEF LongValueRead
      <4>2. PICK messages \in SUBSET Messages : messages = {"blobDone"}
        BY WalkMessages
      <4> QED
        BY <4>1, <4>2
    <3> QED
      BY <1>1, <3>1, <3>2
  <2>3. /\ layout \in Layouts /\ d \in DOMAIN layout /\ L \in Armbands /\ r \in Remotes
        /\ m \in Seq(Messages) /\ m # <<>> /\ Stands(L, r, m)
        /\ r.mState = "GATT_READ_CHARC_VALUE"
        /\ Head(m) \in messages
        /\ ~refused[d] => a \in Seq(Requests) /\ Goes(L, r, m, a)
        /\ (~refused[d] => Goes(L, n, Tail(m), After(a, n.request))) => Walked(d, n)
    <3>1. Take(d, {"GATT_READ_CHARC_VALUE"}, messages, n)
      BY <2>2
    <3> QED
      BY <3>1, WalkFinds, WalkStates
  <2>4. Head(m) \in {"read", "error", "notFound", "blobDone"}
    BY <2>2, <2>3
  <2>5. r.request = None /\ StandsIn(L, r)
    BY <2>3, ValuesAre
  <2>6. r.mService[r.svc][r.chr] = <<>> /\ Tail(m) = <<>>
    BY <2>3, <2>4, AnswerIs, LastPartTaken, ZenonT(60)
  <2>7. Keeps(r, n) /\ Follows(L, r, n) /\ Lands(L, n, <<>>)
    BY <2>1, <2>3, <2>5, <2>6, ValueDone
  <2>8. m[Len(m)] # "infoDone"
    BY <2>3, <2>4, <2>6, OnlyOne
  <2>9. ASSUME ~refused[d] PROVE Goes(L, n, Tail(m), After(a, n.request))
    <3>1. a \in Seq(Requests) /\ Goes(L, r, m, a)
      BY <2>3, <2>9
    <3>2. Stands(L, n, <<>>)
      BY <2>7 DEF Lands
    <3>3. Goes(L, n, <<>>, After(a, n.request))
      <4> HIDE DEF r, m, L, a
      <4> QED
        BY <2>3, <2>5, <2>7, <2>8, <3>1, <3>2, ValueGoes
    <3> QED
      BY <2>6, <3>3
  <2> QED
    BY <2>3, <2>9
<1>2. CASE LongValueAnnounced(d)
  <2>0. PICK n : /\ Take(d, {"GATT_READ_CHARC_VALUE"}, {"readLong"}, n)
                 /\ n = Ask(r, "GATT_READ_CHARC_VALUE", "long", r.svc, r.chr, 0)
    BY <1>2 DEF LongValueAnnounced
  <2>1. /\ L \in Armbands /\ r \in Remotes
        /\ m \in Seq(Messages) /\ m # <<>> /\ Stands(L, r, m)
        /\ r.mState = "GATT_READ_CHARC_VALUE" /\ Head(m) = "readLong"
        /\ ~refused[d] => a \in Seq(Requests) /\ Goes(L, r, m, a)
        /\ (~refused[d] => Goes(L, n, Tail(m), After(a, n.request))) => Walked(d, n)
    BY <2>0, WalkFinds, WalkStates, WalkMessages
  <2>2. ASSUME ~refused[d] PROVE Goes(L, n, Tail(m), After(a, n.request))
    <3>1. Goes(L, r, m, a)
      BY <2>1, <2>2
    <3> HIDE DEF r, m, L, a
    <3> QED
      BY <2>0, <2>1, <3>1, LongGoes
  <2> QED
    BY <2>1, <2>2
<1>3. CASE PartRead(d)
  <2>0. Take(d, {"GATT_READ_CHARC_VALUE"}, {"blob"}, r)
    BY <1>3 DEF PartRead
  <2>1. /\ L \in Armbands /\ r \in Remotes
        /\ m \in Seq(Messages) /\ m # <<>> /\ Stands(L, r, m)
        /\ r.mState = "GATT_READ_CHARC_VALUE" /\ Head(m) = "blob"
        /\ ~refused[d] => a \in Seq(Requests) /\ Goes(L, r, m, a)
        /\ (~refused[d] => Goes(L, r, Tail(m), After(a, r.request))) => Walked(d, r)
    BY <2>0, WalkFinds, WalkStates, WalkMessages
  <2>2. /\ r.request = None /\ m[Len(m)] = "blobDone" /\ Tail(m) # <<>>
        /\ Tail(m)[Len(Tail(m))] = "blobDone"
    BY <2>1, PartTaken
  <2>3. ASSUME ~refused[d] PROVE Goes(L, r, Tail(m), After(a, r.request))
    <3>1. Goes(L, r, m, a)
      BY <2>1, <2>3
    <3>2. PICK t : t = Tail(m)
      OBVIOUS
    <3>3. t # <<>> /\ t[Len(t)] = m[Len(m)]
      BY <2>2, <3>2
    <3>4. Goes(L, r, t, After(a, r.request))
      <4> HIDE DEF r, m, L, a
      <4> QED
        BY <2>1, <2>2, <3>1, <3>3, StayGoes
    <3> QED
      BY <3>2, <3>4
  <2> QED
    BY <2>1, <2>3
<1>4. CASE DescriptorFound(d)
  <2>0. PICK n :
           /\ Take(d, {"GATT_READ_CHARC_VALUE"}, {"info"}, n)
           /\ n = [r EXCEPT !.mService[r.svc][r.chr] =
                      Append(r.mService[r.svc][r.chr],
                             L[r.svc].chars[r.chr].descs[Len(r.mService[r.svc][r.chr]) + 1])]
    BY <1>4, Zenon DEF DescriptorFound
  <2>1. /\ L \in Armbands /\ r \in Remotes
        /\ m \in Seq(Messages) /\ m # <<>> /\ Stands(L, r, m)
        /\ r.mState = "GATT_READ_CHARC_VALUE" /\ Head(m) = "info"
        /\ ~refused[d] => a \in Seq(Requests) /\ Goes(L, r, m, a)
        /\ (~refused[d] => Goes(L, n, Tail(m), After(a, n.request))) => Walked(d, n)
    <3>1. Take(d, {"GATT_READ_CHARC_VALUE"}, {"info"}, n)
      BY <2>0, Zenon
    <3> QED
      BY <3>1, WalkFinds, WalkStates, WalkMessages, Zenon
  <2>2. ASSUME ~refused[d] PROVE Goes(L, n, Tail(m), After(a, n.request))
    <3>1. Goes(L, r, m, a)
      BY <2>1, <2>2
    <3>2. n = [r EXCEPT !.mService[r.svc][r.chr] =
                  Append(r.mService[r.svc][r.chr],
                         L[r.svc].chars[r.chr].descs[Len(r.mService[r.svc][r.chr]) + 1])]
      BY <2>0, Zenon
    <3> HIDE DEF r, m, L, a
    <3> QED
      BY <2>1, <3>1, <3>2, DescriptorGoes, Zenon
  <2> QED
    BY <2>1, <2>2
<1>5. CASE DescriptorsComplete(d)
  <2>0. PICK n : /\ Take(d, {"GATT_READ_CHARC_VALUE"}, {"infoDone"}, n)
                 /\ n = Visit(d, r, r.chr + 1)
    BY <1>5 DEF DescriptorsComplete
  <2>1. /\ layout \in Layouts /\ d \in DOMAIN layout /\ L \in Armbands /\ r \in Remotes
        /\ m \in Seq(Messages) /\ m # <<>> /\ Stands(L, r, m)
        /\ r.mState = "GATT_READ_CHARC_VALUE" /\ Head(m) = "infoDone"
        /\ ~refused[d] => a \in Seq(Requests) /\ Goes(L, r, m, a)
        /\ (~refused[d] => Goes(L, n, Tail(m), After(a, n.request))) => Walked(d, n)
    BY <2>0, WalkFinds, WalkStates, WalkMessages
  <2>2. /\ r.request = None /\ StandsIn(L, r) /\ Tail(m) = <<>> /\ m[Len(m)] = "infoDone"
        /\ r.mService[r.svc][r.chr] = L[r.svc].chars[r.chr].descs
    BY <2>1, DescriptorsTaken
  <2>3. Keeps(r, n) /\ MovesOn(L, r, r.chr + 1, n) /\ Lands(L, n, <<>>)
    BY <2>0, <2>1, <2>2, CharacteristicDone
  <2>4. ASSUME ~refused[d] PROVE Goes(L, n, Tail(m), After(a, n.request))
    <3>1. a \in Seq(Requests) /\ Goes(L, r, m, a)
      BY <2>1, <2>4
    <3>2. Stands(L, n, <<>>)
      BY <2>3 DEF Lands
    <3>3. Goes(L, n, <<>>, After(a, n.request))
      <4> HIDE DEF r, m, L, a
      <4> QED
        BY <2>1, <2>2, <2>3, <3>1, <3>2, DescriptorsGo
    <3> QED
      BY <2>2, <3>3
  <2> QED
    BY <2>1, <2>4
<1> QED
  BY <1>1, <1>2, <1>3, <1>4, <1>5

\* ... and of the configuration.
LEMMA ConfigurationGo ==
  ASSUME WalkBase, NEW d \in Devices, Configured(d) \/ Ignored(d)
  PROVE  \E n : Walked(d, n)
<1> DEFINE r == rd[d]
           m == mMessage[d]
           L == layout[d]
           a == asked[d]
<1>1. CASE Configured(d)
  <2>0. PICK n : /\ Take(d, {"GATT_READ_CHARC_DESCRIPTOR_VALUE"}, {"read", "write"}, n)
                 /\ n = IF LastPosition(r) THEN [r EXCEPT !.mState = "CONNECTED"]
                        ELSE Configure(r, NextPosition(r))
    BY <1>1 DEF Configured
  <2>1. /\ L \in Armbands /\ r \in Remotes
        /\ m \in Seq(Messages) /\ m # <<>> /\ Stands(L, r, m)
        /\ r.mState = "GATT_READ_CHARC_DESCRIPTOR_VALUE"
        /\ ~refused[d] => a \in Seq(Requests) /\ Goes(L, r, m, a)
        /\ (~refused[d] => Goes(L, n, Tail(m), After(a, n.request))) => Walked(d, n)
    <3>1. Take(d, {"GATT_READ_CHARC_DESCRIPTOR_VALUE"}, {"read", "write"}, n)
      BY <2>0
    <3> QED
      BY <3>1, WalkFinds, WalkStates, WalkMessages
  <2>2. Tail(m) = <<>> /\ r.request = None /\ r.mService = Known(L)
    BY <2>1, ConfiguredTaken
  <2>3. ASSUME ~refused[d] PROVE Goes(L, n, Tail(m), After(a, n.request))
    <3>1. a \in Seq(Requests) /\ Goes(L, r, m, a)
      BY <2>1, <2>3
    <3>2. CASE LastPosition(r)
      <4>1. n = [r EXCEPT !.mState = "CONNECTED"]
        BY <2>0, <3>2
      <4>2. Goes(L, n, <<>>, After(a, n.request))
        <5> HIDE DEF r, m, L, a
        <5> QED
          BY <2>1, <2>2, <3>1, <3>2, <4>1, LastGoes
      <4> QED
        BY <2>2, <4>2
    <3>3. CASE ~LastPosition(r)
      <4>1. Keeps(r, n) /\ n.mState = r.mState /\ First(r.mService, NextPosition(r), n)
        BY <2>0, <2>1, <3>3, ConfigureDoes DEF LastPosition
      <4>2. Goes(L, n, <<>>, After(a, n.request))
        <5> HIDE DEF r, m, L, a
        <5> QED
          BY <2>1, <2>2, <3>1, <4>1, ConfiguredGoes
      <4> QED
        BY <2>2, <4>2
    <3> QED
      BY <3>2, <3>3
  <2> QED
    BY <2>1, <2>3
<1>2. CASE Ignored(d)
  <2>1. CASE Take(d, {"W4SECU"}, {"bondError"}, r)
    <3>1. /\ L \in Armbands /\ r \in Remotes /\ m \in Seq(Messages) /\ m # <<>>
          /\ Stands(L, r, m) /\ r.mState = "W4SECU"
          /\ ~refused[d] => a \in Seq(Requests) /\ Goes(L, r, m, a)
          /\ (~refused[d] => Goes(L, r, Tail(m), After(a, r.request))) => Walked(d, r)
      BY <2>1, WalkFinds, WalkStates, WalkMessages
    <3>2. ASSUME ~refused[d] PROVE Goes(L, r, Tail(m), After(a, r.request))
      <4>1. Goes(L, r, m, a)
        BY <3>1, <3>2
      <4> HIDE DEF r, m, L, a
      <4> QED
        BY <3>1, <4>1, SecurityGoes
    <3> QED
      BY <3>1, <3>2
  <2>2. CASE Take(d, {"GATT_PRI_SVC", "GATT_INC_SVC", "GATT_DIS_CHARC",
                      "GATT_READ_CHARC_DESCRIPTOR_VALUE"}, {"error"}, r)
    <3>1. /\ L \in Armbands /\ r \in Remotes /\ m \in Seq(Messages) /\ m # <<>>
          /\ Stands(L, r, m) /\ Head(m) = "error"
          /\ r.mState \in {"GATT_PRI_SVC", "GATT_INC_SVC", "GATT_DIS_CHARC",
                           "GATT_READ_CHARC_DESCRIPTOR_VALUE"}
          /\ ~refused[d] => a \in Seq(Requests) /\ Goes(L, r, m, a)
          /\ (~refused[d] => Goes(L, r, Tail(m), After(a, r.request))) => Walked(d, r)
      BY <2>2, WalkFinds, WalkStates, WalkMessages
    <3>2. ASSUME ~refused[d] PROVE Goes(L, r, Tail(m), After(a, r.request))
      <4>1. Goes(L, r, m, a)
        BY <3>1, <3>2
      <4>2. r.mState # "GATT_DIS_CHARC"
        <5> HIDE DEF r, m, L, a
        <5> QED
          BY <3>1, <4>1, NotFoundRefused
      <4>3. r.request = None /\ Tail(m) = <<>>
        <5>1. CASE r.mState = "GATT_PRI_SVC"
          <6>1. PICK x : x = Len(L) - Len(r.mService)
            OBVIOUS
          <6>2. ~Rest(m, "group", "groupDone", x)
            BY <3>1, RestTaken
          <6> QED
            BY <3>1, <5>1, <6>1, <6>2, PrimaryTaken
        <5>2. CASE r.mState = "GATT_INC_SVC"
          BY <3>1, <5>2, IncludedTaken
        <5>3. CASE r.mState = "GATT_READ_CHARC_DESCRIPTOR_VALUE"
          BY <3>1, <5>3, ConfiguredTaken
        <5> QED
          BY <3>1, <4>2, <5>1, <5>2, <5>3
      <4>4. Goes(L, r, <<>>, After(a, r.request))
        <5> HIDE DEF r, m, L, a
        <5> QED
          BY <3>1, <4>1, <4>2, <4>3, StayGoes
      <4> QED
        BY <4>3, <4>4
    <3> QED
      BY <3>1, <3>2
  <2> QED
    BY <1>2, <2>1, <2>2 DEF Ignored
<1> QED
  BY <1>1, <1>2

\* Every message taken leaves the walk in order.
LEMMA StepAsks ==
  ASSUME WalkBase, NEW d \in Devices, DeviceStep(d)
  PROVE  AskedInv'
<1>1. Base
  BY DEF WalkBase
<1>2. UNCHANGED link \/ Disconnect(d)
  BY <1>1, DeviceStepMoves
<1>3. \E n : Walked(d, n)
  BY FirstGo, ServiceGo, CharacteristicGo, ValueGo, ConfigurationGo DEF DeviceStep
<1> QED
  BY <1>2, <1>3, WalkedMoves

\* How an answer that leads on ends.
Leads(q, t) ==
    /\ q.op \in {"auth", "bond"} => \A i \in DOMAIN t : t[i] # "authError"
    /\ q.op = "mtu" => t[Len(t)] = "mtu"
    /\ q.op = "primary" => t[Len(t)] = "groupDone"
    /\ q.op = "characteristics" => t[Len(t)] = "typeDone" /\ Len(t) # 1
    /\ q.op = "value" => t[Len(t)] \in {"read", "readLong", "error"}
    /\ q.op = "long" => t[Len(t)] \in {"blobDone", "error"}
    /\ q.op = "descriptors" => t[Len(t)] = "infoDone"

\* What the armband answers without a refusal leads on.
LEMMA AnswersLead ==
  ASSUME NEW d, NEW q \in Requests, rd[d].request = q, layout[d] \in Armbands,
         Within(layout[d], q), NEW t,
         t \in Answers(d) \/ (t \in Refusals(d) /\ q.op \in {"value", "long"})
  PROVE  Leads(q, t)
<1> DEFINE L == layout[d]
<1>0. q.op \in Ops /\ Len(L) \in Nat
  BY Shape DEF Requests, Ops
<1>1. CASE q.op \in {"auth", "bond"}
  <2>1. PICK x \in SecurityAnswers \ {"authError"} : t = <<x>>
    BY <1>1 DEF Answers, Refusals, SecurityAnswers
  <2>2. \A i \in DOMAIN t : t[i] # "authError"
    BY <2>1
  <2> QED
    BY <1>1, <2>2 DEF Leads
<1>2. CASE q.op = "mtu"
  <2>1. t = <<"mtu">>
    BY <1>2 DEF Answers
  <2> QED
    BY <1>2, <2>1 DEF Leads
<1>3. CASE q.op \in {"none", "included", "read", "write"}
  BY <1>3 DEF Leads
<1>4. CASE q.op = "value"
  <2>1. PICK x \in {"read", "readLong", "error"} : t = <<x>>
    BY <1>4 DEF Answers, Refusals
  <2>2. t[Len(t)] = x
    BY <2>1
  <2> QED
    BY <1>4, <2>1, <2>2 DEF Leads
<1>5. CASE q.op = "primary"
  <2>1. t = Listed(Len(L), "group", "groupDone")
    BY <1>5 DEF Answers
  <2>2. "group" \in Messages /\ "groupDone" \in Messages
    BY DEF Messages
  <2>3. t[Len(t)] = "groupDone"
    BY <1>0, <2>1, <2>2, ListedIs, ZenonT(60)
  <2> QED
    BY <1>5, <2>3 DEF Leads
<1>6. CASE q.op = "long"
  <2>1. t = Listed(Blobs, "blob", "blobDone") \/ t = <<"error">>
    BY <1>6 DEF Answers, Refusals
  <2>2. "blob" \in Messages /\ "blobDone" \in Messages /\ Blobs \in Nat
    BY DEF Messages, Blobs
  <2>3. t[Len(t)] \in {"blobDone", "error"}
    <3>1. CASE t = Listed(Blobs, "blob", "blobDone")
      <4>1. PICK b : b = Blobs
        OBVIOUS
      <4>2. t[Len(t)] = "blobDone"
        BY <2>2, <3>1, <4>1, ListedIs
      <4> QED
        BY <4>2
    <3>2. CASE t = <<"error">>
      BY <3>2
    <3> QED
      BY <2>1, <3>1, <3>2
  <2> QED
    BY <1>6, <2>3 DEF Leads
<1>7. CASE q.op = "characteristics"
  <2>1. PICK n : n = Len(L[q.svc].chars)
    OBVIOUS
  <2>2. n \in Nat /\ (L[q.svc].chars = <<>> <=> n = 0)
    BY <1>7, <2>1, Shape, EmptySeq DEF Within
  <2>3. t = Listed(n, "type", "typeDone") /\ n # 0
    BY <1>7, <2>1, <2>2 DEF Answers
  <2>4. "type" \in Messages /\ "typeDone" \in Messages
    BY DEF Messages
  <2>5. t[Len(t)] = "typeDone" /\ Len(t) = n + 1
    BY <2>2, <2>3, <2>4, ListedIs
  <2>6. Len(t) # 1
    BY <2>2, <2>3, <2>5
  <2> QED
    BY <1>7, <2>5, <2>6 DEF Leads
<1>8. CASE q.op = "descriptors"
  <2>1. PICK n : n = Len(L[q.svc].chars[q.chr].descs)
    OBVIOUS
  <2>2. n \in Nat
    <3>1. PICK s \in 1..Len(L) : s = q.svc
      BY <1>8 DEF Within
    <3>2. PICK c \in 1..Len(L[s].chars) : c = q.chr
      BY <1>8, <3>1 DEF Within
    <3>3. L[s].chars[c].descs \in Seq(Kinds)
      BY Shape
    <3>4. PICK k \in Seq(Kinds) : k = L[s].chars[c].descs
      BY <3>3
    <3>5. Len(k) \in Nat
      BY LenProperties
    <3> QED
      BY <2>1, <3>1, <3>2, <3>4, <3>5
  <2>3. t = Listed(n, "info", "infoDone")
    BY <1>8, <2>1 DEF Answers
  <2>4. "info" \in Messages /\ "infoDone" \in Messages
    BY DEF Messages
  <2>5. t[Len(t)] = "infoDone"
    BY <2>2, <2>3, <2>4, ListedIs
  <2> QED
    BY <1>8, <2>5 DEF Leads
<1> QED
  BY <1>0, <1>1, <1>2, <1>3, <1>4, <1>5, <1>6, <1>7, <1>8 DEF Ops

\* An answer that leads on is what the state waits for.
LEMMA ReplyGoes ==
  ASSUME NEW L, NEW r \in Remotes, Stands(L, r, <<>>), NEW a, Goes(L, r, <<>>, a),
         r.request.op # "none", NEW t, t # <<>>, Leads(r.request, t),
         NEW n, n = [r EXCEPT !.request = None], Stands(L, n, t)
  PROVE  Goes(L, n, t, a)
<1> DEFINE q == r.request
<1>1. None \in Requests /\ None.op = "none"
  BY RequestIs DEF None, Ops
<1>2. /\ n \in Remotes /\ n.mService = r.mService /\ n.svc = r.svc /\ n.chr = r.chr
      /\ n.at = r.at /\ n.mState = r.mState /\ n.mNeedSaveService = r.mNeedSaveService
      /\ n.request = None
  BY <1>1 DEF Remotes
<1>3. q # None
  BY <1>1
<1>4. \A op, s, c, k : Request(op, s, c, k).op = op
  BY RequestIs
<1>5. InOrder(L, ~n.mNeedSaveService, a) /\ About(L, r, <<>>, a)
  BY <1>2, Zenon DEF Goes
<1>6. n.mState # "aborted"
  BY <1>2, <1>5 DEF About
<1>7. ASSUME n.mState \in {"IDLE", "W4SECU"}
      PROVE  a = <<>> /\ \A i \in DOMAIN t : t[i] # "authError"
  <2>1. a = <<>>
    BY <1>2, <1>5, <1>7 DEF About
  <2>2. r.mState # "IDLE"
    BY <1>3 DEF Stands, AtConnection
  <2>3. q \in {Request("auth", 0, 0, 0), Request("bond", 0, 0, 0)}
    BY <1>2, <1>3, <1>7, <2>2 DEF Stands, AtSecurity
  <2>4. q.op \in {"auth", "bond"}
    BY <1>4, <2>3
  <2> QED
    BY <2>1, <2>4 DEF Leads
<1>8. n.mState \notin {"IDLE", "W4SECU"} => a # <<>>
  BY <1>2, <1>5 DEF About
<1>9. ASSUME n.mState = "GATT_PRI_SVC"
      PROVE  /\ LastAsked(a) \in {Request("mtu", 0, 0, 0), Request("primary", 0, 0, 0)}
             /\ n.request # None => LastAsked(a) = n.request
             /\ t # <<>> => (LastAsked(a).op = "mtu" <=> t[Len(t)] = "mtu")
  <2>1. /\ LastAsked(a) \in {Request("mtu", 0, 0, 0), Request("primary", 0, 0, 0)}
        /\ LastAsked(a) = q
    BY <1>2, <1>3, <1>5, <1>9 DEF About
  <2>2. q.op \in {"mtu", "primary"}
    BY <1>4, <2>1
  <2>3. q.op = "mtu" <=> t[Len(t)] = "mtu"
    BY <2>2 DEF Leads
  <2> QED
    BY <1>2, <2>1, <2>3
<1>10. n.mState = "GATT_INC_SVC" => LastAsked(a) = Request("included", n.svc, 0, 0)
  BY <1>2, <1>5 DEF About
<1>11. ASSUME n.mState = "GATT_DIS_CHARC"
       PROVE  /\ LastAsked(a) = Request("characteristics", n.svc, 0, 0)
              /\ AtCharacteristics(L, n, t)
              /\ t # <<>> => t[Len(t)] = "typeDone"
  <2>1. LastAsked(a) = Request("characteristics", r.svc, 0, 0) /\ AtCharacteristics(L, r, <<>>)
    BY <1>2, <1>5, <1>11 DEF About
  <2>2. q = Request("characteristics", r.svc, 0, 0)
    BY <1>3, <2>1 DEF AtCharacteristics
  <2>3. q.op = "characteristics"
    BY <1>4, <2>2
  <2>4. t[Len(t)] = "typeDone" /\ Len(t) # 1
    BY <2>3 DEF Leads
  <2>5. Request("included", n.svc, 0, 0) # None
    BY <1>1, <1>4
  <2>6. ~Stuck(L, n, t)
    BY <1>2, <2>4, <2>5 DEF Stuck, One
  <2>7. AtCharacteristics(L, n, t)
    BY <1>11, <2>6 DEF Stands
  <2> QED
    BY <1>2, <2>1, <2>4, <2>7
<1>12. ASSUME n.mState = "GATT_READ_CHARC_VALUE"
       PROVE  /\ LastAsked(a) = Request(
                    IF n.request.op = "descriptors" \/ (t # <<>> /\ t[Len(t)] = "infoDone")
                      THEN "descriptors" ELSE "value", n.svc, n.chr, 0)
              /\ t # <<>> => t[Len(t)] # "notFound"
  <2>1. LastAsked(a) = Request(IF q.op = "descriptors" THEN "descriptors" ELSE "value",
                               r.svc, r.chr, 0)
    BY <1>2, <1>5, <1>12 DEF About
  <2>2. AtValue(L, r, <<>>)
    BY <1>2, <1>12 DEF Stands
  <2>3. q.op \in {"value", "long", "descriptors"}
    <3>1. \E op \in {"value", "long", "descriptors"} : q = Request(op, r.svc, r.chr, 0)
      BY <1>3, <2>2, Zenon DEF AtValue
    <3> QED
      BY <1>4, <3>1
  <2>4. (q.op = "descriptors" <=> t[Len(t)] = "infoDone") /\ t[Len(t)] # "notFound"
    BY <2>3 DEF Leads
  <2>5. n.request.op # "descriptors"
    BY <1>1, <1>2
  <2> QED
    BY <1>2, <2>1, <2>4, <2>5
<1>13. ASSUME n.mState = "GATT_READ_CHARC_DESCRIPTOR_VALUE"
       PROVE  /\ n.at \in Positions(Known(L))
              /\ LastAsked(a) = Request(ToConfigure(Known(L), n.at), n.at[1], n.at[2], n.at[3])
  BY <1>2, <1>3, <1>5, <1>13 DEF About
<1>14. n.mState # "CONNECTED"
  BY <1>2, <1>3 DEF Stands
<1>15. About(L, n, t, a)
  BY <1>6, <1>7, <1>8, <1>9, <1>10, <1>11, <1>12, <1>13, <1>14 DEF About
<1> QED
  BY <1>5, <1>15 DEF Goes

\* The order of the requests survives an answer of the armband, ...
LEMMA ReplyAsks ==
  ASSUME WalkBase, ~Aborted, NEW d \in Devices, NEW t \in Answers(d) \cup Refusals(d),
         Reply(d, t),
         \/ t \in Answers(d) /\ refused' = refused
         \/ /\ t \in Refusals(d)
            /\ refused' = [refused EXCEPT ![d] = @ \/ rd[d].request.op \notin {"value", "long"}]
  PROVE  AskedInv'
<1> DEFINE r == rd[d]
           L == layout[d]
           a == asked[d]
<1>1. Base
  BY DEF WalkBase
<1>2. PICK n : n = [r EXCEPT !.request = None]
  OBVIOUS
<1>3. /\ layout \in Layouts /\ d \in DOMAIN layout /\ L \in Armbands /\ r \in Remotes
      /\ r.mState # "aborted" /\ mMessage[d] = <<>>
      /\ mMessage' = [mMessage EXCEPT ![d] = t]
      /\ Stands(L, r, <<>>) /\ r.request.op # "none" /\ t # <<>> /\ Lands(L, n, t)
  BY <1>1, <1>2, ReplyFinds
<1>4. link[d] # "down" /\ rd' = [rd EXCEPT ![d] = n] /\ layout' = layout /\ link' = link
      /\ asked' = asked
  BY <1>2 DEF Reply
<1>5. /\ rd \in [Devices -> Remotes] /\ mMessage \in [Devices -> Seq(Messages)]
      /\ refused \in [Devices -> BOOLEAN]
  BY <1>1 DEF WalkBase, Base, Typed, HistoryTypes
<1>6. /\ rd'[d] = n /\ mMessage'[d] = t
      /\ \A e \in Devices \ {d} : /\ rd'[e] = rd[e] /\ mMessage'[e] = mMessage[e]
                                  /\ refused'[e] = refused[e]
  BY <1>3, <1>4, <1>5
<1>7. \/ refused'[d]
      \/ ~refused[d] /\ (t \in Answers(d)
                           \/ (t \in Refusals(d) /\ r.request.op \in {"value", "long"}))
  BY <1>5
<1>8. refused'[d] \/ Goes(L, n, t, a)
  <2> SUFFICES ASSUME ~refused'[d] PROVE Goes(L, n, t, a)
    OBVIOUS
  <2>1. Goes(L, r, <<>>, a)
    BY <1>3, <1>4, <1>7 DEF WalkBase, AskedInv, Goes
  <2>2. PICK q \in Requests : q = r.request
    BY <1>3, RemoteFields
  <2>3. Within(L, q)
    BY <1>3, <2>2, RequestWithin
  <2>4. Leads(q, t)
    BY <1>3, <1>7, <2>2, <2>3, AnswersLead
  <2>5. Stands(L, n, t) /\ Leads(r.request, t)
    BY <1>3, <2>2, <2>4 DEF Lands
  <2> HIDE DEF r, L, a
  <2> QED
    BY <1>2, <1>3, <2>1, <2>5, ReplyGoes
<1>9. \/ refused'[d]
      \/ /\ InOrder(layout[d], ~rd'[d].mNeedSaveService, asked'[d])
         /\ About(layout[d], rd'[d], mMessage'[d], asked'[d])
  BY <1>4, <1>6, <1>8, Zenon DEF Goes
<1> QED
  BY <1>4, <1>6, <1>9, OthersAsk

\* A link that comes up has asked for nothing, one that goes keeps its history.
LEMMA NothingAsked ==
  ASSUME NEW L, NEW loaded
  PROVE  InOrder(L, loaded, <<>>)
BY DEF InOrder

\* ... and the link's coming and going; ...
LEMMA LinkAsks ==
  ASSUME WalkBase, NEW d \in Devices, LinkUp(d) \/ LinkDown(d)
  PROVE  AskedInv'
<1>1. /\ rd \in [Devices -> Remotes] /\ mMessage \in [Devices -> Seq(Messages)]
      /\ link \in [Devices -> {"up", "closing", "down"}]
      /\ asked \in [Devices -> Seq(Requests)] /\ refused \in [Devices -> BOOLEAN]
  BY DEF WalkBase, Base, Typed, HistoryTypes
<1>2. CASE LinkUp(d)
  <2>1. /\ layout' = layout /\ rd' = [rd EXCEPT ![d] = Fresh]
        /\ link' = [link EXCEPT ![d] = "up"]
        /\ mMessage' = [mMessage EXCEPT ![d] = <<"connected">>]
        /\ asked' = [asked EXCEPT ![d] = <<>>] /\ refused' = [refused EXCEPT ![d] = FALSE]
    BY <1>2 DEF LinkUp
  <2>2. /\ rd'[d] = Fresh /\ mMessage'[d] = <<"connected">> /\ asked'[d] = <<>>
        /\ \A e \in Devices \ {d} : /\ rd'[e] = rd[e] /\ mMessage'[e] = mMessage[e]
                                    /\ link'[e] = link[e] /\ asked'[e] = asked[e]
                                    /\ refused'[e] = refused[e]
    BY <1>1, <2>1
  <2>3. InOrder(layout[d], ~rd'[d].mNeedSaveService, asked'[d])
    BY <2>2, NothingAsked
  <2>4. About(layout[d], Fresh, <<"connected">>, <<>>)
    BY FreshIs DEF About
  <2>5. About(layout[d], rd'[d], mMessage'[d], asked'[d])
    BY <2>2, <2>4
  <2> QED
    BY <2>1, <2>2, <2>3, <2>5, OthersAsk
<1>3. CASE LinkDown(d)
  <2>1. /\ layout' = layout /\ asked' = asked /\ refused' = refused
        /\ rd' = [rd EXCEPT ![d].mState = "IDLE", ![d].request = None]
        /\ link' = [link EXCEPT ![d] = "down"]
        /\ mMessage' = [mMessage EXCEPT ![d] = <<>>]
    BY <1>3 DEF LinkDown
  <2>2. rd'[d].mNeedSaveService = rd[d].mNeedSaveService /\ link'[d] = "down"
    BY <1>1, <2>1 DEF Remotes
  <2>3. \A e \in Devices \ {d} : /\ rd'[e] = rd[e] /\ mMessage'[e] = mMessage[e]
                                 /\ link'[e] = link[e] /\ asked'[e] = asked[e]
                                 /\ refused'[e] = refused[e]
    BY <1>1, <2>1
  <2>4. d \in DOMAIN layout =>
           refused'[d] \/ InOrder(layout[d], ~rd'[d].mNeedSaveService, asked'[d])
    BY <2>1, <2>2, Zenon DEF WalkBase, AskedInv
  <2> QED
    BY <2>1, <2>2, <2>3, <2>4, OthersAsk
<1> QED
  BY <1>2, <1>3

\* ... it holds in the beginning ...
LEMMA AskedInit ==
  ASSUME DiscoveryInit
  PROVE  AskedInv
<1>1. ASSUME NEW d \in DOMAIN layout
      PROVE  asked[d] = <<>> /\ link[d] = "down"
  <2>1. d \in Devices
    BY InRange DEF DiscoveryInit
  <2> QED
    BY <2>1 DEF DiscoveryInit
<1> QED
  BY <1>1, NothingAsked DEF AskedInv

\* ... and in every step.
LEMMA AskedKept ==
  ASSUME WalkBase, DiscoveryNext
  PROVE  AskedInv'
<1>1. ASSUME NEW d \in Devices, Answer(d) PROVE AskedInv'
  <2>1. PICK t \in Answers(d) : Reply(d, t) /\ refused' = refused
    BY <1>1 DEF Answer
  <2> QED
    BY <2>1, ReplyAsks DEF DiscoveryNext
<1>2. ASSUME NEW d \in Devices, Refuse(d) PROVE AskedInv'
  <2>1. PICK t \in Refusals(d) :
           /\ Reply(d, t)
           /\ refused' = [refused EXCEPT ![d] = @ \/ rd[d].request.op \notin {"value", "long"}]
    BY <1>2 DEF Refuse
  <2> QED
    BY <2>1, ReplyAsks DEF DiscoveryNext
<1>3. ASSUME Crash PROVE AskedInv'
  <2>1. /\ layout' = layout /\ asked' = [d \in Devices |-> <<>>]
        /\ link' = [d \in Devices |-> "down"]
    BY <1>3 DEF Crash
  <2>2. \A d \in DOMAIN layout : d \in Devices
    BY InRange DEF WalkBase, Base, Typed
  <2> QED
    BY <2>1, <2>2, NothingAsked DEF AskedInv
<1> QED
  BY <1>1, <1>2, <1>3, StepAsks, LinkAsks DEF DiscoveryNext

WalkInv == Base /\ BufferTypes /\ BufferInv /\ HistoryTypes /\ AskedInv

\* The walk's invariant is inductive.
LEMMA WalkInvariance == DiscoverySpec => []WalkInv
<1>1. DiscoveryInit => WalkInv
  BY BaseInit, BufferInit, HistoryInit, AskedInit DEF WalkInv
<1>2. WalkInv /\ [DiscoveryNext]_discoveryVars => WalkInv'
  <2> SUFFICES ASSUME WalkInv, [DiscoveryNext]_discoveryVars
               PROVE  WalkInv'
    OBVIOUS
  <2>1. CASE DiscoveryNext
    BY <2>1, BaseNext, BufferKept, HistoryKept, AskedKept DEF WalkInv, WalkBase
  <2>2. CASE UNCHANGED discoveryVars
    <3>1. Base'
      <4>1. /\ layout' = layout /\ rd' = rd /\ mMessage' = mMessage
            /\ link' = link /\ database' = database
        BY <2>2 DEF discoveryVars
      <4>2. Typed'
        BY <4>1, Zenon DEF WalkInv, Base, Typed
      <4>3. LinkInv'
        BY <4>1, Zenon DEF WalkInv, Base, LinkInv
      <4>4. FileInv'
        BY <4>1, ZenonT(60) DEF WalkInv, Base, FileInv, WellFormed, Roots, ServicesOf, ReadableOf
      <4> QED
        BY <4>2, <4>3, <4>4 DEF Base
    <3>2. BufferTypes' /\ HistoryTypes'
      BY <2>2, Zenon DEF WalkInv, BufferTypes, HistoryTypes, discoveryVars, history
    <3>3. BufferInv'
      BY <2>2, Zenon DEF WalkInv, BufferInv, Long, discoveryVars, history
    <3>4. AskedInv'
      BY <2>2, Zenon DEF WalkInv, AskedInv, discoveryVars, history
    <3> QED
      BY <3>1, <3>2, <3>3, <3>4 DEF WalkInv
  <2> QED
    BY <2>1, <2>2
<1> QED
  BY <1>1, <1>2, PTL DEF DiscoverySpec

\* Every variable of the discovery has its type, the walk stands at a service
\* of the list it built, and a file has no roots but its own.
THEOREM DiscoveryTypeCorrect == DiscoverySpec => []DiscoveryTypeOK
<1>1. WalkInv => DiscoveryTypeOK
  <2> SUFFICES ASSUME WalkInv PROVE DiscoveryTypeOK
    OBVIOUS
  <2>1. /\ layout \in Layouts
        /\ rd \in [Devices -> [mState : States, mService : Services, svc : Nat, chr : Nat,
                               at : Nat \X Nat \X Nat, mNeedSaveService : BOOLEAN,
                               request : Requests]]
        /\ \A d \in Devices : rd[d].svc = 1 \/ rd[d].svc \in DOMAIN rd[d].mService
        /\ mMessage \in [Devices -> Seq(Messages)]
        /\ link \in [Devices -> {"up", "closing", "down"}]
    BY DEF WalkInv, Base, Typed, Remotes, InService
  <2>2. ASSUME NEW d \in Devices, NEW e \in Range(database[d])
        PROVE  e.name \in {"SecurityInfomation", "GATTService", "torn"}
    <3>1. database[d] \in Seq(Roots(d))
      BY DEF WalkInv, Base, FileInv, WellFormed
    <3>2. e \in Roots(d)
      BY <3>1, ElementOfSeq DEF Range
    <3> QED
      BY <3>2, RootNames DEF Roots
  <2>3. /\ Temp_Buffer \in Seq(Devices) /\ value \in [Devices -> Seq(Devices)]
        /\ overlap \in BOOLEAN /\ asked \in [Devices -> Seq(Requests)]
        /\ refused \in [Devices -> BOOLEAN]
        /\ budget \in [connect : Nat, loss : Nat, refusal : Nat]
    BY DEF WalkInv, BufferTypes, HistoryTypes
  <2> QED
    BY <2>1, <2>2, <2>3 DEF DiscoveryTypeOK
<1> QED
  BY <1>1, WalkInvariance, PTL

\* Services that a later connection loads from the file, however the program
\* that saved them ended, are all that the armband has; and a long value is
\* whole unless two devices read one at once.
THEOREM SavedComplete == DiscoverySpec => []SavedIsComplete
<1>1. WalkInv => SavedIsComplete
  <2> SUFFICES ASSUME WalkInv, NEW d \in DOMAIN layout
               PROVE  /\ LoadsService(database[d]) =>
                            LoadService(database[d]) = Known(layout[d])
                      /\ ~overlap /\ value[d] # <<>> => value[d] = Times(Blobs, d)
    BY DEF SavedIsComplete
  <2>1. layout \in Layouts
    BY DEF WalkInv, Base, Typed
  <2>2. d \in Devices
    BY <2>1, InRange
  <2>3. WellFormed(d, database[d])
    BY <2>2 DEF WalkInv, Base, FileInv
  <2>4. LoadsService(database[d]) => LoadService(database[d]) = Known(layout[d])
    BY <2>1, <2>3, ComesBack
  <2>5. ~overlap /\ value[d] # <<>> => value[d] = Times(Blobs, d)
    BY <2>2 DEF WalkInv, BufferInv
  <2> QED
    BY <2>4, <2>5
<1> QED
  BY <1>1, WalkInvariance, PTL

\* As long as the armband does not refuse, the walk asks for what the layout
\* documents, in that order and without a gap, whatever the layout; and nothing
\* of an earlier request is left to be taken while one is open.
THEOREM WalkedInOrder == DiscoverySpec => []WalkInOrder
<1>1. WalkInv => WalkInOrder
  <2> SUFFICES ASSUME WalkInv, NEW d \in DOMAIN layout
               PROVE  /\ rd[d].request # None => mMessage[d] = <<>>
                      /\ ~refused[d] =>
                           LET all  == Documented(layout[d], ~rd[d].mNeedSaveService)
                               made == Range(asked[d])
                           IN  /\ made \subseteq all
                               /\ \A i, j \in DOMAIN asked[d] :
                                     i < j => Earlier(asked[d][i], asked[d][j])
                               /\ \A q \in made, o \in all : Earlier(o, q) => o \in made
                               /\ rd[d].mState = "CONNECTED" => made = all
                               /\ rd[d].mState # "aborted"
    BY DEF WalkInOrder
  <2>1. d \in Devices /\ layout[d] \in Armbands
    BY InRange DEF WalkInv, Base, Typed
  <2>2. IF link[d] = "down" THEN rd[d].mState = "IDLE" /\ rd[d].request = None
        ELSE Stands(layout[d], rd[d], mMessage[d])
    BY <2>1 DEF WalkInv, Base, LinkInv
  <2>3. rd[d].request # None => mMessage[d] = <<>>
    BY <2>2 DEF Stands
  <2>4. ASSUME ~refused[d]
        PROVE  LET all  == Documented(layout[d], ~rd[d].mNeedSaveService)
                   made == Range(asked[d])
               IN  /\ made \subseteq all
                   /\ \A i, j \in DOMAIN asked[d] :
                         i < j => Earlier(asked[d][i], asked[d][j])
                   /\ \A q \in made, o \in all : Earlier(o, q) => o \in made
                   /\ rd[d].mState = "CONNECTED" => made = all
                   /\ rd[d].mState # "aborted"
    <3> DEFINE L    == layout[d]
               all  == Documented(L, ~rd[d].mNeedSaveService)
               made == Range(asked[d])
               last == LastAsked(asked[d])
    <3>1. /\ InOrder(L, ~rd[d].mNeedSaveService, asked[d])
          /\ link[d] # "down" => About(L, rd[d], mMessage[d], asked[d])
      BY <2>4 DEF WalkInv, AskedInv
    <3>2. \A i, j \in DOMAIN asked[d] : i < j => Earlier(asked[d][i], asked[d][j])
      BY <3>1 DEF InOrder
    <3>3. made = {} \/ (last \in all /\ made = UpTo(all, last))
      BY <3>1 DEF InOrder, Range
    <3>4. made \subseteq all
      BY <3>3 DEF UpTo
    <3>5. ASSUME NEW q \in made, NEW o \in all, Earlier(o, q) PROVE o \in made
      <4>1. last \in all /\ made = UpTo(all, last) /\ q \in all
        BY <3>3, <3>4
      <4>2. PICK loaded \in BOOLEAN : loaded = ~rd[d].mNeedSaveService
        OBVIOUS
      <4>3. \A x, y, z \in Documented(L, loaded) :
               Earlier(x, y) /\ Earlier(y, z) => Earlier(x, z)
        BY <2>1, WalkIsLinear
      <4>4. q = last \/ Earlier(q, last)
        BY <4>1 DEF UpTo
      <4>5. Earlier(o, last)
        BY <3>5, <4>1, <4>2, <4>3, <4>4
      <4> QED
        BY <4>1, <4>5 DEF UpTo
    <3>6. rd[d].mState = "CONNECTED" => made = all
      BY <2>2, <3>1 DEF About
    <3>7. rd[d].mState # "aborted"
      BY <2>2, <3>1 DEF About
    <3> QED
      BY <3>2, <3>4, <3>5, <3>6, <3>7
  <2> QED
    BY <2>3, <2>4
<1> QED
  BY <1>1, WalkInvariance, PTL
=============================================================================
