----------------------------- MODULE GattQueue ------------------------------
(***************************************************************************)
(* The control-command queue of a connected GF_CRemoteDevice               *)
(* (GF_CCONTROLCOMMANDQUEUE) with the two threads that work on it: the hub *)
(* command thread, which issues commands and direct characteristic         *)
(* accesses, and the thread of the device, which takes the dongle's        *)
(* replies from mMessage.  The dongle and the armband behind it are        *)
(* external: they answer requests in the order they were given.            *)
(***************************************************************************)
EXTENDS Naturals, Sequences

CONSTANTS Commands,        \* control commands and MTU requests, by identity
          MtuCommands,     \* those that are MTU requests
          DirectWrites,    \* writeCharacteristic calls that bypass the queue
          MaxMessages,     \* bound on the inbox
          MayFail          \* whether the armband may answer with an ATT error

ASSUME GattQueueAssumption ==
    /\ MtuCommands \subseteq Commands
    /\ Commands \cap DirectWrites = {}
    /\ MaxMessages \in Nat \ {0}
    /\ MayFail \in BOOLEAN

GF_FALSE == 0
GF_TRUE  == 1

VARIABLES mState,          \* "discovering", "connected" or "idle" (after DeInit)
          mCommandQueue,   \* the queue object exists
          mCommand,        \* commands waiting in the queue
          mBusy,           \* the queue believes a command is under way
          inbox,           \* its mMessage: replies waiting for its thread
          air,             \* requests given to the dongle and not answered
          accepted,        \* history: commands accepted, in order
          sent,            \* history: queue commands given to the dongle
          written,         \* history: direct writes given to the dongle
          answered         \* history: how many Dequeue calls have been made

devVars  == <<mState, mCommandQueue>>
histVars == <<accepted, sent, written, answered>>
vars == <<devVars, mCommand, mBusy, inbox, air, histVars>>

OnAir == Commands \cup DirectWrites
Replies == {"write", "mtu", "error"}
In(x, seq) == \E i \in 1..Len(seq) : seq[i] = x

Init ==
    /\ mState = "discovering"
    /\ mCommandQueue = "NULL"
    /\ mCommand = <<>>
    /\ mBusy = GF_FALSE
    /\ inbox = <<>>
    /\ air = <<>>
    /\ accepted = <<>>
    /\ sent = <<>>
    /\ written = {}
    /\ answered = 0

\* Discovery ends: the device is CONNECTED and owns a fresh queue.
Discovered ==
    /\ mState = "discovering"
    /\ mState' = "connected"
    /\ mCommandQueue' = "queue"
    /\ mCommand' = <<>>
    /\ mBusy' = GF_FALSE
    /\ UNCHANGED <<inbox, air, histVars>>

\* SendControlCommandInternal and ExchangeMTUSizeInternal: the request reaches
\* the dongle only in the CONNECTED state, and the result is ignored.  (Control
\* commands come from the data profile alone, which a device has only when
\* CheckProtocolType has set mControlCommandHandle.)
SendInternal(c) ==
    IF mState = "connected"
      THEN /\ air' = Append(air, c)
           /\ sent' = Append(sent, c)
      ELSE UNCHANGED <<air, sent>>

\* Mutant: new commands overtake the waiting ones.
EnqueueAtFront(c) ==
    \/ /\ mBusy # GF_TRUE
       /\ SendInternal(c)
       /\ mBusy' = GF_TRUE
       /\ UNCHANGED mCommand
    \/ /\ mBusy = GF_TRUE
       /\ mCommand' = <<c>> \o mCommand
       /\ UNCHANGED <<mBusy, air, sent>>

\* GF_CCONTROLCOMMANDQUEUE::Enqueue, one critical section of mCommandMutex.
Enqueue(c) ==
    \/ /\ mBusy # GF_TRUE
       /\ SendInternal(c)
       /\ mBusy' = GF_TRUE
       /\ UNCHANGED mCommand
    \/ /\ mBusy = GF_TRUE
       /\ mCommand' = Append(mCommand, c)
       /\ UNCHANGED <<mBusy, air, sent>>

\* Mutant: sending a waiting command also clears the busy flag.
DequeueClearsBusy ==
    /\ mBusy' = GF_FALSE
    /\ \/ /\ mCommand # <<>>
          /\ SendInternal(Head(mCommand))
          /\ mCommand' = Tail(mCommand)
       \/ /\ mCommand = <<>>
          /\ UNCHANGED <<mCommand, air, sent>>

\* Mutant: an answer frees the queue but lets no waiting command out.
DequeueSendsNothing ==
    /\ mBusy' = IF mCommand # <<>> THEN GF_TRUE ELSE GF_FALSE
    /\ UNCHANGED <<mCommand, air, sent>>

\* GF_CCONTROLCOMMANDQUEUE::Dequeue, one critical section of mCommandMutex.
Dequeue ==
    \/ /\ mCommand # <<>>
       /\ SendInternal(Head(mCommand))
       /\ mCommand' = Tail(mCommand)
       /\ UNCHANGED mBusy
    \/ /\ mCommand = <<>>
       /\ mBusy' = GF_FALSE
       /\ UNCHANGED <<mCommand, air, sent>>

\* The AdapterManager finds the device by its handle as long as it has a link, and
\* otherwise answers GF_FAIL.
Linked == mState # "idle"

\* SendControlCommand and ExchangeMTUSize on the hub command thread; without
\* a queue they return GF_FAIL and change nothing.
Issue(c) ==
    /\ Linked /\ mCommandQueue # "NULL"
    /\ ~In(c, accepted)              \* bound: each command is issued once
    /\ accepted' = Append(accepted, c)
    /\ Enqueue(c)
    /\ UNCHANGED <<devVars, inbox, written, answered>>

\* WriteCharacteristicValue goes to the dongle past the queue.
WriteDirect(w) ==
    /\ Linked /\ mState = "connected"
    /\ w \notin written              \* bound: each write is made once
    /\ written' = written \cup {w}
    /\ air' = Append(air, w)
    /\ UNCHANGED <<devVars, mCommand, mBusy, inbox, accepted, sent, answered>>

\* External: the armband answers the oldest request; AdapterManager::OnEvent
\* queues the answer for the device thread.
Respond ==
    /\ air # <<>>
    /\ Len(inbox) < MaxMessages
    /\ air' = Tail(air)
    /\ \E r \in {IF Head(air) \in MtuCommands THEN "mtu" ELSE "write"}
                  \cup (IF MayFail THEN {"error"} ELSE {}) :
          inbox' = Append(inbox, r)
    /\ UNCHANGED <<devVars, mCommand, mBusy, histVars>>

\* DeviceConnectedStateProcessMessage: an MTU or a write reply releases the
\* queue, any other message is dropped.
ProcessMessage ==
    /\ mState = "connected"
    /\ inbox # <<>>
    /\ inbox' = Tail(inbox)
    /\ \/ /\ Head(inbox) \in {"mtu", "write"}
          /\ Dequeue
          /\ answered' = answered + 1
       \/ /\ Head(inbox) = "error"
          /\ UNCHANGED <<mCommand, mBusy, air, sent, answered>>
    /\ UNCHANGED <<devVars, accepted, written>>

\* DeInit after a disconnect or a lost link: the thread has been joined, its
\* messages and the queue are gone, and with the link the open requests (the
\* pointer is left dangling, but no list of the AdapterManager the callers look
\* in holds the device any more).
DeInit ==
    /\ mState # "idle"
    /\ mState' = "idle"
    /\ inbox' = <<>>
    /\ mCommandQueue' = "NULL"
    /\ mCommand' = <<>>
    /\ air' = <<>>
    /\ UNCHANGED <<mBusy, histVars>>

Next == \/ Discovered
        \/ \E c \in Commands : Issue(c)
        \/ \E w \in DirectWrites : WriteDirect(w)
        \/ Respond
        \/ ProcessMessage
        \/ DeInit

Spec == Init /\ [][Next]_vars

\* The device thread polls its mMessage and the armband answers every request.
Fairness == WF_vars(Respond) /\ WF_vars(ProcessMessage)
FairSpec == Spec /\ Fairness
-----------------------------------------------------------------------------
TypeOK ==
    /\ mState \in {"discovering", "connected", "idle"}
    /\ mCommandQueue \in {"NULL", "queue"}
    /\ mCommand \in Seq(Commands)
    /\ mBusy \in {GF_FALSE, GF_TRUE}
    /\ inbox \in Seq(Replies)
    /\ air \in Seq(OnAir)
    /\ accepted \in Seq(Commands)
    /\ sent \in Seq(Commands)
    /\ written \subseteq DirectWrites
    /\ answered \in Nat

\* Commands leave the queue in the order they were accepted and none is
\* skipped: what was sent followed by what waits is what was accepted
\* (GF_CCONTROLCOMMANDQUEUE::Enqueue and Dequeue, across both threads).
NothingLostOrReordered ==
    mState = "connected" => accepted = sent \o mCommand

\* As long as every write has gone through the queue, at most one request or
\* reply of the device is under way, and only while mBusy says so: the property
\* the queue exists for.
OneOutstanding ==
    mState = "connected" /\ written = {} =>
        Len(air) + Len(inbox) <= IF mBusy = GF_TRUE THEN 1 ELSE 0

\* A command waits only while the queue is busy, so an idle queue never
\* strands one.
WaitingOnlyWhileBusy ==
    mState = "connected" /\ mCommand # <<>> => mBusy = GF_TRUE

\* The answer to a command was an ATT error: nothing is open any more, but a
\* command that was sent never led to a Dequeue.
Stalled == air = <<>> /\ inbox = <<>> /\ answered < Len(sent)

\* Every accepted command reaches the dongle unless the link goes or an ATT
\* error stalls the queue first, or something was written past the queue (Enqueue
\* and Dequeue between two threads).
EveryCommandSent ==
    \A c \in Commands :
        In(c, accepted) ~> In(c, sent) \/ mState = "idle" \/ Stalled \/ written # {}

\* The queue does what CommandChannel promises until the first write past it,
\* whose answer it takes for one of its own.
Channel == INSTANCE CommandChannel WITH open <- (mState # "idle")
ImplementsChannel ==
    Channel!Init /\ [][written' = {} => [Channel!Next]_(Channel!vars)]_vars
=============================================================================
