------------------------- MODULE NpiTransportProofs -------------------------
(***************************************************************************)
(* Any number of threads, any size of the rings, any packets: the types,   *)
(* that the commands go out once each and in order, and that only whole    *)
(* frames go, both ways.                                                   *)
(***************************************************************************)
EXTENDS NpiTransport, FiniteSetTheorems, SequenceTheorems, TLAPS

-----------------------------------------------------------------------------
(* The inductive invariant.                                                 *)

Queues == {"cmd", "evt"}
AllCommands == Commands \cup {TxExit}

\* The threads in the critical section of a Push into queue k, and whether its
\* consumer is in that of its Pop.
Storing(k)  == {p \in Pushing : push[p].pc = "store" /\ push[p].queue = k}
Fetching(k) == IF k = "cmd" THEN tx.pc = "fetch" ELSE event.pc = "fetch"

\* How many items lie in the ring of queue k.
Held(k) == que[k].data_avail + IF Fetching(k) THEN 1 ELSE 0

\* The place of the ring that is i places after the out position.
Place(q, i) == IF q.out_pos + i < QueueSize THEN q.out_pos + i
                                            ELSE q.out_pos + i - QueueSize

ControlOK ==
    /\ CommandSet \/ owner \in {"off", "log", "tx", "rx", "detect", "event", "evt",
                                "join_evt", "off_again"}
    /\ thread \in [Threads -> {"none", "run", "ended"}]
    /\ stop \subseteq {"detect", "rx"}
    /\ traffic \in 0..MaxTraffic
    /\ tx.pc \in {"wait", "fetch", "handle"} /\ tx = [pc |-> tx.pc, item |-> tx.item]
    /\ event.pc \in {"loop", "wait", "fetch", "handle", "call", "hub"}
    /\ event = [pc |-> event.pc, item |-> event.item]
    /\ serialPortEvent \in {"null", "created", "set", "closed"}

FlagsOK ==
    /\ needCheck \in BOOLEAN /\ logExit \in BOOLEAN /\ plugged \in BOOLEAN
    /\ crashed \in BOOLEAN /\ reported \in BOOLEAN

\* What RX reads are bytes of packets the dongle has.
WireOK ==
    /\ told \in 0..Len(Packets)
    /\ wire \in Seq((1..Len(Packets)) \X {"type", "code", "len", "data"})
    /\ rx.at \in {"type", "code", "len", "others", "data"} /\ rx.remaining \in Nat
    /\ rx = [at |-> rx.at, bytes |-> rx.bytes, remaining |-> rx.remaining]

\* Only the owner pushes the exit packet of TX, and it is in a Push only where it
\* waits for a thread.
PushOK ==
    /\ push = [p \in Pushing |-> push[p]]
    /\ \A p \in Pushing :
          /\ push[p] = [pc |-> push[p].pc, item |-> push[p].item, queue |-> push[p].queue]
          /\ push[p].pc \in {"no", "space", "store"} /\ push[p].queue \in Queues
          /\ push[p].pc # "no" /\ push[p].queue = "cmd" =>
                push[p].item \in IF p = "owner" THEN AllCommands ELSE Commands
    /\ push["owner"].pc # "no" => owner \in {"join_log", "join_tx", "delete"}

Fields == {"buffer", "in_pos", "out_pos", "space_avail", "data_avail"}

RingShape(q) ==
    /\ q = [f \in Fields |-> q[f]]
    /\ q.buffer = [i \in 0..QueueSize - 1 |-> q.buffer[i]]
    /\ q.in_pos \in 0..QueueSize - 1 /\ q.out_pos \in 0..QueueSize - 1
    /\ q.space_avail \in Nat /\ q.data_avail \in Nat

RingOK ==
    /\ que = [cmd |-> que.cmd, evt |-> que.evt]
    /\ \A k \in Queues : RingShape(que[k])

\* Every place of the ring is free, claimed by a producer, or holds an item.
CountOK ==
    \A k \in Queues :
        /\ que[k].space_avail + Cardinality(Storing(k)) + Held(k) = QueueSize
        /\ que[k].in_pos = Place(que[k], Held(k))

\* The commands on their way: the one in TX's hand, then those in the ring.
InHand == IF tx.pc = "handle" THEN 1 ELSE 0
OnWay == InHand + Held("cmd")
Line(i) == IF i = InHand THEN tx.item
                         ELSE que.cmd.buffer[Place(que.cmd, i - 1 - InHand)]

\* TX's exit packet is on its way or about to be pushed once, at the end of Deinit.
ExitOnce ==
    /\ (push["owner"].pc # "no" /\ push["owner"].queue = "cmd" /\ push["owner"].item = TxExit)
          => /\ owner = "join_tx"
             /\ \A i \in 1..OnWay : Line(i) # TxExit
    /\ (\E i \in 1..OnWay : Line(i) = TxExit) =>
          owner \in {"join_tx", "exit_evt", "delete", "forget", "join_evt", "off_again"}

\* What was accepted is what was sent and then, but for the exit packet at e,
\* what is on its way.
Follows(e) ==
    /\ \A i \in 1..OnWay : Line(i) = TxExit <=> i = e
    /\ Len(accepted) = Len(sent) + OnWay - IF e <= OnWay THEN 1 ELSE 0
    /\ \A i \in 1..OnWay : i < e => accepted[Len(sent) + i] = Line(i)
    /\ \A i \in 1..OnWay : i > e => accepted[Len(sent) + i - 1] = Line(i)

LineOK ==
    /\ accepted \in Seq(Commands) /\ sent \in Seq(Commands)
    /\ \A i \in 1..OnWay : Line(i) \in AllCommands
    /\ \E e \in 1..OnWay + 1 : Follows(e)

-----------------------------------------------------------------------------
(* The operators.                                                           *)

\* What the assumptions say, for the leaves.
LEMMA Constants ==
    /\ QueueSize \in Nat /\ QueueSize > 0
    /\ Packets \in Seq([type : {"event", "unknown"}, len : Nat])
    /\ MaxTraffic \in Nat /\ StartRaces \subseteq Threads
    /\ IsFiniteSet(Senders) /\ "owner" \notin Senders /\ "rx" \notin Senders
    /\ Calls \subseteq DOMAIN Wrapper /\ Payloads \subseteq Nat
<1>1. IsFiniteSet(Senders)
  BY NpiTransportAssumption, FS_AddElement DEF Senders
<1>2. QED
  BY <1>1, QueueSizeAssumption, NpiTransportAssumption, CallsAssumption DEF Threads, Senders

\* What the event thread's callbacks leave alone.
LEMMA EventGoesOn ==
    ASSUME EventCallback \/ EventHub
    PROVE  /\ UNCHANGED <<owner, stop, queVars, outVars, inVars, handled, portVars, crashed>>
           /\ event.pc \in {"call", "hub"} /\ event'.pc \in {"hub", "loop"}
BY DEF EventCallback, EventHub, EventDone

\* One step round the ring.
LEMMA NextPlace ==
    ASSUME NEW i \in 0..QueueSize - 1
    PROVE  (i + 1) % QueueSize = IF i + 1 < QueueSize THEN i + 1 ELSE 0
<1>1. CASE i + 1 < QueueSize
  BY <1>1, Constants
<1>2. CASE i + 1 = QueueSize
  BY <1>2, Constants
<1>3. QED
  BY <1>1, <1>2, Constants

\* No wrapper's command is an exit packet.
LEMMA CommandsAreNotExit ==
    /\ \A c \in Calls, n \in Payloads \cup {0} : Frame(Wrapper[c], n).name # "HCI_EXIT_PACKET"
    /\ LogExit # TxExit /\ TxExit \notin Commands
<1>1. \A c \in DOMAIN HubWrapper : HubWrapper[c] # "HCI_EXIT_PACKET"
  BY DEF HubWrapper
<1>2. \A c \in DOMAIN DeviceWrapper : DeviceWrapper[c] # "HCI_EXIT_PACKET"
  BY DEF DeviceWrapper
<1>3. \A c \in Calls : Wrapper[c] # "HCI_EXIT_PACKET"
  BY <1>1, <1>2, Constants DEF Wrapper
<1>4. \A s, n : Frame(s, n).name = s
  BY DEF Frame
<1>5. /\ LogExit.name = "HCI_LOG_THREAD_EXIT_PACKET" /\ TxExit.name = "HCI_EXIT_PACKET"
  BY DEF LogExit, TxExit, Marker
<1>6. QED
  BY <1>3, <1>4, <1>5 DEF Commands

\* The threads in a critical section are finitely many.
LEMMA StoringFinite ==
    ASSUME NEW k
    PROVE  /\ IsFiniteSet(Storing(k)) /\ Cardinality(Storing(k)) \in Nat
           /\ \A p \in Storing(k) : Cardinality(Storing(k)) >= 1
<1>1. IsFiniteSet(Pushing)
  BY Constants, FS_AddElement, Pushing = (Senders \cup {"owner"}) \cup {"rx"} DEF Pushing, Senders
<1>2. IsFiniteSet(Storing(k))
  BY <1>1, FS_Subset DEF Storing
<1>3. QED
  BY <1>2, FS_CardinalityType, FS_EmptySet

-----------------------------------------------------------------------------
(* Control, flags and the bytes.                                            *)

\* Every packet has a length.
LEMMA PacketLength ==
    ASSUME NEW p \in 1..Len(Packets)
    PROVE  Packets[p].len \in Nat
<1>. DEFINE P == [type : {"event", "unknown"}, len : Nat]
<1>1. Packets[p] \in P
  <2>1. Packets \in Seq(P)
    BY Constants
  <2>. HIDE DEF P
  <2>2. QED
    BY <2>1, ElementOfSeq
<1>2. QED
  BY <1>1

\* The bytes of a packet.
LEMMA BytesOfPacket ==
    ASSUME NEW p \in 1..Len(Packets)
    PROVE  Bytes(p) \in Seq((1..Len(Packets)) \X {"type", "code", "len", "data"})
<1>. DEFINE Byte == (1..Len(Packets)) \X {"type", "code", "len", "data"}
<1>1. Packets[p].len \in Nat
  BY PacketLength
<1>2. <<<<p, "type">>, <<p, "code">>, <<p, "len">>>> \in Seq(Byte)
  OBVIOUS
<1>3. [i \in 1..Packets[p].len |-> <<p, "data">>] \in Seq(Byte)
  BY <1>1
<1>. HIDE DEF Byte
<1>4. QED
  BY <1>2, <1>3, ConcatProperties DEF Bytes, Byte

\* Every step of a producer and of TX keeps the control state well-typed.
LEMMA ControlQueue ==
    ASSUME ControlOK, (\E p \in Senders : BeginPush(p)) \/ (\E p \in Pushing : PushStep(p))
                         \/ Transport
    PROVE  ControlOK'
<1>1. CASE \E p \in Senders : BeginPush(p)
  BY <1>1, Constants DEF ControlOK, BeginPush, CommandSet, ownVars, outVars, evtVars, portVars
<1>2. CASE \E p \in Pushing : PushStep(p)
  BY <1>2 DEF ControlOK, PushStep, CommandSet, ownVars, outVars, evtVars, portVars
<1>3. CASE TxPop
  <2>1. tx'.pc \in {"wait", "fetch", "handle"} /\ tx' = [pc |-> tx'.pc, item |-> tx'.item]
    BY <1>3 DEF ControlOK, TxPop, TxClaim, TxFetch
  <2>2. QED
    BY <1>3, <2>1 DEF ControlOK, TxPop, CommandSet, ownVars, evtVars, portVars
<1>4. CASE TxCrash
  BY <1>4 DEF ControlOK, TxCrash, CommandSet, ownVars, queVars, outVars, evtVars, portVars
<1>5. CASE TxHandle
  <2>1. thread' \in [Threads -> {"none", "run", "ended"}]
    BY <1>5 DEF ControlOK, TxHandle
  <2>2. QED
    BY <1>5, <2>1 DEF ControlOK, TxHandle, CommandSet, queVars, evtVars, portVars
<1>6. CASE LogEnds
  BY <1>6 DEF ControlOK, LogEnds, CommandSet, queVars, outVars, evtVars, portVars
<1>7. QED
  BY <1>1, <1>2, <1>3, <1>4, <1>5, <1>6 DEF Transport

\* So does every step of RX ...
LEMMA ControlReader ==
    ASSUME ControlOK, Reader
    PROVE  ControlOK'
<1>1. CASE RxStop
  BY <1>1 DEF ControlOK, RxStop, CommandSet, queVars, outVars, evtVars, portVars
<1>2. CASE RxPortGone
  BY <1>2 DEF ControlOK, RxPortGone, CommandSet, ownVars, outVars, evtVars
<1>3. CASE RxHeader \/ RxBeginData \/ RxData
  BY <1>3 DEF ControlOK, RxHeader, RxBeginData, RxData, CommandSet, ownVars, queVars, outVars,
              evtVars, portVars
<1>4. CASE RxPacket
  BY <1>4 DEF ControlOK, RxPacket, CommandSet, ownVars, outVars, evtVars, portVars
<1>5. CASE RxDoubleDelete
  BY <1>5 DEF ControlOK, RxDoubleDelete, CommandSet, ownVars, queVars, outVars, evtVars, portVars
<1>6. QED
  BY <1>1, <1>2, <1>3, <1>4, <1>5 DEF Reader

\* ... of the event thread, the detecting thread and the dongle ...
LEMMA ControlEvents ==
    ASSUME ControlOK, Events \/ DetectGone \/ DetectStop \/ Transmit \/ Unplug
    PROVE  ControlOK'
<1>1. CASE EventPop
  <2>1. /\ event'.pc \in {"loop", "wait", "fetch", "handle"}
        /\ event' = [pc |-> event'.pc, item |-> event'.item]
    BY <1>1 DEF ControlOK, EventPop, EventLoop, EventClaim, EventFetch
  <2>2. QED
    BY <1>1, <2>1 DEF ControlOK, EventPop, CommandSet, ownVars, outVars, portVars
<1>2. CASE EventHandle \/ EventCallback \/ EventHub
  <2>1. thread' \in [Threads -> {"none", "run", "ended"}]
    BY <1>2 DEF ControlOK, EventHandle, EventCallback, EventHub, EventDone
  <2>2. /\ event'.pc \in {"loop", "call", "hub"}
        /\ event' = [pc |-> event'.pc, item |-> event'.item]
    BY <1>2 DEF ControlOK, EventHandle, EventCallback, EventHub, EventDone
  <2>3. UNCHANGED <<owner, stop, queVars, outVars, inVars, portVars, crashed>>
    BY <1>2, EventGoesOn DEF EventHandle
  <2>4. QED
    BY <2>1, <2>2, <2>3 DEF ControlOK, CommandSet, queVars, outVars, inVars, portVars
<1>3. CASE DetectGone
  BY <1>3 DEF ControlOK, DetectGone, CommandSet, ownVars, queVars, outVars, evtVars
<1>4. CASE DetectStop
  BY <1>4 DEF ControlOK, DetectStop, CommandSet, queVars, outVars, evtVars, portVars
<1>5. CASE Transmit
  BY <1>5, Constants DEF ControlOK, Transmit, CommandSet, ownVars, outVars, evtVars, portVars
<1>6. CASE Unplug
  BY <1>6 DEF ControlOK, Unplug, CommandSet, ownVars, queVars, outVars, evtVars
<1>7. QED
  BY <1>1, <1>2, <1>3, <1>4, <1>5, <1>6 DEF Events

\* ... and of the owner, up to the process being gone.
LEMMA ControlOwner ==
    ASSUME ControlOK, Owner \/ UseAfterDelete
    PROVE  ControlOK'
<1>1. CASE OpenSerialPort
  BY <1>1 DEF ControlOK, OpenSerialPort, CommandSet, queVars, outVars, evtVars, portVars
<1>2. CASE Connect
  <2>1. thread' \in [Threads -> {"none", "run", "ended"}]
    BY <1>2 DEF ControlOK, Connect
  <2>2. owner' \in {"tx", "rx", "detect", "event", "register"}
    BY <1>2 DEF Connect
  <2>3. QED
    BY <1>2, <2>1, <2>2 DEF ControlOK, Connect, CommandSet, queVars, outVars, evtVars, portVars
<1>3. CASE CreatePortEvent
  BY <1>3 DEF ControlOK, CreatePortEvent, CommandSet, queVars, outVars, evtVars
<1>4. CASE StopThread
  BY <1>4 DEF ControlOK, StopThread, CommandSet, queVars, outVars, evtVars, portVars
<1>5. CASE SendExit
  BY <1>5 DEF ControlOK, SendExit, CommandSet, outVars, evtVars, portVars
<1>6. CASE Join
  BY <1>6 DEF ControlOK, Join, CommandSet, queVars, outVars, evtVars, portVars
<1>7. CASE UseAfterDelete
  BY <1>7 DEF ControlOK, UseAfterDelete, CommandSet, ownVars, queVars, outVars, evtVars, portVars
<1>8. CASE Callback
  BY <1>8 DEF ControlOK, Callback, CommandSet, queVars, outVars, evtVars, portVars
<1>9. QED
  BY <1>1, <1>2, <1>3, <1>4, <1>5, <1>6, <1>7, <1>8 DEF Owner

\* The flags stay Boolean.
LEMMA FlagsStep ==
    ASSUME FlagsOK, Next
    PROVE  FlagsOK'
<1>1. CASE (\E p \in Senders : BeginPush(p)) \/ (\E p \in Pushing : PushStep(p)) \/ TxPop
  BY <1>1, Zenon DEF FlagsOK, BeginPush, PushStep, TxPop, outVars, evtVars, portVars
<1>2. CASE TxCrash \/ TxHandle \/ LogEnds
  BY <1>2, ZenonT(30) DEF FlagsOK, TxCrash, TxHandle, LogEnds, outVars, evtVars, portVars
<1>3. CASE RxStop \/ RxPortGone \/ RxHeader \/ RxBeginData
  BY <1>3, ZenonT(30) DEF FlagsOK, RxStop, RxPortGone, RxHeader, RxBeginData, outVars, evtVars,
                          portVars
<1>4. CASE RxData \/ RxPacket \/ RxDoubleDelete
  BY <1>4, ZenonT(30) DEF FlagsOK, RxData, RxPacket, RxDoubleDelete, outVars, evtVars, portVars
<1>5. CASE EventPop
  BY <1>5, Zenon DEF FlagsOK, EventPop, outVars, portVars
<1>6. CASE EventHandle \/ EventCallback \/ EventHub
  <2>1. reported' \in BOOLEAN
    BY <1>6, Zenon DEF FlagsOK, EventHandle, EventCallback, EventHub
  <2>2. UNCHANGED <<outVars, portVars, crashed>>
    BY <1>6, EventGoesOn DEF EventHandle
  <2>3. QED
    BY <2>1, <2>2, Zenon DEF FlagsOK, outVars, portVars
<1>7. CASE DetectGone \/ DetectStop \/ Transmit \/ Unplug
  BY <1>7, ZenonT(30) DEF FlagsOK, DetectGone, DetectStop, Transmit, Unplug, outVars, evtVars,
                          portVars
<1>8. CASE OpenSerialPort \/ Connect \/ CreatePortEvent \/ Callback
  BY <1>8, ZenonT(30) DEF FlagsOK, OpenSerialPort, Connect, CreatePortEvent, Callback, outVars, evtVars,
                          portVars
<1>9. CASE StopThread \/ SendExit \/ Join \/ UseAfterDelete
  BY <1>9, ZenonT(30) DEF FlagsOK, StopThread, SendExit, Join, UseAfterDelete, outVars, evtVars,
                          portVars
<1>10. QED
  BY <1>1, <1>2, <1>3, <1>4, <1>5, <1>6, <1>7, <1>8, <1>9
     DEF Next, Transport, Reader, Events, Owner

\* What RX and the wire hold.
LEMMA WireStep ==
    ASSUME WireOK, Next
    PROVE  WireOK'
<1>. DEFINE Byte == (1..Len(Packets)) \X {"type", "code", "len", "data"}
<1>1. CASE (\E p \in Senders : BeginPush(p)) \/ (\E p \in Pushing : PushStep(p)) \/ Transport
  BY <1>1 DEF WireOK, BeginPush, PushStep, Transport, TxPop, TxCrash, TxHandle, LogEnds, inVars
<1>2. CASE Events \/ DetectGone \/ DetectStop
  BY <1>2 DEF WireOK, Events, EventPop, EventHandle, EventCallback, EventHub, DetectGone,
              DetectStop, inVars
<1>3. CASE Owner \/ UseAfterDelete
  BY <1>3 DEF WireOK, Owner, OpenSerialPort, Connect, CreatePortEvent, Callback, StopThread, SendExit, Join,
              UseAfterDelete, inVars
<1>4. CASE RxStop
  BY <1>4 DEF WireOK, RxStop, inVars
<1>5. CASE RxPortGone
  BY <1>5 DEF WireOK, RxPortGone
<1>6. CASE RxHeader
  <2>1. wire # <<>> /\ wire' \in Seq(Byte) /\ Head(wire) \in Byte
    BY <1>6, HeadTailProperties DEF WireOK, RxHeader
  <2>2. Packets[Head(wire)[1]].len \in Nat
    <3>1. Head(wire)[1] \in 1..Len(Packets)
      BY <2>1
    <3>2. QED
      BY <3>1, PacketLength
  <2>3. rx'.at \in {"code", "len", "others"} /\ rx'.remaining \in Nat
    BY <1>6, <2>2 DEF RxHeader
  <2>4. rx' = [at |-> rx'.at, bytes |-> rx'.bytes, remaining |-> rx'.remaining]
    BY <1>6 DEF RxHeader
  <2>5. QED
    BY <1>6, <2>1, <2>3, <2>4 DEF WireOK, RxHeader
<1>7. CASE RxBeginData
  BY <1>7 DEF WireOK, RxBeginData
<1>8. CASE RxData
  <2>1. wire' \in Seq(Byte)
    BY <1>8, HeadTailProperties DEF WireOK, RxData
  <2>2. rx' = [at |-> rx.at, bytes |-> Append(rx.bytes, Head(wire)),
               remaining |-> rx.remaining - 1]
    BY <1>8 DEF WireOK, RxData
  <2>3. rx.remaining - 1 \in Nat
    BY <1>8 DEF WireOK, RxData
  <2>4. QED
    BY <1>8, <2>1, <2>2, <2>3 DEF WireOK, RxData
<1>9. CASE RxPacket \/ RxDoubleDelete
  BY <1>9 DEF WireOK, RxPacket, RxDoubleDelete
<1>10. CASE Transmit
  <2>1. told + 1 \in 1..Len(Packets)
    BY <1>10, Constants DEF WireOK, Transmit
  <2>2. wire' \in Seq(Byte)
    <3>. HIDE DEF Byte
    <3>1. Bytes(told + 1) \in Seq(Byte) /\ wire \in Seq(Byte)
      BY <2>1, BytesOfPacket DEF WireOK, Byte
    <3>2. QED
      BY <1>10, <3>1, ConcatProperties DEF Transmit
  <2>3. QED
    BY <1>10, <2>1, <2>2 DEF WireOK, Transmit
<1>11. CASE Unplug
  BY <1>11 DEF WireOK, Unplug
<1>12. QED
  BY <1>1, <1>2, <1>3, <1>4, <1>5, <1>6, <1>7, <1>8, <1>9, <1>10, <1>11 DEF Next, Reader

-----------------------------------------------------------------------------
(* The rings.                                                               *)

RingVars == <<que, tx, accepted, sent>>
RingsOK == RingOK /\ CountOK /\ LineOK

\* A Storing that is the same set keeps the rings as they are, as long as the event
\* thread neither enters nor leaves its critical section.
LEMMA RingsKept ==
    ASSUME RingsOK, UNCHANGED RingVars, \A k \in Queues : Storing(k)' = Storing(k),
           event'.pc = "fetch" <=> event.pc = "fetch"
    PROVE  RingsOK'
<1>1. \A k \in Queues : Fetching(k)' <=> Fetching(k)
  BY DEF RingVars, Fetching
<1>2. \A k \in Queues : Held(k)' = Held(k)
  BY <1>1 DEF Held, RingVars
<1>3. RingOK'
  BY DEF RingsOK, RingOK, RingVars
<1>4. CountOK'
  BY <1>2 DEF RingsOK, CountOK, RingVars, Place
<1>5. OnWay' = OnWay /\ \A i : Line(i)' = Line(i)
  BY <1>2 DEF OnWay, InHand, Line, RingVars, Place, Queues
<1>6. LineOK'
  BY <1>5 DEF RingsOK, LineOK, Follows, RingVars
<1>7. QED
  BY <1>3, <1>4, <1>6 DEF RingsOK

\* The line is unchanged with the ring of the commands and TX.
LEMMA LineKept ==
    ASSUME UNCHANGED RingVars
    PROVE  OnWay' = OnWay /\ \A i : Line(i)' = Line(i)
<1>1. Held("cmd")' = Held("cmd")
  BY DEF Held, Fetching, RingVars
<1>2. QED
  BY <1>1 DEF OnWay, InHand, Line, RingVars, Place

\* With the Pushes as they are, so is Storing.
LEMMA StoringKept ==
    ASSUME UNCHANGED push
    PROVE  \A k \in Queues : Storing(k)' = Storing(k)
BY DEF Storing

\* A thread that begins a Push is in no critical section.
LEMMA StoringAfterBegin ==
    ASSUME PushOK, NEW p \in Pushing, NEW x, NEW n, push[p].pc = "no",
           push' = [push EXCEPT ![p] = Pushes(x, n)]
    PROVE  \A k \in Queues : Storing(k)' = Storing(k)
<1>1. push'[p].pc = "space" /\ \A r \in Pushing \ {p} : push'[r] = push[r]
  BY DEF PushOK, Pushes
<1>2. QED
  BY <1>1 DEF Storing

\* What is in the Push of a thread that begins one.
LEMMA PushAfterBegin ==
    ASSUME PushOK, NEW p \in Pushing, NEW x, NEW n \in Queues,
           push' = [push EXCEPT ![p] = Pushes(x, n)],
           n = "cmd" => x \in IF p = "owner" THEN AllCommands ELSE Commands,
           IF p = "owner" THEN owner' \in {"join_log", "join_tx", "delete"}
                          ELSE owner' = owner
    PROVE  PushOK'
<1>1. /\ push' = [r \in Pushing |-> push'[r]]
      /\ push'[p] = [pc |-> "space", item |-> x, queue |-> n]
      /\ \A r \in Pushing \ {p} : push'[r] = push[r]
  BY DEF PushOK, Pushes
<1>2. \A r \in Pushing :
         /\ push'[r] = [pc |-> push'[r].pc, item |-> push'[r].item, queue |-> push'[r].queue]
         /\ push'[r].pc \in {"no", "space", "store"} /\ push'[r].queue \in Queues
         /\ push'[r].pc # "no" /\ push'[r].queue = "cmd" =>
               push'[r].item \in IF r = "owner" THEN AllCommands ELSE Commands
  <2>. TAKE r \in Pushing
  <2>1. CASE r = p
    BY <1>1, <2>1
  <2>2. CASE r # p
    BY <1>1, <2>2 DEF PushOK
  <2>3. QED
    BY <2>1, <2>2
<1>3. push'["owner"].pc # "no" => owner' \in {"join_log", "join_tx", "delete"}
  <2>1. CASE p = "owner"
    BY <2>1
  <2>2. CASE p # "owner"
    BY <1>1, <2>2 DEF PushOK, Pushing
  <2>3. QED
    BY <2>1, <2>2
<1>4. AllCommands' = AllCommands /\ Commands' = Commands
  BY DEF AllCommands, Commands
<1>5. QED
  BY <1>1, <1>2, <1>3, <1>4 DEF PushOK

\* PushClaim: a place goes from the free ones to the producer's.
LEMMA ClaimKeeps ==
    ASSUME RingsOK, PushOK, NEW p \in Pushing, PushClaim(p), UNCHANGED <<tx, event, sent>>,
           NEW n, n = push[p].queue
    PROVE  RingsOK' /\ OnWay' = OnWay /\ \A i : Line(i)' = Line(i)
<1>1. n \in Queues /\ que[n].space_avail > 0 /\ RingShape(que[n])
  BY DEF PushClaim, MaySpace, PushOK, RingsOK, RingOK
<1>2. /\ que' = [cmd |-> que'.cmd, evt |-> que'.evt]
      /\ que'[n] = ClaimSpace(que[n])
      /\ \A k \in Queues : k # n => que'[k] = que[k]
  BY <1>1 DEF PushClaim, RingsOK, RingOK, Queues
<1>3. /\ RingShape(que'[n])
      /\ que'[n].buffer = que[n].buffer /\ que'[n].in_pos = que[n].in_pos
      /\ que'[n].out_pos = que[n].out_pos /\ que'[n].data_avail = que[n].data_avail
      /\ que'[n].space_avail = que[n].space_avail - 1
  <2>1. /\ que[n] = [f \in Fields |-> que[n][f]]
        /\ que'[n] = [que[n] EXCEPT !.space_avail = que[n].space_avail - 1]
    BY <1>1, <1>2 DEF ClaimSpace, RingShape
  <2>2. que'[n] = [f \in Fields |-> que'[n][f]]
    BY <2>1
  <2>3. /\ que'[n].buffer = que[n].buffer /\ que'[n].in_pos = que[n].in_pos
        /\ que'[n].out_pos = que[n].out_pos /\ que'[n].data_avail = que[n].data_avail
        /\ que'[n].space_avail = que[n].space_avail - 1
    BY <2>1 DEF Fields
  <2>4. /\ que'[n].space_avail \in Nat /\ que'[n].data_avail \in Nat
        /\ que'[n].in_pos \in 0..QueueSize - 1 /\ que'[n].out_pos \in 0..QueueSize - 1
    <3>1. /\ que[n].space_avail \in Nat /\ que[n].space_avail > 0 /\ que[n].data_avail \in Nat
          /\ que[n].in_pos \in 0..QueueSize - 1 /\ que[n].out_pos \in 0..QueueSize - 1
      BY <1>1 DEF RingShape
    <3>2. QED
      BY <2>3, <3>1
  <2>5. que'[n].buffer = [i \in 0..QueueSize - 1 |-> que'[n].buffer[i]]
    <3>1. que[n].buffer = [i \in 0..QueueSize - 1 |-> que[n].buffer[i]]
      BY <1>1 DEF RingShape
    <3>2. QED
      BY <2>3, <3>1, Zenon
  <2>6. QED
    BY <2>2, <2>3, <2>4, <2>5 DEF RingShape
<1>4. RingOK'
  <2>1. \A k \in Queues : RingShape(que'[k])
    BY <1>2, <1>3 DEF RingsOK, RingOK
  <2>2. QED
    BY <1>2, <2>1 DEF RingOK, RingShape
<1>5. /\ p \notin Storing(n) /\ Storing(n)' = Storing(n) \cup {p}
      /\ \A k \in Queues : k # n => Storing(k)' = Storing(k)
  <2>1. /\ push[p].pc = "space" /\ push'[p].pc = "store" /\ push'[p].queue = n
        /\ \A r \in Pushing \ {p} : push'[r] = push[r]
    BY DEF PushClaim, PushOK
  <2>2. QED
    BY <2>1 DEF Storing
<1>6. Cardinality(Storing(n))' = Cardinality(Storing(n)) + 1
  BY <1>5, StoringFinite, FS_AddElement
<1>7. \A k \in Queues : Held(k)' = Held(k) /\ Held(k) \in Nat
  <2>. TAKE k \in Queues
  <2>1. Fetching(k)' <=> Fetching(k)
    BY DEF Fetching
  <2>2. que'[k].data_avail = que[k].data_avail
    BY <1>2, <1>3
  <2>3. que[k].data_avail \in Nat
    BY DEF RingsOK, RingOK, RingShape
  <2>4. QED
    BY <2>1, <2>2, <2>3 DEF Held
<1>8. CountOK'
  <2>. SUFFICES ASSUME NEW k \in Queues
                PROVE  /\ que'[k].space_avail + Cardinality(Storing(k))' + Held(k)' = QueueSize
                       /\ que'[k].in_pos = Place(que'[k], Held(k)')
    BY DEF CountOK, Place
  <2>1. CASE k = n
    <3>1. Place(que'[n], Held(n)') = Place(que[n], Held(n))
      BY <1>1, <1>3, <1>7 DEF Place
    <3>2. que[n].space_avail \in Nat /\ Cardinality(Storing(n)) \in Nat
      BY <1>1, StoringFinite DEF RingShape
    <3>3. /\ que[n].space_avail + Cardinality(Storing(n)) + Held(n) = QueueSize
          /\ que[n].in_pos = Place(que[n], Held(n))
      BY <1>1 DEF CountOK, RingsOK
    <3>4. QED
      BY <1>1, <1>3, <1>6, <1>7, <2>1, <3>1, <3>2, <3>3
  <2>2. CASE k # n
    BY <1>2, <1>5, <1>7, <2>2 DEF CountOK, RingsOK, Place
  <2>3. QED
    BY <2>1, <2>2
<1>9. que'.cmd.buffer = que.cmd.buffer /\ que'.cmd.out_pos = que.cmd.out_pos
  BY <1>2, <1>3 DEF Queues
<1>10. OnWay' = OnWay /\ \A i : Line(i)' = Line(i)
  BY <1>7, <1>9 DEF OnWay, InHand, Line, Place, Queues
<1>11. LineOK'
  BY <1>10 DEF PushClaim, RingsOK, LineOK, Follows, AllCommands, Commands
<1>12. QED
  BY <1>4, <1>8, <1>10, <1>11 DEF RingsOK

-----------------------------------------------------------------------------
(* Storing, claiming and fetching items.                                    *)

\* The places of a ring: the one after h items is another than theirs, and the next
\* one round.
LEMMA Places ==
    ASSUME NEW q, RingShape(q), NEW h \in 0..QueueSize - 1
    PROVE  /\ Place(q, h) \in 0..QueueSize - 1
           /\ (Place(q, h) + 1) % QueueSize = Place(q, h + 1)
           /\ \A j \in 0..h - 1 : Place(q, j) # Place(q, h)
<1>0. QueueSize \in Nat /\ QueueSize > 0
  BY Constants
<1>1. q.out_pos \in 0..QueueSize - 1
  BY DEF RingShape
<1>2. Place(q, h) \in 0..QueueSize - 1
  BY <1>1, <1>0 DEF Place
<1>3. Place(q, h + 1) = IF Place(q, h) + 1 < QueueSize THEN Place(q, h) + 1 ELSE 0
  <2>1. CASE q.out_pos + h < QueueSize
    <3>1. Place(q, h) = q.out_pos + h
      BY <2>1 DEF Place
    <3>2. q.out_pos + (h + 1) = q.out_pos + h + 1 /\ q.out_pos + h \in Nat
      BY <1>1
    <3>3. q.out_pos + h + 1 < QueueSize => Place(q, h + 1) = q.out_pos + h + 1
      BY <3>2 DEF Place
    <3>4. ~(q.out_pos + h + 1 < QueueSize) => Place(q, h + 1) = 0
      <4>1. ~(q.out_pos + h + 1 < QueueSize) => q.out_pos + (h + 1) - QueueSize = 0
        BY <1>0, <1>1, <2>1
      <4>2. QED
        BY <3>2, <4>1 DEF Place
    <3>5. QED
      BY <3>1, <3>3, <3>4
  <2>2. CASE ~(q.out_pos + h < QueueSize)
    <3>1. Place(q, h) = q.out_pos + h - QueueSize /\ q.out_pos + h - QueueSize + 1 < QueueSize
      BY <1>1, <2>2, <1>0 DEF Place
    <3>2. Place(q, h + 1) = q.out_pos + h + 1 - QueueSize
      BY <1>1, <2>2, <1>0 DEF Place
    <3>3. QED
      BY <1>1, <3>1, <3>2, <1>0
  <2>3. QED
    BY <2>1, <2>2
<1>4. \A j \in 0..h - 1 : Place(q, j) # Place(q, h)
  BY <1>1, Constants DEF Place
<1>5. QED
  BY <1>2, <1>3, <1>4, NextPlace

\* The counts are natural numbers.
LEMMA CountsAreNat ==
    ASSUME RingOK
    PROVE  /\ \A k \in Queues : Held(k) \in Nat /\ que[k].space_avail \in Nat
           /\ OnWay \in Nat /\ InHand \in 0..1 /\ OnWay >= InHand
<1>1. \A k \in Queues : Held(k) \in Nat /\ que[k].space_avail \in Nat
  <2>. TAKE k \in Queues
  <2>1. que[k].space_avail \in Nat /\ que[k].data_avail \in Nat
    BY DEF RingOK, RingShape
  <2>2. Held(k) = que[k].data_avail \/ Held(k) = que[k].data_avail + 1
    BY <2>1 DEF Held
  <2>3. QED
    BY <2>1, <2>2
<1>2. QED
  BY <1>1 DEF OnWay, InHand, Queues

\* The commands are the same in every state.
LEMMA CommandsConstant == Commands' = Commands /\ AllCommands' = AllCommands
BY DEF AllCommands, Commands

\* A command comes to the end of the line.
LEMMA LineGrows ==
    ASSUME LineOK, NEW x, NEW m \in Nat, OnWay = m, OnWay' = m + 1,
           \A i \in 1..m : Line(i)' = Line(i), Line(m + 1)' = x, UNCHANGED sent,
           \/ x \in Commands /\ accepted' = Append(accepted, x)
           \/ /\ x = TxExit /\ UNCHANGED accepted
              /\ \A i \in 1..m : Line(i) # TxExit
    PROVE  LineOK'
<1>1. PICK e \in 1..m + 1 : Follows(e)
  BY DEF LineOK
<1>2. \A i \in 1..m + 1 : Line(i)' = IF i = m + 1 THEN x ELSE Line(i)
  <2>. TAKE i \in 1..m + 1
  <2>1. CASE i \in 1..m
    BY <2>1
  <2>2. CASE i = m + 1
    BY <2>2
  <2>3. QED
    BY <2>1, <2>2
<1>3. \A i \in 1..OnWay' : Line(i)' \in AllCommands
  BY <1>2 DEF LineOK, AllCommands
<1>4. accepted' \in Seq(Commands) /\ sent' \in Seq(Commands)
  BY DEF LineOK
<1>5. Len(sent) \in Nat /\ Len(accepted) \in Nat
  BY DEF LineOK
<1>6. CASE x \in Commands /\ accepted' = Append(accepted, x)
  <2>1. /\ x # TxExit /\ Len(accepted') = Len(accepted) + 1
        /\ accepted'[Len(accepted) + 1] = x
        /\ \A i \in 1..Len(accepted) : accepted'[i] = accepted[i]
    BY <1>6, CommandsAreNotExit DEF LineOK
  <2>. DEFINE f == IF e = m + 1 THEN m + 2 ELSE e
  <2>2. f \in 1..OnWay' + 1
    OBVIOUS
  <2>3. \A i \in 1..OnWay' : Line(i)' = TxExit <=> i = f
    BY <1>1, <1>2, <2>1 DEF Follows
  <2>4. Len(accepted') = Len(sent') + OnWay' - IF f <= OnWay' THEN 1 ELSE 0
    <3>1. Len(accepted) = Len(sent) + m - IF e <= m THEN 1 ELSE 0
      BY <1>1 DEF Follows
    <3>2. CASE e = m + 1
      <4>1. f = m + 2 /\ Len(accepted) = Len(sent) + m
        BY <1>5, <3>1, <3>2
      <4>2. QED
        BY <1>5, <2>1, <4>1
    <3>3. CASE e <= m
      <4>1. f = e /\ Len(accepted) = Len(sent) + m - 1
        BY <1>5, <3>1, <3>3
      <4>2. QED
        BY <1>5, <2>1, <3>3, <4>1
    <3>4. QED
      BY <3>2, <3>3
  <2>5. \A i \in 1..OnWay' : i < f => accepted'[Len(sent') + i] = Line(i)'
    <3>. TAKE i \in 1..OnWay'
    <3>. HAVE i < f
    <3>1. CASE i = m + 1
      BY <1>1, <1>2, <1>5, <2>1, <3>1 DEF Follows
    <3>2. CASE i # m + 1
      <4>1. i \in 1..m /\ i < e /\ Len(sent) + i \in 1..Len(accepted)
        BY <1>1, <1>5, <3>2 DEF Follows
      <4>2. QED
        BY <1>1, <1>2, <2>1, <4>1 DEF Follows
    <3>3. QED
      BY <3>1, <3>2
  <2>6. \A i \in 1..OnWay' : i > f => accepted'[Len(sent') + i - 1] = Line(i)'
    <3>. TAKE i \in 1..OnWay'
    <3>. HAVE i > f
    <3>1. CASE i = m + 1
      BY <1>1, <1>2, <1>5, <2>1, <3>1 DEF Follows
    <3>2. CASE i # m + 1
      <4>1. i \in 1..m /\ i > e /\ Len(sent) + i - 1 \in 1..Len(accepted)
        BY <1>1, <1>5, <3>2 DEF Follows
      <4>2. QED
        BY <1>1, <1>2, <2>1, <4>1 DEF Follows
    <3>3. QED
      BY <3>1, <3>2
  <2>7. QED
    BY <1>3, <1>4, <2>2, <2>3, <2>4, <2>5, <2>6, CommandsConstant DEF LineOK, Follows
<1>7. CASE x = TxExit /\ UNCHANGED accepted /\ \A i \in 1..m : Line(i) # TxExit
  <2>1. e = m + 1
    <3>1. e \in 1..m => Line(e) = TxExit
      BY <1>1 DEF Follows
    <3>2. QED
      BY <1>7, <3>1
  <2>2. e \in 1..OnWay' + 1
    BY <2>1
  <2>3. \A i \in 1..OnWay' : Line(i)' = TxExit <=> i = e
    BY <1>2, <1>7, <2>1
  <2>4. Len(accepted') = Len(sent') + OnWay' - IF e <= OnWay' THEN 1 ELSE 0
    BY <1>1, <1>5, <1>7, <2>1 DEF Follows
  <2>5. \A i \in 1..OnWay' : i < e => accepted'[Len(sent') + i] = Line(i)'
    BY <1>1, <1>2, <1>7, <2>1 DEF Follows
  <2>6. \A i \in 1..OnWay' : i > e => accepted'[Len(sent') + i - 1] = Line(i)'
    BY <2>1
  <2>7. QED
    BY <1>3, <1>4, <2>2, <2>3, <2>4, <2>5, <2>6, CommandsConstant DEF LineOK, Follows
<1>8. QED
  BY <1>6, <1>7

\* A command goes from the front of the line, and out unless it is the exit packet.
LEMMA LineShrinks ==
    ASSUME LineOK, OnWay \in Nat, OnWay > 0, OnWay' = OnWay - 1,
           \A i \in 1..OnWay - 1 : Line(i)' = Line(i + 1), UNCHANGED accepted,
           IF Line(1) = TxExit THEN UNCHANGED sent ELSE sent' = Append(sent, Line(1))
    PROVE  /\ LineOK'
           /\ Line(1) # TxExit => /\ Len(sent) < Len(accepted)
                                  /\ Line(1) = accepted[Len(sent) + 1]
<1>1. PICK e \in 1..OnWay + 1 : Follows(e)
  BY DEF LineOK
<1>2. Len(sent) \in Nat /\ Len(accepted) \in Nat
  BY DEF LineOK
<1>3. \A i \in 1..OnWay' : Line(i)' \in AllCommands
  BY DEF LineOK
<1>4. CASE Line(1) = TxExit
  <2>1. e = 1 /\ UNCHANGED sent
    BY <1>1, <1>4 DEF Follows
  <2>2. OnWay \in 1..OnWay' + 1
    OBVIOUS
  <2>3. \A i \in 1..OnWay' : Line(i)' = TxExit <=> i = OnWay
    BY <1>1, <2>1 DEF Follows
  <2>4. Len(accepted') = Len(sent') + OnWay' - IF OnWay <= OnWay' THEN 1 ELSE 0
    BY <1>1, <1>2, <2>1 DEF Follows
  <2>5. \A i \in 1..OnWay' : i < OnWay => accepted'[Len(sent') + i] = Line(i)'
    <3>. TAKE i \in 1..OnWay'
    <3>1. i + 1 \in 1..OnWay /\ i + 1 > e
      BY <2>1
    <3>2. accepted[Len(sent) + (i + 1) - 1] = Line(i + 1)
      BY <1>1, <3>1 DEF Follows
    <3>3. Len(sent) + (i + 1) - 1 = Len(sent) + i
      BY <1>2
    <3>4. QED
      BY <2>1, <3>2, <3>3
  <2>6. \A i \in 1..OnWay' : i > OnWay => accepted'[Len(sent') + i - 1] = Line(i)'
    OBVIOUS
  <2>7. QED
    BY <1>3, <1>4, <2>1, <2>2, <2>3, <2>4, <2>5, <2>6, CommandsConstant DEF LineOK, Follows
<1>5. CASE Line(1) # TxExit
  <2>1. e > 1 /\ Line(1) \in Commands
    BY <1>1, <1>5 DEF Follows, LineOK, AllCommands
  <2>2. /\ sent' \in Seq(Commands) /\ Len(sent') = Len(sent) + 1
    BY <1>5, <2>1 DEF LineOK
  <2>3. e - 1 \in 1..OnWay' + 1
    BY <2>1
  <2>4. \A i \in 1..OnWay' : Line(i)' = TxExit <=> i = e - 1
    BY <1>1, <2>1 DEF Follows
  <2>5. Len(accepted') = Len(sent') + OnWay' - IF e - 1 <= OnWay' THEN 1 ELSE 0
    BY <1>1, <1>2, <2>1, <2>2 DEF Follows
  <2>6. \A i \in 1..OnWay' : i < e - 1 => accepted'[Len(sent') + i] = Line(i)'
    <3>. TAKE i \in 1..OnWay'
    <3>. HAVE i < e - 1
    <3>1. i + 1 \in 1..OnWay /\ i + 1 < e
      BY <2>1
    <3>2. accepted[Len(sent) + (i + 1)] = Line(i + 1)
      BY <1>1, <3>1 DEF Follows
    <3>3. Len(sent) + (i + 1) = Len(sent') + i
      BY <1>2, <2>2
    <3>4. QED
      BY <3>2, <3>3
  <2>7. \A i \in 1..OnWay' : i > e - 1 => accepted'[Len(sent') + i - 1] = Line(i)'
    <3>. TAKE i \in 1..OnWay'
    <3>. HAVE i > e - 1
    <3>1. i + 1 \in 1..OnWay /\ i + 1 > e
      BY <2>1
    <3>2. accepted[Len(sent) + (i + 1) - 1] = Line(i + 1)
      BY <1>1, <3>1 DEF Follows
    <3>3. Len(sent) + (i + 1) - 1 = Len(sent') + i - 1
      BY <1>2, <2>2
    <3>4. QED
      BY <3>2, <3>3
  <2>8. Len(sent) < Len(accepted) /\ Line(1) = accepted[Len(sent) + 1]
    BY <1>1, <1>2, <2>1 DEF Follows
  <2>9. QED
    BY <1>3, <2>2, <2>3, <2>4, <2>5, <2>6, <2>7, <2>8, CommandsConstant DEF LineOK, Follows
<1>6. QED
  BY <1>4, <1>5

-----------------------------------------------------------------------------
(* The steps that store or take items.                                      *)

\* One ring changes, and the others' counts do not.
LEMMA OneRingChanges ==
    ASSUME RingOK, CountOK, NEW n \in Queues, NEW r, RingShape(r), que' = [que EXCEPT ![n] = r],
           \A k \in Queues \ {n} : Storing(k)' = Storing(k) /\ Held(k)' = Held(k),
           r.space_avail + Cardinality(Storing(n))' + Held(n)' = QueueSize,
           r.in_pos = Place(r, Held(n)')
    PROVE  RingOK' /\ CountOK' /\ que'[n] = r /\ \A k \in Queues \ {n} : que'[k] = que[k]
<1>1. que'[n] = r /\ \A k \in Queues \ {n} : que'[k] = que[k]
  BY DEF RingOK, Queues
<1>2. que' = [cmd |-> que'.cmd, evt |-> que'.evt]
  BY DEF RingOK, Queues
<1>3. \A k \in Queues : RingShape(que'[k])
  BY <1>1 DEF RingOK
<1>4. RingOK'
  BY <1>2, <1>3 DEF RingOK, RingShape
<1>5. CountOK'
  BY <1>1 DEF CountOK, Place
<1>6. QED
  BY <1>1, <1>4, <1>5

\* The two ends of the ring, field by field.
LEMMA EndsByField ==
    ASSUME NEW q, RingShape(q), NEW x
    PROVE  /\ Store(q, x) = [f \in Fields |-> Store(q, x)[f]]
           /\ Store(q, x).buffer = [q.buffer EXCEPT ![q.in_pos] = x]
           /\ Store(q, x).in_pos = (q.in_pos + 1) % QueueSize
           /\ Store(q, x).out_pos = q.out_pos
           /\ Store(q, x).space_avail = q.space_avail
           /\ Store(q, x).data_avail = q.data_avail + 1
           /\ Fetch(q) = [f \in Fields |-> Fetch(q)[f]]
           /\ Fetch(q).buffer = q.buffer /\ Fetch(q).in_pos = q.in_pos
           /\ Fetch(q).out_pos = (q.out_pos + 1) % QueueSize
           /\ Fetch(q).space_avail = q.space_avail + 1
           /\ Fetch(q).data_avail = q.data_avail
<1>1. q = [f \in Fields |-> q[f]]
  BY DEF RingShape
<1>2. Store(q, x) = [f \in Fields |-> Store(q, x)[f]]
  BY <1>1 DEF Store, Fields
<1>3. /\ Store(q, x).buffer = [q.buffer EXCEPT ![q.in_pos] = x]
      /\ Store(q, x).in_pos = (q.in_pos + 1) % QueueSize
      /\ Store(q, x).out_pos = q.out_pos
      /\ Store(q, x).space_avail = q.space_avail
      /\ Store(q, x).data_avail = q.data_avail + 1
  BY <1>1 DEF Store, Fields
<1>4. Fetch(q) = [f \in Fields |-> Fetch(q)[f]]
  BY <1>1 DEF Fetch, Fields
<1>5. /\ Fetch(q).buffer = q.buffer /\ Fetch(q).in_pos = q.in_pos
      /\ Fetch(q).out_pos = (q.out_pos + 1) % QueueSize
      /\ Fetch(q).space_avail = q.space_avail + 1
      /\ Fetch(q).data_avail = q.data_avail
  BY <1>1 DEF Fetch, Fields
<1>6. QED
  BY <1>2, <1>3, <1>4, <1>5

\* Store: the item is h places after the out position, the others stay.
LEMMA StoreShape ==
    ASSUME NEW q, RingShape(q), NEW h \in 0..QueueSize - 1, q.in_pos = Place(q, h), NEW x
    PROVE  /\ RingShape(Store(q, x))
           /\ Store(q, x).space_avail = q.space_avail
           /\ Store(q, x).data_avail = q.data_avail + 1
           /\ Store(q, x).out_pos = q.out_pos
           /\ Store(q, x).in_pos = Place(Store(q, x), h + 1)
           /\ Store(q, x).buffer[Place(q, h)] = x
           /\ \A j \in 0..h - 1 : Store(q, x).buffer[Place(q, j)] = q.buffer[Place(q, j)]
<1>. DEFINE s == Store(q, x)
<1>1. q.in_pos \in 0..QueueSize - 1
  BY DEF RingShape
<1>2. /\ s = [f \in Fields |-> s[f]] /\ s.buffer = [q.buffer EXCEPT ![q.in_pos] = x]
      /\ s.in_pos = (q.in_pos + 1) % QueueSize /\ s.out_pos = q.out_pos
      /\ s.space_avail = q.space_avail /\ s.data_avail = q.data_avail + 1
  BY EndsByField
<1>3. /\ s.buffer = [i \in 0..QueueSize - 1 |-> s.buffer[i]]
      /\ s.buffer[q.in_pos] = x
      /\ \A i \in 0..QueueSize - 1 : i # q.in_pos => s.buffer[i] = q.buffer[i]
  BY <1>1, <1>2 DEF RingShape
<1>4. s.in_pos \in 0..QueueSize - 1
  BY <1>1, <1>2, NextPlace, Constants
<1>5. \A j \in 0..h - 1 : Place(q, j) \in 0..QueueSize - 1 /\ Place(q, j) # q.in_pos
  <2>. TAKE j \in 0..h - 1
  <2>1. j \in 0..QueueSize - 1
    BY Constants
  <2>2. QED
    BY <2>1, Places
<1>6. s.in_pos = Place(s, h + 1)
  <2>1. s.in_pos = Place(q, h + 1)
    BY <1>2, Places
  <2>2. QED
    BY <1>2, <2>1 DEF Place
<1>7. RingShape(s)
  <2>. HIDE DEF s
  <2>1. /\ q.out_pos \in 0..QueueSize - 1
        /\ q.space_avail \in Nat /\ q.data_avail \in Nat
    BY DEF RingShape
  <2>2. QED
    BY <1>2, <1>3, <1>4, <2>1 DEF RingShape
<1>. HIDE DEF s
<1>8. QED
  BY <1>2, <1>3, <1>5, <1>6, <1>7 DEF s

\* Fetch: the out position moves on, over what was at the front.
LEMMA FetchShape ==
    ASSUME NEW q, RingShape(q), NEW h \in 1..QueueSize, q.in_pos = Place(q, h)
    PROVE  /\ RingShape(Fetch(q))
           /\ Fetch(q).space_avail = q.space_avail + 1
           /\ Fetch(q).data_avail = q.data_avail
           /\ Fetch(q).buffer = q.buffer
           /\ Fetch(q).in_pos = Place(Fetch(q), h - 1)
           /\ Front(q) = q.buffer[Place(q, 0)]
           /\ \A j \in 0..h - 1 : Place(Fetch(q), j) = Place(q, j + 1)
<1>. DEFINE s == Fetch(q)
<1>1. /\ q.out_pos \in 0..QueueSize - 1 /\ q.in_pos \in 0..QueueSize - 1
      /\ q.space_avail \in Nat /\ q.data_avail \in Nat
  BY DEF RingShape
<1>2. /\ s = [f \in Fields |-> s[f]] /\ s.buffer = q.buffer /\ s.in_pos = q.in_pos
      /\ s.out_pos = (q.out_pos + 1) % QueueSize
      /\ s.space_avail = q.space_avail + 1 /\ s.data_avail = q.data_avail
  BY EndsByField
<1>3. s.out_pos = IF q.out_pos + 1 < QueueSize THEN q.out_pos + 1 ELSE 0
  BY <1>1, <1>2, NextPlace
<1>4. s.out_pos \in 0..QueueSize - 1
  BY <1>1, <1>3, Constants
<1>5. \A j \in 0..h - 1 : Place(s, j) = Place(q, j + 1)
  <2>. TAKE j \in 0..h - 1
  <2>. HIDE DEF s
  <2>1. CASE q.out_pos + 1 < QueueSize
    <3>1. s.out_pos + j = q.out_pos + (j + 1)
      BY <1>1, <1>3, <2>1
    <3>2. s.out_pos + j \in Nat /\ QueueSize \in Nat
      BY <1>1, <1>4, Constants
    <3>3. CASE s.out_pos + j < QueueSize
      <4>1. Place(s, j) = s.out_pos + j
        BY <3>3 DEF Place
      <4>2. Place(q, j + 1) = q.out_pos + (j + 1)
        BY <3>1, <3>3 DEF Place
      <4>3. QED
        BY <3>1, <4>1, <4>2
    <3>4. CASE ~(s.out_pos + j < QueueSize)
      <4>1. Place(s, j) = s.out_pos + j - QueueSize
        BY <3>4 DEF Place
      <4>2. Place(q, j + 1) = q.out_pos + (j + 1) - QueueSize
        BY <3>1, <3>4 DEF Place
      <4>3. QED
        BY <1>1, <1>4, <3>1, <3>2, <4>1, <4>2
    <3>5. QED
      BY <3>3, <3>4
  <2>2. CASE q.out_pos + 1 = QueueSize
    <3>1. s.out_pos = 0
      BY <1>1, <1>3, <2>2, Constants
    <3>2. Place(s, j) = j
      BY <3>1, Constants DEF Place
    <3>3. Place(q, j + 1) = j
      <4>1. q.out_pos + (j + 1) - QueueSize = j /\ ~(q.out_pos + (j + 1) < QueueSize)
        BY <1>1, <2>2, Constants
      <4>2. QED
        BY <4>1 DEF Place
    <3>4. QED
      BY <3>2, <3>3
  <2>3. QED
    BY <1>1, <2>1, <2>2, Constants
<1>6. s.in_pos = Place(s, h - 1)
  <2>. HIDE DEF s
  <2>1. h - 1 \in 0..h - 1 /\ (h - 1) + 1 = h
    BY Constants
  <2>2. QED
    BY <1>2, <1>5, <2>1
<1>7. Front(q) = q.buffer[Place(q, 0)]
  BY <1>1, Constants DEF Front, Place
<1>8. RingShape(s)
  <2>. HIDE DEF s
  <2>1. q.buffer = [i \in 0..QueueSize - 1 |-> q.buffer[i]]
    BY DEF RingShape
  <2>2. s.buffer = [i \in 0..QueueSize - 1 |-> s.buffer[i]]
    BY <1>2, <2>1
  <2>3. s.space_avail \in Nat /\ s.data_avail \in Nat /\ s.in_pos \in 0..QueueSize - 1
    BY <1>1, <1>2
  <2>4. s = [f \in Fields |-> s[f]]
    BY <1>2
  <2>5. QED
    BY <1>4, <2>2, <2>3, <2>4 DEF RingShape
<1>. HIDE DEF s
<1>9. QED
  BY <1>2, <1>5, <1>6, <1>7, <1>8 DEF s

\* PushStore leaves the critical section.
LEMMA StoringAfterStore ==
    ASSUME PushOK, NEW p \in Pushing, PushStore(p), NEW n \in Queues, n = push[p].queue
    PROVE  /\ p \in Storing(n) /\ Storing(n)' = Storing(n) \ {p}
           /\ \A k \in Queues \ {n} : Storing(k)' = Storing(k)
<1>1. /\ push[p].pc = "store" /\ push'[p].pc = "no"
      /\ \A r \in Pushing \ {p} : push'[r] = push[r]
  BY DEF PushStore, PushOK, Resting
<1>2. QED
  BY <1>1 DEF Storing

\* PushStore: the item is the last of its ring.
LEMMA StoreKeeps ==
    ASSUME RingsOK, PushOK, NEW p \in Pushing, PushStore(p), UNCHANGED <<tx, event, sent>>,
           NEW n \in Queues, n = push[p].queue, NEW h, h = Held(n)
    PROVE  /\ RingOK' /\ CountOK' /\ Held(n)' = h + 1
           /\ \A k \in Queues \ {n} : Held(k)' = Held(k) /\ que'[k] = que[k]
           /\ h \in 0..QueueSize - 1
           /\ que'[n].out_pos = que[n].out_pos
           /\ que'[n].buffer[Place(que[n], h)] = push[p].item
           /\ \A j \in 0..h - 1 : que'[n].buffer[Place(que[n], j)] = que[n].buffer[Place(que[n], j)]
<1>. DEFINE r == Store(que[n], push[p].item)
<1>1. /\ Cardinality(Storing(n)) \in Nat /\ Cardinality(Storing(n)) >= 1
      /\ Cardinality(Storing(n))' = Cardinality(Storing(n)) - 1
  <2>1. p \in Storing(n) /\ Storing(n)' = Storing(n) \ {p}
    BY StoringAfterStore
  <2>2. /\ IsFiniteSet(Storing(n)) /\ Cardinality(Storing(n)) \in Nat
        /\ Cardinality(Storing(n)) >= 1
    BY <2>1, StoringFinite
  <2>3. QED
    BY <2>1, <2>2, FS_RemoveElement
<1>2. /\ RingShape(que[n]) /\ que[n].space_avail \in Nat /\ h \in Nat
      /\ que[n].space_avail + Cardinality(Storing(n)) + h = QueueSize
      /\ que[n].in_pos = Place(que[n], h)
  BY CountsAreNat DEF RingsOK, RingOK, CountOK
<1>3. h \in 0..QueueSize - 1
  BY <1>1, <1>2, Constants
<1>4. /\ RingShape(r) /\ r.space_avail = que[n].space_avail
      /\ r.data_avail = que[n].data_avail + 1 /\ r.out_pos = que[n].out_pos
      /\ r.in_pos = Place(r, h + 1) /\ r.buffer[Place(que[n], h)] = push[p].item
      /\ \A j \in 0..h - 1 : r.buffer[Place(que[n], j)] = que[n].buffer[Place(que[n], j)]
  BY <1>2, <1>3, StoreShape
<1>5. que' = [que EXCEPT ![n] = r]
  BY DEF PushStore
<1>6. que'[n] = r /\ \A k \in Queues \ {n} : que'[k] = que[k]
  BY <1>5 DEF RingsOK, RingOK, Queues
<1>7. /\ Held(n)' = h + 1
      /\ \A k \in Queues \ {n} : Held(k)' = Held(k)
  <2>1. \A k \in Queues : Fetching(k)' <=> Fetching(k)
    BY DEF Fetching
  <2>2. que[n].data_avail \in Nat
    BY <1>2 DEF RingShape
  <2>. HIDE DEF r
  <2>3. QED
    BY <1>4, <1>6, <2>1, <2>2 DEF Held
<1>8. r.space_avail + Cardinality(Storing(n))' + Held(n)' = QueueSize
  <2>. HIDE DEF r
  <2>1. QED
    BY <1>1, <1>2, <1>4, <1>7
<1>9. RingOK' /\ CountOK'
  <2>1. \A k \in Queues \ {n} : Storing(k)' = Storing(k)
    BY StoringAfterStore
  <2>2. \E q : q = r
    OBVIOUS
  <2>. HIDE DEF r
  <2>3. QED
    BY <1>4, <1>5, <1>7, <1>8, <2>1, OneRingChanges DEF RingsOK
<1>. HIDE DEF r
<1>10. QED
  BY <1>3, <1>4, <1>6, <1>7, <1>9

-----------------------------------------------------------------------------
(* The line of the commands after each of them.                             *)

\* A ring of which one item is claimed.
LEMMA ClaimDataShape ==
    ASSUME NEW q, RingShape(q), MayFetch(q)
    PROVE  /\ RingShape(ClaimData(q)) /\ ClaimData(q).data_avail = q.data_avail - 1
           /\ ClaimData(q).space_avail = q.space_avail /\ ClaimData(q).buffer = q.buffer
           /\ ClaimData(q).out_pos = q.out_pos /\ ClaimData(q).in_pos = q.in_pos
<1>1. q = [f \in Fields |-> q[f]] /\ q.data_avail \in Nat /\ q.data_avail > 0
  BY DEF RingShape, MayFetch
<1>2. /\ ClaimData(q) = [f \in Fields |-> ClaimData(q)[f]]
      /\ ClaimData(q).data_avail = q.data_avail - 1
      /\ ClaimData(q).space_avail = q.space_avail /\ ClaimData(q).buffer = q.buffer
      /\ ClaimData(q).out_pos = q.out_pos /\ ClaimData(q).in_pos = q.in_pos
  BY <1>1 DEF ClaimData, Fields
<1>3. RingShape(ClaimData(q))
  <2>1. q.buffer = [i \in 0..QueueSize - 1 |-> q.buffer[i]]
    BY DEF RingShape
  <2>2. ClaimData(q).buffer = [i \in 0..QueueSize - 1 |-> ClaimData(q).buffer[i]]
    BY <1>2, <2>1
  <2>3. /\ ClaimData(q).space_avail \in Nat /\ ClaimData(q).data_avail \in Nat
        /\ ClaimData(q).in_pos \in 0..QueueSize - 1
        /\ ClaimData(q).out_pos \in 0..QueueSize - 1
    BY <1>1, <1>2 DEF RingShape
  <2>4. QED
    BY <1>2, <2>2, <2>3 DEF RingShape
<1>4. QED
  BY <1>2, <1>3

\* A ring in which only the consumer's claim moves.
LEMMA ConsumerClaims ==
    ASSUME RingsOK, NEW n \in Queues, MayFetch(que[n]), UNCHANGED push,
           que' = [que EXCEPT ![n] = ClaimData(que[n])],
           ~Fetching(n), Fetching(n)', \A k \in Queues \ {n} : Fetching(k)' <=> Fetching(k)
    PROVE  /\ RingOK' /\ CountOK' /\ \A k \in Queues : Held(k)' = Held(k)
           /\ \A k \in Queues : que'[k].buffer = que[k].buffer /\ que'[k].out_pos = que[k].out_pos
<1>. DEFINE r == ClaimData(que[n])
<1>1. RingShape(que[n]) /\ que[n].data_avail \in Nat
  BY DEF RingsOK, RingOK, RingShape
<1>2. /\ RingShape(r) /\ r.data_avail = que[n].data_avail - 1
      /\ r.space_avail = que[n].space_avail /\ r.buffer = que[n].buffer
      /\ r.out_pos = que[n].out_pos /\ r.in_pos = que[n].in_pos
  BY <1>1, ClaimDataShape
<1>. HIDE DEF r
<1>3. que' = [que EXCEPT ![n] = r]
  BY DEF r
<1>4. que'[n] = r /\ \A k \in Queues \ {n} : que'[k] = que[k]
  BY <1>3 DEF RingsOK, RingOK, Queues
<1>5. \A k \in Queues : Held(k)' = Held(k)
  BY <1>1, <1>2, <1>4 DEF Held
<1>6. \A k \in Queues : Storing(k)' = Storing(k)
  BY StoringKept
<1>7. /\ r.space_avail + Cardinality(Storing(n))' + Held(n)' = QueueSize
      /\ r.in_pos = Place(r, Held(n)')
  BY <1>2, <1>5, <1>6 DEF RingsOK, CountOK, Place
<1>8. RingOK' /\ CountOK'
  BY <1>2, <1>3, <1>5, <1>6, <1>7, OneRingChanges DEF RingsOK
<1>9. QED
  BY <1>2, <1>4, <1>5, <1>8

\* A ring from which the consumer takes what it has claimed.
LEMMA ConsumerFetches ==
    ASSUME RingsOK, NEW n \in Queues, UNCHANGED push, NEW h, h = Held(n),
           que' = [que EXCEPT ![n] = Fetch(que[n])],
           Fetching(n), ~Fetching(n)', \A k \in Queues \ {n} : Fetching(k)' <=> Fetching(k)
    PROVE  /\ RingOK' /\ CountOK' /\ h \in 1..QueueSize /\ Held(n)' = h - 1
           /\ \A k \in Queues \ {n} : Held(k)' = Held(k) /\ que'[k] = que[k]
           /\ que'[n].buffer = que[n].buffer
           /\ Front(que[n]) = que[n].buffer[Place(que[n], 0)]
           /\ \A j \in 0..h - 1 : Place(que'[n], j) = Place(que[n], j + 1)
<1>. DEFINE r == Fetch(que[n])
<1>1. /\ RingShape(que[n]) /\ que[n].data_avail \in Nat /\ que[n].space_avail \in Nat
      /\ h = que[n].data_avail + 1
      /\ que[n].space_avail + Cardinality(Storing(n)) + h = QueueSize
      /\ que[n].in_pos = Place(que[n], h) /\ Cardinality(Storing(n)) \in Nat
  BY StoringFinite DEF RingsOK, RingOK, RingShape, CountOK, Held
<1>2. h \in 1..QueueSize
  BY <1>1, Constants
<1>3. /\ RingShape(r) /\ r.space_avail = que[n].space_avail + 1
      /\ r.data_avail = que[n].data_avail /\ r.buffer = que[n].buffer
      /\ r.in_pos = Place(r, h - 1) /\ Front(que[n]) = que[n].buffer[Place(que[n], 0)]
      /\ \A j \in 0..h - 1 : Place(r, j) = Place(que[n], j + 1)
  BY <1>1, <1>2, FetchShape
<1>. HIDE DEF r
<1>4. que' = [que EXCEPT ![n] = r]
  BY DEF r
<1>5. que'[n] = r /\ \A k \in Queues \ {n} : que'[k] = que[k]
  BY <1>4 DEF RingsOK, RingOK, Queues
<1>6. Held(n)' = h - 1 /\ \A k \in Queues \ {n} : Held(k)' = Held(k)
  BY <1>1, <1>3, <1>5 DEF Held
<1>7. \A k \in Queues : Storing(k)' = Storing(k)
  BY StoringKept
<1>8. /\ r.space_avail + Cardinality(Storing(n))' + Held(n)' = QueueSize
      /\ r.in_pos = Place(r, Held(n)')
  <2>1. Cardinality(Storing(n))' = Cardinality(Storing(n))
    BY <1>7
  <2>2. (que[n].space_avail + 1) + Cardinality(Storing(n)) + (h - 1) = QueueSize
    BY <1>1, <1>2
  <2>3. QED
    BY <1>3, <1>6, <2>1, <2>2
<1>9. RingOK' /\ CountOK'
  BY <1>3, <1>4, <1>6, <1>7, <1>8, OneRingChanges DEF RingsOK
<1>10. QED
  BY <1>2, <1>3, <1>5, <1>6, <1>9

\* PushStore of an item for the event thread, and its Pop, leave the line alone.
LEMMA LineKeptByEvents ==
    ASSUME que'["cmd"] = que["cmd"], Held("cmd")' = Held("cmd"), UNCHANGED <<tx, accepted, sent>>
    PROVE  /\ OnWay' = OnWay /\ \A i : Line(i)' = Line(i)
           /\ LineOK => LineOK'
<1>1. OnWay' = OnWay /\ \A i : Line(i)' = Line(i)
  BY DEF OnWay, InHand, Line, Place
<1>2. LineOK => LineOK'
  BY <1>1 DEF LineOK, Follows, AllCommands, Commands
<1>3. QED
  BY <1>1, <1>2

\* PushStore of a command: it is the last of the line.
LEMMA LineAfterStore ==
    ASSUME RingsOK, PushOK, ExitOnce, NEW p \in Pushing, PushStore(p),
           UNCHANGED <<tx, event, sent>>, push[p].queue = "cmd", NEW m, m = OnWay
    PROVE  /\ LineOK' /\ m \in Nat /\ OnWay' = m + 1
           /\ \A i \in 1..m : Line(i)' = Line(i)
           /\ Line(m + 1)' = push[p].item
<1>. DEFINE h == Held("cmd")
            x == push[p].item
<1>1. \E g : g = h
  OBVIOUS
<1>2. PICK g : g = h
  BY <1>1
<1>3. "cmd" \in Queues
  BY DEF Queues
<1>4. /\ Held("cmd")' = g + 1 /\ g \in 0..QueueSize - 1
      /\ que'.cmd.out_pos = que.cmd.out_pos
      /\ que'.cmd.buffer[Place(que.cmd, g)] = push[p].item
      /\ \A j \in 0..g - 1 : que'.cmd.buffer[Place(que.cmd, j)] = que.cmd.buffer[Place(que.cmd, j)]
  BY <1>2, <1>3, StoreKeeps
<1>5. \A j : Place(que'.cmd, j) = Place(que.cmd, j)
  BY <1>4 DEF Place
<1>6. InHand \in 0..1 /\ InHand' = InHand /\ m = InHand + g /\ m \in Nat /\ OnWay' = m + 1
  BY <1>2, <1>4, Constants DEF InHand, OnWay
<1>7. \A i \in 1..m : Line(i)' = Line(i)
  <2>. TAKE i \in 1..m
  <2>1. CASE i = InHand
    BY <1>6, <2>1 DEF Line
  <2>2. CASE i # InHand
    <3>1. i - 1 - InHand \in 0..g - 1
      BY <1>4, <1>6, <2>2
    <3>2. QED
      BY <1>4, <1>5, <1>6, <2>2, <3>1 DEF Line
  <2>3. QED
    BY <2>1, <2>2
<1>8. Line(m + 1)' = push[p].item
  <2>1. m + 1 # InHand /\ m + 1 - 1 - InHand = g
    BY <1>4, <1>6
  <2>2. QED
    BY <1>4, <1>5, <1>6, <2>1 DEF Line
<1>9. \/ x \in Commands /\ accepted' = Append(accepted, x)
      \/ x = TxExit /\ UNCHANGED accepted /\ \A i \in 1..m : Line(i) # TxExit
  <2>1. push[p].pc = "store" /\ x \in AllCommands /\ (x = TxExit => p = "owner")
    BY CommandsAreNotExit DEF PushStore, PushOK, AllCommands
  <2>2. accepted' = IF x # TxExit THEN Append(accepted, x) ELSE accepted
    BY DEF PushStore
  <2>3. CASE x = TxExit
    BY <2>1, <2>2, <2>3 DEF ExitOnce
  <2>4. CASE x # TxExit
    BY <2>1, <2>2, <2>4 DEF AllCommands
  <2>5. QED
    BY <2>3, <2>4
<1>10. LineOK'
  <2>1. LineOK
    BY DEF RingsOK
  <2>2. PICK y : y = x
    OBVIOUS
  <2>3. QED
    BY <1>6, <1>7, <1>8, <1>9, <2>1, <2>2, LineGrows
<1>11. QED
  BY <1>6, <1>7, <1>8, <1>10

\* TxFetch: the first item of the ring is in TX's hand, the line is the same.
LEMMA LineAfterFetch ==
    ASSUME RingsOK, ControlOK, TxFetch, UNCHANGED <<push, event, accepted, sent>>
    PROVE  RingOK' /\ CountOK' /\ LineOK' /\ OnWay' = OnWay
           /\ \A i \in 1..OnWay : Line(i)' = Line(i)
<1>1. PICK h : h = Held("cmd")
  OBVIOUS
<1>2. /\ "cmd" \in Queues /\ que' = [que EXCEPT !["cmd"] = Fetch(que["cmd"])]
      /\ Fetching("cmd") /\ ~Fetching("cmd")'
      /\ \A k \in Queues \ {"cmd"} : Fetching(k)' <=> Fetching(k)
  BY DEF Queues, TxFetch, Fetching, ControlOK
<1>3. /\ RingOK' /\ CountOK' /\ h \in 1..QueueSize /\ Held("cmd")' = h - 1
      /\ que'.cmd.buffer = que.cmd.buffer
      /\ Front(que.cmd) = que.cmd.buffer[Place(que.cmd, 0)]
      /\ \A j \in 0..h - 1 : Place(que'.cmd, j) = Place(que.cmd, j + 1)
  BY <1>1, <1>2, ConsumerFetches
<1>4. /\ InHand = 0 /\ InHand' = 1 /\ OnWay = h /\ OnWay' = OnWay
      /\ tx'.item = Front(que.cmd)
  BY <1>1, <1>3, Constants DEF InHand, OnWay, TxFetch, ControlOK
<1>5. \A i \in 1..OnWay : Line(i)' = Line(i)
  <2>. SUFFICES ASSUME NEW i \in 1..h PROVE Line(i)' = Line(i)
    BY <1>4
  <2>0. Line(i) = que.cmd.buffer[Place(que.cmd, i - 1)]
    <3>1. i # 0 /\ i - 1 - 0 = i - 1
      BY <1>3
    <3>2. QED
      BY <1>4, <3>1 DEF Line
  <2>1. CASE i = 1
    <3>1. Line(i)' = tx'.item
      BY <1>4, <2>1 DEF Line
    <3>2. Line(i) = que.cmd.buffer[Place(que.cmd, 0)]
      BY <2>0, <2>1
    <3>3. QED
      BY <1>3, <1>4, <3>1, <3>2
  <2>2. CASE i # 1
    <3>1. i - 1 - 1 \in 0..h - 1 /\ (i - 1 - 1) + 1 = i - 1
      BY <1>3, <2>2
    <3>2. Line(i)' = que'.cmd.buffer[Place(que'.cmd, i - 1 - 1)]
      BY <1>4, <2>2 DEF Line
    <3>3. Place(que'.cmd, i - 1 - 1) = Place(que.cmd, i - 1)
      BY <1>3, <3>1
    <3>4. QED
      BY <1>3, <2>0, <3>2, <3>3
  <2>3. QED
    BY <2>1, <2>2
<1>6. LineOK'
  BY <1>4, <1>5, CommandsConstant DEF RingsOK, LineOK, Follows
<1>7. QED
  BY <1>3, <1>4, <1>5, <1>6

\* TxHandle: the line loses its first.
LEMMA LineAfterHandle ==
    ASSUME RingsOK, ControlOK, TxHandle
    PROVE  /\ RingsOK' /\ OnWay \in Nat /\ OnWay > 0 /\ OnWay' = OnWay - 1 /\ Line(1) = tx.item
           /\ \A i \in 1..OnWay - 1 : Line(i)' = Line(i + 1)
           /\ tx.item # TxExit => /\ Len(sent) < Len(accepted)
                                  /\ tx.item = accepted[Len(sent) + 1]
<1>1. /\ UNCHANGED <<que, push, event, accepted>> /\ tx.pc = "handle" /\ tx'.pc = "wait"
  BY DEF TxHandle, queVars, evtVars
<1>2. \A k \in Queues : Held(k)' = Held(k) /\ Storing(k)' = Storing(k) /\ Held(k) \in Nat
  BY <1>1, StoringKept, CountsAreNat DEF Held, Fetching, RingsOK
<1>3. RingOK' /\ CountOK'
  BY <1>1, <1>2 DEF RingsOK, RingOK, CountOK, Place
<1>4. InHand = 1 /\ InHand' = 0 /\ OnWay \in Nat /\ OnWay > 0 /\ OnWay' = OnWay - 1
  BY <1>1, <1>2 DEF InHand, OnWay, Queues
<1>5. Line(1) = tx.item
  BY <1>4 DEF Line
<1>6. \A i \in 1..OnWay - 1 : Line(i)' = Line(i + 1)
  <2>. TAKE i \in 1..OnWay - 1
  <2>1. i # 0 /\ i + 1 # 1 /\ i - 1 - 0 = i - 1 /\ (i + 1) - 1 - 1 = i - 1
    BY <1>4
  <2>2. Line(i)' = que.cmd.buffer[Place(que.cmd, i - 1)]
    BY <1>1, <1>4, <2>1 DEF Line, Place
  <2>3. Line(i + 1) = que.cmd.buffer[Place(que.cmd, i - 1)]
    BY <1>4, <2>1 DEF Line
  <2>4. QED
    BY <2>2, <2>3
<1>7. IF Line(1) = TxExit THEN UNCHANGED sent ELSE sent' = Append(sent, Line(1))
  BY <1>5 DEF TxHandle
<1>8. /\ LineOK'
      /\ Line(1) # TxExit => Len(sent) < Len(accepted) /\ Line(1) = accepted[Len(sent) + 1]
  BY <1>1, <1>4, <1>6, <1>7, LineShrinks DEF RingsOK
<1>9. QED
  BY <1>3, <1>4, <1>5, <1>6, <1>8 DEF RingsOK

-----------------------------------------------------------------------------
(* Every step.                                                              *)

Ending == {"join_tx", "exit_evt", "delete", "forget", "join_evt", "off_again"}
QueueInv == RingsOK /\ PushOK /\ ExitOnce

\* A step that leaves queues, Pushes and TX alone; the owner may go on when it is in no
\* Push.
LEMMA QuietStep ==
    ASSUME QueueInv, UNCHANGED RingVars, UNCHANGED push,
           event'.pc = "fetch" <=> event.pc = "fetch",
           \/ UNCHANGED owner
           \/ push["owner"].pc = "no" /\ (owner \in Ending => owner' \in Ending)
    PROVE  QueueInv'
<1>1. RingsOK'
  BY StoringKept, RingsKept DEF QueueInv
<1>2. PushOK'
  BY CommandsConstant DEF QueueInv, PushOK
<1>3. OnWay' = OnWay /\ \A i : Line(i)' = Line(i)
  BY LineKept
<1>4. ExitOnce'
  BY <1>3 DEF QueueInv, ExitOnce, Ending
<1>5. QED
  BY <1>1, <1>2, <1>4 DEF QueueInv

\* A step that begins a Push.
LEMMA BeginningStep ==
    ASSUME QueueInv, UNCHANGED RingVars, UNCHANGED event, NEW p \in Pushing, NEW x,
           NEW n \in Queues,
           push[p].pc = "no", push' = [push EXCEPT ![p] = Pushes(x, n)],
           \/ p # "owner" /\ UNCHANGED owner /\ (n = "cmd" => x \in Commands)
           \/ /\ p = "owner" /\ owner = "exit_log" /\ owner' = "join_log"
              /\ x = LogExit /\ n = "cmd"
           \/ /\ p = "owner" /\ owner = "exit_tx" /\ owner' = "join_tx"
              /\ x = TxExit /\ n = "cmd"
           \/ /\ p = "owner" /\ owner = "exit_evt" /\ owner' = "delete" /\ n = "evt"
    PROVE  QueueInv'
<1>1. RingsOK'
  <2>1. \A k \in Queues : Storing(k)' = Storing(k)
    BY StoringAfterBegin DEF QueueInv
  <2>2. QED
    BY <2>1, RingsKept DEF QueueInv
<1>2. PushOK'
  <2>1. n = "cmd" => x \in IF p = "owner" THEN AllCommands ELSE Commands
    BY DEF AllCommands, Commands
  <2>2. IF p = "owner" THEN owner' \in {"join_log", "join_tx", "delete"} ELSE owner' = owner
    OBVIOUS
  <2>3. QED
    BY <2>1, <2>2, PushAfterBegin DEF QueueInv
<1>3. OnWay' = OnWay /\ \A i : Line(i)' = Line(i)
  BY LineKept
<1>4. /\ push'[p] = [pc |-> "space", item |-> x, queue |-> n]
      /\ \A r \in Pushing \ {p} : push'[r] = push[r]
  BY DEF QueueInv, PushOK, Pushes
<1>5. ExitOnce'
  <2>1. CASE p # "owner"
    <3>1. push'["owner"] = push["owner"]
      BY <1>4, <2>1 DEF Pushing, Senders
    <3>2. QED
      BY <1>3, <2>1, <3>1 DEF QueueInv, ExitOnce
  <2>2. CASE p = "owner" /\ owner = "exit_log"
    <3>1. push'["owner"].item # TxExit
      BY <1>4, <2>2, CommandsAreNotExit
    <3>2. \A i \in 1..OnWay : Line(i) # TxExit
      BY <2>2 DEF QueueInv, ExitOnce
    <3>3. QED
      BY <1>3, <3>1, <3>2 DEF ExitOnce
  <2>3. CASE p = "owner" /\ owner = "exit_tx"
    <3>1. \A i \in 1..OnWay : Line(i) # TxExit
      BY <2>3 DEF QueueInv, ExitOnce
    <3>2. QED
      BY <1>3, <2>3, <3>1 DEF ExitOnce
  <2>4. CASE p = "owner" /\ owner = "exit_evt"
    <3>1. push'["owner"].queue = "evt" /\ owner' = "delete"
      BY <1>4, <2>4
    <3>2. QED
      BY <1>3, <3>1 DEF ExitOnce
  <2>5. QED
    BY <2>1, <2>2, <2>3, <2>4
<1>6. QED
  BY <1>1, <1>2, <1>5 DEF QueueInv

\* A step of a Push.
LEMMA PushStepKeeps ==
    ASSUME QueueInv, NEW p \in Pushing, PushStep(p)
    PROVE  QueueInv'
<1>1. UNCHANGED <<owner, tx, event, sent>>
  BY DEF PushStep, ownVars, outVars, evtVars
<1>2. PICK n \in Queues : n = push[p].queue
  BY DEF QueueInv, PushOK
<1>3. CASE PushClaim(p)
  <2>1. RingsOK' /\ OnWay' = OnWay /\ \A i : Line(i)' = Line(i)
    BY <1>1, <1>2, <1>3, ClaimKeeps DEF QueueInv
  <2>2. /\ push' = [r \in Pushing |-> push'[r]]
        /\ push'[p] = [pc |-> "store", item |-> push[p].item, queue |-> push[p].queue]
        /\ push[p].pc = "space" /\ \A r \in Pushing \ {p} : push'[r] = push[r]
    BY <1>3 DEF PushClaim, QueueInv, PushOK
  <2>3. \A r \in Pushing : /\ push'[r].item = push[r].item /\ push'[r].queue = push[r].queue
                           /\ push'[r].pc # "no" <=> push[r].pc # "no"
                           /\ push'[r].pc \in {"no", "space", "store"}
                           /\ push'[r] = [pc |-> push'[r].pc, item |-> push'[r].item,
                                          queue |-> push'[r].queue]
    <3>. TAKE r \in Pushing
    <3>1. CASE r = p
      BY <2>2, <3>1
    <3>2. CASE r # p
      <4>1. push'[r] = push[r]
        BY <2>2, <3>2
      <4>2. QED
        BY <4>1 DEF QueueInv, PushOK
    <3>3. QED
      BY <3>1, <3>2
  <2>4. "owner" \in Pushing
    BY DEF Pushing, Senders
  <2>5. PushOK'
    BY <1>1, <2>2, <2>3, <2>4, CommandsConstant DEF QueueInv, PushOK
  <2>6. ExitOnce'
    BY <1>1, <2>1, <2>3, <2>4 DEF QueueInv, ExitOnce
  <2>7. QED
    BY <2>1, <2>5, <2>6 DEF QueueInv
<1>4. CASE PushStore(p)
  <2>1. PICK h : h = Held(n)
    OBVIOUS
  <2>2. /\ RingOK' /\ CountOK'
        /\ \A k \in Queues \ {n} : Held(k)' = Held(k) /\ que'[k] = que[k]
    BY <1>1, <1>2, <1>4, <2>1, StoreKeeps DEF QueueInv
  <2>3. /\ push' = [r \in Pushing |-> push'[r]] /\ push'[p] = Resting /\ push[p].pc = "store"
        /\ \A r \in Pushing \ {p} : push'[r] = push[r]
    BY <1>4 DEF PushStore, QueueInv, PushOK
  <2>4. Resting.pc = "no" /\ Resting.queue \in Queues
        /\ Resting = [pc |-> Resting.pc, item |-> Resting.item, queue |-> Resting.queue]
    BY DEF Resting, Queues
  <2>5. "owner" \in Pushing
    BY DEF Pushing, Senders
  <2>6. \A r \in Pushing :
          /\ push'[r] = [pc |-> push'[r].pc, item |-> push'[r].item, queue |-> push'[r].queue]
          /\ push'[r].pc \in {"no", "space", "store"} /\ push'[r].queue \in Queues
          /\ push'[r].pc # "no" => r # p /\ push'[r] = push[r]
    <3>. TAKE r \in Pushing
    <3>1. CASE r = p
      BY <2>3, <2>4, <3>1
    <3>2. CASE r # p
      <4>1. push'[r] = push[r]
        BY <2>3, <3>2
      <4>2. QED
        BY <3>2, <4>1 DEF QueueInv, PushOK
    <3>3. QED
      BY <3>1, <3>2
  <2>7. PushOK'
    BY <1>1, <2>3, <2>5, <2>6, CommandsConstant DEF QueueInv, PushOK
  <2>8. CASE n = "cmd"
    <3>1. PICK m : m = OnWay
      OBVIOUS
    <3>2. /\ LineOK' /\ m \in Nat /\ OnWay' = m + 1
          /\ \A i \in 1..m : Line(i)' = Line(i)
          /\ Line(m + 1)' = push[p].item
      BY <1>1, <1>2, <1>4, <2>8, <3>1, LineAfterStore DEF QueueInv
    <3>3. push[p].item = TxExit => p = "owner"
      BY <1>2, <2>3, <2>8, CommandsAreNotExit DEF QueueInv, PushOK
    <3>4. push[p].item = TxExit => owner = "join_tx" /\ \A i \in 1..m : Line(i) # TxExit
      BY <1>2, <2>3, <2>8, <3>1, <3>3 DEF QueueInv, ExitOnce
    <3>5. (\E i \in 1..OnWay' : Line(i)' = TxExit) =>
             push[p].item = TxExit \/ \E i \in 1..m : Line(i) = TxExit
      <4>. SUFFICES ASSUME NEW i \in 1..m + 1, Line(i)' = TxExit
                    PROVE  push[p].item = TxExit \/ \E j \in 1..m : Line(j) = TxExit
        BY <3>2
      <4>1. CASE i = m + 1
        BY <3>2, <4>1
      <4>2. CASE i \in 1..m
        BY <3>2, <4>2
      <4>3. QED
        BY <3>2, <4>1, <4>2
    <3>6. (\E i \in 1..OnWay' : Line(i)' = TxExit) => owner' \in Ending
      BY <1>1, <3>1, <3>4, <3>5 DEF QueueInv, ExitOnce, Ending
    <3>. DEFINE exits == /\ push'["owner"].pc # "no" /\ push'["owner"].queue = "cmd"
                         /\ push'["owner"].item = TxExit
    <3>7. exits => owner' = "join_tx" /\ \A i \in 1..OnWay' : Line(i)' # TxExit
      <4>1. exits => p # "owner" /\ push'["owner"] = push["owner"]
        BY <2>5, <2>6
      <4>2. exits => owner = "join_tx" /\ \A i \in 1..m : Line(i) # TxExit
        BY <3>1, <4>1 DEF QueueInv, ExitOnce
      <4>. HIDE DEF exits
      <4>3. QED
        BY <1>1, <3>3, <3>5, <4>1, <4>2
    <3>8. ExitOnce'
      BY <3>6, <3>7 DEF ExitOnce, Ending
    <3>9. QED
      BY <2>2, <2>7, <3>2, <3>8 DEF QueueInv, RingsOK
  <2>9. CASE n # "cmd"
    <3>1. que'["cmd"] = que["cmd"] /\ Held("cmd")' = Held("cmd") /\ UNCHANGED accepted
      BY <1>2, <1>4, <2>2, <2>9 DEF Queues, PushStore
    <3>2. OnWay' = OnWay /\ (\A i : Line(i)' = Line(i)) /\ LineOK'
      BY <1>1, <3>1, LineKeptByEvents DEF QueueInv, RingsOK
    <3>3. push'["owner"].pc # "no" => push'["owner"] = push["owner"]
      BY <2>5, <2>6
    <3>4. ExitOnce'
      BY <1>1, <3>2, <3>3 DEF QueueInv, ExitOnce
    <3>5. QED
      BY <2>2, <2>7, <3>2, <3>4 DEF QueueInv, RingsOK
  <2>10. QED
    BY <2>8, <2>9
<1>5. QED
  BY <1>3, <1>4 DEF PushStep

\* A step of TX.
LEMMA TransportKeeps ==
    ASSUME QueueInv, ControlOK, Transport
    PROVE  QueueInv'
<1>1. CASE TxCrash \/ LogEnds
  <2>1. UNCHANGED RingVars /\ UNCHANGED <<push, event, owner>>
    BY <1>1 DEF TxCrash, LogEnds, RingVars, ownVars, queVars, outVars, evtVars
  <2>2. QED
    BY <2>1, QuietStep
<1>2. CASE TxPop
  <2>1. UNCHANGED <<push, event, owner, accepted, sent>>
    BY <1>2 DEF TxPop, ownVars, evtVars
  <2>2. PushOK'
    BY <2>1, CommandsConstant DEF QueueInv, PushOK
  <2>3. CASE TxClaim
    <3>1. /\ "cmd" \in Queues /\ MayFetch(que["cmd"])
          /\ que' = [que EXCEPT !["cmd"] = ClaimData(que["cmd"])]
          /\ ~Fetching("cmd") /\ Fetching("cmd")'
          /\ \A k \in Queues \ {"cmd"} : Fetching(k)' <=> Fetching(k)
      BY <2>1, <2>3 DEF Queues, TxClaim, Fetching, ControlOK
    <3>2. /\ RingOK' /\ CountOK' /\ Held("cmd")' = Held("cmd")
          /\ que'.cmd.buffer = que.cmd.buffer /\ que'.cmd.out_pos = que.cmd.out_pos
      BY <2>1, <3>1, ConsumerClaims DEF QueueInv
    <3>3. InHand = 0 /\ InHand' = 0 /\ OnWay' = OnWay
      BY <2>3, <3>2 DEF InHand, OnWay, TxClaim, ControlOK
    <3>4. \A i \in 1..OnWay : Line(i)' = Line(i)
      BY <3>2, <3>3 DEF Line, Place
    <3>5. LineOK'
      BY <2>1, <3>3, <3>4, CommandsConstant DEF QueueInv, RingsOK, LineOK, Follows
    <3>6. ExitOnce'
      BY <2>1, <3>3, <3>4 DEF QueueInv, ExitOnce
    <3>7. QED
      BY <2>2, <3>2, <3>5, <3>6 DEF QueueInv, RingsOK
  <2>4. CASE TxFetch
    <3>1. RingOK' /\ CountOK' /\ LineOK' /\ OnWay' = OnWay
          /\ \A i \in 1..OnWay : Line(i)' = Line(i)
      BY <2>1, <2>4, LineAfterFetch DEF QueueInv
    <3>2. ExitOnce'
      BY <2>1, <3>1 DEF QueueInv, ExitOnce
    <3>3. QED
      BY <2>2, <3>1, <3>2 DEF QueueInv, RingsOK
  <2>5. QED
    BY <1>2, <2>3, <2>4 DEF TxPop
<1>3. CASE TxHandle
  <2>1. UNCHANGED <<push, owner>>
    BY <1>3 DEF TxHandle, queVars
  <2>2. PushOK'
    BY <2>1, CommandsConstant DEF QueueInv, PushOK
  <2>3. /\ RingsOK' /\ OnWay \in Nat /\ OnWay > 0 /\ OnWay' = OnWay - 1
        /\ \A i \in 1..OnWay - 1 : Line(i)' = Line(i + 1)
    BY <1>3, LineAfterHandle DEF QueueInv
  <2>4. \A i \in 1..OnWay' : i + 1 \in 1..OnWay /\ Line(i)' = Line(i + 1)
    BY <2>3
  <2>5. ExitOnce'
    BY <2>1, <2>4 DEF QueueInv, ExitOnce
  <2>6. QED
    BY <2>2, <2>3, <2>5 DEF QueueInv
<1>4. QED
  BY <1>1, <1>2, <1>3 DEF Transport

\* A step of RX.
LEMMA ReaderKeeps ==
    ASSUME QueueInv, Reader
    PROVE  QueueInv'
<1>1. CASE RxStop \/ RxHeader \/ RxBeginData \/ RxData \/ RxDoubleDelete
  <2>1. UNCHANGED RingVars /\ UNCHANGED <<push, event, owner>>
    BY <1>1 DEF RxStop, RxHeader, RxBeginData, RxData, RxDoubleDelete, RingVars, ownVars, queVars,
                outVars, evtVars
  <2>2. QED
    BY <2>1, QuietStep
<1>2. "rx" \in Pushing /\ "evt" \in Queues
  BY DEF Pushing, Queues
<1>3. CASE RxPortGone
  <2>1. /\ UNCHANGED RingVars /\ UNCHANGED <<event, owner>> /\ push["rx"].pc = "no"
        /\ push' = [push EXCEPT !["rx"] = Pushes(PortClose, "evt")]
    BY <1>3 DEF RxPortGone, RxRuns, RingVars, ownVars, outVars, evtVars
  <2>2. QED
    BY <1>2, <2>1, BeginningStep
<1>4. CASE RxPacket
  <2>1. /\ UNCHANGED RingVars /\ UNCHANGED <<event, owner>> /\ push["rx"].pc = "no"
        /\ \/ UNCHANGED push
           \/ push' = [push EXCEPT !["rx"] = Pushes(Packet(rx.bytes), "evt")]
    BY <1>4 DEF RxPacket, RxRuns, RingVars, ownVars, outVars, evtVars
  <2>2. CASE UNCHANGED push
    BY <2>1, <2>2, QuietStep
  <2>3. CASE push' = [push EXCEPT !["rx"] = Pushes(Packet(rx.bytes), "evt")]
    BY <1>2, <2>1, <2>3, BeginningStep
  <2>4. QED
    BY <2>1, <2>2, <2>3
<1>5. QED
  BY <1>1, <1>3, <1>4 DEF Reader

\* A step of the event thread.
LEMMA EventsKeep ==
    ASSUME QueueInv, ControlOK, Events
    PROVE  QueueInv'
<1>1. CASE EventHandle \/ EventCallback \/ EventHub
  <2>1. /\ UNCHANGED RingVars /\ UNCHANGED <<push, owner>>
        /\ event.pc # "fetch" /\ event'.pc # "fetch"
    BY <1>1, EventGoesOn DEF EventHandle, EventDone, RingVars, queVars, outVars
  <2>2. QED
    BY <2>1, QuietStep
<1>2. CASE EventPop
  <2>1. UNCHANGED <<push, owner, accepted, tx, sent>>
    BY <1>2 DEF EventPop, ownVars, outVars
  <2>2. PushOK'
    BY <2>1, CommandsConstant DEF QueueInv, PushOK
  <2>3. CASE EventLoop
    <3>1. UNCHANGED RingVars /\ event.pc = "loop" /\ event'.pc = "wait"
      BY <2>1, <2>3 DEF EventLoop, RingVars, ControlOK
    <3>2. QED
      BY <2>1, <3>1, QuietStep
  <2>4. CASE EventClaim
    <3>1. /\ "evt" \in Queues /\ MayFetch(que["evt"])
          /\ que' = [que EXCEPT !["evt"] = ClaimData(que["evt"])]
          /\ ~Fetching("evt") /\ Fetching("evt")'
          /\ \A k \in Queues \ {"evt"} : Fetching(k)' <=> Fetching(k)
      BY <2>1, <2>4 DEF Queues, EventClaim, Fetching, ControlOK
    <3>2. RingOK' /\ CountOK' /\ \A k \in Queues : Held(k)' = Held(k)
      BY <2>1, <3>1, ConsumerClaims DEF QueueInv
    <3>3. que'["cmd"] = que["cmd"] /\ Held("cmd")' = Held("cmd")
      BY <3>1, <3>2 DEF QueueInv, RingsOK, RingOK, Queues
    <3>4. OnWay' = OnWay /\ (\A i : Line(i)' = Line(i)) /\ LineOK'
      BY <2>1, <3>3, LineKeptByEvents DEF QueueInv, RingsOK
    <3>5. ExitOnce'
      BY <2>1, <3>4 DEF QueueInv, ExitOnce
    <3>6. QED
      BY <2>2, <3>2, <3>4, <3>5 DEF QueueInv, RingsOK
  <2>5. CASE EventFetch
    <3>0. PICK h : h = Held("evt")
      OBVIOUS
    <3>1. /\ "evt" \in Queues
          /\ que' = [que EXCEPT !["evt"] = Fetch(que["evt"])]
          /\ Fetching("evt") /\ ~Fetching("evt")'
          /\ \A k \in Queues \ {"evt"} : Fetching(k)' <=> Fetching(k)
      BY <2>1, <2>5 DEF Queues, EventFetch, Fetching, ControlOK
    <3>2. RingOK' /\ CountOK'
          /\ \A k \in Queues \ {"evt"} : Held(k)' = Held(k) /\ que'[k] = que[k]
      BY <2>1, <3>0, <3>1, ConsumerFetches DEF QueueInv
    <3>3. que'["cmd"] = que["cmd"] /\ Held("cmd")' = Held("cmd")
      BY <3>2 DEF Queues
    <3>4. OnWay' = OnWay /\ (\A i : Line(i)' = Line(i)) /\ LineOK'
      BY <2>1, <3>3, LineKeptByEvents DEF QueueInv, RingsOK
    <3>5. ExitOnce'
      BY <2>1, <3>4 DEF QueueInv, ExitOnce
    <3>6. QED
      BY <2>2, <3>2, <3>4, <3>5 DEF QueueInv, RingsOK
  <2>6. QED
    BY <1>2, <2>3, <2>4, <2>5 DEF EventPop
<1>3. QED
  BY <1>1, <1>2 DEF Events

\* A step of the callers, the owner, the detecting thread or the dongle.
LEMMA OthersKeep ==
    ASSUME QueueInv, ControlOK,
           \/ \E p \in Senders : BeginPush(p)
           \/ DetectGone \/ DetectStop \/ Transmit \/ Unplug \/ Owner \/ UseAfterDelete
    PROVE  QueueInv'
<1>1. CASE \E p \in Senders : BeginPush(p)
  <2>1. PICK p \in Senders : BeginPush(p)
    BY <1>1
  <2>2. PICK c \in Calls, n \in Payloads \cup {0} :
           push' = [push EXCEPT ![p] = Pushes(Frame(Wrapper[c], n), "cmd")]
    BY <2>1, Zenon DEF BeginPush
  <2>3. Frame(Wrapper[c], n) \in Commands
    BY DEF Commands
  <2>4. p \in Pushing /\ p # "owner" /\ "cmd" \in Queues
    BY Constants DEF Pushing, Queues
  <2>5. UNCHANGED RingVars /\ UNCHANGED <<event, owner>> /\ push[p].pc = "no"
    BY <2>1 DEF BeginPush, RingVars, ownVars, outVars, evtVars
  <2>6. QED
    BY <2>2, <2>3, <2>4, <2>5, BeginningStep
<1>2. CASE DetectGone \/ DetectStop \/ Transmit \/ Unplug \/ UseAfterDelete
  <2>1. UNCHANGED RingVars /\ UNCHANGED <<push, event, owner>>
    BY <1>2 DEF DetectGone, DetectStop, Transmit, Unplug, UseAfterDelete, RingVars, ownVars,
                queVars, outVars, evtVars
  <2>2. QED
    BY <2>1, QuietStep
<1>3. CASE OpenSerialPort \/ Connect \/ CreatePortEvent \/ Callback \/ StopThread
  <2>1. UNCHANGED RingVars /\ UNCHANGED <<push, event>>
    BY <1>3 DEF OpenSerialPort, Connect, CreatePortEvent, Callback, StopThread, RingVars, queVars, outVars,
                evtVars
  <2>2. owner \notin Ending /\ owner \notin {"join_log", "join_tx", "delete"}
    BY <1>3 DEF OpenSerialPort, Connect, CreatePortEvent, Callback, StopThread, Ending
  <2>3. push["owner"].pc = "no"
    BY <2>2 DEF QueueInv, PushOK
  <2>4. QED
    BY <2>1, <2>2, <2>3, QuietStep
<1>4. CASE Join
  <2>1. UNCHANGED RingVars /\ UNCHANGED <<push, event>> /\ push["owner"].pc = "no"
    BY <1>4 DEF Join, RingVars, queVars, outVars, evtVars
  <2>2. owner \in Ending => owner' \in Ending
    BY <1>4 DEF Join, Ending
  <2>3. QED
    BY <2>1, <2>2, QuietStep
<1>5. CASE SendExit
  <2>1. UNCHANGED RingVars /\ UNCHANGED event /\ "owner" \in Pushing
        /\ "cmd" \in Queues /\ "evt" \in Queues
    BY <1>5 DEF SendExit, RingVars, outVars, evtVars, Pushing, Queues
  <2>2. push["owner"].pc = "no"
    BY <1>5 DEF SendExit, QueueInv, PushOK
  <2>3. CASE owner = "exit_log" /\ owner' = "join_log"
               /\ push' = [push EXCEPT !["owner"] = Pushes(LogExit, "cmd")]
    BY <2>1, <2>2, <2>3, BeginningStep
  <2>4. CASE owner = "exit_tx" /\ owner' = "join_tx"
               /\ push' = [push EXCEPT !["owner"] = Pushes(TxExit, "cmd")]
    BY <2>1, <2>2, <2>4, BeginningStep
  <2>5. CASE owner = "exit_evt" /\ owner' = "delete"
               /\ push' = [push EXCEPT !["owner"] = Pushes(EvtExit, "evt")]
    BY <2>1, <2>2, <2>5, BeginningStep
  <2>6. QED
    BY <1>5, <2>3, <2>4, <2>5 DEF SendExit
<1>6. QED
  BY <1>1, <1>2, <1>3, <1>4, <1>5 DEF Owner

-----------------------------------------------------------------------------
(* The types, and the channel.                                              *)

Inv == ControlOK /\ FlagsOK /\ WireOK /\ QueueInv

\* It holds at first ...
LEMMA InvInit == Init => Inv
<1>. SUFFICES ASSUME Init PROVE Inv
  OBVIOUS
<1>1. ControlOK
  BY Constants DEF Init, ControlOK, CommandSet
<1>2. FlagsOK
  BY Zenon DEF Init, FlagsOK
<1>3. WireOK
  BY Constants DEF Init, WireOK
<1>4. PushOK
  <2>1. /\ Resting.pc = "no" /\ Resting.queue \in Queues
        /\ Resting = [pc |-> Resting.pc, item |-> Resting.item, queue |-> Resting.queue]
    BY DEF Resting, Queues
  <2>2. "owner" \in Pushing
    BY DEF Pushing, Senders
  <2>. HIDE DEF Resting
  <2>3. QED
    BY <2>1, <2>2 DEF Init, PushOK
<1>5. RingShape(NewQueue) /\ NewQueue.space_avail = QueueSize /\ NewQueue.data_avail = 0
      /\ NewQueue.in_pos = 0 /\ NewQueue.out_pos = 0
  <2>1. /\ NewQueue = [f \in Fields |-> NewQueue[f]]
        /\ NewQueue.buffer = [i \in 0..QueueSize - 1 |-> NoItem]
        /\ NewQueue.space_avail = QueueSize /\ NewQueue.data_avail = 0
        /\ NewQueue.in_pos = 0 /\ NewQueue.out_pos = 0
    BY DEF NewQueue, Fields
  <2>2. NewQueue.buffer = [i \in 0..QueueSize - 1 |-> NewQueue.buffer[i]]
    BY <2>1
  <2>3. 0 \in 0..QueueSize - 1 /\ QueueSize \in Nat /\ 0 \in Nat
    BY Constants
  <2>. HIDE DEF NewQueue
  <2>4. QED
    BY <2>1, <2>2, <2>3 DEF RingShape
<1>6. RingOK /\ \A k \in Queues : que[k] = NewQueue
  <2>1. que.cmd = NewQueue /\ que.evt = NewQueue /\ que = [cmd |-> que.cmd, evt |-> que.evt]
    BY DEF Init
  <2>2. QED
    BY <1>5, <2>1 DEF RingOK, Queues
<1>7. \A k \in Queues : Held(k) = 0 /\ Cardinality(Storing(k)) = 0
  <2>. TAKE k \in Queues
  <2>1. Storing(k) = {}
    BY DEF Init, Storing, Resting
  <2>2. ~Fetching(k)
    BY DEF Init, Fetching
  <2>3. QED
    BY <1>5, <1>6, <2>1, <2>2, FS_EmptySet DEF Held
<1>8. CountOK
  BY <1>5, <1>6, <1>7, Constants DEF CountOK, Place
<1>9. OnWay = 0
  BY <1>7 DEF OnWay, InHand, Init, Queues
<1>10. LineOK
  <2>1. Follows(1)
    BY <1>9 DEF Follows, Init
  <2>2. QED
    BY <1>9, <2>1 DEF LineOK, Init
<1>11. ExitOnce
  <2>1. push["owner"].pc = "no"
    BY DEF Init, Pushing, Resting
  <2>2. 1..OnWay = {}
    BY <1>9
  <2>3. QED
    BY <2>1, <2>2 DEF ExitOnce
<1>12. QED
  BY <1>1, <1>2, <1>3, <1>4, <1>6, <1>8, <1>10, <1>11 DEF Inv, QueueInv, RingsOK

\* ... and after every step.
LEMMA InvNext == Inv /\ [Next]_vars => Inv'
<1>1. ASSUME Inv, Next PROVE Inv'
  <2>1. ControlOK'
    BY <1>1, ControlQueue, ControlReader, ControlEvents, ControlOwner DEF Inv, Next
  <2>2. FlagsOK' /\ WireOK'
    BY <1>1, FlagsStep, WireStep DEF Inv
  <2>3. QueueInv'
    BY <1>1, PushStepKeeps, TransportKeeps, ReaderKeeps, EventsKeep, OthersKeep DEF Inv, Next
  <2>4. QED
    BY <2>1, <2>2, <2>3 DEF Inv
<1>2. ASSUME Inv, UNCHANGED vars PROVE Inv'
  <2>1. UNCHANGED <<owner, thread, stop, que, push, traffic, accepted, tx, logExit, sent>>
    BY <1>2 DEF vars, ownVars, queVars, outVars
  <2>2. UNCHANGED <<rx, wire, told, event, handled, reported, needCheck, serialPortEvent,
                    plugged, crashed>>
    BY <1>2 DEF vars, inVars, evtVars, portVars
  <2>3. ControlOK' /\ WireOK'
    BY <1>2, <2>1, <2>2 DEF Inv, ControlOK, WireOK, CommandSet
  <2>4. FlagsOK'
    BY <1>2, <2>1, <2>2, Zenon DEF Inv, FlagsOK
  <2>5. QueueInv'
    BY <1>2, <2>1, <2>2, QuietStep DEF Inv, RingVars
  <2>6. QED
    BY <2>3, <2>4, <2>5 DEF Inv
<1>3. QED
  BY <1>1, <1>2

\* So it always holds.
LEMMA Invariance == Spec => []Inv
BY InvInit, InvNext, PTL DEF Spec

\* Every variable keeps its type; the semaphores of each NPI_Queue are never negative and
\* never more than its size together (Push, Pop).
THEOREM TypeCorrect == Spec => []TypeOK
<1>1. Inv => TypeOK
  <2>. SUFFICES ASSUME Inv PROVE TypeOK
    OBVIOUS
  <2>1. \A q \in {"cmd", "evt"} :
          /\ que[q].in_pos \in 0..QueueSize - 1 /\ que[q].out_pos \in 0..QueueSize - 1
          /\ que[q].space_avail >= 0 /\ que[q].data_avail >= 0
          /\ que[q].space_avail + que[q].data_avail <= QueueSize
    <3>. TAKE q \in {"cmd", "evt"}
    <3>1. RingShape(que[q])
      BY DEF Inv, QueueInv, RingsOK, RingOK, Queues
    <3>2. que[q].space_avail + Cardinality(Storing(q)) + Held(q) = QueueSize
      BY DEF Inv, QueueInv, RingsOK, CountOK, Queues
    <3>3. que[q].space_avail \in Nat /\ que[q].data_avail \in Nat
          /\ Cardinality(Storing(q)) \in Nat /\ Held(q) \in Nat
          /\ Held(q) >= que[q].data_avail
      BY <3>1, StoringFinite DEF RingShape, Held
    <3>4. QED
      BY <3>1, <3>2, <3>3, Constants DEF RingShape
  <2>2. \A p \in Pushing : push[p].pc \in {"no", "space", "store"}
    BY DEF Inv, QueueInv, PushOK
  <2>3. {needCheck, logExit, plugged, crashed, reported} \subseteq BOOLEAN
    BY Zenon DEF Inv, FlagsOK
  <2>4. QED
    BY <2>1, <2>2, <2>3 DEF Inv, TypeOK, ControlOK, WireOK
<1>2. QED
  BY <1>1, Invariance, PTL

\* What is stored is taken by the channel, which has room for it.
LEMMA StoreAccepts ==
    ASSUME QueueInv, NEW p \in Pushing, PushStep(p)
    PROVE  (\E x \in Commands : Channel!Accept(x)) \/ UNCHANGED <<accepted, sent>>
<1>1. UNCHANGED <<tx, event, sent>>
  BY DEF PushStep, outVars, evtVars
<1>2. CASE PushClaim(p)
  BY <1>1, <1>2 DEF PushClaim
<1>3. CASE PushStore(p) /\ push[p].queue = "cmd" /\ push[p].item # TxExit
  <2>1. push[p].item \in Commands /\ accepted' = Append(accepted, push[p].item)
    BY <1>3 DEF PushStore, QueueInv, PushOK, AllCommands
  <2>2. PICK h : h = Held("cmd")
    OBVIOUS
  <2>3. h \in 0..QueueSize - 1
    BY <1>1, <1>3, <2>2, StoreKeeps DEF QueueInv, Queues
  <2>4. InHand \in 0..1 /\ OnWay = InHand + h
    BY <2>2 DEF InHand, OnWay
  <2>5. PICK e \in 1..OnWay + 1 : Follows(e)
    BY DEF QueueInv, RingsOK, LineOK
  <2>6. Len(accepted) = Len(sent) + OnWay - IF e <= OnWay THEN 1 ELSE 0
    BY <2>5 DEF Follows
  <2>7. Len(accepted) \in Nat /\ Len(sent) \in Nat
    BY DEF QueueInv, RingsOK, LineOK
  <2>8. Len(accepted) - Len(sent) < QueueSize + 1
    BY <2>3, <2>4, <2>6, <2>7, Constants
  <2>9. QED
    BY <1>1, <2>1, <2>8 DEF Channel!Accept
<1>4. CASE PushStore(p) /\ ~(push[p].queue = "cmd" /\ push[p].item # TxExit)
  BY <1>1, <1>4 DEF PushStore
<1>5. QED
  BY <1>2, <1>3, <1>4 DEF PushStep

\* What TX writes is what the channel sends next.
LEMMA HandleSends ==
    ASSUME QueueInv, ControlOK, TxHandle
    PROVE  Channel!Send \/ UNCHANGED <<accepted, sent>>
<1>1. UNCHANGED accepted
  BY DEF TxHandle, queVars
<1>2. CASE tx.item = TxExit
  BY <1>1, <1>2 DEF TxHandle
<1>3. CASE tx.item # TxExit
  <2>1. Len(sent) < Len(accepted) /\ tx.item = accepted[Len(sent) + 1]
    BY <1>3, LineAfterHandle DEF QueueInv
  <2>2. sent' = Append(sent, tx.item)
    BY <1>3 DEF TxHandle
  <2>3. QED
    BY <1>1, <2>1, <2>2 DEF Channel!Send
<1>4. QED
  BY <1>2, <1>3

\* The commands of any number of threads go out to the port once each, in the order of the
\* queue, and never more than fit wait (NPI_Queue::Push and Pop over every interleaving of
\* their semaphores, NPI_TX::Run): the transport implements OrderedChannel.
THEOREM Refinement == Spec => ImplementsChannel
<1>1. Init => Channel!Init
  BY DEF Init, Channel!Init
<1>2. Inv /\ [Next]_vars => [Channel!Next]_(Channel!vars)
  <2>. SUFFICES ASSUME Inv, [Next]_vars
                PROVE  Channel!Next \/ UNCHANGED <<accepted, sent>>
    BY DEF Channel!vars
  <2>1. CASE \E p \in Pushing : PushStep(p)
    BY <2>1, StoreAccepts DEF Inv, Channel!Next
  <2>2. CASE TxHandle
    BY <2>2, HandleSends DEF Inv, Channel!Next
  <2>3. CASE (\E p \in Senders : BeginPush(p)) \/ TxPop \/ TxCrash \/ LogEnds
    BY <2>3 DEF BeginPush, TxPop, TxCrash, LogEnds, queVars, outVars
  <2>4. CASE Reader
    BY <2>4 DEF Reader, RxStop, RxPortGone, RxHeader, RxBeginData, RxData, RxPacket,
                RxDoubleDelete, queVars, outVars
  <2>5. CASE Events
    BY <2>5, EventGoesOn DEF Events, EventPop, EventHandle, queVars, outVars
  <2>6. CASE DetectGone \/ DetectStop \/ Transmit \/ Unplug \/ UseAfterDelete
    BY <2>6 DEF DetectGone, DetectStop, Transmit, Unplug, UseAfterDelete, queVars, outVars
  <2>7. CASE Owner
    BY <2>7 DEF Owner, OpenSerialPort, Connect, CreatePortEvent, Callback, StopThread, SendExit, Join,
                queVars, outVars
  <2>8. CASE UNCHANGED vars
    BY <2>8 DEF vars, queVars, outVars
  <2>9. QED
    BY <2>1, <2>2, <2>3, <2>4, <2>5, <2>6, <2>7, <2>8 DEF Next, Transport
<1>3. QED
  BY <1>1, <1>2, Invariance, PTL DEF Spec, ImplementsChannel, Channel!Spec

-----------------------------------------------------------------------------
(* What the builders make of the SDK's calls.                               *)

\* The builders the SDK calls, but for the write.
PlainNames ==
    {"GAP_DeviceInit", "GAP_DeviceDiscoveryRequest", "GAP_DeviceDiscoveryCancel",
     "GAP_EstablishLinkRequest", "GAP_TerminateLinkRequest", "GAP_Authenticate",
     "GAP_Bond", "GATT_ExchangeMTU", "L2CAP_ConnParamUpdateReq",
     "GATT_DiscAllPrimaryServices", "GATT_FindIncludedServices", "GATT_DiscAllChar",
     "GATT_ReadCharVal", "GATT_ReadLongCharValue", "GATT_DiscAllCharDesc"}

\* Plain(b): it makes a short command of a fixed length.
Plain(b) == \E k \in 0..38 : b = Fixed(k)

\* In every table, what has the name of one of them is plain.
LEMMA PlainInTables ==
    \A t \in BuilderTables, s \in PlainNames : s \in DOMAIN t => Plain(t[s])
<1>1. \A s \in PlainNames : s \notin DOMAIN HciExtRadio /\ s \notin DOMAIN HciExtSettings
  BY DEF PlainNames, HciExtRadio, HciExtSettings
<1>2. \A s \in PlainNames : s \in DOMAIN ExtAndL2cap => Plain(ExtAndL2cap[s])
  <2>1. \A s \in PlainNames : s \in DOMAIN ExtAndL2cap => s = "L2CAP_ConnParamUpdateReq"
    BY DEF PlainNames, ExtAndL2cap
  <2>2. ExtAndL2cap["L2CAP_ConnParamUpdateReq"] = Fixed(10)
    BY DEF ExtAndL2cap
  <2>3. QED
    BY <2>1, <2>2 DEF Plain
<1>3. \A s \in PlainNames : s \notin DOMAIN L2capAndAtt
  BY DEF PlainNames, L2capAndAtt
<1>4. \A s \in PlainNames : s \in DOMAIN AttRequests => Plain(AttRequests[s])
  <2>1. \A s \in PlainNames : s \in DOMAIN AttRequests => s = "GATT_ExchangeMTU"
    BY DEF PlainNames, AttRequests
  <2>2. AttRequests["GATT_ExchangeMTU"] = Fixed(4)
    BY DEF AttRequests
  <2>3. QED
    BY <2>1, <2>2 DEF Plain
<1>5. \A s \in PlainNames : s \in DOMAIN GattDiscoveries => Plain(GattDiscoveries[s])
  <2>1. \A s \in PlainNames : s \in DOMAIN GattDiscoveries =>
           s \in {"GATT_DiscAllPrimaryServices", "GATT_FindIncludedServices",
                  "GATT_DiscAllChar", "GATT_DiscAllCharDesc", "GATT_ReadCharVal"}
    BY DEF PlainNames, GattDiscoveries
  <2>2. /\ GattDiscoveries["GATT_DiscAllPrimaryServices"] = Fixed(2)
        /\ GattDiscoveries["GATT_FindIncludedServices"] = Fixed(6)
        /\ GattDiscoveries["GATT_DiscAllChar"] = Fixed(6)
        /\ GattDiscoveries["GATT_DiscAllCharDesc"] = Fixed(6)
        /\ GattDiscoveries["GATT_ReadCharVal"] = Fixed(4)
    BY DEF GattDiscoveries
  <2>3. QED
    BY <2>1, <2>2 DEF Plain
<1>6. \A s \in PlainNames : s \in DOMAIN GattAccesses => Plain(GattAccesses[s])
  <2>1. \A s \in PlainNames : s \in DOMAIN GattAccesses => s = "GATT_ReadLongCharValue"
    BY DEF PlainNames, GattAccesses
  <2>2. GattAccesses["GATT_ReadLongCharValue"] = Fixed(6)
    BY DEF GattAccesses
  <2>3. QED
    BY <2>1, <2>2 DEF Plain
<1>7. \A s \in PlainNames : s \in DOMAIN ServerAndGap => Plain(ServerAndGap[s])
  <2>1. \A s \in PlainNames : s \in DOMAIN ServerAndGap =>
           s \in {"GAP_DeviceInit", "GAP_DeviceDiscoveryRequest", "GAP_DeviceDiscoveryCancel"}
    BY DEF PlainNames, ServerAndGap
  <2>2. /\ ServerAndGap["GAP_DeviceInit"] = Fixed(38)
        /\ ServerAndGap["GAP_DeviceDiscoveryRequest"] = Fixed(3)
        /\ ServerAndGap["GAP_DeviceDiscoveryCancel"] = Fixed(0)
    BY DEF ServerAndGap
  <2>3. QED
    BY <2>1, <2>2 DEF Plain
<1>8. \A s \in PlainNames : s \in DOMAIN GapLinks => Plain(GapLinks[s])
  <2>1. \A s \in PlainNames : s \in DOMAIN GapLinks =>
           s \in {"GAP_EstablishLinkRequest", "GAP_TerminateLinkRequest", "GAP_Authenticate"}
    BY DEF PlainNames, GapLinks
  <2>2. /\ GapLinks["GAP_EstablishLinkRequest"] = Fixed(9)
        /\ GapLinks["GAP_TerminateLinkRequest"] = Fixed(3)
        /\ GapLinks["GAP_Authenticate"] = Fixed(29)
    BY DEF GapLinks
  <2>3. QED
    BY <2>1, <2>2 DEF Plain
<1>9. \A s \in PlainNames : s \in DOMAIN GapBonds => Plain(GapBonds[s])
  <2>1. \A s \in PlainNames : s \in DOMAIN GapBonds => s = "GAP_Bond"
    BY DEF PlainNames, GapBonds
  <2>2. GapBonds["GAP_Bond"] = Fixed(30)
    BY DEF GapBonds
  <2>3. QED
    BY <2>1, <2>2 DEF Plain
<1>10. \A s \in PlainNames : s \notin DOMAIN UtilAndHci /\ s \notin DOMAIN HciLowEnergy
  BY DEF PlainNames, UtilAndHci, HciLowEnergy
<1>11. QED
  BY <1>1, <1>2, <1>3, <1>4, <1>5, <1>6, <1>7, <1>8, <1>9, <1>10, Zenon DEF BuilderTables

\* The write is in one table only.
LEMMA WriteInTables ==
    \A t \in BuilderTables :
       "GATT_WriteCharValue" \in DOMAIN t => t["GATT_WriteCharValue"] = WithData(4)
<1>. DEFINE s == "GATT_WriteCharValue"
<1>1. s \notin DOMAIN HciExtRadio /\ s \notin DOMAIN HciExtSettings
  BY DEF HciExtRadio, HciExtSettings
<1>2. s \notin DOMAIN ExtAndL2cap /\ s \notin DOMAIN L2capAndAtt /\ s \notin DOMAIN AttRequests
  BY DEF ExtAndL2cap, L2capAndAtt, AttRequests
<1>3. s \notin DOMAIN GattDiscoveries /\ GattAccesses[s] = WithData(4)
  BY DEF GattDiscoveries, GattAccesses
<1>4. s \notin DOMAIN ServerAndGap /\ s \notin DOMAIN GapLinks /\ s \notin DOMAIN GapBonds
  BY DEF ServerAndGap, GapLinks, GapBonds
<1>5. s \notin DOMAIN UtilAndHci /\ s \notin DOMAIN HciLowEnergy
  BY DEF UtilAndHci, HciLowEnergy
<1>. HIDE DEF s
<1>6. \A t \in BuilderTables : s \in DOMAIN t => t[s] = WithData(4)
  BY <1>1, <1>2, <1>3, <1>4, <1>5, Zenon DEF BuilderTables
<1>7. QED
  BY <1>6 DEF s

\* What the wrappers call.
LEMMA WrapperCalls ==
    \A c \in DOMAIN Wrapper : Wrapper[c] \in PlainNames \cup {"GATT_WriteCharValue"}
<1>1. \A c \in DOMAIN HubWrapper : HubWrapper[c] \in PlainNames
  BY DEF HubWrapper, PlainNames
<1>2. \A c \in DOMAIN DeviceWrapper :
         DeviceWrapper[c] \in PlainNames \cup {"GATT_WriteCharValue"}
  BY DEF DeviceWrapper, PlainNames
<1>3. \A c \in DOMAIN Wrapper :
         \/ Wrapper[c] = HubWrapper[c] /\ c \in DOMAIN HubWrapper
         \/ Wrapper[c] = DeviceWrapper[c] /\ c \in DOMAIN DeviceWrapper
  BY DEF Wrapper
<1>4. QED
  BY <1>1, <1>2, <1>3

\* Each of these names has a builder.
LEMMA NamesHaveTables ==
    \A s \in PlainNames \cup {"GATT_WriteCharValue"} :
       \E t \in BuilderTables : s \in DOMAIN t
<1>1. "L2CAP_ConnParamUpdateReq" \in DOMAIN ExtAndL2cap
  BY DEF ExtAndL2cap
<1>2. "GATT_ExchangeMTU" \in DOMAIN AttRequests
  BY DEF AttRequests
<1>3. {"GATT_DiscAllPrimaryServices", "GATT_FindIncludedServices", "GATT_DiscAllChar",
       "GATT_DiscAllCharDesc", "GATT_ReadCharVal"} \subseteq DOMAIN GattDiscoveries
  BY DEF GattDiscoveries
<1>4. {"GATT_ReadLongCharValue", "GATT_WriteCharValue"} \subseteq DOMAIN GattAccesses
  BY DEF GattAccesses
<1>5. {"GAP_DeviceInit", "GAP_DeviceDiscoveryRequest", "GAP_DeviceDiscoveryCancel"}
         \subseteq DOMAIN ServerAndGap
  BY DEF ServerAndGap
<1>6. {"GAP_EstablishLinkRequest", "GAP_TerminateLinkRequest", "GAP_Authenticate"}
         \subseteq DOMAIN GapLinks
  BY DEF GapLinks
<1>7. "GAP_Bond" \in DOMAIN GapBonds
  BY DEF GapBonds
<1>8. PlainNames \cup {"GATT_WriteCharValue"} \subseteq
         DOMAIN ExtAndL2cap \cup DOMAIN AttRequests \cup DOMAIN GattDiscoveries
           \cup DOMAIN GattAccesses \cup DOMAIN ServerAndGap \cup DOMAIN GapLinks
           \cup DOMAIN GapBonds
  BY <1>1, <1>2, <1>3, <1>4, <1>5, <1>6, <1>7 DEF PlainNames
<1>9. {ExtAndL2cap, AttRequests, GattDiscoveries, GattAccesses, ServerAndGap, GapLinks,
       GapBonds} \subseteq BuilderTables
  BY Zenon DEF BuilderTables
<1>10. QED
  BY <1>8, <1>9, Zenon

\* The builder of a name comes from a table that has it.
LEMMA BuilderOf ==
    ASSUME NEW s \in PlainNames \cup {"GATT_WriteCharValue"}
    PROVE  IF s \in PlainNames THEN Plain(Builders[s]) ELSE Builders[s] = WithData(4)
<1>1. PICK t \in BuilderTables : s \in DOMAIN t
  BY NamesHaveTables
<1>2. s \in UNION {DOMAIN u : u \in BuilderTables}
  BY <1>1, Zenon
<1>. DEFINE u == CHOOSE v \in BuilderTables : s \in DOMAIN v
<1>3. u \in BuilderTables /\ s \in DOMAIN u
  BY <1>1, Zenon
<1>4. Builders[s] = u[s]
  BY <1>2, Zenon DEF Builders
<1>. HIDE DEF u
<1>5. QED
  BY <1>3, <1>4, PlainInTables, WriteInTables, Zenon

\* A frame by its parts.
LEMMA FrameParts ==
    ASSUME NEW s, NEW n \in Nat
    PROVE  /\ Plain(Builders[s]) => Whole(Frame(s, n)) /\ TotalLen(Frame(s, n)) \in Nat
           /\ Builders[s] = WithData(4) =>
                 n > 119 \/ (Whole(Frame(s, n)) /\ TotalLen(Frame(s, n)) \in Nat)
           /\ Frame(s, n).payload = n
<1>1. CASE Plain(Builders[s])
  <2>1. PICK k \in 0..38 : Builders[s] = Fixed(k)
    BY <1>1 DEF Plain
  <2>2. Frame(s, n) = [name |-> s, payload |-> n, alloc |-> k, len |-> k, fill |-> k]
    BY <2>1 DEF Frame, Fixed
  <2>3. (k + CMD_HEAD_LEN) % 256 = k + 4
    BY DEF CMD_HEAD_LEN
  <2>4. Whole(Frame(s, n)) /\ TotalLen(Frame(s, n)) = k + 4
    BY <2>2, <2>3 DEF Whole, TotalLen
  <2>5. Builders[s] # WithData(4)
    BY <2>1 DEF Fixed, WithData
  <2>6. QED
    BY <1>1, <2>2, <2>4, <2>5
<1>2. CASE Builders[s] = WithData(4) /\ n <= 119
  <2>1. (4 + n) % 256 = 4 + n /\ ((4 + n) + 4) % 256 = n + 8
    BY <1>2
  <2>2. Frame(s, n) = [name |-> s, payload |-> n, alloc |-> 4 + n, len |-> 4 + n, fill |-> 4 + n]
    BY <1>2, <2>1 DEF Frame, WithData
  <2>3. Whole(Frame(s, n)) /\ TotalLen(Frame(s, n)) = n + 8
    BY <1>2, <2>1, <2>2 DEF Whole, TotalLen, CMD_HEAD_LEN
  <2>4. ~Plain(Builders[s])
    BY <1>2 DEF Plain, Fixed, WithData
  <2>5. QED
    BY <1>2, <2>2, <2>3, <2>4
<1>3. Frame(s, n).payload = n
  BY DEF Frame
<1>4. n <= 119 \/ n > 119
  OBVIOUS
<1>5. QED
  BY <1>1, <1>2, <1>3, <1>4

\* The longest payload of a write.
LEMMA MaxPayloadIs == MaxPayload = 119
<1>1. GattAccesses["GATT_WriteCharValue"] = WithData(4)
  BY DEF GattAccesses
<1>2. QED
  BY <1>1 DEF MaxPayload, CMD_HEAD_LEN, WithData

\* Every command of the SDK is whole, and its length is not negative, up to MaxPayload.
LEMMA CommandsWhole ==
    \A x \in AllCommands : /\ Whole(x) \/ x.payload > MaxPayload
                           /\ TotalLen(x) < 0 => x.payload > MaxPayload
<1>1. ASSUME NEW c \in Calls, NEW n \in Payloads \cup {0}
      PROVE  LET x == Frame(Wrapper[c], n)
             IN  x.payload > 119 \/ (Whole(x) /\ TotalLen(x) \in Nat)
  <2>1. n \in Nat /\ Wrapper[c] \in PlainNames \cup {"GATT_WriteCharValue"}
    BY WrapperCalls, NpiTransportAssumption, CallsAssumption
  <2>2. Plain(Builders[Wrapper[c]]) \/ Builders[Wrapper[c]] = WithData(4)
    BY <2>1, BuilderOf
  <2>3. QED
    BY <2>1, <2>2, FrameParts
<1>2. ASSUME NEW s
      PROVE  Whole(Marker(s)) /\ TotalLen(Marker(s)) \in Nat
  BY DEF Marker, Whole, TotalLen, CMD_HEAD_LEN
<1>3. \A x \in AllCommands : x.payload > 119 \/ (Whole(x) /\ TotalLen(x) \in Nat)
  BY <1>1, <1>2 DEF AllCommands, Commands, LogExit, TxExit
<1>4. QED
  BY <1>3, MaxPayloadIs

-----------------------------------------------------------------------------
(* The frames: what is on its way to the event thread, and what RX reads.   *)

Byte == (1..Len(Packets)) \X {"type", "code", "len", "data"}
Markers == {EvtExit, PortClose}
Rank(p) == Cardinality(EventsOf(p))

\* x is the n-th of the events among the first t packets, with its own bytes.
IsEvent(t, x, n) == \E p \in EventsOf(t) : x = Packet(Bytes(p)) /\ Rank(p) = n

\* The packets on their way to the event thread: the one in its hand, then those in
\* the ring.
EvtHand == IF event.pc = "handle" THEN 1 ELSE 0
EvtOnWay == EvtHand + Held("evt")
EvtLine(i) == IF i = EvtHand THEN event.item
                             ELSE que.evt.buffer[Place(que.evt, i - 1 - EvtHand)]
RxHas == IF push["rx"].pc # "no" THEN 1 ELSE 0

Before == {"off", "log", "tx", "rx"}
Starting == Before \cup {"detect", "event"}
Closing == {"exit_log", "join_log", "exit_tx", "join_tx", "exit_evt", "delete",
            "forget", "join_evt", "off_again"}

\* The port event comes late, is set only without a dongle, and RX is started once
\* and gone before the exit packets.
PortOK ==
    /\ ~plugged => wire = <<>>
    /\ serialPortEvent # "null" => owner \notin Starting
    /\ serialPortEvent = "set" => ~plugged
    /\ owner \in Before => thread.rx = "none"
    /\ owner \in Closing => thread.rx = "ended"
    /\ push["rx"].pc # "no" => thread.rx = "run"

\* RX gives no packet to the event queue any more: it has ended, or it has told of the
\* port, with nothing left to read.
RxOver ==
    /\ push["rx"].pc # "no" => push["rx"].item = PortClose
    /\ owner \notin Starting
    /\ \/ thread.rx = "ended"
       \/ /\ serialPortEvent = "closed" /\ ~plugged
          /\ rx.at \in {"others", "data"} => rx.bytes = <<>>

HandledOK ==
    /\ handled \in Seq(Seq(Byte))
    /\ \A i \in 1..Len(handled) : IsEvent(told, Packet(handled[i]), i)

\* The line is the events that follow, then, when RX is through, markers.
Leads(m) ==
    /\ \A i \in 1..m : IsEvent(told, EvtLine(i), Len(handled) + i)
    /\ \A i \in m + 1..EvtOnWay : EvtLine(i) \in Markers
    /\ m < EvtOnWay => RxOver

EvtLineOK == \E m \in 0..EvtOnWay : Leads(m)

EvtPushOK ==
    /\ push["rx"].pc # "no" =>
          /\ push["rx"].queue = "evt"
          /\ \/ push["rx"].item = PortClose /\ RxOver
             \/ IsEvent(told, push["rx"].item, Len(handled) + EvtOnWay + 1)
    /\ push["owner"].pc # "no" /\ push["owner"].queue = "evt" =>
          push["owner"].item = EvtExit /\ RxOver
    /\ \A p \in Senders : push[p].pc # "no" => push[p].queue = "cmd"

\* RX has read the first bytes of packet q ...
Reading(q) ==
    /\ rx.bytes \in Seq(Byte)
    /\ \A j \in 1..Len(rx.bytes) : rx.bytes[j] = Bytes(q)[j]
    /\ rx.at = "type" => Len(rx.bytes) = 0
    /\ rx.at = "code" => Len(rx.bytes) = 1
    /\ rx.at = "len" => Len(rx.bytes) = 2
    /\ rx.at \in {"others", "data"} => /\ Len(rx.bytes) >= 3
                                       /\ rx.remaining = Packets[q].len + 3 - Len(rx.bytes)
    /\ rx.at # "type" => q <= told

\* ... and w, the wire, has the rest of it, without the r bytes read, and the packets
\* after it, to packet t: packet p begins behind place cut[p].
Cuts(q, cut, w, t, r) ==
    /\ cut \in [q..t + 1 -> Int]
    /\ cut[q] + r = 0 /\ cut[t + 1] = Len(w)
    /\ \A p \in q..t : /\ cut[p + 1] = cut[p] + 3 + Packets[p].len
                       /\ cut[p + 1] <= Len(w)
    /\ \A p \in q..t, j \in Nat :
          j \in 1..3 + Packets[p].len /\ cut[p] + j >= 1 => w[cut[p] + j] = Bytes(p)[j]

\* Every event before q is handled or on its way.
Reads(q) ==
    /\ Reading(q)
    /\ Rank(q - 1) = Len(handled) + EvtOnWay + RxHas
    /\ plugged => \E cut : Cuts(q, cut, wire, told, Len(rx.bytes))

RxOK == RxOver \/ \E q \in 1..told + 1 : Reads(q)

\* The bytes of a packet.
LEMMA BytesShape ==
    ASSUME NEW p \in 1..Len(Packets)
    PROVE  /\ Bytes(p) \in Seq(Byte) /\ Packets[p].len \in Nat
           /\ Len(Bytes(p)) = 3 + Packets[p].len
           /\ Bytes(p)[1] = <<p, "type">> /\ Bytes(p)[3] = <<p, "len">>
<1>. DEFINE head == <<<<p, "type">>, <<p, "code">>, <<p, "len">>>>
            data == [i \in 1..Packets[p].len |-> <<p, "data">>]
<1>1. Packets[p].len \in Nat
  BY PacketLength
<1>2. head \in Seq(Byte) /\ Len(head) = 3 /\ head[1] = <<p, "type">> /\ head[3] = <<p, "len">>
  BY DEF Byte
<1>3. data \in Seq(Byte) /\ Len(data) = Packets[p].len
  BY <1>1 DEF Byte
<1>4. Bytes(p) = head \o data
  BY DEF Bytes
<1>. HIDE DEF head, data
<1>5. /\ Len(head \o data) = Len(head) + Len(data)
      /\ \A i \in 1..Len(head) + Len(data) :
            (head \o data)[i] = IF i <= Len(head) THEN head[i] ELSE data[i - Len(head)]
  BY <1>2, <1>3, ConcatProperties
<1>6. 1 \in 1..Len(head) + Len(data) /\ 3 \in 1..Len(head) + Len(data)
  BY <1>1, <1>2, <1>3
<1>7. Bytes(p) \in Seq(Byte)
  BY BytesOfPacket DEF Byte
<1>8. QED
  BY <1>1, <1>2, <1>3, <1>4, <1>5, <1>6, <1>7

\* How many events there are, packet by packet.
LEMMA RankStep ==
    ASSUME NEW n \in Nat
    PROVE  /\ Rank(n) \in Nat
           /\ Rank(n + 1) = Rank(n) + IF Packets[n + 1].type = "event" THEN 1 ELSE 0
<1>1. IsFiniteSet(EventsOf(n)) /\ EventsOf(n) \subseteq 1..n
  <2>1. IsFiniteSet(1..n)
    BY FS_Interval
  <2>2. EventsOf(n) \in SUBSET (1..n)
    BY DEF EventsOf
  <2>3. QED
    BY <2>1, <2>2, FS_Subset
<1>2. n + 1 \notin EventsOf(n)
  BY <1>1
<1>3. Rank(n) \in Nat
  BY <1>1, FS_CardinalityType DEF Rank
<1>4. CASE Packets[n + 1].type = "event"
  <2>1. EventsOf(n + 1) = EventsOf(n) \cup {n + 1}
    BY <1>4 DEF EventsOf
  <2>2. QED
    BY <1>1, <1>2, <1>3, <1>4, <2>1, FS_AddElement DEF Rank
<1>5. CASE Packets[n + 1].type # "event"
  <2>1. EventsOf(n + 1) = EventsOf(n)
    BY <1>5 DEF EventsOf
  <2>2. QED
    BY <1>3, <1>5, <2>1 DEF Rank
<1>6. QED
  BY <1>3, <1>4, <1>5

\* Markers are no packets.
LEMMA MarkersAreNot ==
    /\ \A t, x, n : IsEvent(t, x, n) => x \notin Markers /\ x.kind = "packet"
    /\ \A x \in Markers : x.kind # "packet"
    /\ EvtExit # PortClose
<1>1. \A b : Packet(b).kind = "packet"
  BY DEF Packet
<1>2. EvtExit.kind = "HCI_EXIT_PACKET" /\ PortClose.kind = "HCI_PORT_CLOSE_PACKET"
  BY DEF EvtExit, PortClose
<1>3. \A x \in Markers : x.kind # "packet"
  BY <1>2 DEF Markers
<1>4. \A t, x, n : IsEvent(t, x, n) => x.kind = "packet"
  BY <1>1 DEF IsEvent
<1>5. QED
  BY <1>2, <1>3, <1>4

\* An event stays one as the dongle sends more.
LEMMA EventStays ==
    ASSUME NEW t \in Nat, NEW u \in Nat, t <= u
    PROVE  \A x, n : IsEvent(t, x, n) => IsEvent(u, x, n)
<1>1. EventsOf(t) \subseteq EventsOf(u)
  BY DEF EventsOf
<1>2. QED
  BY <1>1 DEF IsEvent

-----------------------------------------------------------------------------
(* The port and RX.                                                         *)

\* Every step keeps PortOK.
LEMMA PortStep ==
    ASSUME PortOK, PushOK, ControlOK, Next
    PROVE  PortOK'
<1>0. "rx" \in Pushing /\ "rx" \notin Senders /\ "rx" # "owner"
  BY Constants DEF Pushing, Senders
<1>1. CASE \E p \in Senders : BeginPush(p)
  <2>1. push'["rx"] = push["rx"]
    BY <1>0, <1>1 DEF BeginPush, PushOK
  <2>2. QED
    BY <1>1, <2>1 DEF PortOK, BeginPush, ownVars, inVars, portVars
<1>2. CASE \E p \in Pushing : PushStep(p)
  <2>1. push'["rx"].pc # "no" => push["rx"].pc # "no"
    BY <1>0, <1>2 DEF PushStep, PushClaim, PushStore, PushOK, Resting
  <2>2. QED
    BY <1>2, <2>1 DEF PortOK, PushStep, ownVars, inVars, portVars
<1>3. CASE TxPop \/ TxCrash \/ UseAfterDelete \/ EventPop
  BY <1>3 DEF PortOK, TxPop, TxCrash, UseAfterDelete, EventPop, ownVars, queVars, inVars, portVars
<1>4. CASE TxHandle \/ LogEnds \/ EventHandle \/ EventCallback \/ EventHub \/ DetectStop
  <2>1. thread'.rx = thread.rx
    BY <1>4 DEF TxHandle, LogEnds, EventHandle, EventCallback, EventHub, EventDone, DetectStop,
                ControlOK, Threads
  <2>2. UNCHANGED <<owner, push, wire, plugged, serialPortEvent>>
    BY <1>4, EventGoesOn DEF TxHandle, LogEnds, EventHandle, DetectStop, queVars, inVars, portVars
  <2>3. QED
    BY <2>1, <2>2 DEF PortOK
<1>5. CASE RxStop
  <2>1. thread'.rx = "ended"
    BY <1>5 DEF RxStop, ControlOK, Threads
  <2>2. thread.rx = "run" /\ push["rx"].pc = "no"
    BY <1>5 DEF RxStop, RxRuns
  <2>3. UNCHANGED <<owner, push, wire, plugged, serialPortEvent>>
    BY <1>5 DEF RxStop, queVars, inVars, portVars
  <2>4. QED
    BY <2>1, <2>2, <2>3 DEF PortOK
<1>6. CASE RxPortGone
  BY <1>6 DEF PortOK, RxPortGone, RxRuns, ownVars
<1>7. CASE RxHeader \/ RxData
  <2>1. wire # <<>> /\ UNCHANGED <<owner, thread, push, plugged, serialPortEvent>>
    BY <1>7 DEF RxHeader, RxData, ownVars, queVars, portVars
  <2>2. QED
    BY <2>1 DEF PortOK
<1>8. CASE RxBeginData \/ RxDoubleDelete
  BY <1>8 DEF PortOK, RxBeginData, RxDoubleDelete, ownVars, queVars, portVars
<1>9. CASE RxPacket
  BY <1>9 DEF PortOK, RxPacket, RxRuns, ownVars, portVars
<1>10. CASE DetectGone
  BY <1>10 DEF PortOK, DetectGone, ownVars, queVars, inVars
<1>11. CASE Transmit \/ Unplug
  BY <1>11 DEF PortOK, Transmit, Unplug, ownVars, queVars, portVars
<1>12. CASE OpenSerialPort \/ CreatePortEvent \/ Callback \/ StopThread
  BY <1>12 DEF PortOK, OpenSerialPort, CreatePortEvent, Callback, StopThread, queVars, inVars, portVars,
               Starting, Before, Closing
<1>13. CASE Connect
  <2>1. owner # "rx" => thread'.rx = thread.rx
    BY <1>13 DEF Connect, ControlOK, Threads
  <2>2. owner' \notin Closing /\ (owner' \in Starting => owner \in Starting)
        /\ (owner' \in Before => owner \in Before /\ owner # "rx")
    BY <1>13 DEF Connect, Starting, Before, Closing
  <2>3. UNCHANGED <<push, wire, plugged, serialPortEvent>>
    BY <1>13 DEF Connect, queVars, inVars, portVars
  <2>4. owner = "rx" => push["rx"].pc = "no"
    BY DEF PortOK, Before
  <2>5. QED
    BY <2>1, <2>2, <2>3, <2>4 DEF PortOK
<1>14. CASE SendExit
  <2>1. push'["rx"] = push["rx"]
    BY <1>0, <1>14 DEF SendExit, PushOK
  <2>2. owner \in Closing /\ owner' \in Closing /\ owner' \notin Starting /\ owner' \notin Before
        /\ owner \notin Starting
    BY <1>14 DEF SendExit, Closing, Starting, Before
  <2>3. UNCHANGED <<thread, wire, plugged, serialPortEvent>>
    BY <1>14 DEF SendExit, inVars, portVars
  <2>4. QED
    BY <2>1, <2>2, <2>3 DEF PortOK
<1>15. CASE Join
  <2>1. owner \in Closing /\ owner' \in Closing /\ owner' \notin Starting /\ owner' \notin Before
        /\ owner \notin Starting
    BY <1>15 DEF Join, Closing, Starting, Before
  <2>2. UNCHANGED <<thread, push, wire, plugged, serialPortEvent>>
    BY <1>15 DEF Join, queVars, inVars, portVars
  <2>3. QED
    BY <2>1, <2>2 DEF PortOK
<1>16. QED
  BY <1>1, <1>2, <1>3, <1>4, <1>5, <1>6, <1>7, <1>8, <1>9, <1>10, <1>11, <1>12, <1>13, <1>14,
     <1>15 DEF Next, Transport, Reader, Events, Owner

\* When RX is through, it stays so.
LEMMA OverStays ==
    ASSUME RxOver, PortOK, PushOK, ControlOK, WireOK, Next
    PROVE  RxOver'
<1>0. "rx" \in Pushing /\ "rx" \notin Senders /\ "rx" # "owner"
  BY Constants DEF Pushing, Senders
<1>1. CASE \E p \in Senders : BeginPush(p)
  <2>1. push'["rx"] = push["rx"]
    BY <1>0, <1>1 DEF BeginPush, PushOK
  <2>2. QED
    BY <1>1, <2>1 DEF RxOver, BeginPush, ownVars, inVars, portVars, PortClose
<1>2. CASE \E p \in Pushing : PushStep(p)
  <2>1. push'["rx"].pc # "no" => push["rx"].pc # "no" /\ push'["rx"].item = push["rx"].item
    BY <1>0, <1>2 DEF PushStep, PushClaim, PushStore, PushOK, Resting
  <2>2. UNCHANGED <<owner, thread, rx, plugged, serialPortEvent>>
    BY <1>2 DEF PushStep, ownVars, inVars, portVars
  <2>3. QED
    BY <2>1, <2>2 DEF RxOver, PortClose
<1>3. CASE TxPop \/ TxCrash \/ UseAfterDelete \/ EventPop
  BY <1>3 DEF RxOver, PortClose, TxPop, TxCrash, UseAfterDelete, EventPop, ownVars, queVars, inVars,
              portVars
<1>4. CASE TxHandle \/ LogEnds \/ EventHandle \/ EventCallback \/ EventHub \/ DetectStop
  <2>1. thread'.rx = thread.rx
    BY <1>4 DEF TxHandle, LogEnds, EventHandle, EventCallback, EventHub, EventDone, DetectStop,
                ControlOK, Threads
  <2>2. UNCHANGED <<owner, push, rx, plugged, serialPortEvent>>
    BY <1>4, EventGoesOn DEF TxHandle, LogEnds, EventHandle, DetectStop, queVars, inVars, portVars
  <2>3. QED
    BY <2>1, <2>2 DEF RxOver, PortClose
<1>5. CASE RxStop
  <2>1. thread'.rx = "ended"
    BY <1>5 DEF RxStop, ControlOK, Threads
  <2>2. UNCHANGED <<owner, push>>
    BY <1>5 DEF RxStop, queVars
  <2>3. QED
    BY <2>1, <2>2 DEF RxOver, PortClose
<1>6. CASE RxPortGone
  BY <1>6 DEF RxOver, PortOK, RxPortGone, RxRuns
<1>7. CASE RxHeader \/ RxData
  BY <1>7 DEF RxOver, PortOK, RxHeader, RxData, RxRuns
<1>8. CASE RxBeginData \/ RxDoubleDelete
  <2>1. UNCHANGED <<owner, thread, push, plugged, serialPortEvent>>
    BY <1>8 DEF RxBeginData, RxDoubleDelete, ownVars, queVars, portVars
  <2>2. rx'.at \in {"others", "data"} => rx.at \in {"others", "data"} /\ rx'.bytes = rx.bytes
    BY <1>8 DEF RxBeginData, RxDoubleDelete, WireOK
  <2>3. QED
    BY <2>1, <2>2 DEF RxOver, PortClose
<1>9. CASE RxPacket
  BY <1>9 DEF RxOver, RxPacket, RxRuns
<1>10. CASE DetectGone
  BY <1>10 DEF RxOver, PortClose, DetectGone, ownVars, queVars, inVars
<1>11. CASE Transmit \/ Unplug
  BY <1>11 DEF RxOver, PortClose, Transmit, Unplug, ownVars, queVars, portVars
<1>12. CASE OpenSerialPort \/ CreatePortEvent \/ Callback \/ StopThread
  BY <1>12 DEF RxOver, PortClose, OpenSerialPort, CreatePortEvent, Callback, StopThread, queVars, inVars,
               portVars, Starting, Before
<1>13. CASE Connect
  <2>1. owner # "rx" => thread'.rx = thread.rx
    BY <1>13 DEF Connect, ControlOK, Threads
  <2>2. owner' \notin Starting /\ owner # "rx"
    BY <1>13 DEF RxOver, Connect, Starting, Before
  <2>3. UNCHANGED <<push, rx, plugged, serialPortEvent>>
    BY <1>13 DEF Connect, queVars, inVars, portVars
  <2>4. QED
    BY <2>1, <2>2, <2>3 DEF RxOver, PortClose
<1>14. CASE SendExit
  <2>1. push'["rx"] = push["rx"]
    BY <1>0, <1>14 DEF SendExit, PushOK
  <2>2. owner' \notin Starting
    BY <1>14 DEF SendExit, Starting, Before
  <2>3. UNCHANGED <<thread, rx, plugged, serialPortEvent>>
    BY <1>14 DEF SendExit, inVars, portVars
  <2>4. QED
    BY <2>1, <2>2, <2>3 DEF RxOver, PortClose
<1>15. CASE Join
  <2>1. owner' \notin Starting
    BY <1>15 DEF Join, Starting, Before
  <2>2. UNCHANGED <<thread, push, rx, plugged, serialPortEvent>>
    BY <1>15 DEF Join, queVars, inVars, portVars
  <2>3. QED
    BY <2>1, <2>2 DEF RxOver, PortClose
<1>16. QED
  BY <1>1, <1>2, <1>3, <1>4, <1>5, <1>6, <1>7, <1>8, <1>9, <1>10, <1>11, <1>12, <1>13, <1>14,
     <1>15 DEF Next, Transport, Reader, Events, Owner

-----------------------------------------------------------------------------
(* The line to the event thread.                                            *)

\* Constants do not change.
LEMMA MarkersConstant == Markers' = Markers /\ PortClose' = PortClose /\ EvtExit' = EvtExit
BY DEF Markers, PortClose, EvtExit

\* How long the line is.
LEMMA EvtCounts ==
    ASSUME RingOK
    PROVE  /\ EvtOnWay \in Nat /\ EvtHand \in 0..1 /\ EvtOnWay >= EvtHand
           /\ Held("evt") \in Nat
BY CountsAreNat DEF EvtOnWay, EvtHand, Queues

\* The line as it was is as right as it was.
LEMMA EvtLineKept ==
    ASSUME HandledOK, EvtLineOK, UNCHANGED handled, EvtOnWay \in Nat, EvtOnWay' = EvtOnWay,
           \A i \in 1..EvtOnWay : EvtLine(i)' = EvtLine(i),
           told \in Nat, told' \in Nat, told <= told', RxOver => RxOver'
    PROVE  HandledOK' /\ EvtLineOK'
<1>1. \A x, n : IsEvent(told, x, n) => IsEvent(told', x, n)
  BY EventStays
<1>2. HandledOK'
  BY <1>1 DEF HandledOK, Byte
<1>3. PICK m \in 0..EvtOnWay : Leads(m)
  BY DEF EvtLineOK
<1>4. \A i \in 1..m : IsEvent(told', EvtLine(i)', Len(handled') + i)
  <2>. TAKE i \in 1..m
  <2>1. i \in 1..EvtOnWay /\ IsEvent(told, EvtLine(i), Len(handled) + i)
    BY <1>3 DEF Leads
  <2>2. QED
    BY <1>1, <2>1
<1>5. \A i \in m + 1..EvtOnWay : EvtLine(i)' \in Markers
  <2>. TAKE i \in m + 1..EvtOnWay
  <2>1. i \in 1..EvtOnWay /\ EvtLine(i) \in Markers
    BY <1>3 DEF Leads
  <2>2. QED
    BY <2>1
<1>6. m < EvtOnWay => RxOver'
  BY <1>3 DEF Leads
<1>7. Leads(m)'
  BY <1>4, <1>5, <1>6, MarkersConstant DEF Leads
<1>8. QED
  BY <1>2, <1>7 DEF EvtLineOK

\* A packet or a marker comes to the end of the line.
LEMMA EvtLineGrows ==
    ASSUME HandledOK, EvtLineOK, UNCHANGED handled, NEW m \in Nat, EvtOnWay = m,
           EvtOnWay' = m + 1, \A i \in 1..m : EvtLine(i)' = EvtLine(i), NEW x,
           EvtLine(m + 1)' = x, told \in Nat, UNCHANGED told, RxOver => RxOver',
           \/ x \in Markers /\ RxOver
           \/ IsEvent(told, x, Len(handled) + m + 1) /\ ~RxOver
    PROVE  HandledOK' /\ EvtLineOK'
<1>1. HandledOK'
  BY DEF HandledOK, Byte
<1>2. PICK l \in 0..m : Leads(l)
  BY DEF EvtLineOK
<1>3. Len(handled) \in Nat
  BY DEF HandledOK
<1>4. CASE x \in Markers /\ RxOver
  <2>1. \A i \in 1..l : IsEvent(told', EvtLine(i)', Len(handled') + i)
    <3>. TAKE i \in 1..l
    <3>1. i \in 1..m /\ IsEvent(told, EvtLine(i), Len(handled) + i)
      BY <1>2 DEF Leads
    <3>2. QED
      BY <3>1
  <2>2. \A i \in l + 1..m + 1 : EvtLine(i)' \in Markers
    <3>. TAKE i \in l + 1..m + 1
    <3>1. CASE i = m + 1
      BY <1>4, <3>1
    <3>2. CASE i # m + 1
      <4>1. i \in 1..m /\ i \in l + 1..m
        BY <3>2
      <4>2. EvtLine(i) \in Markers
        BY <1>2, <4>1 DEF Leads
      <4>3. QED
        BY <4>1, <4>2
    <3>3. QED
      BY <3>1, <3>2
  <2>3. Leads(l)'
    BY <1>4, <2>1, <2>2, MarkersConstant DEF Leads
  <2>4. l \in 0..m + 1
    OBVIOUS
  <2>5. QED
    BY <1>1, <2>3, <2>4 DEF EvtLineOK
<1>5. CASE IsEvent(told, x, Len(handled) + m + 1) /\ ~RxOver
  <2>1. l = m
    BY <1>2, <1>5 DEF Leads
  <2>2. \A i \in 1..m + 1 : IsEvent(told', EvtLine(i)', Len(handled') + i)
    <3>. TAKE i \in 1..m + 1
    <3>1. CASE i = m + 1
      <4>1. Len(handled) + i = Len(handled) + m + 1
        BY <1>3, <3>1
      <4>2. QED
        BY <1>5, <3>1, <4>1
    <3>2. CASE i # m + 1
      <4>1. i \in 1..m
        BY <3>2
      <4>2. IsEvent(told, EvtLine(i), Len(handled) + i)
        BY <1>2, <2>1, <4>1 DEF Leads
      <4>3. QED
        BY <4>1, <4>2
    <3>3. QED
      BY <3>1, <3>2
  <2>3. \A i \in (m + 1) + 1..m + 1 : EvtLine(i)' \in Markers
    OBVIOUS
  <2>4. Leads(m + 1)'
    BY <2>2, <2>3, MarkersConstant DEF Leads
  <2>5. m + 1 \in 0..m + 1
    OBVIOUS
  <2>6. QED
    BY <1>1, <2>4, <2>5 DEF EvtLineOK
<1>6. QED
  BY <1>4, <1>5

\* The first of the line is handled.
LEMMA EvtLineShrinks ==
    ASSUME HandledOK, EvtLineOK, NEW m \in Nat, EvtOnWay = m, m > 0, EvtOnWay' = m - 1,
           \A i \in 1..m - 1 : EvtLine(i)' = EvtLine(i + 1),
           told \in 0..Len(Packets), UNCHANGED told, RxOver => RxOver',
           IF EvtLine(1).kind = "packet" THEN handled' = Append(handled, EvtLine(1).bytes)
                                         ELSE UNCHANGED handled
    PROVE  HandledOK' /\ EvtLineOK' /\ (EvtLine(1).kind # "packet" => RxOver)
<1>1. PICK l \in 0..m : Leads(l)
  BY DEF EvtLineOK
<1>2. Len(handled) \in Nat /\ handled \in Seq(Seq(Byte)) /\ Len(Packets) \in Nat
  BY Constants DEF HandledOK
<1>3. CASE l = 0
  <2>1. \A i \in 1..m : EvtLine(i) \in Markers
    BY <1>1, <1>3 DEF Leads
  <2>2. EvtLine(1).kind # "packet" /\ RxOver
    BY <1>1, <1>3, <2>1, MarkersAreNot DEF Leads
  <2>3. HandledOK'
    BY <2>2 DEF HandledOK, Byte
  <2>4. \A i \in 1..m - 1 : EvtLine(i)' \in Markers
    <3>. TAKE i \in 1..m - 1
    <3>1. i + 1 \in 1..m /\ EvtLine(i)' = EvtLine(i + 1)
      OBVIOUS
    <3>2. QED
      BY <2>1, <3>1
  <2>5. Leads(0)'
    BY <2>2, <2>4, MarkersConstant DEF Leads
  <2>6. 0 \in 0..m - 1
    OBVIOUS
  <2>7. QED
    BY <2>2, <2>3, <2>5, <2>6 DEF EvtLineOK
<1>4. CASE l > 0
  <2>1. 1 \in 1..l /\ IsEvent(told, EvtLine(1), Len(handled) + 1)
    BY <1>1, <1>4 DEF Leads
  <2>2. EvtLine(1).kind = "packet"
    BY <2>1, MarkersAreNot
  <2>3. PICK p \in EventsOf(told) : EvtLine(1) = Packet(Bytes(p)) /\ Rank(p) = Len(handled) + 1
    BY <2>1 DEF IsEvent
  <2>4. p \in 1..Len(Packets)
    BY <1>2 DEF EventsOf
  <2>5. Bytes(p) \in Seq(Byte) /\ EvtLine(1).bytes = Bytes(p)
    BY <2>3, <2>4, BytesShape DEF Packet
  <2>6. /\ handled' \in Seq(Seq(Byte)) /\ Len(handled') = Len(handled) + 1
        /\ handled'[Len(handled) + 1] = Bytes(p)
        /\ \A i \in 1..Len(handled) : handled'[i] = handled[i]
    <3>1. handled' = Append(handled, Bytes(p))
      BY <2>2, <2>5
    <3>. DEFINE S == Seq(Byte)
    <3>2. handled \in Seq(S) /\ Bytes(p) \in S
      BY <1>2, <2>5
    <3>. HIDE DEF S
    <3>3. /\ Append(handled, Bytes(p)) \in Seq(S)
          /\ Len(Append(handled, Bytes(p))) = Len(handled) + 1
          /\ Append(handled, Bytes(p))[Len(handled) + 1] = Bytes(p)
          /\ \A i \in 1..Len(handled) : Append(handled, Bytes(p))[i] = handled[i]
      BY <3>2, AppendProperties
    <3>4. QED
      BY <3>1, <3>3 DEF S
  <2>7. \A i \in 1..Len(handled') : IsEvent(told, Packet(handled'[i]), i)
    <3>. TAKE i \in 1..Len(handled')
    <3>1. CASE i = Len(handled) + 1
      BY <2>3, <2>6, <3>1 DEF IsEvent
    <3>2. CASE i # Len(handled) + 1
      <4>1. i \in 1..Len(handled)
        BY <1>2, <2>6, <3>2
      <4>2. QED
        BY <2>6, <4>1 DEF HandledOK
    <3>3. QED
      BY <3>1, <3>2
  <2>8. HandledOK'
    BY <2>6, <2>7 DEF HandledOK, Byte, Packet
  <2>9. \A i \in 1..l - 1 : IsEvent(told', EvtLine(i)', Len(handled') + i)
    <3>. TAKE i \in 1..l - 1
    <3>1. i + 1 \in 1..l /\ EvtLine(i)' = EvtLine(i + 1)
          /\ Len(handled') + i = Len(handled) + (i + 1)
      BY <1>2, <2>6
    <3>2. IsEvent(told, EvtLine(i + 1), Len(handled) + (i + 1))
      BY <1>1, <3>1 DEF Leads
    <3>3. QED
      BY <3>1, <3>2
  <2>10. \A i \in (l - 1) + 1..m - 1 : EvtLine(i)' \in Markers
    <3>. TAKE i \in (l - 1) + 1..m - 1
    <3>1. i + 1 \in l + 1..m /\ EvtLine(i)' = EvtLine(i + 1)
      BY <1>4
    <3>2. EvtLine(i + 1) \in Markers
      BY <1>1, <3>1 DEF Leads
    <3>3. QED
      BY <3>1, <3>2
  <2>11. l - 1 < m - 1 => RxOver'
    BY <1>1 DEF Leads
  <2>12. Leads(l - 1)'
    BY <2>9, <2>10, <2>11, MarkersConstant DEF Leads
  <2>13. l - 1 \in 0..m - 1
    BY <1>4
  <2>14. QED
    BY <2>2, <2>8, <2>12, <2>13 DEF EvtLineOK
<1>5. QED
  BY <1>3, <1>4

\* The Pushes as they were are as right as they were, and so are those that begin on
\* the command queue, or with the exit packet when RX is through.
LEMMA EvtPushKept ==
    ASSUME EvtPushOK, told \in Nat, told' \in Nat, told <= told', RxOver => RxOver',
           \/ RxOver
           \/ push'["rx"].pc = "no"
           \/ Len(handled') + EvtOnWay' = Len(handled) + EvtOnWay,
           \A p \in Pushing : push'[p].pc # "no" =>
              \/ /\ push[p].pc # "no"
                 /\ push'[p].item = push[p].item /\ push'[p].queue = push[p].queue
              \/ p # "rx" /\ push'[p].queue = "cmd"
              \/ p = "owner" /\ push'[p].item = EvtExit /\ RxOver'
    PROVE  EvtPushOK'
<1>1. \A x, n : IsEvent(told, x, n) => IsEvent(told', x, n)
  BY EventStays
<1>2. /\ "rx" \in Pushing /\ "owner" \in Pushing /\ Senders \subseteq Pushing
      /\ "owner" \notin Senders /\ "rx" \notin Senders /\ "rx" # "owner"
  BY NpiTransportAssumption DEF Pushing, Senders
<1>3. push'["rx"].pc # "no" =>
        /\ push'["rx"].queue = "evt"
        /\ \/ push'["rx"].item = PortClose /\ RxOver'
           \/ IsEvent(told', push'["rx"].item, Len(handled') + EvtOnWay' + 1)
  <2>. HAVE push'["rx"].pc # "no"
  <2>1. /\ push["rx"].pc # "no" /\ push'["rx"].queue = "evt"
        /\ push'["rx"].item = push["rx"].item
    BY <1>2 DEF EvtPushOK
  <2>2. CASE RxOver
    BY <2>1, <2>2 DEF RxOver
  <2>3. CASE Len(handled') + EvtOnWay' = Len(handled) + EvtOnWay
    BY <1>1, <2>1, <2>3 DEF EvtPushOK
  <2>4. QED
    BY <2>1, <2>2, <2>3
<1>4. push'["owner"].pc # "no" /\ push'["owner"].queue = "evt" =>
        push'["owner"].item = EvtExit /\ RxOver'
  BY <1>2 DEF EvtPushOK
<1>5. \A p \in Senders : push'[p].pc # "no" => push'[p].queue = "cmd"
  BY <1>2 DEF EvtPushOK
<1>6. QED
  BY <1>3, <1>4, <1>5, MarkersConstant DEF EvtPushOK

\* RX with what it reads as it was is as right as it was, as long as no event is lost
\* on the way; the dongle may be pulled out.
LEMMA RxKept ==
    ASSUME RxOK, UNCHANGED <<rx, told>>, RxOver => RxOver',
           \/ RxOver
           \/ Len(handled') + EvtOnWay' + RxHas' = Len(handled) + EvtOnWay + RxHas,
           \/ UNCHANGED <<wire, plugged>>
           \/ ~plugged'
    PROVE  RxOK'
<1>1. CASE RxOver
  BY <1>1 DEF RxOK
<1>2. CASE ~RxOver /\ \E q \in 1..told + 1 : Reads(q)
  <2>1. PICK q \in 1..told + 1 : Reads(q)
    BY <1>2
  <2>2. Reading(q)'
    BY <2>1 DEF Reads, Reading, Byte, Bytes
  <2>3. plugged' => \E cut : Cuts(q, cut, wire', told', Len(rx'.bytes))
    BY <2>1 DEF Reads
  <2>4. Rank(q - 1)' = Rank(q - 1)
    BY DEF Rank, EventsOf
  <2>5. Reads(q)'
    BY <1>2, <2>1, <2>2, <2>3, <2>4 DEF Reads
  <2>6. QED
    BY <2>5 DEF RxOK
<1>3. QED
  BY <1>1, <1>2 DEF RxOK

-----------------------------------------------------------------------------
(* What RX reads.                                                           *)

\* Where the packets begin and end.
CutNumbers(q, cut, w, t, r) ==
    /\ \A p \in q..t + 1 : cut[p] \in Int
    /\ \A p \in q..t :
          /\ p \in q..t + 1 /\ p + 1 \in q..t + 1 /\ p \in 1..Len(Packets)
          /\ cut[p] \in Int /\ cut[p + 1] \in Int /\ Packets[p].len \in Nat
          /\ cut[p + 1] = cut[p] + 3 + Packets[p].len /\ cut[p + 1] <= Len(w)
    /\ cut[q] + r = 0 /\ cut[t + 1] = Len(w)

\* The cuts are numbers, a packet apart, and those that are reached lie on the wire.
LEMMA CutFacts ==
    ASSUME NEW t \in 0..Len(Packets), NEW q \in 1..t + 1, NEW cut, NEW w \in Seq(Byte),
           NEW r \in Nat, Cuts(q, cut, w, t, r)
    PROVE  CutNumbers(q, cut, w, t, r)
<1>1. \A p \in q..t + 1 : cut[p] \in Int
  BY DEF Cuts
<1>2. \A p \in q..t : p \in q..t + 1 /\ p + 1 \in q..t + 1 /\ p \in 1..Len(Packets)
  BY Constants
<1>3. \A p \in q..t : Packets[p].len \in Nat
  BY <1>2, PacketLength
<1>4. \A p \in q..t : cut[p + 1] = cut[p] + 3 + Packets[p].len /\ cut[p + 1] <= Len(w)
  BY Zenon DEF Cuts
<1>5. cut[q] + r = 0 /\ cut[t + 1] = Len(w)
  BY Zenon DEF Cuts
<1>6. QED
  BY <1>1, <1>2, <1>3, <1>4, <1>5 DEF CutNumbers

\* The cuts moved by a byte, as numbers.
LEMMA CutsLess ==
    ASSUME NEW a \in Int, NEW b \in Int, NEW k \in Nat, NEW w \in Nat, b = a + 3 + k, b <= w
    PROVE  /\ b - 1 = (a - 1) + 3 + k /\ b - 1 <= w - 1
           /\ \A j \in 1..3 + k : (a - 1) + j >= 1 =>
                 /\ (a - 1) + j \in 1..w - 1 /\ ((a - 1) + j) + 1 = a + j /\ a + j >= 1
OBVIOUS

\* The first byte of the wire is the next of the packet, and the rest goes on from it.
LEMMA NextByte ==
    ASSUME NEW t \in 0..Len(Packets), NEW q \in 1..t + 1, NEW cut, NEW w \in Seq(Byte),
           NEW r \in Nat, Cuts(q, cut, w, t, r), w # <<>>,
           q <= t => r < 3 + Packets[q].len, q > t => r = 0
    PROVE  /\ q <= t /\ Head(w) = Bytes(q)[r + 1]
           /\ \E c : Cuts(q, c, Tail(w), t, r + 1)
<1>1. Len(w) \in Nat /\ Len(w) > 0 /\ t \in Nat /\ q \in Nat /\ Len(Packets) \in Nat
  BY Constants, EmptySeq
<1>2. /\ \A p \in q..t + 1 : cut[p] \in Int
      /\ \A p \in q..t :
            /\ p \in q..t + 1 /\ p + 1 \in q..t + 1 /\ p \in 1..Len(Packets)
            /\ cut[p] \in Int /\ cut[p + 1] \in Int /\ Packets[p].len \in Nat
            /\ cut[p + 1] = cut[p] + 3 + Packets[p].len /\ cut[p + 1] <= Len(w)
      /\ cut[q] + r = 0 /\ cut[t + 1] = Len(w)
  <2>1. CutNumbers(q, cut, w, t, r)
    BY CutFacts
  <2>2. QED
    BY <2>1 DEF CutNumbers
<1>bytes. \A p \in q..t, j \in Nat :
         j \in 1..3 + Packets[p].len /\ cut[p] + j >= 1 => w[cut[p] + j] = Bytes(p)[j]
  BY Zenon DEF Cuts
<1>3. q <= t
  <2>1. CASE q = t + 1
    BY <1>1, <1>2, <2>1
  <2>2. CASE q # t + 1
    BY <1>1, <2>2
  <2>3. QED
    BY <2>1, <2>2
<1>4. q \in q..t /\ Packets[q].len \in Nat /\ cut[q] \in Int /\ cut[q] + r = 0
  BY <1>1, <1>2, <1>3
<1>5. w[1] = Bytes(q)[r + 1]
  <2>1. /\ r + 1 \in Nat /\ r + 1 \in 1..3 + Packets[q].len
        /\ cut[q] + (r + 1) = 1 /\ cut[q] + (r + 1) >= 1
    <3>1. PICK a \in Int, k \in Nat : a = cut[q] /\ k = Packets[q].len
      BY <1>4
    <3>2. r < 3 + k /\ a + r = 0
      BY <1>3, <1>4, <3>1
    <3>3. r + 1 \in Nat /\ r + 1 \in 1..3 + k /\ a + (r + 1) = 1 /\ a + (r + 1) >= 1
      BY <3>2
    <3>4. QED
      BY <3>1, <3>3, Zenon
  <2>2. w[cut[q] + (r + 1)] = Bytes(q)[r + 1]
    BY <1>4, <2>1, <1>bytes, Zenon
  <2>3. QED
    BY <2>1, <2>2, Zenon
<1>6. /\ Head(w) = w[1] /\ Len(Tail(w)) = Len(w) - 1
      /\ \A i \in 1..Len(w) - 1 : Tail(w)[i] = w[i + 1]
  BY <1>1, HeadTailProperties
<1>. DEFINE c == [p \in q..t + 1 |-> cut[p] - 1]
            v == Tail(w)
<1>7. \A p \in q..t + 1 : cut[p] \in Int /\ c[p] = cut[p] - 1
  BY <1>2
<1>8. c \in [q..t + 1 -> Int]
  BY <1>7
<1>. HIDE DEF c, v
<1>9. Len(v) = Len(w) - 1 /\ \A i \in 1..Len(w) - 1 : v[i] = w[i + 1]
  BY <1>6 DEF v
<1>10. c[q] + (r + 1) = 0 /\ c[t + 1] = Len(v)
  <2>1. q \in q..t + 1 /\ t + 1 \in q..t + 1
    BY <1>1
  <2>2. c[q] = cut[q] - 1 /\ c[t + 1] = cut[t + 1] - 1
    BY <1>7, <2>1
  <2>3. QED
    BY <1>2, <1>4, <1>9, <2>2
<1>11. ASSUME NEW p \in q..t
       PROVE  /\ c[p + 1] = c[p] + 3 + Packets[p].len /\ c[p + 1] <= Len(v)
              /\ \A j \in Nat : j \in 1..3 + Packets[p].len /\ c[p] + j >= 1 =>
                    v[c[p] + j] = Bytes(p)[j]
  <2>1. c[p] = cut[p] - 1 /\ c[p + 1] = cut[p + 1] - 1
    BY <1>2, <1>7
  <2>2. /\ cut[p] \in Int /\ cut[p + 1] \in Int /\ Packets[p].len \in Nat
        /\ cut[p + 1] = cut[p] + 3 + Packets[p].len /\ cut[p + 1] <= Len(w)
    BY <1>2
  <2>3. PICK a \in Int, b \in Int, k \in Nat, m \in Nat :
           a = cut[p] /\ b = cut[p + 1] /\ k = Packets[p].len /\ m = Len(w)
    BY <1>1, <2>2
  <2>4. b = a + 3 + k /\ b <= m
    BY <2>2, <2>3
  <2>5. /\ b - 1 = (a - 1) + 3 + k /\ b - 1 <= m - 1
        /\ \A j \in 1..3 + k : (a - 1) + j >= 1 =>
              /\ (a - 1) + j \in 1..m - 1 /\ ((a - 1) + j) + 1 = a + j /\ a + j >= 1
    BY <2>4, CutsLess
  <2>6. c[p] = a - 1 /\ c[p + 1] = b - 1 /\ Len(v) = m - 1
    BY <1>9, <2>1, <2>3, Zenon
  <2>7. c[p + 1] = c[p] + 3 + Packets[p].len /\ c[p + 1] <= Len(v)
    BY <2>3, <2>5, <2>6, Zenon
  <2>8. ASSUME NEW j \in Nat, j \in 1..3 + Packets[p].len, c[p] + j >= 1
        PROVE  v[c[p] + j] = Bytes(p)[j]
    <3>1. (a - 1) + j \in 1..m - 1 /\ ((a - 1) + j) + 1 = a + j /\ a + j >= 1
      BY <2>3, <2>5, <2>6, <2>8, Zenon
    <3>2. v[(a - 1) + j] = w[((a - 1) + j) + 1]
      BY <1>9, <2>3, <3>1, Zenon
    <3>3. cut[p] + j >= 1
      BY <2>3, <3>1, Zenon
    <3>4. w[cut[p] + j] = Bytes(p)[j]
      BY <2>8, <3>3, <1>bytes, Zenon
    <3>5. QED
      BY <2>3, <2>6, <3>1, <3>2, <3>4, Zenon
  <2>9. QED
    BY <2>7, <2>8
<1>12. Cuts(q, c, v, t, r + 1)
  BY <1>8, <1>10, <1>11, Zenon DEF Cuts
<1>13. QED
  BY <1>3, <1>5, <1>6, <1>12 DEF v

\* A packet that has been read leaves the cuts.
LEMMA NextPacket ==
    ASSUME NEW t \in 0..Len(Packets), NEW q \in 1..t + 1, NEW cut, NEW w \in Seq(Byte),
           NEW r \in Nat, Cuts(q, cut, w, t, r)
    PROVE  q <= t /\ r = 3 + Packets[q].len => \E c : Cuts(q + 1, c, w, t, 0)
<1>2. /\ \A p \in q..t + 1 : cut[p] \in Int
      /\ \A p \in q..t :
            /\ p \in q..t + 1 /\ p + 1 \in q..t + 1 /\ p \in 1..Len(Packets)
            /\ cut[p] \in Int /\ cut[p + 1] \in Int /\ Packets[p].len \in Nat
            /\ cut[p + 1] = cut[p] + 3 + Packets[p].len /\ cut[p + 1] <= Len(w)
      /\ cut[q] + r = 0 /\ cut[t + 1] = Len(w)
  <2>1. CutNumbers(q, cut, w, t, r)
    BY CutFacts
  <2>2. QED
    BY <2>1 DEF CutNumbers
<1>. HAVE q <= t /\ r = 3 + Packets[q].len
<1>1. t \in Nat /\ q \in Nat /\ q + 1 \in q + 1..t + 1
  BY Constants
<1>bytes. \A p \in q..t, j \in Nat :
         j \in 1..3 + Packets[p].len /\ cut[p] + j >= 1 => w[cut[p] + j] = Bytes(p)[j]
  BY Zenon DEF Cuts
<1>. DEFINE c == [p \in q + 1..t + 1 |-> cut[p]]
<1>3. \A p \in q + 1..t + 1 : c[p] = cut[p] /\ cut[p] \in Int
  BY <1>1, <1>2
<1>4. c \in [q + 1..t + 1 -> Int]
  BY <1>3
<1>. HIDE DEF c
<1>5. c[q + 1] + 0 = 0
  <2>1. q \in q..t
    BY <1>1
  <2>2. cut[q] \in Int /\ Packets[q].len \in Nat /\ cut[q + 1] = cut[q] + 3 + Packets[q].len
    BY <1>2, <2>1
  <2>3. cut[q + 1] = 0
    <3>1. PICK a \in Int, k \in Nat : a = cut[q] /\ k = Packets[q].len
      BY <2>2
    <3>2. a + r = 0 /\ r = 3 + k
      BY <1>2, <3>1, Zenon
    <3>3. a + 3 + k = 0
      BY <3>2
    <3>4. QED
      BY <2>2, <3>1, <3>3, Zenon
  <2>4. QED
    BY <1>1, <1>3, <2>3
<1>6. c[t + 1] = Len(w)
  BY <1>1, <1>2, <1>3
<1>7. \A p \in q + 1..t : p \in q..t /\ c[p] = cut[p] /\ c[p + 1] = cut[p + 1]
  <2>1. \A p \in q + 1..t : p \in q..t /\ p \in q + 1..t + 1 /\ p + 1 \in q + 1..t + 1
    BY <1>1
  <2>2. QED
    BY <1>3, <2>1, Zenon
<1>8. \A p \in q + 1..t : c[p + 1] = c[p] + 3 + Packets[p].len /\ c[p + 1] <= Len(w)
  BY <1>2, <1>7, Zenon
<1>9. \A p \in q + 1..t, j \in Nat :
         j \in 1..3 + Packets[p].len /\ c[p] + j >= 1 => w[c[p] + j] = Bytes(p)[j]
  <2>. TAKE p \in q + 1..t, j \in Nat
  <2>. HAVE j \in 1..3 + Packets[p].len /\ c[p] + j >= 1
  <2>1. p \in q..t /\ c[p] = cut[p]
    BY <1>7
  <2>2. cut[p] + j >= 1
    BY <2>1, Zenon
  <2>3. w[cut[p] + j] = Bytes(p)[j]
    BY <2>1, <2>2, <1>bytes, Zenon
  <2>4. QED
    BY <2>1, <2>3, Zenon
<1>10. Cuts(q + 1, c, w, t, 0)
  BY <1>4, <1>5, <1>6, <1>8, <1>9, Zenon DEF Cuts
<1>11. QED
  BY <1>10

\* The dongle sends one more.
LEMMA WireGrows ==
    ASSUME NEW t \in 0..Len(Packets) - 1, NEW q \in 1..t + 1, NEW cut, NEW w \in Seq(Byte),
           NEW r \in Nat, Cuts(q, cut, w, t, r)
    PROVE  \E c : Cuts(q, c, w \o Bytes(t + 1), t + 1, r)
<1>. DEFINE n == t + 1
            b == Bytes(n)
            v == w \o b
<1>0. t \in 0..Len(Packets) /\ t \in Nat /\ q \in Nat /\ n \in Nat /\ n = t + 1
  BY Constants
<1>1. /\ n \in 1..Len(Packets) /\ b \in Seq(Byte) /\ Len(b) = 3 + Packets[n].len
      /\ Packets[n].len \in Nat /\ Len(w) \in Nat /\ Len(b) \in Nat
  <2>1. t + 1 \in 1..Len(Packets)
    BY Constants
  <2>2. QED
    BY <2>1, BytesShape
<1>. HIDE DEF n, b
<1>2. /\ Len(v) = Len(w) + Len(b)
      /\ \A i \in 1..Len(w) + Len(b) : v[i] = IF i <= Len(w) THEN w[i] ELSE b[i - Len(w)]
  BY <1>1, ConcatProperties
<1>. HIDE DEF v
<1>3. /\ \A p \in q..t + 1 : cut[p] \in Int
      /\ \A p \in q..t :
            /\ p \in q..t + 1 /\ p + 1 \in q..t + 1 /\ p \in 1..Len(Packets)
            /\ cut[p] \in Int /\ cut[p + 1] \in Int /\ Packets[p].len \in Nat
            /\ cut[p + 1] = cut[p] + 3 + Packets[p].len /\ cut[p + 1] <= Len(w)
      /\ cut[q] + r = 0 /\ cut[t + 1] = Len(w)
  <2>1. CutNumbers(q, cut, w, t, r)
    BY <1>0, CutFacts
  <2>2. QED
    BY <2>1 DEF CutNumbers
<1>bytes. \A p \in q..t, j \in Nat :
         j \in 1..3 + Packets[p].len /\ cut[p] + j >= 1 => w[cut[p] + j] = Bytes(p)[j]
  BY Zenon DEF Cuts
<1>. DEFINE c == [p \in q..n + 1 |-> IF p = n + 1 THEN Len(v) ELSE cut[p]]
<1>4. c[n + 1] = Len(v) /\ \A p \in q..n : c[p] = cut[p] /\ cut[p] \in Int
  BY <1>0, <1>3
<1>5. c \in [q..n + 1 -> Int]
  <2>1. Len(v) \in Int
    BY <1>1, <1>2
  <2>2. \A p \in q..n + 1 : p # n + 1 => p \in q..n
    BY <1>0
  <2>3. \A p \in q..n + 1 : (IF p = n + 1 THEN Len(v) ELSE cut[p]) \in Int
    BY <1>4, <2>1, <2>2
  <2>4. QED
    BY <2>3
<1>. HIDE DEF c
<1>6. c[q] + r = 0 /\ c[n] = Len(w) /\ Len(w) <= Len(v)
  <2>1. q \in q..n /\ n \in q..n
    BY <1>0
  <2>2. c[q] = cut[q] /\ c[n] = cut[t + 1]
    BY <1>0, <1>4, <2>1
  <2>3. Len(w) <= Len(v)
    BY <1>1, <1>2
  <2>4. QED
    BY <1>3, <2>2, <2>3, Zenon
<1>7. ASSUME NEW p \in q..n
      PROVE  /\ c[p + 1] = c[p] + 3 + Packets[p].len /\ c[p + 1] <= Len(v)
             /\ \A j \in Nat : j \in 1..3 + Packets[p].len /\ c[p] + j >= 1 =>
                   v[c[p] + j] = Bytes(p)[j]
  <2>1. CASE p = n
    <3>1. c[p + 1] = c[p] + 3 + Packets[p].len /\ c[p + 1] <= Len(v)
      <4>1. PICK k \in Nat, m \in Nat : k = Packets[p].len /\ m = Len(w)
        BY <1>1, <2>1
      <4>2. Len(v) = m + (3 + k) /\ c[p] = m /\ c[p + 1] = Len(v)
        BY <1>1, <1>2, <1>4, <1>6, <2>1, <4>1, Zenon
      <4>3. m + (3 + k) = m + 3 + k /\ m + (3 + k) <= m + (3 + k)
        OBVIOUS
      <4>4. QED
        BY <4>1, <4>2, <4>3, Zenon
    <3>2. ASSUME NEW j \in Nat, j \in 1..3 + Packets[p].len
          PROVE  v[c[p] + j] = Bytes(p)[j]
      <4>1. /\ Len(w) + j \in 1..Len(w) + Len(b) /\ ~(Len(w) + j <= Len(w))
            /\ (Len(w) + j) - Len(w) = j
        BY <1>1, <2>1, <3>2
      <4>2. v[Len(w) + j] = b[j]
        BY <1>2, <4>1
      <4>3. QED
        BY <1>6, <2>1, <4>2 DEF b
    <3>3. QED
      BY <3>1, <3>2
  <2>2. CASE p # n
    <3>1. p \in q..t /\ p \in q..n /\ p + 1 \in q..n
      BY <1>0, <2>2
    <3>2. c[p] = cut[p] /\ c[p + 1] = cut[p + 1]
      BY <1>4, <3>1
    <3>3. /\ cut[p + 1] = cut[p] + 3 + Packets[p].len /\ cut[p + 1] <= Len(w)
          /\ cut[p] \in Int /\ cut[p + 1] \in Int /\ Packets[p].len \in Nat
      BY <1>3, <3>1
    <3>4. cut[p + 1] <= Len(v) /\ Len(v) \in Nat
      <4>1. PICK e \in Int, m \in Nat, l \in Nat : e = cut[p + 1] /\ m = Len(w) /\ l = Len(b)
        BY <1>1, <3>3, Zenon
      <4>2. e <= m /\ Len(v) = m + l
        BY <1>2, <3>3, <4>1, Zenon
      <4>3. e <= m + l /\ m + l \in Nat
        BY <4>2
      <4>4. QED
        BY <4>1, <4>2, <4>3, Zenon
    <3>5. ASSUME NEW j \in Nat, j \in 1..3 + Packets[p].len, c[p] + j >= 1
          PROVE  v[c[p] + j] = Bytes(p)[j]
      <4>1. cut[p] + j >= 1
        BY <3>2, <3>5, Zenon
      <4>2. w[cut[p] + j] = Bytes(p)[j]
        BY <3>1, <3>5, <4>1, <1>bytes, Zenon
      <4>3. cut[p] + j \in 1..Len(w) + Len(b) /\ cut[p] + j <= Len(w)
        <5>1. PICK a \in Int, e \in Int, k \in Nat, m \in Nat, l \in Nat :
                 a = cut[p] /\ e = cut[p + 1] /\ k = Packets[p].len /\ m = Len(w) /\ l = Len(b)
          BY <1>1, <3>3, Zenon
        <5>2. e = a + 3 + k /\ e <= m /\ j \in 1..3 + k /\ a + j >= 1
          BY <3>3, <3>5, <4>1, <5>1, Zenon
        <5>3. a + j \in 1..m + l /\ a + j <= m
          BY <5>2
        <5>4. QED
          BY <5>1, <5>3, Zenon
      <4>4. v[cut[p] + j] = w[cut[p] + j]
        BY <1>2, <4>3
      <4>5. QED
        BY <3>2, <4>2, <4>4, Zenon
    <3>6. QED
      BY <3>2, <3>3, <3>4, <3>5, Zenon
  <2>3. QED
    BY <2>1, <2>2
<1>8. Cuts(q, c, v, n, r)
  BY <1>4, <1>5, <1>6, <1>7, Zenon DEF Cuts
<1>9. QED
  BY <1>8 DEF v, b, n

\* RX reads a byte of packet q.
LEMMA ReadingOn ==
    ASSUME NEW q \in 1..Len(Packets), Reading(q), NEW b \in Byte,
           b = Bytes(q)[Len(rx.bytes) + 1], NEW s, s = Append(rx.bytes, b)
    PROVE  /\ s \in Seq(Byte) /\ Len(s) = Len(rx.bytes) + 1
           /\ \A j \in 1..Len(s) : s[j] = Bytes(q)[j]
<1>1. rx.bytes \in Seq(Byte) /\ Len(rx.bytes) \in Nat
      /\ \A j \in 1..Len(rx.bytes) : rx.bytes[j] = Bytes(q)[j]
  BY DEF Reading
<1>2. /\ s \in Seq(Byte) /\ Len(s) = Len(rx.bytes) + 1 /\ s[Len(rx.bytes) + 1] = b
      /\ \A j \in 1..Len(rx.bytes) : s[j] = rx.bytes[j]
  BY <1>1, AppendProperties
<1>3. ASSUME NEW j \in 1..Len(s) PROVE s[j] = Bytes(q)[j]
  <2>1. CASE j = Len(rx.bytes) + 1
    BY <1>2, <2>1
  <2>2. CASE j # Len(rx.bytes) + 1
    <3>1. j \in 1..Len(rx.bytes)
      BY <1>1, <1>2, <2>2
    <3>2. QED
      BY <1>1, <1>2, <3>1
  <2>3. QED
    BY <2>1, <2>2
<1>4. QED
  BY <1>2, <1>3

\* When the data is read, RX has the whole packet.
LEMMA WholePacket ==
    ASSUME NEW q \in 1..told + 1, told \in 0..Len(Packets), Reading(q),
           rx.at = "data", rx.remaining = 0
    PROVE  /\ q \in 1..Len(Packets) /\ q \in 1..told /\ rx.bytes = Bytes(q)
           /\ rx.bytes[1][1] = q /\ Len(rx.bytes) = 3 + Packets[q].len
<1>1. Len(Packets) \in Nat /\ q \in 1..told /\ q \in 1..Len(Packets)
  BY Constants DEF Reading
<1>2. /\ Bytes(q) \in Seq(Byte) /\ Len(Bytes(q)) = 3 + Packets[q].len /\ Packets[q].len \in Nat
      /\ Bytes(q)[1] = <<q, "type">>
  BY <1>1, BytesShape
<1>3. rx.bytes \in Seq(Byte) /\ Len(rx.bytes) = 3 + Packets[q].len
  <2>1. Len(rx.bytes) \in Nat
    BY DEF Reading
  <2>2. QED
    BY <1>2, <2>1 DEF Reading
<1>4. rx.bytes = Bytes(q)
  <2>1. \A j \in 1..Len(rx.bytes) : rx.bytes[j] = Bytes(q)[j]
    BY DEF Reading
  <2>2. QED
    BY <1>2, <1>3, <2>1, SeqEqual
<1>5. rx.bytes[1][1] = q
  BY <1>2, <1>4
<1>6. QED
  BY <1>1, <1>3, <1>4, <1>5

-----------------------------------------------------------------------------
(* Steps that leave the line and what RX has read.                          *)

\* What there is besides RX.
LineInv == HandledOK /\ EvtLineOK /\ EvtPushOK

\* A Push that goes on, or begins on the command queue, or begins with the exit packet
\* when RX is through.
PushGoesOn(p) ==
    push'[p].pc # "no" =>
       \/ push[p].pc # "no" /\ push'[p].item = push[p].item /\ push'[p].queue = push[p].queue
       \/ p # "rx" /\ push'[p].queue = "cmd"
       \/ p = "owner" /\ push'[p].item = EvtExit /\ RxOver'

\* The ring of the packets is where it was, and so is the thread that takes them.
EvtStill ==
    /\ que'.evt.buffer = que.evt.buffer /\ que'.evt.out_pos = que.evt.out_pos
    /\ Held("evt")' = Held("evt")
    /\ UNCHANGED event \/ (event.pc # "handle" /\ event'.pc # "handle")

\* Then so is the line.
LEMMA EvtLineStill ==
    ASSUME EvtStill, RingOK
    PROVE  /\ EvtOnWay \in Nat /\ EvtOnWay' = EvtOnWay
           /\ \A i \in 1..EvtOnWay : EvtLine(i)' = EvtLine(i)
<1>1. EvtHand' = EvtHand /\ EvtOnWay' = EvtOnWay /\ EvtOnWay \in Nat
  BY EvtCounts DEF EvtStill, EvtHand, EvtOnWay
<1>2. ASSUME NEW i \in 1..EvtOnWay PROVE EvtLine(i)' = EvtLine(i)
  <2>1. Place(que'.evt, i - 1 - EvtHand) = Place(que.evt, i - 1 - EvtHand)
    BY DEF EvtStill, Place
  <2>2. i = EvtHand => event.pc = "handle" /\ UNCHANGED event
    BY DEF EvtHand, EvtStill
  <2>3. QED
    BY <1>1, <2>1, <2>2 DEF EvtLine, EvtStill
<1>3. QED
  BY <1>1, <1>2

\* Without an event that comes to the line or leaves it.
LEMMA LineInvKept ==
    ASSUME LineInv, told \in Nat, told' \in Nat, told <= told', RxOver => RxOver',
           UNCHANGED handled, EvtOnWay \in Nat, EvtOnWay' = EvtOnWay,
           \A i \in 1..EvtOnWay : EvtLine(i)' = EvtLine(i), \A p \in Pushing : PushGoesOn(p)
    PROVE  LineInv'
<1>1. HandledOK' /\ EvtLineOK'
  BY EvtLineKept DEF LineInv
<1>2. EvtPushOK'
  BY EvtPushKept DEF LineInv, PushGoesOn
<1>3. QED
  BY <1>1, <1>2 DEF LineInv

\* Without an event that comes or leaves, or a byte that RX reads.
LEMMA FrameKept ==
    ASSUME LineInv, RxOK, WireOK, RxOver => RxOver', UNCHANGED <<handled, rx, told>>,
           \/ UNCHANGED <<wire, plugged>>
           \/ ~plugged',
           EvtOnWay \in Nat, EvtOnWay' = EvtOnWay,
           \A i \in 1..EvtOnWay : EvtLine(i)' = EvtLine(i), \A p \in Pushing : PushGoesOn(p),
           push["rx"].pc # "no" => push'["rx"].pc # "no"
    PROVE  LineInv' /\ RxOK'
<1>1. told \in Nat /\ told <= told /\ told' = told
  BY DEF WireOK
<1>2. LineInv'
  BY <1>1, LineInvKept
<1>3. RxHas' = RxHas
  <2>1. push'["rx"].pc # "no" => push["rx"].pc # "no"
    BY Constants DEF PushGoesOn, Pushing
  <2>2. QED
    BY <2>1 DEF RxHas
<1>4. RxOK'
  BY <1>3, RxKept
<1>5. QED
  BY <1>2, <1>4

\* RX reads a byte, of the header or of the data.
ReadsByte == /\ wire # <<>> /\ wire' = Tail(wire)
             /\ rx'.bytes = IF rx.at = "type" THEN <<Head(wire)>> ELSE Append(rx.bytes, Head(wire))
InHeader == /\ rx.at \in {"type", "code", "len"}
            /\ rx.at = "type" => rx'.at = "code"
            /\ rx.at = "code" => rx'.at = "len"
            /\ rx.at = "len" =>
                  rx'.at = "others" /\ rx'.remaining = Packets[Head(wire)[1]].len
InData == /\ rx.at = "data" /\ rx'.at = "data" /\ rx.remaining > 0
          /\ rx'.remaining = rx.remaining - 1

\* How much of packet q RX has read.
LEMMA ReadSoFar ==
    ASSUME NEW q, Reading(q)
    PROVE  /\ rx.bytes \in Seq(Byte) /\ Len(rx.bytes) \in Nat
           /\ rx.at = "type" => Len(rx.bytes) = 0
           /\ rx.at = "code" => Len(rx.bytes) = 1
           /\ rx.at = "len" => Len(rx.bytes) = 2
           /\ rx.at \in {"others", "data"} =>
                 Len(rx.bytes) >= 3 /\ rx.remaining = Packets[q].len + 3 - Len(rx.bytes)
           /\ rx.at # "type" => q <= told
BY DEF Reading

\* RX reads a byte when it is not through.
LEMMA ByteStep ==
    ASSUME RxOK, ~RxOver, WireOK, PortOK, ReadsByte, InHeader \/ InData,
           UNCHANGED <<told, handled, plugged>>, EvtOnWay' = EvtOnWay, RxHas' = RxHas
    PROVE  RxOK'
<1>1. PICK q \in 1..told + 1 : Reads(q)
  BY DEF RxOK
<1>2. /\ Reading(q) /\ Rank(q - 1) = Len(handled) + EvtOnWay + RxHas
      /\ told \in 0..Len(Packets) /\ wire \in Seq(Byte) /\ rx.remaining \in Nat
  BY <1>1 DEF Reads, WireOK, Byte
<1>3. PICK cut : Cuts(q, cut, wire, told, Len(rx.bytes))
  BY <1>1 DEF Reads, PortOK, ReadsByte
<1>4. /\ Len(rx.bytes) \in Nat /\ rx.bytes \in Seq(Byte) /\ Len(Packets) \in Nat
      /\ q \in Nat /\ told \in Nat
  BY <1>2, Constants DEF Reading
<1>5. q <= told => Packets[q].len \in Nat /\ q \in 1..Len(Packets)
  <2>. HAVE q <= told
  <2>1. q \in 1..Len(Packets)
    BY <1>2, <1>4
  <2>2. QED
    BY <2>1, PacketLength
<1>r. PICK r \in Nat : r = Len(rx.bytes)
  BY <1>4
<1>so. /\ rx.at = "type" => r = 0
       /\ rx.at = "code" => r = 1
       /\ rx.at = "len" => r = 2
       /\ rx.at \in {"others", "data"} => r >= 3 /\ rx.remaining = Packets[q].len + 3 - r
       /\ rx.at # "type" => q <= told
  BY <1>2, <1>r, ReadSoFar, Zenon
<1>6. (q <= told => r < 3 + Packets[q].len) /\ (q > told => r = 0)
  <2>1. CASE InHeader
    <3>1. rx.at \in {"type", "code", "len"}
      BY <2>1 DEF InHeader
    <3>2. r < 3 /\ (q > told => r = 0)
      BY <1>4, <1>so, <3>1
    <3>3. QED
      BY <1>5, <3>2
  <2>2. CASE InData
    <3>1. q <= told /\ rx.remaining = Packets[q].len + 3 - r /\ rx.remaining > 0
      BY <1>so, <2>2 DEF InData
    <3>2. QED
      BY <1>4, <1>5, <3>1
  <2>3. QED
    BY <2>1, <2>2
<1>7. /\ q <= told /\ Head(wire) = Bytes(q)[r + 1]
      /\ \E c : Cuts(q, c, Tail(wire), told, r + 1)
  BY <1>2, <1>3, <1>r, <1>6, NextByte DEF ReadsByte
<1>8. Head(wire) \in Byte /\ q \in 1..Len(Packets) /\ Packets[q].len \in Nat
  BY <1>2, <1>5, <1>7, HeadTailProperties DEF ReadsByte
<1>9. rx'.bytes = Append(rx.bytes, Head(wire))
  <2>1. CASE rx.at = "type"
    <3>1. rx.bytes = <<>>
      BY <1>4, <1>r, <1>so, <2>1, EmptySeq
    <3>2. rx'.bytes = <<Head(wire)>> /\ Append(<<>>, Head(wire)) = <<Head(wire)>>
      BY <2>1 DEF ReadsByte
    <3>3. QED
      BY <3>1, <3>2
  <2>2. QED
    BY <2>1 DEF ReadsByte
<1>10. /\ rx'.bytes \in Seq(Byte) /\ Len(rx'.bytes) = r + 1
       /\ \A j \in 1..Len(rx'.bytes) : rx'.bytes[j] = Bytes(q)[j]
  BY <1>2, <1>7, <1>8, <1>9, <1>r, ReadingOn
<1>11. /\ rx'.at # "type"
       /\ rx'.at = "code" => Len(rx'.bytes) = 1
       /\ rx'.at = "len" => Len(rx'.bytes) = 2
       /\ rx'.at \in {"others", "data"} => /\ Len(rx'.bytes) >= 3
                                           /\ rx'.remaining = Packets[q].len + 3 - Len(rx'.bytes)
  <2>0. PICK n \in Nat : n = Len(rx'.bytes)
    BY <1>10
  <2>. SUFFICES /\ rx'.at # "type"
                /\ rx'.at = "code" => n = 1
                /\ rx'.at = "len" => n = 2
                /\ rx'.at \in {"others", "data"} =>
                      n >= 3 /\ rx'.remaining = Packets[q].len + 3 - n
    BY <2>0, Zenon
  <2>1. n = r + 1
    BY <1>10, <2>0
  <2>2. CASE InHeader /\ rx.at = "type"
    BY <1>so, <2>1, <2>2 DEF InHeader
  <2>3. CASE InHeader /\ rx.at = "code"
    BY <1>so, <2>1, <2>3 DEF InHeader
  <2>4. CASE InHeader /\ rx.at = "len"
    <3>1. rx'.at = "others" /\ rx'.remaining = Packets[Head(wire)[1]].len
      BY <2>4 DEF InHeader
    <3>2. r = 2 /\ n = 3
      BY <1>so, <2>1, <2>4
    <3>3. Head(wire)[1] = q
      BY <1>7, <1>8, <3>2, BytesShape
    <3>4. QED
      BY <1>8, <3>1, <3>2, <3>3
  <2>5. CASE InData
    <3>1. /\ r >= 3 /\ rx.remaining = Packets[q].len + 3 - r
          /\ rx'.remaining = rx.remaining - 1 /\ rx'.at = "data"
      BY <1>so, <2>5 DEF InData
    <3>2. QED
      BY <1>8, <2>1, <3>1
  <2>6. QED
    BY <2>2, <2>3, <2>4, <2>5 DEF InHeader
<1>12. Reading(q)'
  BY <1>7, <1>10, <1>11 DEF Reading, Byte, Bytes
<1>13. \E c : Cuts(q, c, wire', told', Len(rx'.bytes))
  BY <1>7, <1>10 DEF ReadsByte
<1>14. Rank(q - 1)' = Len(handled') + EvtOnWay' + RxHas'
  BY <1>2 DEF Rank, EventsOf
<1>15. Reads(q)'
  BY <1>12, <1>13, <1>14 DEF Reads
<1>16. QED
  BY <1>15 DEF RxOK

-----------------------------------------------------------------------------
(* Every step keeps the frames.                                             *)

\* All that the steps below start from.
Sound == LineInv /\ RxOK /\ PortOK /\ WireOK /\ PushOK /\ ControlOK /\ RingsOK

\* What the leaves below keep needing of it.
LEMMA SoundFacts ==
    ASSUME Sound
    PROVE  /\ told \in 0..Len(Packets) /\ told \in Nat /\ told <= told /\ EvtOnWay \in Nat
           /\ EvtHand \in 0..1 /\ EvtOnWay >= EvtHand /\ Held("evt") \in Nat
           /\ "rx" \in Pushing /\ "owner" \in Pushing /\ Senders \subseteq Pushing
           /\ "owner" \notin Senders /\ "rx" \notin Senders /\ "rx" # "owner"
<1>1. told \in 0..Len(Packets) /\ told \in Nat /\ told <= told
  BY Constants DEF Sound, WireOK
<1>2. /\ EvtOnWay \in Nat /\ EvtHand \in 0..1 /\ EvtOnWay >= EvtHand /\ Held("evt") \in Nat
  BY EvtCounts DEF Sound, RingsOK
<1>3. /\ "rx" \in Pushing /\ "owner" \in Pushing /\ Senders \subseteq Pushing
      /\ "owner" \notin Senders /\ "rx" \notin Senders /\ "rx" # "owner"
  BY NpiTransportAssumption DEF Pushing, Senders
<1>4. QED
  BY <1>1, <1>2, <1>3

\* Steps that neither handle an event nor read a byte.
LEMMA StillStep ==
    ASSUME Sound, RxOver => RxOver', UNCHANGED <<handled, rx, told>>, EvtStill,
           \/ UNCHANGED <<wire, plugged>>
           \/ ~plugged',
           \A p \in Pushing : PushGoesOn(p), push["rx"].pc # "no" => push'["rx"].pc # "no"
    PROVE  LineInv' /\ RxOK'
<1>1. EvtOnWay \in Nat /\ EvtOnWay' = EvtOnWay /\ \A i \in 1..EvtOnWay : EvtLine(i)' = EvtLine(i)
  BY EvtLineStill DEF Sound, RingsOK
<1>2. QED
  BY <1>1, FrameKept DEF Sound

\* No Push moves.
LEMMA NoPush ==
    ASSUME UNCHANGED push
    PROVE  /\ \A p \in Pushing : PushGoesOn(p)
           /\ push["rx"].pc # "no" => push'["rx"].pc # "no"
BY DEF PushGoesOn

\* The ring is where it was.
LEMMA SameRing ==
    ASSUME UNCHANGED que, UNCHANGED event \/ (event.pc \notin {"handle", "fetch"} /\
                                             event'.pc \notin {"handle", "fetch"})
    PROVE  EvtStill
BY DEF EvtStill, Held, Fetching

\* A caller begins a Push, on the command queue.
LEMMA BeginPushFrame ==
    ASSUME Sound, RxOver => RxOver', NEW p \in Senders, BeginPush(p)
    PROVE  LineInv' /\ RxOK'
<1>1. EvtStill /\ UNCHANGED <<handled, rx, told, wire, plugged>>
  BY SameRing DEF BeginPush, inVars, evtVars, portVars
<1>2. \A r \in Pushing : r # p => push'[r] = push[r]
  BY DEF BeginPush, Sound, PushOK
<1>3. push'[p].queue = "cmd" /\ p # "rx"
  BY SoundFacts DEF BeginPush, Sound, PushOK, Pushes
<1>4. \A r \in Pushing : PushGoesOn(r)
  BY <1>2, <1>3 DEF PushGoesOn
<1>5. push'["rx"] = push["rx"]
  BY <1>2, <1>3, SoundFacts
<1>6. QED
  BY <1>1, <1>4, <1>5, StillStep

\* A Push claims its place.
LEMMA PushClaimFrame ==
    ASSUME Sound, RxOver => RxOver', NEW p \in Pushing, PushClaim(p),
           UNCHANGED <<event, handled, rx, told, wire, plugged>>
    PROVE  LineInv' /\ RxOK'
<1>1. EvtStill
  <2>1. \A q : /\ ClaimSpace(q) = [q EXCEPT !.space_avail = @ - 1]
    BY DEF ClaimSpace
  <2>2. push[p].queue \in Queues /\ RingOK
    BY DEF Sound, PushOK, RingsOK
  <2>3. /\ que'.evt.buffer = que.evt.buffer /\ que'.evt.out_pos = que.evt.out_pos
        /\ que'.evt.data_avail = que.evt.data_avail
    BY <2>1, <2>2 DEF PushClaim, RingOK, RingShape, Fields, Queues
  <2>4. QED
    BY <2>3 DEF EvtStill, Held, Fetching
<1>2. /\ \A r \in Pushing : r # p => push'[r] = push[r]
      /\ push[p].pc = "space" /\ push'[p].pc = "store"
      /\ push'[p].item = push[p].item /\ push'[p].queue = push[p].queue
  BY DEF PushClaim, Sound, PushOK
<1>3. \A r \in Pushing : PushGoesOn(r)
  BY <1>2 DEF PushGoesOn
<1>4. push["rx"].pc # "no" => push'["rx"].pc # "no"
  BY <1>2, SoundFacts
<1>5. QED
  BY <1>1, <1>3, <1>4, StillStep

\* A packet or a marker is stored: it is the last of the line.
LEMMA PushStoreFrame ==
    ASSUME Sound, RxOver => RxOver', NEW p \in Pushing, PushStore(p),
           UNCHANGED <<tx, sent, event, handled, rx, told, wire, plugged>>
    PROVE  LineInv' /\ RxOK'
<1>1. /\ push[p].pc = "store" /\ push'[p].pc = "no"
      /\ \A r \in Pushing : r # p => push'[r] = push[r]
  BY DEF PushStore, Resting, Sound, PushOK
<1>2. \A r \in Pushing : PushGoesOn(r)
  <2>. TAKE r \in Pushing
  <2>1. CASE r = p
    BY <1>1, <2>1 DEF PushGoesOn
  <2>2. CASE r # p
    BY <1>1, <2>2 DEF PushGoesOn
  <2>3. QED
    BY <2>1, <2>2
<1>3. PICK n \in Queues : n = push[p].queue
  BY DEF Sound, PushOK
<1>4. PICK h : h = Held(n)
  OBVIOUS
<1>5. RingsOK /\ PushOK
  BY DEF Sound
<1>6. /\ Held(n)' = h + 1 /\ \A k \in Queues \ {n} : Held(k)' = Held(k) /\ que'[k] = que[k]
      /\ h \in 0..QueueSize - 1 /\ que'[n].out_pos = que[n].out_pos
      /\ que'[n].buffer[Place(que[n], h)] = push[p].item
      /\ \A j \in 0..h - 1 : que'[n].buffer[Place(que[n], j)] = que[n].buffer[Place(que[n], j)]
  BY <1>3, <1>4, <1>5, StoreKeeps
<1>7. CASE n = "cmd"
  <2>1. EvtStill
    BY <1>6, <1>7 DEF EvtStill, Queues
  <2>2. p # "rx"
    BY <1>1, <1>3, <1>7 DEF Sound, LineInv, EvtPushOK
  <2>3. push'["rx"] = push["rx"]
    BY <1>1, <2>2, SoundFacts
  <2>4. QED
    BY <1>2, <2>1, <2>3, StillStep
<1>8. CASE n = "evt"
  <2>1. PICK m \in Nat : m = EvtOnWay
    BY SoundFacts
  <2>2. EvtHand \in 0..1 /\ EvtHand' = EvtHand /\ m = EvtHand + h /\ EvtOnWay' = m + 1
        /\ h \in Nat
    BY <1>4, <1>6, <1>8, <2>1, SoundFacts DEF EvtHand, EvtOnWay
  <2>3. \A j : Place(que'.evt, j) = Place(que.evt, j)
    BY <1>6, <1>8 DEF Place
  <2>4. \A i \in 1..m : EvtLine(i)' = EvtLine(i)
    <3>. TAKE i \in 1..m
    <3>1. CASE i = EvtHand
      BY <2>2, <3>1 DEF EvtLine
    <3>2. CASE i # EvtHand
      <4>1. i - 1 - EvtHand \in 0..h - 1
        BY <2>2, <3>2
      <4>2. QED
        BY <1>6, <1>8, <2>2, <2>3, <3>2, <4>1 DEF EvtLine
    <3>3. QED
      BY <3>1, <3>2
  <2>5. EvtLine(m + 1)' = push[p].item
    <3>1. m + 1 # EvtHand /\ m + 1 - 1 - EvtHand = h
      BY <2>2
    <3>2. QED
      BY <1>6, <1>8, <2>2, <2>3, <3>1 DEF EvtLine
  <2>6. p = "rx" \/ p = "owner"
    BY <1>1, <1>3, <1>8 DEF Sound, LineInv, EvtPushOK, Pushing
  <2>7. \/ push[p].item \in Markers /\ RxOver
        \/ p = "rx" /\ ~RxOver /\ IsEvent(told, push[p].item, Len(handled) + m + 1)
    <3>1. CASE p = "rx"
      <4>1. \/ push[p].item = PortClose /\ RxOver
            \/ IsEvent(told, push[p].item, Len(handled) + m + 1)
        BY <1>1, <2>1, <3>1 DEF Sound, LineInv, EvtPushOK
      <4>2. PortClose \in Markers
        BY DEF Markers
      <4>3. IsEvent(told, push[p].item, Len(handled) + m + 1) => ~RxOver
        <5>. HAVE IsEvent(told, push[p].item, Len(handled) + m + 1)
        <5>1. push[p].item \notin Markers
          BY MarkersAreNot
        <5>2. RxOver => push["rx"].item = PortClose
          BY <1>1, <3>1 DEF RxOver
        <5>3. QED
          BY <3>1, <4>2, <5>1, <5>2
      <4>4. QED
        BY <3>1, <4>1, <4>2, <4>3
    <3>2. CASE p = "owner"
      BY <1>1, <1>3, <1>8, <3>2 DEF Sound, LineInv, EvtPushOK, Markers
    <3>3. QED
      BY <2>6, <3>1, <3>2
  <2>8. PICK x : x = push[p].item
    OBVIOUS
  <2>9. HandledOK' /\ EvtLineOK'
    <3>1. HandledOK /\ EvtLineOK /\ told \in Nat
      BY SoundFacts DEF Sound, LineInv
    <3>2. QED
      BY <2>1, <2>2, <2>4, <2>5, <2>7, <2>8, <3>1, EvtLineGrows
  <2>10. RxOver \/ (p = "rx" /\ push'["rx"].pc = "no")
    BY <1>1, <2>7
  <2>11. EvtPushOK'
    BY <1>2, <2>10, SoundFacts, EvtPushKept DEF Sound, LineInv, PushGoesOn
  <2>12. RxOver \/ Len(handled') + EvtOnWay' + RxHas' = Len(handled) + EvtOnWay + RxHas
    <3>1. p = "rx" => RxHas = 1 /\ RxHas' = 0
      BY <1>1 DEF RxHas
    <3>2. Len(handled) \in Nat
      BY DEF Sound, LineInv, HandledOK
    <3>3. QED
      BY <2>1, <2>2, <2>10, <3>1, <3>2
  <2>13. RxOK'
    BY <2>12, RxKept DEF Sound
  <2>14. QED
    BY <2>9, <2>11, <2>13 DEF LineInv
<1>9. QED
  BY <1>7, <1>8 DEF Queues

\* EventFetch: the first item of the ring is in the event thread's hand, the line is the
\* same.
LEMMA EventFetchFrame ==
    ASSUME Sound, RxOver => RxOver', EventFetch,
           UNCHANGED <<tx, push, handled, rx, told, wire, plugged>>
    PROVE  LineInv' /\ RxOK'
<1>1. PICK h : h = Held("evt")
  OBVIOUS
<1>2. /\ "evt" \in Queues /\ que' = [que EXCEPT !["evt"] = Fetch(que["evt"])]
      /\ Fetching("evt") /\ ~Fetching("evt")' /\ RingsOK
      /\ \A k \in Queues \ {"evt"} : Fetching(k)' <=> Fetching(k)
  BY DEF Queues, EventFetch, Fetching, Sound
<1>3. /\ h \in 1..QueueSize /\ Held("evt")' = h - 1 /\ que'.evt.buffer = que.evt.buffer
      /\ Front(que.evt) = que.evt.buffer[Place(que.evt, 0)]
      /\ \A j \in 0..h - 1 : Place(que'.evt, j) = Place(que.evt, j + 1)
  BY <1>1, <1>2, ConsumerFetches
<1>4. /\ EvtHand = 0 /\ EvtHand' = 1 /\ EvtOnWay = h /\ EvtOnWay' = EvtOnWay
      /\ event'.item = Front(que.evt)
  BY <1>1, <1>3, Constants DEF EvtHand, EvtOnWay, EventFetch
<1>5. \A i \in 1..EvtOnWay : EvtLine(i)' = EvtLine(i)
  <2>. SUFFICES ASSUME NEW i \in 1..h PROVE EvtLine(i)' = EvtLine(i)
    BY <1>4
  <2>0. EvtLine(i) = que.evt.buffer[Place(que.evt, i - 1)]
    <3>1. i # 0 /\ i - 1 - 0 = i - 1
      BY <1>3
    <3>2. QED
      BY <1>4, <3>1 DEF EvtLine
  <2>1. CASE i = 1
    <3>1. EvtLine(i)' = event'.item
      BY <1>4, <2>1 DEF EvtLine
    <3>2. EvtLine(i) = que.evt.buffer[Place(que.evt, 0)]
      BY <2>0, <2>1
    <3>3. QED
      BY <1>3, <1>4, <3>1, <3>2
  <2>2. CASE i # 1
    <3>1. i - 1 - 1 \in 0..h - 1 /\ (i - 1 - 1) + 1 = i - 1
      BY <1>3, <2>2
    <3>2. EvtLine(i)' = que'.evt.buffer[Place(que'.evt, i - 1 - 1)]
      BY <1>4, <2>2 DEF EvtLine
    <3>3. Place(que'.evt, i - 1 - 1) = Place(que.evt, i - 1)
      BY <1>3, <3>1
    <3>4. QED
      BY <1>3, <2>0, <3>2, <3>3
  <2>3. QED
    BY <2>1, <2>2
<1>6. EvtOnWay \in Nat
  BY SoundFacts
<1>7. (\A p \in Pushing : PushGoesOn(p)) /\ (push["rx"].pc # "no" => push'["rx"].pc # "no")
  BY NoPush
<1>8. QED
  BY <1>4, <1>5, <1>6, <1>7, FrameKept DEF Sound

\* EventHandle: the line loses its first.
LEMMA EventHandleFrame ==
    ASSUME Sound, RxOver => RxOver', EventHandle
    PROVE  LineInv' /\ RxOK'
<1>1. /\ UNCHANGED <<que, push, rx, told, wire, plugged>>
      /\ event.pc = "handle" /\ event'.pc # "handle" /\ event'.pc # "fetch"
  BY DEF EventHandle, EventDone, queVars, inVars, portVars
<1>2. PICK m \in Nat : m = EvtOnWay
  BY SoundFacts
<1>3. Held("evt")' = Held("evt")
  BY <1>1 DEF Held, Fetching
<1>4. EvtHand = 1 /\ EvtHand' = 0 /\ m > 0 /\ EvtOnWay' = m - 1
  BY <1>1, <1>2, <1>3, SoundFacts DEF EvtHand, EvtOnWay
<1>5. EvtLine(1) = event.item
  BY <1>4 DEF EvtLine
<1>6. \A i \in 1..m - 1 : EvtLine(i)' = EvtLine(i + 1)
  <2>. TAKE i \in 1..m - 1
  <2>1. i # 0 /\ i + 1 # 1 /\ i - 1 - 0 = i - 1 /\ (i + 1) - 1 - 1 = i - 1
    BY <1>4
  <2>2. EvtLine(i)' = que.evt.buffer[Place(que.evt, i - 1)]
    BY <1>1, <1>4, <2>1 DEF EvtLine, Place
  <2>3. EvtLine(i + 1) = que.evt.buffer[Place(que.evt, i - 1)]
    BY <1>4, <2>1 DEF EvtLine
  <2>4. QED
    BY <2>2, <2>3
<1>7. IF EvtLine(1).kind = "packet" THEN handled' = Append(handled, EvtLine(1).bytes)
                                    ELSE UNCHANGED handled
  BY <1>5 DEF EventHandle
<1>8. HandledOK' /\ EvtLineOK' /\ (EvtLine(1).kind # "packet" => RxOver)
  <2>1. HandledOK /\ EvtLineOK /\ told \in 0..Len(Packets)
    BY SoundFacts DEF Sound, LineInv
  <2>2. QED
    BY <1>1, <1>2, <1>4, <1>6, <1>7, <2>1, EvtLineShrinks
<1>9. RxOver \/ Len(handled') + EvtOnWay' = Len(handled) + EvtOnWay
  <2>1. CASE EvtLine(1).kind = "packet"
    <3>1. Len(handled) \in Nat /\ Len(handled') = Len(handled) + 1
      <4>. DEFINE S == Seq(Byte)
      <4>1. handled \in Seq(S) /\ handled' \in Seq(S)
        BY <1>8 DEF Sound, LineInv, HandledOK, Byte
      <4>. HIDE DEF S
      <4>2. handled' = Append(handled, EvtLine(1).bytes)
        BY <1>7, <2>1
      <4>3. QED
        BY <4>1, <4>2
    <3>2. QED
      BY <1>2, <1>4, <3>1
  <2>2. QED
    BY <1>8, <2>1
<1>10. \A p \in Pushing : PushGoesOn(p)
  BY <1>1, NoPush
<1>11. EvtPushOK'
  BY <1>1, <1>9, <1>10, SoundFacts, EvtPushKept DEF Sound, LineInv, PushGoesOn
<1>12. RxHas' = RxHas
  BY <1>1 DEF RxHas
<1>13. RxOK'
  <2>1. RxOver \/ Len(handled') + EvtOnWay' + RxHas' = Len(handled) + EvtOnWay + RxHas
    BY <1>9, <1>12
  <2>2. QED
    BY <1>1, <2>1, RxKept DEF Sound
<1>14. QED
  BY <1>8, <1>11, <1>13 DEF LineInv

\* The steps of TX and of the log thread.
LEMMA TransportFrame ==
    ASSUME Sound, RxOver => RxOver', Transport
    PROVE  LineInv' /\ RxOK'
<1>1. UNCHANGED <<push, event, handled, rx, told, wire, plugged>>
  BY DEF Transport, TxPop, TxCrash, TxHandle, LogEnds, queVars, inVars, evtVars, portVars
<1>2. EvtStill
  <2>1. CASE TxPop
    <3>1. que'.evt = que.evt
      BY <2>1 DEF TxPop, TxClaim, TxFetch, Sound, RingsOK, RingOK
    <3>2. QED
      BY <1>1, <3>1 DEF EvtStill, Held, Fetching
  <2>2. CASE TxCrash \/ TxHandle \/ LogEnds
    <3>1. UNCHANGED que
      BY <2>2 DEF TxCrash, TxHandle, LogEnds, queVars
    <3>2. QED
      BY <1>1, <3>1, SameRing
  <2>3. QED
    BY <2>1, <2>2 DEF Transport
<1>3. QED
  BY <1>1, <1>2, NoPush, StillStep

\* The steps of the event thread.
LEMMA EventsFrame ==
    ASSUME Sound, RxOver => RxOver', Events
    PROVE  LineInv' /\ RxOK'
<1>1. CASE EventPop /\ (EventLoop \/ EventClaim)
  <2>1. UNCHANGED <<push, handled, rx, told, wire, plugged>>
    BY <1>1 DEF EventPop, inVars, portVars
  <2>2. EvtStill
    <3>1. CASE EventLoop
      <4>1. /\ UNCHANGED que /\ event.pc \notin {"handle", "fetch"}
            /\ event'.pc \notin {"handle", "fetch"}
        BY <3>1 DEF EventLoop, Sound, ControlOK
      <4>2. QED
        BY <4>1, SameRing
    <3>2. CASE EventClaim
      <4>1. /\ "evt" \in Queues /\ MayFetch(que["evt"]) /\ RingsOK
            /\ que' = [que EXCEPT !["evt"] = ClaimData(que["evt"])]
            /\ event.pc = "wait" /\ event'.pc = "fetch"
        BY <3>2 DEF EventClaim, Queues, Sound, ControlOK
      <4>2. UNCHANGED tx
        BY <1>1 DEF EventPop, outVars
      <4>3. /\ ~Fetching("evt") /\ Fetching("evt")'
            /\ \A k \in Queues \ {"evt"} : Fetching(k)' <=> Fetching(k)
        BY <4>1, <4>2 DEF Fetching, Queues
      <4>4. /\ \A k \in Queues : Held(k)' = Held(k)
            /\ \A k \in Queues : que'[k].buffer = que[k].buffer /\ que'[k].out_pos = que[k].out_pos
        BY <2>1, <4>1, <4>3, ConsumerClaims
      <4>5. QED
        BY <4>1, <4>4 DEF EvtStill
    <3>3. QED
      BY <1>1, <3>1, <3>2
  <2>3. QED
    BY <2>1, <2>2, NoPush, StillStep
<1>2. CASE EventPop /\ EventFetch
  <2>1. UNCHANGED <<tx, push, handled, rx, told, wire, plugged>>
    BY <1>2 DEF EventPop, outVars, inVars, portVars
  <2>2. QED
    BY <1>2, <2>1, EventFetchFrame
<1>3. CASE EventHandle
  BY <1>3, EventHandleFrame
<1>4. CASE EventCallback \/ EventHub
  <2>1. UNCHANGED <<que, push, handled, rx, told, wire, plugged>>
    BY <1>4, EventGoesOn DEF queVars, inVars, portVars
  <2>2. EvtStill
    BY <1>4, <2>1, EventGoesOn, SameRing
  <2>3. QED
    BY <2>1, <2>2, NoPush, StillStep
<1>5. QED
  BY <1>1, <1>2, <1>3, <1>4 DEF Events, EventPop

\* The detecting thread, the end of RX, and the dongle pulled out.
LEMMA PortFrame ==
    ASSUME Sound, RxOver => RxOver',
           RxStop \/ DetectGone \/ DetectStop \/ Unplug \/ UseAfterDelete
    PROVE  LineInv' /\ RxOK'
<1>1. UNCHANGED <<que, push, event, handled, rx, told>>
  BY DEF RxStop, DetectGone, DetectStop, Unplug, UseAfterDelete, queVars, inVars, evtVars
<1>2. UNCHANGED <<wire, plugged>> \/ ~plugged'
  BY DEF RxStop, DetectGone, DetectStop, Unplug, UseAfterDelete, inVars, portVars
<1>3. QED
  BY <1>1, <1>2, NoPush, SameRing, StillStep

\* Init and Deinit.
LEMMA OwnerFrame ==
    ASSUME Sound, RxOver => RxOver', Owner
    PROVE  LineInv' /\ RxOK'
<1>1. UNCHANGED <<que, event, handled, rx, told, wire, plugged>>
  BY DEF Owner, OpenSerialPort, Connect, CreatePortEvent, Callback, StopThread, SendExit, Join, queVars,
         inVars, evtVars, portVars
<1>2. CASE OpenSerialPort \/ Connect \/ CreatePortEvent \/ Callback \/ StopThread \/ Join
  <2>1. UNCHANGED push
    BY <1>2 DEF OpenSerialPort, Connect, CreatePortEvent, Callback, StopThread, Join, queVars
  <2>2. QED
    BY <1>1, <2>1, NoPush, SameRing, StillStep
<1>3. CASE SendExit
  <2>1. \A r \in Pushing : r # "owner" => push'[r] = push[r]
    BY <1>3 DEF SendExit, Sound, PushOK
  <2>2. \/ push'["owner"].queue = "cmd"
        \/ push'["owner"].item = EvtExit /\ owner = "exit_evt" /\ owner' = "delete"
    BY <1>3, SoundFacts DEF SendExit, Sound, PushOK, Pushes
  <2>3. owner = "exit_evt" => RxOver
    <3>. HAVE owner = "exit_evt"
    <3>1. thread.rx = "ended" /\ push["rx"].pc = "no" /\ owner \notin Starting
      BY DEF Sound, PortOK, Closing, Starting, Before
    <3>2. QED
      BY <3>1 DEF RxOver
  <2>4. \A r \in Pushing : PushGoesOn(r)
    <3>. TAKE r \in Pushing
    <3>1. CASE r = "owner"
      BY <2>2, <2>3, <3>1, SoundFacts DEF PushGoesOn
    <3>2. CASE r # "owner"
      BY <2>1, <3>2 DEF PushGoesOn
    <3>3. QED
      BY <3>1, <3>2
  <2>5. push'["rx"] = push["rx"]
    BY <2>1, SoundFacts
  <2>6. EvtStill
    BY <1>1, SameRing
  <2>7. QED
    BY <1>1, <2>4, <2>5, <2>6, StillStep
<1>4. QED
  BY <1>2, <1>3 DEF Owner

\* RX reads on, and gives no packet away.
LEMMA ReadFrame ==
    ASSUME Sound, RxOver => RxOver', RxHeader \/ RxBeginData \/ RxData \/ RxDoubleDelete
    PROVE  LineInv' /\ RxOK'
<1>1. UNCHANGED <<que, push, event, handled, told, plugged>>
  BY DEF RxHeader, RxBeginData, RxData, RxDoubleDelete, queVars, evtVars, portVars
<1>2. /\ EvtOnWay \in Nat /\ EvtOnWay' = EvtOnWay
      /\ \A i \in 1..EvtOnWay : EvtLine(i)' = EvtLine(i)
  BY <1>1, SameRing, EvtLineStill DEF Sound, RingsOK
<1>3. LineInv'
  BY <1>1, <1>2, NoPush, SoundFacts, LineInvKept DEF Sound
<1>4. RxHas' = RxHas
  BY <1>1 DEF RxHas
<1>5. CASE RxOver
  BY <1>3, <1>5 DEF RxOK
<1>6. CASE ~RxOver /\ (RxHeader \/ RxData)
  <2>1. ReadsByte
    <3>1. CASE RxHeader
      BY <3>1 DEF RxHeader, ReadsByte
    <3>2. CASE RxData
      <4>1. rx = [at |-> rx.at, bytes |-> rx.bytes, remaining |-> rx.remaining] /\ rx.at # "type"
        BY <3>2 DEF RxData, Sound, WireOK
      <4>2. rx'.bytes = Append(rx.bytes, Head(wire))
        BY <3>2, <4>1 DEF RxData
      <4>3. QED
        BY <3>2, <4>1, <4>2 DEF RxData, ReadsByte
    <3>3. QED
      BY <1>6, <3>1, <3>2
  <2>2. InHeader \/ InData
    <3>1. CASE RxHeader
      BY <3>1 DEF RxHeader, InHeader
    <3>2. CASE RxData
      BY <3>2 DEF RxData, InData, Sound, WireOK
    <3>3. QED
      BY <1>6, <3>1, <3>2
  <2>3. RxOK'
    BY <1>1, <1>2, <1>4, <1>6, <2>1, <2>2, ByteStep DEF Sound
  <2>4. QED
    BY <1>3, <2>3
<1>7. CASE ~RxOver /\ (RxBeginData \/ RxDoubleDelete)
  <2>1. PICK q \in 1..told + 1 : Reads(q)
    BY <1>7 DEF Sound, RxOK
  <2>2. /\ UNCHANGED wire /\ rx'.at = "data" /\ rx.at = "others"
        /\ rx'.bytes = rx.bytes /\ rx'.remaining = rx.remaining
    <3>1. CASE RxBeginData
      BY <3>1 DEF RxBeginData, Sound, WireOK
    <3>2. CASE RxDoubleDelete
      <4>1. rx.at = "data" /\ rx.bytes = <<>> /\ Len(<<>>) = 0
        BY <3>2 DEF RxDoubleDelete
      <4>2. Len(rx.bytes) >= 3
        BY <2>1, <4>1, ReadSoFar DEF Reads
      <4>3. QED
        BY <4>1, <4>2
    <3>3. QED
      BY <1>7, <3>1, <3>2
  <2>3. Reading(q)'
    BY <1>1, <2>1, <2>2 DEF Reads, Reading, Byte, Bytes
  <2>4. plugged' => \E cut : Cuts(q, cut, wire', told', Len(rx'.bytes))
    BY <1>1, <2>1, <2>2 DEF Reads
  <2>5. Rank(q - 1)' = Len(handled') + EvtOnWay' + RxHas'
    BY <1>1, <1>2, <1>4, <2>1 DEF Reads, Rank, EventsOf
  <2>6. Reads(q)'
    BY <2>3, <2>4, <2>5 DEF Reads
  <2>7. RxOK'
    BY <1>1, <2>6 DEF RxOK
  <2>8. QED
    BY <1>3, <2>7
<1>8. QED
  BY <1>5, <1>6, <1>7

\* RX has a whole packet: the next event goes on its way, or nothing does.
LEMMA PacketFrame ==
    ASSUME Sound, RxPacket
    PROVE  LineInv' /\ RxOK'
<1>1. /\ UNCHANGED <<que, event, handled, wire, told, plugged, thread, owner, serialPortEvent>>
      /\ thread.rx = "run" /\ push["rx"].pc = "no"
      /\ rx.at = "data" /\ rx.remaining = 0 /\ rx.bytes # <<>>
      /\ rx'.at = "type" /\ rx'.bytes = <<>>
  BY DEF RxPacket, RxRuns, ownVars, evtVars, portVars
<1>2. ~RxOver
  BY <1>1 DEF RxOver
<1>3. PICK q \in 1..told + 1 : Reads(q)
  BY <1>2 DEF Sound, RxOK
<1>4. /\ q \in 1..Len(Packets) /\ q \in 1..told /\ rx.bytes = Bytes(q) /\ rx.bytes[1][1] = q
      /\ Len(rx.bytes) = 3 + Packets[q].len
  BY <1>1, <1>3, SoundFacts, WholePacket DEF Reads
<1>5. Rank(q - 1) = Len(handled) + EvtOnWay /\ Len(handled) \in Nat /\ RxHas = 0
  <2>1. RxHas = 0 /\ Len(handled) \in Nat
    BY <1>1 DEF RxHas, Sound, LineInv, HandledOK
  <2>2. QED
    BY <1>3, <2>1, SoundFacts DEF Reads
<1>6. /\ EvtOnWay' = EvtOnWay /\ \A i \in 1..EvtOnWay : EvtLine(i)' = EvtLine(i)
  BY <1>1, SameRing, EvtLineStill DEF Sound, RingsOK
<1>7. HandledOK' /\ EvtLineOK'
  <2>1. HandledOK /\ EvtLineOK
    BY DEF Sound, LineInv
  <2>2. told' \in Nat /\ told <= told'
    BY <1>1, SoundFacts
  <2>3. QED
    BY <1>1, <1>2, <1>6, <2>1, <2>2, SoundFacts, EvtLineKept
<1>8. Rank(q) = Rank(q - 1) + IF Packets[q].type = "event" THEN 1 ELSE 0
  <2>1. q - 1 \in Nat /\ (q - 1) + 1 = q
    BY <1>4
  <2>2. QED
    BY <2>1, RankStep
<1>9. \A p \in Pushing : p # "rx" => push'[p] = push[p]
  BY DEF RxPacket, Sound, PushOK
<1>10. \E c : Cuts(q + 1, c, wire', told', Len(rx'.bytes))
         \/ ~plugged'
  <2>. SUFFICES ASSUME plugged' PROVE \E c : Cuts(q + 1, c, wire', told', Len(rx'.bytes))
    OBVIOUS
  <2>1. PICK cut : Cuts(q, cut, wire, told, Len(rx.bytes))
    BY <1>1, <1>3 DEF Reads
  <2>2. /\ wire \in Seq(Byte) /\ Len(rx.bytes) \in Nat /\ q \in 1..told + 1 /\ q <= told
        /\ told \in 0..Len(Packets)
    BY <1>3, <1>4, SoundFacts DEF Sound, WireOK, Byte, Reads, Reading
  <2>3. \E c : Cuts(q + 1, c, wire, told, 0)
    BY <1>4, <2>1, <2>2, NextPacket
  <2>4. Len(rx'.bytes) = 0
    BY <1>1
  <2>5. QED
    BY <1>1, <2>3, <2>4
<1>11. Reading(q + 1)'
  BY <1>1 DEF Reading
<1>12. q + 1 \in 1..told' + 1 /\ (q + 1) - 1 = q
  BY <1>1, <1>4, SoundFacts
<1>13. ASSUME Rank(q) = Len(handled) + EvtOnWay + RxHas' PROVE RxOK'
  <2>1. Rank((q + 1) - 1)' = Len(handled') + EvtOnWay' + RxHas'
    BY <1>1, <1>6, <1>12, <1>13 DEF Rank, EventsOf
  <2>2. Reads(q + 1)'
    BY <1>10, <1>11, <2>1 DEF Reads
  <2>3. QED
    BY <1>12, <2>2 DEF RxOK
<1>14. CASE Packets[q].type = "event"
  <2>1. push'["rx"].pc = "space" /\ push'["rx"].queue = "evt" /\ push'["rx"].item = Packet(Bytes(q))
    BY <1>4, <1>14, SoundFacts DEF RxPacket, Pushes, Sound, PushOK
  <2>2. RxHas' = 1
    BY <2>1 DEF RxHas
  <2>3. Rank(q) = Len(handled) + EvtOnWay + 1
    BY <1>5, <1>8, <1>14, SoundFacts
  <2>4. IsEvent(told, push'["rx"].item, Len(handled) + EvtOnWay + 1)
    <3>1. q \in EventsOf(told)
      BY <1>4, <1>14 DEF EventsOf
    <3>2. QED
      BY <2>1, <2>3, <3>1 DEF IsEvent
  <2>5. EvtPushOK'
    <3>1. push'["owner"] = push["owner"] /\ \A p \in Senders : push'[p] = push[p]
      BY <1>9, SoundFacts
    <3>2. push["owner"].pc # "no" => push["owner"].queue # "evt"
      BY <1>2 DEF Sound, LineInv, EvtPushOK
    <3>3. \A p \in Senders : push[p].pc # "no" => push[p].queue = "cmd"
      BY DEF Sound, LineInv, EvtPushOK
    <3>4. IsEvent(told', push'["rx"].item, Len(handled') + EvtOnWay' + 1)
      BY <1>1, <1>6, <2>4
    <3>5. QED
      BY <2>1, <3>1, <3>2, <3>3, <3>4 DEF EvtPushOK
  <2>6. QED
    BY <1>7, <1>13, <2>2, <2>3, <2>5 DEF LineInv
<1>15. CASE Packets[q].type # "event"
  <2>1. UNCHANGED push
    BY <1>4, <1>15 DEF RxPacket
  <2>2. EvtPushOK'
    BY <1>1, <1>2, <1>6, <2>1, SoundFacts, EvtPushKept DEF Sound, LineInv
  <2>3. RxHas' = 0
    BY <1>1, <2>1 DEF RxHas
  <2>4. Rank(q) = Len(handled) + EvtOnWay + RxHas'
    BY <1>5, <1>8, <1>15, <2>3, SoundFacts
  <2>5. QED
    BY <1>7, <1>13, <2>2, <2>4 DEF LineInv
<1>16. QED
  BY <1>14, <1>15

\* RX tells of the port, and is through.
LEMMA PortGoneFrame ==
    ASSUME Sound, RxPortGone
    PROVE  LineInv' /\ RxOK'
<1>1. /\ UNCHANGED <<que, event, handled, wire, told, plugged, thread, owner>>
      /\ thread.rx = "run" /\ rx.at # "data"
      /\ serialPortEvent = "set" /\ serialPortEvent' = "closed"
  BY DEF RxPortGone, RxRuns, ownVars, evtVars
<1>2. /\ push'["rx"].queue = "evt" /\ push'["rx"].item = PortClose /\ push'["rx"].pc = "space"
      /\ \A p \in Pushing : p # "rx" => push'[p] = push[p]
  BY SoundFacts DEF RxPortGone, Pushes, Sound, PushOK
<1>3. rx'.at \in {"others", "data"} => rx'.bytes = <<>>
  <2>1. CASE rx.at = "others"
    BY <2>1 DEF RxPortGone, Sound, WireOK
  <2>2. CASE rx.at # "others"
    BY <1>1, <2>2 DEF RxPortGone
  <2>3. QED
    BY <2>1, <2>2
<1>4. RxOver'
  <2>1. owner' \notin Starting /\ ~plugged'
    BY <1>1 DEF Sound, PortOK
  <2>2. QED
    BY <1>1, <1>2, <1>3, <2>1, MarkersConstant DEF RxOver, Starting, Before
<1>5. /\ EvtOnWay' = EvtOnWay /\ \A i \in 1..EvtOnWay : EvtLine(i)' = EvtLine(i)
  BY <1>1, SameRing, EvtLineStill DEF Sound, RingsOK
<1>6. HandledOK' /\ EvtLineOK'
  <2>1. HandledOK /\ EvtLineOK
    BY DEF Sound, LineInv
  <2>2. told' \in Nat /\ told <= told'
    BY <1>1, SoundFacts
  <2>3. QED
    BY <1>1, <1>4, <1>5, <2>1, <2>2, SoundFacts, EvtLineKept
<1>7. EvtPushOK'
  <2>1. push'["owner"] = push["owner"] /\ \A p \in Senders : push'[p] = push[p]
    BY <1>2, SoundFacts
  <2>2. push["owner"].pc # "no" /\ push["owner"].queue = "evt" => push["owner"].item = EvtExit
    BY DEF Sound, LineInv, EvtPushOK
  <2>3. \A p \in Senders : push[p].pc # "no" => push[p].queue = "cmd"
    BY DEF Sound, LineInv, EvtPushOK
  <2>4. QED
    BY <1>2, <1>4, <2>1, <2>2, <2>3, MarkersConstant DEF EvtPushOK
<1>8. QED
  BY <1>4, <1>6, <1>7 DEF LineInv, RxOK

\* The dongle sends one more.
LEMMA TransmitFrame ==
    ASSUME Sound, RxOver => RxOver', Transmit
    PROVE  LineInv' /\ RxOK'
<1>1. /\ UNCHANGED <<que, push, event, handled, rx, plugged>>
      /\ told < Len(Packets) /\ told' = told + 1 /\ wire' = wire \o Bytes(told + 1)
  BY DEF Transmit, evtVars, portVars
<1>2. /\ EvtOnWay \in Nat /\ EvtOnWay' = EvtOnWay
      /\ \A i \in 1..EvtOnWay : EvtLine(i)' = EvtLine(i)
  BY <1>1, SameRing, EvtLineStill DEF Sound, RingsOK
<1>3. told \in Nat /\ told' \in Nat /\ told <= told' /\ told \in 0..Len(Packets) - 1
  BY <1>1, SoundFacts, Constants
<1>4. LineInv'
  BY <1>1, <1>2, <1>3, NoPush, LineInvKept DEF Sound
<1>5. CASE RxOver
  BY <1>4, <1>5 DEF RxOK
<1>6. CASE ~RxOver
  <2>1. PICK q \in 1..told + 1 : Reads(q)
    BY <1>6 DEF Sound, RxOK
  <2>2. Reading(q)'
    <3>1. q <= told => q <= told'
      BY <1>3
    <3>2. QED
      BY <1>1, <2>1, <3>1 DEF Reads, Reading, Byte, Bytes
  <2>3. plugged' => \E c : Cuts(q, c, wire', told', Len(rx'.bytes))
    <3>. SUFFICES ASSUME plugged' PROVE \E c : Cuts(q, c, wire', told', Len(rx'.bytes))
      OBVIOUS
    <3>1. PICK cut : Cuts(q, cut, wire, told, Len(rx.bytes))
      BY <1>1, <2>1 DEF Reads
    <3>2. wire \in Seq(Byte) /\ Len(rx.bytes) \in Nat
      BY <2>1 DEF Sound, WireOK, Byte, Reads, Reading
    <3>3. \E c : Cuts(q, c, wire \o Bytes(told + 1), told + 1, Len(rx.bytes))
      BY <1>3, <3>1, <3>2, WireGrows
    <3>4. QED
      BY <1>1, <3>3
  <2>4. Rank(q - 1)' = Len(handled') + EvtOnWay' + RxHas'
    BY <1>1, <1>2, <2>1 DEF Reads, Rank, EventsOf, RxHas
  <2>5. Reads(q)'
    BY <2>2, <2>3, <2>4 DEF Reads
  <2>6. q \in 1..told' + 1
    BY <1>1, <1>3
  <2>7. QED
    BY <1>4, <2>5, <2>6 DEF RxOK
<1>7. QED
  BY <1>5, <1>6

-----------------------------------------------------------------------------
(* Whole frames.                                                            *)

FrameInv == LineInv /\ RxOK /\ PortOK

\* At first nothing is on its way and nothing is read.
LEMMA FrameInit == Init => FrameInv
<1>. SUFFICES ASSUME Init PROVE FrameInv
  OBVIOUS
<1>1. /\ "rx" \in Pushing /\ "owner" \in Pushing /\ Senders \subseteq Pushing
  BY DEF Pushing, Senders
<1>2. \A p \in Pushing : push[p].pc = "no"
  BY DEF Init, Resting
<1>3. EvtHand = 0 /\ Held("evt") = 0 /\ EvtOnWay = 0 /\ RxHas = 0
  <2>1. que.evt.data_avail = 0 /\ ~Fetching("evt") /\ event.pc = "loop"
    BY DEF Init, NewQueue, Fetching
  <2>2. QED
    BY <1>1, <1>2, <2>1 DEF EvtHand, Held, EvtOnWay, RxHas
<1>4. told = 0 /\ handled = <<>> /\ wire = <<>> /\ rx.at = "type" /\ rx.bytes = <<>>
      /\ owner = "off" /\ plugged /\ serialPortEvent = "null" /\ thread.rx = "none"
  BY Zenon DEF Init, Threads
<1>5. HandledOK
  BY <1>4 DEF HandledOK
<1>6. EvtLineOK
  <2>1. Leads(0)
    BY <1>3 DEF Leads
  <2>2. QED
    BY <1>3, <2>1 DEF EvtLineOK
<1>7. EvtPushOK
  BY <1>1, <1>2 DEF EvtPushOK
<1>8. RxOK
  <2>1. Reading(1)
    BY <1>4 DEF Reading
  <2>2. Rank(1 - 1) = 0
    <3>1. EventsOf(0) = {} /\ 1 - 1 = 0
      BY DEF EventsOf
    <3>2. QED
      BY <3>1, FS_EmptySet DEF Rank
  <2>3. Cuts(1, [p \in 1..1 |-> 0], wire, told, Len(rx.bytes))
    <3>. DEFINE c == [p \in 1..1 |-> 0]
    <3>1. /\ c \in [1..told + 1 -> Int] /\ c[1] + Len(rx.bytes) = 0 /\ c[told + 1] = Len(wire)
          /\ 1..told = {}
      BY <1>4
    <3>. HIDE DEF c
    <3>2. Cuts(1, c, wire, told, Len(rx.bytes))
      BY <3>1 DEF Cuts
    <3>3. QED
      BY <3>2 DEF c
  <2>4. Len(handled) + EvtOnWay + RxHas = 0
    BY <1>3, <1>4
  <2>5. Reads(1)
    BY <2>1, <2>2, <2>3, <2>4 DEF Reads
  <2>6. QED
    BY <1>4, <2>5 DEF RxOK
<1>9. PortOK
  BY <1>1, <1>2, <1>4 DEF PortOK, Starting, Before, Closing
<1>10. QED
  BY <1>5, <1>6, <1>7, <1>8, <1>9 DEF FrameInv, LineInv

\* Every step keeps the frames whole.
LEMMA FrameNext == Inv /\ FrameInv /\ [Next]_vars => FrameInv'
<1>1. ASSUME Inv, FrameInv, Next PROVE FrameInv'
  <2>1. Sound
    BY <1>1 DEF Sound, Inv, FrameInv, QueueInv
  <2>2. PortOK' /\ (RxOver => RxOver')
    BY <1>1, <2>1, PortStep, OverStays DEF Sound
  <2>3. CASE \E p \in Senders : BeginPush(p)
    BY <2>1, <2>2, <2>3, BeginPushFrame DEF FrameInv
  <2>4. CASE \E p \in Pushing : PushStep(p)
    <3>1. PICK p \in Pushing : PushStep(p)
      BY <2>4
    <3>2. UNCHANGED <<tx, sent, event, handled, rx, told, wire, plugged>>
      BY <3>1 DEF PushStep, outVars, inVars, evtVars, portVars
    <3>3. CASE PushClaim(p)
      BY <2>1, <2>2, <3>2, <3>3, PushClaimFrame DEF FrameInv
    <3>4. CASE PushStore(p)
      BY <2>1, <2>2, <3>2, <3>4, PushStoreFrame DEF FrameInv
    <3>5. QED
      BY <3>1, <3>3, <3>4 DEF PushStep
  <2>5. CASE Transport
    BY <2>1, <2>2, <2>5, TransportFrame DEF FrameInv
  <2>6. CASE Reader
    <3>1. CASE RxStop
      BY <2>1, <2>2, <3>1, PortFrame DEF FrameInv
    <3>2. CASE RxPortGone
      BY <2>1, <2>2, <3>2, PortGoneFrame DEF FrameInv
    <3>3. CASE RxHeader \/ RxBeginData \/ RxData \/ RxDoubleDelete
      BY <2>1, <2>2, <3>3, ReadFrame DEF FrameInv
    <3>4. CASE RxPacket
      BY <2>1, <2>2, <3>4, PacketFrame DEF FrameInv
    <3>5. QED
      BY <2>6, <3>1, <3>2, <3>3, <3>4 DEF Reader
  <2>7. CASE Events
    BY <2>1, <2>2, <2>7, EventsFrame DEF FrameInv
  <2>8. CASE DetectGone \/ DetectStop \/ Unplug \/ UseAfterDelete
    BY <2>1, <2>2, <2>8, PortFrame DEF FrameInv
  <2>9. CASE Transmit
    BY <2>1, <2>2, <2>9, TransmitFrame DEF FrameInv
  <2>10. CASE Owner
    BY <2>1, <2>2, <2>10, OwnerFrame DEF FrameInv
  <2>11. QED
    BY <1>1, <2>3, <2>4, <2>5, <2>6, <2>7, <2>8, <2>9, <2>10 DEF Next
<1>2. ASSUME Inv, FrameInv, UNCHANGED vars PROVE FrameInv'
  <2>1. /\ UNCHANGED <<owner, thread, que, push, rx, wire, told, event, handled, plugged,
                       serialPortEvent>>
    BY <1>2 DEF vars, ownVars, queVars, inVars, evtVars, portVars
  <2>2. Sound
    BY <1>2 DEF Sound, Inv, FrameInv, QueueInv
  <2>3. PortOK'
    BY <2>1, <2>2 DEF Sound, PortOK
  <2>4. RxOver => RxOver'
    BY <2>1, MarkersConstant DEF RxOver
  <2>5. LineInv' /\ RxOK'
    BY <2>1, <2>2, <2>4, NoPush, SameRing, StillStep
  <2>6. QED
    BY <2>3, <2>5 DEF FrameInv
<1>3. QED
  BY <1>1, <1>2

\* Both ways over the serial line only whole frames go, whatever packets the dongle sends,
\* however their bytes arrive and whenever it is pulled out: the i-th event handled is the
\* i-th sent, with its own bytes (NPI_RX::Run, NPI_Queue), and every command up to
\* MaxPayload is built whole and does not end the process (NPI_CMD's builders).
THEOREM FramesAreWhole == Spec => []FramesWhole
<1>1. Inv /\ FrameInv => FramesWhole
  <2>. SUFFICES ASSUME Inv, FrameInv PROVE FramesWhole
    OBVIOUS
  <2>1. \A i \in 1..Len(handled) :
           \E p \in EventsOf(told) : handled[i] = Bytes(p) /\ Cardinality(EventsOf(p)) = i
    <3>. TAKE i \in 1..Len(handled)
    <3>1. IsEvent(told, Packet(handled[i]), i)
      BY DEF FrameInv, LineInv, HandledOK
    <3>2. PICK p \in EventsOf(told) : Packet(handled[i]) = Packet(Bytes(p)) /\ Rank(p) = i
      BY <3>1 DEF IsEvent
    <3>3. handled[i] = Bytes(p)
      <4>1. Packet(handled[i]).bytes = handled[i] /\ Packet(Bytes(p)).bytes = Bytes(p)
        BY DEF Packet
      <4>2. QED
        BY <3>2, <4>1, Zenon
    <3>4. QED
      BY <3>2, <3>3 DEF Rank
  <2>2. \A i \in 1..Len(sent) : Whole(sent[i]) \/ sent[i].payload > MaxPayload
    <3>. TAKE i \in 1..Len(sent)
    <3>1. sent[i] \in Commands
      BY DEF Inv, QueueInv, RingsOK, LineOK
    <3>2. sent[i] \in AllCommands
      BY <3>1 DEF AllCommands
    <3>3. QED
      BY <3>2, CommandsWhole
  <2>3. tx.pc = "handle" /\ TotalLen(tx.item) < 0 => tx.item.payload > MaxPayload
    <3>. HAVE tx.pc = "handle" /\ TotalLen(tx.item) < 0
    <3>1. 1 \in 1..OnWay /\ Line(1) = tx.item
      BY CountsAreNat DEF Inv, QueueInv, RingsOK, OnWay, InHand, Line, Queues
    <3>2. tx.item \in AllCommands
      BY <3>1 DEF Inv, QueueInv, RingsOK, LineOK
    <3>3. QED
      BY <3>2, CommandsWhole
  <2>4. QED
    BY <2>1, <2>2, <2>3 DEF FramesWhole
<1>2. QED
  BY <1>1, FrameInit, FrameNext, InvInit, InvNext, PTL DEF Spec
=============================================================================
