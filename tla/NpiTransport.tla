---------------------------- MODULE NpiTransport ----------------------------
(***************************************************************************)
(* The threads between the SDK and the dongle's serial port (Com, NPI_TX,  *)
(* NPI_RX, NPI_SerialPortDetect, Log and GF_CNpiInterface's event thread), *)
(* from Init to Deinit, with the dongle pulled out at any moment.  The     *)
(* owner is the client's thread inside BLEHub::init and BLEHub::deinit,    *)
(* which holds the hub's mTaskMutex while it starts and stops the threads; *)
(* the callers send commands with that mutex held (the hub command thread, *)
(* and init's for GAP_DeviceInit); the event thread sends them in its      *)
(* callbacks, where it also waits for the mutex.  The dongle is external:  *)
(* it sends packets, whose bytes arrive one at a time.                     *)
(***************************************************************************)
EXTENDS NpiCommands, NpiQueue, FiniteSets, Sequences

CONSTANTS Callers,         \* threads that send commands, mTaskMutex held
          Calls,           \* the GF_CNpiInterface calls they make
          Payloads,        \* lengths of what WriteCharacValue is given
          Packets,         \* what the dongle sends: [type, len], in order
          MaxTraffic,      \* bound on commands and packets together
          StartRaces       \* threads that may find m_bRun unset; bound: one does

ASSUME NpiTransportAssumption ==
    /\ IsFiniteSet(Callers) /\ Callers \cap {"owner", "rx", "evt"} = {}
    /\ Payloads \subseteq Nat
    /\ Packets \in Seq([type : {"event", "unknown"}, len : Nat])
    /\ MaxTraffic \in Nat
    /\ StartRaces \subseteq {"log", "tx", "rx", "detect", "evt"}

VARIABLES owner,           \* where Init or Deinit is
          thread,          \* "none", "run" or "ended", by thread
          stop,            \* threads whose m_event is set
          que,             \* m_cmdQue and m_evtQue
          push,            \* where each pushing thread is in Push
          traffic,         \* budget: commands begun and packets sent
          tx,              \* the TX thread: where in Run and its command
          rx,              \* the RX thread: state, packet so far, bytes left
          event,           \* the event thread: where in Run and its packet
          needCheck,       \* mNeedCheck of the detecting thread
          serialPortEvent, \* hSerialPortEvent
          logExit,         \* the log thread's exit message is posted
          plugged,         \* the dongle is there
          wire,            \* bytes of packets on their way to RX
          crashed,         \* the process is gone
          accepted,        \* history: commands in m_cmdQue, in order
          sent,            \* history: commands written to the port
          told,            \* how many packets the dongle has sent
          handled,         \* history: packets given to GF_Process_Event
          reported         \* history: the hub was told that the port is gone

ownVars  == <<owner, thread, stop>>
queVars  == <<que, push, traffic, accepted>>
outVars  == <<tx, logExit, sent>>
inVars   == <<rx, wire, told>>
evtVars  == <<event, handled, reported>>
portVars == <<needCheck, serialPortEvent, plugged>>
vars == <<ownVars, queVars, outVars, inVars, evtVars, portVars, crashed>>

Threads == {"log", "tx", "rx", "detect", "evt"}
Senders == Callers \cup {"evt"}
Pushing == Senders \cup {"owner", "rx"}

\* What the packets of the queues are: commands with their lengths, packets
\* with the bytes read, and the markers that end a thread.
Marker(name) == [name |-> name, payload |-> 0, alloc |-> 0, len |-> 0, fill |-> 0]
LogExit == Marker("HCI_LOG_THREAD_EXIT_PACKET")
TxExit  == Marker("HCI_EXIT_PACKET")
Packet(bytes) == [kind |-> "packet", bytes |-> bytes]
EvtExit   == [kind |-> "HCI_EXIT_PACKET", bytes |-> <<>>]
PortClose == [kind |-> "HCI_PORT_CLOSE_PACKET", bytes |-> <<>>]

Bytes(p) == <<<<p, "type">>, <<p, "code">>, <<p, "len">>>>
              \o [i \in 1..Packets[p].len |-> <<p, "data">>]

Resting == [pc |-> "no", item |-> NoItem, queue |-> "cmd"]
Pushes(item, queue) == [pc |-> "space", item |-> item, queue |-> queue]

Init ==
    /\ owner = "off"
    /\ thread = [t \in Threads |-> "none"]
    /\ stop = {}
    /\ que = [cmd |-> NewQueue, evt |-> NewQueue]
    /\ push = [p \in Pushing |-> Resting]
    /\ traffic = 0
    /\ tx = [pc |-> "wait", item |-> NoItem]
    /\ rx = [at |-> "type", bytes |-> <<>>, remaining |-> 0]
    /\ event = [pc |-> "loop", item |-> NoItem]
    /\ needCheck = TRUE
    /\ serialPortEvent = "null"
    /\ logExit = FALSE
    /\ plugged = TRUE
    /\ wire = <<>>
    /\ crashed = FALSE
    /\ accepted = <<>> /\ sent = <<>>
    /\ told = 0 /\ handled = <<>>
    /\ reported = FALSE
-----------------------------------------------------------------------------
(* NPI_Queue::Push, by whoever is in it.                                    *)

\* Mutant: a full queue does not make its producer wait.
PushClaimAnyway(p) ==
    /\ push[p].pc = "space"
    /\ push' = [push EXCEPT ![p].pc = "store"]
    /\ UNCHANGED <<que, accepted>>

PushClaim(p) ==
    /\ push[p].pc = "space"
    /\ MaySpace(que[push[p].queue])
    /\ que' = [que EXCEPT ![push[p].queue] = ClaimSpace(@)]
    /\ push' = [push EXCEPT ![p].pc = "store"]
    /\ UNCHANGED accepted

PushStore(p) ==
    /\ push[p].pc = "store"
    /\ que' = [que EXCEPT ![push[p].queue] = Store(@, push[p].item)]
    /\ accepted' = IF push[p].queue = "cmd" /\ push[p].item # TxExit
                     THEN Append(accepted, push[p].item) ELSE accepted
    /\ push' = [push EXCEPT ![p] = Resting]

PushStep(p) ==
    /\ ~crashed
    /\ PushClaim(p) \/ PushStore(p)
    /\ UNCHANGED <<ownVars, traffic, outVars, inVars, evtVars, portVars, crashed>>

\* The wrappers of the hub and of its scans and links.
HubWrapper ==
    [InitDevice |-> "GAP_DeviceInit", StartLEScan |-> "GAP_DeviceDiscoveryRequest",
     StopLEScan |-> "GAP_DeviceDiscoveryCancel", Connect |-> "GAP_EstablishLinkRequest",
     Disconnect |-> "GAP_TerminateLinkRequest", Authenticate |-> "GAP_Authenticate",
     Bond |-> "GAP_Bond"]

\* The wrappers of a connected device.
DeviceWrapper ==
    [ExchangeMTUSize |-> "GATT_ExchangeMTU",
     UpdateConnectionParameter |-> "L2CAP_ConnParamUpdateReq",
     DiscoveryAllPrimaryService |-> "GATT_DiscAllPrimaryServices",
     DiscoveryIncludedPrimaryService |-> "GATT_FindIncludedServices",
     DiscoveryCharacteristic |-> "GATT_DiscAllChar",
     ReadCharacteristicValue |-> "GATT_ReadCharVal",
     ReadCharacteristicLongValue |-> "GATT_ReadLongCharValue",
     FindCharacteristicDescriptor |-> "GATT_DiscAllCharDesc",
     WriteCharacValue |-> "GATT_WriteCharValue"]

Wrapper ==
    [w \in DOMAIN HubWrapper \cup DOMAIN DeviceWrapper |->
        IF w \in DOMAIN HubWrapper THEN HubWrapper[w] ELSE DeviceWrapper[w]]

ASSUME CallsAssumption == Calls \subseteq DOMAIN Wrapper

\* mCommand points at the transport: from Init's success to the end of Deinit,
\* also while the object is already deleted.
CommandSet == owner \in {"register", "up", "closing", "stop_detect", "stop_rx",
                         "exit_log", "join_log", "exit_tx", "join_tx", "exit_evt",
                         "delete", "forget"}

\* The owner joins the threads with the hub's mutex held.
Stopping == owner \in {"stop_detect", "stop_rx", "exit_log", "join_log", "exit_tx",
                       "join_tx", "exit_evt", "delete", "forget", "join_evt",
                       "off_again"}

\* mTaskMutex is taken: by deinit, or for a command that is being sent.
HubLocked == Stopping \/ \E p \in Callers : push[p].pc # "no"

\* The command thread sends until deinit has joined it, the event thread in its
\* callbacks.
MaySend(p) ==
    \/ p \in Callers /\ owner \in {"register", "up", "closing"} /\ ~HubLocked
    \/ p = "evt" /\ event.pc = "call"

BeginPush(p) ==
    /\ CommandSet /\ ~crashed
    /\ MaySend(p)
    /\ push[p].pc = "no"
    /\ traffic < MaxTraffic
    /\ traffic' = traffic + 1
    /\ \E call \in Calls :
         \E n \in IF call = "WriteCharacValue" THEN Payloads ELSE {0} :
            push' = [push EXCEPT ![p] = Pushes(Frame(Wrapper[call], n), "cmd")]
    /\ UNCHANGED <<ownVars, que, accepted, outVars, inVars, evtVars, portVars,
                   crashed>>
-----------------------------------------------------------------------------
(* The TX and log threads.                                                  *)

TxRuns == thread.tx = "run" /\ ~crashed

TxClaim ==
    /\ tx.pc = "wait"
    /\ MayFetch(que.cmd)
    /\ que' = [que EXCEPT !.cmd = ClaimData(@)]
    /\ tx' = [tx EXCEPT !.pc = "fetch"]

TxFetch ==
    /\ tx.pc = "fetch"
    /\ que' = [que EXCEPT !.cmd = Fetch(@)]
    /\ tx' = [pc |-> "handle", item |-> Front(que.cmd)]

TxPop ==
    /\ TxRuns
    /\ TxClaim \/ TxFetch
    /\ UNCHANGED <<ownVars, push, traffic, accepted, logExit, sent, inVars, evtVars,
                   portVars, crashed>>

\* A length above 127 is negative, and so is the size of the copy for the log.
TxCrash ==
    /\ TxRuns /\ tx.pc = "handle"
    /\ TotalLen(tx.item) < 0
    /\ crashed' = TRUE
    /\ UNCHANGED <<ownVars, queVars, outVars, inVars, evtVars, portVars>>

\* The copy for the log is posted (not if the log thread is gone); the exit
\* packet ends the thread, and everything else, the log's exit packet too, is
\* written to the port, which takes it or not.
TxHandle ==
    /\ TxRuns /\ tx.pc = "handle"
    /\ TotalLen(tx.item) >= 0
    /\ logExit' = (logExit \/ (tx.item = LogExit /\ thread.log = "run"))
    /\ tx' = [pc |-> "wait", item |-> NoItem]
    /\ IF tx.item = TxExit
         THEN thread' = [thread EXCEPT !.tx = "ended"] /\ UNCHANGED sent
         ELSE sent' = Append(sent, tx.item) /\ UNCHANGED thread
    /\ UNCHANGED <<owner, stop, queVars, inVars, evtVars, portVars, crashed>>

LogEnds ==
    /\ thread.log = "run" /\ ~crashed /\ logExit
    /\ thread' = [thread EXCEPT !.log = "ended"]
    /\ UNCHANGED <<owner, stop, queVars, outVars, inVars, evtVars, portVars, crashed>>
-----------------------------------------------------------------------------
(* The RX thread.                                                           *)

RxRuns == thread.rx = "run" /\ ~crashed /\ push["rx"].pc = "no"

\* At the top of its loop, which is not reached while the data of a packet is
\* being read, RX looks at its stop event...
RxStop ==
    /\ RxRuns /\ rx.at # "data"
    /\ "rx" \in stop
    /\ thread' = [thread EXCEPT !.rx = "ended"]
    /\ UNCHANGED <<owner, stop, queVars, outVars, inVars, evtVars, portVars, crashed>>

\* Mutant: the port event is looked at between packets only.
RxPortBetweenPackets ==
    /\ RxRuns /\ rx.at = "type"
    /\ serialPortEvent = "set"
    /\ serialPortEvent' = "closed"
    /\ push' = [push EXCEPT !["rx"] = Pushes(PortClose, "evt")]
    /\ UNCHANGED <<ownVars, que, traffic, accepted, outVars, inVars, evtVars, needCheck,
                   plugged, crashed>>

\* ... and at the port event, whose handle it closes.  The marker takes the
\* place of a packet whose data has not been read.
RxPortGone ==
    /\ RxRuns /\ rx.at # "data"
    /\ serialPortEvent = "set"
    /\ serialPortEvent' = "closed"
    /\ push' = [push EXCEPT !["rx"] = Pushes(PortClose, "evt")]
    /\ rx' = IF rx.at = "others" THEN [rx EXCEPT !.bytes = <<>>] ELSE rx
    /\ UNCHANGED <<ownVars, que, traffic, accepted, outVars, wire, told, evtVars, needCheck,
                   plugged, crashed>>

\* The header, a byte at a time; a read that times out leaves all as it is.
RxHeader ==
    /\ RxRuns /\ rx.at \in {"type", "code", "len"} /\ wire # <<>>
    /\ wire' = Tail(wire)
    /\ rx' = [at |-> CASE rx.at = "type" -> "code" [] rx.at = "code" -> "len"
                       [] rx.at = "len" -> "others",
              bytes |-> IF rx.at = "type" THEN <<Head(wire)>>
                          ELSE Append(rx.bytes, Head(wire)),
              remaining |-> IF rx.at = "len" THEN Packets[Head(wire)[1]].len ELSE 0]
    /\ UNCHANGED <<ownVars, queVars, outVars, told, evtVars, portVars, crashed>>

RxBeginData ==
    /\ RxRuns /\ rx.at = "others"
    /\ rx' = [rx EXCEPT !.at = "data"]
    /\ UNCHANGED <<ownVars, queVars, outVars, wire, told, evtVars, portVars, crashed>>

\* Mutant: a read returns no more bytes than were asked for, it is assumed to
\* return all of them.
RxDataAtOnce ==
    /\ RxRuns /\ rx.at = "data" /\ rx.remaining > 0 /\ wire # <<>>
    /\ wire' = Tail(wire)
    /\ rx' = [rx EXCEPT !.bytes = Append(@, Head(wire)), !.remaining = 0]
    /\ UNCHANGED <<ownVars, queVars, outVars, told, evtVars, portVars, crashed>>

\* The data, as it arrives.
RxData ==
    /\ RxRuns /\ rx.at = "data" /\ rx.remaining > 0 /\ wire # <<>>
    /\ wire' = Tail(wire)
    /\ rx' = [rx EXCEPT !.bytes = Append(@, Head(wire)), !.remaining = @ - 1]
    /\ UNCHANGED <<ownVars, queVars, outVars, told, evtVars, portVars, crashed>>

\* A whole packet goes to the event queue, one of an unknown type nowhere.
RxPacket ==
    /\ RxRuns /\ rx.at = "data" /\ rx.remaining = 0 /\ rx.bytes # <<>>
    /\ rx' = [at |-> "type", bytes |-> <<>>, remaining |-> 0]
    /\ push' = IF Packets[rx.bytes[1][1]].type = "event"
                 THEN [push EXCEPT !["rx"] = Pushes(Packet(rx.bytes), "evt")] ELSE push
    /\ UNCHANGED <<ownVars, que, traffic, accepted, outVars, wire, told, evtVars, portVars,
                   crashed>>

\* Undefined: the marker that took the packet's place is of no type RX knows
\* and is deleted, although it is in the event queue.
RxDoubleDelete ==
    /\ RxRuns /\ rx.at = "data" /\ rx.remaining = 0 /\ rx.bytes = <<>>
    /\ rx' = [rx EXCEPT !.at = "type"]
    /\ crashed' \in BOOLEAN
    /\ UNCHANGED <<ownVars, queVars, outVars, wire, told, evtVars, portVars>>
-----------------------------------------------------------------------------
(* GF_CNpiInterface::Run, the event thread.                                 *)

EventRuns == thread.evt = "run" /\ ~crashed /\ push["evt"].pc = "no"

\* mEventQueue is looked at before every Pop; when Deinit has cleared it the
\* thread goes round its outer loop for ever.
EventLoop ==
    /\ EventRuns /\ event.pc = "loop"
    /\ owner \notin {"join_evt", "off_again"}
    /\ event' = [event EXCEPT !.pc = "wait"]
    /\ UNCHANGED que

EventClaim ==
    /\ EventRuns /\ event.pc = "wait"
    /\ MayFetch(que.evt)
    /\ que' = [que EXCEPT !.evt = ClaimData(@)]
    /\ event' = [event EXCEPT !.pc = "fetch"]

EventFetch ==
    /\ EventRuns /\ event.pc = "fetch"
    /\ que' = [que EXCEPT !.evt = Fetch(@)]
    /\ event' = [pc |-> "handle", item |-> Front(que.evt)]

EventPop ==
    /\ EventLoop \/ EventClaim \/ EventFetch
    /\ UNCHANGED <<ownVars, push, traffic, accepted, outVars, inVars, handled, reported,
                   portVars, crashed>>

\* The packet is handled and the thread goes on, ended by either marker.
EventDone(item) ==
    /\ event' = [pc |-> "loop", item |-> NoItem]
    /\ thread' = IF item.kind = "packet" THEN thread ELSE [thread EXCEPT !.evt = "ended"]

\* GF_Process_Event gives a packet to the callbacks that are registered, which
\* may send commands; onComDestory is called for the port's marker while the
\* hub's callback is registered.
EventHandle ==
    /\ EventRuns /\ event.pc = "handle"
    /\ handled' = IF event.item.kind = "packet" THEN Append(handled, event.item.bytes)
                    ELSE handled
    /\ \/ event.item.kind = "packet" /\ owner \in {"register", "up", "closing"}
          /\ event' = [pc |-> "call", item |-> event.item] /\ UNCHANGED thread
       \/ event.item = PortClose /\ owner = "up"
          /\ event' = [pc |-> "hub", item |-> event.item] /\ UNCHANGED thread
       \/ ~(event.item = PortClose /\ owner = "up") /\ EventDone(event.item)
    /\ UNCHANGED <<owner, stop, queVars, outVars, inVars, reported, portVars, crashed>>

\* The callbacks are over, or reach the hub, whose own take mTaskMutex...
EventCallback ==
    /\ EventRuns /\ event.pc = "call"
    /\ \/ owner = "up" /\ event' = [pc |-> "hub", item |-> event.item] /\ UNCHANGED thread
       \/ EventDone(event.item)
    /\ UNCHANGED <<owner, stop, queVars, outVars, inVars, handled, reported, portVars,
                   crashed>>

\* ... and wait for it.
EventHub ==
    /\ EventRuns /\ event.pc = "hub"
    /\ ~HubLocked
    /\ EventDone(event.item)
    /\ reported' = (reported \/ event.item = PortClose)
    /\ UNCHANGED <<owner, stop, queVars, outVars, inVars, handled, portVars, crashed>>
-----------------------------------------------------------------------------
(* The detecting thread and the dongle.                                     *)

\* The port is gone: the check is over, and the event is set if there is one.
DetectGone ==
    /\ thread.detect = "run" /\ ~crashed
    /\ needCheck /\ ~plugged
    /\ needCheck' = FALSE
    /\ serialPortEvent' = IF serialPortEvent = "created" THEN "set" ELSE serialPortEvent
    /\ UNCHANGED <<ownVars, queVars, outVars, inVars, evtVars, plugged, crashed>>

DetectStop ==
    /\ thread.detect = "run" /\ ~crashed
    /\ "detect" \in stop
    /\ thread' = [thread EXCEPT !.detect = "ended"]
    /\ UNCHANGED <<owner, stop, queVars, outVars, inVars, evtVars, portVars, crashed>>

\* External: the dongle sends a packet, or is pulled out; what RX has not read
\* by then is lost.
Transmit ==
    /\ plugged /\ owner # "off" /\ ~crashed
    /\ told < Len(Packets) /\ traffic < MaxTraffic
    /\ traffic' = traffic + 1
    /\ told' = told + 1
    /\ wire' = wire \o Bytes(told + 1)
    /\ UNCHANGED <<ownVars, que, push, accepted, outVars, rx, evtVars, portVars, crashed>>

Unplug ==
    /\ plugged /\ owner # "off" /\ ~crashed
    /\ plugged' = FALSE
    /\ wire' = <<>>
    /\ UNCHANGED <<ownVars, queVars, outVars, rx, told, evtVars, needCheck, serialPortEvent,
                   crashed>>
-----------------------------------------------------------------------------
(* Init and Deinit.                                                         *)

\* The port that answers is opened; without one Init fails.
OpenSerialPort ==
    /\ owner = "off" /\ plugged /\ ~crashed
    /\ owner' = "log"
    /\ UNCHANGED <<thread, stop, queVars, outVars, inVars, evtVars, portVars, crashed>>

\* CThread::Start sets m_bRun after it has made the thread, which returns if
\* it looks first.
Connect ==
    /\ ~crashed
    /\ owner \in {"log", "tx", "rx", "detect", "evt"}
    /\ \/ thread' = [thread EXCEPT ![owner] = "run"]
       \/ /\ owner \in StartRaces /\ \A t \in Threads : thread[t] # "ended"
          /\ thread' = [thread EXCEPT ![owner] = "ended"]
    /\ owner' = CASE owner = "log" -> "tx" [] owner = "tx" -> "rx"
                  [] owner = "rx" -> "detect" [] owner = "detect" -> "event"
                  [] owner = "evt" -> "register"
    /\ UNCHANGED <<stop, queVars, outVars, inVars, evtVars, portVars, crashed>>

\* The port event exists only now.
CreatePortEvent ==
    /\ ~crashed
    /\ owner = "event"
    /\ serialPortEvent' = "created"
    /\ owner' = "evt"
    /\ UNCHANGED <<thread, stop, queVars, outVars, inVars, evtVars, needCheck, plugged,
                   crashed>>

\* Init goes on with GAP_DeviceInit and the hub's callback; deinit begins with
\* taking it away.
Callback ==
    /\ ~crashed
    /\ \/ owner = "register" /\ owner' = "up"
          /\ \A p \in Callers : push[p].pc = "no"
       \/ owner = "up" /\ owner' = "closing"
    /\ UNCHANGED <<thread, stop, queVars, outVars, inVars, evtVars, portVars, crashed>>

\* Deinit joins the command thread and takes mTaskMutex; then it stops the two
\* threads that look at their event, one after the other.
StopThread ==
    /\ ~crashed
    /\ \/ owner = "closing" /\ ~HubLocked
          /\ owner' = "stop_detect" /\ stop' = stop \cup {"detect"}
       \/ owner = "stop_detect" /\ thread.detect = "ended"
          /\ owner' = "stop_rx" /\ stop' = stop \cup {"rx"}
       \/ owner = "stop_rx" /\ thread.rx = "ended"
          /\ owner' = "exit_log" /\ UNCHANGED stop
    /\ UNCHANGED <<thread, queVars, outVars, inVars, evtVars, portVars, crashed>>

\* Mutant: the event thread is not told to end.
SendExitButEvent ==
    /\ ~crashed
    /\ \/ owner = "exit_log" /\ owner' = "join_log"
          /\ push' = [push EXCEPT !["owner"] = Pushes(LogExit, "cmd")]
       \/ owner = "exit_tx" /\ owner' = "join_tx"
          /\ push' = [push EXCEPT !["owner"] = Pushes(TxExit, "cmd")]
       \/ owner = "exit_evt" /\ owner' = "delete" /\ UNCHANGED push
    /\ UNCHANGED <<thread, stop, que, traffic, accepted, outVars, inVars, evtVars, portVars,
                   crashed>>

\* The others get an exit packet; the log thread gets its own through TX.
SendExit ==
    /\ ~crashed
    /\ \/ owner = "exit_log" /\ owner' = "join_log"
          /\ push' = [push EXCEPT !["owner"] = Pushes(LogExit, "cmd")]
       \/ owner = "exit_tx" /\ owner' = "join_tx"
          /\ push' = [push EXCEPT !["owner"] = Pushes(TxExit, "cmd")]
       \/ owner = "exit_evt" /\ owner' = "delete"
          /\ push' = [push EXCEPT !["owner"] = Pushes(EvtExit, "evt")]
    /\ UNCHANGED <<thread, stop, que, traffic, accepted, outVars, inVars, evtVars, portVars,
                   crashed>>

\* Join waits for TX and log; the event thread is joined only when the queues
\* are deleted and mEventQueue is cleared.
Join ==
    /\ ~crashed
    /\ push["owner"].pc = "no"
    /\ \/ owner = "join_log" /\ thread.log = "ended" /\ owner' = "exit_tx"
       \/ owner = "join_tx" /\ thread.tx = "ended" /\ owner' = "exit_evt"
       \/ owner = "delete" /\ owner' = "forget"
       \/ owner = "forget" /\ owner' = "join_evt"
       \/ owner = "join_evt" /\ thread.evt = "ended" /\ owner' = "off_again"
    /\ UNCHANGED <<thread, stop, queVars, outVars, inVars, evtVars, portVars, crashed>>

\* Undefined: a thread still in a deleted queue, or about to send through the
\* deleted transport, may find it as it was (the other actions) or bring the
\* process down.
UseAfterDelete ==
    /\ ~crashed
    /\ owner \in {"forget", "join_evt", "off_again"}
    /\ \/ \E p \in Senders : push[p].pc # "no"
       \/ thread.evt = "run" /\ event.pc \in {"wait", "fetch", "call"}
    /\ crashed' = TRUE
    /\ UNCHANGED <<ownVars, queVars, outVars, inVars, evtVars, portVars>>

Transport == TxPop \/ TxCrash \/ TxHandle \/ LogEnds
Reader == RxStop \/ RxPortGone \/ RxHeader \/ RxBeginData \/ RxData
            \/ RxPacket \/ RxDoubleDelete
Events == EventPop \/ EventHandle \/ EventCallback \/ EventHub
Owner == OpenSerialPort \/ Connect \/ CreatePortEvent \/ Callback \/ StopThread
           \/ SendExit \/ Join

Next ==
    \/ \E p \in Senders : BeginPush(p)
    \/ \E p \in Pushing : PushStep(p)
    \/ Transport
    \/ Reader
    \/ Events
    \/ DetectGone \/ DetectStop
    \/ Transmit \/ Unplug
    \/ Owner
    \/ UseAfterDelete

Spec == Init /\ [][Next]_vars

\* Every thread is scheduled, and the event thread gets the hub's mutex when it
\* stays free: commands are few.  RX, between two reads, looks at its stop event
\* and at the port event again and again.  Nothing makes the dongle send, the
\* user pull it out, a client send or anybody call Init or Deinit.
Fairness ==
    /\ \A p \in Pushing : WF_vars(PushStep(p))
    /\ WF_vars(Transport)
    /\ WF_vars(Reader) /\ SF_vars(RxStop) /\ SF_vars(RxPortGone)
    /\ WF_vars(Events)
    /\ WF_vars(DetectGone) /\ WF_vars(DetectStop)
    /\ WF_vars(owner \notin {"off", "up"} /\ Owner)

FairSpec == Spec /\ Fairness
-----------------------------------------------------------------------------
TypeOK ==
    /\ CommandSet \/ owner \in {"off", "log", "tx", "rx", "detect", "event", "evt",
                                "join_evt", "off_again"}
    /\ thread \in [Threads -> {"none", "run", "ended"}]
    /\ stop \subseteq {"detect", "rx"}
    /\ \A q \in {"cmd", "evt"} :
          /\ que[q].in_pos \in 0..QueueSize - 1 /\ que[q].out_pos \in 0..QueueSize - 1
          /\ que[q].space_avail >= 0 /\ que[q].data_avail >= 0
          /\ que[q].space_avail + que[q].data_avail <= QueueSize
    /\ \A p \in Pushing : push[p].pc \in {"no", "space", "store"}
    /\ traffic \in 0..MaxTraffic
    /\ tx.pc \in {"wait", "fetch", "handle"}
    /\ rx.at \in {"type", "code", "len", "others", "data"} /\ rx.remaining \in Nat
    /\ event.pc \in {"loop", "wait", "fetch", "handle", "call", "hub"}
    /\ serialPortEvent \in {"null", "created", "set", "closed"}
    /\ told \in 0..Len(Packets)
    /\ {needCheck, logExit, plugged, crashed, reported} \subseteq BOOLEAN

\* Whatever threads send, the port is given each command once, in the order of
\* the queue (NPI_Queue and NPI_TX::Run over all interleavings of their
\* semaphores, with the log's exit packet among the commands).
Commands == {Frame(Wrapper[c], n) : c \in Calls, n \in Payloads \cup {0}} \cup {LogExit}
Channel == INSTANCE OrderedChannel WITH Items <- Commands, Size <- QueueSize + 1
ImplementsChannel == Channel!Spec

\* The longest payload whose frame fits the signed length of NPI_TX::Run.
MaxPayload == 127 - CMD_HEAD_LEN - GattAccesses["GATT_WriteCharValue"].len

\* The events among the dongle's first n packets.
EventsOf(n) == {p \in 1..n : Packets[p].type = "event"}

\* Both ways over the serial line only whole frames go: the event thread gets
\* the dongle's events in order and without a gap, the i-th it handles being
\* the i-th sent, each with exactly its own bytes however they arrive
\* (NPI_RX::Run), and every command up to MaxPayload is built whole and does
\* not end the process (NPI_CMD's builders and NPI_TX::Run).
FramesWhole ==
    /\ \A i \in 1..Len(handled) :
          \E p \in EventsOf(told) :
             handled[i] = Bytes(p) /\ Cardinality(EventsOf(p)) = i
    /\ \A i \in 1..Len(sent) : Whole(sent[i]) \/ sent[i].payload > MaxPayload
    /\ tx.pc = "handle" /\ TotalLen(tx.item) < 0 => tx.item.payload > MaxPayload

\* RX waits for data that will not come; it does not look at its events there.
RxStuck == ~plugged /\ rx.at = "data" /\ rx.remaining > 0

\* The detecting thread saw the port go before CreatePortEvent.
DetectedTooEarly == ~needCheck /\ serialPortEvent \in {"null", "created"}

\* A thread that was started while m_bRun was still unset has done nothing.
NotRunning(ts) == \E t \in ts : thread[t] = "ended"

\* A push into a full queue whose consumer has ended.
Stranded(p, consumer) ==
    /\ push[p].pc = "space" /\ thread[consumer] = "ended"
    /\ ~MaySpace(que[push[p].queue])

\* A command waits for a TX thread that is not there; its sender holds
\* mTaskMutex or is the event thread.
CommandStuck == \E p \in Senders : Stranded(p, "tx")

\* Pulling the dongle out while the SDK is up is reported to the hub (detecting
\* thread, RX, event thread, which needs mTaskMutex for it), except when RX is in
\* the middle of a packet, when it was noticed too early, when one of the three
\* threads never ran, when the marker was handled before the hub's callback was
\* registered (the event thread has ended), or when a command is stuck for want of
\* a TX thread.
UnplugReported ==
    ~plugged /\ owner = "up" ~>
        \/ reported \/ owner # "up" \/ crashed
        \/ RxStuck \/ DetectedTooEarly \/ NotRunning({"detect", "rx", "evt"})
        \/ CommandStuck

\* The event thread found mEventQueue cleared: it never takes its exit packet.
EventSpins == owner = "join_evt" /\ thread.evt = "run" /\ event.pc = "loop"

\* The event thread is in a callback of the hub, waiting for the mutex which
\* deinit keeps until it has joined the event thread.
HubHeld == Stopping /\ thread.evt = "run" /\ event.pc = "hub"

\* deinit ends (the join of the command thread, the five shutdowns of DisConnect
\* and the Join after them), except when RX is in the middle of a packet, TX never
\* ran, an event queue nobody empties is full, the event thread is late, or it
\* waits for the mutex deinit holds.
DeinitEnds ==
    owner = "closing" ~>
        \/ owner = "off_again" \/ crashed
        \/ RxStuck \/ EventSpins \/ HubHeld \/ CommandStuck
        \/ owner = "join_log" /\ NotRunning({"tx"})
        \/ Stranded("rx", "evt") \/ Stranded("owner", "evt")
=============================================================================
