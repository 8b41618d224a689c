----------------------------- MODULE Connection -----------------------------
(***************************************************************************)
(* Connecting and disconnecting armbands: BLEDevice and BLEHub on the      *)
(* client threads, the AdapterManager's lists and its RemoteDevice         *)
(* objects, worked on by the hub's command thread, the dongle's event      *)
(* thread and one thread per RemoteDevice.  The dongle and its radio links *)
(* are external.  Scanning is over and every armband has been found, so    *)
(* mIsScanning is false throughout; service discovery is one step that     *)
(* needs the link.  The AdapterManager's list operations are atomic here,  *)
(* each within the step of the thread that makes it.                       *)
(***************************************************************************)
EXTENDS Naturals, Sequences, FiniteSets

CONSTANTS Devices,         \* armbands, each with its BLEDevice object
          Address,         \* of each, with its type, as a number
          Clients,         \* client threads
          Handles,         \* connection handles of the dongle
          MaxConnects,     \* bound: RemoteDevice objects ever made
          Budgets          \* what may happen: sets of bounds, one of them holds

\* What is bounded.  All but the first two make the clients' picture wrong in
\* one way or another, and the properties say which of them they need absent.
Deeds == {"disconnect",    \* disconnect calls
          "loss",          \* links lost on their own
          "early",         \* links lost before their thread has the handle
          "cancel",        \* cancelConnect calls
          "again",         \* connect calls before the last one's answer
          "slow",          \* client threads that stop before their status write
          "reuse"}         \* handles the dongle gives again while something
                           \* still refers to the old link
NoDevice == "none"
INVALID_HANDLE == 65535
Free == "free"
Ids == 1..MaxConnects
NULL == 0

ASSUME ConnectionAssumption ==
    /\ NoDevice \notin Devices /\ IsFiniteSet(Devices)
    /\ Address \in [Devices -> Nat]
    /\ \A d, e \in Devices : Address[d] = Address[e] => d = e
    /\ Free \notin Clients
    /\ Handles \subseteq Nat
    /\ INVALID_HANDLE \notin Handles
    /\ MaxConnects \in Nat
    /\ Budgets \subseteq [Deeds -> Nat]

VARIABLES mCnntStatus, mHandle,     \* of each BLEDevice
          mProfile,                 \* the BLEDevices that have a data profile
          mConnectedDevices,        \* of the hub: std::sets, in the order of
          mDisconnDevices,          \* their trees
          crossed,                  \* history: the keys of the sets have not
                                    \* kept the order of the addresses
          mTaskMutex,               \* Free, or the client whose Disconnect
                                    \* the command thread is stuck in
          client,                   \* what each client thread is doing
          mIsConnecting,            \* of the AdapterManager
          mConnectingDevice,        \* its lists of RemoteDevice objects
          mConnectedDevice,
          mDisconnectingDevice,
          mCancelConnectingDevice,
          remote,                   \* the RemoteDevice objects made so far
          event,                    \* the event thread
          pending,                  \* dongle: armband it is connecting to
          links,                    \* dongle: armband at each handle
          events,                   \* dongle: events not yet taken
          budget                    \* of each deed, and whether it was done

deviceVars == <<mCnntStatus, mHandle, mProfile>>
setVars    == <<mConnectedDevices, mDisconnDevices, crossed>>
listVars   == <<mConnectingDevice, mConnectedDevice, mDisconnectingDevice,
                mCancelConnectingDevice>>
dongleVars == <<pending, links, events>>
vars == <<deviceVars, setVars, mTaskMutex, client, mIsConnecting, listVars,
          remote, event, dongleVars, budget>>

NoCall  == [pc |-> "idle", op |-> "none", dev |-> NoDevice, handle |-> INVALID_HANDLE]
NoEvent == [pc |-> "idle", addr |-> NoDevice, handle |-> INVALID_HANDLE, del |-> NULL]

Spend(b) == /\ budget[b].left > 0
            /\ budget' = [budget EXCEPT ![b] = [left |-> @.left - 1, done |-> TRUE]]
Never(b) == ~budget[b].done

\* Searches of the AdapterManager's lists, front first: what of a list is in S,
\* the j-th of it being the one with j of the kept positions up to its own.
Kept[search \in Seq(Ids) \X SUBSET Ids] ==
    LET list == search[1]
        K == {k \in 1..Len(list) : list[k] \in search[2]}
    IN  [j \in 1..Cardinality(K) |->
           list[CHOOSE k \in K : Cardinality({l \in K : l <= k}) = j]]

OfAddr(list, d)      == Kept[<<list, {i \in DOMAIN remote : remote[i].addr = d}>>]
NotOfAddr(list, d)   == Kept[<<list, {i \in DOMAIN remote : remote[i].addr # d}>>]
AtHandle(list, h)    == Kept[<<list, {i \in DOMAIN remote : remote[i].handle = h}>>]
NotAtHandle(list, h) == Kept[<<list, {i \in DOMAIN remote : remote[i].handle # h}>>]
Backwards(list)      == [k \in 1..Len(list) |-> list[Len(list) + 1 - k]]
Elements(list)       == {list[k] : k \in 1..Len(list)}

\* BLEDevice::operator<, the order of the hub's sets: by handle if both are
\* Connected, else by address.  Both are fields that change in the set.
Less(d, e) == IF mCnntStatus[d] = "Connected" /\ mCnntStatus[e] = "Connected"
                THEN mHandle[d] < mHandle[e] ELSE Address[d] < Address[e]
Same(d, e) == ~Less(d, e) /\ ~Less(e, d)

\* Two that are Connected come in the order of their addresses.
Aligned == \A d, e \in Devices :
    /\ mCnntStatus[d] = "Connected" /\ mCnntStatus[e] = "Connected"
    /\ Address[d] < Address[e]
    => mHandle[d] < mHandle[e]

\* A search of a std::set goes down its tree to a gap between two elements, and
\* compares with both; with which others depends on the shape of the tree.  It
\* comes to one gap only when the order of the tree is that of the keys.
LowerBounds(set, x) ==
    {g \in 0..Len(set) : /\ g > 0 => Less(set[g], x)
                         /\ g < Len(set) => ~Less(set[g + 1], x)}
UpperBounds(set, x) ==
    {g \in 0..Len(set) : /\ g > 0 => ~Less(x, set[g])
                         /\ g < Len(set) => Less(x, set[g + 1])}

\* erase(key): everything from the lower to the upper bound, and nothing if the
\* search did not meet the key.
Erased(set, x) ==
    {SubSeq(set, 1, b[1]) \o SubSeq(set, b[2] + 1, Len(set)) :
        b \in {b \in LowerBounds(set, x) \X UpperBounds(set, x) :
                 \/ b[1] = b[2]
                 \/ \E k \in b[1] + 1..b[2] : Same(set[k], x)}}

\* insert(key): at the gap, unless the element before it is the same.
Inserted(set, x) ==
    {IF g = 0 \/ Less(set[g], x)
       THEN SubSeq(set, 1, g) \o <<x>> \o SubSeq(set, g + 1, Len(set)) ELSE set :
        g \in UpperBounds(set, x)}

\* The order of the addresses in which the sets start.
InOrder(set) == \A k, l \in 1..Len(set) : k < l => Address[set[k]] < Address[set[l]]

Init ==
    /\ mCnntStatus = [d \in Devices |-> "Disconnected"]
    /\ mHandle = [d \in Devices |-> INVALID_HANDLE]
    /\ mProfile = {}
    /\ mConnectedDevices = <<>>
    /\ mDisconnDevices \in [1..Cardinality(Devices) -> Devices]
    /\ Elements(mDisconnDevices) = Devices /\ InOrder(mDisconnDevices)
    /\ crossed = FALSE
    /\ mTaskMutex = Free
    /\ client = [c \in Clients |-> NoCall]
    /\ mIsConnecting = FALSE
    /\ mConnectingDevice = <<>>
    /\ mConnectedDevice = <<>>
    /\ mDisconnectingDevice = <<>>
    /\ mCancelConnectingDevice = NULL
    /\ remote = <<>>
    /\ event = NoEvent
    /\ pending = NoDevice
    /\ links = [h \in Handles |-> NoDevice]
    /\ events = <<>>
    /\ \E bound \in Budgets :
          budget = [b \in Deeds |-> [left |-> bound[b], done |-> FALSE]]
-----------------------------------------------------------------------------
\* The dongle.  It keeps one link request at a time; a second one, or one for an
\* armband that has a link, it refuses with a status that is only logged
\* (external).
RequestLink(d) ==
    /\ pending' = IF pending = NoDevice /\ \A h \in Handles : links[h] # d
                    THEN d ELSE pending
    /\ UNCHANGED <<links, events>>

\* GAP_TerminateLinkRequest(0xFFFE) ends the link request under way, whoever
\* made it, with an error event; otherwise it is refused (external).
CancelLinkRequest ==
    /\ pending' = NoDevice
    /\ events' = IF pending = NoDevice THEN events
                 ELSE Append(events, [kind |-> "upError", addr |-> NoDevice,
                                      handle |-> INVALID_HANDLE])
    /\ UNCHANGED links

DropLink(h) ==
    /\ links' = [links EXCEPT ![h] = NoDevice]
    /\ events' = Append(events, [kind |-> "down", addr |-> NoDevice, handle |-> h])
    /\ UNCHANGED pending

\* Mutant: the link is never terminated.
TerminateUnsent(h) == UNCHANGED dongleVars

TerminateLink(h) ==
    IF h \in Handles /\ links[h] # NoDevice THEN DropLink(h) ELSE UNCHANGED dongleVars

\* An event, a request or a RemoteDevice that still refers to handle h.
InUse(h) ==
    \/ event.handle = h
    \/ \E k \in 1..Len(events) : events[k].handle = h
    \/ \E c \in Clients : client[c].handle = h
    \/ \E i \in DOMAIN remote : h \in {remote[i].link, remote[i].handle}
                               /\ remote[i].thread # "deleted"

\* The armband the dongle is connecting to answers (external).
LinkUp(h) ==
    /\ pending # NoDevice
    /\ links[h] = NoDevice
    /\ IF InUse(h) THEN Spend("reuse") ELSE UNCHANGED budget
    /\ links' = [links EXCEPT ![h] = pending]
    /\ events' = Append(events, [kind |-> "up", addr |-> pending, handle |-> h])
    /\ pending' = NoDevice
    /\ UNCHANGED <<deviceVars, setVars, mTaskMutex, client, mIsConnecting,
                   listVars, remote, event>>

\* The thread of the RemoteDevice that the link at h is for knows the handle.
HandleTaken(h) ==
    /\ \A k \in 1..Len(events) : events[k].handle # h
    /\ \E i \in Elements(mConnectedDevice) :
          remote[i].addr = links[h] /\ remote[i].handle = h

\* A link is lost: out of range, switched off, pairing refused (external).
LinkLost(h) ==
    /\ links[h] # NoDevice
    /\ IF HandleTaken(h) THEN Spend("loss") ELSE Spend("early")
    /\ DropLink(h)
    /\ UNCHANGED <<deviceVars, setVars, mTaskMutex, client, mIsConnecting,
                   listVars, remote, event>>
-----------------------------------------------------------------------------
\* BLEDevice::connect, disconnect and cancelConnect read mCnntStatus on the
\* client's thread and then call the hub, which queues the request.
ConnectCall(c, d) ==
    /\ client[c].pc = "idle"
    /\ Len(remote) < MaxConnects
    /\ mCnntStatus[d] \in {"Disconnected", "Connecting"}
    /\ IF mCnntStatus[d] = "Disconnected" /\ \A b \in Clients : client[b].dev # d
         THEN UNCHANGED budget
         ELSE Spend("again")
    /\ client' = [client EXCEPT ![c] = [NoCall EXCEPT !.pc = "queued",
                                           !.op = "connect", !.dev = d]]
    /\ UNCHANGED <<deviceVars, setVars, mTaskMutex, mIsConnecting, listVars,
                   remote, event, dongleVars>>

DisconnectCall(c, d) ==
    /\ client[c].pc = "idle"
    /\ Spend("disconnect")
    /\ mCnntStatus[d] = "Connected"
    /\ mHandle[d] # INVALID_HANDLE
    /\ client' = [client EXCEPT ![c] = [pc |-> "queued", op |-> "disconnect",
                                           dev |-> d, handle |-> mHandle[d]]]
    /\ UNCHANGED <<deviceVars, setVars, mTaskMutex, mIsConnecting, listVars,
                   remote, event, dongleVars>>

CancelCall(c, d) ==
    /\ client[c].pc = "idle"
    /\ Spend("cancel")
    /\ mCnntStatus[d] = "Connecting"
    /\ client' = [client EXCEPT ![c] = [NoCall EXCEPT !.pc = "queued",
                                           !.op = "cancelConnect", !.dev = d]]
    /\ UNCHANGED <<deviceVars, setVars, mTaskMutex, mIsConnecting, listVars,
                   remote, event, dongleVars>>

\* What the client thread does when its request has succeeded: it overwrites
\* mCnntStatus, at once or, if the thread is slow, some time later.
StatusAfter(op) == IF op = "connect" THEN "Connecting" ELSE "Disconnecting"

Succeed(c) ==
    \/ /\ Spend("slow")
       /\ client' = [client EXCEPT ![c].pc = "write"]
       /\ UNCHANGED mCnntStatus
    \/ /\ client' = [client EXCEPT ![c] = NoCall]
       /\ mCnntStatus' = [mCnntStatus EXCEPT
                            ![client[c].dev] = StatusAfter(client[c].op)]
       /\ UNCHANGED budget

WriteStatus(c) ==
    /\ client[c].pc = "write"
    /\ mCnntStatus' = [mCnntStatus EXCEPT
                         ![client[c].dev] = StatusAfter(client[c].op)]
    /\ client' = [client EXCEPT ![c] = NoCall]
    /\ UNCHANGED <<mHandle, mProfile, setVars, mTaskMutex, mIsConnecting, listVars,
                   remote, event, dongleVars, budget>>

\* AdapterManager::Connect on the command thread, for a direct connection.
Connect(c) ==
    /\ client[c].pc = "queued" /\ client[c].op = "connect"
    /\ mTaskMutex = Free
    /\ \/ /\ mIsConnecting
          /\ client' = [client EXCEPT ![c] = NoCall]
          /\ UNCHANGED <<mCnntStatus, mIsConnecting, listVars, remote, dongleVars,
                         budget>>
       \/ /\ ~mIsConnecting
          /\ Len(remote) < MaxConnects
          /\ remote' = Append(remote, [addr   |-> client[c].dev,
                                       handle |-> INVALID_HANDLE,
                                       link   |-> INVALID_HANDLE,
                                       thread |-> "none",
                                       dev    |-> NoDevice])
          /\ RequestLink(client[c].dev)
          /\ mConnectingDevice' = <<Len(remote) + 1>> \o mConnectingDevice
          /\ mIsConnecting' = TRUE
          /\ Succeed(c)
          /\ UNCHANGED <<mConnectedDevice, mDisconnectingDevice,
                         mCancelConnectingDevice>>
    /\ UNCHANGED <<mHandle, mProfile, setVars, mTaskMutex, event>>

\* AdapterManager::CancelConnect: it succeeds whether or not it knows the
\* device.
CancelConnect(c) ==
    /\ client[c].pc = "queued" /\ client[c].op = "cancelConnect"
    /\ mTaskMutex = Free
    /\ LET mine == OfAddr(mConnectingDevice, client[c].dev)
       IN  IF mine # <<>>
             THEN /\ mCancelConnectingDevice' = Head(mine)
                  /\ mConnectingDevice' =
                        Kept[<<mConnectingDevice, DOMAIN remote \ {Head(mine)}>>]
             ELSE UNCHANGED <<mCancelConnectingDevice, mConnectingDevice>>
    /\ CancelLinkRequest
    /\ mIsConnecting' = FALSE
    /\ Succeed(c)
    /\ UNCHANGED <<mHandle, mProfile, setVars, mTaskMutex, mConnectedDevice,
                   mDisconnectingDevice, remote, event>>

\* AdapterManager::Disconnect fails when no connected RemoteDevice has the
\* handle ...
DisconnectUnknown(c) ==
    /\ client[c].pc = "queued" /\ client[c].op = "disconnect"
    /\ mTaskMutex = Free
    /\ AtHandle(mConnectedDevice, client[c].handle) = <<>>
    /\ client' = [client EXCEPT ![c] = NoCall]
    /\ UNCHANGED <<deviceVars, setVars, mTaskMutex, mIsConnecting, listVars,
                   remote, event, dongleVars, budget>>

\* ... and otherwise calls its DeInit, which waits for its thread, the command
\* thread holding mTaskMutex all along.
DisconnectBegin(c) ==
    /\ client[c].pc = "queued" /\ client[c].op = "disconnect"
    /\ mTaskMutex = Free
    /\ AtHandle(mConnectedDevice, client[c].handle) # <<>>
    /\ mTaskMutex' = c
    /\ client' = [client EXCEPT ![c].pc = "join"]
    /\ UNCHANGED <<deviceVars, setVars, mIsConnecting, listVars,
                   remote, event, dongleVars, budget>>

\* The thread of a RemoteDevice stops between two messages only.
CanStop(i) == remote[i].thread \notin {"report", "onConnected", "protocol"}
DeInit(list) == [i \in DOMAIN remote |->
                   IF i \in Elements(list)
                     THEN [remote[i] EXCEPT !.thread = "stopped"]
                     ELSE remote[i]]

DisconnectEnd(c) ==
    /\ client[c].pc = "join"
    /\ LET h == client[c].handle
           mine == AtHandle(mConnectedDevice, h)
       IN  /\ \A i \in Elements(mine) : CanStop(i)
           /\ remote' = DeInit(mine)
           /\ mDisconnectingDevice' = Backwards(mine) \o mDisconnectingDevice
           /\ mConnectedDevice' = NotAtHandle(mConnectedDevice, h)
           /\ TerminateLink(h)
    /\ mTaskMutex' = Free
    /\ Succeed(c)
    /\ UNCHANGED <<mHandle, mProfile, setVars, mIsConnecting, mConnectingDevice,
                   mCancelConnectingDevice, event>>
-----------------------------------------------------------------------------
\* The event thread takes the next event of the dongle.
Take(kind) == /\ event.pc = "idle"
              /\ events # <<>>
              /\ Head(events).kind = kind
              /\ events' = Tail(events)
              /\ UNCHANGED <<pending, links>>

\* OnConnectEvent, success: every RemoteDevice that waits for this address
\* gets its thread and the message with the handle.
OnConnectEvent ==
    /\ Take("up")
    /\ LET e == Head(events)
           mine == OfAddr(mConnectingDevice, e.addr)
       IN  /\ remote' = [i \in DOMAIN remote |->
                           IF i \in Elements(mine)
                             THEN [remote[i] EXCEPT !.thread = "setup",
                                                    !.link = e.handle]
                             ELSE remote[i]]
           /\ mConnectedDevice' = Backwards(mine) \o mConnectedDevice
           /\ mConnectingDevice' = NotOfAddr(mConnectingDevice, e.addr)
           /\ mIsConnecting' = (mIsConnecting /\ mine = <<>>)
    /\ UNCHANGED <<deviceVars, setVars, mTaskMutex, client,
                   mDisconnectingDevice, mCancelConnectingDevice, event, budget>>

\* OnConnectEvent, failure: the hub is told that the device the last cancel
\* was for is not connected, without a handle.  (With a null or a deleted
\* mCancelConnectingDevice the program is gone: "crashed".)
OnConnectError ==
    /\ Take("upError")
    /\ mIsConnecting' = FALSE
    /\ LET i == mCancelConnectingDevice
       IN  IF i # NULL /\ remote[i].thread # "deleted"
             THEN event' = [pc |-> "hub", addr |-> remote[i].addr,
                            handle |-> INVALID_HANDLE, del |-> i]
             ELSE event' = [NoEvent EXCEPT !.pc = "crashed"]
    /\ UNCHANGED <<deviceVars, setVars, mTaskMutex, client, listVars, remote, budget>>

\* LINK_TERMINATED of a connected RemoteDevice: DeInit, which waits for its
\* thread, and out of the list.
LinkTerminated ==
    /\ Take("down")
    /\ LET h == Head(events).handle
           mine == AtHandle(mConnectedDevice, h)
       IN  /\ mine # <<>>
           /\ \A i \in Elements(mine) : CanStop(i)
           /\ remote' = DeInit(mine)
           /\ mConnectedDevice' = NotAtHandle(mConnectedDevice, h)
           /\ event' = [pc |-> "hub", addr |-> remote[Head(mine)].addr,
                        handle |-> h, del |-> Head(mine)]
    /\ UNCHANGED <<deviceVars, setVars, mTaskMutex, client, mIsConnecting,
                   mConnectingDevice, mDisconnectingDevice,
                   mCancelConnectingDevice, budget>>

\* LINK_TERMINATED of one being disconnected.
LinkTerminatedAsAsked ==
    /\ Take("down")
    /\ LET h == Head(events).handle
           mine == AtHandle(mDisconnectingDevice, h)
       IN  /\ AtHandle(mConnectedDevice, h) = <<>>
           /\ mine # <<>>
           /\ mDisconnectingDevice' = NotAtHandle(mDisconnectingDevice, h)
           /\ event' = [pc |-> "hub", addr |-> remote[Head(mine)].addr,
                        handle |-> h, del |-> Head(mine)]
    /\ UNCHANGED <<deviceVars, setVars, mTaskMutex, client, mIsConnecting,
                   mConnectingDevice, mConnectedDevice,
                   mCancelConnectingDevice, remote, budget>>

\* LINK_TERMINATED of a handle no list knows: "mapped to none device", logged.
LinkTerminatedUnknown ==
    /\ Take("down")
    /\ AtHandle(mConnectedDevice, Head(events).handle) = <<>>
    /\ AtHandle(mDisconnectingDevice, Head(events).handle) = <<>>
    /\ UNCHANGED <<deviceVars, setVars, mTaskMutex, client, mIsConnecting,
                   listVars, remote, event, budget>>

\* BLEHub::onDeviceDisconnected under mTaskMutex: the first connected device
\* with this handle is erased and goes to the disconnected, else it is the
\* disconnected one with this address.
HubDisconnected ==
    /\ event.pc = "hub"
    /\ mTaskMutex = Free
    /\ LET mine == {k \in 1..Len(mConnectedDevices) :
                       mHandle[mConnectedDevices[k]] = event.handle}
       IN  \/ \E k \in mine :
                /\ \A l \in mine : k <= l
                /\ mConnectedDevices' \in Erased(mConnectedDevices, mConnectedDevices[k])
                /\ mDisconnDevices' \in Inserted(mDisconnDevices, mConnectedDevices[k])
                /\ event' = [event EXCEPT !.pc = "device", !.addr = mConnectedDevices[k]]
                /\ UNCHANGED crossed
           \/ /\ mine = {}
              /\ event.addr \in Elements(mDisconnDevices)
              /\ mDisconnDevices' \in Inserted(mDisconnDevices, event.addr)
              /\ event' = [event EXCEPT !.pc = "device"]
              /\ UNCHANGED <<mConnectedDevices, crossed>>
           \/ /\ mine = {}
              /\ event.addr \notin Elements(mDisconnDevices)
              /\ event' = [event EXCEPT !.pc = "delete"]
              /\ UNCHANGED setVars
    /\ UNCHANGED <<deviceVars, mTaskMutex, client, mIsConnecting, listVars,
                   remote, dongleVars, budget>>

\* BLEDevice::mMutex, which onConnected holds while it asks the hub.
InOnConnected(d) == \E i \in DOMAIN remote :
    remote[i].thread = "protocol" /\ remote[i].dev = d

\* Mutants: onDisconnected clears the handle to 0, or forgets the status.
ClearToZero(d) ==
    /\ mCnntStatus' = [mCnntStatus EXCEPT ![d] = "Disconnected"]
    /\ mHandle' = [mHandle EXCEPT ![d] = NULL]
StatusKept(d) ==
    /\ mHandle' = [mHandle EXCEPT ![d] = INVALID_HANDLE]
    /\ UNCHANGED mCnntStatus

OnDisconnected(d) ==
    /\ mCnntStatus' = [mCnntStatus EXCEPT ![d] = "Disconnected"]
    /\ mHandle' = [mHandle EXCEPT ![d] = INVALID_HANDLE]

\* BLEDevice::onDisconnected, the listeners, and the RemoteDevice is deleted.
DeviceDisconnected ==
    /\ event.pc \in {"device", "delete"}
    /\ \/ /\ event.pc = "device"
          /\ ~InOnConnected(event.addr)
          /\ OnDisconnected(event.addr)
          /\ UNCHANGED mProfile
       \/ /\ event.pc = "delete"
          /\ UNCHANGED deviceVars
    /\ remote' = [remote EXCEPT ![event.del].thread = "deleted"]
    /\ event' = NoEvent
    /\ UNCHANGED <<setVars, mTaskMutex, client, mIsConnecting, listVars,
                   dongleVars, budget>>
-----------------------------------------------------------------------------
\* The thread of RemoteDevice i takes the message with its handle.
TakeHandle(i) ==
    /\ remote[i].thread = "setup"
    /\ remote' = [remote EXCEPT ![i].handle = remote[i].link,
                                ![i].thread = "discovering"]
    /\ UNCHANGED <<deviceVars, setVars, mTaskMutex, client, mIsConnecting,
                   listVars, event, dongleVars, budget>>

\* Service discovery over its handle is complete: the AdapterManager reports
\* the device it finds under that handle, on this thread.
Discovered(i) ==
    /\ remote[i].thread = "discovering"
    /\ links[remote[i].handle] # NoDevice
    /\ LET mine == AtHandle(mConnectedDevice, remote[i].handle)
       IN  remote' = [remote EXCEPT ![i] =
                        IF mine = <<>>
                          THEN [@ EXCEPT !.thread = "connected"]
                          ELSE [@ EXCEPT !.thread = "report",
                                         !.dev = remote[Head(mine)].addr]]
    /\ UNCHANGED <<deviceVars, setVars, mTaskMutex, client, mIsConnecting,
                   listVars, event, dongleVars, budget>>

\* Mutant: the device stays in mDisconnDevices.
ConnectedKeepsDisconn(i) ==
    /\ remote[i].thread = "report"
    /\ mTaskMutex = Free
    /\ mConnectedDevices' \in Inserted(mConnectedDevices, remote[i].dev)
    /\ remote' = [remote EXCEPT ![i].thread = "onConnected"]
    /\ UNCHANGED <<deviceVars, mDisconnDevices, crossed, mTaskMutex, client,
                   mIsConnecting, listVars, event, dongleVars, budget>>

\* BLEHub::onDeviceConnected under mTaskMutex: the device is erased from the
\* disconnected ones if it is there, and one that is in neither set is not told.
HubConnected(i) ==
    /\ remote[i].thread = "report"
    /\ mTaskMutex = Free
    /\ LET d == remote[i].dev
       IN  /\ IF d \in Elements(mDisconnDevices)
                THEN mDisconnDevices' \in Erased(mDisconnDevices, d)
                ELSE UNCHANGED mDisconnDevices
           /\ IF d \in Elements(mDisconnDevices) \cup Elements(mConnectedDevices)
                THEN /\ mConnectedDevices' \in Inserted(mConnectedDevices, d)
                     /\ remote' = [remote EXCEPT ![i].thread = "onConnected"]
                ELSE /\ remote' = [remote EXCEPT ![i].thread = "connected"]
                     /\ UNCHANGED mConnectedDevices
    /\ UNCHANGED <<deviceVars, crossed, mTaskMutex, client, mIsConnecting, listVars,
                   event, dongleVars, budget>>

\* Mutant: the status is set before the hub is asked for the protocol.
ConnectedTooEarly(i) ==
    /\ remote[i].thread = "onConnected"
    /\ ~InOnConnected(remote[i].dev)
    /\ mHandle' = [mHandle EXCEPT ![remote[i].dev] = remote[i].handle]
    /\ mCnntStatus' = [mCnntStatus EXCEPT ![remote[i].dev] = "Connected"]
    /\ remote' = [remote EXCEPT ![i].thread = "protocol"]
    /\ UNCHANGED <<mProfile, mConnectedDevices, mDisconnDevices, mTaskMutex, client, mIsConnecting,
                   listVars, event, dongleVars, budget>>
    /\ crossed' = (crossed \/ ~Aligned')

\* BLEDevice::onConnected sets the handle and, the first time, asks the hub for
\* the protocol ...
DeviceSetHandle(i) ==
    /\ remote[i].thread = "onConnected"
    /\ ~InOnConnected(remote[i].dev)
    /\ mHandle' = [mHandle EXCEPT ![remote[i].dev] = remote[i].handle]
    /\ remote' = [remote EXCEPT ![i].thread = "protocol"]
    /\ UNCHANGED <<mCnntStatus, mProfile, mConnectedDevices, mDisconnDevices, mTaskMutex,
                   client, mIsConnecting, listVars, event, dongleVars, budget>>
    /\ crossed' = (crossed \/ ~Aligned')

\* GetDeviceProtocolSupported: the first RemoteDevice at the handle knows its
\* protocol once it is discovered.
ProtocolKnown(h) ==
    LET mine == AtHandle(mConnectedDevice, h)
    IN  /\ mine # <<>>
        /\ remote[Head(mine)].thread \in {"report", "onConnected", "protocol",
                                           "connected"}

\* ... and, with the command thread's answer, makes the profile, sets the
\* status and tells the listeners.
DeviceSetConnected(i) ==
    /\ remote[i].thread = "protocol"
    /\ remote[i].dev \in mProfile \/ mTaskMutex = Free
    /\ mProfile' = IF ProtocolKnown(remote[i].handle)
                     THEN mProfile \cup {remote[i].dev} ELSE mProfile
    /\ mCnntStatus' = [mCnntStatus EXCEPT ![remote[i].dev] = "Connected"]
    /\ remote' = [remote EXCEPT ![i].thread = "connected"]
    /\ UNCHANGED <<mHandle, mConnectedDevices, mDisconnDevices, mTaskMutex, client,
                   mIsConnecting, listVars, event, dongleVars, budget>>
    /\ crossed' = (crossed \/ ~Aligned')

Request(c) == Connect(c) \/ CancelConnect(c) \/ DisconnectUnknown(c)
              \/ DisconnectBegin(c) \/ DisconnectEnd(c)
EventStep == OnConnectEvent \/ OnConnectError \/ LinkTerminated
             \/ LinkTerminatedAsAsked \/ LinkTerminatedUnknown
             \/ HubDisconnected \/ DeviceDisconnected
DeviceStep(i) == TakeHandle(i) \/ Discovered(i) \/ HubConnected(i)
                 \/ DeviceSetHandle(i) \/ DeviceSetConnected(i)

Next ==
    /\ event.pc # "crashed"
    /\ \/ \E h \in Handles : LinkUp(h) \/ LinkLost(h)
       \/ \E c \in Clients, d \in Devices :
             ConnectCall(c, d) \/ DisconnectCall(c, d) \/ CancelCall(c, d)
       \/ \E c \in Clients : Request(c) \/ WriteStatus(c)
       \/ EventStep
       \/ \E i \in DOMAIN remote : DeviceStep(i)

Spec == Init /\ [][Next]_vars

\* Every thread runs on, and the dongle connects to an armband it was asked for.
Fairness ==
    /\ \A c \in Clients : WF_vars(Request(c) \/ WriteStatus(c))
    /\ WF_vars(EventStep)
    /\ \A i \in Ids : WF_vars(i \in DOMAIN remote /\ DeviceStep(i))
    /\ WF_vars(\E h \in Handles : LinkUp(h))
FairSpec == Spec /\ Fairness
-----------------------------------------------------------------------------
\* So far the clients have made one call per device at a time and never
\* cancelled, their threads were quick, no link was lost too early, no handle
\* given again too soon, and none out of the order of the addresses.
Careful == Never("cancel") /\ Never("again") /\ Never("slow")
           /\ Never("early") /\ Never("reuse") /\ ~crossed

Statuses == {"Disconnected", "Disconnecting", "Connecting", "Connected"}

TypeOK ==
    /\ mCnntStatus \in [Devices -> Statuses]
    /\ mHandle \in [Devices -> Handles \cup {INVALID_HANDLE}]
    /\ mProfile \subseteq Devices
    /\ mConnectedDevices \in Seq(Devices)
    /\ mDisconnDevices \in Seq(Devices)
    /\ crossed \in BOOLEAN
    /\ mTaskMutex \in Clients \cup {Free}
    /\ mIsConnecting \in BOOLEAN
    /\ \A list \in {mConnectingDevice, mConnectedDevice, mDisconnectingDevice} :
          Elements(list) \subseteq DOMAIN remote
    /\ mCancelConnectingDevice \in DOMAIN remote \cup {NULL}
    /\ pending \in Devices \cup {NoDevice}
    /\ links \in [Handles -> Devices \cup {NoDevice}]

\* As long as the handles of those connected have been in the order of their
\* addresses, and whatever races there are, a device is in exactly one of the
\* hub's two sets, once.  One in neither is lost to the clients, one in both is
\* reported twice; the sets are searched by status and handle, which change in
\* them (BLEDevice::operator<).  And, unless the dongle reused one too soon, no
\* two connected devices answer to one handle.
SetsApart == ~crossed =>
    /\ Elements(mConnectedDevices) \cap Elements(mDisconnDevices) = {}
    /\ Elements(mConnectedDevices) \cup Elements(mDisconnDevices) = Devices
    /\ \A set \in {mConnectedDevices, mDisconnDevices} :
          \A k, l \in 1..Len(set) : set[k] = set[l] => k = l
    /\ Never("reuse") => \A d, e \in Elements(mConnectedDevices) :
          mHandle[d] = mHandle[e] /\ mHandle[d] # INVALID_HANDLE => d = e

\* As long as nobody cancels no link is left behind: while it is up a
\* RemoteDevice knows it or is about to be told.
LinksOwned ==
    \A h \in Handles : Never("cancel") /\ links[h] # NoDevice =>
        \/ \E k \in 1..Len(events) :
              events[k] = [kind |-> "up", addr |-> links[h], handle |-> h]
        \/ \E i \in Elements(mConnectedDevice) :
              /\ remote[i].addr = links[h]
              /\ h = IF remote[i].thread = "setup" THEN remote[i].link
                                                   ELSE remote[i].handle

\* Nothing is under way on any thread, but for one that waits for answers over
\* a link that is gone.
Quiet ==
    /\ event.pc = "idle"
    /\ events = <<>>
    /\ \A c \in Clients : client[c].pc = "idle"
    /\ \A i \in DOMAIN remote :
          \/ remote[i].thread \in {"none", "connected", "stopped", "deleted"}
          \/ remote[i].thread = "discovering" /\ links[remote[i].handle] = NoDevice

\* "Retrieves the connection status of the device": with careful clients, when
\* nothing is under way, the status a client reads is what the radio says; and
\* mIsConnecting, on which StartScan and Connect are refused, is up exactly
\* while the dongle connects or the event that says it has is still to come.
StatusTrue ==
    Careful =>
        /\ Quiet => \A d \in Devices :
              mCnntStatus[d] = CASE \E h \in Handles : links[h] = d -> "Connected"
                                 [] pending = d -> "Connecting"
                                 [] OTHER -> "Disconnected"
        /\ mIsConnecting <=> \/ pending # NoDevice
                             \/ \E k \in 1..Len(events) : events[k].kind = "up"

\* With careful clients every attempt ends and every disconnection ends with
\* the device Disconnected: nobody waits for ever, neither the command thread,
\* which joins a device's thread with mTaskMutex held, nor that thread for
\* the mutex or the command thread.
AttemptsEnd == \A d \in Devices :
    /\ []<>(mCnntStatus[d] # "Connecting" \/ ~Careful)
    /\ (\E c \in Clients : client[c].op = "disconnect" /\ client[c].dev = d)
          ~> mCnntStatus[d] = "Disconnected" \/ ~Careful
=============================================================================
