--------------------------- MODULE AndroidDevices ---------------------------
(***************************************************************************)
(* Connections and GATT requests on Android: BLEService's device list and  *)
(* handle table, RemoteDevice's connection state and request queue, and    *)
(* the lists the hub keeps by handle (BLEHub, see Connection for Windows). *)
(* The hub command thread calls; Android's binder threads call back, one   *)
(* call at a time for a device; the main thread receives the broadcasts of *)
(* the adapter.                                                            *)
(***************************************************************************)
EXTENDS AndroidAdapter, SequencesExt

CONSTANTS Device,          \* addresses of devices the hub has found
          Request,         \* requests a client sends, one use each
          Target,          \* the device each request is meant for
          MAX_DEVICE,      \* handles in the table
          MaxTries         \* bound on the connection attempts of a device

ASSUME AndroidDevicesAssumption ==
    /\ IsFiniteSet(Device) /\ IsFiniteSet(Request) /\ Target \in [Request -> Device]
    /\ MAX_DEVICE \in Nat \ {0} /\ MaxTries \in [Device -> Nat]

VARIABLES
    mRemoteDevices,        \* BLEService: the devices ever connected to, in order
    mHanleArray,           \* BLEService: the handles in use
    mConnectionState,      \* RemoteDevice
    mHandle,               \* RemoteDevice: 0 until the first connection
    mBluetoothGatt,        \* RemoteDevice: "null", "client", or "dead" (its
                           \* registration went with the adapter)
    mGattBusy,             \* RemoteDevice: a request is out
    mPendingGattOperations,\* RemoteDevice: the requests that wait
    callback,              \* the binder thread, between two steps of a callback
    radio,                 \* external: what Android does about the device
    inStack,               \* external: the one GATT operation Android carries out
    hubHandle,             \* the hub's mConnectedDevices: the handle of each, or NoHandle
    asked,                 \* budget: requests made
    sent,                  \* requests Android has accepted
    lost,                  \* requests the caller was told are sent and that never will be
    owned,                 \* history: devices whose mHandle is theirs in the table
    astray,                \* history: whether a device acted under a handle it does not
                           \* own ("foreign"), or, before that, one was reached in place
                           \* of another ("crossed")
    stale,                 \* history: devices a lost link left with requests
    tries                  \* budget: connection attempts

vars == <<adapter, offs, mRemoteDevices, mHanleArray, mConnectionState, mHandle,
          mBluetoothGatt, mGattBusy, mPendingGattOperations, callback, radio, inStack,
          hubHandle, asked, sent, lost, owned, astray, stale, tries>>

tableVars == <<mRemoteDevices, mHanleArray, mHandle, hubHandle, owned, astray>>
queueVars == <<mGattBusy, mPendingGattOperations, asked, sent, lost, stale>>

Handle == 0..MAX_DEVICE - 1
INVALID_HANDLE == MAX_DEVICE + 1         \* 0xFFFF; a full table gives MAX_DEVICE
NoHandle == MAX_DEVICE + 2               \* the hub does not list the device as connected
NoRequest == "none"
CCC == "ccc"                             \* a request to enable notifications
DIRECT == "direct"                       \* a write of writeCharacteristic

Init ==
    /\ AdapterInit
    /\ mRemoteDevices = <<>>
    /\ mHanleArray = [h \in Handle |-> FALSE]
    /\ mConnectionState = [d \in Device |-> "disconnected"]
    /\ mHandle = [d \in Device |-> 0]
    /\ mBluetoothGatt = [d \in Device |-> "null"]
    /\ mGattBusy = [d \in Device |-> FALSE]
    /\ mPendingGattOperations = [d \in Device |-> <<>>]
    /\ callback = [d \in Device |-> "idle"]
    /\ radio = [d \in Device |-> "down"]
    /\ inStack = [d \in Device |-> NoRequest]
    /\ hubHandle = [d \in Device |-> NoHandle]
    /\ asked = {} /\ sent = {} /\ lost = {} /\ owned = {} /\ stale = {}
    /\ astray = "no"
    /\ tries = [d \in Device |-> 0]
-----------------------------------------------------------------------------
(* The hub command thread: connecting and disconnecting.                   *)

known == ToSet(mRemoteDevices)

\* BluetoothGatt.connect: a client that lost its registration refuses for ever,
\* for mBluetoothGatt is never made anew.
CanReconnect(d) == mBluetoothGatt[d] = "client" /\ adapter = "on"

\* Mutant: each attempt makes a RemoteDevice.
AddAnew(d) == mRemoteDevices' = Append(mRemoteDevices, d)

\* findRemoteDeviceByAddress, and the device made and added the first time.
FindOrAdd(d) ==
    mRemoteDevices' = IF d \in known THEN mRemoteDevices ELSE Append(mRemoteDevices, d)

\* connectDevice and RemoteDevice.connect.  With the adapter off connectGatt
\* returns null and the device stays connecting.
ConnectDevice(d) ==
    /\ tries[d] < MaxTries[d]
    /\ tries' = [tries EXCEPT ![d] = @ + 1]
    /\ FindOrAdd(d)
    /\ IF \/ mConnectionState[d] # "disconnected"
          \/ mBluetoothGatt[d] # "null" /\ ~CanReconnect(d)
         THEN UNCHANGED <<mConnectionState, mBluetoothGatt, radio>>
         ELSE /\ mConnectionState' = [mConnectionState EXCEPT ![d] = "connecting"]
              /\ IF adapter = "on"
                   THEN /\ mBluetoothGatt' = [mBluetoothGatt EXCEPT ![d] = "client"]
                        /\ radio' = [radio EXCEPT ![d] = "trying"]
                   ELSE UNCHANGED <<mBluetoothGatt, radio>>
    /\ UNCHANGED <<adapter, offs, mHanleArray, mHandle, queueVars, callback, inStack,
                   hubHandle, owned, astray>>

\* RemoteDevice.disconnect; Android may drop an attempt without a word.
Drop(d) ==
    /\ d \in known /\ mConnectionState[d] # "disconnected" /\ mBluetoothGatt[d] # "null"
    /\ mConnectionState' = [mConnectionState EXCEPT ![d] = "disconnecting"]
    /\ radio' = [radio EXCEPT ![d] = CASE @ = "trying" -> "cancelled"
                                       [] @ \in {"up", "ready"} -> "dropped"
                                       [] OTHER -> @]

CancelConnect(d) ==
    /\ hubHandle[d] = NoHandle
    /\ Drop(d)
    /\ UNCHANGED <<adapter, offs, tableVars, mBluetoothGatt, queueVars, callback, inStack,
                   tries>>

\* History: a call or report about d found the devices of `found'.
NoteReached(d, found) ==
    astray' = IF astray # "no" \/ (d \in owned /\ found \subseteq {d}) THEN astray
              ELSE IF found \cup {d} \subseteq owned THEN "crossed"
              ELSE "foreign"

\* findRemoteDeviceByHandle: the first of the list with that handle; a device
\* that was never connected has handle 0.
FindRemoteDeviceByHandle(h) == SelectInSeq(mRemoteDevices, LAMBDA d : mHandle[d] = h)

\* A call to device d, under the handle the hub lists it with, turns to e.
Reach(d, e) ==
    /\ hubHandle[d] # NoHandle
    /\ LET i == FindRemoteDeviceByHandle(hubHandle[d]) IN i # 0 /\ mRemoteDevices[i] = e
    /\ NoteReached(d, {e})

Disconnect(d, e) ==
    /\ Reach(d, e)
    /\ Drop(e)
    /\ UNCHANGED <<adapter, offs, mRemoteDevices, mHanleArray, mHandle, hubHandle, owned,
                   mBluetoothGatt, queueVars, callback, inStack, tries>>
-----------------------------------------------------------------------------
(* The hub command thread: requests.                                       *)

\* Android refuses an operation while it carries out another for the device.
Accepts(d) == inStack[d] = NoRequest /\ radio[d] \in {"up", "ready"}

Take(d, r) ==
    /\ inStack' = [inStack EXCEPT ![d] = r]
    /\ sent' = IF r \in Request THEN sent \cup {r} ELSE sent

\* sendGattRequest, under the lock of mPendingGattOperations.
SendGattRequest(d, r) ==
    IF mGattBusy[d]
      THEN /\ mPendingGattOperations' = [mPendingGattOperations EXCEPT ![d] = Append(@, r)]
           /\ UNCHANGED <<mGattBusy, inStack, sent>>
      ELSE /\ IF Accepts(d) THEN Take(d, r) /\ mGattBusy' = [mGattBusy EXCEPT ![d] = TRUE]
                            ELSE UNCHANGED <<mGattBusy, inStack, sent>>
           /\ UNCHANGED mPendingGattOperations

\* sendControlCommand; e has discovered its services, or has them from before.
SendControlCommand(r, e) ==
    /\ r \notin asked
    /\ Reach(Target[r], e)
    /\ mConnectionState[e] = "connected"
    /\ asked' = asked \cup {r}
    /\ SendGattRequest(e, r)
    /\ UNCHANGED <<adapter, offs, mRemoteDevices, mHanleArray, mHandle, hubHandle, owned,
                   mConnectionState, mBluetoothGatt, callback, radio, lost, stale, tries>>

\* writeCharacteristic goes past the queue.
WriteCharacteristic(d, e) ==
    /\ Reach(d, e)
    /\ mConnectionState[e] = "connected" /\ Accepts(e)
    /\ Take(e, DIRECT)
    /\ UNCHANGED <<adapter, offs, mRemoteDevices, mHanleArray, mHandle, hubHandle, owned,
                   mConnectionState, mBluetoothGatt, mGattBusy, mPendingGattOperations,
                   asked, lost, stale, callback, radio, tries>>
-----------------------------------------------------------------------------
(* Android's callbacks.                                                    *)

\* Mutant: a handle that is given out is not marked.
AllocKeepsFree(d) ==
    LET free == {h \in Handle : ~mHanleArray[h]}
        h == IF free = {} THEN MAX_DEVICE ELSE CHOOSE x \in free : \A y \in free : x <= y
    IN  /\ mHandle' = [mHandle EXCEPT ![d] = h]
        /\ UNCHANGED mHanleArray
        /\ owned' = IF free = {} THEN owned \ {d} ELSE owned \cup {d}

\* allocDeviceHandle: the lowest free handle, MAX_DEVICE if there is none.
Alloc(d) ==
    LET free == {h \in Handle : ~mHanleArray[h]}
        h == IF free = {} THEN MAX_DEVICE ELSE CHOOSE x \in free : \A y \in free : x <= y
    IN  /\ mHandle' = [mHandle EXCEPT ![d] = h]
        /\ mHanleArray' = [x \in Handle |-> mHanleArray[x] \/ x = h]
        /\ owned' = IF free = {} THEN owned \ {d} ELSE owned \cup {d}

\* onConnectionStateChange, STATE_CONNECTED: also after disconnect was called.
OnConnected(d) ==
    /\ callback[d] = "idle" /\ radio[d] \in {"trying", "cancelled"}
    /\ mConnectionState' = [mConnectionState EXCEPT ![d] = "connected"]
    /\ Alloc(d)
    /\ radio' = [radio EXCEPT ![d] = IF @ = "trying" THEN "up" ELSE "dropped"]
    /\ UNCHANGED <<adapter, offs, mRemoteDevices, hubHandle, astray, mBluetoothGatt,
                   queueVars, callback, inStack, tries>>

\* onServicesDiscovered: the requests that enable notifications go out or
\* wait, and the device is reported connected, with success or without.
OnServicesDiscovered(d) ==
    /\ callback[d] = "idle" /\ radio[d] = "up"
    /\ radio' = [radio EXCEPT ![d] = "ready"]
    /\ hubHandle' = [hubHandle EXCEPT ![d] = mHandle[d]]
    /\ \/ SendGattRequest(d, CCC)
       \/ UNCHANGED <<mGattBusy, mPendingGattOperations, inStack, sent>>
    /\ UNCHANGED <<adapter, offs, mRemoteDevices, mHanleArray, mHandle, owned, astray,
                   mConnectionState, mBluetoothGatt, callback, asked, lost, stale, tries>>

\* The report to the hub: it drops the device it lists under that handle.
Victims(d) == {e \in Device : hubHandle[e] = mHandle[d]}

FreeHandle(d) ==
    /\ mHanleArray' = [h \in Handle |-> mHanleArray[h] /\ h # mHandle[d]]
    /\ mHandle' = [mHandle EXCEPT ![d] = INVALID_HANDLE]
    /\ owned' = owned \ {d}

\* Devices with a request out or waiting.
Burdened == {d \in Device : mGattBusy[d] \/ mPendingGattOperations[d] # <<>>}

\* onConnectionStateChange, STATE_DISCONNECTED: the attempt failed or the link
\* is gone.  Neither mGattBusy nor the requests that wait are touched.
OnDisconnected(d) ==
    /\ callback[d] = "idle" /\ radio[d] # "down"
    /\ mConnectionState' = [mConnectionState EXCEPT ![d] = "disconnected"]
    /\ radio' = [radio EXCEPT ![d] = "down"]
    /\ inStack' = [inStack EXCEPT ![d] = NoRequest]
    /\ \E gone \in IF Victims(d) = {} THEN {{}} ELSE {{e} : e \in Victims(d)} :
          /\ hubHandle' = [e \in Device |-> IF e \in gone THEN NoHandle ELSE hubHandle[e]]
          /\ NoteReached(d, gone)
    /\ FreeHandle(d)
    /\ stale' = stale \cup ({d} \cap Burdened)
    /\ UNCHANGED <<adapter, offs, mRemoteDevices, mBluetoothGatt, mGattBusy,
                   mPendingGattOperations, asked, sent, lost, callback, tries>>

\* An attempt that was cancelled may end without a callback.
CancelledSilently(d) ==
    /\ radio[d] = "cancelled"
    /\ radio' = [radio EXCEPT ![d] = "down"]
    /\ UNCHANGED <<adapter, offs, tableVars, mConnectionState, mBluetoothGatt, queueVars,
                   callback, inStack, tries>>

\* onCharacteristicWrite and its like, in three steps without a lock before the
\* last: clear mGattBusy, test the queue, then take from it.
OnGattDone(d) ==
    /\ callback[d] = "idle" /\ inStack[d] # NoRequest /\ radio[d] \in {"up", "ready"}
    /\ inStack' = [inStack EXCEPT ![d] = NoRequest]
    /\ mGattBusy' = [mGattBusy EXCEPT ![d] = FALSE]
    /\ callback' = [callback EXCEPT ![d] = "done"]
    /\ UNCHANGED <<adapter, offs, tableVars, mConnectionState, mBluetoothGatt,
                   mPendingGattOperations, asked, sent, lost, stale, radio, tries>>

\* Mutant: the callback leaves the queue to the next one.
TestQueueNever(d) ==
    /\ callback[d] = "done"
    /\ callback' = [callback EXCEPT ![d] = "idle"]
    /\ UNCHANGED <<adapter, offs, tableVars, mConnectionState, mBluetoothGatt, queueVars,
                   radio, inStack, tries>>

TestQueue(d) ==
    /\ callback[d] = "done"
    /\ callback' = [callback EXCEPT ![d] =
                       IF mPendingGattOperations[d] = <<>> THEN "idle" ELSE "dequeue"]
    /\ UNCHANGED <<adapter, offs, tableVars, mConnectionState, mBluetoothGatt, queueVars,
                   radio, inStack, tries>>

\* dequeueGattRequest takes the request first and tests mGattBusy then: if a
\* caller has slipped in, or Android refuses, the request is gone.
DequeueGattRequest(d) ==
    /\ callback[d] = "dequeue"
    /\ callback' = [callback EXCEPT ![d] = "idle"]
    /\ LET r == Head(mPendingGattOperations[d]) IN
         /\ mPendingGattOperations' = [mPendingGattOperations EXCEPT ![d] = Tail(@)]
         /\ IF ~mGattBusy[d] /\ Accepts(d)
              THEN /\ Take(d, r)
                   /\ mGattBusy' = [mGattBusy EXCEPT ![d] = TRUE]
                   /\ UNCHANGED lost
              ELSE /\ lost' = lost \cup ({r} \cap Request)
                   /\ UNCHANGED <<mGattBusy, inStack, sent>>
    /\ UNCHANGED <<adapter, offs, tableVars, mConnectionState, mBluetoothGatt, asked, stale,
                   radio, tries>>
-----------------------------------------------------------------------------
(* The adapter.                                                            *)

\* Android's links end with the adapter, and its callbacks come late or never;
\* mReceiver forgets every handle, the devices keep theirs (resetDevices is
\* empty).
BluetoothOff ==
    /\ AdapterOff
    /\ mHanleArray' = [h \in Handle |-> FALSE]
    /\ owned' = {}
    /\ mBluetoothGatt' = [d \in Device |->
                              IF mBluetoothGatt[d] = "null" THEN "null" ELSE "dead"]
    /\ radio' = [d \in Device |-> IF radio[d] = "down" THEN "down" ELSE "dropped"]
    /\ inStack' = [d \in Device |-> NoRequest]
    /\ stale' = stale \cup {d \in Burdened : radio[d] # "down"}
    /\ UNCHANGED <<mRemoteDevices, mConnectionState, mHandle, mGattBusy,
                   mPendingGattOperations, callback, hubHandle, asked, sent, lost,
                   astray, tries>>

AdapterChanges ==
    /\ AdapterOn \/ UserSwitches
    /\ UNCHANGED <<tableVars, mConnectionState, mBluetoothGatt, queueVars, callback, radio,
                   inStack, tries>>

Next == \/ \E d \in Device :
              \/ ConnectDevice(d) \/ CancelConnect(d)
              \/ \E e \in Device : Disconnect(d, e) \/ WriteCharacteristic(d, e)
              \/ \E r \in Request : SendControlCommand(r, d)
              \/ OnConnected(d) \/ OnServicesDiscovered(d) \/ OnDisconnected(d)
              \/ CancelledSilently(d)
              \/ OnGattDone(d) \/ TestQueue(d) \/ DequeueGattRequest(d)
        \/ BluetoothOff \/ AdapterChanges

Spec == Init /\ [][Next]_vars

\* Android answers each operation it accepted, and a callback that has begun
\* runs to its end.
Fairness ==
    \A d \in Device : /\ WF_vars(OnGattDone(d))
                      /\ WF_vars(TestQueue(d) \/ DequeueGattRequest(d))

FairSpec == Spec /\ Fairness
-----------------------------------------------------------------------------
Operation == Request \cup {CCC, DIRECT}

TypeOK ==
    /\ adapter \in {"off", "turning_on", "on", "turning_off"}
    /\ known \subseteq Device /\ IsInjective(mRemoteDevices)
    /\ mHanleArray \in [Handle -> BOOLEAN]
    /\ mConnectionState \in
          [Device -> {"disconnected", "connecting", "connected", "disconnecting"}]
    /\ mHandle \in [Device -> 0..INVALID_HANDLE]
    /\ mBluetoothGatt \in [Device -> {"null", "client", "dead"}]
    /\ mGattBusy \in [Device -> BOOLEAN]
    /\ mPendingGattOperations \in [Device -> Seq(Request \cup {CCC})]
    /\ callback \in [Device -> {"idle", "done", "dequeue"}]
    /\ radio \in [Device -> {"down", "trying", "cancelled", "up", "ready", "dropped"}]
    /\ inStack \in [Device -> Operation \cup {NoRequest}]
    /\ hubHandle \in [Device -> 0..NoHandle]
    /\ asked \subseteq Request /\ sent \subseteq Request /\ lost \subseteq Request
    /\ {owned, stale} \subseteq SUBSET Device
    /\ astray \in {"no", "foreign", "crossed"}

\* A disconnect, a command or a report that names one device reaches another
\* only if some device has acted under a handle that is not its own: the default
\* 0 before its first connection, MAX_DEVICE when the table was full, or a handle
\* from before the adapter was switched off (the handle table of BLEService, the
\* handles the devices keep, and the hub's list by handle).
RightDevice == astray # "crossed"

\* A request that sendControlCommand told the caller it had taken, and that
\* waits, is sent (the queue of RemoteDevice), unless it is dropped by a caller
\* slipping in, the link goes, or a lost link left the device with requests, for
\* neither they nor mGattBusy are reset.
EveryRequestSent ==
    \A r \in Request : \A d \in Device :
        Contains(mPendingGattOperations[d], r) ~>
            \/ r \in sent \cup lost \/ d \in stale
            \/ radio[d] \notin {"up", "ready"}
=============================================================================
