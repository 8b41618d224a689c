--------------------------- MODULE AndroidProofs ---------------------------
(***************************************************************************)
(* Proofs about the Android port.  Connections, for any number of devices  *)
(* and requests, a handle table of any size, and however the links and the *)
(* adapter come and go: typing, and that a call or a report reaches the    *)
(* device it names.  Scanning, for any number of scans: typing, and that   *)
(* BLEScanner has at most one timer posted.                                *)
(***************************************************************************)
EXTENDS AndroidDevices, AndroidScanner, WellFoundedInduction, TLAPS

USE AndroidDevicesAssumption DEF AndroidDevicesAssumption

\* TypeOK in parts that the provers can type: where each device is, ...
PlacesOK ==
    /\ adapter \in {"off", "turning_on", "on", "turning_off"}
    /\ mConnectionState \in
          [Device -> {"disconnected", "connecting", "connected", "disconnecting"}]
    /\ mBluetoothGatt \in [Device -> {"null", "client", "dead"}]
    /\ callback \in [Device -> {"idle", "done", "dequeue"}]
    /\ radio \in [Device -> {"down", "trying", "cancelled", "up", "ready", "dropped"}]
    /\ astray \in {"no", "foreign", "crossed"}

\* ... the list of devices, ...
ListOK == mRemoteDevices \in Seq(Device) /\ IsInjective(mRemoteDevices)

\* ... the flags, ...
FlagsOK == mHanleArray \in [Handle -> BOOLEAN] /\ mGattBusy \in [Device -> BOOLEAN]

\* ... the handles, ...
HandlesOK == mHandle \in [Device -> 0..INVALID_HANDLE] /\ hubHandle \in [Device -> 0..NoHandle]

\* ... the requests, ...
RequestsOK ==
    /\ inStack \in [Device -> Operation \cup {NoRequest}]
    /\ asked \subseteq Request /\ sent \subseteq Request
    /\ owned \subseteq Device /\ stale \subseteq Device

\* ... and the queues: a callback that is about to take from one finds it filled.
QueuesOK ==
    /\ mPendingGattOperations \in [Device -> Seq(Request \cup {CCC})]
    /\ lost \subseteq Request
    /\ \A d \in Device : callback[d] = "dequeue" => mPendingGattOperations[d] # <<>>

\* The free handles, and the one allocDeviceHandle picks.
Free == {h \in Handle : ~mHanleArray[h]}
LowestFree == IF Free = {} THEN MAX_DEVICE ELSE CHOOSE x \in Free : \A y \in Free : x <= y

\* The order of the naturals is well-founded, ...
LEMMA NaturalOrder == IsWellFoundedOn({s \in Nat \X Nat : s[1] < s[2]}, Nat)
<1>1. OpToRel(<, Nat) = {s \in Nat \X Nat : s[1] < s[2]}
  BY DEF OpToRel
<1> QED
  BY <1>1, NatLessThanWellFounded DEF OpToRel

\* ... so that a set of them has a least one.
LEMMA LeastOf ==
  ASSUME NEW S \in SUBSET Nat, S # {}
  PROVE  \E n \in S : \A m \in S : n <= m
<1> DEFINE R == {s \in Nat \X Nat : s[1] < s[2]}
<1>1. IsWellFoundedOn(R, Nat)
  BY NaturalOrder
<1> HIDE DEF R
<1>2. \E n \in S : \A m \in S : ~(<<m, n>> \in R)
  BY <1>1, WFMin
<1>3. PICK n \in S : \A m \in S : ~(<<m, n>> \in R)
  BY <1>2
<1>4. ASSUME NEW m \in S PROVE n <= m
  <2>1. n \in Nat /\ m \in Nat /\ ~(<<m, n>> \in R)
    BY <1>3
  <2>2. m < n => <<m, n>> \in R
    BY <2>1 DEF R
  <2> QED
    BY <2>1, <2>2
<1> QED
  BY <1>4

\* allocDeviceHandle gives out a free handle, if there is one.
LEMMA LowestFreeOK == IF Free = {} THEN LowestFree = MAX_DEVICE ELSE LowestFree \in Free
<1>1. Free \in SUBSET Nat
  BY DEF Free, Handle
<1>2. CASE Free # {}
  <2>1. \E x \in Free : \A y \in Free : x <= y
    BY <1>1, <1>2, LeastOf
  <2>2. (CHOOSE x \in Free : \A y \in Free : x <= y) \in Free
    BY <2>1
  <2> QED
    BY <1>2, <2>2 DEF LowestFree
<1> QED
  BY <1>2 DEF LowestFree

\* What is taken from the front of a queue, and what stays.
LEMMA HeadAndTail ==
  ASSUME QueuesOK, NEW d \in Device, callback[d] = "dequeue"
  PROVE  /\ Head(mPendingGattOperations[d]) \in Request \cup {CCC}
         /\ Tail(mPendingGattOperations[d]) \in Seq(Request \cup {CCC})
<1>1. mPendingGattOperations[d] \in Seq(Request \cup {CCC}) /\ mPendingGattOperations[d] # <<>>
  BY DEF QueuesOK
<1> QED
  BY <1>1

\* A sequence that something was appended to.
LEMMA LongerByOne ==
  ASSUME NEW T, NEW s \in Seq(T), NEW r \in T
  PROVE  Append(s, r) \in Seq(T) /\ Append(s, r) # <<>>
<1>1. Append(s, r) \in Seq(T) /\ Len(Append(s, r)) = Len(s) + 1
  OBVIOUS
<1>2. Len(s) \in Nat /\ Len(<<>>) = 0
  OBVIOUS
<1> QED
  BY <1>1, <1>2

\* What a request does to the variables it may touch.
LEMMA SendDoes ==
  ASSUME PlacesOK, FlagsOK, RequestsOK, QueuesOK, NEW d \in Device,
         NEW r \in Request \cup {CCC}, SendGattRequest(d, r)
  PROVE  /\ mGattBusy' \in [Device -> BOOLEAN]
         /\ inStack' \in [Device -> Operation \cup {NoRequest}]
         /\ sent' \subseteq Request
         /\ mPendingGattOperations' \in [Device -> Seq(Request \cup {CCC})]
         /\ \A x \in Device : mPendingGattOperations[x] # <<>> => mPendingGattOperations'[x] # <<>>
<1>1. CASE mGattBusy[d]
  <2>1. /\ mPendingGattOperations' = [mPendingGattOperations EXCEPT ![d] = Append(@, r)]
        /\ UNCHANGED <<mGattBusy, inStack, sent>>
    BY <1>1 DEF SendGattRequest
  <2>2. mPendingGattOperations[d] \in Seq(Request \cup {CCC})
    BY DEF QueuesOK
  <2>3. /\ Append(mPendingGattOperations[d], r) \in Seq(Request \cup {CCC})
        /\ Append(mPendingGattOperations[d], r) # <<>>
    BY <2>2, LongerByOne
  <2> QED
    BY <2>1, <2>3 DEF FlagsOK, RequestsOK, QueuesOK
<1>2. CASE ~mGattBusy[d]
  <2>1. UNCHANGED mPendingGattOperations
    BY <1>2 DEF SendGattRequest
  <2>2. CASE UNCHANGED <<mGattBusy, inStack, sent>>
    BY <2>1, <2>2 DEF FlagsOK, RequestsOK, QueuesOK
  <2>3. CASE Take(d, r) /\ mGattBusy' = [mGattBusy EXCEPT ![d] = TRUE]
    <3>1. mGattBusy' \in [Device -> BOOLEAN]
      BY Zenon, <2>3 DEF FlagsOK
    <3>2. inStack' = [inStack EXCEPT ![d] = r] /\ sent' \subseteq Request
      BY <2>3 DEF Take, RequestsOK
    <3> QED
      BY <2>1, <3>1, <3>2 DEF RequestsOK, QueuesOK, Operation
  <2> QED
    BY <1>2, <2>2, <2>3 DEF SendGattRequest
<1> QED
  BY <1>1, <1>2

\* Connection states, callbacks and the radio keep their types.
LEMMA PlacesStep ==
  ASSUME PlacesOK, [Next]_vars
  PROVE  PlacesOK'
<1> USE DEF PlacesOK
<1>1. ASSUME NEW d \in Device, ConnectDevice(d) PROVE PlacesOK'
  BY <1>1 DEF ConnectDevice, FindOrAdd, CanReconnect, queueVars
<1>2. ASSUME NEW d \in Device, CancelConnect(d) PROVE PlacesOK'
  BY <1>2 DEF CancelConnect, Drop, tableVars, queueVars
<1>3. ASSUME NEW d \in Device, NEW e \in Device, Disconnect(d, e) PROVE PlacesOK'
  BY <1>3 DEF Disconnect, Reach, NoteReached, Drop, queueVars
<1>4. ASSUME NEW d \in Device, NEW e \in Device, WriteCharacteristic(d, e) PROVE PlacesOK'
  BY <1>4 DEF WriteCharacteristic, Reach, NoteReached
<1>5. ASSUME NEW d \in Device, NEW r \in Request, SendControlCommand(r, d) PROVE PlacesOK'
  <2>1. Target[r] \in Device
    OBVIOUS
  <2> QED
    BY <1>5, <2>1 DEF SendControlCommand, Reach, NoteReached
<1>6. ASSUME NEW d \in Device, OnConnected(d) PROVE PlacesOK'
  BY <1>6 DEF OnConnected, queueVars
<1>7. ASSUME NEW d \in Device, OnServicesDiscovered(d) PROVE PlacesOK'
  BY <1>7 DEF OnServicesDiscovered
<1>8. ASSUME NEW d \in Device, OnDisconnected(d) PROVE PlacesOK'
  BY <1>8 DEF OnDisconnected, NoteReached
<1>9. ASSUME NEW d \in Device, CancelledSilently(d) PROVE PlacesOK'
  BY <1>9 DEF CancelledSilently, tableVars, queueVars
<1>10. ASSUME NEW d \in Device, OnGattDone(d) PROVE PlacesOK'
  BY <1>10 DEF OnGattDone, tableVars
<1>11. ASSUME NEW d \in Device, TestQueue(d) PROVE PlacesOK'
  BY <1>11 DEF TestQueue, tableVars, queueVars
<1>12. ASSUME NEW d \in Device, DequeueGattRequest(d) PROVE PlacesOK'
  BY <1>12 DEF DequeueGattRequest, Take, Accepts, tableVars
<1>13. CASE BluetoothOff
  BY <1>13 DEF BluetoothOff, AdapterOff
<1>14. CASE AdapterChanges
  BY <1>14 DEF AdapterChanges, AdapterOn, UserSwitches, tableVars, queueVars
<1>15. CASE UNCHANGED vars
  BY <1>15 DEF vars, tableVars, queueVars
<1> QED
  BY <1>1, <1>2, <1>3, <1>4, <1>5, <1>6, <1>7, <1>8, <1>9, <1>10, <1>11, <1>12, <1>13,
     <1>14, <1>15 DEF Next

\* A device is added to the list once.
LEMMA ListStep ==
  ASSUME ListOK, [Next]_vars
  PROVE  ListOK'
<1> USE DEF ListOK
<1>1. ASSUME NEW d \in Device, ConnectDevice(d) PROVE ListOK'
  <2>1. CASE d \in known
    BY <1>1, <2>1 DEF ConnectDevice, FindOrAdd
  <2>2. CASE d \notin known
    <3>1. mRemoteDevices' = Append(mRemoteDevices, d)
      BY <1>1, <2>2 DEF ConnectDevice, FindOrAdd
    <3>2. \A i \in DOMAIN mRemoteDevices : mRemoteDevices[i] # d
      BY <2>2 DEF known, ToSet
    <3> QED
      BY <3>1, <3>2 DEF IsInjective
  <2> QED
    BY <2>1, <2>2
<1>2. ASSUME NEW d \in Device, CancelConnect(d) PROVE ListOK'
  BY <1>2 DEF CancelConnect, Drop, tableVars, queueVars
<1>3. ASSUME NEW d \in Device, NEW e \in Device, Disconnect(d, e) PROVE ListOK'
  BY <1>3 DEF Disconnect, Drop, queueVars
<1>4. ASSUME NEW d \in Device, NEW e \in Device, WriteCharacteristic(d, e) PROVE ListOK'
  BY <1>4 DEF WriteCharacteristic, Take, Accepts
<1>5. ASSUME NEW d \in Device, NEW r \in Request, SendControlCommand(r, d) PROVE ListOK'
  BY <1>5 DEF SendControlCommand
<1>6. ASSUME NEW d \in Device, OnConnected(d) PROVE ListOK'
  BY <1>6 DEF OnConnected, queueVars
<1>7. ASSUME NEW d \in Device, OnServicesDiscovered(d) PROVE ListOK'
  BY <1>7 DEF OnServicesDiscovered
<1>8. ASSUME NEW d \in Device, OnDisconnected(d) PROVE ListOK'
  BY <1>8 DEF OnDisconnected, FreeHandle
<1>9. ASSUME NEW d \in Device, CancelledSilently(d) PROVE ListOK'
  BY <1>9 DEF CancelledSilently, tableVars, queueVars
<1>10. ASSUME NEW d \in Device, OnGattDone(d) PROVE ListOK'
  BY <1>10 DEF OnGattDone, tableVars
<1>11. ASSUME NEW d \in Device, TestQueue(d) PROVE ListOK'
  BY <1>11 DEF TestQueue, tableVars, queueVars
<1>12. ASSUME NEW d \in Device, DequeueGattRequest(d) PROVE ListOK'
  BY <1>12 DEF DequeueGattRequest, Take, Accepts, tableVars
<1>13. CASE BluetoothOff
  BY <1>13 DEF BluetoothOff, AdapterOff
<1>14. CASE AdapterChanges
  BY <1>14 DEF AdapterChanges, AdapterOn, UserSwitches, tableVars, queueVars
<1>15. CASE UNCHANGED vars
  BY <1>15 DEF vars, tableVars, queueVars
<1> QED
  BY <1>1, <1>2, <1>3, <1>4, <1>5, <1>6, <1>7, <1>8, <1>9, <1>10, <1>11, <1>12, <1>13,
     <1>14, <1>15 DEF Next

\* The handle table and the busy flags keep their types.
LEMMA FlagsStep ==
  ASSUME PlacesOK, FlagsOK, HandlesOK, RequestsOK, QueuesOK, [Next]_vars
  PROVE  FlagsOK'
<1>1. ASSUME NEW d \in Device, ConnectDevice(d) PROVE FlagsOK'
  BY Zenon, <1>1 DEF FlagsOK, ConnectDevice, FindOrAdd, CanReconnect, queueVars
<1>2. ASSUME NEW d \in Device, CancelConnect(d) PROVE FlagsOK'
  BY Zenon, <1>2 DEF FlagsOK, CancelConnect, Drop, tableVars, queueVars
<1>3. ASSUME NEW d \in Device, NEW e \in Device, Disconnect(d, e) PROVE FlagsOK'
  BY Zenon, <1>3 DEF FlagsOK, Disconnect, Drop, queueVars
<1>4. ASSUME NEW d \in Device, NEW e \in Device, WriteCharacteristic(d, e) PROVE FlagsOK'
  BY Zenon, <1>4 DEF FlagsOK, WriteCharacteristic, Take, Accepts
<1>5. ASSUME NEW d \in Device, NEW r \in Request, SendControlCommand(r, d) PROVE FlagsOK'
  <2>1. mGattBusy' \in [Device -> BOOLEAN]
    BY Zenon, <1>5, SendDoes DEF SendControlCommand
  <2> QED
    BY Zenon, <1>5, <2>1 DEF SendControlCommand, FlagsOK
<1>6. ASSUME NEW d \in Device, OnConnected(d) PROVE FlagsOK'
  BY Zenon, <1>6 DEF FlagsOK, OnConnected, Alloc, queueVars
<1>7. ASSUME NEW d \in Device, OnServicesDiscovered(d) PROVE FlagsOK'
  <2>1. mGattBusy' \in [Device -> BOOLEAN]
    <3>1. CASE SendGattRequest(d, CCC)
      BY Zenon, <3>1, SendDoes
    <3>2. CASE UNCHANGED mGattBusy
      BY Zenon, <3>2 DEF FlagsOK
    <3> QED
      BY Zenon, <1>7, <3>1, <3>2 DEF OnServicesDiscovered
  <2> QED
    BY Zenon, <1>7, <2>1 DEF OnServicesDiscovered, FlagsOK
<1>8. ASSUME NEW d \in Device, OnDisconnected(d) PROVE FlagsOK'
  BY Zenon, <1>8 DEF FlagsOK, OnDisconnected, FreeHandle
<1>9. ASSUME NEW d \in Device, CancelledSilently(d) PROVE FlagsOK'
  BY Zenon, <1>9 DEF FlagsOK, CancelledSilently, tableVars, queueVars
<1>10. ASSUME NEW d \in Device, OnGattDone(d) PROVE FlagsOK'
  BY Zenon, <1>10 DEF FlagsOK, OnGattDone, tableVars
<1>11. ASSUME NEW d \in Device, TestQueue(d) PROVE FlagsOK'
  BY Zenon, <1>11 DEF FlagsOK, TestQueue, tableVars, queueVars
<1>12. ASSUME NEW d \in Device, DequeueGattRequest(d) PROVE FlagsOK'
  BY Zenon, <1>12 DEF FlagsOK, DequeueGattRequest, tableVars
<1>13. CASE BluetoothOff
  BY Zenon, <1>13 DEF FlagsOK, BluetoothOff, AdapterOff
<1>14. CASE AdapterChanges
  BY Zenon, <1>14 DEF FlagsOK, AdapterChanges, AdapterOn, UserSwitches, tableVars, queueVars
<1>15. CASE UNCHANGED vars
  BY Zenon, <1>15 DEF FlagsOK, vars, tableVars, queueVars
<1> QED
  BY <1>1, <1>2, <1>3, <1>4, <1>5, <1>6, <1>7, <1>8, <1>9, <1>10, <1>11, <1>12, <1>13,
     <1>14, <1>15 DEF Next

\* A handle that is given out is one of the table's, or one past its end.
LEMMA HandlesStep ==
  ASSUME PlacesOK, HandlesOK, [Next]_vars
  PROVE  HandlesOK'
<1> USE DEF HandlesOK, INVALID_HANDLE, NoHandle
<1>1. ASSUME NEW d \in Device, ConnectDevice(d) PROVE HandlesOK'
  BY <1>1 DEF ConnectDevice, FindOrAdd, CanReconnect, queueVars
<1>2. ASSUME NEW d \in Device, CancelConnect(d) PROVE HandlesOK'
  BY <1>2 DEF CancelConnect, Drop, tableVars, queueVars
<1>3. ASSUME NEW d \in Device, NEW e \in Device, Disconnect(d, e) PROVE HandlesOK'
  BY <1>3 DEF Disconnect, Drop, queueVars
<1>4. ASSUME NEW d \in Device, NEW e \in Device, WriteCharacteristic(d, e) PROVE HandlesOK'
  BY <1>4 DEF WriteCharacteristic, Take, Accepts
<1>5. ASSUME NEW d \in Device, NEW r \in Request, SendControlCommand(r, d) PROVE HandlesOK'
  BY <1>5 DEF SendControlCommand
<1>6. ASSUME NEW d \in Device, OnConnected(d) PROVE HandlesOK'
  <2>1. LowestFree \in 0..MAX_DEVICE
    BY LowestFreeOK DEF Handle, Free
  <2>2. mHandle' = [mHandle EXCEPT ![d] = LowestFree] /\ hubHandle' = hubHandle
    BY <1>6 DEF OnConnected, Alloc, LowestFree, Free
  <2> QED
    BY <2>1, <2>2 DEF INVALID_HANDLE
<1>7. ASSUME NEW d \in Device, OnServicesDiscovered(d) PROVE HandlesOK'
  BY <1>7 DEF OnServicesDiscovered
<1>8. ASSUME NEW d \in Device, OnDisconnected(d) PROVE HandlesOK'
  BY <1>8 DEF OnDisconnected, FreeHandle
<1>9. ASSUME NEW d \in Device, CancelledSilently(d) PROVE HandlesOK'
  BY <1>9 DEF CancelledSilently, tableVars, queueVars
<1>10. ASSUME NEW d \in Device, OnGattDone(d) PROVE HandlesOK'
  BY <1>10 DEF OnGattDone, tableVars
<1>11. ASSUME NEW d \in Device, TestQueue(d) PROVE HandlesOK'
  BY <1>11 DEF TestQueue, tableVars, queueVars
<1>12. ASSUME NEW d \in Device, DequeueGattRequest(d) PROVE HandlesOK'
  BY <1>12 DEF DequeueGattRequest, Take, Accepts, tableVars
<1>13. CASE BluetoothOff
  BY <1>13 DEF BluetoothOff, AdapterOff
<1>14. CASE AdapterChanges
  BY <1>14 DEF AdapterChanges, AdapterOn, UserSwitches, tableVars, queueVars
<1>15. CASE UNCHANGED vars
  BY <1>15 DEF vars, tableVars, queueVars
<1> QED
  BY <1>1, <1>2, <1>3, <1>4, <1>5, <1>6, <1>7, <1>8, <1>9, <1>10, <1>11, <1>12, <1>13,
     <1>14, <1>15 DEF Next

\* What is asked, sent and out stays a request.
LEMMA RequestsStep ==
  ASSUME PlacesOK, FlagsOK, HandlesOK, RequestsOK, QueuesOK, [Next]_vars
  PROVE  RequestsOK'
<1> USE DEF RequestsOK
<1>1. ASSUME NEW d \in Device, ConnectDevice(d) PROVE RequestsOK'
  BY <1>1 DEF ConnectDevice, FindOrAdd, CanReconnect, queueVars
<1>2. ASSUME NEW d \in Device, CancelConnect(d) PROVE RequestsOK'
  BY <1>2 DEF CancelConnect, Drop, tableVars, queueVars
<1>3. ASSUME NEW d \in Device, NEW e \in Device, Disconnect(d, e) PROVE RequestsOK'
  BY <1>3 DEF Disconnect, Drop, queueVars
<1>4. ASSUME NEW d \in Device, NEW e \in Device, WriteCharacteristic(d, e) PROVE RequestsOK'
  BY <1>4 DEF WriteCharacteristic, Take, Operation
<1>5. ASSUME NEW d \in Device, NEW r \in Request, SendControlCommand(r, d) PROVE RequestsOK'
  BY <1>5, SendDoes DEF SendControlCommand
<1>6. ASSUME NEW d \in Device, OnConnected(d) PROVE RequestsOK'
  BY <1>6 DEF OnConnected, Alloc, queueVars
<1>7. ASSUME NEW d \in Device, OnServicesDiscovered(d) PROVE RequestsOK'
  BY <1>7, SendDoes DEF OnServicesDiscovered
<1>8. ASSUME NEW d \in Device, OnDisconnected(d) PROVE RequestsOK'
  BY <1>8 DEF OnDisconnected, FreeHandle
<1>9. ASSUME NEW d \in Device, CancelledSilently(d) PROVE RequestsOK'
  BY <1>9 DEF CancelledSilently, tableVars, queueVars
<1>10. ASSUME NEW d \in Device, OnGattDone(d) PROVE RequestsOK'
  BY <1>10 DEF OnGattDone, tableVars
<1>11. ASSUME NEW d \in Device, TestQueue(d) PROVE RequestsOK'
  BY <1>11 DEF TestQueue, tableVars, queueVars
<1>12. ASSUME NEW d \in Device, DequeueGattRequest(d) PROVE RequestsOK'
  <2>1. Head(mPendingGattOperations[d]) \in Request \cup {CCC}
    BY <1>12, HeadAndTail DEF DequeueGattRequest, QueuesOK
  <2> QED
    BY <1>12, <2>1 DEF DequeueGattRequest, Take, tableVars, Operation
<1>13. CASE BluetoothOff
  BY <1>13 DEF BluetoothOff, Burdened
<1>14. CASE AdapterChanges
  BY <1>14 DEF AdapterChanges, AdapterOn, UserSwitches, tableVars, queueVars
<1>15. CASE UNCHANGED vars
  BY <1>15 DEF vars, tableVars, queueVars
<1> QED
  BY <1>1, <1>2, <1>3, <1>4, <1>5, <1>6, <1>7, <1>8, <1>9, <1>10, <1>11, <1>12, <1>13,
     <1>14, <1>15 DEF Next

\* A queue that a callback is about to take from is not emptied under it.
LEMMA QueuesStep ==
  ASSUME PlacesOK, FlagsOK, HandlesOK, RequestsOK, QueuesOK, [Next]_vars
  PROVE  QueuesOK'
<1> USE DEF QueuesOK
<1>1. ASSUME NEW d \in Device, ConnectDevice(d) PROVE QueuesOK'
  BY <1>1 DEF ConnectDevice, FindOrAdd, CanReconnect, queueVars
<1>2. ASSUME NEW d \in Device, CancelConnect(d) PROVE QueuesOK'
  BY <1>2 DEF CancelConnect, Drop, tableVars, queueVars
<1>3. ASSUME NEW d \in Device, NEW e \in Device, Disconnect(d, e) PROVE QueuesOK'
  BY <1>3 DEF Disconnect, Drop, queueVars
<1>4. ASSUME NEW d \in Device, NEW e \in Device, WriteCharacteristic(d, e) PROVE QueuesOK'
  BY <1>4 DEF WriteCharacteristic, Take, Accepts
<1>5. ASSUME NEW d \in Device, NEW r \in Request, SendControlCommand(r, d) PROVE QueuesOK'
  BY <1>5, SendDoes DEF SendControlCommand
<1>6. ASSUME NEW d \in Device, OnConnected(d) PROVE QueuesOK'
  BY <1>6 DEF OnConnected, queueVars
<1>7. ASSUME NEW d \in Device, OnServicesDiscovered(d) PROVE QueuesOK'
  BY <1>7, SendDoes DEF OnServicesDiscovered
<1>8. ASSUME NEW d \in Device, OnDisconnected(d) PROVE QueuesOK'
  BY <1>8 DEF OnDisconnected, FreeHandle
<1>9. ASSUME NEW d \in Device, CancelledSilently(d) PROVE QueuesOK'
  BY <1>9 DEF CancelledSilently, tableVars, queueVars
<1>10. ASSUME NEW d \in Device, OnGattDone(d) PROVE QueuesOK'
  BY <1>10 DEF OnGattDone, PlacesOK
<1>11. ASSUME NEW d \in Device, TestQueue(d) PROVE QueuesOK'
  BY <1>11 DEF TestQueue, PlacesOK, tableVars, queueVars
<1>12. ASSUME NEW d \in Device, DequeueGattRequest(d) PROVE QueuesOK'
  <2>1. /\ Tail(mPendingGattOperations[d]) \in Seq(Request \cup {CCC})
    BY <1>12, HeadAndTail DEF DequeueGattRequest
  <2>2. /\ callback' = [callback EXCEPT ![d] = "idle"]
        /\ mPendingGattOperations' =
              [mPendingGattOperations EXCEPT ![d] = Tail(mPendingGattOperations[d])]
        /\ lost' \subseteq Request
    BY <1>12 DEF DequeueGattRequest
  <2> QED
    BY <2>1, <2>2 DEF PlacesOK
<1>13. CASE BluetoothOff
  BY <1>13 DEF BluetoothOff, AdapterOff
<1>14. CASE AdapterChanges
  BY <1>14 DEF AdapterChanges, AdapterOn, UserSwitches, tableVars, queueVars
<1>15. CASE UNCHANGED vars
  BY <1>15 DEF vars, tableVars, queueVars
<1> QED
  BY <1>1, <1>2, <1>3, <1>4, <1>5, <1>6, <1>7, <1>8, <1>9, <1>10, <1>11, <1>12, <1>13,
     <1>14, <1>15 DEF Next

TypeInv ==
    PlacesOK /\ ListOK /\ FlagsOK /\ HandlesOK /\ RequestsOK /\ QueuesOK

\* The parts give the type invariant.
LEMMA TypeInvOK == TypeInv => TypeOK
<1> SUFFICES ASSUME TypeInv PROVE TypeOK
  OBVIOUS
<1> USE DEF TypeInv
<1>1. known \subseteq Device
  BY DEF known, ToSet, ListOK
<1>2. {owned, stale} \subseteq SUBSET Device
  BY DEF RequestsOK
<1> QED
  BY Zenon, <1>1, <1>2 DEF TypeOK, PlacesOK, ListOK, FlagsOK, HandlesOK, RequestsOK,
     QueuesOK

\* The first state has the types.
LEMMA TypeInit == Init => TypeInv
<1> SUFFICES ASSUME Init PROVE TypeInv
  OBVIOUS
<1>1. PlacesOK
  BY DEF Init, AdapterInit, PlacesOK
<1>2. ListOK
  BY DEF Init, ListOK, IsInjective
<1>3. FlagsOK
  BY Zenon DEF Init, FlagsOK
<1>4. HandlesOK
  BY DEF Init, HandlesOK, INVALID_HANDLE, NoHandle
<1>5. RequestsOK /\ QueuesOK
  BY DEF Init, RequestsOK, QueuesOK, Operation
<1> QED
  BY <1>1, <1>2, <1>3, <1>4, <1>5 DEF TypeInv

\* Every variable of BLEService, its RemoteDevices and the hub's list keeps its
\* type, whatever the calls, callbacks and broadcasts (TypeOK).
THEOREM DevicesTypeCorrect == Spec => []TypeOK
<1>1. TypeInv /\ [Next]_vars => TypeInv'
  BY PlacesStep, ListStep, FlagsStep, HandlesStep, RequestsStep, QueuesStep DEF TypeInv
<1> QED
  BY <1>1, TypeInit, TypeInvOK, PTL DEF Spec
-----------------------------------------------------------------------------
\* A device that is not connecting has no link that Android knows of.
LinkInv == \A d \in Device : mConnectionState[d] = "disconnected" => radio[d] = "down"

\* As long as no device acted under a handle that is not its own: the handles of
\* the owners are theirs in the table, no two owners share one, the hub lists an
\* owner under its handle or not at all, ...
OwnersInv ==
    astray = "no" =>
        /\ \A d \in owned : mHandle[d] \in Handle /\ mHanleArray[mHandle[d]]
        /\ \A d, e \in owned : mHandle[d] = mHandle[e] => d = e
        /\ \A d \in owned : hubHandle[d] \in {mHandle[d], NoHandle}

\* ... and a device without a link is not listed.
ListedInv ==
    astray = "no" =>
        \A d \in Device : radio[d] \in {"down", "trying", "cancelled"} => hubHandle[d] = NoHandle

SafetyInv == LinkInv /\ OwnersInv /\ ListedInv /\ RightDevice

\* The link is given up before the state says disconnected.
LEMMA LinkStep ==
  ASSUME TypeInv, LinkInv, [Next]_vars
  PROVE  LinkInv'
<1> USE DEF TypeInv, PlacesOK, LinkInv
<1>1. ASSUME NEW d \in Device, ConnectDevice(d) PROVE LinkInv'
  BY <1>1 DEF ConnectDevice, FindOrAdd, CanReconnect, queueVars
<1>2. ASSUME NEW d \in Device, CancelConnect(d) PROVE LinkInv'
  BY <1>2 DEF CancelConnect, Drop, tableVars, queueVars
<1>3. ASSUME NEW d \in Device, NEW e \in Device, Disconnect(d, e) PROVE LinkInv'
  BY <1>3 DEF Disconnect, Drop, queueVars
<1>4. ASSUME NEW d \in Device, NEW e \in Device, WriteCharacteristic(d, e) PROVE LinkInv'
  BY <1>4 DEF WriteCharacteristic, Take, Accepts
<1>5. ASSUME NEW d \in Device, NEW r \in Request, SendControlCommand(r, d) PROVE LinkInv'
  BY <1>5 DEF SendControlCommand
<1>6. ASSUME NEW d \in Device, OnConnected(d) PROVE LinkInv'
  BY <1>6 DEF OnConnected, queueVars
<1>7. ASSUME NEW d \in Device, OnServicesDiscovered(d) PROVE LinkInv'
  BY <1>7 DEF OnServicesDiscovered
<1>8. ASSUME NEW d \in Device, OnDisconnected(d) PROVE LinkInv'
  BY <1>8 DEF OnDisconnected, FreeHandle
<1>9. ASSUME NEW d \in Device, CancelledSilently(d) PROVE LinkInv'
  BY <1>9 DEF CancelledSilently, tableVars, queueVars
<1>10. ASSUME NEW d \in Device, OnGattDone(d) PROVE LinkInv'
  BY <1>10 DEF OnGattDone, tableVars
<1>11. ASSUME NEW d \in Device, TestQueue(d) PROVE LinkInv'
  BY <1>11 DEF TestQueue, tableVars, queueVars
<1>12. ASSUME NEW d \in Device, DequeueGattRequest(d) PROVE LinkInv'
  BY <1>12 DEF DequeueGattRequest, Take, Accepts, tableVars
<1>13. CASE BluetoothOff
  BY <1>13 DEF BluetoothOff, AdapterOff
<1>14. CASE AdapterChanges
  BY <1>14 DEF AdapterChanges, AdapterOn, UserSwitches, tableVars, queueVars
<1>15. CASE UNCHANGED vars
  BY <1>15 DEF vars, tableVars, queueVars
<1> QED
  BY <1>1, <1>2, <1>3, <1>4, <1>5, <1>6, <1>7, <1>8, <1>9, <1>10, <1>11, <1>12, <1>13,
     <1>14, <1>15 DEF Next

\* The device found under a handle has that handle.
LEMMA FoundHasHandle ==
  ASSUME ListOK, NEW h, FindRemoteDeviceByHandle(h) # 0
  PROVE  mHandle[mRemoteDevices[FindRemoteDeviceByHandle(h)]] = h
<1> DEFINE I == {i \in 1..Len(mRemoteDevices) : mHandle[mRemoteDevices[i]] = h}
<1>1. FindRemoteDeviceByHandle(h) = IF I # {} THEN Min(I) ELSE 0
  BY DEF FindRemoteDeviceByHandle, SelectInSeq
<1>2. I # {} /\ I \in SUBSET Nat
  BY <1>1
<1>3. Min(I) \in I
  BY <1>2, LeastOf DEF Min
<1> QED
  BY <1>1, <1>2, <1>3

\* What is noted of a call or report about d that finds nothing but d.
LEMMA NotedRight ==
  ASSUME RightDevice, NEW d, NEW found, NoteReached(d, found),
         astray = "no" /\ found \cup {d} \subseteq owned => found \subseteq {d}
  PROVE  /\ RightDevice'
         /\ astray' = "no" => astray = "no" /\ found \cup {d} \subseteq owned /\ found \subseteq {d}
<1>1. CASE astray # "no"
  BY <1>1 DEF NoteReached, RightDevice
<1>2. CASE astray = "no" /\ ~(found \cup {d} \subseteq owned)
  <2>1. astray' = "foreign"
    BY <1>2 DEF NoteReached
  <2> QED
    BY <2>1 DEF RightDevice
<1>3. CASE astray = "no" /\ found \cup {d} \subseteq owned
  <2>1. astray' = "no"
    BY <1>3 DEF NoteReached
  <2> QED
    BY <1>3, <2>1 DEF RightDevice
<1> QED
  BY <1>1, <1>2, <1>3

\* A call reaches the device it is for, unless one of the two is no owner.
LEMMA ReachDoes ==
  ASSUME TypeInv, OwnersInv, RightDevice, NEW d \in Device, NEW e \in Device, Reach(d, e)
  PROVE  RightDevice' /\ (astray' = "no" => astray = "no")
<1>1. hubHandle[d] # NoHandle /\ mHandle[e] = hubHandle[d]
  <2>1. LET i == FindRemoteDeviceByHandle(hubHandle[d]) IN i # 0 /\ mRemoteDevices[i] = e
    BY DEF Reach
  <2> QED
    BY <2>1, FoundHasHandle DEF Reach, TypeInv
<1>2. NoteReached(d, {e})
  BY DEF Reach
<1>3. astray = "no" /\ {e} \cup {d} \subseteq owned => e = d
  BY <1>1 DEF OwnersInv
<1>4. astray = "no" /\ {e} \cup {d} \subseteq owned => {e} \subseteq {d}
  BY <1>3
<1> QED
  BY <1>2, <1>4, NotedRight

\* A lost link is reported for the device itself or for none, unless it or the one
\* the hub drops is no owner.
LEMMA LossDoes ==
  ASSUME TypeInv, OwnersInv, RightDevice, NEW d \in Device, OnDisconnected(d)
  PROVE  /\ RightDevice'
         /\ astray' = "no" => /\ astray = "no" /\ d \in owned
                              /\ hubHandle' = [hubHandle EXCEPT ![d] = NoHandle]
<1>1. PICK gone \in IF Victims(d) = {} THEN {{}} ELSE {{e} : e \in Victims(d)} :
          /\ hubHandle' = [e \in Device |-> IF e \in gone THEN NoHandle ELSE hubHandle[e]]
          /\ NoteReached(d, gone)
  BY DEF OnDisconnected
<1>2. CASE Victims(d) = {}
  <2>1. gone = {}
    BY <1>1, <1>2
  <2>2. astray = "no" /\ d \in owned => hubHandle[d] = NoHandle
    BY <1>2 DEF Victims, OwnersInv
  <2>3. hubHandle' = hubHandle
    BY <1>1, <2>1 DEF TypeInv, HandlesOK
  <2>4. hubHandle[d] = NoHandle => hubHandle = [hubHandle EXCEPT ![d] = NoHandle]
    BY DEF TypeInv, HandlesOK
  <2> QED
    BY <1>1, <2>1, <2>2, <2>3, <2>4 DEF NoteReached, RightDevice
<1>3. CASE Victims(d) # {}
  <2>1. PICK e \in Victims(d) : gone = {e}
    BY <1>1, <1>3
  <2>2. e \in Device /\ hubHandle[e] = mHandle[d]
    BY <2>1 DEF Victims
  <2>3. astray = "no" /\ d \in owned /\ e \in owned => e = d
    <3> SUFFICES ASSUME astray = "no", d \in owned, e \in owned PROVE e = d
      OBVIOUS
    <3>1. mHandle[d] \in Handle /\ NoHandle \notin Handle
      BY DEF OwnersInv, Handle, NoHandle
    <3>2. hubHandle[e] = mHandle[e]
      BY <2>2, <3>1 DEF OwnersInv
    <3> QED
      BY <2>2, <3>2 DEF OwnersInv
  <2>4. astray = "no" /\ gone \cup {d} \subseteq owned => gone \subseteq {d}
    BY <2>1, <2>3
  <2>5. /\ RightDevice'
        /\ astray' = "no" => astray = "no" /\ gone \cup {d} \subseteq owned /\ gone \subseteq {d}
    BY <1>1, <2>4, NotedRight
  <2>6. gone = {d} => hubHandle' = [hubHandle EXCEPT ![d] = NoHandle]
    BY <1>1 DEF TypeInv, HandlesOK
  <2> QED
    BY <2>1, <2>5, <2>6
<1> QED
  BY <1>2, <1>3

\* What the call of a handle does to the table.
LEMMA AllocDoes ==
  ASSUME TypeInv, NEW d \in Device, Alloc(d)
  PROVE  \/ /\ owned' = owned \ {d}
            /\ \A e \in Device \ {d} : mHandle'[e] = mHandle[e]
            /\ \A h \in Handle : mHanleArray[h] => mHanleArray'[h]
         \/ /\ owned' = owned \cup {d}
            /\ mHandle'[d] \in Handle /\ ~mHanleArray[mHandle'[d]] /\ mHanleArray'[mHandle'[d]]
            /\ \A e \in Device \ {d} : mHandle'[e] = mHandle[e]
            /\ \A h \in Handle : mHanleArray[h] => mHanleArray'[h]
<1>1. /\ mHandle' = [mHandle EXCEPT ![d] = LowestFree]
      /\ mHanleArray' = [x \in Handle |-> mHanleArray[x] \/ x = LowestFree]
      /\ owned' = IF Free = {} THEN owned \ {d} ELSE owned \cup {d}
  BY DEF Alloc, LowestFree, Free
<1>2. mHandle'[d] = LowestFree /\ \A e \in Device \ {d} : mHandle'[e] = mHandle[e]
  BY <1>1 DEF TypeInv, HandlesOK
<1>3. \A h \in Handle : mHanleArray[h] => mHanleArray'[h]
  BY Zenon, <1>1
<1>4. CASE Free = {}
  BY <1>1, <1>2, <1>3, <1>4
<1>5. CASE Free # {}
  <2>1. LowestFree \in Handle /\ ~mHanleArray[LowestFree]
    BY <1>5, LowestFreeOK DEF Free
  <2>2. mHanleArray'[LowestFree]
    BY Zenon, <1>1, <2>1
  <2> QED
    BY <1>1, <1>2, <1>3, <1>5, <2>1, <2>2
<1> QED
  BY <1>4, <1>5

\* What the end of a handle does to the table.
LEMMA FreeDoes ==
  ASSUME TypeInv, NEW d \in Device, FreeHandle(d)
  PROVE  /\ owned' = owned \ {d}
         /\ \A e \in Device \ {d} : mHandle'[e] = mHandle[e]
         /\ \A h \in Handle : mHanleArray[h] /\ h # mHandle[d] => mHanleArray'[h]
<1>1. owned' = owned \ {d} /\ \A e \in Device \ {d} : mHandle'[e] = mHandle[e]
  BY DEF FreeHandle, TypeInv, HandlesOK
<1>2. \A h \in Handle : mHanleArray[h] /\ h # mHandle[d] => mHanleArray'[h]
  BY Zenon DEF FreeHandle
<1> QED
  BY <1>1, <1>2

\* Handles given out, freed and forgotten leave the owners with handles of their own.
LEMMA OwnersStep ==
  ASSUME TypeInv, SafetyInv, [Next]_vars
  PROVE  OwnersInv'
<1> USE DEF OwnersInv, SafetyInv
<1>1. ASSUME NEW d \in Device, ConnectDevice(d) PROVE OwnersInv'
  BY <1>1 DEF ConnectDevice
<1>2. ASSUME NEW d \in Device, CancelConnect(d) PROVE OwnersInv'
  BY <1>2 DEF CancelConnect, tableVars
<1>3. ASSUME NEW d \in Device, NEW e \in Device, Disconnect(d, e) PROVE OwnersInv'
  <2>1. astray' = "no" => astray = "no"
    BY <1>3, ReachDoes DEF Disconnect
  <2> QED
    BY <1>3, <2>1 DEF Disconnect
<1>4. ASSUME NEW d \in Device, NEW e \in Device, WriteCharacteristic(d, e) PROVE OwnersInv'
  <2>1. astray' = "no" => astray = "no"
    BY <1>4, ReachDoes DEF WriteCharacteristic
  <2> QED
    BY <1>4, <2>1 DEF WriteCharacteristic
<1>5. ASSUME NEW d \in Device, NEW r \in Request, SendControlCommand(r, d) PROVE OwnersInv'
  <2>1. Target[r] \in Device
    OBVIOUS
  <2>2. astray' = "no" => astray = "no"
    BY <1>5, <2>1, ReachDoes DEF SendControlCommand
  <2> QED
    BY <1>5, <2>2 DEF SendControlCommand
<1>6. ASSUME NEW d \in Device, OnConnected(d) PROVE OwnersInv'
  <2> SUFFICES ASSUME astray = "no" PROVE OwnersInv'
    BY <1>6 DEF OnConnected, OwnersInv
  <2>1. Alloc(d) /\ UNCHANGED hubHandle /\ radio[d] \in {"trying", "cancelled"}
    BY <1>6 DEF OnConnected
  <2>2. hubHandle[d] = NoHandle
    BY <2>1 DEF ListedInv
  <2>3. owned \subseteq Device
    BY DEF TypeInv, RequestsOK
  <2> QED
    BY <2>1, <2>2, <2>3, AllocDoes
<1>7. ASSUME NEW d \in Device, OnServicesDiscovered(d) PROVE OwnersInv'
  <2>1. hubHandle' = [hubHandle EXCEPT ![d] = mHandle[d]]
        /\ UNCHANGED <<mHanleArray, mHandle, owned, astray>>
    BY <1>7 DEF OnServicesDiscovered
  <2>2. owned \subseteq Device /\ hubHandle \in [Device -> 0..NoHandle]
    BY DEF TypeInv, RequestsOK, HandlesOK
  <2> QED
    BY <2>1, <2>2
<1>8. ASSUME NEW d \in Device, OnDisconnected(d) PROVE OwnersInv'
  <2> SUFFICES ASSUME astray' = "no" PROVE OwnersInv'
    BY DEF OwnersInv
  <2>1. astray = "no" /\ d \in owned /\ hubHandle' = [hubHandle EXCEPT ![d] = NoHandle]
    BY <1>8, LossDoes
  <2>2. FreeHandle(d)
    BY <1>8 DEF OnDisconnected
  <2>3. owned \subseteq Device /\ hubHandle \in [Device -> 0..NoHandle]
    BY DEF TypeInv, RequestsOK, HandlesOK
  <2> QED
    BY <2>1, <2>2, <2>3, FreeDoes
<1>9. ASSUME NEW d \in Device, CancelledSilently(d) PROVE OwnersInv'
  BY <1>9 DEF CancelledSilently, tableVars
<1>10. ASSUME NEW d \in Device, OnGattDone(d) PROVE OwnersInv'
  BY <1>10 DEF OnGattDone, tableVars
<1>11. ASSUME NEW d \in Device, TestQueue(d) PROVE OwnersInv'
  BY <1>11 DEF TestQueue, tableVars, queueVars
<1>12. ASSUME NEW d \in Device, DequeueGattRequest(d) PROVE OwnersInv'
  BY <1>12 DEF DequeueGattRequest, Take, Accepts, tableVars
<1>13. CASE BluetoothOff
  BY <1>13 DEF BluetoothOff
<1>14. CASE AdapterChanges
  BY <1>14 DEF AdapterChanges, AdapterOn, UserSwitches, tableVars, queueVars
<1>15. CASE UNCHANGED vars
  BY <1>15 DEF vars, tableVars, queueVars
<1> QED
  BY <1>1, <1>2, <1>3, <1>4, <1>5, <1>6, <1>7, <1>8, <1>9, <1>10, <1>11, <1>12, <1>13,
     <1>14, <1>15 DEF Next

\* A link that is lost or given up is off the hub's list.
LEMMA ListedStep ==
  ASSUME TypeInv, SafetyInv, [Next]_vars
  PROVE  ListedInv'
<1> USE DEF ListedInv, SafetyInv
<1>1. ASSUME NEW d \in Device, ConnectDevice(d) PROVE ListedInv'
  BY <1>1 DEF ConnectDevice, LinkInv, CanReconnect, TypeInv, PlacesOK
<1>2. ASSUME NEW d \in Device, CancelConnect(d) PROVE ListedInv'
  BY <1>2 DEF CancelConnect, Drop, tableVars, TypeInv, PlacesOK
<1>3. ASSUME NEW d \in Device, NEW e \in Device, Disconnect(d, e) PROVE ListedInv'
  <2>1. astray' = "no" => astray = "no"
    BY <1>3, ReachDoes DEF Disconnect
  <2> QED
    BY <1>3, <2>1 DEF Disconnect, Drop, TypeInv, PlacesOK
<1>4. ASSUME NEW d \in Device, NEW e \in Device, WriteCharacteristic(d, e) PROVE ListedInv'
  <2>1. astray' = "no" => astray = "no"
    BY <1>4, ReachDoes DEF WriteCharacteristic
  <2> QED
    BY <1>4, <2>1 DEF WriteCharacteristic
<1>5. ASSUME NEW d \in Device, NEW r \in Request, SendControlCommand(r, d) PROVE ListedInv'
  <2>1. Target[r] \in Device
    OBVIOUS
  <2>2. astray' = "no" => astray = "no"
    BY <1>5, <2>1, ReachDoes DEF SendControlCommand
  <2> QED
    BY <1>5, <2>2 DEF SendControlCommand
<1>6. ASSUME NEW d \in Device, OnConnected(d) PROVE ListedInv'
  BY <1>6 DEF OnConnected, TypeInv, PlacesOK
<1>7. ASSUME NEW d \in Device, OnServicesDiscovered(d) PROVE ListedInv'
  BY <1>7 DEF OnServicesDiscovered, TypeInv, PlacesOK, HandlesOK
<1>8. ASSUME NEW d \in Device, OnDisconnected(d) PROVE ListedInv'
  <2>1. astray' = "no" => astray = "no" /\ hubHandle' = [hubHandle EXCEPT ![d] = NoHandle]
    BY <1>8, LossDoes
  <2>2. radio' = [radio EXCEPT ![d] = "down"]
    BY <1>8 DEF OnDisconnected
  <2> QED
    BY <2>1, <2>2 DEF TypeInv, PlacesOK, HandlesOK
<1>9. ASSUME NEW d \in Device, CancelledSilently(d) PROVE ListedInv'
  BY <1>9 DEF CancelledSilently, tableVars, TypeInv, PlacesOK
<1>10. ASSUME NEW d \in Device, OnGattDone(d) PROVE ListedInv'
  BY <1>10 DEF OnGattDone, tableVars
<1>11. ASSUME NEW d \in Device, TestQueue(d) PROVE ListedInv'
  BY <1>11 DEF TestQueue, tableVars, queueVars
<1>12. ASSUME NEW d \in Device, DequeueGattRequest(d) PROVE ListedInv'
  BY <1>12 DEF DequeueGattRequest, Take, Accepts, tableVars
<1>13. CASE BluetoothOff
  BY <1>13 DEF BluetoothOff, TypeInv, PlacesOK
<1>14. CASE AdapterChanges
  BY <1>14 DEF AdapterChanges, AdapterOn, UserSwitches, tableVars, queueVars
<1>15. CASE UNCHANGED vars
  BY <1>15 DEF vars, tableVars, queueVars
<1> QED
  BY <1>1, <1>2, <1>3, <1>4, <1>5, <1>6, <1>7, <1>8, <1>9, <1>10, <1>11, <1>12, <1>13,
     <1>14, <1>15 DEF Next

\* No step reaches one owner in place of another.
LEMMA RightStep ==
  ASSUME TypeInv, SafetyInv, [Next]_vars
  PROVE  RightDevice'
<1> USE DEF SafetyInv
<1>1. ASSUME NEW d \in Device, ConnectDevice(d) PROVE RightDevice'
  BY <1>1 DEF RightDevice, ConnectDevice, FindOrAdd, CanReconnect, queueVars
<1>2. ASSUME NEW d \in Device, CancelConnect(d) PROVE RightDevice'
  BY <1>2 DEF RightDevice, CancelConnect, Drop, tableVars, queueVars
<1>3. ASSUME NEW d \in Device, NEW e \in Device, Disconnect(d, e) PROVE RightDevice'
  BY <1>3, ReachDoes DEF Disconnect
<1>4. ASSUME NEW d \in Device, NEW e \in Device, WriteCharacteristic(d, e) PROVE RightDevice'
  BY <1>4, ReachDoes DEF WriteCharacteristic
<1>5. ASSUME NEW d \in Device, NEW r \in Request, SendControlCommand(r, d) PROVE RightDevice'
  <2>1. Target[r] \in Device
    OBVIOUS
  <2> QED
    BY <1>5, <2>1, ReachDoes DEF SendControlCommand
<1>6. ASSUME NEW d \in Device, OnConnected(d) PROVE RightDevice'
  BY <1>6 DEF RightDevice, OnConnected, queueVars
<1>7. ASSUME NEW d \in Device, OnServicesDiscovered(d) PROVE RightDevice'
  BY <1>7 DEF RightDevice, OnServicesDiscovered
<1>8. ASSUME NEW d \in Device, OnDisconnected(d) PROVE RightDevice'
  BY <1>8, LossDoes
<1>9. ASSUME NEW d \in Device, CancelledSilently(d) PROVE RightDevice'
  BY <1>9 DEF RightDevice, CancelledSilently, tableVars, queueVars
<1>10. ASSUME NEW d \in Device, OnGattDone(d) PROVE RightDevice'
  BY <1>10 DEF RightDevice, OnGattDone, tableVars
<1>11. ASSUME NEW d \in Device, TestQueue(d) PROVE RightDevice'
  BY <1>11 DEF RightDevice, TestQueue, tableVars, queueVars
<1>12. ASSUME NEW d \in Device, DequeueGattRequest(d) PROVE RightDevice'
  BY <1>12 DEF RightDevice, DequeueGattRequest, Take, Accepts, tableVars
<1>13. CASE BluetoothOff
  BY <1>13 DEF RightDevice, BluetoothOff, AdapterOff
<1>14. CASE AdapterChanges
  BY <1>14 DEF RightDevice, AdapterChanges, AdapterOn, UserSwitches, tableVars, queueVars
<1>15. CASE UNCHANGED vars
  BY <1>15 DEF RightDevice, vars, tableVars, queueVars
<1> QED
  BY <1>1, <1>2, <1>3, <1>4, <1>5, <1>6, <1>7, <1>8, <1>9, <1>10, <1>11, <1>12, <1>13,
     <1>14, <1>15 DEF Next

\* A call or a report that names one device reaches another only after some device
\* has acted under a handle that is not its own (RightDevice): for any number of
\* devices, a table of any size, and however the links and the adapter come and go.
THEOREM DevicesRight == Spec => []RightDevice
<1>1. Init => TypeInv /\ SafetyInv
  <2> SUFFICES ASSUME Init PROVE SafetyInv
    BY TypeInit
  <2> QED
    BY DEF Init, SafetyInv, LinkInv, OwnersInv, ListedInv, RightDevice
<1>2. TypeInv /\ SafetyInv /\ [Next]_vars => TypeInv' /\ SafetyInv'
  <2> SUFFICES ASSUME TypeInv, SafetyInv, [Next]_vars PROVE TypeInv' /\ SafetyInv'
    OBVIOUS
  <2>1. TypeInv'
    BY PlacesStep, ListStep, FlagsStep, HandlesStep, RequestsStep, QueuesStep DEF TypeInv
  <2>2. LinkInv'
    BY LinkStep DEF SafetyInv
  <2> QED
    BY <2>1, <2>2, OwnersStep, ListedStep, RightStep DEF SafetyInv
<1>3. SafetyInv => RightDevice
  BY DEF SafetyInv
<1> QED
  BY <1>1, <1>2, <1>3, PTL DEF Spec
-----------------------------------------------------------------------------
(* Scanning.                                                               *)

USE AndroidScannerAssumption DEF AndroidScannerAssumption

\* The flags of ScannerTypeOK, which Zenon types, and the rest, which SMT does.
ScannerFlagsOK ==
    /\ mIsScanning \in BOOLEAN /\ unreported \in BOOLEAN
    /\ silent \in BOOLEAN /\ overlapped \in BOOLEAN

ScannerPlacesOK ==
    /\ adapter \in {"off", "turning_on", "on", "turning_off"}
    /\ hubCall \in {"idle", "check", "busy", "stop"}
    /\ timerCall \in {"idle", "stop"}
    /\ mScanningState \in {"idle", "busy"}
    /\ timers \in Nat /\ finishes \in Nat /\ scans \in 0..MaxScans

\* Every variable of the two threads, and the adapter, keeps its type.
THEOREM ScannerTypeCorrect == ScannerSpec => []ScannerTypeOK
<1>1. ScannerInit => ScannerFlagsOK
  BY Zenon DEF ScannerInit, ScanInit, ScannerFlagsOK
<1>2. ScannerInit => ScannerPlacesOK
  BY DEF ScannerInit, AdapterInit, ScanInit, ScannerPlacesOK
<1>3. ScannerFlagsOK /\ [ScannerNext]_scannerVars => ScannerFlagsOK'
  <2> SUFFICES ASSUME ScannerFlagsOK, [ScannerNext]_scannerVars PROVE ScannerFlagsOK'
    OBVIOUS
  <2> USE DEF ScannerFlagsOK
  <2>1. CASE StartScan
    BY Zenon, <2>1 DEF StartScan
  <2>2. CASE CheckFails
    BY Zenon, <2>2 DEF CheckFails
  <2>3. CASE ScannerStart
    BY Zenon, <2>3 DEF ScannerStart
  <2>4. CASE ScannerBusy
    BY Zenon, <2>4 DEF ScannerBusy
  <2>5. CASE StopScan
    BY Zenon, <2>5 DEF StopScan
  <2>6. CASE StopScanRest
    BY Zenon, <2>6 DEF StopScanRest, StopRest
  <2>7. CASE Timeout
    BY Zenon, <2>7 DEF Timeout
  <2>8. CASE TimeoutRest
    BY Zenon, <2>8 DEF TimeoutRest, StopRest
  <2>9. CASE OnScanFinished
    BY Zenon, <2>9 DEF OnScanFinished
  <2>10. CASE AdapterSwitches
    BY Zenon, <2>10 DEF AdapterSwitches, AdapterOn, AdapterOff, UserSwitches, scanVars
  <2>11. CASE UNCHANGED scannerVars
    BY Zenon, <2>11 DEF scannerVars, scanVars
  <2> QED
    BY <2>1, <2>2, <2>3, <2>4, <2>5, <2>6, <2>7, <2>8, <2>9, <2>10, <2>11 DEF ScannerNext
<1>4. ScannerPlacesOK /\ [ScannerNext]_scannerVars => ScannerPlacesOK'
  <2> SUFFICES ASSUME ScannerPlacesOK, [ScannerNext]_scannerVars PROVE ScannerPlacesOK'
    OBVIOUS
  <2> USE DEF ScannerPlacesOK
  <2>1. CASE StartScan
    BY <2>1 DEF StartScan
  <2>2. CASE CheckFails
    BY <2>2 DEF CheckFails
  <2>3. CASE ScannerStart
    BY <2>3 DEF ScannerStart
  <2>4. CASE ScannerBusy
    BY <2>4 DEF ScannerBusy
  <2>5. CASE StopScan
    BY <2>5 DEF StopScan
  <2>6. CASE StopScanRest
    BY <2>6 DEF StopScanRest, StopRest
  <2>7. CASE Timeout
    BY <2>7 DEF Timeout
  <2>8. CASE TimeoutRest
    BY <2>8 DEF TimeoutRest, StopRest
  <2>9. CASE OnScanFinished
    BY <2>9 DEF OnScanFinished
  <2>10. CASE AdapterSwitches
    BY <2>10 DEF AdapterSwitches, AdapterOn, AdapterOff, UserSwitches, scanVars
  <2>11. CASE UNCHANGED scannerVars
    BY <2>11 DEF scannerVars, scanVars
  <2> QED
    BY <2>1, <2>2, <2>3, <2>4, <2>5, <2>6, <2>7, <2>8, <2>9, <2>10, <2>11 DEF ScannerNext
<1>5. ScannerFlagsOK /\ ScannerPlacesOK => ScannerTypeOK
  BY Zenon DEF ScannerFlagsOK, ScannerPlacesOK, ScannerTypeOK
<1> QED
  BY <1>1, <1>2, <1>3, <1>4, <1>5, PTL DEF ScannerSpec

\* What OneTimer needs to be inductive: the timer of a scan is posted from
\* before the state is busy until after it is idle, and no longer; and nobody
\* stops a scan whose start has not come to its end.
TimerInv ==
    silent \/ overlapped \/
        /\ hubCall = "busy" => /\ mScanningState = "idle" /\ timerCall = "idle"
                               /\ timers = 1
        /\ hubCall # "busy" /\ mScanningState = "idle" => timers = 0
        /\ timers <= 1

\* However the timer, the client's stop and the adapter follow each other, no
\* older timer is posted beside that of the scan that runs (OneTimer).
THEOREM TimerOnce == ScannerSpec => []OneTimer
<1>1. ScannerInit => TimerInv
  BY DEF ScannerInit, ScanInit, TimerInv
<1>2. ScannerTypeOK /\ TimerInv /\ [ScannerNext]_scannerVars => TimerInv'
  <2> SUFFICES ASSUME ScannerTypeOK, TimerInv, [ScannerNext]_scannerVars PROVE TimerInv'
    OBVIOUS
  <2> USE DEF ScannerTypeOK, TimerInv
  <2>1. CASE StartScan
    BY <2>1 DEF StartScan
  <2>2. CASE CheckFails
    BY <2>2 DEF CheckFails
  <2>3. CASE ScannerStart
    <3>1. silent' = silent
      BY <2>3 DEF ScannerStart
    <3>2. CASE mScanningState = "busy"
      BY <2>3, <3>2 DEF ScannerStart
    <3>3. CASE mScanningState # "busy"
      <4>1. /\ mScanningState = "idle" /\ hubCall # "busy" /\ hubCall' = "busy"
            /\ timers' = timers + 1
            /\ mScanningState' = mScanningState /\ timerCall' = timerCall
        BY <2>3, <3>3 DEF ScannerStart
      <4>2. overlapped' <=> overlapped \/ timerCall = "stop"
        BY Zenon, <2>3, <3>3 DEF ScannerStart
      <4>3. CASE silent \/ overlapped \/ timerCall = "stop"
        BY Zenon, <3>1, <4>2, <4>3
      <4>4. CASE ~(silent \/ overlapped \/ timerCall = "stop")
        BY <4>1, <4>4
      <4> QED
        BY <4>3, <4>4
    <3> QED
      BY <3>2, <3>3
  <2>4. CASE ScannerBusy
    BY <2>4 DEF ScannerBusy
  <2>5. CASE StopScan
    BY <2>5 DEF StopScan
  <2>6. CASE StopScanRest
    BY <2>6 DEF StopScanRest, StopRest
  <2>7. CASE Timeout
    BY <2>7 DEF Timeout
  <2>8. CASE TimeoutRest
    BY <2>8 DEF TimeoutRest, StopRest
  <2>9. CASE OnScanFinished
    BY <2>9 DEF OnScanFinished
  <2>10. CASE AdapterSwitches
    BY <2>10 DEF AdapterSwitches, scanVars
  <2>11. CASE UNCHANGED scannerVars
    BY <2>11 DEF scannerVars, scanVars
  <2> QED
    BY <2>1, <2>2, <2>3, <2>4, <2>5, <2>6, <2>7, <2>8, <2>9, <2>10, <2>11 DEF ScannerNext
<1>3. TimerInv => OneTimer
  BY DEF TimerInv, OneTimer
<1> QED
  BY <1>1, <1>2, <1>3, ScannerTypeCorrect, PTL DEF ScannerSpec
=============================================================================
