# gForceSDK verification

TLA+ models of the gForce armband SDK (`src/src`: the hub library over the USB
dongle or over Android's Bluetooth, with its Unity binding), the TLC runs that
check them and the TLAPS proofs about them. Paths below are relative to the
repository's `src/`; `W/` is `src/platform/ble/windows/dongle/`, `A/` the Android
service `script/android/.../com/oymotion/ble/`.

## 1. The system

A client links the SDK, obtains a `Hub` (`BLEHub`), scans for armbands,
connects to them, sets them up and receives data and events through
`HubListener`s. Under the hub is an `AdapterManager`: on Windows it drives a USB
dongle over a serial port, on Android it calls a Java service.

Threads:

| thread | runs | takes |
|---|---|---|
| client threads | `BLEHub`, `BLEDevice`, `DeviceSetting` methods, `run` | `mTaskMutex` in `executeCommand`, and in `init` and `deinit` over all of the transport's start and stop, the joins of its threads included |
| hub command thread | `BLEHub::commandTask`: every call into the AdapterManager | `mTaskMutex` while a request runs, `mMutexListeners` within it in `startScan` and `stopScan` |
| event thread | `GF_CNpiInterface::Run` -> `AdapterManager::OnEvent`, `DiscoveryService::OnEvent` -> hub callbacks | `mTaskMutex` in the callbacks, `mMutexListeners` in the notifications; both when the dongle is gone (`onComDestory`) |
| one per `GF_CRemoteDevice` | `Run`: the discovery state machine, the replies to commands, `onDeviceConnected` | `mTaskMutex`, then `mMutexListeners`; `mCommandMutex` |
| timer thread | `TimerManager::threadProc` | its own locks, `DeviceSettingHandle::mMutex` |
| NPI TX, RX, log and port-detect threads | the serial line | the queues' semaphores |
| Android main and binder threads | scan timer, adapter broadcasts; GATT callbacks | nothing |
| Unity main and run thread | `GForceHub.Update`, `Reset`; `Hub.run` | nothing |

### Components

| component | state | operations | interacts with | what makes it correct | modules |
|---|---|---|---|---|---|
| GATT command queue (`W/RemoteDevice.h`) | `mCommand`, `mBusy`, the device's `mMessage` | Enqueue, Dequeue, creation, DeInit | command thread and device thread share it; dongle | order, one command under way, nothing stranded | GattQueue |
| Hub command thread (`BLEHub.cpp`) | `mMsgQ`, `mTaskMutex`, each message's `executed`, `mAM`, `mClientCallback` | executeCommand, commandTask, init, deinit | every client thread, the event thread | each request runs once, before its call returns, with an AdapterManager; calls and deinit return | HubCommand |
| Connections (`BLEDevice.cpp`, `BLEHub.cpp`, `W/AdapterManager.cpp`) | status and handle of each device, the hub's two device sets, the four lists of the AdapterManager, `mIsConnecting` | connect, disconnect, cancelConnect, link events, the callbacks | client, command, event and device threads, dongle | sets and statuses agree with the radio, no orphan link, no dead-lock | Connection |
| Scanning (`AdapterManager`, `W/DiscoveryService.cpp`, `BLEHub.cpp`) | two `mIsScanning` flags, `mAvalbalDevice`, the hub's disconnected devices | startScan, stopScan, end of a scan, device found | event thread against command thread | flags agree, one `onScanFinished` per scan, the client knows the list | ScanControl |
| Service discovery (`W/RemoteDevice.cpp`, `W/GattClient.cpp`, `W/Database.cpp`) | `mState`, the services found and the cursors over them, `Temp_Buffer`, the device's XML file | one handler per state and message; load, save and delete | event thread, dongle, the threads of other devices, the next run of the program | nothing skipped or visited twice, only complete services loaded, ends in CONNECTED | GattDiscovery, Database |
| Listeners and polling (`BLEHub.cpp`) | `mListeners`, `mPollMsgQ`, `mPolling`, work mode, the two mutexes | registerListener, unRegisterListener, NotifyHelper, run, setWorkMode, the callbacks and commands that notify, deinit | every thread that notifies, listeners that call the hub back | order, only the registered, notifying threads come back | Delivery |
| Data profiles (`BLEDataProfile4.cpp`, `SimpleProfile.cpp`) | none | what an armband's packet makes the hub notify of | Delivery | | DataProfiles |
| Device settings (`DeviceSettingHandle.cpp`, `DeviceSettingDataProfile4.cpp`) | `mExecutingList`, the training buffer and its callback, values kept | sendCommand, onResponse, onTimer, sendTrainingModelData | client, event and timer threads | a callback gets its own command's answer; every call ends; a training success is one | DeviceSettings, SettingCommands |
| Timers (`common/Utils.h`) | the heap, `mRunning`, what the thread waits for | start, stop, trigger | any thread | a timer that was started fires | DeviceSettings |
| NPI transport (`W/NpiInterface.cpp`, `W/npi/`) | the command and event queues, the packet being received, the port, the threads | Connect, DisConnect, Push, Pop, the `Run` of each thread | dongle, hub command thread | whole frames in order, an unplugged dongle is reported, Deinit ends | NpiTransport, NpiQueue |
| NPI commands (`W/npi/npi_cmd.cpp`) | none | one builder per command | transport | length allocated, announced and filled agree | NpiCommands |
| Android port (`A/`, `platform/ble/android/cpp`) | scanner state and timer; handle table, devices, their queues | startScan, stopScan, connect, disconnect, send; adapter broadcasts, GATT callbacks | Android, the hub | one timer per scan, every scan is reported, the right device is reached, requests are sent | AndroidScanner, AndroidDevices, AndroidAdapter |
| Unity binding (`binding/unity3d/`) | the slots, devices found, listeners | Update, Reset, Dispose, the listener's methods | the hub, two threads | one slot per device, the search goes on | UnityHub |

Hard behaviour: several kinds of threads share the connection state, some of it
guarded by a mutex and some not; a client writes the status of a device after its
request was carried out, in competition with the callback; callbacks for one
device run on two threads; the dongle reports by handle and reuses handles;
threads are joined, and listeners called, with a lock held; requests have no
acknowledgement that the code waits for; ATT errors, lost links, late answers and
cancelled attempts arrive after the state they were meant for; files are written
in place; the dongle is pulled out and the adapter switched off at any moment.

## 2. The modules

| module | what it is |
|---|---|
| `CommandChannel` | abstract: what the command queue promises its callers |
| `GattQueue` | the queue and the two threads on it; the refinement to `CommandChannel` |
| `SerialService` | abstract: a call is pending, is carried out once, then returns |
| `HubCommand` | `executeCommand`, `commandTask`, `init`, `deinit`, event callbacks; the refinement to `SerialService` |
| `Connection`, `ConnectionProofs` | connect, disconnect and cancel over all layers, with the event and device threads; the theorems about it |
| `ScanControl`, `ScanControlProofs` | startScan and stopScan against the end of a scan and the devices found, and the theorems about it |
| `Database` | the file of a device: what is saved, loaded, deleted, and left by an interrupted save |
| `GattDiscovery` | the state machine of a RemoteDevice's thread up to CONNECTED, with `Database` |
| `GattProofs` | the theorems about `GattQueue` and about `GattDiscovery` |
| `OrderedChannel` | abstract: what the command path to the port promises |
| `NpiQueue` | the ring buffer with its semaphores, as operators on its record |
| `NpiCommands` | the builders of `NPI_CMD`, as tables of what they allocate, announce and fill in |
| `NpiTransport`, `NpiTransportProofs` | the threads between the SDK and the port, on `NpiQueue` and `NpiCommands`; the refinement to `OrderedChannel`; the theorems about it |
| `SettingCommands` | the commands of the settings and the answers their handlers want, as tables |
| `DeviceSettings` | the settings, their list, their training transfer, and the timer |
| `CallProofs` | the calls that wait for an answer: the theorems about `HubCommand` and about `DeviceSettings` |
| `DataProfiles` | which packet the hub tells its listeners of |
| `Delivery`, `DeliveryProofs` | from a notification to the listeners, on `DataProfiles`; the theorems about it |
| `AndroidAdapter` | external: the adapter the user switches on and off |
| `AndroidScanner` | Android's scanner and its timer |
| `AndroidDevices` | Android's handle table, connections and request queues |
| `AndroidProofs` | the theorems about both |
| `UnityHub`, `UnityHubProofs` | the Unity binding and the theorems about it |
| `MC...` | instances for TLC |

Variables keep the names of the source where they have one; variables marked
*history* in the modules are observations that no action tests (`accepted` is
tested only to issue each command once). A definition whose comment starts
with *Mutant* is a plausible defect of the definition next to it; no
specification uses it, and a run whose property is to be trusted fails when
the definition is replaced by it. `PROJECT.json` lists which.

Two modules that one proof module extends cannot share a name, so `DeviceSettings`,
`AndroidScanner` and `GattDiscovery` have `SettingsInit`, `SettingsNext`, `SettingsSpec`,
`ScannerInit`, `DiscoveryInit` and so on where the others have `Init`, `Next` and `Spec`,
and the `mMessage` of a device is `inbox` in `GattQueue`.

The code does not protect itself against every order of calls and events. A
property that fails in one of them names it, by a condition on the history or on
what is left of a budget, so that it still speaks of every other order; the
conditions are listed with each module. Where a hazard in `PROJECT.json` says
that the code does go wrong, the property fails once that condition is dropped.

### GattQueue

`Issue` is `SendControlCommand` or `ExchangeMTUSize` on the command thread: one
critical section of `mCommandMutex` that sends the command if `mBusy` is not
set and stores it otherwise. `Respond` (external) is the armband's answer put
into `mMessage` (`inbox`) by the event thread; `ProcessMessage` is the device thread,
which calls `Dequeue` on write and MTU replies and drops everything else.
`WriteDirect` is `WriteCharacteristicValue`, which reaches the dongle without
the queue. `DeInit` ends the device. The dongle answers in order; each command
and each direct write is issued once (identity stands for the call).

`OneOutstanding` and the refinement speak of the time until the first direct
write: `Dequeue` takes its answer for the answer to a command. `EveryCommandSent`
also excludes `Stalled`, an ATT error as the answer, which never releases the
queue.

### HubCommand

One step per lock, unlock or shared write: a call queues its message under
`mTaskMutex`, blocks (giving the mutex up), is woken by the command thread or
spuriously, takes the mutex again and tests `executed`. The command thread
runs the request with the mutex and then sets `executed` and notifies without
it. `init` may fail after `mAM` was already visible. `deinit` makes calls of
its own, clears the callback, copies the device sets, disconnects each, queues
the null message, joins the command thread and drops what is left in the queue
before it joins the event thread with `mTaskMutex` held. The AdapterManager
itself is left out.

`CallReturns` excludes a spurious wake-up (`NoSpurious`: the caller tests
`executed` and blocks again while the command thread sets it and notifies without
the mutex) and an event (`NoEvents`: deinit waits for ever for a callback that
waits for `mTaskMutex`; see the violation below), and speaks of calls queued
before deinit's exit message (`Reached`): a later one is dropped and never told.

### Connection

A client call has the steps of the threads it passes through: the status test
on the client thread (`ConnectCall`, `DisconnectCall`, `CancelCall`), the
AdapterManager on the command thread (`Connect`, `CancelConnect`,
`DisconnectBegin` and `DisconnectEnd` around the join of the device's thread),
and the status write back on the client thread (`WriteStatus`). The event
thread takes events of the dongle in order (`OnConnectEvent`,
`OnConnectError`, the three branches of link-terminated) and then calls the
hub and the device (`HubDisconnected`, `DeviceDisconnected`); each
RemoteDevice's thread takes its handle, is discovered, and calls back
(`TakeHandle` to `DeviceSetConnected`). The lists hold RemoteDevice objects by
number, as the code holds pointers; `Kept` is what `remove` leaves of a list.

The hub's two sets are `std::set`s ordered by `BLEDevice::operator<` (`Less`): by
handle if both devices are Connected, by address otherwise. Status and handle change
while a device is in its set, so a set is modelled as its tree: the sequence of its
elements. `LowerBounds` and `UpperBounds` are the gaps at which a search can end,
whatever the shape of the tree; `Erased` is `erase(key)`, which removes what lies
between the two and so may miss the device or take a neighbour; `Inserted` is
`insert(key)`, which may put a second copy in. As long as the handles of the Connected
devices are in the order of their addresses (`Aligned`), the tree has the order of the
keys, and there is one gap. `crossed` is history: at some time they were not. It needs
no careless client: armband 2 is connected and has handle 0, armband 1, of a lower
address, is next and gets handle 1. The erase of armband 1 from the disconnected or
the connected devices may now look on the wrong side of armband 2, and armband 1 stays
in a set it has left. From then on an armband may be in both sets, or in neither. The hazard is
listed in `PROJECT.json`; no line of the documentation says otherwise, so there is
no violating run for it.

`Deeds` names what may happen, each with a budget; `Budgets` is the set of
budgets a behaviour may have, and `Never(b)` says that nothing of b was spent yet.

| deed | what goes wrong with it |
|---|---|
| `early`: a link is lost before its device thread has stored the handle | no list knows the handle, nobody is told, the device stays Connecting |
| `again`: `connect` while the first call is unanswered | the dongle refuses, `mIsConnecting` stays up, the status is overwritten |
| `slow`: a client thread is delayed between the hub's answer and its write of `mCnntStatus` | the late write hides the callback's |
| `cancel`: `cancelConnect` | it may end another attempt, leave a link without an owner, and its error event clears the flag of the next attempt; with the link already up the event uses a null `mCancelConnectingDevice` (state "crashed") |
| `reuse`: the dongle gives a handle again while something refers to the old link | events by handle reach the wrong device |

`SetsApart` holds under all of them while the history is not `crossed` (its last part
without `reuse`), `LinksOwned` without `cancel` and in crossed histories too, `StatusTrue`
and `AttemptsEnd` for `Careful` clients: with none of the deeds and not `crossed`.

### ScanControl

The command thread has one request at a time and holds `mTaskMutex` for all of
it. `StartScan` to `StartDiscard` are `GF_CAdapterManager::StartScan`, the request
to the dongle, the flag that `GF_CDiscoveryService::StartScan` raises only after
the request, and the loop of `BLEHub::startScan` that drops the disconnected
devices; `StopScan` to `StopReport` likewise. The event thread takes one event of
the dongle and goes through the handler's steps: an advertisement without a name
waits in `mAvalbalDevice` for the scan response (`AdvertTaken`), one with the
complete name is reported at once (`NamedTaken`), the response reports the device
once for each entry that waits (`ResponseTaken`); `ListDevice` is `onScanResult`
under the mutex and `TellFound` the callback after it; `FinishedTaken` to
`ReportFinished` lower one flag after the other. RSSI, addresses and names are
data. The dongle is external: it scans when asked, stops when asked or by itself,
and then sends `finished`. `mIsConnecting` is false throughout.

`Calm` excludes a stop and a scan that ends before `startScan` returned: `stopScan`
races the end of the scan, and then the flags may disagree, the end may be
reported twice or a device found before the discard be told after it. The second
part of `FinishedOnce` and the first of `ToldIsListed` hold in every history.

### GattDiscovery and Database

One record `rd[d]` per GF_CRemoteDevice, with its state, the services found so
far, the cursors and the request it has made; one action per handler and kind
of message. The helpers `Visit`, `NextService`, `DiscoveryDescriptor`,
`StartDiscoveryCharacteristic` and `Configure` are the functions of the walk and
return the record after their assignments. `Answer` and `Refuse` are the armband
(external): it answers the request from its layout, in as many messages as the
layout needs, or with an error. `refused` marks the answers after which the code
has no way on: an error where no value was read, a service without
characteristics, `notFound` for descriptors, a failed bond or authentication. An
authentication that is not supported, a missing key (the file is cleared and the
link dropped) and an error instead of a value are not refusals: the code goes on
from them.

Handles and UUIDs are positions in the layout: an empty service has no handle
range, a characteristic has room for descriptors if handles lie between its value
and the next declaration, the last characteristic always has. Layouts have no
included services. Where an assertion can fail, a debug build stops and a release
build goes on, and the model has both.

The file of a device is the sequence of its root elements, each with its
attributes that matter and its children, written and read as `GF_CDatabase` does:
what a list has comes back in any order and is put in order by its indices, and no
save looks whether the file loaded. `SaveFile` empties the file and writes it again, so
`Crash`, which ends the program between any two steps or within a handler that
saves or deletes, leaves any of `Interrupted`: the first roots, and perhaps a piece
of the next. The parser drops the piece and reports an error. The next run of the
program starts from what is there.

`asked` is what the walk asked for, `Documented` what the head of `GattClient.cpp`
announces for a layout, as a set with its order (`Earlier`): `WalkInOrder` says that
what was asked is, in that order, all of it up to the last request made.

`SavedIsComplete` excludes, for long values only, two devices that read one at the
same time (`overlap`): they share `Temp_Buffer` and mix their parts. `DiscoveryEnds`
excludes refusals and an armband without a single descriptor (`Bare`): there the
code asks for nothing after the walk and CONNECTED is never reached.

### NpiTransport, NpiQueue and NpiCommands

`owner` is the client's thread inside `BLEHub::init` and `BLEHub::deinit`. It walks
through `Connect` and `DisConnect` in the order of the code: start log, TX, RX and
detection, make the port event, start the event thread; send GAP_DeviceInit and register
the hub's callback ("register"), and the SDK is "up"; take the callback away and join
the command thread ("closing"), and stop in the order of Deinit, joining each. All but
"up" and "closing" is done with the hub's mTaskMutex held (`Stopping`; `HubLocked` when
anybody holds it, the command thread while it sends included). The event thread gives a
packet to the callbacks that are registered: AdapterManager and discovery, where it may
send commands itself (event state "call"), and then the hub's, which wait for mTaskMutex
(state "hub", `EventHub`). A thread that was started before `m_bRun` was
set may do nothing (`StartRaces`). `Push` and `Pop` are two steps each around the
semaphores, with the store or fetch and the release in the critical section. TX
computes the length of a frame in a signed byte (`TotalLen`); RX takes the bytes of
a packet one at a time through its states, and in the last of them never looks at
its events (`RxStuck`). Pulling the dongle out is noticed by the detecting thread,
which tells RX, which puts a marker into the event queue, for which the event thread
calls `onComDestory`. `NpiCommands` has each
builder by the data it allocates, announces and fills in, and which of these grow
with the caller's payload (`UTIL_NVWrite` is not among them, it returns before it builds
anything); `Wrapper` maps the calls of GF_CNpiInterface to them.

`FramesWhole` holds up to `MaxPayload`, 119 bytes of a characteristic's value, above
which the length is negative. `UnplugReported` excludes `RxStuck`, a dongle gone
before the port event exists (`DetectedTooEarly`), threads that never ran or an event
thread that handled the marker before the hub's callback was registered, and a command
stuck in a full queue with no TX thread (`CommandStuck`: its sender has mTaskMutex, or is
the event thread). `DeinitEnds` starts where deinit joins the command thread; it excludes
`RxStuck`, the event thread that finds `mEventQueue` cleared (`EventSpins`) or waits in a
callback of the hub for the mutex that deinit keeps until it has joined it (`HubHeld`,
the dead-lock that `HubCommand_deinit_event` shows), a TX thread that never ran, a
command stuck, and a full event queue with nobody left to empty it (`Stranded`).

### DeviceSettings and SettingCommands

`SettingCommands` is the dispatch table: what each command sends, whether it waits
for an answer, asks for a larger MTU or keeps its value, and how long an answer has
to be. In `DeviceSettings` a call is a thread that goes through `sendCommand` (the
list by command number under `mMutex`, `updateTimer`), the event thread through
`onResponse` and the dispatch, the timer thread through `onTimer`; `updateTimer`
stops the timer, looks for the least time left and starts it, in steps, on
whichever thread. The timer manager has its one timer: due, the time its thread
decided to wait, and the notification that finds it not yet waiting (`missed`). A
training sends its packages one after the other from the event thread.

`OwnAnswer` excludes a late answer (`late`: one that comes after its command timed
out and a like command was sent), `WholeModelSent` also two trainings that began at
once (`raced`), `EveryCallEnds` the lost notification and `raced`. A callback that is
not there ends the program (`crashed`), as in the code.

### Delivery and DataProfiles

Four threads notify, each with the locks it has in the code:

| thread | notifies of | holding |
|---|---|---|
| event | data, the end of a link (whose thread it joins first), the end of a scan | nothing: the device is looked up under `mTaskMutex`, which is then free again (`LookUpDevice`) |
| event | the dongle that is gone (`onComDestory`) | `mTaskMutex` |
| device (an armband's) | its connection | nothing, likewise |
| task (the command thread) | devices dropped in `startScan`, the end of a scan in `stopScan` ("scan" stands for both) | `mTaskMutex` |
| owner (in `deinit`) | every device discarded | `mTaskMutex` |

`Notify` takes `mMutexListeners` and reads the work mode, once; in polling mode the
thread then queues a message for every listener, one after the other (`Queue`), in
free-run mode it calls them one by one, the mutex held until `Release`. `setWorkMode`
takes no lock and may come in between. A listener that is called returns, calls what needs
`mTaskMutex` ("asks": a query, or a command, which is queued and blocks the thread until
it was carried out), or registers a listener ("registers"). `run` turns away a second
poller, and takes messages and delivers them without a lock. A message to a listener that
was unregistered and still lives is delivered all the same. `deinit` takes the callback
away, has what is connected disconnected, ends the command thread (`SendExit`), drops
what waits and discards all devices (`DiscardAll`), and joins the event thread with
`mTaskMutex` held (`DeinitEnds`). One session. `DataProfiles` decides which packets of an armband
are told at all.

`HeardInOrder` excludes a change of mode over messages not yet delivered or just being
queued (`mixed`). `NotifyEnds`, that the event thread comes back from every callback,
excludes the two circles the mutexes make, and nothing else. `CallNeverEnds` is a call of a
listener that cannot end, with `mMutexListeners` held over it: a registration; what
needs `mTaskMutex` on a thread that holds it (a listener told that the dongle is gone,
that a scan begins or that deinit discards a device), or while a thread that holds it
waits to notify, or joins an armband's thread that waits to; a command when the
command thread has ended. `DeinitNeverEnds` is deinit joining an event thread that waits for
`mTaskMutex`.

### AndroidScanner, AndroidDevices and AndroidAdapter

The hub command thread starts and stops a scan (`StartScan` to `StopScanRest`), the
main thread runs the ten-second timer (`Timeout`, `TimeoutRest`) and
`OnScanFinished`; nothing is locked. `silent` is a stop that found the adapter off
and left the timer, `overlapped` a scan that began inside the timer's own stop: in
both an old timer stays posted, or an end is reported to the wrong scan.

In `AndroidDevices` the binder threads call back one step at a time, a request is
taken or queued by `sendControlCommand`, and the queue is tested (`TestQueue`) and
taken from (`DequeueGattRequest`) in two steps, between which a client may slip in
and the request is dropped (`lost`). The broadcast of an adapter that goes clears the
handle table but not the devices' handles. `RightDevice` says that an operation
reaches another device only after some device acted under a handle not its own
(`astray`); `EveryRequestSent` excludes dropped requests, a link that goes, and a
device that a lost link left with requests (`stale`).

### UnityHub

Unity's main thread runs `Update` (`scan`), `Reset` and quit in steps; the run
thread delivers the first message to the managed listeners one after the other.
A device is reduced to its status. `OneSlotEach` excludes a second listener (each
`Reset` adds one, only the first disposes of the old) and a message delivered in
the middle of a `Reset` (`leftover`); `KeepsSearching` excludes a failed attempt or
scan that nothing repeats (`hitch`).

## 3. The runs

`CHECK_DEADLOCK FALSE` stands in every configuration, each with its reason: the
bounded systems stop when their bounds are spent, a device is gone, or the hub is
shut down.

| run | question | bounds |
|---|---|---|
| `GattQueue_order` | one request under way, refinement of `CommandChannel`, every command sent | 4 commands, one an MTU request, 1 direct write, ATT errors; 3 messages |
| `HubCommand_threads` | types, `RunsOrWaits`, refinement of `SerialService`, calls and deinit return | 2 clients with a call each, 2 sessions, 1 device, 1 event, 1 spurious wake-up, an `init` that may fail |
| `HubCommand_deinit_event` (violation) | "The result of de-initalization": `deinit` returns although the event thread is in a callback | 1 session, 1 event |
| `Connection_races` | the two device sets and orphan links under every race; status, busy flag and liveness for careful clients | 2 armbands, 2 clients, 2 handles in either order, 3 connects; a budget of 2 disconnects and a loss, or of one of each and one of the five deeds above (a cancel with a disconnect only) |
| `ScanControl_races` | the flags, the reports and the list of devices while both threads run | 2 armbands, 2 scans, 1 stop, 1 early end, 3 advertisements or responses |
| `GattDiscovery_walk` | the announced order, complete files, own long values, assertions, and an end | 6 layouts of one armband and one of two, 2 connections, 1 lost link or end of the program, 1 refusal, long values of 2 parts |
| `NpiTransport_threads` | whole frames both ways, queue order, an unplugged dongle, and the end of Deinit | the command thread and the event thread send; queues of 2, payloads of 119 and 120 bytes, 2 packets, 3 commands and packets in all, one unset `m_bRun` |
| `AndroidScanner_timer` | one timer, every scan ends and is reported | 3 scans, the adapter switched off twice |
| `AndroidDevices_handles` | the right device, every request sent | 2 devices, 2 handles, 2 requests, one device tried twice, the adapter switched off once |
| `UnityHub_slots` | a slot per device, the search goes on | 2 devices, 2 slots, 2 Resets, 3 messages waiting |
| `DeviceSettings_answers` | own answer, whole model, every call ends | 1 kept get, 2 trainings of 2 packages, a time-out of 1 tick, short and long answers |
| `Delivery_order` | order, registration, notifying threads come back | 1 listener, 2 pollers, 2 notifications in all, by any of the four threads, 1 change of mode, 1 command waiting when another is given, deinit |

Why the bounds are enough for what is asked: the queue needs one command under
way, one MTU request, and two waiting to show an overtaking; the hub needs two
clients (one in the command thread's hands, one queued) and a second session
to see what the first one left behind; a connection race needs two armbands
for two handles, and a third RemoteDevice for the one that is connected again
after a loss or a disconnect; the flags of the scanner need a second scan after
the first ended late; the layouts have, between them, services that are empty in
the middle and at the end, that have no characteristics, and characteristics with
and without value, long value, room and descriptors at every place the cursors
treat differently, and the second connection loads what the first saved, or what
was left of it; a ring of two places is full, empty and wraps around with two
items, and the two payloads are the last that fits and the first that does not; a
third scan can meet the timers of two before it; a second training can meet the
late answer of the first; two handles for two devices, one of which comes back,
show the default 0, a stale handle and a full table; two notifications and two
pollers show one overtaking, and two are enough for one thread to be in a listener's
call while another has `mTaskMutex` and waits to notify. One listener is enough in that
run, since the listeners are told one after the other under one lock and nothing is
kept of one for the next; `InOrder` is proved for any number of them.

Fairness. Every thread of the library runs on (weak fairness of its steps; strong
where it competes for a mutex or a semaphore that others take again and again, as
in `NpiTransport` for RX, which looks at its events again and again, in `DeviceSettings`,
and in `Delivery` for the event thread and an armband's thread: the locks of both systems
serve waiters). Fairness ends where a lock is not given back: a thread that waits for one
whose holder waits for the thread is disabled for ever, and the properties name each such
circle. In `HubCommand`, `Connection` and `NpiTransport` the number of calls is bounded, so
weak fairness is enough for the threads that wait for a mutex, and in `Delivery` for the
command thread and deinit. The armband answers each request, and the dongle
connects to an armband it was asked for: without that no attempt would ever end,
since the code has no time-out of its own; the settings have one, so in
`DeviceSettings` only time goes on, and the device need not answer. A scan of the
dongle takes a limited time, a link that was dropped ends, an adapter that is
switching on gets there, Android reports the end of an operation it took. Nothing
is assumed about clients, pollers, users, events, losses or spurious wake-ups.

What the violation shows: `deinit` joins the event thread (through
`GF_CAdapterManager::Deinit`) while it holds the mutex that the event thread's
callback waits for, so one event at the wrong time and `deinit` never returns.

## 4. The proofs

`GattProofs` proves about `GattQueue`, for every set of commands, MTU commands and direct
writes, every bound and with or without ATT errors, from
`GattQueueAssumption` alone:

* `TypeCorrect`: `Spec => []TypeOK`;
* `OrderKept`: `Spec => []NothingLostOrReordered`, no command is lost or overtaken;
* `NoneStranded`: `Spec => []WaitingOnlyWhileBusy`, an idle queue strands none;
* `OneAtATime`: `Spec => []OneOutstanding`;
* `Refinement`: `Spec => ImplementsChannel`, the refinement of `CommandChannel` for
  as long as nothing was written past the queue.

The type invariant is inductive. `NothingLostOrReordered` and
`WaitingOnlyWhileBusy` are not: they say nothing of a device that is still
discovering, so `QueueInv` adds that no queue exists exactly while the device is
not connected, and that nothing has been accepted or sent before.
`OneOutstanding` needs `QueueInv` and the count of answers: `OutstandingInv`
relates, while `written` is empty, what is in the air or in the inbox, and the
number of `Dequeue` calls, to the length of `sent` (one more than answered exactly
while `mBusy` is set). The refinement rests on that count: the abstract queue is
idle exactly when `mBusy` is not set. Each step lemma has one case per action.

About `GattDiscovery` it proves, for any number of devices, any layouts, and any number
of connections, lost links, ends of the program and refusals, from `DiscoveryAssumption`
(a layout has services, the first has a handle range, an empty one no characteristics,
and where there is a descriptor there is room for it):

* `DiscoveryTypeCorrect`: `DiscoverySpec => []DiscoveryTypeOK`;
* `SavedComplete`: `DiscoverySpec => []SavedIsComplete`;
* `WalkedInOrder`: `DiscoverySpec => []WalkInOrder`.

All three follow from one inductive invariant, `WalkInv`, with these parts. `LinkInv`
says of every device with a link that it `Stands` somewhere on the way: for each state
what of the layout it knows (all of it before the cursors, nothing behind them), what it
may have asked for, and which messages can arrive, one answer or what is left of a list
whose length the layout gives. So every message that a handler takes is the answer to
the last request, a list that ends is complete, and the services are saved only when
they are known to the last descriptor. `FileInv` says that a file holds only the link
key and the services of the armband, and that a piece cut off by the end of the program
is its last root; the lemmas about `Database` then show that what is saved comes back
from its indices (`ComesBack`) and that saving, deleting and being interrupted keep a
file so. `BufferInv` says, without `overlap`, that one device at most collects a long
value and that the buffer has the parts that came so far. `AskedInv` says, without
refusals, that what was asked is `Documented` up to the last request (`InOrder`) and
that the last request is the one the state is about (`About`). That the next request of
each of the three places that move the cursors is the next announced one is an argument
about order: each request has a place, a quadruple of phase, service, characteristic
and step; `Dues` are the places of a layout, and the next request is at the least place
behind the last (`NextPlace`). `Least` is defined by a `CHOOSE`, so that sets of naturals
and of positions have least elements is proved first, from the well-foundedness of the
naturals. TLC checked `WalkInv` on the instance of the run before it was proved.

`AndroidProofs` proves, for every number of scans, of devices and of requests, a
handle table of any size, and however often the adapter is switched off, from the
three modules' assumptions:

* `ScannerTypeCorrect`: `ScannerSpec => []ScannerTypeOK`;
* `TimerOnce`: `ScannerSpec => []OneTimer`;
* `DevicesTypeCorrect`: `Spec => []TypeOK` of `AndroidDevices`;
* `DevicesRight`: `Spec => []RightDevice`.

`OneTimer` is not inductive: `TimerInv` adds, for histories without `silent` and
`overlapped`, what ties the timer to the scanner's state: it is posted from before
the state is busy until after it is idle and no longer, and while a start is under
way neither the client nor the timer is inside a stop. For the handles `SafetyInv`
adds to `RightDevice` that a device that is disconnected has no link (`LinkInv`), and,
as long as no device acted under a handle that is not its own, that owners have their
own taken handles, which the hub knows them by or not at all (`OwnersInv`), and that
the hub lists nobody without a link (`ListedInv`).

`ScanControlProofs` proves, for every set of armbands and every number of scans,
stops, early ends and results, from `ScanAssumption`:

* `TypeCorrect`: `Spec => []TypeOK`;
* `ClientKnowsList`: `Spec => []ToldIsListed`;
* `FinishesReported`: `Spec => []FinishedOnce`.

Neither invariant is inductive. What holds whatever the stops is `Listed` (the first
part of `ToldIsListed`) and `ReportsCover`, which counts, at every step of both
threads, the ends already reported and those still due against the scans begun.
For calm histories `UnderWay` says that the AdapterManager's flag is up for as long
as anything of a scan is left, in the dongle, among the events or on the event
thread, and that nothing is left when it goes down; `EndIsLast`, that the end of a
scan is the last event; `TellsListed`, that the device being told of was not
dropped meanwhile, since no scan can start; `FlagsAgree`, where the two flags part
and how many ends are missing. `BudgetStep` and `NotCalm` tie a calm history to its
budget. Each part has its step lemma, with one case per action.

`CallProofs` proves about `HubCommand`, for any number of clients, calls, sessions,
devices, events and spurious wake-ups, from `HubCommandAssumption` (the names of
threads and bounds are no clients):

* `TypeCorrect`: `Spec => []TypeOK`;
* `NobodyForgotten`: `Spec => []RunsOrWaits`;
* `ServiceRefined`: `Spec => ImplementsService`.

`StageInv` says what there is at each stage of init and deinit (the AdapterManager,
the callback, the command thread); `TaskInv` what the command thread has in hand;
`QueuedInv` that a queued message is one of a call that waits, is queued once and
was not carried out; `MessageInv` ties `executed` and `ran` of a message to where its caller is;
`NoneForgotten` that what is neither queued nor in hand was carried out or dropped.
The refinement maps a call to pending, carried out or returned by its `ran` and
where its caller is; a step that carries a request out maps to the abstract one
because `MessageInv` says that it was not carried out before.

About `DeviceSettings` it proves, for any number of commands, trainings, packages and
ticks and whichever commands are asked, from `DeviceSettingsAssumption` and
`NoneAssumption` (a null pointer is told from what is there):

* `SettingsTypeCorrect`: `SettingsSpec => []SettingsTypeOK`;
* `AnswersReachTheirCall`: `SettingsSpec => []OwnAnswer`;
* `SuccessIsWhole`: `SettingsSpec => []WholeModelSent`.

`OwnAnswer` needs `AirInv`: until something times out, what the device may still answer
waits under its command, so that no other request can. `WholeModelSent` says nothing of
how a training gets there. `ModelInv` says, while nothing is mixed or raced, that the
buffer goes from hand to hand: the call that filled it, the package in the list, the
answer or timeout a thread dispatches. There is one hand at a time (`OneHolder`), it has
the model that the buffer and the callback are of (`BufferInv`), and what was sent of it
is what the package in that hand says (`SentInv`). One lemma for each way a hand changes
(`PackageKeeps`, `TakenKeeps`, `GivenUp`, `FewerHoldersKeep`) serves all the actions.

`ConnectionProofs` proves, for any number of armbands, clients, handles and
connects, for any budget of disconnects, losses and of the five deeds, from
`ConnectionAssumption`:

* `TypeCorrect`: `Spec => []TypeOK`, under every race;
* `Apart`: `Spec => []SetsApart`, under every race until the history is `crossed`, its last part until a handle is reused;
* `NoLinkLeft`: `Spec => []LinksOwned`, as long as nobody cancels;
* `StatusReadTrue`: `Spec => []StatusTrue`, with careful clients.

Four layers. `DataOK` is the types, each with what it needs of its own values.
`ObjectsOK` says, under every race, which list a RemoteDevice is in by what its
thread does, and what it knows of its handle. What fails once a deed was done is
conditional: `ReuseInv` (until a handle is reused) makes a handle mean one armband,
over the events not yet taken, the objects, the callbacks under way and what each
BLEDevice believes; `CancelInv` (until somebody cancels) says that the dongle works
on one attempt at a time, that a RemoteDevice waits for it, and that every link is
known or about to be told of. `SetsOK` says of the trees, until the history is `crossed`,
that each is in the order of the addresses and has each device once, and that every device
is in one of them: then a search ends at one gap, the right one, an erase removes exactly
its device and an insert finds it absent, which is where the assumption that no two
armbands have the same address goes in. What the hub does between an erase and the insert
changes status and handle, and `Aligned` after the step is what keeps the order.
`SetsApart` needs the first two layers, `SetsOK` and `ReuseInv`,
`LinksOwned` the first two and `CancelInv`. `StatusTrue` looks at a moment when nothing
is under way; `CareInv`, the fourth layer, says under `Careful` what everything that is
under way relies on: an armband has one RemoteDevice (`OneLive`) or is as it was at
first (`GoneInv`); the BLEDevice and the hub's sets follow the RemoteDevice's thread
(`PlaceInv`, `StatusInv`, `StageInv`) and the event thread (`BusyInv`); a client that
connects is alone with its armband, one that disconnects has that armband's handle
(`ClientInv`, `JoinInv`); a link is there until its end is told (`LinkInv`); and whoever
waits for a link, and the busy flag, have the dongle at work (`WaitInv`).

`NpiTransportProofs` proves, for any number of calling threads, any sequence of
packets, any payloads and any size of the two rings, from `NpiTransportAssumption`
(owner, RX and the event thread are no callers), `CallsAssumption` (a call has a builder) and
`QueueSizeAssumption`:

* `TypeCorrect`: `Spec => []TypeOK`;
* `Refinement`: `Spec => ImplementsChannel`, the commands of `OrderedChannel`;
* `FramesAreWhole`: `Spec => []FramesWhole`, up to `MaxPayload`.

Each place of a ring is free, claimed by a producer between the semaphore and its
store, or full (`CountOK`, a count of the threads in a `Push`); the input position
is as far from the output position as there are items (`RingOK`), so that a store
never hits an item and a fetch never misses one. `LineOK` relates the history to the
ring: what was accepted is what was sent, followed by TX's hand and the ring in
order, but for the one exit packet (`ExitOnce`). `ControlOK`, `FlagsOK` and `WireOK`
carry the types. With `LineOK` a store is the abstract acceptance, TX's handling the
abstract sending, and every other step a stutter.

The half of `FramesWhole` about commands follows from `LineOK` and from the builders
(`CommandsWhole`). That about events has an invariant of its own, `FrameInv`: what was
handled, what the event thread has in its hand, its ring and what a `Push` is about to
store are the events the dongle sent, the i-th being the i-th (`HandledOK`, `Leads`,
`EvtPushOK`), with the markers of the port behind them and only once RX is through
(`RxOver`). Until then RX has the first bytes of one packet and knows how many are
missing (`Reading`), and while the dongle is plugged in the wire has the rest of that
packet and then all the others: `Cuts` has the place at which each begins, which a byte
read moves by one and a packet sent extends by one. `PortOK` says that nothing
is on the wire of a dongle that was pulled out, and when the port event and RX's thread
can be there.

`DeliveryProofs` proves, for any set of listeners and of pollers, and any number of
notifications, changes of mode and waiting commands, from `DeliveryAssumption` (names are told apart):

* `TypeCorrect`: `Spec => []TypeOK`, with `mPolling` up exactly while somebody polls;
* `InOrder`: `Spec => []HeardInOrder`.

The types need `LockOK`, that `mMutexListeners` is held by exactly the thread that queues
or calls; `PollOK`, that at most one thread polls; `CommandOK`, that whoever is named by a
queued command, or by the one under way, waits for it and for no other; `TodoOK` and
`NowOK`, what a thread has to tell and whom. `HeardInOrder` says what a step may not do, and needs `Order`:
while the history is not `mixed`, what is in the queue is later than what its listener
heard and in that order (`InQueue`), what the poller holds comes before it (`InHand`),
what a notifier has in hand comes after (`Ahead`), and queue and direct calls are never in
use at once (`Modes`). Most steps touch none of this (`Silent`, `Steady`) and share
their lemmas; `Notify`, `Queue`, `CallListener`, `Release`, `Pop`, `Deliver` and
`setWorkMode` have one each.

`UnityHubProofs` proves, for any finite sets of devices and slots and any number of
Resets and waiting messages, from `UnityHubAssumption` (`None` is no device):

* `TypeCorrect`: `Spec => []TypeOK`;
* `OnePlace`: `Spec => []OneSlotEach`;
* `SearchGoesOn`: `Spec => []KeepsSearching`.

Neither invariant is inductive, for the messages decide what happens next. `SlotInv`
says, with one listener, that between two connections of a device in the messages,
and between the slot it has and its next connection, there is a message that frees
the slot (`SlotThenGone`, `ComesThenGone`, `LostIsTold` for the connection that the
hub may yet report), and that what is in a slot has an object, since without it the
message would have no effect (`HeldIsKnown`). `SearchInv` says that a device has an
object when its connection is told (`KnownWhenTold`: then the handler goes on to the
next attempt), and that a discard, which frees a slot and tries nothing, is followed
by the end of its scan (`DiscardInScan`). `Searching` is then stronger than the
property: a loss on its way is no reason it needs. It holds whatever the Resets and
with any number of listeners.

TLC checks `SlotInv` and `SearchInv` too, with two devices and slots and with three
devices and one slot.

Only model-checked:

* the liveness properties, and ENABLED, which are out of the prover's reach.

## 5. Plan

1. (done) `GattQueue`, `HubCommand`, `Connection`, `ScanControl`, `GattDiscovery`
   with their abstract specifications; the proofs about `GattQueue`.
2. (done) `Database` below `GattDiscovery`, with the end of the program;
   `NpiTransport` with its queues and builders; `DeviceSettings` with the timer;
   `Delivery`; the Android port and the Unity binding; the proofs about
   `AndroidScanner` and `ScanControl`.
3. (done) The proofs about `HubCommand`, `Connection`, `NpiTransport`, `Delivery` and
   `UnityHub`, each in a module of its own.
4. (done) The proofs about `AndroidDevices`, `DeviceSettings` and `GattDiscovery`,
   `StatusTrue` of `Connection` and `FramesWhole` of `NpiTransport`.
5. The heap of the timer manager, once something drives more than one timer.

## 6. Not modelled

* The parser and printer of XML (`W/tinyxml2.*`, vendored) but for what a whole and
  a torn file load as; log formatting (`W/npi/log.cpp`, `W/LogPrint.cpp`); opening,
  setting up and reading the serial port.
* `W/npi/npi_evt.cpp`, `W/npi/npiutil/` and `OADProfile.cpp`: nothing uses the first
  two, the last has no behaviour.
* The object factory (`HubManager*.cpp`), the examples and the tests.
* Included services of an armband; `connect` with `directConn` false, which only
  makes an object that nobody owns. Of the trees of `std::set<BLEDevice>` only the order
  is modelled, not the shape: where the keys are out of order a search may end
  at any gap that some shape allows.
* The heap order of the timer manager: the SDK drives one timer.
* `Connection` has each list operation of the AdapterManager atomic, although some
  walk the lists without their mutex. `RemoteDevice::DeInit` leaves the queue
  pointer dangling; no list the callers search holds the device any more.
* The content of what is carried: advertisements, notifications, quaternions,
  gestures, texts, keys.
