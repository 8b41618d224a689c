------------------------------ MODULE UnityHub ------------------------------
(***************************************************************************)
(* The Unity binding: GForceHub, which keeps one device in each of its     *)
(* GForceDevice components, the managed Hub below it, and the native       *)
(* listener of gforce_export.  Unity's main thread updates, resets and     *)
(* quits; a run thread polls the hub and calls the listeners (each Reset   *)
(* starts one more, but BLEHub::run lets only one of them poll).  The hub  *)
(* is reduced to what these two see of it: results, statuses and messages  *)
(* in order.  mFoundDevices, a list, is the set of its elements.           *)
(***************************************************************************)
EXTENDS Naturals, Sequences, FiniteSets

CONSTANTS Device,          \* devices in range
          Slot,            \* GForceDevice components: an interval of numbers
          MaxResets,       \* bound on the calls of Reset
          MaxMessages      \* bound on the messages that wait in the hub

None == "none"

ASSUME UnityHubAssumption ==
    /\ IsFiniteSet(Device) /\ IsFiniteSet(Slot) /\ Slot \subseteq Nat
    /\ None \notin Device
    /\ MaxResets \in Nat /\ MaxMessages \in Nat \ {0}

VARIABLES mDeviceComps,    \* the device in each slot, or None
          mFoundDevices,   \* devices found and not yet given up
          mNeedDeviceScan, \* Update is to scan
          mListeners,      \* managed listeners in the Hub
          native,          \* the callbacks of gforce_export are with the hub
          mDevices,        \* devices the managed Hub has objects for
          _disposed,       \* the Hub was disposed of once
          main,            \* Unity's main thread: "play", or within a call
          turn,            \* run thread: listeners the first message has had
          scanning,        \* hub: a scan runs
          status,          \* hub: status of each device
          messages,        \* hub: messages to the run thread
          hitch,           \* history: a scan or attempt failed that nobody repeats
          leftover,        \* history: a slot was filled in the middle of a Reset
          resets           \* budget: calls of Reset

appVars == <<mDeviceComps, mFoundDevices, mNeedDeviceScan>>
hubVars == <<mListeners, native, mDevices, _disposed>>
nativeVars == <<scanning, status, messages>>
vars == <<appVars, hubVars, main, turn, nativeVars, hitch, leftover, resets>>

FreeSlots(comps) == {s \in Slot : comps[s] = None}
-----------------------------------------------------------------------------
(* The hub.  A scan that starts discards every device that is not          *)
(* connected.                                                              *)

Idle == {d \in Device : status[d] = "idle"}

\* The discards are pushed in some order.
Discards(ds) == {q \in [1..Cardinality(ds) -> {<<"discard", d>> : d \in ds}] :
                    \A i, j \in DOMAIN q : q[i] = q[j] => i = j}

ScanStarts == /\ ~scanning
              /\ scanning' = TRUE
              /\ status' = [d \in Device |-> IF d \in Idle THEN "absent" ELSE status[d]]
              /\ \E q \in Discards(Idle) : messages' = messages \o q

ScanRefused == UNCHANGED nativeVars

\* The hub accepts a device that it has and that is idle.
DeviceConnect(d) == d \in Idle /\ status' = [status EXCEPT ![d] = "connecting"]

\* The first of the callbacks takes the native listener to the hub, with the last of
\* them it goes.
RegisterNative == native' = TRUE
UnregisterNative == native' = FALSE

\* The devices and the scan are gone, and with the native listener, which is renewed,
\* the messages that were for it.
Deinit == /\ status' = [d \in Device |-> "absent"]
          /\ messages' = <<>> /\ scanning' = FALSE

Room == Len(messages) < MaxMessages

DeviceSeen(d) ==
    /\ scanning /\ status[d] = "absent" /\ Room /\ native
    /\ status' = [status EXCEPT ![d] = "idle"]
    /\ messages' = Append(messages, <<"found", d>>)
    /\ UNCHANGED <<appVars, hubVars, main, turn, scanning, hitch, leftover, resets>>

ScanEnds ==
    /\ scanning /\ Room /\ native
    /\ scanning' = FALSE
    /\ messages' = Append(messages, <<"scan", None>>)
    /\ UNCHANGED <<appVars, hubVars, main, turn, status, hitch, leftover, resets>>

HubConnects(d) ==
    /\ status[d] = "connecting" /\ Room /\ native
    /\ status' = [status EXCEPT ![d] = "connected"]
    /\ messages' = Append(messages, <<"connected", d>>)
    /\ UNCHANGED <<appVars, hubVars, main, turn, scanning, hitch, leftover, resets>>

\* A link is lost, or an attempt has failed; nothing of GForceHub reacts to
\* the end of a failed attempt.
HubLoses(d) ==
    /\ status[d] \in {"connecting", "connected"} /\ Room /\ native
    /\ status' = [status EXCEPT ![d] = "idle"]
    /\ messages' = Append(messages, <<"lost", d>>)
    /\ hitch' = (hitch \/ status[d] = "connecting")
    /\ UNCHANGED <<appVars, hubVars, main, turn, scanning, leftover, resets>>
-----------------------------------------------------------------------------
(* The run thread: GForceHub.Listener.                                     *)

\* Mutant: when every attempt was refused nothing is asked for.
TryConnectingOnce(comps, found) ==
    IF FreeSlots(comps) = {}
      THEN mFoundDevices' = {} /\ UNCHANGED <<mNeedDeviceScan, status>>
      ELSE \E refused \in SUBSET found :
              /\ mFoundDevices' = found \ refused
              /\ \/ /\ refused = found
                    /\ mNeedDeviceScan' = (mNeedDeviceScan \/ found = {})
                    /\ UNCHANGED status
                 \/ \E d \in found \ refused :
                       /\ DeviceConnect(d)
                       /\ UNCHANGED mNeedDeviceScan

\* tryConnecting: with a slot free the devices found are tried in the order of
\* their rssi until the hub accepts one, which stays first in the list.
TryConnecting(comps, found) ==
    IF FreeSlots(comps) = {}
      THEN mFoundDevices' = {} /\ UNCHANGED <<mNeedDeviceScan, status>>
      ELSE \E refused \in SUBSET found :
              /\ mFoundDevices' = found \ refused
              /\ \/ /\ refused = found
                    /\ mNeedDeviceScan' = TRUE
                    /\ UNCHANGED status
                 \/ \E d \in found \ refused :
                       /\ DeviceConnect(d)
                       /\ UNCHANGED mNeedDeviceScan

\* Mutant: every free slot takes the device.
PlaceEverywhere(d) == [s \in Slot |-> IF mDeviceComps[s] = None THEN d ELSE mDeviceComps[s]]

\* The first free slot takes the device.
Place(d) ==
    IF FreeSlots(mDeviceComps) = {} THEN mDeviceComps
    ELSE [mDeviceComps EXCEPT ![CHOOSE s \in FreeSlots(mDeviceComps) :
                                   \A t \in FreeSlots(mDeviceComps) : s <= t] = d]

\* The first slot that holds the device lets it go.
Release(d) ==
    LET held == {s \in Slot : mDeviceComps[s] = d} IN
    IF held = {} THEN mDeviceComps
    ELSE [mDeviceComps EXCEPT ![CHOOSE s \in held : \A t \in held : s <= t] = None]

onScanFinished ==
    /\ TryConnecting(mDeviceComps, mFoundDevices)
    /\ UNCHANGED mDeviceComps

onDeviceFound(d) ==
    /\ mFoundDevices' = mFoundDevices \cup {d}
    /\ UNCHANGED <<mDeviceComps, mNeedDeviceScan, status>>

\* Mutant: a device discarded stays in the list to be tried.
DiscardKeepsFound(d) ==
    /\ mDeviceComps' = Release(d)
    /\ UNCHANGED <<mFoundDevices, mNeedDeviceScan, status>>

onDeviceDiscard(d) ==
    /\ mDeviceComps' = Release(d)
    /\ mFoundDevices' = mFoundDevices \ {d}
    /\ UNCHANGED <<mNeedDeviceScan, status>>

onDeviceConnected(d) ==
    /\ mDeviceComps' = Place(d)
    /\ TryConnecting(Place(d), mFoundDevices)

\* Only a device that held a slot matters, and not while a device in a slot is
\* connecting.
onDeviceDisconnected(d) ==
    /\ mDeviceComps' = Release(d)
    /\ IF Release(d) # mDeviceComps /\ \A s \in Slot : \/ Release(d)[s] = None
                                                       \/ status[Release(d)[s]] # "connecting"
         THEN TryConnecting(Release(d), mFoundDevices)
         ELSE UNCHANGED <<mFoundDevices, mNeedDeviceScan, status>>

\* Hub.on...Impl: a device without an object is null, and the listener throws.
Handle(kind, d) ==
    \/ kind = "scan" /\ onScanFinished
    \/ kind = "found" /\ onDeviceFound(d)
    \/ kind = "discard" /\ d \in mDevices /\ onDeviceDiscard(d)
    \/ kind = "connected" /\ d \in mDevices /\ onDeviceConnected(d)
    \/ kind = "lost" /\ d \in mDevices /\ onDeviceDisconnected(d)
    \/ kind \notin {"scan", "found"} /\ d \notin mDevices /\ UNCHANGED <<appVars, status>>

\* One listener has the first message; after the last of them it is gone.
Deliver ==
    /\ messages # <<>> /\ mListeners > 0 /\ main # "gone"
    /\ LET kind == Head(messages)[1]
           d == Head(messages)[2]
           last == turn + 1 >= mListeners
       IN  /\ Handle(kind, d)
           /\ turn' = IF last THEN 0 ELSE turn + 1
           /\ messages' = IF last THEN Tail(messages) ELSE messages
           /\ mDevices' = CASE kind = "found"             -> mDevices \cup {d}
                            [] kind = "discard" /\ last -> mDevices \ {d}
                            [] OTHER                    -> mDevices
    /\ UNCHANGED <<mListeners, native, _disposed, main, scanning, hitch, leftover, resets>>
-----------------------------------------------------------------------------
(* The main thread.                                                        *)

\* Update clears the flag, then scans, whatever comes of it.
Update ==
    /\ main = "play" /\ mNeedDeviceScan
    /\ mNeedDeviceScan' = FALSE
    /\ main' = "scan"
    /\ UNCHANGED <<mDeviceComps, mFoundDevices, hubVars, turn, nativeVars, hitch, leftover, resets>>

UpdateScans ==
    /\ main = "scan"
    /\ main' = "play"
    /\ \/ ScanStarts /\ UNCHANGED hitch
       \/ ScanRefused /\ hitch' = (hitch \/ ~scanning)
    /\ UNCHANGED <<appVars, hubVars, turn, leftover, resets>>

\* Reset, first half: every slot is emptied; the run thread goes on.
ResetSlots ==
    /\ main = "play" /\ resets < MaxResets
    /\ resets' = resets + 1
    /\ mDeviceComps' = [s \in Slot |-> None]
    /\ main' = "reset"
    /\ UNCHANGED <<mFoundDevices, mNeedDeviceScan, hubVars, turn, nativeVars, hitch, leftover>>

\* Dispose works once: it forgets listeners and devices, and de-initializes.
Dispose ==
    IF _disposed
      THEN UNCHANGED <<mDevices, _disposed, turn, status, messages, scanning>>
      ELSE /\ mDevices' = {} /\ _disposed' = TRUE /\ turn' = 0
           /\ Deinit

\* prepare registers one more listener (and the native one with the first).
ResetDisposes ==
    /\ main = "reset"
    /\ main' = "prepare"
    /\ Dispose
    /\ mFoundDevices' = {}
    /\ mListeners' = IF _disposed THEN mListeners + 1 ELSE 1
    /\ RegisterNative
    /\ leftover' = (leftover \/ FreeSlots(mDeviceComps) # Slot)
    /\ UNCHANGED <<mDeviceComps, mNeedDeviceScan, hitch, resets>>

\* The scan at the end of prepare; that it failed goes to lastlog only.
PrepareScans ==
    /\ main = "prepare"
    /\ main' = "play"
    /\ \/ ScanStarts /\ UNCHANGED hitch
       \/ ScanRefused /\ hitch' = (hitch \/ ~scanning)
    /\ UNCHANGED <<appVars, hubVars, turn, leftover, resets>>

\* OnApplicationQuit: the run thread has ended when the listener goes.
OnApplicationQuit ==
    /\ main = "play" /\ turn = 0
    /\ main' = "gone"
    /\ mListeners' = mListeners - 1
    /\ UnregisterNative
    /\ mFoundDevices' = {}
    /\ Deinit
    /\ UNCHANGED <<mDeviceComps, mNeedDeviceScan, mDevices, _disposed, turn, hitch, leftover, resets>>

\* Awake has prepared the hub but for the scan.
Init ==
    /\ mDeviceComps = [s \in Slot |-> None]
    /\ mFoundDevices = {} /\ mNeedDeviceScan = FALSE
    /\ mListeners = 1 /\ native = TRUE /\ mDevices = {} /\ _disposed = FALSE
    /\ main = "prepare" /\ turn = 0
    /\ scanning = FALSE /\ status = [d \in Device |-> "absent"] /\ messages = <<>>
    /\ hitch = FALSE /\ leftover = FALSE /\ resets = 0

Next == \/ \E d \in Device : DeviceSeen(d) \/ HubConnects(d) \/ HubLoses(d)
        \/ ScanEnds
        \/ Deliver
        \/ Update \/ UpdateScans
        \/ ResetSlots \/ ResetDisposes \/ PrepareScans
        \/ OnApplicationQuit

Spec == Init /\ [][Next]_vars
-----------------------------------------------------------------------------
TypeOK ==
    /\ mDeviceComps \in [Slot -> Device \cup {None}]
    /\ mFoundDevices \subseteq mDevices \/ mListeners = 0
    /\ {mNeedDeviceScan, native, _disposed, scanning, hitch, leftover} \subseteq BOOLEAN
    /\ mListeners \in 0..(MaxResets + 1) /\ turn \in 0..MaxResets /\ resets \in 0..MaxResets
    /\ main \in {"play", "scan", "reset", "prepare", "gone"}
    /\ status \in [Device -> {"absent", "idle", "connecting", "connected"}]
    /\ messages \in Seq({"found", "discard", "connected", "lost", "scan"}
                            \X (Device \cup {None}))

\* No device is held by two GForceDevice components, as long as one listener is
\* registered and no message was delivered in the middle of a Reset
\* (onDeviceConnected and the others on the run thread against Update and Reset
\* on the main thread).  A second Reset leaves the first listener in place, for
\* Dispose works once.
OneSlotEach ==
    mListeners <= 1 /\ ~leftover /\ main # "gone" =>
        \A s, t \in Slot : mDeviceComps[s] = mDeviceComps[t] => s = t \/ mDeviceComps[s] = None

\* As long as a slot is free a scan or an attempt is under way or about to begin
\* (tryConnecting, Update), unless an attempt or the start of a scan has failed,
\* which nothing repeats.
KeepsSearching ==
    \/ main = "gone" \/ hitch \/ FreeSlots(mDeviceComps) = {}
    \/ scanning \/ mNeedDeviceScan \/ main \in {"scan", "reset", "prepare"}
    \/ \E d \in Device : status[d] = "connecting"
    \/ \E i \in DOMAIN messages : messages[i][1] \in {"scan", "connected", "lost"}
=============================================================================
