---------------------------- MODULE ScanControl -----------------------------
(***************************************************************************)
(* Scanning for armbands: startScan and stopScan on the hub's command      *)
(* thread, the dongle's event thread, and the two mIsScanning flags, one   *)
(* of the AdapterManager and one of its DiscoveryService, that both        *)
(* threads write without a lock.  The command thread holds mTaskMutex from *)
(* the start of a request to its end; the event thread needs it to list a  *)
(* device that was found.  No device is being connected, so mIsConnecting  *)
(* is false; the dongle is external and obeys a request when it is made.   *)
(* RSSI and names are data: an advertisement below the threshold or        *)
(* without a name is one that is not reported.                             *)
(***************************************************************************)
EXTENDS Naturals, Sequences, FiniteSets

CONSTANTS Devices,         \* armbands in range
          MaxStarts,       \* bound: accepted calls of startScan
          MaxStops,        \* bound: calls of stopScan
          MaxEarly,        \* bound: scans that end before startScan returns
          MaxAdverts       \* bound: advertisements and scan responses

NoDevice == "none"

ASSUME ScanAssumption ==
    /\ NoDevice \notin Devices
    /\ {MaxStarts, MaxStops, MaxEarly, MaxAdverts} \subseteq Nat

VARIABLES amScanning,      \* GF_CAdapterManager::mIsScanning
          dsScanning,      \* GF_CDiscoveryService::mIsScanning
          mAvalbalDevice,  \* devices that wait for their scan response
          mDisconnDevices, \* the hub's devices, all of them disconnected
          cmd,             \* the request on the command thread
          event,           \* what the event thread is doing
          radio,           \* the dongle is scanning
          events,          \* the dongle's events not yet taken
          told,            \* history: devices the client knows
          starts,          \* history: scans the hub has started
          finishes,        \* history: onScanFinished calls
          budget

flagVars  == <<amScanning, dsScanning>>
radioVars == <<radio, events>>
histVars  == <<told, starts, finishes>>
vars == <<flagVars, mAvalbalDevice, mDisconnDevices, cmd, event, radioVars,
          histVars, budget>>

Idle == [pc |-> "idle", dev |-> NoDevice, left |-> 0]
Spend(b) == budget[b] > 0 /\ budget' = [budget EXCEPT ![b] = @ - 1]

Init ==
    /\ amScanning = FALSE
    /\ dsScanning = FALSE
    /\ mAvalbalDevice = <<>>
    /\ mDisconnDevices = {}
    /\ cmd = "idle"
    /\ event = Idle
    /\ radio = FALSE
    /\ events = <<>>
    /\ told = {}
    /\ starts = 0
    /\ finishes = 0
    /\ budget = [start |-> MaxStarts, stop |-> MaxStops, early |-> MaxEarly,
                 advert |-> MaxAdverts]
-----------------------------------------------------------------------------
\* startScan: GF_CAdapterManager::StartScan raises its own flag and asks the
\* DiscoveryService, which may still refuse and then leaves that flag up.
StartScan ==
    /\ cmd = "idle"
    /\ ~amScanning
    /\ Spend("start")
    /\ amScanning' = TRUE
    /\ cmd' = IF dsScanning THEN "idle" ELSE "startRequest"
    /\ UNCHANGED <<dsScanning, mAvalbalDevice, mDisconnDevices, event,
                   radioVars, histVars>>

\* The request for the dongle, which refuses it if it scans already.
StartRequest ==
    /\ cmd = "startRequest"
    /\ radio' = TRUE
    /\ cmd' = "startMark"
    /\ UNCHANGED <<flagVars, mAvalbalDevice, mDisconnDevices, event, events,
                   histVars, budget>>

\* GF_CDiscoveryService::StartScan raises its flag after the request.
StartMark ==
    /\ cmd = "startMark"
    /\ dsScanning' = TRUE
    /\ cmd' = "startDiscard"
    /\ UNCHANGED <<amScanning, mAvalbalDevice, mDisconnDevices, event,
                   radioVars, histVars, budget>>

\* Mutant: the devices are dropped without a word.
DiscardSilently ==
    /\ cmd = "startDiscard"
    /\ mDisconnDevices' = {}
    /\ starts' = starts + 1
    /\ cmd' = "idle"
    /\ UNCHANGED <<flagVars, mAvalbalDevice, event, radioVars, told, finishes,
                   budget>>

\* The hub then drops every disconnected device and tells the client.
StartDiscard ==
    /\ cmd = "startDiscard"
    /\ told' = told \ mDisconnDevices
    /\ mDisconnDevices' = {}
    /\ starts' = starts + 1
    /\ cmd' = "idle"
    /\ UNCHANGED <<flagVars, mAvalbalDevice, event, radioVars, finishes, budget>>

\* stopScan: GF_CAdapterManager::StopScan lowers its own flag and asks the
\* DiscoveryService, which refuses when its flag is down.
StopScan ==
    /\ cmd = "idle"
    /\ Spend("stop")
    /\ amScanning' = FALSE
    /\ cmd' = IF dsScanning THEN "stopRequest" ELSE "idle"
    /\ UNCHANGED <<dsScanning, mAvalbalDevice, mDisconnDevices, event,
                   radioVars, histVars>>

\* The dongle ends its scan, if there is one, and says so.
StopRequest ==
    /\ cmd = "stopRequest"
    /\ radio' = FALSE
    /\ events' = IF radio THEN Append(events, [kind |-> "finished", dev |-> NoDevice])
                 ELSE events
    /\ cmd' = "stopMark"
    /\ UNCHANGED <<flagVars, mAvalbalDevice, mDisconnDevices, event, histVars, budget>>

StopMark ==
    /\ cmd = "stopMark"
    /\ dsScanning' = FALSE
    /\ cmd' = "stopReport"
    /\ UNCHANGED <<amScanning, mAvalbalDevice, mDisconnDevices, event,
                   radioVars, histVars, budget>>

\* On Windows the hub itself reports the end of a scan that was stopped.
StopReport ==
    /\ cmd = "stopReport"
    /\ finishes' = finishes + 1
    /\ cmd' = "idle"
    /\ UNCHANGED <<flagVars, mAvalbalDevice, mDisconnDevices, event, radioVars,
                   told, starts, budget>>
-----------------------------------------------------------------------------
\* The dongle's scan ends on its own (external); a scan takes longer than the
\* call that starts it, but for MaxEarly of them.
ScanEnds ==
    /\ radio
    /\ \/ cmd # "startMark" /\ UNCHANGED budget
       \/ cmd = "startMark" /\ Spend("early")
    /\ radio' = FALSE
    /\ events' = Append(events, [kind |-> "finished", dev |-> NoDevice])
    /\ UNCHANGED <<flagVars, mAvalbalDevice, mDisconnDevices, cmd, event, histVars>>

\* An armband in range advertises or answers with its name (external).
Advertise(d, kind) ==
    /\ radio
    /\ Spend("advert")
    /\ events' = Append(events, [kind |-> kind, dev |-> d])
    /\ UNCHANGED <<flagVars, mAvalbalDevice, mDisconnDevices, cmd, event, radio,
                   histVars>>

Take(kind) ==
    /\ event.pc = "idle"
    /\ events # <<>>
    /\ Head(events).kind = kind
    /\ events' = Tail(events)
    /\ UNCHANGED radio

\* Mutant: every event is taken for an advertisement.
AnyEventIsAdvert ==
    /\ event.pc = "idle"
    /\ events # <<>>
    /\ events' = Tail(events)
    /\ mAvalbalDevice' = <<Head(events).dev>> \o mAvalbalDevice
    /\ UNCHANGED <<radio, flagVars, mDisconnDevices, cmd, event, histVars, budget>>

\* ProcessScanResult: an advertisement without a name waits for the scan response.
AdvertTaken ==
    /\ Take("advert")
    /\ mAvalbalDevice' = <<Head(events).dev>> \o mAvalbalDevice
    /\ UNCHANGED <<flagVars, mDisconnDevices, cmd, event, histVars, budget>>

\* A device that advertises its complete name is reported at once.
NamedTaken ==
    /\ Take("named")
    /\ event' = [pc |-> "list", dev |-> Head(events).dev, left |-> 1]
    /\ UNCHANGED <<flagVars, mAvalbalDevice, mDisconnDevices, cmd, histVars, budget>>

\* The response reports the device once for every advertisement taken before.
ResponseTaken ==
    /\ Take("response")
    /\ LET d == Head(events).dev
           n == Cardinality({i \in DOMAIN mAvalbalDevice : mAvalbalDevice[i] = d})
       IN  event' = IF n > 0 THEN [pc |-> "list", dev |-> d, left |-> n] ELSE Idle
    /\ UNCHANGED <<flagVars, mAvalbalDevice, mDisconnDevices, cmd, histVars, budget>>

\* BLEHub::onScanResult lists the device under mTaskMutex ...
ListDevice ==
    /\ event.pc = "list"
    /\ cmd = "idle"
    /\ mDisconnDevices' = mDisconnDevices \cup {event.dev}
    /\ event' = [event EXCEPT !.pc = "tell"]
    /\ UNCHANGED <<flagVars, mAvalbalDevice, cmd, radioVars, histVars, budget>>

\* ... and tells the client after it has given the mutex back.
TellFound ==
    /\ event.pc = "tell"
    /\ told' = told \cup {event.dev}
    /\ event' = IF event.left > 1
                  THEN [event EXCEPT !.pc = "list", !.left = @ - 1] ELSE Idle
    /\ UNCHANGED <<flagVars, mAvalbalDevice, mDisconnDevices, cmd, radioVars,
                   starts, finishes, budget>>

\* ProcessScanFinished tests its flag ...
FinishedTaken ==
    /\ Take("finished")
    /\ mAvalbalDevice' = <<>>
    /\ event' = IF dsScanning THEN [Idle EXCEPT !.pc = "dsClear"] ELSE Idle
    /\ UNCHANGED <<flagVars, mDisconnDevices, cmd, histVars, budget>>

\* ... lowers it ...
DsFinished ==
    /\ event.pc = "dsClear"
    /\ dsScanning' = FALSE
    /\ event' = [event EXCEPT !.pc = "amClear"]
    /\ UNCHANGED <<amScanning, mAvalbalDevice, mDisconnDevices, cmd, radioVars,
                   histVars, budget>>

\* Mutant: the AdapterManager keeps its flag.
AmKeepsFlag ==
    /\ event.pc = "amClear"
    /\ event' = [event EXCEPT !.pc = "report"]
    /\ UNCHANGED <<flagVars, mAvalbalDevice, mDisconnDevices, cmd, radioVars,
                   histVars, budget>>

\* ... and has the AdapterManager lower its own (ScanFinished) ...
AmFinished ==
    /\ event.pc = "amClear"
    /\ amScanning' = FALSE
    /\ event' = [event EXCEPT !.pc = "report"]
    /\ UNCHANGED <<dsScanning, mAvalbalDevice, mDisconnDevices, cmd, radioVars,
                   histVars, budget>>

\* Mutant: the end of the scan is not reported.
FinishSilently ==
    /\ event.pc = "report"
    /\ event' = Idle
    /\ UNCHANGED <<flagVars, mAvalbalDevice, mDisconnDevices, cmd, radioVars,
                   histVars, budget>>

\* ... and report the end of the scan.
ReportFinished ==
    /\ event.pc = "report"
    /\ finishes' = finishes + 1
    /\ event' = Idle
    /\ UNCHANGED <<flagVars, mAvalbalDevice, mDisconnDevices, cmd, radioVars,
                   told, starts, budget>>

CommandStep == StartRequest \/ StartMark \/ StartDiscard
               \/ StopRequest \/ StopMark \/ StopReport
EventStep == AdvertTaken \/ NamedTaken \/ ResponseTaken \/ ListDevice \/ TellFound
             \/ FinishedTaken \/ DsFinished \/ AmFinished \/ ReportFinished

Next ==
    \/ StartScan \/ StopScan \/ CommandStep
    \/ ScanEnds
    \/ \E d \in Devices, kind \in {"advert", "named", "response"} : Advertise(d, kind)
    \/ EventStep

Spec == Init /\ [][Next]_vars

\* Both threads run on and the dongle's scan takes a limited time.
Fairness == WF_vars(CommandStep) /\ WF_vars(EventStep) /\ WF_vars(ScanEnds)
FairSpec == Spec /\ Fairness
-----------------------------------------------------------------------------
TypeOK ==
    /\ amScanning \in BOOLEAN
    /\ dsScanning \in BOOLEAN
    /\ mAvalbalDevice \in Seq(Devices)
    /\ mDisconnDevices \subseteq Devices
    /\ cmd \in {"idle", "startRequest", "startMark", "startDiscard",
                "stopRequest", "stopMark", "stopReport"}
    /\ event \in [pc : {"idle", "list", "tell", "dsClear", "amClear", "report"},
                  dev : Devices \cup {NoDevice}, left : Nat]
    /\ radio \in BOOLEAN
    /\ events \in Seq([kind : {"advert", "named", "response", "finished"},
                       dev : Devices \cup {NoDevice}])
    /\ told \subseteq Devices
    /\ starts \in Nat
    /\ finishes \in Nat
    /\ budget \in [start : Nat, stop : Nat, early : Nat, advert : Nat]

\* No scan was stopped by a client and none ended too early so far.
Calm == budget.stop = MaxStops /\ budget.early = MaxEarly

\* Nothing is under way on either thread.
Quiet == cmd = "idle" /\ event.pc = "idle" /\ events = <<>>

\* While nobody stops a scan, whenever the two threads rest both flags agree
\* with the dongle, so startScan and connect, which test them, are refused
\* exactly during a scan; and every scan was reported finished exactly once.
\* Whatever the races of stopScan with the end of the scan, with the
\* DiscoveryService's flag down no scan is left without a report.
FinishedOnce ==
    /\ Calm /\ Quiet => /\ amScanning = radio
                        /\ dsScanning = radio
                        /\ finishes = IF radio THEN starts - 1 ELSE starts
    /\ Quiet /\ ~dsScanning => finishes >= starts

\* A device in the hub's list was reported to the client, unless the event
\* thread is about to report it: a client can always connect what it can list.
\* And while nobody stops a scan the client knows no device that the hub has
\* dropped: found and discard callbacks come in the order of the list.
ToldIsListed ==
    /\ \A d \in mDisconnDevices :
          d \in told \/ (event.pc = "tell" /\ event.dev = d)
    /\ Calm => told \subseteq mDisconnDevices

\* A scan that runs while nobody stops one ends, and its end is reported.
ScanReported ==
    \A n \in 1..MaxStarts : starts = n ~> finishes >= n \/ ~Calm
=============================================================================
