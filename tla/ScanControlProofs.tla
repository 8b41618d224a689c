------------------------- MODULE ScanControlProofs --------------------------
(***************************************************************************)
(* Scanning stays sound for any number of devices, scans, stops and        *)
(* results: the types, the client's picture of the hub's list, and the     *)
(* count of the ends reported.                                             *)
(***************************************************************************)
EXTENDS ScanControl, SequenceTheorems, FiniteSetTheorems, TLAPS

\* The three parts of TypeOK.
FlagsOK ==
    /\ amScanning \in BOOLEAN
    /\ dsScanning \in BOOLEAN
    /\ radio \in BOOLEAN
ControlOK ==
    /\ mDisconnDevices \subseteq Devices /\ told \subseteq Devices
    /\ cmd \in {"idle", "startRequest", "startMark", "startDiscard",
                "stopRequest", "stopMark", "stopReport"}
    /\ starts \in Nat /\ finishes \in Nat
    /\ budget \in [start : Nat, stop : Nat, early : Nat, advert : Nat]
QueueOK ==
    /\ events \in Seq([kind : {"advert", "named", "response", "finished"},
                       dev : Devices \cup {NoDevice}])
    /\ \A i \in 1..Len(events) : events[i].kind # "finished" => events[i].dev \in Devices
DeviceOK ==
    /\ mAvalbalDevice \in Seq(Devices)
    /\ event \in [pc : {"idle", "list", "tell", "dsClear", "amClear", "report"},
                  dev : Devices \cup {NoDevice}, left : Nat]
    /\ event.pc \in {"list", "tell"} => event.dev \in Devices

\* ResponseTaken counts the advertisements of a device: a natural number.
LEMMA CountIsNat ==
    ASSUME NEW s \in Seq(Devices), NEW d
    PROVE  Cardinality({i \in DOMAIN s : s[i] = d}) \in Nat
<1>1. IsFiniteSet(1..Len(s))
  BY FS_Interval
<1>2. {i \in DOMAIN s : s[i] = d} \subseteq 1..Len(s)
  OBVIOUS
<1> QED
  BY <1>1, <1>2, FS_Subset, FS_CardinalityType

\* What an advertisement or the end of a scan adds to the events.
LEMMA EventAdded ==
    ASSUME QueueOK,
           NEW e \in [kind : {"advert", "named", "response", "finished"},
                      dev : Devices \cup {NoDevice}],
           e.kind # "finished" => e.dev \in Devices,
           events' = Append(events, e)
    PROVE  QueueOK'
  BY DEF QueueOK

\* A taken event leaves a queue of the same type, and names a device unless it is an end.
LEMMA EventTaken ==
    ASSUME QueueOK, NEW kind, Take(kind)
    PROVE  /\ QueueOK'
           /\ kind # "finished" => Head(events).dev \in Devices
  BY DEF QueueOK, Take

\* The parts of TypeOK hold together: Init establishes and each action keeps them.
LEMMA TypesHold == Spec => [](FlagsOK /\ ControlOK /\ QueueOK /\ DeviceOK)
<1>1. Init => FlagsOK /\ ControlOK /\ QueueOK /\ DeviceOK
  <2>1. Init => FlagsOK
    BY Zenon DEF Init, FlagsOK
  <2>2. Init => ControlOK
    BY ScanAssumption DEF Init, ControlOK
  <2>3. Init => QueueOK /\ DeviceOK
    BY DEF Init, QueueOK, DeviceOK, Idle
  <2> QED
    BY <2>1, <2>2, <2>3
<1>2. FlagsOK /\ [Next]_vars => FlagsOK'
  BY Zenon DEF FlagsOK, Next, vars, flagVars, radioVars, CommandStep, EventStep, Take,
     StartScan, StopScan, StartRequest, StartMark, StartDiscard, StopRequest, StopMark,
     StopReport, ScanEnds, Advertise, AdvertTaken, NamedTaken, ResponseTaken, ListDevice,
     TellFound, FinishedTaken, DsFinished, AmFinished, ReportFinished
<1>3. ControlOK /\ DeviceOK /\ [Next]_vars => ControlOK'
  <2> SUFFICES ASSUME ControlOK, DeviceOK, [Next]_vars PROVE ControlOK'
    OBVIOUS
  <2> USE DEF ControlOK, Spend, radioVars, histVars, flagVars
  <2>1. CASE StartScan
    BY <2>1 DEF StartScan
  <2>2. CASE StopScan
    BY <2>2 DEF StopScan
  <2>3. CASE StartRequest \/ StartMark \/ StartDiscard
    BY <2>3 DEF StartRequest, StartMark, StartDiscard
  <2>4. CASE StopRequest \/ StopMark \/ StopReport
    BY <2>4 DEF StopRequest, StopMark, StopReport
  <2>5. CASE ScanEnds
    BY <2>5 DEF ScanEnds
  <2>6. ASSUME NEW d \in Devices, NEW kind \in {"advert", "named", "response"},
               Advertise(d, kind)
        PROVE  ControlOK'
    BY <2>6 DEF Advertise
  <2>7. CASE AdvertTaken \/ NamedTaken \/ ResponseTaken \/ FinishedTaken
    BY <2>7 DEF AdvertTaken, NamedTaken, ResponseTaken, FinishedTaken, Take
  <2>8. CASE ListDevice \/ TellFound
    BY <2>8 DEF ListDevice, TellFound, DeviceOK
  <2>9. CASE DsFinished \/ AmFinished \/ ReportFinished
    BY <2>9 DEF DsFinished, AmFinished, ReportFinished
  <2>10. CASE UNCHANGED vars
    BY <2>10 DEF vars
  <2> QED
    BY <2>1, <2>2, <2>3, <2>4, <2>5, <2>6, <2>7, <2>8, <2>9, <2>10
    DEF Next, CommandStep, EventStep
<1>4. QueueOK /\ [Next]_vars => QueueOK'
  <2> SUFFICES ASSUME QueueOK, [Next]_vars PROVE QueueOK'
    OBVIOUS
  <2>1. CASE StartScan \/ StartRequest \/ StartMark \/ StartDiscard \/ StopScan
             \/ StopMark \/ StopReport \/ ListDevice \/ TellFound \/ DsFinished
             \/ AmFinished \/ ReportFinished \/ UNCHANGED vars
    <3>1. UNCHANGED events
      BY <2>1, Zenon DEF StartScan, StartRequest, StartMark, StartDiscard, StopScan,
         StopMark, StopReport, ListDevice, TellFound, DsFinished, AmFinished,
         ReportFinished, vars, radioVars
    <3> QED
      BY <3>1 DEF QueueOK
  <2>2. CASE StopRequest
    <3>1. CASE radio
      BY <2>2, <3>1, EventAdded DEF StopRequest
    <3>2. CASE ~radio
      BY <2>2, <3>2 DEF StopRequest, QueueOK
    <3> QED
      BY <3>1, <3>2
  <2>3. CASE ScanEnds
    BY <2>3, EventAdded DEF ScanEnds
  <2>4. ASSUME NEW d \in Devices, NEW kind \in {"advert", "named", "response"},
               Advertise(d, kind)
        PROVE  QueueOK'
    BY <2>4, EventAdded DEF Advertise
  <2>5. CASE AdvertTaken \/ NamedTaken \/ ResponseTaken \/ FinishedTaken
    BY <2>5, EventTaken DEF AdvertTaken, NamedTaken, ResponseTaken, FinishedTaken
  <2> QED
    BY <2>1, <2>2, <2>3, <2>4, <2>5 DEF Next, CommandStep, EventStep
<1>5. QueueOK /\ DeviceOK /\ [Next]_vars => DeviceOK'
  <2> SUFFICES ASSUME QueueOK, DeviceOK, [Next]_vars PROVE DeviceOK'
    OBVIOUS
  <2>1. CASE StartScan \/ CommandStep \/ StopScan \/ ScanEnds \/ UNCHANGED vars
    <3>1. UNCHANGED <<mAvalbalDevice, event>>
      BY <2>1, Zenon DEF CommandStep, StartScan, StartRequest, StartMark, StartDiscard,
         StopScan, StopRequest, StopMark, StopReport, ScanEnds, vars
    <3> QED
      BY <3>1 DEF DeviceOK
  <2>2. ASSUME NEW d \in Devices, NEW kind \in {"advert", "named", "response"},
               Advertise(d, kind)
        PROVE  DeviceOK'
    BY <2>2 DEF Advertise, DeviceOK
  <2>3. CASE AdvertTaken
    <3> DEFINE d == Head(events).dev
    <3>1. d \in Devices
      BY <2>3, EventTaken DEF AdvertTaken
    <3>2. mAvalbalDevice' = <<d>> \o mAvalbalDevice /\ event' = event
      BY <2>3 DEF AdvertTaken
    <3> HIDE DEF d
    <3>3. <<d>> \in Seq(Devices)
      BY <3>1
    <3>4. <<d>> \o mAvalbalDevice \in Seq(Devices)
      BY <3>3, ConcatProperties DEF DeviceOK
    <3>5. mAvalbalDevice' \in Seq(Devices)
      BY <3>2, <3>4, Zenon
    <3>6. event' = event
      BY <3>2
    <3> QED
      BY <3>5, <3>6 DEF DeviceOK
  <2>4. CASE NamedTaken
    BY <2>4, EventTaken DEF NamedTaken, DeviceOK
  <2>5. CASE ResponseTaken
    <3> DEFINE n == Cardinality({i \in DOMAIN mAvalbalDevice :
                                    mAvalbalDevice[i] = Head(events).dev})
    <3>1. n \in Nat
      BY CountIsNat DEF DeviceOK
    <3>2. event' = IF n > 0 THEN [pc |-> "list", dev |-> Head(events).dev, left |-> n]
                   ELSE Idle
      BY <2>5 DEF ResponseTaken
    <3> HIDE DEF n
    <3>3. mAvalbalDevice' = mAvalbalDevice /\ Take("response")
      BY <2>5 DEF ResponseTaken
    <3> QED
      BY <3>1, <3>2, <3>3, EventTaken DEF DeviceOK, Idle
  <2>6. CASE ListDevice
    BY <2>6 DEF ListDevice, DeviceOK
  <2>7. CASE TellFound
    <3>1. CASE event.left > 1
      <4>1. event' = [pc |-> "list", dev |-> event.dev, left |-> event.left - 1]
        BY <2>7, <3>1 DEF TellFound, DeviceOK
      <4> QED
        BY <2>7, <3>1, <4>1 DEF TellFound, DeviceOK
    <3>2. CASE ~(event.left > 1)
      BY <2>7, <3>2 DEF TellFound, DeviceOK, Idle
    <3> QED
      BY <3>1, <3>2
  <2>8. CASE FinishedTaken
    BY <2>8 DEF FinishedTaken, DeviceOK, Idle
  <2>9. CASE DsFinished \/ AmFinished \/ ReportFinished
    BY <2>9 DEF DsFinished, AmFinished, ReportFinished, DeviceOK, Idle
  <2> QED
    BY <2>1, <2>2, <2>3, <2>4, <2>5, <2>6, <2>7, <2>8, <2>9 DEF Next, EventStep
<1> QED
  BY <1>1, <1>2, <1>3, <1>4, <1>5, PTL DEF Spec

\* Every variable of ScanControl keeps its type.
THEOREM TypeCorrect == Spec => []TypeOK
<1>1. FlagsOK /\ ControlOK /\ QueueOK /\ DeviceOK => TypeOK
  BY Zenon DEF FlagsOK, ControlOK, QueueOK, DeviceOK, TypeOK
<1> QED
  BY <1>1, TypesHold, PTL
-----------------------------------------------------------------------------
\* The bounds only fall, so a scan is calm only if it was calm before.
BudgetOK == budget.stop <= MaxStops /\ budget.early <= MaxEarly

\* No action raises a bound, so none turns a history calm again.
LEMMA BudgetStep ==
    ASSUME ControlOK, BudgetOK, [Next]_vars
    PROVE  BudgetOK' /\ (Calm' => Calm)
<1> USE ScanAssumption DEF ControlOK, BudgetOK, Calm
<1>1. ASSUME NEW b \in {"start", "stop", "early", "advert"}, Spend(b)
      PROVE  BudgetOK' /\ (Calm' => Calm)
  <2>1. budget[b] > 0 /\ budget' = [budget EXCEPT ![b] = @ - 1]
    BY <1>1 DEF Spend
  <2>2. CASE b = "stop"
    BY <2>1, <2>2
  <2>3. CASE b = "early"
    BY <2>1, <2>3
  <2>4. CASE b = "start"
    BY <2>1, <2>4
  <2>5. CASE b = "advert"
    BY <2>1, <2>5
  <2> QED
    BY <2>2, <2>3, <2>4, <2>5
<1>2. CASE UNCHANGED budget
  BY <1>2
<1>3. (\E b \in {"start", "stop", "early", "advert"} : Spend(b)) \/ UNCHANGED budget
  BY Zenon DEF Next, vars, CommandStep, EventStep, StartScan, StopScan, StartRequest,
     StartMark, StartDiscard, StopRequest, StopMark, StopReport, ScanEnds, Advertise,
     AdvertTaken, NamedTaken, ResponseTaken, ListDevice, TellFound, FinishedTaken,
     DsFinished, AmFinished, ReportFinished
<1> QED
  BY <1>1, <1>2, <1>3

\* A stop and an early end are what is not calm.
LEMMA NotCalm ==
    ASSUME ControlOK, BudgetOK, StopScan \/ (ScanEnds /\ cmd = "startMark")
    PROVE  ~Calm'
<1> USE ScanAssumption DEF ControlOK, BudgetOK, Calm
<1>1. CASE StopScan
  BY <1>1 DEF StopScan, Spend
<1>2. CASE ScanEnds /\ cmd = "startMark"
  BY <1>2 DEF ScanEnds, Spend
<1> QED
  BY <1>1, <1>2

\* The client knows every device of the hub but the one it is being told of.
Listed == \A d \in mDisconnDevices :
              d \in told \/ (event.pc = "tell" /\ event.dev = d)

\* Only ListDevice adds to the hub's list, and TellFound follows it for the same device.
LEMMA ListedStep ==
    ASSUME Listed, DeviceOK, [Next]_vars
    PROVE  Listed'
<1> USE DEF Listed, DeviceOK, histVars
<1>1. CASE ListDevice
  BY <1>1 DEF ListDevice
<1>2. CASE TellFound
  BY <1>2 DEF TellFound
<1>3. CASE StartDiscard
  BY <1>3 DEF StartDiscard
<1>4. CASE ReportFinished \/ StopReport
  BY <1>4 DEF ReportFinished, StopReport
<1>5. CASE AdvertTaken \/ NamedTaken \/ ResponseTaken \/ FinishedTaken
  BY <1>5 DEF AdvertTaken, NamedTaken, ResponseTaken, FinishedTaken, Take
<1>6. CASE DsFinished \/ AmFinished
  BY <1>6 DEF DsFinished, AmFinished
<1>7. CASE UNCHANGED <<mDisconnDevices, told, event>>
  BY <1>7
<1>8. ASSUME NEW d \in Devices, NEW kind \in {"advert", "named", "response"},
             Advertise(d, kind)
      PROVE  Listed'
  BY <1>8, <1>7 DEF Advertise
<1>9. CASE StartScan \/ StopScan \/ StartRequest \/ StartMark \/ StopRequest
           \/ StopMark \/ ScanEnds \/ UNCHANGED vars
  BY <1>7, <1>9, Zenon DEF StartScan, StopScan, StartRequest, StartMark, StopRequest,
     StopMark, ScanEnds, vars
<1> QED
  BY <1>1, <1>2, <1>3, <1>4, <1>5, <1>6, <1>8, <1>9 DEF Next, CommandStep, EventStep
-----------------------------------------------------------------------------
\* Ends reported and still due cover the scans begun, stopped or not.
Num(b) == IF b THEN 1 ELSE 0
Begun == cmd \in {"startRequest", "startMark"}
ReportsCover ==
    /\ starts + Num(Begun \/ cmd = "startDiscard")
       <= finishes + Num(Begun) + Num(dsScanning)
          + Num(event.pc \in {"amClear", "report"}) + Num(cmd = "stopReport")
    /\ Begun => ~dsScanning

\* Each step of a start, a stop or an end hands the report that is due to the next.
LEMMA ReportsStep ==
    ASSUME FlagsOK, ControlOK, DeviceOK, ReportsCover, [Next]_vars
    PROVE  ReportsCover'
<1> USE DEF FlagsOK, ControlOK, DeviceOK, ReportsCover, Num, Begun, histVars, flagVars
<1>1. CASE StartScan \/ StartRequest \/ StartMark
  BY <1>1 DEF StartScan, StartRequest, StartMark
<1>2. CASE StartDiscard
  BY <1>2 DEF StartDiscard
<1>3. CASE StopScan \/ StopRequest
  BY <1>3 DEF StopScan, StopRequest
<1>4. CASE StopMark \/ StopReport
  BY <1>4 DEF StopMark, StopReport
<1>5. CASE AdvertTaken \/ NamedTaken \/ ResponseTaken \/ FinishedTaken
  BY <1>5 DEF AdvertTaken, NamedTaken, ResponseTaken, FinishedTaken, Take, Idle
<1>6. CASE ListDevice \/ TellFound
  BY <1>6 DEF ListDevice, TellFound, Idle
<1>7. CASE DsFinished \/ AmFinished
  BY <1>7 DEF DsFinished, AmFinished
<1>8. CASE ReportFinished
  BY <1>8 DEF ReportFinished, Idle
<1>9. CASE ScanEnds \/ UNCHANGED vars
  BY <1>9 DEF ScanEnds, vars
<1>10. ASSUME NEW d \in Devices, NEW kind \in {"advert", "named", "response"},
              Advertise(d, kind)
       PROVE  ReportsCover'
  BY <1>10 DEF Advertise
<1> QED
  BY <1>1, <1>2, <1>3, <1>4, <1>5, <1>6, <1>7, <1>8, <1>9, <1>10
  DEF Next, CommandStep, EventStep
-----------------------------------------------------------------------------
\* While nobody stops a scan, the AdapterManager's flag covers it from the
\* request to the end of the event thread's work: whatever is under way for a
\* scan finds the flag up, and it is lowered when nothing is left of the scan.
UnderWay ==
    /\ cmd \in {"idle", "startRequest", "startMark", "startDiscard"}
    /\ \/ Begun
       \/ radio
       \/ events # <<>>
       \/ event.pc \in {"list", "tell", "dsClear", "amClear"}
       => amScanning
    /\ cmd = "startRequest" => ~radio
    /\ event.pc \in {"dsClear", "amClear"} => events = <<>> /\ ~radio /\ ~Begun

\* The end of a scan is the last event, of a dongle that is at rest.
EndIsLast ==
    \A i \in 1..Len(events) :
       events[i].kind = "finished" => i = Len(events) /\ ~radio /\ ~Begun

\* The device being told of is still in the hub's list.
TellsListed ==
    /\ event.pc = "tell" => cmd = "idle" /\ event.dev \in mDisconnDevices
    /\ told \subseteq mDisconnDevices

\* The flags agree, and a scan with its flag up has its end before it.
FlagsAgree ==
    /\ dsScanning <=> amScanning /\ ~Begun /\ event.pc # "amClear"
    /\ amScanning => \/ cmd = "startRequest"
                     \/ radio
                     \/ \E i \in 1..Len(events) : events[i].kind = "finished"
                     \/ event.pc \in {"dsClear", "amClear"}
    /\ starts + Num(Begun \/ cmd = "startDiscard")
       = finishes + Num(amScanning) + Num(event.pc = "report")

\* What the event thread does when it takes a result of a scan.
LEMMA ResultTaken ==
    ASSUME QueueOK, AdvertTaken \/ NamedTaken \/ ResponseTaken
    PROVE  /\ event.pc = "idle" /\ event'.pc \in {"idle", "list"}
           /\ events # <<>> /\ events' = Tail(events) /\ events[1].kind # "finished"
           /\ UNCHANGED <<amScanning, dsScanning, radio, cmd, starts, finishes>>
<1> USE DEF QueueOK, Take, Idle, flagVars, histVars
<1>1. CASE AdvertTaken
  BY <1>1 DEF AdvertTaken
<1>2. CASE NamedTaken
  BY <1>2 DEF NamedTaken
<1>3. CASE ResponseTaken
  BY <1>3 DEF ResponseTaken
<1> QED
  BY <1>1, <1>2, <1>3

\* What it does when it lists a device and tells of it.
LEMMA DeviceShown ==
    ASSUME DeviceOK, ListDevice \/ TellFound
    PROVE  /\ event.pc \in {"list", "tell"} /\ event'.pc \in {"idle", "list", "tell"}
           /\ UNCHANGED <<amScanning, dsScanning, radio, events, cmd, starts, finishes>>
<1> USE DEF DeviceOK, Idle, flagVars, radioVars, histVars
<1>1. CASE ListDevice
  BY <1>1 DEF ListDevice
<1>2. CASE TellFound
  BY <1>2 DEF TellFound
<1> QED
  BY <1>1, <1>2

\* The flag goes down only in AmFinished, after the last event of the scan.
LEMMA UnderWayStep ==
    ASSUME FlagsOK, ControlOK, QueueOK, DeviceOK, UnderWay, EndIsLast, [Next]_vars,
           ~StopScan, ~(ScanEnds /\ cmd = "startMark")
    PROVE  UnderWay'
<1> USE DEF UnderWay, Begun, FlagsOK, ControlOK, DeviceOK, radioVars, histVars, flagVars
<1>1. CASE StartScan
  BY <1>1 DEF StartScan
<1>2. CASE StartRequest \/ StartMark \/ StartDiscard
  BY <1>2 DEF StartRequest, StartMark, StartDiscard
<1>3. CASE StopRequest \/ StopMark \/ StopReport
  BY <1>3 DEF StopRequest, StopMark, StopReport
<1>4. CASE ScanEnds
  BY <1>4 DEF ScanEnds
<1>5. ASSUME NEW d \in Devices, NEW kind \in {"advert", "named", "response"},
             Advertise(d, kind)
      PROVE  UnderWay'
  BY <1>5 DEF Advertise
<1>6. CASE AdvertTaken \/ NamedTaken \/ ResponseTaken
  BY <1>6, ResultTaken
<1>7. CASE ListDevice \/ TellFound
  BY <1>7, DeviceShown
<1>8. CASE FinishedTaken
  <2>1. events # <<>> /\ events[1].kind = "finished" /\ events' = Tail(events)
    BY <1>8 DEF FinishedTaken, Take, QueueOK
  <2>2. 1 \in 1..Len(events)
    BY <2>1 DEF QueueOK
  <2>3. Len(events) = 1 /\ ~radio /\ ~Begun
    BY <2>1, <2>2 DEF EndIsLast
  <2>4. events' = <<>>
    BY <2>1, <2>3 DEF QueueOK
  <2> QED
    BY <1>8, <2>1, <2>3, <2>4 DEF FinishedTaken, Take, Idle
<1>9. CASE DsFinished \/ AmFinished \/ ReportFinished
  BY <1>9 DEF DsFinished, AmFinished, ReportFinished, Idle
<1>10. CASE UNCHANGED vars
  BY <1>10 DEF vars
<1> QED
  BY <1>1, <1>2, <1>3, <1>4, <1>5, <1>6, <1>7, <1>8, <1>9, <1>10
  DEF Next, CommandStep, EventStep

\* The dongle adds no event after the end of a scan until the next request.
LEMMA EndIsLastStep ==
    ASSUME QueueOK, UnderWay, EndIsLast, [Next]_vars,
           ~StopScan, ~(ScanEnds /\ cmd = "startMark")
    PROVE  EndIsLast'
<1> USE DEF EndIsLast, UnderWay, Begun, QueueOK, radioVars, flagVars
<1>1. CASE StartScan
  BY <1>1 DEF StartScan
<1>2. CASE StartRequest \/ StartMark \/ StartDiscard
  BY <1>2 DEF StartRequest, StartMark, StartDiscard
<1>3. CASE StopRequest \/ StopMark \/ StopReport
  BY <1>3 DEF StopRequest, StopMark, StopReport
<1>4. CASE ScanEnds
  BY <1>4 DEF ScanEnds
<1>5. ASSUME NEW d \in Devices, NEW kind \in {"advert", "named", "response"},
             Advertise(d, kind)
      PROVE  EndIsLast'
  BY <1>5 DEF Advertise
<1>6. CASE AdvertTaken \/ NamedTaken \/ ResponseTaken \/ FinishedTaken
  <2>1. events # <<>> /\ events' = Tail(events) /\ UNCHANGED <<radio, cmd>>
    BY <1>6 DEF AdvertTaken, NamedTaken, ResponseTaken, FinishedTaken, Take
  <2> QED
    BY <2>1
<1>7. CASE ListDevice \/ TellFound \/ DsFinished \/ AmFinished \/ ReportFinished
           \/ UNCHANGED vars
  BY <1>7 DEF ListDevice, TellFound, DsFinished, AmFinished, ReportFinished, vars
<1> QED
  BY <1>1, <1>2, <1>3, <1>4, <1>5, <1>6, <1>7 DEF Next, CommandStep, EventStep

\* No start, and so no discard, comes between ListDevice and TellFound.
LEMMA TellsListedStep ==
    ASSUME ControlOK, DeviceOK, UnderWay, TellsListed, [Next]_vars, ~StopScan
    PROVE  TellsListed'
<1> USE DEF TellsListed, UnderWay, ControlOK, DeviceOK, radioVars, histVars, flagVars
<1>1. CASE StartScan \/ StartRequest \/ StartMark
  BY <1>1 DEF StartScan, StartRequest, StartMark, Begun
<1>2. CASE StartDiscard
  BY <1>2 DEF StartDiscard
<1>3. CASE StopRequest \/ StopMark \/ StopReport
  BY <1>3 DEF StopRequest, StopMark, StopReport
<1>4. CASE ScanEnds \/ UNCHANGED vars
  BY <1>4 DEF ScanEnds, vars
<1>5. ASSUME NEW d \in Devices, NEW kind \in {"advert", "named", "response"},
             Advertise(d, kind)
      PROVE  TellsListed'
  BY <1>5 DEF Advertise
<1>6. CASE AdvertTaken \/ NamedTaken \/ ResponseTaken \/ FinishedTaken
  BY <1>6 DEF AdvertTaken, NamedTaken, ResponseTaken, FinishedTaken, Take, Idle
<1>7. CASE ListDevice
  BY <1>7 DEF ListDevice
<1>8. CASE TellFound
  BY <1>8 DEF TellFound, Idle
<1>9. CASE DsFinished \/ AmFinished \/ ReportFinished
  BY <1>9 DEF DsFinished, AmFinished, ReportFinished, Idle
<1> QED
  BY <1>1, <1>2, <1>3, <1>4, <1>5, <1>6, <1>7, <1>8, <1>9
  DEF Next, CommandStep, EventStep

\* Where the flags part, a start is at work or the event thread is between the two.
LEMMA FlagsAgreeStep ==
    ASSUME FlagsOK, ControlOK, QueueOK, DeviceOK, UnderWay, EndIsLast, FlagsAgree,
           [Next]_vars, ~StopScan, ~(ScanEnds /\ cmd = "startMark")
    PROVE  FlagsAgree'
<1> USE DEF FlagsAgree, UnderWay, Begun, Num, FlagsOK, ControlOK, DeviceOK, QueueOK,
            radioVars, histVars, flagVars
<1>1. CASE StartScan
  BY <1>1 DEF StartScan
<1>2. CASE StartRequest \/ StartMark \/ StartDiscard
  BY <1>2 DEF StartRequest, StartMark, StartDiscard
<1>3. CASE StopRequest \/ StopMark \/ StopReport
  BY <1>3 DEF StopRequest, StopMark, StopReport
<1>4. CASE ScanEnds
  <2>1. UNCHANGED <<amScanning, dsScanning, cmd, event, starts, finishes>>
    BY <1>4 DEF ScanEnds
  <2>2. events'[Len(events')].kind = "finished" /\ Len(events') \in 1..Len(events')
    BY <1>4 DEF ScanEnds
  <2> QED
    BY <2>1, <2>2
<1>5. ASSUME NEW d \in Devices, NEW kind \in {"advert", "named", "response"},
             Advertise(d, kind)
      PROVE  FlagsAgree'
  BY <1>5 DEF Advertise
<1>6. CASE AdvertTaken \/ NamedTaken \/ ResponseTaken
  <2>1. /\ event.pc = "idle" /\ event'.pc \in {"idle", "list"}
        /\ events # <<>> /\ events' = Tail(events) /\ events[1].kind # "finished"
        /\ UNCHANGED <<amScanning, dsScanning, radio, cmd, starts, finishes>>
    BY <1>6, ResultTaken
  <2>2. ASSUME NEW i \in 1..Len(events), events[i].kind = "finished"
        PROVE  \E j \in 1..Len(events') : events'[j].kind = "finished"
    <3>1. i # 1
      BY <2>1, <2>2
    <3>2. i - 1 \in 1..Len(events') /\ events'[i - 1] = events[i]
      BY <2>1, <3>1
    <3> QED
      BY <2>2, <3>2
  <2> QED
    BY <2>1, <2>2
<1>7. CASE FinishedTaken
  <2>1. events # <<>> /\ events[1].kind = "finished" /\ event.pc = "idle"
    BY <1>7 DEF FinishedTaken, Take
  <2>2. 1 \in 1..Len(events)
    BY <2>1
  <2>3. dsScanning /\ amScanning /\ ~Begun
    BY <2>1, <2>2 DEF EndIsLast
  <2>4. event'.pc = "dsClear" /\ UNCHANGED <<flagVars, cmd, starts, finishes>>
    BY <1>7, <2>3 DEF FinishedTaken, Idle
  <2> QED
    BY <2>1, <2>3, <2>4
<1>8. CASE ListDevice \/ TellFound
  BY <1>8, DeviceShown
<1>9. CASE DsFinished \/ AmFinished
  BY <1>9 DEF DsFinished, AmFinished
<1>10. CASE ReportFinished \/ UNCHANGED vars
  BY <1>10 DEF ReportFinished, Idle, vars
<1> QED
  BY <1>1, <1>2, <1>3, <1>4, <1>5, <1>6, <1>7, <1>8, <1>9, <1>10
  DEF Next, CommandStep, EventStep
-----------------------------------------------------------------------------
\* The inductive invariant, beside the types.
CalmInv == Calm => UnderWay /\ EndIsLast /\ TellsListed /\ FlagsAgree
ScanInv == BudgetOK /\ Listed /\ ReportsCover /\ CalmInv

\* It holds of every execution, for every number of devices, scans and stops.
THEOREM ScanInvariant == Spec => []ScanInv
<1>1. Init => ScanInv
  <2> SUFFICES ASSUME Init PROVE ScanInv
    OBVIOUS
  <2> USE ScanAssumption DEF Init, Idle, Num, Begun
  <2>1. BudgetOK /\ Listed
    BY DEF BudgetOK, Listed
  <2>2. ReportsCover
    BY DEF ReportsCover
  <2>3. UnderWay /\ EndIsLast /\ TellsListed /\ FlagsAgree
    BY DEF UnderWay, EndIsLast, TellsListed, FlagsAgree
  <2> QED
    BY <2>1, <2>2, <2>3 DEF ScanInv, CalmInv
<1>2. FlagsOK /\ ControlOK /\ QueueOK /\ DeviceOK /\ ScanInv /\ [Next]_vars => ScanInv'
  <2> SUFFICES ASSUME FlagsOK, ControlOK, QueueOK, DeviceOK, ScanInv, [Next]_vars
               PROVE  ScanInv'
    OBVIOUS
  <2> USE DEF ScanInv, CalmInv
  <2>1. BudgetOK' /\ (Calm' => Calm)
    BY BudgetStep
  <2>2. Listed' /\ ReportsCover'
    BY ListedStep, ReportsStep
  <2>3. ASSUME Calm'
        PROVE  UnderWay' /\ EndIsLast' /\ TellsListed' /\ FlagsAgree'
    <3>1. ~StopScan /\ ~(ScanEnds /\ cmd = "startMark")
      BY <2>3, NotCalm
    <3>2. UnderWay /\ EndIsLast /\ TellsListed /\ FlagsAgree
      BY <2>1, <2>3
    <3> QED
      BY <3>1, <3>2, UnderWayStep, EndIsLastStep, TellsListedStep, FlagsAgreeStep
  <2> QED
    BY <2>1, <2>2, <2>3
<1> QED
  BY <1>1, <1>2, TypesHold, PTL DEF Spec

\* A client knows every device of the hub's list but the one it is being told
\* of, and while nobody stops a scan it knows no device that was dropped
\* (BLEHub::onScanResult and the discarding of startScan).
THEOREM ClientKnowsList == Spec => []ToldIsListed
<1>1. ScanInv => ToldIsListed
  BY Zenon DEF ScanInv, CalmInv, Listed, TellsListed, ToldIsListed
<1> QED
  BY <1>1, ScanInvariant, PTL

\* When the two threads rest the flags agree with the dongle and every scan
\* was reported finished exactly once, while nobody stops one; and whatever the
\* stops, with the DiscoveryService's flag down none is left without a report
\* (StartScan, StopScan and ProcessScanFinished of both classes).
THEOREM FinishesReported == Spec => []FinishedOnce
<1>1. FlagsOK /\ ControlOK /\ QueueOK /\ DeviceOK /\ ScanInv => FinishedOnce
  <2> SUFFICES ASSUME FlagsOK, ControlOK, QueueOK, ScanInv, Quiet PROVE FinishedOnce
    BY DEF FinishedOnce
  <2> USE DEF Quiet, Num, Begun, FlagsOK, ControlOK
  <2>1. ~dsScanning => finishes >= starts
    BY DEF ScanInv, ReportsCover
  <2>2. ASSUME Calm
        PROVE  /\ amScanning = radio
               /\ dsScanning = radio
               /\ finishes = IF radio THEN starts - 1 ELSE starts
    <3>1. UnderWay /\ FlagsAgree
      BY <2>2 DEF ScanInv, CalmInv
    <3>2. amScanning = radio
      BY <3>1 DEF UnderWay, FlagsAgree
    <3>3. dsScanning = amScanning
      BY <3>1 DEF FlagsAgree
    <3>4. starts = finishes + Num(amScanning)
      BY <3>1 DEF FlagsAgree
    <3> QED
      BY <3>2, <3>3, <3>4
  <2> QED
    BY <2>1, <2>2 DEF FinishedOnce
<1> QED
  BY <1>1, TypesHold, ScanInvariant, PTL

=============================================================================
