--------------------------- MODULE DeliveryProofs ---------------------------
(***************************************************************************)
(* Any number of listeners, pollers and notifications: the types, and that *)
(* every listener hears what it is told in order.                          *)
(***************************************************************************)
EXTENDS Delivery, SequenceTheorems, TLAPS

Message == [to : Listener, n : Nat]

\* Where a notifying thread is without mMutexListeners, and where it is in a listener's
\* call; where a poller is that holds no message.
Free == {"idle", "lookup", "gone", "join", "notify", "told", "ended", "closing", "waiting",
         "joining", "over"}
Calling == {"calling", "asks", "registers", "blocked"}
Busy == {"poll", "asks", "blocked", "next", "end"}

ClientOK ==
    /\ mListeners \subseteq Listener /\ alive \subseteq Listener
    /\ mWorkMode \in {"Polling", "Freerun"} /\ modes \in 0..MaxModes
    /\ mixed \in BOOLEAN

StepOK ==
    /\ step = [t \in Thread |-> step[t]]
    /\ \A t \in Notifier : step[t] \in Free \cup {"queueing"} \cup Calling
    /\ \A p \in Poller : step[p] \in {"idle", "popped"} \cup Busy

CommandOK ==
    /\ mMsgQ \in Seq(Command) /\ serving \in Thread \cup {None}
    /\ serving # None => step[serving] = "blocked"
    /\ \A i \in 1..Len(mMsgQ) : mMsgQ[i].of # None =>
          /\ step[mMsgQ[i].of] = "blocked" /\ mMsgQ[i].of # serving
          /\ \A j \in 1..Len(mMsgQ) : mMsgQ[i].of = mMsgQ[j].of => i = j

CountOK ==
    /\ notices \in Nat /\ begun \in 0..MaxNotices
    /\ discards \in [Notifier -> 0..MaxNotices]
    /\ heard \in [Listener -> 0..notices]

LockOK ==
    /\ mTaskMutex \in {"event", "task", "owner", None}
    /\ mMutexListeners \in Notifier \cup {None}
    /\ \A t \in Notifier : mMutexListeners = t <=> step[t] \in {"queueing"} \cup Calling

PollOK ==
    /\ mPolling = \E p \in Poller : step[p] # "idle"
    /\ \A p, q \in Poller : step[p] # "idle" /\ step[q] # "idle" => p = q
    /\ mPollMsgQ \in Seq(Message)
    /\ \A i \in 1..Len(mPollMsgQ) : mPollMsgQ[i].n \in 1..notices

TodoOK ==
    /\ todo \in [Notifier -> SUBSET Listener]
    /\ \A t \in Notifier : /\ todo[t] \subseteq mListeners
                           /\ mMutexListeners # t => todo[t] = {}

NowOK ==
    /\ now = [t \in Thread |-> now[t]]
    /\ \A t \in Notifier : \/ now[t] = None /\ todo[t] = {}
                           \/ now[t] \in 1..notices
    /\ \A p \in Poller : \/ step[p] # "popped" /\ now[p] = None
                         \/ step[p] = "popped" /\ now[p] \in Message /\ now[p].n \in 1..notices

\* Nothing waits for the pollers.
Drained == mPollMsgQ = <<>> /\ \A p \in Poller : step[p] # "popped"

\* What waits, what a poller holds and what listeners are told stays in order.
InQueue ==
    /\ \A i, j \in 1..Len(mPollMsgQ) :
          i < j /\ mPollMsgQ[i].to = mPollMsgQ[j].to => mPollMsgQ[i].n < mPollMsgQ[j].n
    /\ \A i \in 1..Len(mPollMsgQ) : heard[mPollMsgQ[i].to] < mPollMsgQ[i].n

InHand ==
    \A p \in Poller : step[p] = "popped" =>
       /\ heard[now[p].to] < now[p].n
       /\ \A i \in 1..Len(mPollMsgQ) :
             mPollMsgQ[i].to = now[p].to => now[p].n < mPollMsgQ[i].n

Modes ==
    /\ mWorkMode = "Freerun" => Drained /\ \A t \in Notifier : step[t] # "queueing"
    /\ \A t \in Notifier : step[t] \in Calling => Drained

Ahead ==
    \A t \in Notifier : \A l \in todo[t] :
       /\ heard[l] < now[t]
       /\ \A i \in 1..Len(mPollMsgQ) : mPollMsgQ[i].to = l => mPollMsgQ[i].n < now[t]
       /\ \A p \in Poller : step[p] = "popped" /\ now[p].to = l => now[p].n < now[t]

Order == ~mixed => InQueue /\ InHand /\ Modes /\ Ahead

\* Threads, messages and None are told apart.
LEMMA Apart ==
    /\ Notifier \cap Poller = {} /\ None \notin Thread /\ None \notin Message
    /\ Thread = Notifier \cup Poller
    /\ "event" \in Notifier /\ "device" \in Notifier /\ "task" \in Notifier
    /\ "owner" \in Notifier
    /\ MaxNotices \in Nat /\ MaxModes \in Nat
BY DeliveryAssumption DEF Message, Notifier, Thread

\* A thread moves, the others stay.
LEMMA GotoFacts ==
    ASSUME StepOK, NEW t \in Thread, NEW s, Goto(t, s)
    PROVE  /\ step'[t] = s
           /\ \A u \in Thread : u # t => step'[u] = step[u]
           /\ step' = [u \in Thread |-> step'[u]]
<1>1. step = [u \in Thread |-> step[u]]
  BY DEF StepOK
<1>2. step' = [u \in Thread |-> IF u = t THEN s ELSE step[u]]
  BY <1>1 DEF Goto
<1> QED
  BY <1>2
-----------------------------------------------------------------------------
(* Most steps tell nobody: no lock of the listeners changes hands and no   *)
(* message moves.                                                          *)

Steady ==
    /\ step' = [t \in Thread |-> step'[t]]
    /\ \A t \in Notifier : \/ step'[t] = step[t]
                           \/ step[t] \in Free /\ step'[t] \in Free
                           \/ step[t] \in Calling /\ step'[t] \in Calling
    /\ \A p \in Poller : \/ step'[p] = step[p]
                         \/ step[p] \in Busy /\ step'[p] \in Busy

Silent ==
    \/ Client \/ Begins \/ Event \/ Device \/ Task \/ deinit \/ Owner \/ UNCHANGED vars
    \/ \E t \in Thread : CallsHub(t)
    \/ \E p \in Poller : RunNext(p) \/ (Pop(p) /\ mPollMsgQ = <<>>)

Loud ==
    \/ \E t \in Notifier : Notify(t) \/ Queue(t) \/ CallListener(t) \/ Release(t)
    \/ \E p \in Poller : \/ RunBegin(p) \/ Deliver(p) \/ RunEnd(p)
                         \/ Pop(p) /\ mPollMsgQ # <<>>

LEMMA Steps == [Next]_vars => Silent \/ Loud
BY Apart DEF Next, Tell, Run, Silent, Loud

LEMMA SteadyMove ==
    ASSUME StepOK, NEW t \in Thread, NEW s, Goto(t, s),
           \/ t \in Notifier /\ step[t] \in Free /\ s \in Free
           \/ t \in Notifier /\ step[t] \in Calling /\ s \in Calling
           \/ t \in Poller /\ step[t] \in Busy /\ s \in Busy
    PROVE  Steady
BY GotoFacts, Apart DEF Steady

\* The thread whose command is done goes on, and the command thread with it.
LEMMA WakeFacts ==
    ASSUME StepOK, CommandOK, EndCommand
    PROVE  /\ step' = [u \in Thread |-> step'[u]]
           /\ step["task"] = "told" /\ step'["task"] = "idle" /\ serving # "task"
           /\ serving # None => /\ serving \in Thread /\ step[serving] = "blocked"
                                /\ step'[serving] = Resumed(serving)
           /\ \A u \in Thread : u # "task" /\ u # serving => step'[u] = step[u]
<1>1. step' = [u \in Thread |-> IF u = "task" THEN "idle"
                                ELSE IF u = serving THEN Resumed(u) ELSE step[u]]
  BY DEF EndCommand, Wake
<1>2. step["task"] = "told"
  BY DEF EndCommand
<1>3. serving # None => serving \in Thread /\ step[serving] = "blocked"
  BY DEF CommandOK
<1>4. serving # "task"
  BY <1>2, <1>3, Apart
<1> QED
  BY <1>1, <1>2, <1>3, <1>4, Apart

\* What the command thread and deinit do when they decide on notifications.
LEMMA DiscardsFacts ==
    ASSUME CountOK, NEW t \in Notifier, NEW n \in 0..MaxNotices, NEW s, Discards(t, n, s)
    PROVE  /\ Goto(t, s) \/ Goto(t, "notify")
           /\ begun' \in 0..MaxNotices /\ discards' \in [Notifier -> 0..MaxNotices]
<1>1. Goto(t, s) \/ Goto(t, "notify")
  BY DEF Discards
<1>2. begun' = begun + n /\ begun + n <= MaxNotices
  BY DEF Discards, Counted
<1>3. (IF n = 0 THEN 0 ELSE n - 1) \in 0..MaxNotices
  BY Apart
<1>4. discards' = [discards EXCEPT ![t] = IF n = 0 THEN 0 ELSE n - 1]
  BY DEF Discards
<1> QED
  BY <1>1, <1>2, <1>3, <1>4, Apart DEF CountOK

LEMMA DoesFacts ==
    ASSUME CountOK, NEW do, Does(do)
    PROVE  /\ \E s \in {"told", "join", "notify"} : Goto("task", s)
           /\ begun' \in 0..MaxNotices /\ discards' \in [Notifier -> 0..MaxNotices]
<1>1. PICK n \in 0..MaxNotices, s \in {"told", "join"} : Discards("task", n, s)
  BY Apart DEF Does
<1> QED
  BY <1>1, DiscardsFacts, Apart

\* What taking a command does to the threads.
LEMMA TakeFacts ==
    ASSUME CountOK, TakeCommand
    PROVE  /\ step["task"] = "idle" /\ mMsgQ # <<>> /\ mMsgQ' = Tail(mMsgQ)
           /\ \E s \in {"told", "join", "notify", "ended"} : Goto("task", s)
           /\ begun' \in 0..MaxNotices /\ discards' \in [Notifier -> 0..MaxNotices]
           /\ mTaskMutex' \in {mTaskMutex, "task"} /\ serving' \in {serving, Head(mMsgQ).of}
<1>1. CASE Head(mMsgQ).do = "exit"
  BY <1>1 DEF TakeCommand, countVars, CountOK
<1>2. CASE Head(mMsgQ).do # "exit"
  <2>1. Does(Head(mMsgQ).do)
    BY <1>2 DEF TakeCommand
  <2> QED
    BY <1>2, <2>1, DoesFacts DEF TakeCommand
<1> QED
  BY <1>1, <1>2

\* A silent step is steady.
LEMMA SilentSteady == ASSUME StepOK, CommandOK, CountOK, Silent PROVE Steady
<1>0. CASE UNCHANGED step
  BY <1>0 DEF Steady, StepOK
<1>1. CASE Client \/ UNCHANGED vars
  BY <1>0, <1>1 DEF Client, registerListener, unRegisterListener, ListenerGone, setWorkMode,
     ClientCommand, vars
<1>2. CASE Begins
  <2>1. \E t \in {"event", "device"}, s \in {"lookup", "join", "notify", "gone"} :
           Goto(t, s) /\ step[t] = "idle"
    BY <1>2 DEF Begins, DataReceived, LinkTerminated, DeviceConnected, onScanFinished,
       onComDestory, Callback
  <2> QED
    BY <2>1, SteadyMove, Apart DEF Free
<1>3. CASE Event \/ Device
  <2>1. \E t \in {"event", "device"}, s \in {"lookup", "notify", "idle"} :
           Goto(t, s) /\ step[t] \in {"join", "lookup", "gone", "told"}
    BY <1>3 DEF Event, Device, EventJoined, LookUpDevice, ComLocked, ComEnds
  <2> QED
    BY <2>1, SteadyMove, Apart DEF Free
<1>4. CASE TakeCommand \/ TaskJoined
  <2>1. /\ step["task"] \in {"idle", "join"}
        /\ \E s \in {"told", "join", "notify", "ended"} : Goto("task", s)
    BY <1>4, TakeFacts DEF TaskJoined
  <2> QED
    BY <2>1, SteadyMove, Apart DEF Free
<1>5. CASE EndCommand
  BY <1>5, WakeFacts, Apart DEF Steady, Resumed, Free, Calling, Busy
<1>6. CASE deinit \/ Owner
  <2>1. /\ step["owner"] \in {"idle", "closing", "waiting", "joining"}
        /\ \E s \in {"closing", "waiting", "notify", "joining", "over"} : Goto("owner", s)
    BY <1>6, DiscardsFacts, Apart DEF deinit, Owner, SendExit, DiscardAll, DeinitEnds
  <2> QED
    BY <2>1, SteadyMove, Apart DEF Free
<1>7. ASSUME NEW t \in Thread, CallsHub(t) PROVE Steady
  <2>1. step[t] = "asks" /\ (Goto(t, Resumed(t)) \/ Goto(t, "blocked"))
    BY <1>7 DEF CallsHub
  <2> QED
    BY <2>1, SteadyMove, Apart DEF Resumed, Calling, Busy
<1>8. ASSUME NEW p \in Poller, RunNext(p) \/ (Pop(p) /\ mPollMsgQ = <<>>) PROVE Steady
  <2>1. step[p] \in {"next", "poll"} /\ (Goto(p, "poll") \/ Goto(p, "end"))
    BY <1>8 DEF RunNext, Pop
  <2> QED
    BY <2>1, SteadyMove, Apart DEF Busy
<1> QED
  BY <1>1, <1>2, <1>3, <1>4, <1>5, <1>6, <1>7, <1>8 DEF Silent, Task

\* And leaves alone what is told.
LEMMA SilentUnchanged ==
    ASSUME Silent
    PROVE  /\ UNCHANGED <<mMutexListeners, todo, now, notices, heard, mPollMsgQ, mPolling>>
           /\ mListeners' = mListeners \/ mMutexListeners = None
<1>1. CASE Client \/ UNCHANGED vars
  BY <1>1 DEF Client, registerListener, unRegisterListener, ListenerGone, setWorkMode,
     ClientCommand, vars, clientVars, pollVars, tellVars
<1>2. CASE Begins
  BY <1>2 DEF Begins, DataReceived, LinkTerminated, DeviceConnected, onScanFinished,
     onComDestory, Callback, clientVars, pollVars, tellVars
<1>3. CASE Event \/ Device
  BY <1>3 DEF Event, Device, EventJoined, LookUpDevice, ComLocked, ComEnds, clientVars,
     pollVars, tellVars
<1>4. CASE Task
  BY <1>4 DEF Task, TakeCommand, TaskJoined, EndCommand, clientVars, pollVars, tellVars
<1>5. CASE deinit \/ Owner
  BY <1>5 DEF deinit, Owner, SendExit, DiscardAll, DeinitEnds, clientVars, pollVars, tellVars
<1>6. ASSUME NEW t \in Thread, CallsHub(t)
      PROVE  UNCHANGED <<mMutexListeners, todo, now, notices, heard, mPollMsgQ, mPolling,
                         mListeners>>
  BY <1>6 DEF CallsHub, clientVars, pollVars, tellVars
<1>7. ASSUME NEW p \in Poller, RunNext(p) \/ (Pop(p) /\ mPollMsgQ = <<>>)
      PROVE  UNCHANGED <<mMutexListeners, todo, now, notices, heard, mPollMsgQ, mPolling,
                         mListeners>>
  BY <1>7 DEF RunNext, Pop, clientVars, pollVars, tellVars
<1> QED
  BY <1>1, <1>2, <1>3, <1>4, <1>5, <1>6, <1>7 DEF Silent

\* What a loud step of a notifying thread leaves alone, and where it goes.
LEMMA LoudNotifier ==
    ASSUME StepOK, NEW t \in Notifier,
           Notify(t) \/ Queue(t) \/ CallListener(t) \/ Release(t)
    PROVE  /\ UNCHANGED <<clientVars, commandVars, mPolling, begun>>
           /\ step[t] # "blocked" /\ step[t] # "told"
           /\ step'[t] \in Free \cup {"queueing"} \cup Calling
           /\ step'[t] # "blocked" /\ \A u \in Thread : u # t => step'[u] = step[u]
           /\ step' = [u \in Thread |-> step'[u]]
<1>1. UNCHANGED <<clientVars, commandVars, mPolling, begun>>
  BY DEF Notify, Queue, CallListener, Release, pollVars, countVars
<1>2. CASE Notify(t) \/ CallListener(t) \/ Release(t)
  <2>1. /\ step[t] # "blocked" /\ step[t] # "told"
        /\ \E s \in {"queueing", "calling", "asks", "registers", "idle", "notify", "joining",
                     "told"} : Goto(t, s)
    BY <1>2 DEF Notify, CallListener, Release, Told
  <2> QED
    BY <1>1, <2>1, GotoFacts, Apart DEF Free, Calling
<1>3. CASE Queue(t)
  <2>1. UNCHANGED step /\ step[t] = "queueing"
    BY <1>3 DEF Queue
  <2> QED
    BY <1>1, <2>1 DEF StepOK
<1> QED
  BY <1>2, <1>3

\* The same of a poller.
LEMMA LoudPoller ==
    ASSUME StepOK, NEW p \in Poller,
           RunBegin(p) \/ Deliver(p) \/ RunEnd(p) \/ (Pop(p) /\ mPollMsgQ # <<>>)
    PROVE  /\ UNCHANGED <<clientVars, commandVars, countVars, mMutexListeners, todo, notices>>
           /\ step[p] # "blocked" /\ step'[p] \in {"idle", "popped"} \cup Busy
           /\ step'[p] # "blocked" /\ \A u \in Thread : u # p => step'[u] = step[u]
           /\ step' = [u \in Thread |-> step'[u]]
<1>1. UNCHANGED <<clientVars, commandVars, countVars, mMutexListeners, todo, notices>>
  BY DEF RunBegin, Deliver, RunEnd, Pop, tellVars
<1>2. /\ step[p] # "blocked"
      /\ \E s \in {"poll", "next", "asks", "idle", "popped"} : Goto(p, s)
  BY DEF RunBegin, Deliver, RunEnd, Pop
<1>3. PICK s \in {"poll", "next", "asks", "idle", "popped"} : Goto(p, s)
  BY <1>2
<1>4. /\ step'[p] = s /\ \A u \in Thread : u # p => step'[u] = step[u]
      /\ step' = [u \in Thread |-> step'[u]]
  BY <1>3, GotoFacts, Apart
<1> QED
  BY <1>1, <1>2, <1>4 DEF Busy
-----------------------------------------------------------------------------
\* The client's part.
LEMMA ClientKept == ASSUME StepOK, ClientOK, [Next]_vars PROVE ClientOK'
<1>0. CASE UNCHANGED clientVars
  BY <1>0 DEF ClientOK, clientVars
<1>1. ASSUME NEW l \in Listener, registerListener(l) \/ unRegisterListener(l) \/ ListenerGone(l)
      PROVE  ClientOK'
  BY <1>1 DEF registerListener, unRegisterListener, ListenerGone, ClientOK
<1>2. CASE setWorkMode
  <2>1. modes' \in 0..MaxModes /\ mWorkMode' \in {"Polling", "Freerun"}
    BY <1>2, Apart DEF setWorkMode, ClientOK
  <2>2. mixed' \in BOOLEAN
    BY <1>2, Zenon DEF setWorkMode
  <2> QED
    BY <1>2, <2>1, <2>2 DEF setWorkMode, ClientOK
<1>3. CASE DeinitEnds
  BY <1>3 DEF DeinitEnds, ClientOK
<1>4. CASE \/ Begins \/ Event \/ Device \/ Task \/ deinit \/ SendExit \/ DiscardAll
           \/ UNCHANGED vars \/ \E do \in Work : ClientCommand(do)
  BY <1>0, <1>4 DEF Begins, DataReceived, LinkTerminated, DeviceConnected, onScanFinished,
     onComDestory, Callback, Event, Device, EventJoined, LookUpDevice, ComLocked, ComEnds,
     Task, TakeCommand, TaskJoined, EndCommand, deinit, SendExit, DiscardAll, ClientCommand,
     vars
<1>5. ASSUME NEW t \in Notifier, Tell(t) PROVE ClientOK'
  BY <1>0, <1>5 DEF Tell, Notify, Queue, CallListener, Release, CallsHub
<1>6. ASSUME NEW p \in Poller, Run(p) PROVE ClientOK'
  BY <1>0, <1>6 DEF Run, RunBegin, Pop, Deliver, CallsHub, RunNext, RunEnd
<1> QED
  BY <1>1, <1>2, <1>3, <1>4, <1>5, <1>6 DEF Next, Client, Owner

\* Every step stays a step of its kind of thread.
LEMMA StepKept == ASSUME StepOK, CommandOK, CountOK, [Next]_vars PROVE StepOK'
<1>1. CASE Silent
  BY <1>1, SilentSteady DEF Steady, StepOK
<1>2. CASE Loud
  <2>1. ASSUME NEW t \in Notifier, Notify(t) \/ Queue(t) \/ CallListener(t) \/ Release(t)
        PROVE  StepOK'
    BY <2>1, LoudNotifier, Apart DEF StepOK
  <2>2. ASSUME NEW p \in Poller,
               RunBegin(p) \/ Deliver(p) \/ RunEnd(p) \/ (Pop(p) /\ mPollMsgQ # <<>>)
        PROVE  StepOK'
    BY <2>2, LoudPoller, Apart DEF StepOK
  <2> QED
    BY <1>2, <2>1, <2>2 DEF Loud
<1> QED
  BY <1>1, <1>2, Steps
-----------------------------------------------------------------------------
\* The commands as they are, and no thread that waits for one moves.
LEMMA CommandsStay ==
    ASSUME CommandOK, UNCHANGED <<mMsgQ, serving>>,
           \A u \in Thread : step[u] = "blocked" => step'[u] = "blocked"
    PROVE  CommandOK'
<1>1. \A i \in 1..Len(mMsgQ) : mMsgQ[i].of \in Thread \cup {None}
  <2>1. \A i \in 1..Len(mMsgQ) : mMsgQ[i] \in Command
    BY ElementOfSeq DEF CommandOK
  <2> QED
    BY <2>1 DEF Command
<1> QED
  BY <1>1 DEF CommandOK

\* A command is appended by a thread that waits for it, or by one nobody names.
LEMMA AppendCommand ==
    ASSUME CommandOK, NEW do \in Work \cup {"exit"}, NEW x \in Thread \cup {None},
           Push(do, x), UNCHANGED serving,
           x # None => step[x] # "blocked" /\ step'[x] = "blocked",
           \A u \in Thread : step[u] = "blocked" => step'[u] = "blocked"
    PROVE  CommandOK'
<1> DEFINE c == [do |-> do, of |-> x]
<1>0. c \in Command /\ mMsgQ \in Seq(Command) /\ mMsgQ' = Append(mMsgQ, c)
  BY DEF Command, CommandOK, Push
<1>1. /\ mMsgQ' \in Seq(Command)
      /\ Len(mMsgQ') = Len(mMsgQ) + 1 /\ Len(mMsgQ) \in Nat
      /\ \A i \in 1..Len(mMsgQ) : mMsgQ'[i] = mMsgQ[i]
      /\ mMsgQ'[Len(mMsgQ) + 1] = c
  BY <1>0, AppendProperties, LenProperties
<1>2. \A i \in 1..Len(mMsgQ') : i \in 1..Len(mMsgQ) \/ i = Len(mMsgQ) + 1
  BY <1>1
<1>3. c.of = x
  OBVIOUS
<1>4. \A i \in 1..Len(mMsgQ) : mMsgQ[i].of \in Thread \cup {None}
  <2>1. \A i \in 1..Len(mMsgQ) : mMsgQ[i] \in Command
    BY <1>0, ElementOfSeq
  <2> QED
    BY <2>1 DEF Command
<1> HIDE DEF c
<1>5. x # None => serving # x /\ \A i \in 1..Len(mMsgQ) : mMsgQ[i].of # x
  BY DEF CommandOK
<1>6. ASSUME NEW i \in 1..Len(mMsgQ'), mMsgQ'[i].of # None
      PROVE  /\ step'[mMsgQ'[i].of] = "blocked" /\ mMsgQ'[i].of # serving
             /\ \A j \in 1..Len(mMsgQ') : mMsgQ'[i].of = mMsgQ'[j].of => i = j
  <2>1. CASE i \in 1..Len(mMsgQ)
    BY <1>1, <1>2, <1>3, <1>4, <1>5, <1>6, <2>1 DEF CommandOK
  <2>2. CASE i = Len(mMsgQ) + 1
    BY <1>1, <1>2, <1>3, <1>5, <1>6, <2>2
  <2> QED
    BY <1>2, <2>1, <2>2
<1> QED
  BY <1>1, <1>6 DEF CommandOK

\* The oldest command is taken.
LEMMA TakeKeepsCommands == ASSUME StepOK, CommandOK, CountOK, TakeCommand PROVE CommandOK'
<1>1. /\ mMsgQ \in Seq(Command) /\ mMsgQ # <<>> /\ mMsgQ' = Tail(mMsgQ)
      /\ serving' \in {serving, Head(mMsgQ).of}
  BY TakeFacts DEF CommandOK
<1>2. /\ Len(mMsgQ) \in Nat \ {0} /\ Head(mMsgQ) = mMsgQ[1] /\ 1 \in 1..Len(mMsgQ)
      /\ mMsgQ' \in Seq(Command) /\ mMsgQ[1] \in Command
      /\ \A i \in 1..Len(mMsgQ') :
            i + 1 \in 1..Len(mMsgQ) /\ i + 1 # 1 /\ mMsgQ'[i] = mMsgQ[i + 1]
  BY <1>1, EmptySeq, HeadTailProperties
<1>3. \A i \in 1..Len(mMsgQ) : mMsgQ[i].of \in Thread \cup {None}
  <2>1. \A i \in 1..Len(mMsgQ) : mMsgQ[i] \in Command
    BY <1>1, ElementOfSeq
  <2> QED
    BY <2>1 DEF Command
<1>4. \A u \in Thread : step[u] = "blocked" => step'[u] = "blocked"
  <2>1. step["task"] = "idle" /\ \E s : Goto("task", s)
    BY TakeFacts
  <2> QED
    BY <2>1, GotoFacts, Apart
<1>5. serving' # None => serving' \in Thread /\ step'[serving'] = "blocked"
  <2>1. CASE serving' = serving
    BY <1>4, <2>1 DEF CommandOK
  <2>2. CASE serving' = mMsgQ[1].of
    <3>1. mMsgQ[1].of \in Thread \cup {None}
      BY <1>2, <1>3
    <3>2. mMsgQ[1].of # None => step[mMsgQ[1].of] = "blocked"
      BY <1>2 DEF CommandOK
    <3>3. mMsgQ[1].of # None =>
             mMsgQ[1].of \in Thread /\ step'[mMsgQ[1].of] = "blocked"
      BY <1>4, <3>1, <3>2
    <3> QED
      BY <2>2, <3>3
  <2> QED
    BY <1>1, <1>2, <2>1, <2>2
<1>6. ASSUME NEW i \in 1..Len(mMsgQ'), mMsgQ'[i].of # None
      PROVE  /\ step'[mMsgQ'[i].of] = "blocked" /\ mMsgQ'[i].of # serving'
             /\ \A j \in 1..Len(mMsgQ') : mMsgQ'[i].of = mMsgQ'[j].of => i = j
  <2>0. i + 1 \in 1..Len(mMsgQ) /\ mMsgQ'[i] = mMsgQ[i + 1] /\ i + 1 # 1
    BY <1>2
  <2>1. step'[mMsgQ'[i].of] = "blocked"
    <3>1. mMsgQ[i + 1].of \in Thread /\ step[mMsgQ[i + 1].of] = "blocked"
      BY <1>3, <1>6, <2>0 DEF CommandOK
    <3>2. step'[mMsgQ[i + 1].of] = "blocked"
      BY <1>4, <3>1
    <3> QED
      BY <2>0, <3>2
  <2>2. mMsgQ'[i].of # serving'
    <3>2. mMsgQ'[i].of # serving
      BY <1>6, <2>0 DEF CommandOK
    <3>3. mMsgQ'[i].of # mMsgQ[1].of
      BY <1>2, <1>6, <2>0 DEF CommandOK
    <3>4. serving' = serving \/ serving' = mMsgQ[1].of
      BY <1>1, <1>2
    <3> QED
      BY <3>2, <3>3, <3>4
  <2>3. \A j \in 1..Len(mMsgQ') : mMsgQ'[i].of = mMsgQ'[j].of => i = j
    BY <1>2, <1>6 DEF CommandOK
  <2> QED
    BY <2>1, <2>2, <2>3
<1>7. serving' \in Thread \cup {None}
  BY <1>5
<1> QED
  BY <1>2, <1>5, <1>6, <1>7 DEF CommandOK

\* Who is named by a command waits for it, and for no other.
LEMMA CommandKept == ASSUME StepOK, CommandOK, CountOK, [Next]_vars PROVE CommandOK'
<1>s. ASSUME Steady, Begins \/ Event \/ Device \/ TaskJoined \/ DeinitEnds \/ UNCHANGED vars
      PROVE  \A u \in Thread : step[u] = "blocked" => step'[u] = "blocked"
  <2>1. UNCHANGED step \/ \E u \in Notifier : \E v : Goto(u, v) /\ step[u] # "blocked"
    BY <1>s, Apart DEF Begins, DataReceived, LinkTerminated, DeviceConnected, onScanFinished,
       onComDestory, Callback, Event, Device, EventJoined, LookUpDevice, ComLocked, ComEnds,
       TaskJoined, DeinitEnds, vars
  <2> QED
    BY <2>1, GotoFacts, Apart
<1>1. CASE Begins \/ Event \/ Device \/ TaskJoined \/ DeinitEnds \/ UNCHANGED vars
  <2>1. Silent
    BY <1>1 DEF Silent, Task, Owner
  <2>2. UNCHANGED <<mMsgQ, serving>>
    BY <1>1 DEF Begins, DataReceived, LinkTerminated, DeviceConnected, onScanFinished,
       onComDestory, Callback, Event, Device, EventJoined, LookUpDevice, ComLocked, ComEnds,
       TaskJoined, DeinitEnds, vars, commandVars
  <2> QED
    BY <1>1, <1>s, <2>1, <2>2, SilentSteady, CommandsStay
<1>2. CASE Client
  <2>1. ASSUME NEW do \in Work, ClientCommand(do) PROVE CommandOK'
    BY <2>1, AppendCommand DEF ClientCommand
  <2>2. CASE setWorkMode \/ \E l \in Listener :
                registerListener(l) \/ unRegisterListener(l) \/ ListenerGone(l)
    BY <2>2, CommandsStay DEF setWorkMode, registerListener, unRegisterListener, ListenerGone,
       commandVars
  <2> QED
    BY <1>2, <2>1, <2>2 DEF Client
<1>3. CASE TakeCommand
  BY <1>3, TakeKeepsCommands
<1>4. CASE EndCommand
  <2>1. UNCHANGED mMsgQ /\ serving' = None
    BY <1>4 DEF EndCommand
  <2>2. \A i \in 1..Len(mMsgQ) : mMsgQ[i].of \in Thread \cup {None}
    <3>1. \A i \in 1..Len(mMsgQ) : mMsgQ[i] \in Command
      BY ElementOfSeq DEF CommandOK
    <3> QED
      BY <3>1 DEF Command
  <2>3. \A u \in Thread : step[u] = "blocked" /\ u # serving => step'[u] = "blocked"
    BY <1>4, WakeFacts
  <2> QED
    BY <2>1, <2>2, <2>3 DEF CommandOK
<1>5. CASE deinit \/ SendExit
  <2>1. /\ \E do \in {"disconnect", "exit"} : Push(do, None)
        /\ UNCHANGED serving /\ step["owner"] # "blocked" /\ \E s : Goto("owner", s)
    BY <1>5 DEF deinit, SendExit
  <2>2. \A u \in Thread : step[u] = "blocked" => step'[u] = "blocked"
    BY <2>1, GotoFacts, Apart
  <2> QED
    BY <2>1, <2>2, AppendCommand DEF Work
<1>6. CASE DiscardAll
  <2>1. mMsgQ' = <<>> /\ UNCHANGED serving /\ step["owner"] = "waiting"
    BY <1>6 DEF DiscardAll
  <2>2. \E s : Goto("owner", s)
    BY <1>6 DEF DiscardAll, Discards
  <2>3. \A u \in Thread : step[u] = "blocked" => step'[u] = "blocked"
    BY <2>1, <2>2, GotoFacts, Apart
  <2>4. mMsgQ' \in Seq(Command) /\ Len(mMsgQ') = 0
    BY <2>1
  <2> QED
    BY <2>1, <2>3, <2>4 DEF CommandOK
<1>7. ASSUME NEW t \in Thread, CallsHub(t) PROVE CommandOK'
  <2>1. step[t] = "asks" /\ UNCHANGED serving /\ t # None
    BY <1>7, Apart DEF CallsHub
  <2>2. CASE Goto(t, Resumed(t)) /\ UNCHANGED mMsgQ
    <3>1. \A u \in Thread : step[u] = "blocked" => step'[u] = "blocked"
      BY <2>1, <2>2, GotoFacts
    <3> QED
      BY <2>1, <2>2, <3>1, CommandsStay
  <2>3. CASE Goto(t, "blocked") /\ \E do \in Work : Push(do, t)
    <3>1. step'[t] = "blocked" /\ \A u \in Thread : step[u] = "blocked" => step'[u] = "blocked"
      BY <2>3, GotoFacts
    <3> QED
      BY <2>1, <2>3, <3>1, AppendCommand
  <2> QED
    BY <1>7, <2>2, <2>3 DEF CallsHub
<1>8. ASSUME NEW p \in Poller, RunNext(p) \/ (Pop(p) /\ mPollMsgQ = <<>>) PROVE CommandOK'
  <2>1. /\ UNCHANGED <<mMsgQ, serving>> /\ step[p] # "blocked"
        /\ \E s : Goto(p, s)
    BY <1>8 DEF RunNext, Pop, commandVars
  <2>2. \A u \in Thread : step[u] = "blocked" => step'[u] = "blocked"
    BY <2>1, GotoFacts, Apart
  <2> QED
    BY <2>1, <2>2, CommandsStay
<1>9. CASE Loud
  <2>1. ASSUME NEW t \in Notifier, Notify(t) \/ Queue(t) \/ CallListener(t) \/ Release(t)
        PROVE  CommandOK'
    BY <2>1, LoudNotifier, CommandsStay DEF commandVars
  <2>2. ASSUME NEW p \in Poller,
               RunBegin(p) \/ Deliver(p) \/ RunEnd(p) \/ (Pop(p) /\ mPollMsgQ # <<>>)
        PROVE  CommandOK'
    BY <2>2, LoudPoller, CommandsStay DEF commandVars
  <2> QED
    BY <1>9, <2>1, <2>2 DEF Loud
<1> QED
  BY <1>1, <1>2, <1>3, <1>4, <1>5, <1>6, <1>7, <1>8, <1>9, Steps DEF Silent, Task, Owner
-----------------------------------------------------------------------------
\* A listener that hears one message hears the others as before.
LEMMA HearsFacts ==
    ASSUME CountOK, NEW l \in Listener, NEW n, Hears(l, n)
    PROVE  /\ \A k \in Listener : k # l => heard'[k] = heard[k]
           /\ heard'[l] = n \/ heard'[l] = heard[l]
BY DEF Hears, CountOK

\* A listener that is told of is registered, and the notification was made.
LEMMA CallFacts ==
    ASSUME LockOK, TodoOK, NowOK, CountOK, ClientOK, NEW t \in Notifier, CallListener(t)
    PROVE  \E l \in todo[t] : /\ l \in Listener /\ l \in mListeners
                              /\ todo' = [todo EXCEPT ![t] = @ \ {l}]
                              /\ Hears(l, now[t]) /\ now[t] \in 1..notices
<1>1. PICK l \in todo[t] : todo' = [todo EXCEPT ![t] = @ \ {l}] /\ Hears(l, now[t])
  BY DEF CallListener
<1>2. now[t] \in 1..notices
  BY <1>1 DEF NowOK
<1> QED
  BY <1>1, <1>2 DEF TodoOK, ClientOK

\* The counters.
LEMMA CountKept ==
    ASSUME StepOK, CommandOK, CountOK, ClientOK, LockOK, TodoOK, NowOK, [Next]_vars
    PROVE  CountOK'
<1>c. ASSUME begun' \in 0..MaxNotices, discards' \in [Notifier -> 0..MaxNotices],
             UNCHANGED <<notices, heard>>
      PROVE  CountOK'
  BY <1>c DEF CountOK
<1>n. notices \in Nat /\ begun \in 0..MaxNotices /\ discards \in [Notifier -> 0..MaxNotices]
  BY DEF CountOK
<1>1. CASE Silent
  <2>1. UNCHANGED <<notices, heard>>
    BY <1>1, SilentUnchanged
  <2>2. CASE \/ Client \/ EventJoined \/ ComLocked \/ ComEnds \/ TaskJoined \/ EndCommand
             \/ deinit \/ SendExit \/ DeinitEnds \/ UNCHANGED vars
    <3>1. UNCHANGED <<begun, discards>>
      BY <2>2 DEF Client, registerListener, unRegisterListener, ListenerGone, setWorkMode,
         ClientCommand, EventJoined, ComLocked, ComEnds, TaskJoined, EndCommand, deinit,
         SendExit, DeinitEnds, vars, countVars
    <3> QED
      BY <2>1, <3>1, <1>c, <1>n
  <2>3. CASE Begins \/ LookUpDevice("event") \/ LookUpDevice("device")
    <3>1. UNCHANGED discards /\ (UNCHANGED begun \/ Counted(1))
      BY <2>3 DEF Begins, DataReceived, LinkTerminated, DeviceConnected, onScanFinished,
         onComDestory, Callback, LookUpDevice
    <3>2. begun' \in 0..MaxNotices
      BY <3>1, <1>n, Apart DEF Counted
    <3> QED
      BY <2>1, <3>1, <3>2, <1>c, <1>n
  <2>4. CASE TakeCommand
    BY <2>1, <2>4, <1>c, TakeFacts
  <2>5. CASE DiscardAll
    BY <2>1, <2>5, <1>c, DiscardsFacts, Apart DEF DiscardAll
  <2>6. CASE \/ \E t \in Thread : CallsHub(t)
             \/ \E p \in Poller : RunNext(p) \/ (Pop(p) /\ mPollMsgQ = <<>>)
    <3>1. UNCHANGED <<begun, discards>>
      BY <2>6 DEF CallsHub, RunNext, Pop, countVars
    <3> QED
      BY <2>1, <3>1, <1>c, <1>n
  <2> QED
    BY <1>1, <2>2, <2>3, <2>4, <2>5, <2>6 DEF Silent, Event, Device, Task, Owner
<1>2. ASSUME NEW t \in Notifier, Notify(t) PROVE CountOK'
  <2>1. notices' = notices + 1 /\ UNCHANGED <<heard, begun, discards>>
    BY <1>2 DEF Notify, countVars
  <2>2. heard \in [Listener -> 0..notices + 1]
    BY <1>n DEF CountOK
  <2> QED
    BY <2>1, <2>2, <1>n DEF CountOK
<1>3. ASSUME NEW t \in Notifier, Queue(t) \/ Release(t) PROVE CountOK'
  <2>1. UNCHANGED <<notices, heard, begun>>
    BY <1>3 DEF Queue, Release, countVars
  <2>2. discards' \in [Notifier -> 0..MaxNotices]
    <3>1. CASE Release(t)
      <4>1. (IF discards[t] > 0 THEN discards[t] - 1 ELSE 0) \in 0..MaxNotices
        BY <1>n, Apart
      <4> QED
        BY <3>1, <4>1, <1>n DEF Release
    <3>2. CASE Queue(t)
      BY <3>2, <1>n DEF Queue, countVars
    <3> QED
      BY <1>3, <3>1, <3>2
  <2> QED
    BY <2>1, <2>2, <1>c, <1>n
<1>4. ASSUME NEW t \in Notifier, CallListener(t) PROVE CountOK'
  <2>1. UNCHANGED <<notices, begun, discards>>
    BY <1>4 DEF CallListener, countVars
  <2>2. PICK l \in todo[t] : Hears(l, now[t]) /\ now[t] \in 1..notices
    BY <1>4, CallFacts
  <2>3. heard' = [heard EXCEPT ![l] = IF l \in alive THEN now[t] ELSE @]
    BY <2>2 DEF Hears
  <2>4. now[t] \in 0..notices
    BY <2>2, <1>n
  <2> QED
    BY <2>1, <2>3, <2>4 DEF CountOK
<1>5. ASSUME NEW p \in Poller, RunBegin(p) \/ RunEnd(p) \/ (Pop(p) /\ mPollMsgQ # <<>>)
      PROVE  CountOK'
  BY <1>5, <1>c, <1>n DEF RunBegin, RunEnd, Pop, countVars, tellVars
<1>6. ASSUME NEW p \in Poller, Deliver(p) PROVE CountOK'
  <2>1. UNCHANGED <<notices, begun, discards>>
    BY <1>6 DEF Deliver, countVars
  <2>2. now[p].n \in 0..notices
    BY <1>6, <1>n DEF NowOK, Deliver
  <2>3. heard' = [heard EXCEPT ![now[p].to] = IF now[p].to \in alive THEN now[p].n ELSE @]
    BY <1>6 DEF Deliver, Hears
  <2> QED
    BY <2>1, <2>2, <2>3 DEF CountOK
<1> QED
  BY <1>1, <1>2, <1>3, <1>4, <1>5, <1>6, Steps DEF Loud

\* The thread that tells listeners is the one with their lock.
LEMMA LockKept == ASSUME StepOK, CommandOK, CountOK, LockOK, [Next]_vars PROVE LockOK'
<1>1. CASE Silent
  <2>1. UNCHANGED mMutexListeners /\ Steady
    BY <1>1, SilentUnchanged, SilentSteady
  <2>2. \A t \in Notifier :
           step'[t] \in {"queueing"} \cup Calling <=> step[t] \in {"queueing"} \cup Calling
    BY <2>1 DEF Steady, Free, Calling
  <2>3. mTaskMutex' \in {"event", "task", "owner", None}
    BY <1>1, TakeFacts DEF LockOK, Silent, Client, registerListener, unRegisterListener,
       ListenerGone, setWorkMode, ClientCommand, Begins, DataReceived, LinkTerminated,
       DeviceConnected, onScanFinished, onComDestory, Callback, Event, Device, EventJoined,
       LookUpDevice, ComLocked, ComEnds, Task, TaskJoined, EndCommand, deinit, Owner,
       SendExit, DiscardAll, DeinitEnds, CallsHub, RunNext, Pop, vars, commandVars
  <2> QED
    BY <2>1, <2>2, <2>3 DEF LockOK
<1>2. ASSUME NEW t \in Notifier, Notify(t) \/ Queue(t) \/ CallListener(t) \/ Release(t)
      PROVE  LockOK'
  <2>1. /\ UNCHANGED mTaskMutex
        /\ \A u \in Thread : u # t => step'[u] = step[u]
    BY <1>2, LoudNotifier DEF commandVars
  <2>2. CASE Notify(t)
    <3>1. mMutexListeners = None /\ mMutexListeners' = t /\ step'[t] \in {"queueing", "calling"}
      BY <2>2, GotoFacts, Apart DEF Notify
    <3> QED
      BY <2>1, <3>1, Apart DEF LockOK, Calling
  <2>3. CASE Queue(t)
    BY <2>3 DEF Queue, LockOK, commandVars
  <2>4. CASE CallListener(t)
    <3>1. UNCHANGED mMutexListeners /\ step[t] \in Calling /\ step'[t] \in Calling
      BY <2>4, GotoFacts, Apart DEF CallListener, Calling
    <3> QED
      BY <2>1, <3>1, Apart DEF LockOK
  <2>5. CASE Release(t)
    <3>1. /\ mMutexListeners' = None /\ step[t] \in {"queueing", "calling"}
          /\ step'[t] \in {"idle", "notify", "joining", "told"}
      BY <2>5, GotoFacts, Apart DEF Release, Told
    <3> QED
      BY <2>1, <3>1, Apart DEF LockOK, Calling
  <2> QED
    BY <1>2, <2>2, <2>3, <2>4, <2>5
<1>3. ASSUME NEW p \in Poller,
             RunBegin(p) \/ Deliver(p) \/ RunEnd(p) \/ (Pop(p) /\ mPollMsgQ # <<>>)
      PROVE  LockOK'
  BY <1>3, LoudPoller, Apart DEF LockOK, commandVars
<1> QED
  BY <1>1, <1>2, <1>3, Steps DEF Loud

\* A listener that is to be told is registered, for nobody can unregister while the
\* listeners are told.
LEMMA TodoKept ==
    ASSUME StepOK, LockOK, ClientOK, TodoOK, [Next]_vars PROVE TodoOK'
<1>1. CASE Silent
  <2>1. UNCHANGED <<todo, mMutexListeners>>
    BY <1>1, SilentUnchanged
  <2>2. CASE mListeners' = mListeners
    BY <2>1, <2>2 DEF TodoOK
  <2>3. CASE mMutexListeners = None
    <3>1. \A t \in Notifier : todo[t] = {}
      BY <2>3, Apart DEF TodoOK
    <3> QED
      BY <2>1, <3>1 DEF TodoOK
  <2> QED
    BY <1>1, <2>2, <2>3, SilentUnchanged
<1>2. ASSUME NEW t \in Notifier, Notify(t) PROVE TodoOK'
  <2>1. /\ mMutexListeners = None /\ mMutexListeners' = t /\ UNCHANGED mListeners
        /\ todo' = [todo EXCEPT ![t] = mListeners]
    BY <1>2 DEF Notify, clientVars
  <2> QED
    BY <2>1, Apart DEF TodoOK, ClientOK
<1>3. ASSUME NEW t \in Notifier, Queue(t) \/ CallListener(t) PROVE TodoOK'
  <2>1. UNCHANGED <<mListeners, mMutexListeners>> /\ \E l : todo' = [todo EXCEPT ![t] = @ \ {l}]
    BY <1>3 DEF Queue, CallListener, clientVars
  <2> QED
    BY <2>1 DEF TodoOK
<1>4. ASSUME NEW t \in Notifier, Release(t) PROVE TodoOK'
  <2>1. UNCHANGED <<mListeners, todo>> /\ todo[t] = {} /\ mMutexListeners = t
    BY <1>4 DEF Release, clientVars, LockOK, Calling
  <2> QED
    BY <2>1 DEF TodoOK
<1>5. ASSUME NEW p \in Poller,
             RunBegin(p) \/ Deliver(p) \/ RunEnd(p) \/ (Pop(p) /\ mPollMsgQ # <<>>)
      PROVE  TodoOK'
  <2>1. UNCHANGED <<mListeners, mMutexListeners, todo>>
    BY <1>5, LoudPoller DEF clientVars
  <2> QED
    BY <2>1 DEF TodoOK
<1> QED
  BY <1>1, <1>2, <1>3, <1>4, <1>5, Steps DEF Loud
-----------------------------------------------------------------------------
\* Every waiting message is one of a notification that was made.
LEMMA MessagesAre ==
    ASSUME PollOK, CountOK
    PROVE  \A i \in 1..Len(mPollMsgQ) :
              /\ mPollMsgQ[i] \in Message /\ mPollMsgQ[i].to \in Listener
              /\ mPollMsgQ[i].n \in Nat /\ 1 <= mPollMsgQ[i].n /\ mPollMsgQ[i].n <= notices
<1>1. \A i \in 1..Len(mPollMsgQ) : mPollMsgQ[i] \in Message
  BY ElementOfSeq DEF PollOK
<1>2. \A m \in Message : m.n \in Nat /\ m.to \in Listener
  BY DEF Message
<1>3. \A i \in 1..Len(mPollMsgQ) : mPollMsgQ[i].n \in 1..notices
  BY DEF PollOK
<1> QED
  BY <1>1, <1>2, <1>3 DEF CountOK

\* The oldest message and the rest.
LEMMA PollFacts ==
    ASSUME PollOK, mPollMsgQ # <<>>
    PROVE  /\ Len(mPollMsgQ) \in Nat \ {0} /\ 1 \in 1..Len(mPollMsgQ)
           /\ Head(mPollMsgQ) = mPollMsgQ[1] /\ Head(mPollMsgQ) \in Message
           /\ Tail(mPollMsgQ) \in Seq(Message)
           /\ \A i \in 1..Len(Tail(mPollMsgQ)) :
                 /\ i + 1 \in 1..Len(mPollMsgQ) /\ 1 < i + 1
                 /\ Tail(mPollMsgQ)[i] = mPollMsgQ[i + 1]
<1>1. mPollMsgQ \in Seq(Message) /\ Len(mPollMsgQ) \in Nat \ {0}
  BY EmptySeq DEF PollOK
<1> QED
  BY <1>1, HeadTailProperties

\* The message for a listener comes behind those that wait.
LEMMA QueueFacts ==
    ASSUME PollOK, CountOK, TodoOK, NowOK, NEW t \in Notifier, NEW l \in todo[t],
           mPollMsgQ' = Append(mPollMsgQ, [to |-> l, n |-> now[t]])
    PROVE  /\ l \in Listener /\ now[t] \in 1..notices
           /\ mPollMsgQ' \in Seq(Message) /\ Len(mPollMsgQ) \in Nat
           /\ Len(mPollMsgQ') = Len(mPollMsgQ) + 1
           /\ \A i \in 1..Len(mPollMsgQ) : mPollMsgQ'[i] = mPollMsgQ[i]
           /\ \A i \in 1..Len(mPollMsgQ') : i \in 1..Len(mPollMsgQ) \/ i = Len(mPollMsgQ) + 1
           /\ mPollMsgQ'[Len(mPollMsgQ) + 1].to = l
           /\ mPollMsgQ'[Len(mPollMsgQ) + 1].n = now[t]
<1> DEFINE m == [to |-> l, n |-> now[t]]
<1>1. l \in Listener /\ now[t] \in 1..notices
  BY DEF TodoOK, NowOK
<1>2. now[t] \in Nat
  BY <1>1 DEF CountOK
<1>3. m \in Message /\ m.to = l /\ m.n = now[t]
  BY <1>1, <1>2 DEF Message
<1>4. mPollMsgQ \in Seq(Message) /\ mPollMsgQ' = Append(mPollMsgQ, m)
  BY DEF PollOK
<1> HIDE DEF m
<1>5. /\ mPollMsgQ' \in Seq(Message)
      /\ Len(mPollMsgQ') = Len(mPollMsgQ) + 1 /\ Len(mPollMsgQ) \in Nat
      /\ \A i \in 1..Len(mPollMsgQ) : mPollMsgQ'[i] = mPollMsgQ[i]
      /\ mPollMsgQ'[Len(mPollMsgQ) + 1] = m
  BY <1>3, <1>4, AppendProperties, LenProperties
<1>6. \A i \in 1..Len(mPollMsgQ') : i \in 1..Len(mPollMsgQ) \/ i = Len(mPollMsgQ) + 1
  BY <1>5
<1> QED
  BY <1>1, <1>3, <1>5, <1>6

\* Who is in run stays in it.
LEMMA PollersStay ==
    ASSUME PollOK, UNCHANGED mPolling,
           \A p \in Poller : step'[p] # "idle" <=> step[p] # "idle"
    PROVE  /\ mPolling' = \E u \in Poller : step'[u] # "idle"
           /\ \A u, v \in Poller : step'[u] # "idle" /\ step'[v] # "idle" => u = v
BY DEF PollOK

\* One poller at most is in run, as mPolling says, and what is queued for the
\* pollers has been notified.
LEMMA PollKept ==
    ASSUME StepOK, CommandOK, CountOK, PollOK, TodoOK, NowOK, [Next]_vars PROVE PollOK'
<1>n. notices \in Nat
  BY DEF CountOK
<1>1. CASE Silent
  <2>1. UNCHANGED <<mPollMsgQ, mPolling, notices>> /\ Steady
    BY <1>1, SilentUnchanged, SilentSteady
  <2>2. \A p \in Poller : step'[p] # "idle" <=> step[p] # "idle"
    BY <2>1 DEF Steady, Busy
  <2> QED
    BY <2>1, <2>2, PollersStay DEF PollOK
<1>2. ASSUME NEW t \in Notifier, Notify(t) \/ Queue(t) \/ CallListener(t) \/ Release(t)
      PROVE  PollOK'
  <2>1. UNCHANGED mPolling /\ \A p \in Poller : step'[p] # "idle" <=> step[p] # "idle"
    BY <1>2, LoudNotifier, Apart
  <2>2. mPollMsgQ' \in Seq(Message) /\ \A i \in 1..Len(mPollMsgQ') : mPollMsgQ'[i].n \in 1..notices'
    <3>1. CASE Notify(t)
      <4>1. notices' = notices + 1 /\ UNCHANGED mPollMsgQ
        BY <3>1 DEF Notify, pollVars
      <4> QED
        BY <4>1, <1>n DEF PollOK
    <3>2. CASE Queue(t)
      <4>1. /\ UNCHANGED notices
            /\ \E l \in todo[t] : mPollMsgQ' = Append(mPollMsgQ, [to |-> l, n |-> now[t]])
        BY <3>2 DEF Queue
      <4>2. PICK l \in todo[t] : mPollMsgQ' = Append(mPollMsgQ, [to |-> l, n |-> now[t]])
        BY <4>1
      <4>3. /\ mPollMsgQ' \in Seq(Message) /\ now[t] \in 1..notices
            /\ \A i \in 1..Len(mPollMsgQ) : mPollMsgQ'[i] = mPollMsgQ[i]
            /\ \A i \in 1..Len(mPollMsgQ') : i \in 1..Len(mPollMsgQ) \/ i = Len(mPollMsgQ) + 1
            /\ mPollMsgQ'[Len(mPollMsgQ) + 1].n = now[t]
        BY <4>2, QueueFacts
      <4>4. \A i \in 1..Len(mPollMsgQ) : mPollMsgQ[i].n \in 1..notices
        BY DEF PollOK
      <4> QED
        BY <4>1, <4>3, <4>4
    <3>3. CASE CallListener(t) \/ Release(t)
      <4>1. UNCHANGED <<mPollMsgQ, notices>>
        BY <3>3 DEF CallListener, Release, pollVars
      <4> QED
        BY <4>1 DEF PollOK
    <3> QED
      BY <1>2, <3>1, <3>2, <3>3
  <2> QED
    BY <2>1, <2>2, PollersStay DEF PollOK
<1>3. ASSUME NEW p \in Poller, RunBegin(p) PROVE PollOK'
  <2>1. \A u \in Poller : step[u] = "idle"
    BY <1>3 DEF RunBegin, MayPoll, PollOK
  <2>2. /\ mPolling' = TRUE /\ UNCHANGED <<mPollMsgQ, notices>>
        /\ step'[p] = "poll" /\ \A u \in Poller : u # p => step'[u] = step[u]
    BY <1>3, GotoFacts, Apart DEF RunBegin, tellVars
  <2> QED
    BY <2>1, <2>2 DEF PollOK
<1>4. ASSUME NEW p \in Poller, Pop(p), mPollMsgQ # <<>> PROVE PollOK'
  <2>1. /\ mPollMsgQ' = Tail(mPollMsgQ) /\ UNCHANGED <<mPolling, notices>>
        /\ step[p] = "poll" /\ Goto(p, "popped")
    BY <1>4 DEF Pop
  <2>2. \A i \in 1..Len(mPollMsgQ') : mPollMsgQ'[i].n \in 1..notices
    BY <2>1, <1>4, PollFacts DEF PollOK
  <2>3. \A u \in Poller : step'[u] # "idle" <=> step[u] # "idle"
    BY <2>1, GotoFacts, Apart
  <2> QED
    BY <2>1, <2>2, <2>3, <1>4, PollFacts, PollersStay DEF PollOK
<1>5. ASSUME NEW p \in Poller, Deliver(p) PROVE PollOK'
  <2>1. /\ UNCHANGED <<mPollMsgQ, mPolling, notices>> /\ step[p] = "popped"
        /\ \E s \in {"next", "asks"} : Goto(p, s)
    BY <1>5 DEF Deliver, pollVars
  <2>2. \A u \in Poller : step'[u] # "idle" <=> step[u] # "idle"
    BY <2>1, GotoFacts, Apart
  <2> QED
    BY <2>1, <2>2, PollersStay DEF PollOK
<1>6. ASSUME NEW p \in Poller, RunEnd(p) PROVE PollOK'
  <2>1. /\ mPolling' = FALSE /\ UNCHANGED <<mPollMsgQ, notices>> /\ step[p] # "idle"
        /\ step'[p] = "idle" /\ \A u \in Poller : u # p => step'[u] = step[u]
    BY <1>6, GotoFacts, Apart DEF RunEnd, tellVars
  <2> QED
    BY <2>1 DEF PollOK
<1> QED
  BY <1>1, <1>2, <1>3, <1>4, <1>5, <1>6, Steps DEF Loud
-----------------------------------------------------------------------------
\* What the thread that moves holds changes, what the others hold does not.
LEMMA NowMoves ==
    ASSUME NowOK, StepOK, NEW t \in Thread, NEW s, Goto(t, s), NEW m,
           now' = [now EXCEPT ![t] = m]
    PROVE  /\ now' = [u \in Thread |-> now'[u]] /\ now'[t] = m
           /\ \A u \in Thread : u # t => now'[u] = now[u] /\ step'[u] = step[u]
           /\ step'[t] = s
<1>1. now = [u \in Thread |-> now[u]]
  BY DEF NowOK
<1>2. now' = [u \in Thread |-> IF u = t THEN m ELSE now[u]]
  BY <1>1
<1> QED
  BY <1>2, GotoFacts

\* Each thread holds a notification that was made, and a poller only a popped one.
LEMMA NowKept ==
    ASSUME StepOK, CommandOK, CountOK, ClientOK, PollOK, TodoOK, NowOK, [Next]_vars
    PROVE  NowOK'
<1>n. notices \in Nat
  BY DEF CountOK
<1>1. CASE Silent
  <2>1. UNCHANGED <<now, todo, notices>> /\ Steady
    BY <1>1, SilentUnchanged, SilentSteady
  <2>2. \A p \in Poller : step'[p] = "popped" <=> step[p] = "popped"
    BY <2>1 DEF Steady, Busy
  <2> QED
    BY <2>1, <2>2 DEF NowOK
<1>2. ASSUME NEW t \in Notifier, Notify(t) PROVE NowOK'
  <2>0. t \in Thread
    BY Apart
  <2>1. /\ now' = [now EXCEPT ![t] = notices + 1] /\ notices' = notices + 1
        /\ todo' = [todo EXCEPT ![t] = mListeners] /\ \E s : Goto(t, s)
    BY <1>2 DEF Notify
  <2>2. /\ now' = [u \in Thread |-> now'[u]] /\ now'[t] = notices + 1
        /\ \A u \in Thread : u # t => now'[u] = now[u] /\ step'[u] = step[u]
    BY <2>0, <2>1, NowMoves
  <2>3. \A u \in Notifier : u # t => todo'[u] = todo[u]
    BY <2>1 DEF TodoOK
  <2>4. \A u \in Notifier : \/ now'[u] = None /\ todo'[u] = {}
                            \/ now'[u] \in 1..notices'
    BY <2>1, <2>2, <2>3, <1>n, Apart DEF NowOK
  <2>5. \A u \in Poller : now'[u] = now[u] /\ step'[u] = step[u]
    BY <2>2, Apart
  <2>6. \A u \in Poller :
           \/ step'[u] # "popped" /\ now'[u] = None
           \/ step'[u] = "popped" /\ now'[u] \in Message /\ now'[u].n \in 1..notices'
    BY <2>1, <2>5, <1>n DEF NowOK
  <2> QED
    BY <2>2, <2>4, <2>6 DEF NowOK
<1>3. ASSUME NEW t \in Notifier, Queue(t) \/ CallListener(t) PROVE NowOK'
  <2>1. \A p \in Poller : step'[p] = step[p]
    BY <1>3, LoudNotifier, Apart
  <2>2. UNCHANGED <<now, notices>> /\ \A u \in Notifier : todo'[u] \subseteq todo[u]
    BY <1>3 DEF Queue, CallListener, TodoOK
  <2> QED
    BY <2>1, <2>2 DEF NowOK
<1>4. ASSUME NEW t \in Notifier, Release(t) PROVE NowOK'
  <2>0. t \in Thread
    BY Apart
  <2>1. /\ now' = [now EXCEPT ![t] = None] /\ Goto(t, Told(t)) /\ todo[t] = {}
        /\ UNCHANGED <<todo, notices>>
    BY <1>4 DEF Release
  <2>2. /\ now' = [u \in Thread |-> now'[u]] /\ now'[t] = None
        /\ \A u \in Thread : u # t => now'[u] = now[u] /\ step'[u] = step[u]
    BY <2>0, <2>1, NowMoves
  <2> QED
    BY <2>1, <2>2, Apart DEF NowOK
<1>5. ASSUME NEW p \in Poller, RunBegin(p) \/ RunEnd(p) PROVE NowOK'
  <2>1. /\ UNCHANGED <<now, todo, notices>> /\ step[p] \in {"idle", "end"}
        /\ \E s \in {"poll", "idle"} : Goto(p, s)
    BY <1>5 DEF RunBegin, RunEnd, tellVars
  <2>2. \A u \in Poller : step'[u] = "popped" <=> step[u] = "popped"
    BY <2>1, GotoFacts, Apart
  <2> QED
    BY <2>1, <2>2 DEF NowOK
<1>6. ASSUME NEW p \in Poller, Pop(p), mPollMsgQ # <<>> PROVE NowOK'
  <2>0. p \in Thread
    BY Apart
  <2>1. /\ now' = [now EXCEPT ![p] = Head(mPollMsgQ)] /\ Goto(p, "popped")
        /\ UNCHANGED <<todo, notices>>
    BY <1>6 DEF Pop
  <2>2. /\ now' = [u \in Thread |-> now'[u]] /\ now'[p] = Head(mPollMsgQ)
        /\ \A u \in Thread : u # p => now'[u] = now[u] /\ step'[u] = step[u]
        /\ step'[p] = "popped"
    BY <2>0, <2>1, NowMoves
  <2>3. Head(mPollMsgQ) \in Message /\ Head(mPollMsgQ).n \in 1..notices
    BY <1>6, PollFacts DEF PollOK
  <2> QED
    BY <2>1, <2>2, <2>3, Apart DEF NowOK
<1>7. ASSUME NEW p \in Poller, Deliver(p) PROVE NowOK'
  <2>0. p \in Thread
    BY Apart
  <2>1. /\ now' = [now EXCEPT ![p] = None] /\ UNCHANGED <<todo, notices>>
        /\ \E s \in {"next", "asks"} : Goto(p, s)
    BY <1>7 DEF Deliver
  <2>2. /\ now' = [u \in Thread |-> now'[u]] /\ now'[p] = None
        /\ \A u \in Thread : u # p => now'[u] = now[u] /\ step'[u] = step[u]
        /\ step'[p] # "popped"
    BY <2>0, <2>1, NowMoves
  <2> QED
    BY <2>1, <2>2, Apart DEF NowOK
<1> QED
  BY <1>1, <1>2, <1>3, <1>4, <1>5, <1>6, <1>7, Steps DEF Loud
-----------------------------------------------------------------------------
\* Everything but the order.
Shape == ClientOK /\ StepOK /\ CommandOK /\ CountOK /\ LockOK /\ PollOK /\ TodoOK /\ NowOK

\* Only setWorkMode changes the mode.
LEMMA SilentMode == ASSUME Silent PROVE UNCHANGED <<mWorkMode, mixed>> \/ setWorkMode
<1>1. CASE Client \/ UNCHANGED vars
  BY <1>1 DEF Client, registerListener, unRegisterListener, ListenerGone, ClientCommand, vars,
     clientVars
<1>2. CASE Begins
  BY <1>2 DEF Begins, DataReceived, LinkTerminated, DeviceConnected, onScanFinished,
     onComDestory, Callback, clientVars
<1>3. CASE Event \/ Device
  BY <1>3 DEF Event, Device, EventJoined, LookUpDevice, ComLocked, ComEnds, clientVars
<1>4. CASE Task
  BY <1>4 DEF Task, TakeCommand, TaskJoined, EndCommand, clientVars
<1>5. CASE deinit \/ Owner
  BY <1>5 DEF deinit, Owner, SendExit, DiscardAll, DeinitEnds, clientVars
<1>6. ASSUME NEW t \in Thread, CallsHub(t) PROVE UNCHANGED <<mWorkMode, mixed>>
  BY <1>6 DEF CallsHub, clientVars
<1>7. ASSUME NEW p \in Poller, RunNext(p) \/ (Pop(p) /\ mPollMsgQ = <<>>)
      PROVE  UNCHANGED <<mWorkMode, mixed>>
  BY <1>7 DEF RunNext, Pop, clientVars
<1> QED
  BY <1>1, <1>2, <1>3, <1>4, <1>5, <1>6, <1>7 DEF Silent

\* Without a message for the pollers only what is told is left to order.
LEMMA OrderDrained ==
    ASSUME Drained', \A t \in Notifier : step'[t] # "queueing",
           \A t \in Notifier : \A l \in todo'[t] : heard'[l] < now'[t]
    PROVE  Order'
<1>1. mPollMsgQ' = <<>> /\ Len(mPollMsgQ') = 0 /\ \A p \in Poller : step'[p] # "popped"
  BY DEF Drained
<1> QED
  BY <1>1 DEF Order, InQueue, InHand, Modes, Ahead

\* Nobody notifies while another does.
LEMMA Alone ==
    ASSUME Shape, NEW t \in Notifier, step[t] \in {"queueing"} \cup Calling
    PROVE  /\ mMutexListeners = t
           /\ \A u \in Notifier : u # t => todo[u] = {} /\ step[u] \notin {"queueing"} \cup Calling
BY Apart DEF Shape, LockOK, TodoOK

\* A silent step disturbs no order; a change of the mode that is not noted finds nothing
\* that waits.
LEMMA OrderSilent == ASSUME Shape, Order, ~mixed', Silent PROVE Order'
<1>1. /\ UNCHANGED <<mMutexListeners, todo, now, notices, heard, mPollMsgQ>> /\ Steady
  BY SilentUnchanged, SilentSteady DEF Shape
<1>2. \A p \in Poller : step'[p] = "popped" <=> step[p] = "popped"
  BY <1>1 DEF Steady, Busy
<1>3. \A t \in Notifier : /\ step'[t] = "queueing" <=> step[t] = "queueing"
                          /\ step'[t] \in Calling <=> step[t] \in Calling
  BY <1>1 DEF Steady, Free, Calling
<1>4. CASE UNCHANGED <<mWorkMode, mixed>>
  <2>1. InQueue /\ InHand /\ Modes /\ Ahead
    BY <1>4 DEF Order
  <2>2. InQueue'
    BY <1>1, <2>1 DEF InQueue
  <2>3. InHand'
    BY <1>1, <1>2, <2>1 DEF InHand
  <2>4. Modes'
    BY <1>1, <1>2, <1>3, <1>4, <2>1 DEF Modes, Drained
  <2>5. Ahead'
    BY <1>1, <1>2, <2>1 DEF Ahead
  <2> QED
    BY <2>2, <2>3, <2>4, <2>5 DEF Order
<1>5. CASE setWorkMode
  <2>1. /\ ~mixed /\ mPollMsgQ = <<>> /\ \A p \in Poller : now[p] = None
        /\ \A t \in Notifier : step[t] # "queueing"
    BY <1>5, Zenon DEF setWorkMode
  <2>2. \A p \in Poller : step[p] # "popped"
    BY <2>1, Apart DEF Shape, NowOK
  <2>3. \A t \in Notifier : \A l \in todo[t] : heard[l] < now[t]
    BY <2>1 DEF Order, Ahead
  <2>4. Drained'
    BY <1>1, <1>2, <2>1, <2>2 DEF Drained
  <2> QED
    BY <1>1, <1>3, <2>1, <2>3, <2>4, OrderDrained
<1> QED
  BY <1>4, <1>5, SilentMode

\* What a listener is told next is newer than all it heard and all that waits.
LEMMA OrderNotify ==
    ASSUME Shape, Order, ~mixed, NEW t \in Notifier, Notify(t)
    PROVE  Order'
<1> USE DEF Shape
<1>n. notices \in Nat /\ notices' = notices + 1
  BY DEF CountOK, Notify
<1>1. /\ UNCHANGED <<heard, mWorkMode, mixed, mPollMsgQ>> /\ mMutexListeners = None
      /\ now' = [now EXCEPT ![t] = notices + 1] /\ todo' = [todo EXCEPT ![t] = mListeners]
      /\ Goto(t, IF mWorkMode = "Polling" THEN "queueing" ELSE "calling")
  BY DEF Notify, clientVars, pollVars
<1>2. /\ now'[t] = notices + 1
      /\ \A u \in Thread : u # t => now'[u] = now[u] /\ step'[u] = step[u]
      /\ step'[t] = IF mWorkMode = "Polling" THEN "queueing" ELSE "calling"
  BY <1>1, NowMoves, Apart
<1>3. \A u \in Notifier : todo[u] = {} /\ step[u] \notin {"queueing"} \cup Calling
  BY <1>1, Apart DEF TodoOK, LockOK
<1>4. todo'[t] = mListeners /\ \A u \in Notifier : u # t => todo'[u] = {}
  BY <1>1, <1>3 DEF TodoOK
<1>5. \A p \in Poller : now'[p] = now[p] /\ step'[p] = step[p]
  BY <1>2, Apart
<1>6. InQueue /\ InHand /\ Modes
  BY DEF Order
<1>7. InQueue'
  BY <1>1, <1>6 DEF InQueue
<1>8. InHand'
  BY <1>1, <1>5, <1>6 DEF InHand
<1>9. Modes'
  <2>1. mWorkMode \in {"Polling", "Freerun"}
    BY DEF ClientOK
  <2>2. CASE mWorkMode = "Polling"
    BY <1>1, <1>2, <1>3, <2>2, Apart DEF Modes, Calling
  <2>3. CASE mWorkMode = "Freerun"
    <3>1. Drained'
      BY <1>1, <1>5, <1>6, <2>3 DEF Modes, Drained
    <3>2. \A u \in Notifier : step'[u] # "queueing"
      BY <1>2, <1>3, <2>3, Apart
    <3> QED
      BY <3>1, <3>2 DEF Modes
  <2> QED
    BY <2>1, <2>2, <2>3
<1>10. ASSUME NEW l \in mListeners
       PROVE  /\ heard[l] < notices + 1
              /\ \A i \in 1..Len(mPollMsgQ) : mPollMsgQ[i].n < notices + 1
              /\ \A p \in Poller : step[p] = "popped" => now[p].n < notices + 1
  <2>1. heard[l] \in 0..notices
    BY DEF ClientOK, CountOK
  <2>2. \A i \in 1..Len(mPollMsgQ) : mPollMsgQ[i].n \in 1..notices
    BY DEF PollOK
  <2>3. \A p \in Poller : step[p] = "popped" => now[p].n \in 1..notices
    BY DEF NowOK
  <2> QED
    BY <1>n, <2>1, <2>2, <2>3
<1>11. Ahead'
  BY <1>1, <1>2, <1>4, <1>5, <1>10 DEF Ahead
<1> QED
  BY <1>7, <1>8, <1>9, <1>11 DEF Order

\* A message that is queued is newer than those before it.
LEMMA OrderQueue ==
    ASSUME Shape, Order, ~mixed, NEW t \in Notifier, Queue(t)
    PROVE  Order'
<1> USE DEF Shape
<1>1. /\ step[t] = "queueing" /\ UNCHANGED <<mWorkMode, now, heard, step>>
      /\ \E l \in todo[t] : /\ todo' = [todo EXCEPT ![t] = @ \ {l}]
                            /\ mPollMsgQ' = Append(mPollMsgQ, [to |-> l, n |-> now[t]])
  BY DEF Queue, clientVars
<1>2. PICK l \in todo[t] : /\ todo' = [todo EXCEPT ![t] = @ \ {l}]
                           /\ mPollMsgQ' = Append(mPollMsgQ, [to |-> l, n |-> now[t]])
  BY <1>1
<1>3. \A u \in Notifier : u # t => todo[u] = {} /\ step[u] \notin {"queueing"} \cup Calling
  BY <1>1, Alone
<1>4. /\ todo'[t] = todo[t] \ {l} /\ \A u \in Notifier : u # t => todo'[u] = {}
  BY <1>2, <1>3 DEF TodoOK
<1> DEFINE L == Len(mPollMsgQ)
<1>5. /\ L \in Nat /\ Len(mPollMsgQ') = L + 1
      /\ \A i \in 1..L : mPollMsgQ'[i] = mPollMsgQ[i]
      /\ \A i \in 1..L + 1 : i \in 1..L \/ i = L + 1
      /\ mPollMsgQ'[L + 1].to = l /\ mPollMsgQ'[L + 1].n = now[t]
  BY <1>2, QueueFacts
<1> HIDE DEF L
<1>6. /\ \A i, j \in 1..L :
            i < j /\ mPollMsgQ[i].to = mPollMsgQ[j].to => mPollMsgQ[i].n < mPollMsgQ[j].n
      /\ \A i \in 1..L : heard[mPollMsgQ[i].to] < mPollMsgQ[i].n
  BY DEF Order, InQueue, L
<1>7. /\ heard[l] < now[t]
      /\ \A i \in 1..L : mPollMsgQ[i].to = l => mPollMsgQ[i].n < now[t]
      /\ \A p \in Poller : step[p] = "popped" /\ now[p].to = l => now[p].n < now[t]
  BY DEF Order, Ahead, L
<1>8. ASSUME NEW i \in 1..L + 1, NEW j \in 1..L + 1, i < j, mPollMsgQ'[i].to = mPollMsgQ'[j].to
      PROVE  mPollMsgQ'[i].n < mPollMsgQ'[j].n
  <2>1. i \in 1..L
    BY <1>5, <1>8
  <2>2. CASE j \in 1..L
    BY <1>5, <1>6, <1>8, <2>1, <2>2
  <2>3. CASE j = L + 1
    BY <1>5, <1>7, <1>8, <2>1, <2>3
  <2> QED
    BY <1>5, <2>2, <2>3
<1>9. ASSUME NEW i \in 1..L + 1 PROVE heard[mPollMsgQ'[i].to] < mPollMsgQ'[i].n
  BY <1>5, <1>6, <1>7
<1>10. InQueue'
  BY <1>1, <1>5, <1>8, <1>9 DEF InQueue
<1>11. InHand'
  <2>1. ASSUME NEW p \in Poller, step[p] = "popped"
        PROVE  /\ heard[now[p].to] < now[p].n
               /\ \A i \in 1..L + 1 : mPollMsgQ'[i].to = now[p].to => now[p].n < mPollMsgQ'[i].n
    <3>1. /\ heard[now[p].to] < now[p].n
          /\ \A i \in 1..L : mPollMsgQ[i].to = now[p].to => now[p].n < mPollMsgQ[i].n
      BY <2>1 DEF Order, InHand, L
    <3> QED
      BY <1>5, <1>7, <2>1, <3>1
  <2> QED
    BY <1>1, <1>5, <2>1 DEF InHand
<1>12. Modes'
  <2>1. mWorkMode # "Freerun"
    BY <1>1 DEF Order, Modes
  <2>2. \A u \in Notifier : step'[u] \notin Calling
    BY <1>1, <1>3 DEF Calling
  <2> QED
    BY <1>1, <2>1, <2>2 DEF Modes
<1>13. Ahead'
  <2>1. ASSUME NEW k \in todo[t], k # l
        PROVE  /\ heard[k] < now[t]
               /\ \A i \in 1..L + 1 : mPollMsgQ'[i].to = k => mPollMsgQ'[i].n < now[t]
               /\ \A p \in Poller : step[p] = "popped" /\ now[p].to = k => now[p].n < now[t]
    <3>1. /\ heard[k] < now[t]
          /\ \A i \in 1..L : mPollMsgQ[i].to = k => mPollMsgQ[i].n < now[t]
          /\ \A p \in Poller : step[p] = "popped" /\ now[p].to = k => now[p].n < now[t]
      BY <2>1 DEF Order, Ahead, L
    <3> QED
      BY <1>5, <2>1, <3>1
  <2> QED
    BY <1>1, <1>4, <1>5, <2>1 DEF Ahead
<1> QED
  BY <1>10, <1>11, <1>12, <1>13 DEF Order

\* While listeners are called nothing waits for the pollers.
LEMMA OrderCall ==
    ASSUME Shape, Order, ~mixed, NEW t \in Notifier, CallListener(t)
    PROVE  Order'
<1> USE DEF Shape
<1>1. PICK l \in todo[t] : /\ l \in Listener /\ todo' = [todo EXCEPT ![t] = @ \ {l}]
                           /\ Hears(l, now[t])
  BY CallFacts
<1>2. /\ step[t] = "calling" /\ UNCHANGED <<mPollMsgQ, now>>
      /\ \E s \in {"calling", "asks", "registers"} : Goto(t, s)
  BY DEF CallListener, pollVars
<1>3. \A u \in Notifier : u # t => todo[u] = {} /\ step[u] \notin {"queueing"} \cup Calling
  BY <1>2, Alone DEF Calling
<1>4. Drained
  BY <1>2 DEF Order, Modes, Calling
<1>5. step'[t] # "queueing" /\ \A u \in Thread : u # t => step'[u] = step[u]
  BY <1>2, GotoFacts, Apart
<1>6. Drained' /\ \A u \in Notifier : step'[u] # "queueing"
  BY <1>2, <1>3, <1>4, <1>5, Apart DEF Drained
<1>7. \A k \in Listener : k # l => heard'[k] = heard[k]
  BY <1>1, HearsFacts
<1>8. /\ todo'[t] = todo[t] \ {l} /\ todo[t] \subseteq Listener
      /\ \A u \in Notifier : u # t => todo'[u] = {}
  BY <1>1, <1>3 DEF TodoOK
<1>9. \A u \in Notifier : \A k \in todo'[u] : heard'[k] < now'[u]
  BY <1>2, <1>7, <1>8 DEF Order, Ahead
<1> QED
  BY <1>6, <1>9, OrderDrained

\* Who has told everybody leaves nothing to tell.
LEMMA OrderRelease ==
    ASSUME Shape, Order, ~mixed, NEW t \in Notifier, Release(t)
    PROVE  Order'
<1> USE DEF Shape
<1>1. /\ todo[t] = {} /\ now' = [now EXCEPT ![t] = None]
      /\ step[t] \in {"queueing", "calling"} /\ Goto(t, Told(t))
      /\ UNCHANGED <<mWorkMode, mPollMsgQ, heard, todo>>
  BY DEF Release, clientVars, pollVars
<1>2. /\ \A u \in Thread : u # t => now'[u] = now[u] /\ step'[u] = step[u]
      /\ step'[t] \in Free
  <2>1. t \in Thread
    BY Apart
  <2>2. /\ \A u \in Thread : u # t => now'[u] = now[u] /\ step'[u] = step[u]
        /\ step'[t] = Told(t)
    BY <1>1, <2>1, NowMoves
  <2> QED
    BY <2>2 DEF Told, Free
<1>3. \A p \in Poller : now'[p] = now[p] /\ step'[p] = step[p]
  BY <1>2, Apart
<1>4. \A u \in Notifier : todo'[u] = {} /\ step'[u] \notin {"queueing"} \cup Calling
  BY <1>1, <1>2, Alone, Apart DEF Free, Calling
<1>5. InQueue /\ InHand /\ Modes
  BY DEF Order
<1>6. InQueue'
  BY <1>1, <1>5 DEF InQueue
<1>7. InHand'
  BY <1>1, <1>3, <1>5 DEF InHand
<1>8. Modes'
  BY <1>1, <1>3, <1>4, <1>5 DEF Modes, Drained
<1>9. Ahead'
  BY <1>4 DEF Ahead
<1> QED
  BY <1>6, <1>7, <1>8, <1>9 DEF Order

\* The oldest message is older than the rest.
LEMMA OrderPop ==
    ASSUME Shape, Order, ~mixed, NEW p \in Poller, Pop(p), mPollMsgQ # <<>>
    PROVE  Order'
<1> USE DEF Shape
<1>1. /\ now' = [now EXCEPT ![p] = Head(mPollMsgQ)] /\ Goto(p, "popped")
      /\ mPollMsgQ' = Tail(mPollMsgQ) /\ step[p] = "poll"
      /\ UNCHANGED <<todo, heard, mWorkMode>>
  BY DEF Pop, clientVars
<1>2. /\ now'[p] = Head(mPollMsgQ)
      /\ \A u \in Thread : u # p => now'[u] = now[u] /\ step'[u] = step[u]
  BY <1>1, NowMoves, Apart
<1>3. /\ 1 \in 1..Len(mPollMsgQ) /\ Head(mPollMsgQ) = mPollMsgQ[1]
      /\ \A i \in 1..Len(mPollMsgQ') :
            /\ i + 1 \in 1..Len(mPollMsgQ) /\ 1 < i + 1
            /\ mPollMsgQ'[i] = mPollMsgQ[i + 1]
      /\ \A i, j \in 1..Len(mPollMsgQ') : i < j => i + 1 < j + 1
  BY <1>1, PollFacts
<1>4. \A u \in Poller : step'[u] = "popped" => u = p
  BY <1>1, <1>2, Apart DEF PollOK
<1>5. mWorkMode # "Freerun" /\ \A t \in Notifier : step[t] \notin Calling
  BY DEF Order, Modes, Drained
<1>6. InQueue'
  <2>1. \A i, j \in 1..Len(mPollMsgQ') :
           i < j /\ mPollMsgQ'[i].to = mPollMsgQ'[j].to => mPollMsgQ'[i].n < mPollMsgQ'[j].n
    BY <1>3 DEF Order, InQueue
  <2>2. \A i \in 1..Len(mPollMsgQ') : heard'[mPollMsgQ'[i].to] < mPollMsgQ'[i].n
    BY <1>1, <1>3 DEF Order, InQueue
  <2> QED
    BY <2>1, <2>2 DEF InQueue
<1>7. /\ heard'[now'[p].to] < now'[p].n
      /\ \A i \in 1..Len(mPollMsgQ') :
            mPollMsgQ'[i].to = now'[p].to => now'[p].n < mPollMsgQ'[i].n
  BY <1>1, <1>2, <1>3 DEF Order, InQueue
<1>8. InHand'
  BY <1>4, <1>7 DEF InHand
<1>9. \A u \in Notifier : now'[u] = now[u] /\ step'[u] = step[u]
  BY <1>2, Apart
<1>10. Modes'
  BY <1>1, <1>5, <1>9 DEF Modes
<1>11. Ahead'
  <2>1. ASSUME NEW t \in Notifier, NEW l \in todo[t]
        PROVE  /\ heard[l] < now[t]
               /\ \A i \in 1..Len(mPollMsgQ') : mPollMsgQ'[i].to = l => mPollMsgQ'[i].n < now[t]
               /\ now'[p].to = l => now'[p].n < now[t]
    BY <1>2, <1>3 DEF Order, Ahead
  <2> QED
    BY <1>1, <1>4, <1>9, <2>1 DEF Ahead
<1> QED
  BY <1>6, <1>8, <1>10, <1>11 DEF Order

\* What the poller holds is older than what waits, and is heard first.
LEMMA OrderDeliver ==
    ASSUME Shape, Order, ~mixed, NEW p \in Poller, Deliver(p)
    PROVE  Order'
<1> USE DEF Shape
<1>1. /\ now' = [now EXCEPT ![p] = None] /\ step[p] = "popped"
      /\ Hears(now[p].to, now[p].n)
      /\ UNCHANGED <<mPollMsgQ, todo, mWorkMode>>
      /\ \E s \in {"next", "asks"} : Goto(p, s)
  BY DEF Deliver, clientVars, pollVars
<1>2. now[p] \in Message /\ now[p].to \in Listener
  BY <1>1 DEF NowOK, Message
<1>3. /\ \A u \in Poller : step'[u] # "popped"
      /\ \A u \in Notifier : now'[u] = now[u] /\ step'[u] = step[u]
  <2>1. /\ step'[p] \in {"next", "asks"}
        /\ \A u \in Thread : u # p => now'[u] = now[u] /\ step'[u] = step[u]
    BY <1>1, NowMoves, Apart
  <2>2. \A u \in Poller : u # p => step[u] = "idle"
    BY <1>1 DEF PollOK
  <2> QED
    BY <2>1, <2>2, Apart
<1>4. mWorkMode # "Freerun" /\ \A t \in Notifier : step[t] \notin Calling
  BY <1>1 DEF Order, Modes, Drained
<1>5. /\ \A k \in Listener : k # now[p].to => heard'[k] = heard[k]
      /\ heard'[now[p].to] = now[p].n \/ heard'[now[p].to] = heard[now[p].to]
  BY <1>1, <1>2, HearsFacts
<1>6. \A i \in 1..Len(mPollMsgQ) : mPollMsgQ[i].to \in Listener
  BY MessagesAre
<1>7. InQueue'
  <2>1. ASSUME NEW i \in 1..Len(mPollMsgQ)
        PROVE  heard'[mPollMsgQ[i].to] < mPollMsgQ[i].n
    <3>1. /\ heard[mPollMsgQ[i].to] < mPollMsgQ[i].n
          /\ mPollMsgQ[i].to = now[p].to => now[p].n < mPollMsgQ[i].n
      BY <1>1 DEF Order, InQueue, InHand
    <3> QED
      BY <1>5, <1>6, <3>1
  <2>2. \A i, j \in 1..Len(mPollMsgQ) :
           i < j /\ mPollMsgQ[i].to = mPollMsgQ[j].to => mPollMsgQ[i].n < mPollMsgQ[j].n
    BY DEF Order, InQueue
  <2> QED
    BY <1>1, <2>1, <2>2 DEF InQueue
<1>8. InHand'
  BY <1>3 DEF InHand
<1>9. Modes'
  BY <1>1, <1>3, <1>4 DEF Modes
<1>10. Ahead'
  <2>1. ASSUME NEW t \in Notifier, NEW l \in todo[t]
        PROVE  /\ heard'[l] < now[t]
               /\ \A i \in 1..Len(mPollMsgQ) : mPollMsgQ[i].to = l => mPollMsgQ[i].n < now[t]
    <3>1. /\ heard[l] < now[t] /\ now[p].to = l => now[p].n < now[t]
          /\ \A i \in 1..Len(mPollMsgQ) : mPollMsgQ[i].to = l => mPollMsgQ[i].n < now[t]
      BY <1>1 DEF Order, Ahead
    <3>2. l \in Listener
      BY DEF TodoOK
    <3> QED
      BY <1>1, <1>5, <3>1, <3>2 DEF Order, Ahead
  <2> QED
    BY <1>1, <1>3, <2>1 DEF Ahead
<1> QED
  BY <1>7, <1>8, <1>9, <1>10 DEF Order

\* A poller that comes or goes disturbs no order.
LEMMA OrderRun ==
    ASSUME Shape, Order, ~mixed, NEW p \in Poller, RunBegin(p) \/ RunEnd(p)
    PROVE  Order'
<1>1. /\ UNCHANGED <<mPollMsgQ, now, todo, heard, mWorkMode>>
      /\ step[p] \in {"idle", "end"} /\ \E s \in {"poll", "idle"} : Goto(p, s)
  BY DEF RunBegin, RunEnd, tellVars, clientVars
<1>2. /\ \A u \in Poller : step'[u] = "popped" <=> step[u] = "popped"
      /\ \A t \in Notifier : step'[t] = step[t]
  BY <1>1, GotoFacts, Apart DEF Shape
<1>3. InQueue /\ InHand /\ Modes /\ Ahead
  BY DEF Order
<1>4. InQueue'
  BY <1>1, <1>3 DEF InQueue
<1>5. InHand'
  BY <1>1, <1>2, <1>3 DEF InHand
<1>6. Modes'
  BY <1>1, <1>2, <1>3 DEF Modes, Drained
<1>7. Ahead'
  BY <1>1, <1>2, <1>3 DEF Ahead
<1> QED
  BY <1>4, <1>5, <1>6, <1>7 DEF Order

\* What waits, what is held and what was heard stay in order, as long as the mode
\* has not changed over messages that wait.
LEMMA OrderKept == ASSUME Shape, Order, [Next]_vars PROVE Order'
<1>1. CASE mixed'
  BY <1>1 DEF Order
<1>2. CASE ~mixed' /\ Silent
  BY <1>2, OrderSilent
<1>3. CASE ~mixed' /\ Loud
  <2>1. ~mixed
    BY <1>3, LoudNotifier, LoudPoller DEF Shape, Loud, clientVars
  <2> QED
    BY <1>3, <2>1, OrderNotify, OrderQueue, OrderCall, OrderRelease, OrderPop, OrderDeliver,
       OrderRun DEF Loud
<1> QED
  BY <1>1, <1>2, <1>3, Steps
-----------------------------------------------------------------------------
LEMMA InitShape == Init => Shape /\ Order
<1> SUFFICES ASSUME Init PROVE Shape /\ Order
  OBVIOUS
<1>a. \A t \in Thread : step[t] = "idle" /\ now[t] = None
  BY DEF Init
<1>b. \A t \in Notifier : todo[t] = {} /\ step[t] = "idle" /\ now[t] = None
  BY <1>a, Apart DEF Init
<1>c. \A p \in Poller : step[p] = "idle" /\ now[p] = None
  BY <1>a, Apart
<1>1. ClientOK
  <2>1. mixed \in BOOLEAN
    BY Zenon DEF Init
  <2> QED
    BY <2>1, Apart DEF Init, ClientOK
<1>2. StepOK
  <2>1. step = [t \in Thread |-> step[t]]
    BY DEF Init
  <2> QED
    BY <1>b, <1>c, <2>1 DEF StepOK, Free
<1>3. CommandOK
  BY DEF Init, CommandOK
<1>4. CountOK
  BY Apart DEF Init, CountOK
<1>5. LockOK
  BY <1>b, Apart DEF Init, LockOK, Calling
<1>6. PollOK
  <2>1. mPolling = \E p \in Poller : step[p] # "idle"
    BY <1>c DEF Init
  <2>2. mPollMsgQ \in Seq(Message) /\ Len(mPollMsgQ) = 0
    BY DEF Init
  <2> QED
    BY <1>c, <2>1, <2>2 DEF PollOK
<1>7. TodoOK
  BY <1>b DEF Init, TodoOK
<1>8. NowOK
  <2>1. now = [t \in Thread |-> now[t]]
    BY DEF Init
  <2> QED
    BY <1>b, <1>c, <2>1 DEF NowOK
<1>9. Order
  <2>1. InQueue /\ Drained
    BY <1>c DEF Init, InQueue, Drained
  <2> QED
    BY <1>b, <1>c, <2>1 DEF Order, InHand, Modes, Ahead, Calling
<1> QED
  BY <1>1, <1>2, <1>3, <1>4, <1>5, <1>6, <1>7, <1>8, <1>9 DEF Shape

\* The inductive invariant.
LEMMA DeliveryInvariant == Spec => [](Shape /\ Order)
<1>1. Shape /\ Order /\ [Next]_vars => (Shape /\ Order)'
  <2> SUFFICES ASSUME Shape, Order, [Next]_vars PROVE (Shape /\ Order)'
    OBVIOUS
  <2>1. /\ ClientOK /\ StepOK /\ CommandOK /\ CountOK /\ LockOK /\ PollOK /\ TodoOK /\ NowOK
    BY DEF Shape
  <2>2. ClientOK' /\ StepOK' /\ CommandOK' /\ CountOK' /\ LockOK' /\ PollOK' /\ TodoOK' /\ NowOK'
    BY <2>1, ClientKept, StepKept, CommandKept, CountKept, LockKept, PollKept, TodoKept, NowKept
  <2>3. Order'
    BY OrderKept
  <2> QED
    BY <2>2, <2>3 DEF Shape
<1> QED
  BY <1>1, InitShape, PTL DEF Spec

\* The variables of the delivery have their types in every reachable state, and
\* mPolling tells whether a thread is in run.
THEOREM TypeCorrect == Spec => []TypeOK
<1>1. Shape => TypeOK
  <2> SUFFICES ASSUME Shape PROVE TypeOK
    OBVIOUS
  <2> USE DEF Shape
  <2>1. step \in [Thread -> {"idle", "lookup", "gone", "join", "notify", "queueing", "calling",
                             "asks", "registers", "blocked", "told", "ended", "closing",
                             "waiting", "joining", "over", "poll", "popped", "next", "end"}]
    BY Apart DEF StepOK, Free, Calling, Busy
  <2>2. \A t \in Notifier : now[t] \in (1..notices) \cup {None}
    BY DEF NowOK
  <2>3. mPollMsgQ \in Seq([to : Listener, n : 1..notices])
    <3>1. \A i \in 1..Len(mPollMsgQ) : mPollMsgQ[i] \in [to : Listener, n : 1..notices]
      <4>1. \A m \in Message : m.n \in 1..notices => m \in [to : Listener, n : 1..notices]
        BY DEF Message
      <4> QED
        BY <4>1, MessagesAre DEF PollOK
    <3>2. mPollMsgQ = [i \in 1..Len(mPollMsgQ) |-> mPollMsgQ[i]] /\ Len(mPollMsgQ) \in Nat
      BY LenProperties DEF PollOK
    <3>3. mPollMsgQ \in [1..Len(mPollMsgQ) -> [to : Listener, n : 1..notices]]
      BY <3>1, <3>2
    <3> QED
      BY <3>2, <3>3, SeqDef
  <2>4. mPolling = \E p \in Poller : step[p] # "idle"
    BY DEF PollOK
  <2> QED
    BY <2>1, <2>2, <2>3, <2>4 DEF TypeOK, ClientOK, CommandOK, CountOK, LockOK, TodoOK
<1> QED
  BY <1>1, DeliveryInvariant, PTL

\* Every listener hears the notifications in their order, and none is called that is
\* not registered, for any number of listeners and of threads that call run.
THEOREM InOrder == Spec => HeardInOrder
<1> DEFINE Heard(l) == heard'[l] # heard[l] =>
                          /\ heard'[l] > heard[l] \/ mixed
                          /\ (\E t \in Notifier : CallListener(t)) => l \in mListeners
<1>1. ASSUME Shape, Order, [Next]_vars, NEW l \in Listener, heard'[l] # heard[l]
      PROVE  /\ heard'[l] > heard[l] \/ mixed
             /\ (\E t \in Notifier : CallListener(t)) => l \in mListeners
  <2> USE <1>1 DEF Shape
  <2>1. ASSUME NEW t \in Notifier, CallListener(t)
        PROVE  l \in mListeners /\ (heard'[l] > heard[l] \/ mixed)
    <3>1. PICK k \in todo[t] : /\ k \in Listener /\ k \in mListeners
                               /\ Hears(k, now[t]) /\ now[t] \in 1..notices
      BY <2>1, CallFacts
    <3>2. k = l /\ heard'[l] = now[t]
      BY <3>1, HearsFacts
    <3>3. ~mixed => heard[l] < now[t]
      BY <3>1, <3>2 DEF Order, Ahead
    <3>4. heard[l] \in Nat /\ now[t] \in Nat
      BY <3>1 DEF CountOK
    <3> QED
      BY <3>1, <3>2, <3>3, <3>4
  <2>2. ASSUME NEW p \in Poller, Deliver(p) PROVE heard'[l] > heard[l] \/ mixed
    <3>1. step[p] = "popped" /\ Hears(now[p].to, now[p].n)
      BY <2>2 DEF Deliver
    <3>2. now[p] \in Message
      BY <3>1 DEF NowOK
    <3>3. now[p].to \in Listener /\ now[p].n \in Nat
      BY <3>2 DEF Message
    <3>4. now[p].to = l /\ heard'[l] = now[p].n
      BY <3>1, <3>3, HearsFacts
    <3>5. ~mixed => heard[l] < now[p].n
      BY <3>1, <3>4 DEF Order, InHand
    <3>6. heard[l] \in Nat
      BY DEF CountOK
    <3> QED
      BY <3>3, <3>4, <3>5, <3>6
  <2>3. (\E t \in Notifier : CallListener(t)) \/ (\E p \in Poller : Deliver(p))
    <3>1. Silent => UNCHANGED heard
      BY SilentUnchanged
    <3>2. ASSUME NEW t \in Notifier, Notify(t) \/ Queue(t) \/ Release(t) PROVE UNCHANGED heard
      BY <3>2 DEF Notify, Queue, Release
    <3>3. ASSUME NEW p \in Poller, RunBegin(p) \/ RunEnd(p) \/ Pop(p) PROVE UNCHANGED heard
      BY <3>3 DEF RunBegin, RunEnd, Pop, tellVars
    <3> QED
      BY <3>1, <3>2, <3>3, Steps DEF Loud
  <2> QED
    BY <2>1, <2>2, <2>3
<1>2. Shape /\ Order /\ [Next]_vars => [\A l \in Listener : Heard(l)]_vars
  BY <1>1
<1> QED
  BY <1>2, DeliveryInvariant, PTL DEF Spec, HeardInOrder
=============================================================================
