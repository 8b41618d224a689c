------------------------------ MODULE Delivery ------------------------------
(***************************************************************************)
(* From a notification to the client's listeners: BLEHub's NotifyHelper,   *)
(* the set of listeners, the polling queue with the threads in run, the    *)
(* two work modes, and the mutexes all this is done with.  Four threads    *)
(* notify: the event thread, with no lock, but with mTaskMutex when the    *)
(* dongle is gone; the thread of an armband that gets connected, with no   *)
(* lock; the command thread in a startScan or stopScan and the client's    *)
(* thread in deinit, with mTaskMutex.  A listener is called with           *)
(* mMutexListeners held, or by run with nothing held, and may call the     *)
(* hub back.  One session, from init to deinit.                            *)
(***************************************************************************)
EXTENDS Integers, Sequences, SequencesExt, DataProfiles

CONSTANTS Listener,       \* the client's listeners
          Poller,         \* the client's threads that call run
          Sent,           \* what armbands send: [type, length, numbered]
          None,           \* stands for a lock nobody holds, no message, no caller
          MaxNotices,     \* bound on the notifications of a behaviour
          MaxModes,       \* bound on the calls of setWorkMode
          MaxWaiting      \* bound on the commands that wait when a client gives one

Notifier == {"event", "device", "task", "owner"}
Thread == Notifier \cup Poller

ASSUME DeliveryAssumption ==
    /\ Sent \subseteq [type : STRING, length : 0..255, numbered : BOOLEAN]
    /\ {MaxNotices, MaxModes, MaxWaiting} \subseteq Nat
    /\ Notifier \cap Poller = {}
    /\ None \notin Thread /\ None \notin [to : Listener, n : Nat]

VARIABLES
    mListeners,           \* the registered listeners
    alive,                \* the listeners the client still keeps
    mWorkMode,
    modes,                \* how often the mode was set
    mPollMsgQ,            \* messages of the polling queue: [to, n]
    mPolling,             \* changed under mPollMutex alone, which run holds for no longer
    mTaskMutex,           \* the thread that holds it
    mMutexListeners,      \* the thread that holds it
    mMsgQ,                \* the commands that wait for the command thread: [do, of]
    serving,              \* who waits for the command under way, if a listener's call
    step,                 \* where each thread is
    discards,             \* per notifying thread the notifications to follow
    todo,                 \* per notifying thread the listeners still to tell
    now,                  \* per thread the message it delivers
    begun,                \* the notifications decided on so far
    notices,              \* the notifications made so far, which numbers them
    heard,                \* per listener the last one it heard
    mixed                 \* history: the mode changed over undelivered messages

clientVars == <<mListeners, alive, mWorkMode, modes, mixed>>
pollVars == <<mPollMsgQ, mPolling>>
commandVars == <<mTaskMutex, mMsgQ, serving>>
tellVars == <<mMutexListeners, todo, now, notices, heard>>
countVars == <<discards, begun>>
vars == <<clientVars, pollVars, commandVars, tellVars, countVars, step>>

\* What the command thread is asked to do: a command that notifies nobody, startScan or
\* stopScan, to disconnect an armband; and to end.  The asker of a listener's call is
\* named, for its thread waits.
Work == {"query", "scan", "disconnect"}
Command == [do : Work \cup {"exit"}, of : Thread \cup {None}]

Init ==
    /\ mListeners = {} /\ alive = Listener
    /\ mWorkMode = "Polling" /\ modes = 0
    /\ mPollMsgQ = <<>> /\ mPolling = FALSE
    /\ mTaskMutex = None /\ mMutexListeners = None /\ mMsgQ = <<>> /\ serving = None
    /\ step = [t \in Thread |-> "idle"]
    /\ discards = [t \in Notifier |-> 0]
    /\ todo = [t \in Notifier |-> {}] /\ now = [t \in Thread |-> None]
    /\ begun = 0 /\ notices = 0 /\ heard = [l \in Listener |-> 0]
    /\ mixed = FALSE

Goto(t, s) == step' = [step EXCEPT ![t] = s]

Push(do, of) == mMsgQ' = Append(mMsgQ, [do |-> do, of |-> of])
-----------------------------------------------------------------------------
(* The client.  The short calls need the lock and hold it for themselves.  *)

\* Both also forget the listeners that are gone.
registerListener(l) ==
    /\ l \in alive /\ mMutexListeners = None
    /\ mListeners' = (mListeners \cup {l}) \cap alive
    /\ UNCHANGED <<alive, mWorkMode, modes, mixed, pollVars, commandVars, tellVars, countVars,
                   step>>

unRegisterListener(l) ==
    /\ l \in alive /\ mMutexListeners = None
    /\ mListeners' = (mListeners \ {l}) \cap alive
    /\ UNCHANGED <<alive, mWorkMode, modes, mixed, pollVars, commandVars, tellVars, countVars,
                   step>>

\* The client lets go of a listener it has not unregistered.
ListenerGone(l) ==
    /\ l \in alive /\ alive' = alive \ {l}
    /\ UNCHANGED <<mListeners, mWorkMode, modes, mixed, pollVars, commandVars, tellVars,
                   countVars, step>>

\* Nothing guards the mode, and nothing is done about what is queued.
setWorkMode ==
    /\ modes < MaxModes /\ modes' = modes + 1
    /\ mWorkMode' = IF mWorkMode = "Polling" THEN "Freerun" ELSE "Polling"
    /\ mixed' = (mixed \/ mPollMsgQ # <<>> \/ (\E p \in Poller : now[p] # None)
                 \/ \E t \in Notifier : step[t] = "queueing")
    /\ UNCHANGED <<mListeners, alive, pollVars, commandVars, tellVars, countVars, step>>

\* executeCommand of a thread of the client that is not in a callback; the test of mAM
\* refuses it after deinit.
ClientCommand(do) ==
    /\ do # "query" /\ step["owner"] # "over" /\ mTaskMutex = None /\ Len(mMsgQ) < MaxWaiting
    /\ [do |-> do, of |-> None] \notin Range(mMsgQ)
    /\ Push(do, None)
    /\ UNCHANGED <<clientVars, pollVars, mTaskMutex, serving, tellVars, countVars, step>>
-----------------------------------------------------------------------------
(* Where notifications come from.                                          *)

\* A callback from the transport, until deinit unregisters it.
Callback(t, s) ==
    /\ step[t] = "idle" /\ step["owner"] = "idle"
    /\ Goto(t, s)
    /\ UNCHANGED <<clientVars, pollVars, commandVars, tellVars, discards>>

Counted(n) == begun + n <= MaxNotices /\ begun' = begun + n

\* onNotificationReceived and the notify method of what the package holds.
DataReceived ==
    /\ \E s \in Sent : Told4(s.type, s.length, s.numbered)
    /\ Callback("event", "lookup") /\ UNCHANGED begun

\* The link of an armband ends: its thread is joined before the hub is told.
LinkTerminated == Callback("event", "join") /\ UNCHANGED begun

\* The thread of an armband reports the connection.
DeviceConnected ==
    /\ step["event"] # "join" /\ step["task"] # "join"
    /\ Callback("device", "lookup") /\ UNCHANGED begun

onScanFinished == Callback("event", "notify") /\ Counted(1)

onComDestory == Callback("event", "gone") /\ Counted(1)

EventJoined ==
    /\ step["event"] = "join" /\ step["device"] = "idle"
    /\ Goto("event", "lookup")
    /\ UNCHANGED <<clientVars, pollVars, commandVars, tellVars, countVars>>

\* The hub looks the device up under mTaskMutex, which is free again when the listeners
\* are told; of a device it does not know it tells nothing.
LookUpDevice(t) ==
    /\ step[t] = "lookup" /\ mTaskMutex = None
    /\ \/ Goto(t, "notify") /\ Counted(1)
       \/ Goto(t, "idle") /\ UNCHANGED begun
    /\ UNCHANGED <<clientVars, pollVars, commandVars, tellVars, discards>>

\* onComDestory notifies with mTaskMutex held.
ComLocked ==
    /\ step["event"] = "gone" /\ mTaskMutex = None
    /\ mTaskMutex' = "event" /\ Goto("event", "notify")
    /\ UNCHANGED <<clientVars, pollVars, mMsgQ, serving, tellVars, countVars>>

ComEnds ==
    /\ step["event"] = "told"
    /\ mTaskMutex' = None /\ Goto("event", "idle")
    /\ UNCHANGED <<clientVars, pollVars, mMsgQ, serving, tellVars, countVars>>
-----------------------------------------------------------------------------
(* The command thread.                                                     *)

\* n notifications to make, one after the other, and where the thread is without any.
Discards(t, n, none) ==
    /\ Counted(n)
    /\ discards' = [discards EXCEPT ![t] = IF n = 0 THEN 0 ELSE n - 1]
    /\ Goto(t, IF n = 0 THEN none ELSE "notify")

\* What a command does: startScan notifies of every device that is not connected, stopScan
\* once on Windows, if they succeed, which is one of the numbers; disconnect joins the
\* thread of an armband that is connected.
Does(do) ==
    \/ do = "query" /\ Discards("task", 0, "told")
    \/ do = "scan" /\ \E n \in 0..MaxNotices : Discards("task", n, "told")
    \/ /\ do = "disconnect"
       /\ Discards("task", 0, IF step["device"] = "lookup" THEN "told" ELSE "join")

\* commandTask: one command after the other under mTaskMutex, until the empty message.
TakeCommand ==
    /\ step["task"] = "idle" /\ mMsgQ # <<>> /\ mMsgQ' = Tail(mMsgQ)
    /\ IF Head(mMsgQ).do = "exit"
         THEN Goto("task", "ended") /\ UNCHANGED <<mTaskMutex, serving, countVars>>
         ELSE /\ mTaskMutex = None /\ mTaskMutex' = "task"
              /\ serving' = Head(mMsgQ).of
              /\ Does(Head(mMsgQ).do)
    /\ UNCHANGED <<clientVars, pollVars, tellVars>>

TaskJoined ==
    /\ step["task"] = "join" /\ step["device"] = "idle"
    /\ Goto("task", "told")
    /\ UNCHANGED <<clientVars, pollVars, commandVars, tellVars, countVars>>

\* Where the thread of a listener's call goes on.
Resumed(t) == IF t \in Poller THEN "next" ELSE "calling"

Wake == step' = [t \in Thread |-> IF t = "task" THEN "idle"
                                  ELSE IF t = serving THEN Resumed(t) ELSE step[t]]

\* Mutant: the command thread keeps its lock.
EndCommandLocked ==
    /\ step["task"] = "told"
    /\ serving' = None /\ Wake
    /\ UNCHANGED <<clientVars, pollVars, mTaskMutex, mMsgQ, tellVars, countVars>>

\* The command is executed, who asked goes on.
EndCommand ==
    /\ step["task"] = "told"
    /\ mTaskMutex' = None /\ serving' = None /\ Wake
    /\ UNCHANGED <<clientVars, pollVars, mMsgQ, tellVars, countVars>>
-----------------------------------------------------------------------------
(* deinit, on the owner's thread.                                          *)

\* The callback is unregistered; a device that is connected is disconnected, and when
\* there is none the command thread is told to end.
deinit ==
    /\ step["owner"] = "idle" /\ mTaskMutex = None
    /\ \/ Push("disconnect", None) /\ Goto("owner", "closing")
       \/ Push("exit", None) /\ Goto("owner", "waiting")
    /\ UNCHANGED <<clientVars, pollVars, mTaskMutex, serving, tellVars, countVars>>

\* The device is disconnected.
SendExit ==
    /\ step["owner"] = "closing" /\ step["task"] # "join"
    /\ [do |-> "disconnect", of |-> None] \notin Range(mMsgQ)
    /\ Push("exit", None) /\ Goto("owner", "waiting")
    /\ UNCHANGED <<clientVars, pollVars, mTaskMutex, serving, tellVars, countVars>>

\* It has ended: what waits is dropped, and every device is discarded.
DiscardAll ==
    /\ step["owner"] = "waiting" /\ step["task"] = "ended" /\ mTaskMutex = None
    /\ mTaskMutex' = "owner" /\ mMsgQ' = <<>>
    /\ \E n \in 0..MaxNotices : Discards("owner", n, "joining")
    /\ UNCHANGED <<clientVars, pollVars, serving, tellVars>>

\* AdapterManager's Deinit joins the event thread; then the listeners are forgotten.
DeinitEnds ==
    /\ step["owner"] = "joining" /\ step["event"] = "idle" /\ mMutexListeners = None
    /\ mListeners' = {} /\ mTaskMutex' = None /\ Goto("owner", "over")
    /\ UNCHANGED <<alive, mWorkMode, modes, mixed, pollVars, mMsgQ, serving, tellVars,
                   countVars>>
-----------------------------------------------------------------------------
(* NotifyHelper.                                                           *)

\* The lock, then the mode, which is read once.
Notify(t) ==
    /\ step[t] = "notify" /\ mMutexListeners = None
    /\ mMutexListeners' = t
    /\ notices' = notices + 1
    /\ now' = [now EXCEPT ![t] = notices + 1]
    /\ todo' = [todo EXCEPT ![t] = mListeners]
    /\ Goto(t, IF mWorkMode = "Polling" THEN "queueing" ELSE "calling")
    /\ UNCHANGED <<clientVars, pollVars, commandVars, countVars, heard>>

\* In polling mode a message for each listener.
Queue(t) ==
    /\ step[t] = "queueing"
    /\ \E l \in todo[t] :
          /\ todo' = [todo EXCEPT ![t] = @ \ {l}]
          /\ mPollMsgQ' = Append(mPollMsgQ, [to |-> l, n |-> now[t]])
    /\ UNCHANGED <<clientVars, mPolling, commandVars, countVars, mMutexListeners, now, notices,
                   heard, step>>

Hears(l, n) == heard' = [heard EXCEPT ![l] = IF l \in alive THEN n ELSE @]

\* In free-run mode a call to each.  The listener returns, calls what needs mTaskMutex,
\* or (un)registers, which its own thread's lock lets nobody do.
CallListener(t) ==
    /\ step[t] = "calling"
    /\ \E l \in todo[t] :
          /\ todo' = [todo EXCEPT ![t] = @ \ {l}]
          /\ Hears(l, now[t])
          /\ \E s \in {"calling", "asks", "registers"} :
                (s # "calling" => l \in alive) /\ Goto(t, s)
    /\ UNCHANGED <<clientVars, pollVars, commandVars, countVars, mMutexListeners, now, notices>>

\* Where a thread goes that has told the listeners.
Told(t) == IF mTaskMutex # t THEN "idle"
           ELSE IF discards[t] > 0 THEN "notify"
           ELSE IF t = "owner" THEN "joining" ELSE "told"

Release(t) ==
    /\ step[t] \in {"queueing", "calling"} /\ todo[t] = {}
    /\ mMutexListeners' = None
    /\ now' = [now EXCEPT ![t] = None]
    /\ discards' = [discards EXCEPT ![t] = IF @ > 0 THEN @ - 1 ELSE 0]
    /\ Goto(t, Told(t))
    /\ UNCHANGED <<clientVars, pollVars, commandVars, todo, notices, heard, begun>>

\* executeCommand of a callback's thread; findDevice and enumDevices only take the mutex,
\* and after deinit a command is refused.
CallsHub(t) ==
    /\ step[t] = "asks" /\ mTaskMutex = None
    /\ \/ Goto(t, Resumed(t)) /\ UNCHANGED mMsgQ
       \/ /\ step["owner"] # "over"
          /\ \E do \in Work : Push(do, t)
          /\ Goto(t, "blocked")
    /\ UNCHANGED <<clientVars, pollVars, mTaskMutex, serving, tellVars, countVars>>
-----------------------------------------------------------------------------
(* run.                                                                    *)

\* Mutant: a thread that polls is not noticed.
MayAlwaysPoll == mWorkMode = "Polling"

MayPoll == mWorkMode = "Polling" /\ ~mPolling

\* A thread that may not, or finds mPollMutex taken, is turned away.
RunBegin(p) ==
    /\ step[p] = "idle" /\ MayPoll
    /\ mPolling' = TRUE /\ Goto(p, "poll")
    /\ UNCHANGED <<clientVars, mPollMsgQ, commandVars, tellVars, countVars>>

\* pop_until finds a message, or the time is up.
Pop(p) ==
    /\ step[p] = "poll"
    /\ IF mPollMsgQ = <<>>
         THEN Goto(p, "end") /\ UNCHANGED <<mPollMsgQ, now>>
         ELSE /\ now' = [now EXCEPT ![p] = Head(mPollMsgQ)]
              /\ mPollMsgQ' = Tail(mPollMsgQ)
              /\ Goto(p, "popped")
    /\ UNCHANGED <<clientVars, mPolling, commandVars, countVars, mMutexListeners, todo, notices,
                   heard>>

\* The message's function: a listener that is gone is not called.
Deliver(p) ==
    /\ step[p] = "popped"
    /\ Hears(now[p].to, now[p].n)
    /\ now' = [now EXCEPT ![p] = None]
    /\ \E s \in {"next", "asks"} : (s = "asks" => now[p].to \in alive) /\ Goto(p, s)
    /\ UNCHANGED <<clientVars, pollVars, commandVars, countVars, mMutexListeners, todo, notices>>

\* Once, or until the time is up.
RunNext(p) ==
    /\ step[p] = "next"
    /\ Goto(p, "poll") \/ Goto(p, "end")
    /\ UNCHANGED <<clientVars, pollVars, commandVars, tellVars, countVars>>

\* Mutant: a return from within the loop.
RunReturns(p) ==
    /\ step[p] = "end"
    /\ Goto(p, "idle")
    /\ UNCHANGED <<clientVars, pollVars, commandVars, tellVars, countVars>>

RunEnd(p) ==
    /\ step[p] = "end"
    /\ mPolling' = FALSE
    /\ Goto(p, "idle")
    /\ UNCHANGED <<clientVars, mPollMsgQ, commandVars, tellVars, countVars>>

Client == \/ \E l \in Listener :
                registerListener(l) \/ unRegisterListener(l) \/ ListenerGone(l)
          \/ setWorkMode
          \/ \E do \in Work : ClientCommand(do)

Begins == \/ DataReceived \/ LinkTerminated \/ DeviceConnected
          \/ onScanFinished \/ onComDestory

Tell(t) == Notify(t) \/ Queue(t) \/ CallListener(t) \/ Release(t) \/ CallsHub(t)

Event == EventJoined \/ LookUpDevice("event") \/ ComLocked \/ ComEnds
Device == LookUpDevice("device")
Task == TakeCommand \/ TaskJoined \/ EndCommand
Owner == SendExit \/ DiscardAll \/ DeinitEnds

Run(p) == RunBegin(p) \/ Pop(p) \/ Deliver(p) \/ CallsHub(p) \/ RunNext(p) \/ RunEnd(p)

Next == \/ Client \/ Begins \/ Event \/ Device \/ Task \/ deinit \/ Owner
        \/ \E t \in Notifier : Tell(t)
        \/ \E p \in Poller : Run(p)

Spec == Init /\ [][Next]_vars

\* A thread that notifies, runs a command or is in deinit goes on, and the event thread
\* and an armband's get a lock that is free again and again; what clients, their pollers
\* too, and devices do is up to them.
Fairness ==
    /\ SF_vars(Tell("event") \/ Event)
    /\ SF_vars(Tell("device") \/ Device)
    /\ WF_vars(Tell("task") \/ Task)
    /\ WF_vars(Tell("owner") \/ Owner)

FairSpec == Spec /\ Fairness
-----------------------------------------------------------------------------
TypeOK ==
    /\ mListeners \subseteq Listener /\ alive \subseteq Listener
    /\ mWorkMode \in {"Polling", "Freerun"} /\ modes \in 0..MaxModes
    /\ notices \in Nat /\ begun \in 0..MaxNotices
    /\ mPollMsgQ \in Seq([to : Listener, n : 1..notices])
    /\ mTaskMutex \in {"event", "task", "owner", None}
    /\ mMutexListeners \in Notifier \cup {None}
    /\ mMsgQ \in Seq(Command) /\ serving \in Thread \cup {None}
    /\ step \in [Thread -> {"idle", "lookup", "gone", "join", "notify", "queueing", "calling",
                            "asks", "registers", "blocked", "told", "ended", "closing",
                            "waiting", "joining", "over", "poll", "popped", "next", "end"}]
    /\ discards \in [Notifier -> 0..MaxNotices]
    /\ todo \in [Notifier -> SUBSET Listener]
    /\ \A t \in Notifier : now[t] \in (1..notices) \cup {None}
    /\ heard \in [Listener -> 0..notices]
    /\ mixed \in BOOLEAN
    /\ mPolling = \E p \in Poller : step[p] # "idle"

\* A listener hears the notifications in the order they were made, however many
\* threads notify and call run, unless the mode changed over messages still to be
\* delivered or queued (mPolling, mPollMsgQ, mMutexListeners).  And one that is not
\* registered is not called with a new notification: all it may still hear was queued
\* before (unRegisterListener against NotifyHelper).
HeardInOrder ==
    [][\A l \in Listener : heard'[l] # heard[l] =>
          /\ heard'[l] > heard[l] \/ mixed
          /\ (\E t \in Notifier : CallListener(t)) => l \in mListeners]_vars

\* A listener's call that cannot end (mMutexListeners is held over it): a registration;
\* what needs mTaskMutex from a thread that holds it, or while one that holds it waits to
\* notify or joins one that does; what needs the command thread when that has ended.
CallNeverEnds ==
    \E t \in Notifier :
       \/ step[t] = "registers"
       \/ /\ step[t] \in {"asks", "blocked"}
          /\ \/ mTaskMutex = t \/ step["task"] = "ended"
             \/ \E u \in Notifier : mTaskMutex = u /\ step[u] = "notify"
             \/ step["task"] = "join" /\ step["device"] # "idle"

\* deinit waits for the event thread, which waits for the mTaskMutex it holds, or for a
\* thread that does.
DeinitNeverEnds ==
    /\ step["owner"] = "joining"
    /\ \/ step["event"] \in {"lookup", "gone"}
       \/ step["event"] = "join" /\ step["device"] = "lookup"

\* The event thread comes back from every callback but in those two circles: the
\* mutexes are taken in both orders, mMutexListeners within mTaskMutex by onComDestory,
\* startScan, stopScan and deinit, mTaskMutex within mMutexListeners by a listener.
NotifyEnds == step["event"] # "idle" ~>
                 (step["event"] = "idle" \/ CallNeverEnds \/ DeinitNeverEnds)
=============================================================================
