----------------------------- MODULE HubCommand -----------------------------
(***************************************************************************)
(* The threads of BLEHub and how a request travels between them.  Clients  *)
(* call the hub; executeCommand queues their request and waits; the        *)
(* command thread (commandTask) carries it out holding mTaskMutex.  The    *)
(* main thread calls init and deinit and so starts and stops the command   *)
(* thread, and the dongle's event thread calls back into the hub, where it *)
(* takes mTaskMutex too.  What a request does to the AdapterManager is     *)
(* left out: the modules of the scan and of the connections have it.       *)
(***************************************************************************)
EXTENDS Naturals, Sequences

CONSTANTS Clients,         \* threads that call the hub
          MaxCalls,        \* bound: calls of a client
          MaxSessions,     \* bound: calls of init
          MaxDevices,      \* bound: devices that deinit disconnects
          MaxEvents,       \* bound: callbacks of the event thread
          MaxSpurious      \* bound: spurious wake-ups of condition variables

Main  == "main"
Exit  == "exit"            \* the null message that ends commandTask
Nobody == "nobody"
Threads == Clients \cup {Main}
MutexOwners == Threads \cup {"commandTask", Nobody}

ASSUME HubCommandAssumption ==
    /\ {Main, Exit, Nobody, "commandTask",
        "session", "device", "event", "spurious"} \cap Clients = {}
    /\ {MaxCalls, MaxSessions, MaxDevices, MaxEvents, MaxSpurious} \subseteq Nat

VARIABLES mAM,             \* "NULL" or "AM"
          mClientCallback, \* "NULL" or "hub": where the AM reports events
          mTaskMutex,      \* its owner
          mMsgQ,           \* messages, by the thread that waits for each
          executed,        \* HubMsg::executed of each thread's message
          ran,             \* history: fun of that message has been called
          pc,              \* where each thread is in executeCommand
          taskPc, taskMsg, \* where the command thread is, and its message
          stage,           \* where the main thread is in init or deinit
          eventPc,         \* the event thread: "idle" or "callback"
          cleared,         \* history: threads whose message deinit dropped
          budget           \* what is left of each bound

queueVars == <<mMsgQ, executed, ran>>
taskVars  == <<taskPc, taskMsg>>
hubVars   == <<mAM, mClientCallback>>
vars == <<hubVars, mTaskMutex, queueVars, pc, taskVars, stage, eventPc,
          cleared, budget>>

In(x, seq) == \E i \in 1..Len(seq) : seq[i] = x
InCall(t)  == pc[t] # "idle"
Spend(b)   == /\ budget[b] > 0
              /\ budget' = [budget EXCEPT ![b] = @ - 1]

Init ==
    /\ mAM = "NULL"
    /\ mClientCallback = "NULL"
    /\ mTaskMutex = Nobody
    /\ mMsgQ = <<>>
    /\ executed = [t \in Threads |-> 0]
    /\ ran = [t \in Threads |-> 0]
    /\ pc = [t \in Threads |-> "idle"]
    /\ taskPc = "none"
    /\ taskMsg = Nobody
    /\ stage = "down"
    /\ eventPc = "idle"
    /\ cleared = {}
    /\ budget = [b \in Clients \cup {"session", "device", "event", "spurious"} |->
                   CASE b = "session"  -> MaxSessions
                     [] b = "device"   -> MaxDevices
                     [] b = "event"    -> MaxEvents
                     [] b = "spurious" -> MaxSpurious
                     [] OTHER          -> MaxCalls]
-----------------------------------------------------------------------------
\* executeCommand: a fresh message, then mTaskMutex.
Enter(t) ==
    /\ ~InCall(t)
    /\ executed' = [executed EXCEPT ![t] = 0]
    /\ ran' = [ran EXCEPT ![t] = 0]
    /\ pc' = [pc EXCEPT ![t] = "lock"]
    /\ cleared' = cleared \ {t}

\* Every method that reaches a device by its handle, and those that do not, starts
\* with this test, without a lock, and returns BAD_STATE when it fails.
Accepted == mAM # "NULL"

\* A hub method of a client.
Call(t) ==
    /\ Accepted
    /\ Enter(t)
    /\ Spend(t)
    /\ UNCHANGED <<hubVars, mTaskMutex, mMsgQ, taskVars, stage, eventPc>>

\* With mTaskMutex held the message is queued; the first test of the wait's
\* predicate follows under the same lock.
PushMessage(t) ==
    /\ pc[t] = "lock"
    /\ mTaskMutex = Nobody
    /\ mTaskMutex' = t
    /\ mMsgQ' = Append(mMsgQ, t)
    /\ pc' = [pc EXCEPT ![t] = "block"]
    /\ UNCHANGED <<hubVars, executed, ran, taskVars, stage, eventPc, cleared, budget>>

\* The predicate was false: the condition variable gives the mutex up and
\* waits.
Block(t) ==
    /\ pc[t] = "block"
    /\ mTaskMutex' = Nobody
    /\ pc' = [pc EXCEPT ![t] = "waiting"]
    /\ UNCHANGED <<hubVars, queueVars, taskVars, stage, eventPc, cleared, budget>>

\* A condition variable may wake up without a notification.
WakeSpuriously(t) ==
    /\ pc[t] = "waiting"
    /\ Spend("spurious")
    /\ pc' = [pc EXCEPT ![t] = "relock"]
    /\ UNCHANGED <<hubVars, mTaskMutex, queueVars, taskVars, stage, eventPc, cleared>>

\* Mutant: wait without the predicate, so that any wake-up ends it.
RelockNoPredicate(t) ==
    /\ pc[t] = "relock"
    /\ mTaskMutex = Nobody
    /\ pc' = [pc EXCEPT ![t] = "idle"]
    /\ UNCHANGED mTaskMutex
    /\ UNCHANGED <<hubVars, queueVars, taskVars, stage, eventPc, cleared, budget>>

\* After any wake-up the mutex is taken back and the predicate tested again:
\* the call returns, or goes back to waiting with the lock held so far.
Relock(t) ==
    /\ pc[t] = "relock"
    /\ mTaskMutex = Nobody
    /\ \/ /\ executed[t] = 1
          /\ pc' = [pc EXCEPT ![t] = "idle"]
          /\ UNCHANGED mTaskMutex
       \/ /\ executed[t] = 0
          /\ pc' = [pc EXCEPT ![t] = "block"]
          /\ mTaskMutex' = t
    /\ UNCHANGED <<hubVars, queueVars, taskVars, stage, eventPc, cleared, budget>>

ClientStep(t) == PushMessage(t) \/ Block(t) \/ Relock(t)
-----------------------------------------------------------------------------
\* Mutant: the null message is taken for a request.
PopNoExit ==
    /\ taskPc = "pop"
    /\ mMsgQ # <<>>
    /\ mMsgQ' = Tail(mMsgQ)
    /\ taskPc' = "lock"
    /\ taskMsg' = Head(mMsgQ)
    /\ UNCHANGED <<hubVars, mTaskMutex, executed, ran, pc, stage, eventPc, cleared, budget>>

\* commandTask: BQueue::pop, which needs no mTaskMutex.
PopMessage ==
    /\ taskPc = "pop"
    /\ mMsgQ # <<>>
    /\ mMsgQ' = Tail(mMsgQ)
    /\ \/ /\ Head(mMsgQ) = Exit
          /\ taskPc' = "exited"
          /\ UNCHANGED taskMsg
       \/ /\ Head(mMsgQ) # Exit
          /\ taskPc' = "lock"
          /\ taskMsg' = Head(mMsgQ)
    /\ UNCHANGED <<hubVars, mTaskMutex, executed, ran, pc, stage, eventPc, cleared, budget>>

LockTask ==
    /\ taskPc = "lock"
    /\ mTaskMutex = Nobody
    /\ mTaskMutex' = "commandTask"
    /\ taskPc' = "run"
    /\ UNCHANGED <<hubVars, queueVars, pc, taskMsg, stage, eventPc, cleared, budget>>

\* msg->fun() uses the AdapterManager; the lock goes at the end of the block.
RunTask ==
    /\ taskPc = "run"
    /\ ran' = [ran EXCEPT ![taskMsg] = 1]
    /\ mTaskMutex' = Nobody
    /\ taskPc' = "ran"
    /\ UNCHANGED <<hubVars, mMsgQ, executed, pc, taskMsg, stage, eventPc, cleared, budget>>

\* msg->executed = true, without the lock.
MarkExecuted ==
    /\ taskPc = "ran"
    /\ executed' = [executed EXCEPT ![taskMsg] = 1]
    /\ taskPc' = "notify"
    /\ UNCHANGED <<hubVars, mTaskMutex, mMsgQ, ran, pc, taskMsg, stage, eventPc, cleared, budget>>

\* Mutant: the notification is forgotten.
NotifyNobody ==
    /\ taskPc = "notify"
    /\ taskPc' = "pop"
    /\ taskMsg' = Nobody
    /\ UNCHANGED <<hubVars, mTaskMutex, queueVars, pc, stage, eventPc, cleared, budget>>

\* notify_all, without the lock: it wakes the caller if it is blocked now, and
\* has not begun another call, whose message has a condition of its own.
NotifyCaller ==
    /\ taskPc = "notify"
    /\ pc' = IF pc[taskMsg] = "waiting" /\ executed[taskMsg] = 1
               THEN [pc EXCEPT ![taskMsg] = "relock"]
               ELSE pc
    /\ taskPc' = "pop"
    /\ taskMsg' = Nobody
    /\ UNCHANGED <<hubVars, mTaskMutex, queueVars, stage, eventPc, cleared, budget>>

TaskStep == PopMessage \/ LockTask \/ RunTask \/ MarkExecuted \/ NotifyCaller
-----------------------------------------------------------------------------
\* init takes mTaskMutex and finds the AdapterManager, which every thread can
\* see from now on: the clients test mAM without the lock.
InitBegin ==
    /\ stage = "down"
    /\ mTaskMutex = Nobody
    /\ Spend("session")
    /\ mTaskMutex' = Main
    /\ mAM' = "AM"
    /\ stage' = "init"
    /\ UNCHANGED <<mClientCallback, queueVars, pc, taskVars, eventPc, cleared>>

\* AdapterManager::Init fails (no dongle): mAM is NULL again.
InitFails ==
    /\ stage = "init"
    /\ mAM' = "NULL"
    /\ mTaskMutex' = Nobody
    /\ stage' = "down"
    /\ UNCHANGED <<mClientCallback, queueVars, pc, taskVars, eventPc, cleared, budget>>

\* It succeeds: the callback is registered and the command thread started.
InitSucceeds ==
    /\ stage = "init"
    /\ mClientCallback' = "hub"
    /\ taskPc' = "pop"
    /\ mTaskMutex' = Nobody
    /\ stage' = "up"
    /\ UNCHANGED <<mAM, queueVars, pc, taskMsg, eventPc, cleared, budget>>

\* deinit first asks for the state, through executeCommand like a client.
DeinitBegin ==
    /\ stage = "up"
    /\ stage' = "getState"
    /\ Enter(Main)
    /\ UNCHANGED <<hubVars, mTaskMutex, mMsgQ, taskVars, eventPc, budget>>

\* It was scanning: stopScan is one more call.
DeinitStopScan ==
    /\ stage = "getState"
    /\ stage' = "stopScan"
    /\ Enter(Main)
    /\ UNCHANGED <<hubVars, mTaskMutex, mMsgQ, taskVars, eventPc, budget>>

DeinitUnregister ==
    /\ stage \in {"getState", "stopScan"}
    /\ ~InCall(Main)
    /\ mClientCallback' = "NULL"
    /\ stage' = "copy"
    /\ UNCHANGED <<mAM, mTaskMutex, queueVars, pc, taskVars, eventPc, cleared, budget>>

\* The two device sets are copied under mTaskMutex.
DeinitCopyDevices ==
    /\ stage = "copy"
    /\ mTaskMutex = Nobody
    /\ stage' = "disconnect"
    /\ UNCHANGED <<hubVars, mTaskMutex, queueVars, pc, taskVars, eventPc, cleared, budget>>

\* Each connected device is disconnected by one more call.
DeinitDisconnect ==
    /\ stage = "disconnect"
    /\ Enter(Main)
    /\ Spend("device")
    /\ UNCHANGED <<hubVars, mTaskMutex, mMsgQ, taskVars, stage, eventPc>>

DeinitPushExit ==
    /\ stage = "disconnect"
    /\ ~InCall(Main)
    /\ mMsgQ' = Append(mMsgQ, Exit)
    /\ stage' = "join"
    /\ UNCHANGED <<hubVars, mTaskMutex, executed, ran, pc, taskVars, eventPc, cleared, budget>>

\* Mutant: deinit does not wait for the command thread.
DeinitNoJoin ==
    /\ stage = "join"
    /\ stage' = "clear"
    /\ UNCHANGED <<hubVars, mTaskMutex, queueVars, pc, taskVars, eventPc, cleared, budget>>

DeinitJoin ==
    /\ stage = "join"
    /\ taskPc = "exited"
    /\ taskPc' = "none"
    /\ stage' = "clear"
    /\ UNCHANGED <<hubVars, mTaskMutex, queueVars, pc, taskMsg, eventPc, cleared, budget>>

\* mTaskMutex again, now until deinit returns: the messages left are dropped,
\* the waiting callers are not told.
DeinitClear ==
    /\ stage = "clear"
    /\ mTaskMutex = Nobody
    /\ mTaskMutex' = Main
    /\ mMsgQ' = <<>>
    /\ cleared' = cleared \cup {t \in Threads : In(t, mMsgQ)}
    /\ stage' = "amDeinit"
    /\ UNCHANGED <<hubVars, executed, ran, pc, taskVars, eventPc, budget>>

\* AdapterManager::Deinit joins the event thread before it returns.
DeinitFinish ==
    /\ stage = "amDeinit"
    /\ eventPc = "idle"
    /\ mAM' = "NULL"
    /\ mTaskMutex' = Nobody
    /\ stage' = "down"
    /\ UNCHANGED <<mClientCallback, queueVars, pc, taskVars, eventPc, cleared, budget>>

DeinitStep == DeinitUnregister \/ DeinitCopyDevices \/ DeinitPushExit
              \/ DeinitJoin \/ DeinitClear \/ DeinitFinish
-----------------------------------------------------------------------------
\* OnEvent tests the callback without a lock, for the events of a connected
\* device too.
ReachesHub == mClientCallback = "hub"

\* The event thread has an event for the hub (onScanResult, onDeviceConnected,
\* onDeviceDisconnected, ...) and finds mClientCallback set.
EventBegin ==
    /\ eventPc = "idle"
    /\ ReachesHub
    /\ Spend("event")
    /\ eventPc' = "callback"
    /\ UNCHANGED <<hubVars, mTaskMutex, queueVars, pc, taskVars, stage, cleared>>

\* Each callback looks the device up, by address or by handle, under mTaskMutex.
LookUp == mTaskMutex = Nobody

\* The callback's critical section.
EventCallback ==
    /\ eventPc = "callback"
    /\ LookUp
    /\ eventPc' = "idle"
    /\ UNCHANGED <<hubVars, mTaskMutex, queueVars, pc, taskVars, stage, cleared, budget>>

Next ==
    \/ \E t \in Clients : Call(t)
    \/ \E t \in Threads : ClientStep(t) \/ WakeSpuriously(t)
    \/ TaskStep
    \/ InitBegin \/ InitFails \/ InitSucceeds
    \/ DeinitBegin \/ DeinitStopScan \/ DeinitDisconnect \/ DeinitStep
    \/ EventBegin \/ EventCallback

Spec == Init /\ [][Next]_vars

\* Every thread runs on; the operating system owes nobody a spurious wake-up,
\* and calls, events and the choice to de-initialize are the users'.
Fairness ==
    /\ \A t \in Threads : WF_vars(ClientStep(t))
    /\ WF_vars(TaskStep)
    /\ WF_vars(InitFails \/ InitSucceeds)
    /\ WF_vars(DeinitStep)
    /\ WF_vars(EventCallback)
FairSpec == Spec /\ Fairness
-----------------------------------------------------------------------------
TypeOK ==
    /\ mAM \in {"NULL", "AM"}
    /\ mClientCallback \in {"NULL", "hub"}
    /\ mTaskMutex \in MutexOwners
    /\ mMsgQ \in Seq(Threads \cup {Exit})
    /\ executed \in [Threads -> {0, 1}]
    /\ ran \in [Threads -> {0, 1}]
    /\ pc \in [Threads -> {"idle", "lock", "block", "waiting", "relock"}]
    /\ taskPc \in {"none", "pop", "lock", "run", "ran", "notify", "exited"}
    /\ taskMsg \in Threads \cup {Nobody}
    /\ stage \in {"down", "init", "up", "getState", "stopScan", "copy",
                  "disconnect", "join", "clear", "amDeinit"}
    /\ eventPc \in {"idle", "callback"}
    /\ cleared \subseteq Threads
    /\ budget \in [Clients \cup {"session", "device", "event", "spurious"} -> Nat]

\* A message is never carried out while there is no AdapterManager, although
\* callers test mAM without a lock, a failing init shows one for a moment and
\* deinit takes it away; and a caller that waits for a message nobody has run
\* yet can point at it: it is queued, in the hands of the command thread, or was
\* dropped by deinit (commandTask against init and deinit).
RunsOrWaits ==
    /\ taskPc \in {"lock", "run"} => mAM = "AM"
    /\ \A t \in Threads :
          pc[t] \in {"block", "waiting", "relock"} /\ ran[t] = 0 =>
              \/ In(t, mMsgQ)
              \/ taskMsg = t /\ taskPc \in {"lock", "run"}
              \/ t \in cleared

\* No condition variable has woken up for nothing, no event has come, so far.
NoSpurious == budget["spurious"] = MaxSpurious
NoEvents   == budget["event"] = MaxEvents

\* executeCommand is a SerialService.
Service == INSTANCE SerialService WITH
    call <- [t \in Threads |->
               IF pc[t] = "idle" THEN "idle"
               ELSE IF ran[t] = 1 THEN "done" ELSE "pending"]
ImplementsService == Service!Spec

\* A call whose message the command thread will reach before deinit's exit
\* message returns, as long as no condition variable wakes up spuriously and
\* the event thread is quiet: neither the notification outside the lock nor
\* the competition for mTaskMutex can keep it (executeCommand, commandTask).  On
\* the same conditions deinit, whose calls go the same way, comes to an end.
Reached(t) ==
    /\ taskPc \notin {"none", "exited"}
    /\ \/ taskMsg = t
       \/ \E i \in 1..Len(mMsgQ) :
             mMsgQ[i] = t /\ \A j \in 1..i : mMsgQ[j] # Exit
CallReturns ==
    /\ \A t \in Threads : Reached(t) ~> ~InCall(t) \/ ~NoSpurious \/ ~NoEvents
    /\ stage = "getState" ~> stage = "down" \/ ~NoSpurious \/ ~NoEvents

\* "The result of de-initalization" (Hub.h): deinit comes to an end.
DeinitReturns == stage = "getState" ~> stage = "down"
=============================================================================
