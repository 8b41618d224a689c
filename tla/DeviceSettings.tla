--------------------------- MODULE DeviceSettings ---------------------------
(***************************************************************************)
(* Device settings: the commands of DeviceSettingDataProfile4, the list of *)
(* those that wait for an answer in DeviceSettingHandle, and the timer and *)
(* timer manager of Utils.h that end the ones the device does not answer.  *)
(* Clients send on threads of their own, the hub's event thread brings     *)
(* answers, and the timer thread times out; training goes on from both of  *)
(* these.  SettingCommands has the commands a call can be of.              *)
(***************************************************************************)
EXTENDS Integers, FiniteSets, SettingCommands

CONSTANTS Ask,             \* calls of a simple command
          AskCommand,      \* the command of each of them
          Lengths,         \* the bytes an answer may have after its two of head
          Training,        \* calls of sendTrainingModelData
          Packages,        \* packages of a model
          None,            \* stands for a null pointer, an empty slot, no time set
          TIMEOUT          \* MAX_COMMAND_TIMEOUT, in ticks

ASSUME DeviceSettingsAssumption ==
    /\ IsFiniteSet(Ask) /\ IsFiniteSet(Training) /\ Ask \cap Training = {}
    /\ AskCommand \in [Ask -> DOMAIN DispatchTable]
    /\ Lengths \subseteq Nat
    /\ Packages \in Nat \ {0} /\ TIMEOUT \in Nat \ {0}

VARIABLES
    mExecutingList,        \* per command the request that waits, and the ticks it has left
    mMutex,                \* the thread that holds DeviceSettingHandle's mutex
    mTraingModelBuffer,    \* the call whose model is being sent, or None
    mTrainingModelCallback,\* the call whose callback is kept, or None
    kept,                  \* the commands whose value the profile has
    step,                  \* where each thread is
    duration,              \* what each thread found in updateTimer
    job,                   \* the answered command a thread dispatches
    mRunning,              \* GfTimer
    due,                   \* TimerManager: the ticks its timer has left, or None
    wake,                  \* timer thread: the ticks it is to wait, None for ever
    air,                   \* device: requests it may still answer
    result,                \* what each call was told in the end
    sent,                  \* history: the packages sent of each model
    late,                  \* history: a request timed out
    mixed,                 \* history: a callback got the answer to another request
    raced,                 \* history: a training began while another one had not ended
    missed,                \* history: a notification found the timer thread not yet waiting
    crashed                \* a callback that is not there was called

listVars == <<mExecutingList, mMutex>>
trainVars == <<mTraingModelBuffer, mTrainingModelCallback>>
profileVars == <<trainVars, kept>>
timerVars == <<mRunning, due, wake, missed>>
settingsVars == <<listVars, profileVars, step, duration, job, timerVars, air, result, sent,
                  late, mixed, raced, crashed>>

Calls == Ask \cup Training
Thread == Calls \cup {"event", "timer"}
commandOf(c) == IF c \in Training THEN "SEND_TRAINING_PACKAGE" ELSE AskCommand[c]
Command == {commandOf(c) : c \in Calls}

\* A request: the call it belongs to, and the number of the package.
Request == (Ask \X {0}) \cup (Training \X (1..Packages))
commandOfRequest(r) == commandOf(r[1])

\* What threads, requests, times, entries, jobs and results are told from.
ASSUME NoneAssumption ==
    /\ Calls \cap {"event", "timer"} = {}
    /\ None \notin Thread \cup Request \cup (0..TIMEOUT)
    /\ None \notin {"refused", "success", "failed", "timeout", "kept"}
    /\ None \notin [request : Request, left : -1..TIMEOUT]
    /\ None \notin [request : Request, answer : Request \cup {None}]

SettingsInit ==
    /\ mExecutingList = [c \in Command |-> None] /\ mMutex = None
    /\ mTraingModelBuffer = None /\ mTrainingModelCallback = None /\ kept = {}
    /\ step = [t \in Thread |-> CASE t = "event" -> "idle"
                                  [] t = "timer" -> "look"
                                  [] OTHER       -> "new"]
    /\ duration = [t \in Thread |-> 0]
    /\ job = [t \in {"event", "timer"} |-> None]
    /\ mRunning = FALSE /\ due = None /\ wake = None
    /\ air = {} /\ result = [c \in Calls |-> None]
    /\ sent = [m \in Training |-> {}]
    /\ late = FALSE /\ mixed = FALSE /\ raced = FALSE /\ missed = FALSE /\ crashed = FALSE

At(t, s) == step[t] = s /\ ~crashed
Goto(t, s) == step' = [step EXCEPT ![t] = s]

\* Where a thread goes when updateTimer is done.
AfterUpdate(t) == CASE t = "event" /\ job["event"] = None -> "idle"
                    [] t = "event" /\ job["event"] # None ->
                           IF job["event"].answer = None THEN "progress" ELSE "dispatch"
                    [] t = "timer" -> "look"
                    [] OTHER       -> "done"
-----------------------------------------------------------------------------
(* GfTimer and TimerManager.  Adding a timer that is the first, or taking  *)
(* the first away, notifies the timer thread, which decides to wait before *)
(* it takes mMutexWait.                                                    *)

\* The timer thread is woken if it waits; the notification is lost on it if it
\* is about to.
Notified(steps) ==
    /\ IF steps["timer"] = "wait"
         THEN step' = [steps EXCEPT !["timer"] = "look"] /\ wake' = None
         ELSE step' = steps /\ UNCHANGED wake
    /\ missed' = (missed \/ steps["timer"] = "decided")

TimerStop(t) ==
    /\ At(t, "stop")
    /\ IF mRunning /\ due # None
         THEN /\ mRunning' = FALSE /\ due' = None
              /\ Notified([step EXCEPT ![t] = "find"])
         ELSE Goto(t, "find") /\ UNCHANGED timerVars
    /\ UNCHANGED <<listVars, profileVars, duration, job, air, result, sent, late, mixed, raced,
                   crashed>>

Waiting == {c \in Command : mExecutingList[c] # None}

\* Mutant: the time of a command past its time is not cut to zero.
TimePast(left) == left

TimeLeft(left) == IF left < 0 THEN 0 ELSE left

\* updateTimer, the search; the timer thread holds no mutex here.
FindEarliest(t) ==
    /\ At(t, "find")
    /\ IF Waiting = {}
         THEN Goto(t, AfterUpdate(t)) /\ UNCHANGED duration
         ELSE /\ Goto(t, "start")
              /\ \E c \in Waiting :
                    /\ \A o \in Waiting : mExecutingList[c].left <= mExecutingList[o].left
                    /\ duration' = [duration EXCEPT ![t] = TimeLeft(mExecutingList[c].left)]
    /\ mMutex' = IF Waiting = {} /\ mMutex = t THEN None ELSE mMutex
    /\ UNCHANGED <<mExecutingList, profileVars, job, timerVars, air, result, sent, late, mixed,
                   raced, crashed>>

TimerStart(t) ==
    /\ At(t, "start")
    /\ IF mRunning
         THEN Goto(t, AfterUpdate(t)) /\ UNCHANGED timerVars
         ELSE /\ mRunning' = TRUE /\ due' = duration[t]
              /\ Notified([step EXCEPT ![t] = AfterUpdate(t)])
    /\ mMutex' = IF mMutex = t THEN None ELSE mMutex
    /\ duration' = [duration EXCEPT ![t] = 0]
    /\ UNCHANGED <<mExecutingList, profileVars, job, air, result, sent, late, mixed, raced,
                   crashed>>

\* threadProc, under mMutexTimers.
ThreadLooks ==
    /\ At("timer", "look")
    /\ IF due = 0
         THEN Goto("timer", "trigger") /\ due' = None /\ UNCHANGED wake
         ELSE /\ Goto("timer", "decided")
              /\ wake' = IF due = None THEN None ELSE due
              /\ UNCHANGED due
    /\ UNCHANGED <<listVars, profileVars, duration, job, mRunning, missed, air, result, sent,
                   late, mixed, raced, crashed>>

ThreadWaits ==
    /\ At("timer", "decided")
    /\ Goto("timer", "wait")
    /\ UNCHANGED <<listVars, profileVars, duration, job, timerVars, air, result, sent, late,
                   mixed, raced, crashed>>

ThreadWakes ==
    /\ At("timer", "wait") /\ wake = 0
    /\ Goto("timer", "look")
    /\ wake' = None
    /\ UNCHANGED <<listVars, profileVars, duration, job, mRunning, due, missed, air, result,
                   sent, late, mixed, raced, crashed>>

Trigger ==
    /\ At("timer", "trigger")
    /\ mRunning' = FALSE
    /\ Goto("timer", "expire")
    /\ UNCHANGED <<listVars, profileVars, duration, job, due, wake, missed, air, result, sent,
                   late, mixed, raced, crashed>>

\* Time passes for the commands, the timer and the thread alike, while every
\* thread rests: a tick is long against the steps of a call.
Less(n) == IF n \in Nat /\ n > 0 THEN n - 1 ELSE n

Tick ==
    /\ ~crashed
    /\ \A t \in Thread : step[t] \in {"new", "done", "again", "idle", "wait", "look"}
    /\ Waiting # {} \/ wake # None \/ due # None
    /\ mExecutingList' = [c \in Command |->
           IF mExecutingList[c] = None \/ mExecutingList[c].left < 0 THEN mExecutingList[c]
           ELSE [mExecutingList[c] EXCEPT !.left = @ - 1]]
    /\ due' = IF due = None THEN None ELSE Less(due)
    /\ wake' = IF wake = None THEN None ELSE Less(wake)
    /\ UNCHANGED <<mMutex, profileVars, step, duration, job, mRunning, missed, air, result, sent,
                   late, mixed, raced, crashed>>
-----------------------------------------------------------------------------
(* DeviceSettingHandle.                                                    *)

\* Mutant: a command that waits for its answer is sent again.
MayAlwaysSend(r) == mMutex = None

\* sendCommand, to the test for the same command.
MaySend(r) == mMutex = None /\ mExecutingList[commandOfRequest(r)] = None

Packet(r) == IF r[1] \in Training THEN [sent EXCEPT ![r[1]] = @ \cup {r[2]}] ELSE sent

\* sendCommand: the device takes it; mMutex is kept until the timer is set.
SendCommand(t, r) ==
    /\ MaySend(r)
    /\ mExecutingList' = [mExecutingList EXCEPT
                             ![commandOfRequest(r)] = [request |-> r, left |-> TIMEOUT]]
    /\ mMutex' = t
    /\ air' = air \cup {r}
    /\ sent' = Packet(r)

\* sendCommand refuses, or the device does.
SendRefused(r) == mMutex = None /\ UNCHANGED <<listVars, air, sent>>

\* onResponse, in the hub's event thread: whatever waits under the command
\* gets the answer.
OnResponse(r) ==
    /\ At("event", "idle") /\ r \in air /\ mMutex = None
    /\ air' = air \ {r}
    /\ LET entry == mExecutingList[commandOfRequest(r)] IN
         IF entry = None
           THEN UNCHANGED <<listVars, step, job, mixed>>
           ELSE /\ mExecutingList' = [mExecutingList EXCEPT ![commandOfRequest(r)] = None]
                /\ job' = [job EXCEPT !["event"] = [request |-> entry.request, answer |-> r]]
                /\ mixed' = (mixed \/ entry.request # r)
                /\ mMutex' = "event"
                /\ Goto("event", "stop")
    /\ UNCHANGED <<profileVars, duration, timerVars, result, sent, late, raced, crashed>>

\* onTimer: one command past its time is taken out.
OnTimer ==
    /\ At("timer", "expire") /\ mMutex = None
    /\ \/ \E c \in Waiting :
             /\ mExecutingList[c].left < 0
             /\ mExecutingList' = [mExecutingList EXCEPT ![c] = None]
             /\ job' = [job EXCEPT !["timer"] =
                           [request |-> mExecutingList[c].request, answer |-> None]]
             /\ late' = TRUE
             /\ Goto("timer", "dispatch")
       \/ /\ \A c \in Waiting : mExecutingList[c].left >= 0
          /\ Goto("timer", "stop")
          /\ UNCHANGED <<mExecutingList, job, late>>
    /\ UNCHANGED <<mMutex, profileVars, duration, timerVars, air, result, sent, mixed, raced,
                   crashed>>

\* Mutant: the timer thread does not set the timer for what still waits.
DispatchedForGood(t) == IF t = "timer" THEN "look" ELSE "idle"

\* Once the answer is dispatched the timer thread sets the timer anew.
Dispatched(t) == IF t = "timer" THEN "stop" ELSE "idle"
-----------------------------------------------------------------------------
(* DeviceSettingDataProfile4.                                              *)

\* A get or set: sent, or refused.
AskDevice(c) ==
    /\ At(c, "new") /\ c \in Ask
    /\ \/ SendCommand(c, <<c, 0>>) /\ Goto(c, "stop") /\ UNCHANGED result
       \/ /\ SendRefused(<<c, 0>>)
          /\ Goto(c, "done")
          /\ result' = [result EXCEPT ![c] = "refused"]
    /\ UNCHANGED <<profileVars, duration, job, timerVars, late, mixed, raced, crashed>>

\* A get whose value the profile has: a client asks a second time.
AskKept(c) ==
    /\ At(c, "done") /\ c \in Ask /\ AskCommand[c] \in kept
    /\ result' = [result EXCEPT ![c] = "kept"]
    /\ Goto(c, "again")
    /\ UNCHANGED <<listVars, profileVars, duration, job, timerVars, air, sent, late, mixed,
                   raced, crashed>>

\* The answer of a get or set, or its timeout, reaches the client's callback.
DispatchAsk(t) ==
    /\ At(t, "dispatch") /\ job[t].request[1] \in Ask
    /\ LET c == job[t].request[1] IN
         IF job[t].answer = None
           THEN result' = [result EXCEPT ![c] = "timeout"] /\ UNCHANGED kept
           ELSE \E length \in Lengths :
                   /\ result' = [result EXCEPT ![c] = Parse(AskCommand[c], length)]
                   /\ kept' = kept \cup {k \in {AskCommand[c]} : Keeps(k, length)}
    /\ job' = [job EXCEPT ![t] = None]
    /\ Goto(t, Dispatched(t))
    /\ UNCHANGED <<listVars, trainVars, duration, timerVars, air, sent, late, mixed, raced,
                   crashed>>

\* sendTrainingModelData: the test, then the two assignments, without a lock.
TestBuffer(c) ==
    /\ At(c, "new") /\ c \in Training
    /\ IF mTraingModelBuffer # None
         THEN Goto(c, "done") /\ result' = [result EXCEPT ![c] = "refused"]
         ELSE Goto(c, "fill") /\ UNCHANGED result
    /\ UNCHANGED <<listVars, profileVars, duration, job, timerVars, air, sent, late, mixed, raced,
                   crashed>>

FillBuffer(c) ==
    /\ At(c, "fill")
    /\ raced' = (raced \/ mTraingModelBuffer # None
                       \/ \E t \in {"event", "timer"} : step[t] = "reset")
    /\ mTraingModelBuffer' = c /\ mTrainingModelCallback' = c
    /\ Goto(c, "send")
    /\ UNCHANGED <<listVars, kept, duration, job, timerVars, air, result, sent, late,
                   mixed, crashed>>

\* The first package of whatever the buffer holds; if it is refused the buffer
\* is given up.
SendFirst(c) ==
    /\ At(c, "send")
    /\ \/ /\ mTraingModelBuffer # None
          /\ SendCommand(c, <<mTraingModelBuffer, 1>>) /\ Goto(c, "stop")
       \/ SendRefused(<<c, 1>>) /\ Goto(c, "reset")
    /\ UNCHANGED <<profileVars, duration, job, timerVars, result, late, mixed, raced,
                   crashed>>

GiveUp(c) ==
    /\ At(c, "reset") /\ c \in Training
    /\ mTraingModelBuffer' = None /\ mTrainingModelCallback' = None
    /\ result' = [result EXCEPT ![c] = "refused"]
    /\ Goto(c, "done")
    /\ UNCHANGED <<listVars, kept, duration, job, timerVars, air, sent, late, mixed,
                   raced, crashed>>

\* mTrainingModelCallback, told the end of the training.
TellEnd(t, how) ==
    IF mTrainingModelCallback = None
      THEN crashed' = TRUE /\ UNCHANGED <<result, step>>
      ELSE /\ result' = [result EXCEPT ![mTrainingModelCallback] = how]
           /\ Goto(t, "reset")
           /\ UNCHANGED crashed

\* The device asks for the package after the one it answers, or fails.
NextPackage(t) == job[t].answer[2] + 1

\* trainingModelOnResponse: the end is told before the buffer is given up.
TrainingFails(t) ==
    /\ At(t, "dispatch") /\ job[t].request[1] \in Training
    /\ TellEnd(t, "failed")
    /\ UNCHANGED <<listVars, profileVars, duration, job, timerVars, air, sent, late,
                   mixed, raced>>

\* Mutant: the last package is taken for one past the end.
EndsAfter(n) == n >= Packages

PastTheEnd(n) == n > Packages

TrainingEnds(t) ==
    /\ At(t, "dispatch") /\ job[t].request[1] \in Training /\ job[t].answer # None
    /\ mTraingModelBuffer = None \/ PastTheEnd(NextPackage(t))
    /\ TellEnd(t, "success")
    /\ UNCHANGED <<listVars, profileVars, duration, job, timerVars, air, sent, late,
                   mixed, raced>>

\* trainingModelSendNextPackage, and the progress told once the timer is set.
TrainingGoesOn(t) ==
    /\ At(t, "dispatch") /\ job[t].request[1] \in Training /\ job[t].answer # None
    /\ mTraingModelBuffer # None /\ ~PastTheEnd(NextPackage(t))
    /\ SendCommand(t, <<mTraingModelBuffer, NextPackage(t)>>)
    /\ Goto(t, "stop")
    /\ job' = [job EXCEPT ![t].answer = None]
    /\ UNCHANGED <<profileVars, duration, timerVars, result, late, mixed, raced, crashed>>

\* The progress is part of the buffer's size: a buffer given up has none.
TellProgress ==
    /\ At("event", "progress")
    /\ crashed' = (mTraingModelBuffer = None)
    /\ job' = [job EXCEPT !["event"] = None]
    /\ Goto("event", "idle")
    /\ UNCHANGED <<listVars, profileVars, duration, timerVars, air, result, sent, late, mixed,
                   raced>>

ResetTraining(t) ==
    /\ At(t, "reset") /\ t \in {"event", "timer"}
    /\ mTraingModelBuffer' = None /\ mTrainingModelCallback' = None
    /\ job' = [job EXCEPT ![t] = None]
    /\ Goto(t, Dispatched(t))
    /\ UNCHANGED <<listVars, kept, duration, timerVars, air, result, sent, late, mixed,
                   raced, crashed>>

UpdateTimer(t) == TimerStop(t) \/ FindEarliest(t) \/ TimerStart(t)

Begin(c) == AskDevice(c) \/ AskKept(c) \/ TestBuffer(c)

GoOn(c) == FillBuffer(c) \/ SendFirst(c) \/ GiveUp(c)

Dispatch(t) ==
    \/ DispatchAsk(t) \/ TrainingFails(t) \/ TrainingEnds(t) \/ TrainingGoesOn(t)
    \/ ResetTraining(t)

TimerThread == ThreadLooks \/ ThreadWaits \/ ThreadWakes \/ Trigger \/ OnTimer

SettingsNext ==
    \/ \E t \in Thread : UpdateTimer(t)
    \/ \E c \in Calls : Begin(c) \/ GoOn(c)
    \/ \E t \in {"event", "timer"} : Dispatch(t)
    \/ \E r \in Request : OnResponse(r)
    \/ TellProgress
    \/ TimerThread
    \/ Tick

SettingsSpec == SettingsInit /\ [][SettingsNext]_settingsVars

\* Whoever has begun goes on, however often mMutex is taken from it (a call has few
\* steps, so that some call goes on is enough); the device need not answer, clients
\* need not call, and time passes whenever nobody runs.
SettingsFairness ==
    /\ SF_settingsVars(\E c \in Calls : UpdateTimer(c) \/ GoOn(c))
    /\ SF_settingsVars(UpdateTimer("event") \/ Dispatch("event") \/ TellProgress)
    /\ SF_settingsVars(UpdateTimer("timer") \/ Dispatch("timer") \/ TimerThread)
    /\ SF_settingsVars(Tick)

SettingsFairSpec == SettingsSpec /\ SettingsFairness
-----------------------------------------------------------------------------
Ticks == -1..TIMEOUT

SettingsTypeOK ==
    /\ mExecutingList \in [Command -> {None} \cup [request : Request, left : Ticks]]
    /\ \A c \in Waiting : commandOfRequest(mExecutingList[c].request) = c
    /\ mMutex \in Thread \cup {None}
    /\ {mTraingModelBuffer, mTrainingModelCallback} \subseteq Training \cup {None}
    /\ step \in [Thread -> {"new", "idle", "look", "decided", "wait", "trigger", "expire",
                            "dispatch", "reset", "fill", "send", "stop", "find", "start",
                            "done", "again", "progress"}]
    /\ duration \in [Thread -> 0..TIMEOUT]
    /\ job \in [{"event", "timer"} ->
                   {None} \cup [request : Request, answer : Request \cup {None}]]
    /\ {mRunning, late, mixed, raced, missed, crashed} \subseteq BOOLEAN
    /\ {due, wake} \subseteq (0..TIMEOUT) \cup {None}
    /\ air \subseteq Request
    /\ result \in [Calls -> {None, "refused", "success", "failed", "timeout", "kept"}]
    /\ kept \subseteq Command
    /\ sent \in [Training -> SUBSET (1..Packages)]

\* A callback is given the answer to the very command it was passed with, unless
\* some command had timed out before and its answer came late (the list by
\* command number of DeviceSettingHandle, its refusal of a second like command).
OwnAnswer == mixed => late

\* A training is reported a success only when every package of its model was
\* sent, unless a late answer stood in for one of them or two trainings began at
\* once (trainingModelOnResponse and trainingModelSendNextPackage).
WholeModelSent ==
    \A m \in Training : result[m] = "success" => sent[m] = 1..Packages \/ mixed \/ raced

\* Every call the device has taken is told how it ended, unless a notification
\* was lost on the timer thread or two trainings ran into each other
\* (updateTimer in three threads, GfTimer, TimerManager).
EveryCallEnds ==
    <>[](\A c \in Calls : step[c] \in {"stop", "find", "start", "done"} =>
                              result[c] # None \/ missed \/ raced)
=============================================================================
