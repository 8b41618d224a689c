----------------------------- MODULE CallProofs -----------------------------
(***************************************************************************)
(* The calls that wait for an answer.  The hub, with any number of         *)
(* clients, sessions, calls and spurious wake-ups: it carries a message    *)
(* out only while it has an AdapterManager, loses track of no waiting      *)
(* caller, and is a SerialService: each request runs exactly once and no   *)
(* call returns before.  The device settings, with any number of commands, *)
(* trainings and packages: a callback is given its own answer and a        *)
(* success means that every package was sent, with the exceptions the      *)
(* properties name.                                                        *)
(***************************************************************************)
EXTENDS HubCommand, DeviceSettings, SequenceTheorems, TLAPS

\* What Append, Head and Tail do to the message queue.
LEMMA QueueFacts ==
    ASSUME NEW S, NEW q \in Seq(S), NEW x \in S
    PROVE  /\ Append(q, x) \in Seq(S)
           /\ Len(Append(q, x)) = Len(q) + 1
           /\ \A i \in 1..Len(q) : Append(q, x)[i] = q[i]
           /\ Append(q, x)[Len(q) + 1] = x
           /\ Len(q) \in Nat
           /\ q # <<>> => /\ Head(q) \in S /\ Head(q) = q[1]
                          /\ Tail(q) \in Seq(S)
                          /\ Len(q) > 0 /\ Len(Tail(q)) = Len(q) - 1
                          /\ \A i \in 1..Len(Tail(q)) : Tail(q)[i] = q[i + 1]
BY AppendProperties, HeadTailProperties, EmptySeq, LenProperties

Names == Clients \cup {"session", "device", "event", "spurious"}

\* Spending a bound leaves numbers.
LEMMA SpendType ==
    ASSUME budget \in [Names -> Nat], NEW b \in Names, Spend(b)
    PROVE  budget' \in [Names -> Nat]
BY DEF Spend

\* A thread that calls begins with a fresh message.
LEMMA EnterType ==
    ASSUME TypeOK, NEW t \in Threads, Enter(t)
    PROVE  /\ executed' \in [Threads -> {0, 1}]
           /\ ran' \in [Threads -> {0, 1}]
           /\ pc' \in [Threads -> {"idle", "lock", "block", "waiting", "relock"}]
           /\ cleared' \subseteq Threads
BY DEF Enter, TypeOK

\* The variables of the hub have their types in every reachable state.
THEOREM TypeCorrect == Spec => []TypeOK
<1>a. Main \in Threads /\ Clients \subseteq Threads
  BY DEF Threads
<1>1. Init => TypeOK
  <2> SUFFICES ASSUME Init PROVE TypeOK
    OBVIOUS
  <2>1. budget \in [Names -> Nat]
    BY HubCommandAssumption DEF Init, Names
  <2>2. /\ executed \in [Threads -> {0, 1}]
        /\ ran \in [Threads -> {0, 1}]
        /\ pc \in [Threads -> {"idle", "lock", "block", "waiting", "relock"}]
        /\ mMsgQ \in Seq(Threads \cup {Exit})
    BY DEF Init
  <2> QED
    BY <2>1, <2>2 DEF Init, TypeOK, Names, MutexOwners
<1>2. TypeOK /\ [Next]_vars => TypeOK'
  <2> SUFFICES ASSUME TypeOK, [Next]_vars PROVE TypeOK'
    OBVIOUS
  <2>b. budget \in [Names -> Nat]
    BY DEF TypeOK, Names
  <2> USE DEF hubVars, queueVars, taskVars
  <2>1. ASSUME NEW t \in Clients, Call(t) PROVE TypeOK'
    <3>1. t \in Threads /\ Enter(t) /\ t \in Names /\ Spend(t)
      BY <1>a, <2>1 DEF Call, Names
    <3>2. budget' \in [Names -> Nat]
      BY <2>b, <3>1, SpendType
    <3> QED
      BY <2>1, <3>1, <3>2, EnterType DEF Call, TypeOK, Names
  <2>2. ASSUME NEW t \in Threads, PushMessage(t) PROVE TypeOK'
    <3>1. Append(mMsgQ, t) \in Seq(Threads \cup {Exit})
      BY AppendProperties DEF TypeOK
    <3> QED
      BY <2>2, <3>1 DEF PushMessage, TypeOK, MutexOwners
  <2>3. ASSUME NEW t \in Threads, Block(t) \/ Relock(t) PROVE TypeOK'
    BY <2>3 DEF Block, Relock, TypeOK, MutexOwners
  <2>4. ASSUME NEW t \in Threads, WakeSpuriously(t) PROVE TypeOK'
    <3>1. budget' \in [Names -> Nat]
      BY <2>4, <2>b, SpendType DEF WakeSpuriously, Names
    <3> QED
      BY <2>4, <3>1 DEF WakeSpuriously, TypeOK, Names
  <2>5. CASE PopMessage
    <3>1. /\ Tail(mMsgQ) \in Seq(Threads \cup {Exit})
          /\ Head(mMsgQ) \in Threads \cup {Exit}
      BY <2>5, HeadTailProperties DEF PopMessage, TypeOK
    <3> QED
      BY <2>5, <3>1 DEF PopMessage, TypeOK
  <2>6. CASE LockTask \/ NotifyCaller
    BY <2>6 DEF LockTask, NotifyCaller, TypeOK, MutexOwners
  <2>7. CASE RunTask \/ MarkExecuted
    BY <2>7 DEF RunTask, MarkExecuted, TypeOK, MutexOwners
  <2>8. CASE InitBegin
    <3>1. budget' \in [Names -> Nat]
      BY <2>8, <2>b, SpendType DEF InitBegin, Names
    <3> QED
      BY <2>8, <1>a, <3>1 DEF InitBegin, TypeOK, Names, MutexOwners
  <2>9. CASE InitFails \/ InitSucceeds
    BY <2>9 DEF InitFails, InitSucceeds, TypeOK, MutexOwners
  <2>10. CASE DeinitBegin \/ DeinitStopScan
    <3>1. Enter(Main)
      BY <2>10 DEF DeinitBegin, DeinitStopScan
    <3> QED
      BY <1>a, <2>10, <3>1, EnterType DEF DeinitBegin, DeinitStopScan, TypeOK
  <2>11. CASE DeinitDisconnect
    <3>1. budget' \in [Names -> Nat]
      BY <2>11, <2>b, SpendType DEF DeinitDisconnect, Names
    <3>2. Enter(Main)
      BY <2>11 DEF DeinitDisconnect
    <3> QED
      BY <1>a, <2>11, <3>1, <3>2, EnterType DEF DeinitDisconnect, TypeOK, Names
  <2>12. CASE DeinitPushExit
    <3>1. Append(mMsgQ, Exit) \in Seq(Threads \cup {Exit})
      BY AppendProperties DEF TypeOK
    <3> QED
      BY <2>12, <3>1 DEF DeinitPushExit, TypeOK
  <2>13. CASE DeinitUnregister \/ DeinitCopyDevices \/ DeinitJoin
    BY <2>13 DEF DeinitUnregister, DeinitCopyDevices, DeinitJoin, TypeOK
  <2>14. CASE DeinitClear
    <3>1. mMsgQ' \in Seq(Threads \cup {Exit}) /\ cleared' \subseteq Threads
      BY <2>14 DEF DeinitClear, TypeOK
    <3> QED
      BY <2>14, <1>a, <3>1 DEF DeinitClear, TypeOK, MutexOwners
  <2>17. CASE DeinitFinish
    BY <2>17 DEF DeinitFinish, TypeOK, MutexOwners
  <2>15. CASE EventBegin
    <3>1. budget' \in [Names -> Nat]
      BY <2>15, <2>b, SpendType DEF EventBegin, Names
    <3> QED
      BY <2>15, <3>1 DEF EventBegin, TypeOK, Names
  <2>16. CASE EventCallback \/ UNCHANGED vars
    BY <2>16 DEF EventCallback, vars, TypeOK
  <2> QED
    BY <2>1, <2>2, <2>3, <2>4, <2>5, <2>6, <2>7, <2>8, <2>9, <2>10, <2>11, <2>12,
       <2>13, <2>14, <2>15, <2>16, <2>17
    DEF Next, ClientStep, TaskStep, DeinitStep
<1> QED
  BY <1>1, <1>2, PTL DEF Spec
-----------------------------------------------------------------------------
\* While there is a command thread, and before deinit is over, there is a manager.
StageInv ==
    /\ taskPc # "none" =>
          stage \in {"up", "getState", "stopScan", "copy", "disconnect", "join"}
    /\ stage # "down" => mAM = "AM"

\* The hub's stages follow each other as init and deinit say, whatever the other
\* threads do (commandTask runs from init's end to deinit's join).
LEMMA StageInvariant == Spec => []StageInv
<1>1. Init => StageInv
  BY DEF Init, StageInv
<1>2. StageInv /\ [Next]_vars => StageInv'
  <2> SUFFICES ASSUME StageInv, [Next]_vars PROVE StageInv'
    OBVIOUS
  <2> USE DEF StageInv, hubVars, queueVars, taskVars
  <2>1. ASSUME NEW t \in Clients, Call(t) PROVE StageInv'
    BY <2>1 DEF Call
  <2>2. ASSUME NEW t \in Threads, ClientStep(t) \/ WakeSpuriously(t) PROVE StageInv'
    BY <2>2 DEF ClientStep, PushMessage, Block, Relock, WakeSpuriously
  <2>3. CASE TaskStep
    BY <2>3 DEF TaskStep, PopMessage, LockTask, RunTask, MarkExecuted, NotifyCaller
  <2>4. CASE InitBegin \/ InitFails \/ InitSucceeds
    BY <2>4 DEF InitBegin, InitFails, InitSucceeds
  <2>5. CASE DeinitBegin \/ DeinitStopScan \/ DeinitDisconnect
    BY <2>5 DEF DeinitBegin, DeinitStopScan, DeinitDisconnect
  <2>6. CASE DeinitStep
    BY <2>6 DEF DeinitStep, DeinitUnregister, DeinitCopyDevices, DeinitPushExit,
       DeinitJoin, DeinitClear, DeinitFinish
  <2>7. CASE EventBegin \/ EventCallback \/ UNCHANGED vars
    BY <2>7 DEF EventBegin, EventCallback, vars
  <2> QED
    BY <2>1, <2>2, <2>3, <2>4, <2>5, <2>6, <2>7 DEF Next
<1> QED
  BY <1>1, <1>2, PTL DEF Spec
-----------------------------------------------------------------------------
Waits(t) == pc[t] \in {"block", "waiting", "relock"}

\* A queued message waits for its one execution, and its thread for that.
QueuedInv ==
    /\ \A i \in 1..Len(mMsgQ) : mMsgQ[i] # Exit =>
          /\ Waits(mMsgQ[i])
          /\ executed[mMsgQ[i]] = 0 /\ ran[mMsgQ[i]] = 0
    /\ \A i, j \in 1..Len(mMsgQ) : mMsgQ[i] = mMsgQ[j] /\ mMsgQ[i] # Exit => i = j

\* So does the message in the hands of the command thread.
TaskInv ==
    /\ taskPc \in {"lock", "run", "ran"} =>
          /\ taskMsg \in Threads
          /\ Waits(taskMsg)
          /\ executed[taskMsg] = 0
          /\ ran[taskMsg] = (IF taskPc = "ran" THEN 1 ELSE 0)
          /\ ~In(taskMsg, mMsgQ)
    /\ taskPc = "notify" => taskMsg \in Threads

\* executed tells the truth, and a fresh message starts from nothing.
MessageInv ==
    \A t \in Threads :
       /\ executed[t] = 1 => ran[t] = 1
       /\ pc[t] = "lock" => executed[t] = 0 /\ ran[t] = 0

MsgInv == QueuedInv /\ TaskInv /\ MessageInv

\* No thread is the exit message.
LEMMA ExitIsNoThread == Exit \notin Threads
BY HubCommandAssumption DEF Threads, Main, Exit

\* A thread that is not in a call may begin one: nothing refers to its old message.
LEMMA EnterKeepsMsgInv ==
    ASSUME TypeOK, MsgInv, NEW t \in Threads, Enter(t), UNCHANGED <<mMsgQ, taskVars>>
    PROVE  MsgInv'
<1> USE DEF MsgInv, TypeOK, Waits, Enter, InCall, taskVars
<1>1. \A i \in 1..Len(mMsgQ) : mMsgQ[i] \in Threads \cup {Exit}
  BY ElementOfSeq
<1>2. \A i \in 1..Len(mMsgQ) : mMsgQ[i] # t
  BY ExitIsNoThread DEF QueuedInv
<1>3. QueuedInv'
  BY <1>1, <1>2 DEF QueuedInv
<1>4. TaskInv'
  BY DEF TaskInv, In
<1>5. MessageInv'
  BY DEF MessageInv
<1> QED
  BY <1>3, <1>4, <1>5

\* A thread moves on within its call, as long as it does not leave it unexecuted.
LEMMA WaitKeepsMsgInv ==
    ASSUME TypeOK, MsgInv, NEW t \in Threads,
           Block(t) \/ WakeSpuriously(t) \/ Relock(t)
    PROVE  MsgInv'
<1> USE DEF MsgInv, TypeOK, Waits, queueVars, taskVars
<1>1. /\ UNCHANGED <<mMsgQ, executed, ran, taskPc, taskMsg>>
      /\ \/ pc' = [pc EXCEPT ![t] = "waiting"] /\ Waits(t)
         \/ pc' = [pc EXCEPT ![t] = "relock"] /\ Waits(t)
         \/ pc' = [pc EXCEPT ![t] = "block"] /\ Waits(t)
         \/ pc' = [pc EXCEPT ![t] = "idle"] /\ Waits(t) /\ executed[t] = 1
  BY DEF Block, WakeSpuriously, Relock
<1>2. \A i \in 1..Len(mMsgQ) : mMsgQ[i] \in Threads \cup {Exit}
  BY ElementOfSeq
<1>3. QueuedInv'
  BY <1>1, <1>2 DEF QueuedInv
<1>4. TaskInv'
  BY <1>1 DEF TaskInv, In
<1>5. MessageInv'
  BY <1>1 DEF MessageInv
<1> QED
  BY <1>3, <1>4, <1>5

\* A message is queued behind the others.
LEMMA PushKeepsMsgInv ==
    ASSUME TypeOK, MsgInv, NEW t \in Threads, PushMessage(t)
    PROVE  MsgInv'
<1> USE DEF MsgInv, TypeOK, Waits, PushMessage, taskVars
<1>1. /\ Len(mMsgQ') = Len(mMsgQ) + 1 /\ Len(mMsgQ) \in Nat
      /\ \A i \in 1..Len(mMsgQ) : mMsgQ'[i] = mMsgQ[i]
      /\ mMsgQ'[Len(mMsgQ) + 1] = t
  BY QueueFacts
<1>2. \A i \in 1..Len(mMsgQ) : mMsgQ[i] \in Threads \cup {Exit}
  BY ElementOfSeq
<1>3. executed[t] = 0 /\ ran[t] = 0 /\ \A i \in 1..Len(mMsgQ) : mMsgQ[i] # t
  BY ExitIsNoThread DEF MessageInv, QueuedInv
<1>4. \A i \in 1..Len(mMsgQ') : i = Len(mMsgQ) + 1 \/ i \in 1..Len(mMsgQ)
  BY <1>1
<1>5. QueuedInv'
  BY <1>1, <1>2, <1>3, <1>4 DEF QueuedInv
<1>6. TaskInv'
  <2>1. taskPc \in {"lock", "run", "ran"} => taskMsg # t
    BY DEF TaskInv
  <2> QED
    BY <1>1, <1>4, <2>1 DEF TaskInv, In
<1>7. MessageInv'
  BY DEF MessageInv
<1> QED
  BY <1>5, <1>6, <1>7

\* The oldest message is taken over by the command thread, or ends it.
LEMMA PopKeepsMsgInv ==
    ASSUME TypeOK, MsgInv, PopMessage
    PROVE  MsgInv'
<1> USE DEF MsgInv, TypeOK, Waits, PopMessage
<1>1. /\ mMsgQ' = Tail(mMsgQ) /\ Head(mMsgQ) = mMsgQ[1]
      /\ Len(mMsgQ) \in Nat \ {0} /\ Len(mMsgQ') = Len(mMsgQ) - 1
      /\ \A i \in 1..Len(mMsgQ') : mMsgQ'[i] = mMsgQ[i + 1]
      /\ UNCHANGED <<executed, ran, pc>>
  BY QueueFacts, EmptySeq, HeadTailProperties
<1>2. \A i \in 1..Len(mMsgQ') : i + 1 \in 1..Len(mMsgQ) /\ i + 1 # 1
  BY <1>1
<1>3. QueuedInv'
  BY <1>1, <1>2 DEF QueuedInv
<1>4. TaskInv'
  <2>1. 1 \in 1..Len(mMsgQ) /\ mMsgQ[1] \in Threads \cup {Exit}
    BY <1>1, ElementOfSeq
  <2>2. CASE Head(mMsgQ) = Exit
    BY <2>2 DEF TaskInv
  <2>3. CASE Head(mMsgQ) # Exit
    <3>1. \A i \in 1..Len(mMsgQ') : mMsgQ'[i] # mMsgQ[1]
      BY <1>1, <1>2, <2>1, <2>3 DEF QueuedInv
    <3> QED
      BY <1>1, <2>1, <2>3, <3>1 DEF TaskInv, QueuedInv, In
  <2> QED
    BY <2>2, <2>3
<1>5. MessageInv'
  BY <1>1 DEF MessageInv
<1> QED
  BY <1>3, <1>4, <1>5

\* The command thread runs its message once and tells the caller afterwards.
LEMMA TaskKeepsMsgInv ==
    ASSUME TypeOK, MsgInv, LockTask \/ RunTask \/ MarkExecuted \/ NotifyCaller
    PROVE  MsgInv'
<1> USE DEF MsgInv, TypeOK, Waits, queueVars
<1>1. \A i \in 1..Len(mMsgQ) : mMsgQ[i] \in Threads \cup {Exit}
  BY ElementOfSeq
<1>2. CASE LockTask
  BY <1>2 DEF LockTask, QueuedInv, TaskInv, MessageInv, In
<1>3. CASE RunTask
  <2>1. \A i \in 1..Len(mMsgQ) : mMsgQ[i] # taskMsg
    BY <1>3 DEF RunTask, TaskInv, In
  <2> QED
    BY <1>1, <1>3, <2>1 DEF RunTask, QueuedInv, TaskInv, MessageInv, In
<1>4. CASE MarkExecuted
  <2>1. \A i \in 1..Len(mMsgQ) : mMsgQ[i] # taskMsg
    BY <1>4 DEF MarkExecuted, TaskInv, In
  <2> QED
    BY <1>1, <1>4, <2>1 DEF MarkExecuted, QueuedInv, TaskInv, MessageInv, In
<1>5. CASE NotifyCaller
  BY <1>1, <1>5 DEF NotifyCaller, QueuedInv, TaskInv, MessageInv, In
<1> QED
  BY <1>2, <1>3, <1>4, <1>5

\* deinit's own message, and deinit's dropping of all messages.
LEMMA DeinitKeepsMsgInv ==
    ASSUME TypeOK, MsgInv, DeinitPushExit \/ DeinitClear, taskPc = "none" \/ DeinitPushExit
    PROVE  MsgInv'
<1> USE DEF MsgInv, TypeOK, Waits, taskVars, hubVars
<1>1. CASE DeinitPushExit
  <2>1. /\ Len(mMsgQ') = Len(mMsgQ) + 1 /\ Len(mMsgQ) \in Nat
        /\ \A i \in 1..Len(mMsgQ) : mMsgQ'[i] = mMsgQ[i]
        /\ mMsgQ'[Len(mMsgQ) + 1] = Exit
        /\ UNCHANGED <<executed, ran, pc, taskPc, taskMsg>>
    BY <1>1, QueueFacts DEF DeinitPushExit
  <2>2. \A i \in 1..Len(mMsgQ') : i = Len(mMsgQ) + 1 \/ i \in 1..Len(mMsgQ)
    BY <2>1
  <2>3. QueuedInv'
    BY <2>1, <2>2 DEF QueuedInv
  <2>4. TaskInv'
    BY <2>1, <2>2, ExitIsNoThread DEF TaskInv, In
  <2> QED
    BY <2>1, <2>3, <2>4 DEF MessageInv
<1>2. CASE DeinitClear
  <2>1. Len(mMsgQ') = 0 /\ UNCHANGED <<executed, ran, pc, taskPc, taskMsg>>
    BY <1>2 DEF DeinitClear
  <2> QED
    BY <2>1 DEF QueuedInv, TaskInv, MessageInv, In
<1> QED
  BY <1>1, <1>2

\* Every message that is queued or at hand is waited for and not yet executed
\* (executeCommand against commandTask and deinit).
LEMMA MsgInvariant == Spec => []MsgInv
<1>1. Init => MsgInv
  BY DEF Init, MsgInv, QueuedInv, TaskInv, MessageInv, In
<1>2. TypeOK /\ StageInv /\ MsgInv /\ [Next]_vars => MsgInv'
  <2> SUFFICES ASSUME TypeOK, StageInv, MsgInv, [Next]_vars PROVE MsgInv'
    OBVIOUS
  <2>a. Main \in Threads /\ Clients \subseteq Threads
    BY DEF Threads
  <2>1. ASSUME NEW t \in Clients, Call(t) PROVE MsgInv'
    BY <2>1, <2>a, EnterKeepsMsgInv DEF Call
  <2>2. ASSUME NEW t \in Threads, ClientStep(t) \/ WakeSpuriously(t) PROVE MsgInv'
    BY <2>2, PushKeepsMsgInv, WaitKeepsMsgInv DEF ClientStep
  <2>3. CASE TaskStep
    BY <2>3, PopKeepsMsgInv, TaskKeepsMsgInv DEF TaskStep
  <2>4. CASE DeinitBegin \/ DeinitStopScan \/ DeinitDisconnect
    BY <2>4, <2>a, EnterKeepsMsgInv DEF DeinitBegin, DeinitStopScan, DeinitDisconnect
  <2>5. CASE DeinitPushExit
    BY <2>5, DeinitKeepsMsgInv
  <2>6. CASE DeinitClear
    <3>1. taskPc = "none"
      BY <2>6 DEF DeinitClear, StageInv
    <3> QED
      BY <2>6, <3>1, DeinitKeepsMsgInv
  <2>7. CASE InitSucceeds \/ DeinitJoin
    <3>1. UNCHANGED <<queueVars, pc, taskMsg>> /\ taskPc' \in {"pop", "none"}
      BY <2>7 DEF InitSucceeds, DeinitJoin
    <3> QED
      BY <3>1 DEF queueVars, MsgInv, QueuedInv, TaskInv, MessageInv, Waits, In
  <2>8. CASE InitBegin \/ InitFails \/ DeinitUnregister \/ DeinitCopyDevices
             \/ DeinitFinish \/ EventBegin \/ EventCallback \/ UNCHANGED vars
    <3>1. UNCHANGED <<queueVars, pc, taskVars>>
      BY <2>8 DEF InitBegin, InitFails, DeinitUnregister, DeinitCopyDevices, DeinitFinish,
         EventBegin, EventCallback, vars
    <3> QED
      BY <3>1 DEF queueVars, taskVars, MsgInv, QueuedInv, TaskInv, MessageInv, Waits, In
  <2> QED
    BY <2>1, <2>2, <2>3, <2>4, <2>5, <2>6, <2>7, <2>8 DEF Next, DeinitStep
<1> QED
  BY <1>1, <1>2, TypeCorrect, StageInvariant, PTL DEF Spec
-----------------------------------------------------------------------------
\* The second half of RunsOrWaits.
Somewhere(t) ==
    \/ In(t, mMsgQ)
    \/ taskMsg = t /\ taskPc \in {"lock", "run"}
    \/ t \in cleared

NoneForgotten == \A t \in Threads : Waits(t) /\ ran[t] = 0 => Somewhere(t)

\* A waiting caller whose message has not run is queued, served or dropped.
LEMMA NoneForgottenInvariant == Spec => []NoneForgotten
<1>1. Init => NoneForgotten
  BY DEF Init, NoneForgotten, Waits
<1>2. TypeOK /\ StageInv /\ NoneForgotten /\ [Next]_vars => NoneForgotten'
  <2> SUFFICES ASSUME TypeOK, StageInv, NoneForgotten, [Next]_vars PROVE NoneForgotten'
    OBVIOUS
  <2>a. Main \in Threads /\ Clients \subseteq Threads
    BY DEF Threads
  <2> USE DEF NoneForgotten, Somewhere, Waits, hubVars, queueVars, taskVars
  <2>e. ASSUME NEW t \in Threads, Enter(t), UNCHANGED <<mMsgQ, taskVars>>
        PROVE  NoneForgotten'
    BY <2>e DEF Enter, In, TypeOK
  <2>1. ASSUME NEW t \in Clients, Call(t) PROVE NoneForgotten'
    BY <2>1, <2>a, <2>e DEF Call
  <2>2. CASE DeinitBegin \/ DeinitStopScan \/ DeinitDisconnect
    BY <2>2, <2>a, <2>e DEF DeinitBegin, DeinitStopScan, DeinitDisconnect
  <2>q. ASSUME NEW x \in Threads \cup {Exit}, mMsgQ' = Append(mMsgQ, x)
        PROVE  \A u : In(u, mMsgQ) \/ u = x => In(u, mMsgQ)'
    <3>1. /\ Len(mMsgQ') = Len(mMsgQ) + 1 /\ Len(mMsgQ) \in Nat
          /\ \A i \in 1..Len(mMsgQ) : mMsgQ'[i] = mMsgQ[i]
          /\ mMsgQ'[Len(mMsgQ) + 1] = x
      BY <2>q, QueueFacts DEF TypeOK
    <3>2. \A i \in 1..Len(mMsgQ) : i \in 1..Len(mMsgQ')
      BY <3>1
    <3>3. Len(mMsgQ) + 1 \in 1..Len(mMsgQ')
      BY <3>1
    <3> QED
      BY <3>1, <3>2, <3>3 DEF In
  <2>3. ASSUME NEW t \in Threads, PushMessage(t) PROVE NoneForgotten'
    BY <2>3, <2>q DEF PushMessage, TypeOK
  <2>4. CASE DeinitPushExit
    BY <2>4, <2>q DEF DeinitPushExit, TypeOK
  <2>5. ASSUME NEW t \in Threads, Block(t) \/ WakeSpuriously(t) \/ Relock(t)
        PROVE  NoneForgotten'
    BY <2>5 DEF Block, WakeSpuriously, Relock, TypeOK, In
  <2>6. CASE PopMessage
    <3>1. /\ mMsgQ' = Tail(mMsgQ) /\ Head(mMsgQ) = mMsgQ[1]
          /\ Len(mMsgQ) \in Nat \ {0} /\ Len(mMsgQ') = Len(mMsgQ) - 1
          /\ \A i \in 1..Len(mMsgQ') : mMsgQ'[i] = mMsgQ[i + 1]
          /\ UNCHANGED <<executed, ran, pc, cleared>>
      BY <2>6, QueueFacts, EmptySeq, HeadTailProperties DEF PopMessage, TypeOK
    <3>2. ASSUME NEW u \in Threads, In(u, mMsgQ), u # Head(mMsgQ)
          PROVE  In(u, mMsgQ)'
      <4>1. PICK i \in 1..Len(mMsgQ) : mMsgQ[i] = u
        BY <3>2 DEF In
      <4>2. i - 1 \in 1..Len(mMsgQ') /\ (i - 1) + 1 = i
        BY <3>1, <3>2, <4>1
      <4> QED
        BY <3>1, <4>1, <4>2 DEF In
    <3>3. taskPc = "pop"
      BY <2>6 DEF PopMessage
    <3>4. CASE Head(mMsgQ) = Exit
      BY <2>6, <3>1, <3>2, <3>3, <3>4, ExitIsNoThread DEF PopMessage
    <3>5. CASE Head(mMsgQ) # Exit
      BY <2>6, <3>1, <3>2, <3>3, <3>5 DEF PopMessage
    <3> QED
      BY <3>4, <3>5
  <2>7. CASE LockTask \/ RunTask \/ MarkExecuted
    BY <2>7 DEF LockTask, RunTask, MarkExecuted, TypeOK, In
  <2>8. CASE NotifyCaller
    BY <2>8 DEF NotifyCaller, TypeOK, In
  <2>9. CASE DeinitClear
    <3>1. /\ cleared' = cleared \cup {t \in Threads : In(t, mMsgQ)}
          /\ UNCHANGED <<ran, pc, taskPc, taskMsg>>
      BY <2>9 DEF DeinitClear
    <3> QED
      BY <3>1
  <2>10. CASE InitSucceeds \/ DeinitJoin
    <3>1. UNCHANGED <<mMsgQ, ran, pc, cleared>> /\ taskPc \in {"none", "exited"}
      <4>1. InitSucceeds => taskPc = "none"
        BY DEF InitSucceeds, StageInv, TypeOK
      <4> QED
        BY <2>10, <4>1 DEF InitSucceeds, DeinitJoin
    <3> QED
      BY <3>1 DEF In
  <2>11. CASE InitBegin \/ InitFails \/ DeinitUnregister \/ DeinitCopyDevices
              \/ DeinitFinish \/ EventBegin \/ EventCallback \/ UNCHANGED vars
    <3>1. UNCHANGED <<mMsgQ, ran, pc, taskVars, cleared>>
      BY <2>11 DEF InitBegin, InitFails, DeinitUnregister, DeinitCopyDevices,
         DeinitFinish, EventBegin, EventCallback, vars
    <3> QED
      BY <3>1 DEF In
  <2> QED
    BY <2>1, <2>2, <2>3, <2>4, <2>5, <2>6, <2>7, <2>8, <2>9, <2>10, <2>11
    DEF Next, ClientStep, TaskStep, DeinitStep
<1> QED
  BY <1>1, <1>2, TypeCorrect, StageInvariant, PTL DEF Spec

\* No message is carried out without an AdapterManager, and no waiting caller is
\* forgotten, for any number of clients, sessions and wake-ups (init and deinit
\* against executeCommand and commandTask).
THEOREM NobodyForgotten == Spec => []RunsOrWaits
<1>1. StageInv /\ NoneForgotten => RunsOrWaits
  BY DEF StageInv, NoneForgotten, Somewhere, Waits, RunsOrWaits
<1> QED
  BY <1>1, StageInvariant, NoneForgottenInvariant, PTL
-----------------------------------------------------------------------------
\* What a thread's caller sees of its call, as SerialService has it.
CallOf(t) == IF pc[t] = "idle" THEN "idle" ELSE IF ran[t] = 1 THEN "done" ELSE "pending"

\* The call of one thread changes.
LEMMA OneCallChanges ==
    ASSUME NEW t \in Threads, NEW x, CallOf(t)' = x,
           \A u \in Threads : u # t => CallOf(u)' = CallOf(u)
    PROVE  [u \in Threads |-> CallOf(u)]' = [[u \in Threads |-> CallOf(u)] EXCEPT ![t] = x]
OBVIOUS

\* A new call is an invocation.
LEMMA EnterIsInvoke ==
    ASSUME TypeOK, NEW t \in Threads, Enter(t)
    PROVE  Service!Invoke(t)
<1>1. CallOf(t) = "idle" /\ CallOf(t)' = "pending"
  BY DEF Enter, InCall, TypeOK, CallOf
<1>2. \A u \in Threads : u # t => CallOf(u)' = CallOf(u)
  BY DEF Enter, TypeOK, CallOf
<1>3. /\ [u \in Threads |-> CallOf(u)][t] = "idle"
      /\ [u \in Threads |-> CallOf(u)]' =
            [[u \in Threads |-> CallOf(u)] EXCEPT ![t] = "pending"]
  BY <1>1, <1>2, OneCallChanges
<1> QED
  BY <1>3 DEF Service!Invoke, CallOf

\* The return of a call follows its execution.
LEMMA RelockIsReturn ==
    ASSUME TypeOK, MsgInv, NEW t \in Threads, Relock(t)
    PROVE  Service!Return(t) \/ UNCHANGED [u \in Threads |-> CallOf(u)]
<1> USE DEF TypeOK, queueVars, CallOf
<1>1. CASE executed[t] = 1
  <2>1. ran[t] = 1 /\ pc[t] = "relock"
    BY <1>1 DEF MsgInv, MessageInv, Relock
  <2>2. CallOf(t) = "done" /\ CallOf(t)' = "idle"
    BY <1>1, <2>1 DEF Relock
  <2>3. \A u \in Threads : u # t => CallOf(u)' = CallOf(u)
    BY <1>1 DEF Relock
  <2>4. /\ [u \in Threads |-> CallOf(u)][t] = "done"
        /\ [u \in Threads |-> CallOf(u)]' =
              [[u \in Threads |-> CallOf(u)] EXCEPT ![t] = "idle"]
    BY <2>2, <2>3, OneCallChanges
  <2> QED
    BY <2>4 DEF Service!Return
<1>2. CASE executed[t] = 0
  BY <1>2 DEF Relock
<1> QED
  BY <1>1, <1>2

\* executeCommand with all its threads, locks and wake-ups is a SerialService: each
\* request runs exactly once and no call returns before its request has run.
THEOREM ServiceRefined == Spec => ImplementsService
<1> DEFINE Callers == [t \in Threads |->
                      IF pc[t] = "idle" THEN "idle"
                      ELSE IF ran[t] = 1 THEN "done" ELSE "pending"]
<1>1. Init => Service!Init
  BY DEF Init, Service!Init
<1>2. TypeOK /\ MsgInv /\ [Next]_vars => [Service!Next]_Callers
  <2> SUFFICES ASSUME TypeOK, MsgInv, [Next]_vars PROVE Service!Next \/ UNCHANGED Callers
    OBVIOUS
  <2>a. Main \in Threads /\ Clients \subseteq Threads
    BY DEF Threads
  <2> USE DEF Service!Next
  <2>1. ASSUME NEW t \in Clients, Call(t) PROVE Service!Next
    BY <2>1, <2>a, EnterIsInvoke DEF Call
  <2>2. CASE DeinitBegin \/ DeinitStopScan \/ DeinitDisconnect
    BY <2>2, <2>a, EnterIsInvoke DEF DeinitBegin, DeinitStopScan, DeinitDisconnect
  <2>3. ASSUME NEW t \in Threads, PushMessage(t) \/ Block(t) \/ WakeSpuriously(t)
        PROVE  UNCHANGED Callers
    <3>1. /\ UNCHANGED ran /\ pc[t] # "idle"
          /\ \E s \in {"block", "waiting", "relock"} : pc' = [pc EXCEPT ![t] = s]
      BY <2>3 DEF PushMessage, Block, WakeSpuriously, queueVars
    <3> QED
      BY <3>1 DEF TypeOK
  <2>4. ASSUME NEW t \in Threads, Relock(t) PROVE Service!Next \/ UNCHANGED Callers
    BY <2>4, RelockIsReturn DEF CallOf
  <2>5. CASE RunTask
    <3>1. /\ taskMsg \in Threads /\ pc[taskMsg] # "idle" /\ ran[taskMsg] = 0
          /\ ran' = [ran EXCEPT ![taskMsg] = 1] /\ pc' = pc
      BY <2>5 DEF RunTask, MsgInv, TaskInv, Waits
    <3>2. PICK t \in Threads : t = taskMsg
      BY <3>1
    <3>3. /\ pc[t] # "idle" /\ ran[t] = 0
          /\ ran' = [ran EXCEPT ![t] = 1] /\ pc' = pc
      BY <3>1, <3>2
    <3>4. CallOf(t) = "pending" /\ CallOf(t)' = "done"
      BY <3>3 DEF CallOf, TypeOK
    <3>5. \A u \in Threads : u # t => CallOf(u)' = CallOf(u)
      BY <3>3 DEF CallOf, TypeOK
    <3>6. /\ [u \in Threads |-> CallOf(u)][t] = "pending"
          /\ [u \in Threads |-> CallOf(u)]' =
                [[u \in Threads |-> CallOf(u)] EXCEPT ![t] = "done"]
      BY <3>4, <3>5, OneCallChanges
    <3>7. Service!Execute(t)
      BY <3>6 DEF Service!Execute, CallOf
    <3> QED
      BY <3>7
  <2>6. CASE NotifyCaller
    BY <2>6 DEF NotifyCaller, queueVars, TypeOK
  <2>7. CASE PopMessage \/ LockTask \/ MarkExecuted \/ InitBegin \/ InitFails
             \/ InitSucceeds \/ DeinitStep \/ EventBegin \/ EventCallback
             \/ UNCHANGED vars
    <3>1. UNCHANGED <<ran, pc>>
      BY <2>7 DEF PopMessage, LockTask, MarkExecuted, InitBegin, InitFails, InitSucceeds,
         DeinitStep, DeinitUnregister, DeinitCopyDevices, DeinitPushExit, DeinitJoin,
         DeinitClear, DeinitFinish, EventBegin, EventCallback, vars, queueVars
    <3> QED
      BY <3>1
  <2> QED
    BY <2>1, <2>2, <2>3, <2>4, <2>5, <2>6, <2>7 DEF Next, ClientStep, TaskStep
<1> QED
  BY <1>1, <1>2, TypeCorrect, MsgInvariant, PTL
     DEF Spec, ImplementsService, Service!Spec
-----------------------------------------------------------------------------
(* The device settings: the two threads that dispatch, and the types.      *)

Answerer == {"event", "timer"}

StepName == {"new", "idle", "look", "decided", "wait", "trigger", "expire", "dispatch", "reset",
             "fill", "send", "stop", "find", "start", "done", "again", "progress"}
Entry == [request : Request, left : Ticks]
Job == [request : Request, answer : Request \cup {None}]

\* What waits in the list.
ListType ==
    /\ mExecutingList \in [Command -> {None} \cup Entry]
    /\ \A k \in Command : mExecutingList[k] # None =>
                              commandOfRequest(mExecutingList[k].request) = k

\* Where the threads are, and what the two that dispatch have in hand.
PlaceType ==
    /\ mMutex \in Thread \cup {None}
    /\ mTraingModelBuffer \in Training \cup {None}
    /\ mTrainingModelCallback \in Training \cup {None}
    /\ step \in [Thread -> StepName]
    /\ job \in [Answerer -> {None} \cup Job]
    /\ \A t \in Calls : step[t] \in {"fill", "send", "reset"} => t \in Training
    /\ step["event"] # "idle" => job["event"] # None
    /\ step["event"] \in {"dispatch", "reset"} => job["event"].answer # None
    /\ step["timer"] \in {"dispatch", "reset"} => job["timer"] # None
    /\ \A t \in Answerer : step[t] = "reset" => job[t].request[1] \in Training
    /\ job["timer"] # None => job["timer"].answer = None

\* The timer.
TimeType ==
    /\ duration \in [Thread -> 0..TIMEOUT]
    /\ due \in (0..TIMEOUT) \cup {None}
    /\ wake \in (0..TIMEOUT) \cup {None}

\* What calls were told, and what the device was sent.
ToldType ==
    /\ air \subseteq Request
    /\ result \in [Calls -> {None, "refused", "success", "failed", "timeout", "kept"}]
    /\ kept \subseteq Command
    /\ sent \in [Training -> SUBSET (1..Packages)]

FlagType ==
    /\ mRunning \in BOOLEAN /\ late \in BOOLEAN /\ mixed \in BOOLEAN
    /\ raced \in BOOLEAN /\ missed \in BOOLEAN /\ crashed \in BOOLEAN

SettingsTypes == ListType /\ PlaceType /\ TimeType /\ ToldType

AirInv ==
    /\ mixed => late
    /\ ~late => \A r \in air : /\ mExecutingList[commandOfRequest(r)] # None
                               /\ mExecutingList[commandOfRequest(r)].request = r

Listed(k, m) == mExecutingList[k] # None /\ mExecutingList[k].request[1] = m

Holds(t, m) ==
    IF t \in Calls THEN t = m /\ step[t] \in {"send", "reset"}
                   ELSE /\ job[t] # None /\ job[t].request[1] = m
                        /\ t = "event" => job[t].answer # None

BufferInv ==
    /\ mTrainingModelCallback = mTraingModelBuffer
    /\ \A t \in Thread, m \in Training : Holds(t, m) => mTraingModelBuffer = m
    /\ \A k \in Command, m \in Training : Listed(k, m) => mTraingModelBuffer = m

OneHolder ==
    \A t \in Thread, m \in Training :
        Holds(t, m) => /\ \A u \in Thread : Holds(u, m) => u = t
                       /\ \A k \in Command : ~Listed(k, m)

SentInv ==
    /\ \A m \in Training : step[m] \in {"new", "fill", "send"} => sent[m] = {}
    /\ \A m \in Training : step[m] \in {"new", "fill"} => mTraingModelBuffer # m
    /\ \A k \in Command, m \in Training :
          Listed(k, m) => sent[m] = 1..mExecutingList[k].request[2]
    /\ \A m \in Training :
          Holds("event", m) => /\ job["event"].answer = job["event"].request
                               /\ sent[m] = 1..job["event"].request[2]
    /\ \A m \in Training : result[m] = "success" => sent[m] = 1..Packages

ModelInv == ~mixed /\ ~raced => BufferInv /\ OneHolder /\ SentInv
-----------------------------------------------------------------------------
\* The threads are different, and a null pointer is none of what it is told from.
LEMMA ThreadFacts ==
    /\ Calls \subseteq Thread /\ Training \subseteq Calls /\ Ask \subseteq Calls
    /\ Answerer \subseteq Thread /\ Thread = Calls \cup Answerer
    /\ "event" \notin Calls /\ "timer" \notin Calls
    /\ None \notin Calls /\ None \notin Training /\ None \notin Thread
    /\ None \notin Request
    /\ Ask \cap Training = {}
BY NoneAssumption, DeviceSettingsAssumption DEF Calls, Thread, Answerer

\* A null pointer is no entry of the list and no job.
LEMMA NoneFacts ==
    /\ None \notin Entry /\ None \notin Job /\ None \notin 0..TIMEOUT
    /\ TIMEOUT \in Nat /\ TIMEOUT > 0 /\ Packages \in Nat /\ Packages > 0
BY NoneAssumption, DeviceSettingsAssumption DEF Entry, Job, Ticks

\* What a request is made of.
LEMMA RequestFacts ==
    ASSUME NEW r \in Request
    PROVE  /\ r[1] \in Calls /\ r[2] \in Nat /\ r = <<r[1], r[2]>>
           /\ r[1] \in Training => r[2] \in 1..Packages
           /\ commandOfRequest(r) \in Command
           /\ r # None
<1>1. CASE r \in Ask \X {0}
  BY <1>1, ThreadFacts DEF Command, commandOfRequest
<1>2. CASE r \in Training \X (1..Packages)
  BY <1>2, ThreadFacts, NoneFacts DEF Command, commandOfRequest
<1> QED
  BY <1>1, <1>2 DEF Request

\* The first and the next package of a model are requests.
LEMMA PackageIsRequest ==
    ASSUME NEW m \in Training, NEW n \in 1..Packages
    PROVE  /\ <<m, n>> \in Request /\ <<m, n>>[1] = m /\ <<m, n>>[2] = n
           /\ commandOfRequest(<<m, n>>) = "SEND_TRAINING_PACKAGE"
BY DEF Request, commandOfRequest, commandOf

\* So is that of a simple command.
LEMMA AskIsRequest ==
    ASSUME NEW c \in Ask
    PROVE  /\ <<c, 0>> \in Request /\ <<c, 0>>[1] = c
           /\ AskCommand[c] \in Command
BY ThreadFacts DEF Request, commandOf, Command

\* What sendCommand leaves: its entry, the request on the air, its package sent.
LEMMA SendDoes ==
    ASSUME ListType, ToldType, NEW t \in Thread, NEW r \in Request, SendCommand(t, r)
    PROVE  /\ ListType' /\ mMutex' \in Thread
           /\ mExecutingList[commandOfRequest(r)] = None
           /\ \A k \in Command : mExecutingList'[k] =
                 IF k = commandOfRequest(r) THEN [request |-> r, left |-> TIMEOUT]
                                            ELSE mExecutingList[k]
           /\ air' = air \cup {r} /\ air' \subseteq Request
           /\ sent' \in [Training -> SUBSET (1..Packages)]
           /\ \A m \in Training :
                 sent'[m] = IF m = r[1] THEN sent[m] \cup {r[2]} ELSE sent[m]
<1> DEFINE e == [request |-> r, left |-> TIMEOUT]
<1>1. /\ r[1] \in Training => r[2] \in 1..Packages
      /\ commandOfRequest(r) \in Command
  BY RequestFacts
<1>2. e \in Entry /\ e # None /\ e.request = r
  BY NoneFacts DEF Entry, Ticks
<1>3. /\ mExecutingList' = [mExecutingList EXCEPT ![commandOfRequest(r)] = e]
      /\ mMutex' = t /\ air' = air \cup {r} /\ sent' = Packet(r)
      /\ mExecutingList[commandOfRequest(r)] = None
  BY DEF SendCommand, MaySend
<1> HIDE DEF e
<1>4. ListType'
  BY <1>1, <1>2, <1>3 DEF ListType
<1>5. \A k \in Command :
         mExecutingList'[k] = IF k = commandOfRequest(r) THEN e ELSE mExecutingList[k]
  BY <1>1, <1>3 DEF ListType
<1>6. /\ sent' \in [Training -> SUBSET (1..Packages)]
      /\ \A m \in Training :
            sent'[m] = IF m = r[1] THEN sent[m] \cup {r[2]} ELSE sent[m]
  BY <1>1, <1>3 DEF ToldType, Packet
<1> QED
  BY <1>3, <1>4, <1>5, <1>6 DEF ToldType, e
\* The package a training goes on with.
LEMMA GoesOnWith ==
    ASSUME PlaceType, NEW t \in Answerer, TrainingGoesOn(t)
    PROVE  /\ mTraingModelBuffer \in Training /\ NextPackage(t) \in 1..Packages
           /\ <<mTraingModelBuffer, NextPackage(t)>> \in Request
           /\ SendCommand(t, <<mTraingModelBuffer, NextPackage(t)>>)
           /\ job[t] \in Job /\ job[t].answer \in Request /\ t = "event"
           /\ job' = [job EXCEPT ![t] = [job[t] EXCEPT !.answer = None]]
           /\ step' = [step EXCEPT ![t] = "stop"]
<1>1. /\ step[t] = "dispatch" /\ job[t].answer # None /\ mTraingModelBuffer # None
      /\ ~(NextPackage(t) > Packages)
      /\ SendCommand(t, <<mTraingModelBuffer, NextPackage(t)>>)
      /\ step' = [step EXCEPT ![t] = "stop"]
      /\ job' = [job EXCEPT ![t] = [job[t] EXCEPT !.answer = None]]
  BY DEF TrainingGoesOn, At, Goto, PastTheEnd
<1>2. mTraingModelBuffer \in Training
  BY <1>1 DEF PlaceType
<1>3. job[t] \in Job /\ job[t] # None
  BY <1>1 DEF PlaceType, Answerer
<1>4. job[t].answer \in Request
  BY <1>1, <1>3 DEF Job
<1>5. NextPackage(t) \in 1..Packages
  BY <1>1, <1>4, RequestFacts, NoneFacts DEF NextPackage
<1>6. t = "event"
  BY <1>1, <1>3 DEF PlaceType, Answerer
<1> QED
  BY <1>1, <1>2, <1>3, <1>4, <1>5, <1>6, PackageIsRequest

\* What AskDevice sends, or that it does not.
LEMMA AskSends ==
    ASSUME NEW c \in Calls, AskDevice(c)
    PROVE  /\ c \in Ask /\ <<c, 0>> \in Request
           /\ step[c] = "new"
           /\ \/ /\ SendCommand(c, <<c, 0>>) /\ step' = [step EXCEPT ![c] = "stop"]
                 /\ result' = result
              \/ /\ SendRefused(<<c, 0>>) /\ step' = [step EXCEPT ![c] = "done"]
                 /\ result' = [result EXCEPT ![c] = "refused"]
           /\ UNCHANGED <<mTraingModelBuffer, mTrainingModelCallback, kept, job, late, mixed,
                          raced>>
BY AskIsRequest DEF AskDevice, At, Goto, profileVars, trainVars

\* What the first package of a training is.
LEMMA FirstSends ==
    ASSUME PlaceType, NEW c \in Calls, SendFirst(c)
    PROVE  /\ c \in Training /\ step[c] = "send"
           /\ \/ /\ mTraingModelBuffer \in Training
                 /\ <<mTraingModelBuffer, 1>> \in Request
                 /\ SendCommand(c, <<mTraingModelBuffer, 1>>)
                 /\ step' = [step EXCEPT ![c] = "stop"]
              \/ SendRefused(<<c, 1>>) /\ step' = [step EXCEPT ![c] = "reset"]
           /\ UNCHANGED <<mTraingModelBuffer, mTrainingModelCallback, kept, job, result, late,
                          mixed, raced>>
<1>1. 1 \in 1..Packages
  BY NoneFacts
<1>2. mTraingModelBuffer # None => mTraingModelBuffer \in Training
  BY DEF PlaceType
<1> QED
  BY <1>1, <1>2, PackageIsRequest DEF SendFirst, At, Goto, profileVars, trainVars, PlaceType

\* What an answer does: nobody waits for it, or whoever waits gets it.
LEMMA ResponseDoes ==
    ASSUME ListType, PlaceType, NEW r \in Request, OnResponse(r)
    PROVE  /\ step["event"] = "idle" /\ r \in air /\ air' = air \ {r}
           /\ commandOfRequest(r) \in Command
           /\ \/ /\ mExecutingList[commandOfRequest(r)] = None
                 /\ UNCHANGED <<mExecutingList, mMutex, step, job, mixed>>
              \/ /\ mExecutingList[commandOfRequest(r)] \in Entry
                 /\ mExecutingList[commandOfRequest(r)] # None
                 /\ mExecutingList' = [mExecutingList EXCEPT ![commandOfRequest(r)] = None]
                 /\ job' = [job EXCEPT !["event"] =
                       [request |-> mExecutingList[commandOfRequest(r)].request, answer |-> r]]
                 /\ mixed' = (mixed \/ mExecutingList[commandOfRequest(r)].request # r)
                 /\ mMutex' = "event" /\ step' = [step EXCEPT !["event"] = "stop"]
           /\ UNCHANGED <<mTraingModelBuffer, mTrainingModelCallback, kept, result, sent, late,
                          raced>>
<1>1. commandOfRequest(r) \in Command
  BY RequestFacts
<1>2. mExecutingList[commandOfRequest(r)] # None =>
         mExecutingList[commandOfRequest(r)] \in Entry
  BY <1>1 DEF ListType
<1> QED
  BY <1>1, <1>2 DEF OnResponse, At, Goto, listVars, profileVars, trainVars

\* What the timer does: a command past its time is taken out, or there is none.
LEMMA TimerDoes ==
    ASSUME ListType, PlaceType, OnTimer
    PROVE  /\ step["timer"] = "expire"
           /\ \/ \E k \in Command :
                    /\ mExecutingList[k] \in Entry /\ mExecutingList[k] # None
                    /\ mExecutingList' = [mExecutingList EXCEPT ![k] = None]
                    /\ job' = [job EXCEPT !["timer"] =
                                  [request |-> mExecutingList[k].request, answer |-> None]]
                    /\ late' = TRUE /\ step' = [step EXCEPT !["timer"] = "dispatch"]
              \/ /\ UNCHANGED <<mExecutingList, job, late>>
                 /\ step' = [step EXCEPT !["timer"] = "stop"]
           /\ UNCHANGED <<mMutex, mTraingModelBuffer, mTrainingModelCallback, kept, result, sent,
                          air, mixed, raced>>
<1>1. Waiting = {k \in Command : mExecutingList[k] \in Entry /\ mExecutingList[k] # None}
  BY DEF Waiting, ListType
<1> QED
  BY <1>1 DEF OnTimer, At, Goto, listVars, profileVars, trainVars

\* A tick leaves the requests that wait what they are.
LEMMA TickDoes ==
    ASSUME ListType, Tick
    PROVE  /\ ListType'
           /\ \A k \in Command :
                 /\ mExecutingList'[k] = None <=> mExecutingList[k] = None
                 /\ mExecutingList[k] # None =>
                       mExecutingList'[k].request = mExecutingList[k].request
           /\ UNCHANGED <<mMutex, mTraingModelBuffer, mTrainingModelCallback, kept, step, job,
                          result, sent, air, late, mixed, raced>>
<1>1. mExecutingList' = [k \in Command |->
           IF mExecutingList[k] = None \/ mExecutingList[k].left < 0 THEN mExecutingList[k]
           ELSE [mExecutingList[k] EXCEPT !.left = mExecutingList[k].left - 1]]
  BY DEF Tick
<1>2. \A k \in Command :
         /\ mExecutingList'[k] \in {None} \cup Entry
         /\ mExecutingList'[k] = None <=> mExecutingList[k] = None
         /\ mExecutingList[k] # None => mExecutingList'[k].request = mExecutingList[k].request
  <2> SUFFICES ASSUME NEW k \in Command
               PROVE  /\ mExecutingList'[k] \in {None} \cup Entry
                      /\ mExecutingList'[k] = None <=> mExecutingList[k] = None
                      /\ mExecutingList[k] # None =>
                            mExecutingList'[k].request = mExecutingList[k].request
    OBVIOUS
  <2>1. CASE mExecutingList[k] = None \/ mExecutingList[k].left < 0
    BY <1>1, <2>1 DEF ListType
  <2>2. CASE ~(mExecutingList[k] = None \/ mExecutingList[k].left < 0)
    <3>1. mExecutingList[k] \in Entry
      BY <2>2 DEF ListType
    <3>2. mExecutingList'[k] = [mExecutingList[k] EXCEPT !.left = mExecutingList[k].left - 1]
      BY <1>1, <2>2
    <3>3. /\ mExecutingList'[k] \in Entry
          /\ mExecutingList'[k].request = mExecutingList[k].request
      BY <2>2, <3>1, <3>2, NoneFacts DEF Entry, Ticks
    <3> QED
      BY <2>2, <3>3, NoneFacts
  <2> QED
    BY <2>1, <2>2
<1>3. mExecutingList' \in [Command -> {None} \cup Entry]
  BY <1>1, <1>2
<1> QED
  BY <1>2, <1>3 DEF ListType, Tick, profileVars, trainVars

\* A call that moves to an end or to its training leaves the threads where they may be.
LEMMA CallMoves ==
    ASSUME PlaceType, NEW c \in Calls, NEW s \in {"stop", "done", "reset"},
           s = "reset" => c \in Training,
           step' = [step EXCEPT ![c] = s], mMutex' \in Thread \cup {None},
           UNCHANGED <<mTraingModelBuffer, mTrainingModelCallback, job>>
    PROVE  PlaceType'
<1>1. s \in StepName
  BY DEF StepName
<1>2. /\ step' \in [Thread -> StepName]
      /\ \A t \in Answerer : step'[t] = step[t]
      /\ \A t \in Calls : step'[t] = IF t = c THEN s ELSE step[t]
  BY <1>1, ThreadFacts DEF PlaceType, Answerer
<1> QED
  BY <1>2 DEF PlaceType, Answerer

\* The timer thread with a command in hand, too.
LEMMA TimerMoves ==
    ASSUME PlaceType, NEW j \in Job, j # None, j.answer = None,
           step' = [step EXCEPT !["timer"] = "dispatch"], job' = [job EXCEPT !["timer"] = j],
           UNCHANGED <<mMutex, mTraingModelBuffer, mTrainingModelCallback>>
    PROVE  PlaceType'
<1>1. /\ step' \in [Thread -> StepName]
      /\ \A t \in Thread : step'[t] = IF t = "timer" THEN "dispatch" ELSE step[t]
  BY ThreadFacts DEF PlaceType, Answerer, StepName
<1>2. /\ job' \in [Answerer -> {None} \cup Job]
      /\ job'["timer"] = j /\ job'["event"] = job["event"]
  BY DEF PlaceType, Answerer
<1> QED
  BY <1>1, <1>2, ThreadFacts DEF PlaceType, Answerer

\* An entry of the list is a request of its command.
LEMMA ListStep ==
    ASSUME ListType, PlaceType, TimeType, ToldType, [SettingsNext]_settingsVars
    PROVE  ListType'
<1>1. ASSUME NEW t \in Thread, TimerStop(t) PROVE ListType'
  BY <1>1, ThreadFacts, NoneFacts DEF TimerStop, ListType, listVars
<1>2. ASSUME NEW t \in Thread, FindEarliest(t) PROVE ListType'
  BY <1>2, ThreadFacts, NoneFacts DEF FindEarliest, ListType, listVars
<1>3. ASSUME NEW t \in Thread, TimerStart(t) PROVE ListType'
  BY <1>3, ThreadFacts, NoneFacts DEF TimerStart, ListType, listVars
<1>4. ASSUME NEW c \in Calls, AskDevice(c) PROVE ListType'
  <2>1. CASE SendCommand(c, <<c, 0>>) /\ step' = [step EXCEPT ![c] = "stop"]
    BY <1>4, <2>1, AskSends, SendDoes, ThreadFacts DEF ListType
  <2>2. CASE SendRefused(<<c, 0>>) /\ step' = [step EXCEPT ![c] = "done"]
    BY <1>4, <2>2, AskSends, ThreadFacts DEF SendRefused, ListType, listVars
  <2> QED
    BY <1>4, <2>1, <2>2, AskSends
<1>5. ASSUME NEW c \in Calls, AskKept(c) PROVE ListType'
  BY <1>5, ThreadFacts, NoneFacts DEF AskKept, ListType, listVars
<1>6. ASSUME NEW c \in Calls, TestBuffer(c) PROVE ListType'
  BY <1>6, ThreadFacts, NoneFacts DEF TestBuffer, ListType, listVars
<1>7. ASSUME NEW c \in Calls, FillBuffer(c) PROVE ListType'
  BY <1>7, ThreadFacts, NoneFacts DEF FillBuffer, ListType, listVars
<1>8. ASSUME NEW c \in Calls, SendFirst(c) PROVE ListType'
  <2>1. CASE /\ <<mTraingModelBuffer, 1>> \in Request
              /\ SendCommand(c, <<mTraingModelBuffer, 1>>)
              /\ step' = [step EXCEPT ![c] = "stop"]
    BY <1>8, <2>1, FirstSends, SendDoes, ThreadFacts DEF ListType
  <2>2. CASE SendRefused(<<c, 1>>) /\ step' = [step EXCEPT ![c] = "reset"]
    BY <1>8, <2>2, FirstSends, ThreadFacts DEF SendRefused, ListType, listVars
  <2> QED
    BY <1>8, <2>1, <2>2, FirstSends
<1>9. ASSUME NEW c \in Calls, GiveUp(c) PROVE ListType'
  BY <1>9, ThreadFacts, NoneFacts DEF GiveUp, ListType, listVars
<1>10. ASSUME NEW t \in Answerer, DispatchAsk(t) PROVE ListType'
  BY <1>10, ThreadFacts, NoneFacts DEF DispatchAsk, ListType, listVars
<1>11. ASSUME NEW t \in Answerer, TrainingFails(t) PROVE ListType'
  BY <1>11, ThreadFacts, NoneFacts DEF TrainingFails, ListType, listVars
<1>12. ASSUME NEW t \in Answerer, TrainingEnds(t) PROVE ListType'
  BY <1>12, ThreadFacts, NoneFacts DEF TrainingEnds, ListType, listVars
<1>13. ASSUME NEW t \in Answerer, TrainingGoesOn(t) PROVE ListType'
  BY <1>13, GoesOnWith, SendDoes, ThreadFacts
<1>14. ASSUME NEW t \in Answerer, ResetTraining(t) PROVE ListType'
  BY <1>14, ThreadFacts, NoneFacts DEF ResetTraining, ListType, listVars
<1>15. ASSUME NEW r \in Request, OnResponse(r) PROVE ListType'
  BY <1>15, ResponseDoes DEF ListType
<1>16. ASSUME TellProgress PROVE ListType'
  BY <1>16, ThreadFacts, NoneFacts DEF TellProgress, ListType, listVars
<1>17. ASSUME ThreadLooks PROVE ListType'
  BY <1>17, ThreadFacts, NoneFacts DEF ThreadLooks, ListType, listVars
<1>18. ASSUME ThreadWaits PROVE ListType'
  BY <1>18, ThreadFacts, NoneFacts DEF ThreadWaits, ListType, listVars
<1>19. ASSUME ThreadWakes PROVE ListType'
  BY <1>19, ThreadFacts, NoneFacts DEF ThreadWakes, ListType, listVars
<1>20. ASSUME Trigger PROVE ListType'
  BY <1>20, ThreadFacts, NoneFacts DEF Trigger, ListType, listVars
<1>21. ASSUME OnTimer PROVE ListType'
  BY <1>21, TimerDoes DEF ListType
<1>22. ASSUME Tick PROVE ListType'
  BY <1>22, TickDoes
<1>23. ASSUME UNCHANGED settingsVars PROVE ListType'
  BY <1>23 DEF settingsVars, listVars, ListType
<1> QED
  BY <1>1, <1>2, <1>3, <1>4, <1>5, <1>6, <1>7, <1>8, <1>9, <1>10, <1>11, <1>12, <1>13,
     <1>14, <1>15, <1>16, <1>17, <1>18, <1>19, <1>20, <1>21, <1>22, <1>23
    DEF SettingsNext, UpdateTimer, Begin, GoOn, Dispatch, TimerThread, Answerer

\* Times stay within their bound.
LEMMA TimeStep ==
    ASSUME ListType, PlaceType, TimeType, ToldType, [SettingsNext]_settingsVars
    PROVE  TimeType'
<1>1. ASSUME NEW t \in Thread, TimerStop(t) PROVE TimeType'
  BY <1>1, ThreadFacts, NoneFacts DEF TimerStop, TimeType, timerVars, Notified, ListType
<1>2. ASSUME NEW t \in Thread, FindEarliest(t) PROVE TimeType'
  BY <1>2, ThreadFacts, NoneFacts DEF FindEarliest, TimeType, timerVars, Notified,
     ListType, TimeLeft, Waiting, Entry, Ticks
<1>3. ASSUME NEW t \in Thread, TimerStart(t) PROVE TimeType'
  BY <1>3, ThreadFacts, NoneFacts DEF TimerStart, TimeType, timerVars, Notified, ListType
<1>4. ASSUME NEW c \in Calls, AskDevice(c) PROVE TimeType'
  BY <1>4, ThreadFacts, NoneFacts DEF AskDevice, TimeType, timerVars, Notified, ListType
<1>5. ASSUME NEW c \in Calls, AskKept(c) PROVE TimeType'
  BY <1>5, ThreadFacts, NoneFacts DEF AskKept, TimeType, timerVars, Notified, ListType
<1>6. ASSUME NEW c \in Calls, TestBuffer(c) PROVE TimeType'
  BY <1>6, ThreadFacts, NoneFacts DEF TestBuffer, TimeType, timerVars, Notified, ListType
<1>7. ASSUME NEW c \in Calls, FillBuffer(c) PROVE TimeType'
  BY <1>7, ThreadFacts, NoneFacts DEF FillBuffer, TimeType, timerVars, Notified, ListType
<1>8. ASSUME NEW c \in Calls, SendFirst(c) PROVE TimeType'
  BY <1>8, ThreadFacts, NoneFacts DEF SendFirst, TimeType, timerVars, Notified, ListType
<1>9. ASSUME NEW c \in Calls, GiveUp(c) PROVE TimeType'
  BY <1>9, ThreadFacts, NoneFacts DEF GiveUp, TimeType, timerVars, Notified, ListType
<1>10. ASSUME NEW t \in Answerer, DispatchAsk(t) PROVE TimeType'
  BY <1>10, ThreadFacts, NoneFacts DEF DispatchAsk, TimeType, timerVars, Notified, ListType
<1>11. ASSUME NEW t \in Answerer, TrainingFails(t) PROVE TimeType'
  BY <1>11, ThreadFacts, NoneFacts DEF TrainingFails, TimeType, timerVars, Notified,
     ListType
<1>12. ASSUME NEW t \in Answerer, TrainingEnds(t) PROVE TimeType'
  BY <1>12, ThreadFacts, NoneFacts DEF TrainingEnds, TimeType, timerVars, Notified, ListType
<1>13. ASSUME NEW t \in Answerer, TrainingGoesOn(t) PROVE TimeType'
  BY <1>13, ThreadFacts, NoneFacts DEF TrainingGoesOn, TimeType, timerVars, Notified,
     ListType
<1>14. ASSUME NEW t \in Answerer, ResetTraining(t) PROVE TimeType'
  BY <1>14, ThreadFacts, NoneFacts DEF ResetTraining, TimeType, timerVars, Notified,
     ListType
<1>15. ASSUME NEW r \in Request, OnResponse(r) PROVE TimeType'
  BY <1>15, ThreadFacts, NoneFacts DEF OnResponse, TimeType, timerVars, Notified, ListType
<1>16. ASSUME TellProgress PROVE TimeType'
  BY <1>16, ThreadFacts, NoneFacts DEF TellProgress, TimeType, timerVars, Notified, ListType
<1>17. ASSUME ThreadLooks PROVE TimeType'
  BY <1>17, ThreadFacts, NoneFacts DEF ThreadLooks, TimeType, timerVars, Notified, ListType
<1>18. ASSUME ThreadWaits PROVE TimeType'
  BY <1>18, ThreadFacts, NoneFacts DEF ThreadWaits, TimeType, timerVars, Notified, ListType
<1>19. ASSUME ThreadWakes PROVE TimeType'
  BY <1>19, ThreadFacts, NoneFacts DEF ThreadWakes, TimeType, timerVars, Notified, ListType
<1>20. ASSUME Trigger PROVE TimeType'
  BY <1>20, ThreadFacts, NoneFacts DEF Trigger, TimeType, timerVars, Notified, ListType
<1>21. ASSUME OnTimer PROVE TimeType'
  BY <1>21, ThreadFacts, NoneFacts DEF OnTimer, TimeType, timerVars, Notified, ListType
<1>22. ASSUME Tick PROVE TimeType'
  BY <1>22, ThreadFacts, NoneFacts DEF Tick, TimeType, timerVars, Notified, ListType, Less
<1>23. ASSUME UNCHANGED settingsVars PROVE TimeType'
  BY <1>23 DEF settingsVars, timerVars, TimeType
<1> QED
  BY <1>1, <1>2, <1>3, <1>4, <1>5, <1>6, <1>7, <1>8, <1>9, <1>10, <1>11, <1>12, <1>13,
     <1>14, <1>15, <1>16, <1>17, <1>18, <1>19, <1>20, <1>21, <1>22, <1>23
    DEF SettingsNext, UpdateTimer, Begin, GoOn, Dispatch, TimerThread, Answerer

\* Threads are where they may be.
LEMMA PlaceStep ==
    ASSUME ListType, PlaceType, TimeType, ToldType, [SettingsNext]_settingsVars
    PROVE  PlaceType'
<1>1. ASSUME NEW t \in Thread, TimerStop(t) PROVE PlaceType'
  BY <1>1, ThreadFacts, NoneFacts DEF TimerStop, PlaceType, At, Goto, StepName, Answerer,
     listVars, profileVars, trainVars, Notified
<1>2. ASSUME NEW t \in Thread, FindEarliest(t) PROVE PlaceType'
  BY <1>2, ThreadFacts, NoneFacts DEF FindEarliest, PlaceType, At, Goto, StepName,
     Answerer, listVars, profileVars, trainVars, AfterUpdate
<1>3. ASSUME NEW t \in Thread, TimerStart(t) PROVE PlaceType'
  BY <1>3, ThreadFacts, NoneFacts DEF TimerStart, PlaceType, At, Goto, StepName, Answerer,
     listVars, profileVars, trainVars, AfterUpdate, Notified
<1>4. ASSUME NEW c \in Calls, AskDevice(c) PROVE PlaceType'
  <2>1. CASE SendCommand(c, <<c, 0>>) /\ step' = [step EXCEPT ![c] = "stop"]
    BY <1>4, <2>1, AskSends, CallMoves, SendDoes, ThreadFacts DEF PlaceType
  <2>2. CASE SendRefused(<<c, 0>>) /\ step' = [step EXCEPT ![c] = "done"]
    BY <1>4, <2>2, AskSends, CallMoves, ThreadFacts DEF SendRefused, PlaceType, listVars
  <2> QED
    BY <1>4, <2>1, <2>2, AskSends
<1>5. ASSUME NEW c \in Calls, AskKept(c) PROVE PlaceType'
  BY <1>5, ThreadFacts, NoneFacts DEF AskKept, PlaceType, At, Goto, StepName, Answerer,
     listVars, profileVars, trainVars
<1>6. ASSUME NEW c \in Calls, TestBuffer(c) PROVE PlaceType'
  BY <1>6, ThreadFacts, NoneFacts DEF TestBuffer, PlaceType, At, Goto, StepName, Answerer,
     listVars, profileVars, trainVars
<1>7. ASSUME NEW c \in Calls, FillBuffer(c) PROVE PlaceType'
  BY <1>7, ThreadFacts, NoneFacts DEF FillBuffer, PlaceType, At, Goto, StepName, Answerer,
     listVars, profileVars, trainVars
<1>8. ASSUME NEW c \in Calls, SendFirst(c) PROVE PlaceType'
  <2>1. CASE /\ <<mTraingModelBuffer, 1>> \in Request
              /\ SendCommand(c, <<mTraingModelBuffer, 1>>)
              /\ step' = [step EXCEPT ![c] = "stop"]
    BY <1>8, <2>1, FirstSends, CallMoves, SendDoes, ThreadFacts DEF PlaceType
  <2>2. CASE SendRefused(<<c, 1>>) /\ step' = [step EXCEPT ![c] = "reset"]
    BY <1>8, <2>2, FirstSends, CallMoves, ThreadFacts DEF SendRefused, PlaceType, listVars
  <2> QED
    BY <1>8, <2>1, <2>2, FirstSends
<1>9. ASSUME NEW c \in Calls, GiveUp(c) PROVE PlaceType'
  BY <1>9, ThreadFacts, NoneFacts DEF GiveUp, PlaceType, At, Goto, StepName, Answerer,
     listVars, profileVars, trainVars
<1>10. ASSUME NEW t \in Answerer, DispatchAsk(t) PROVE PlaceType'
  BY <1>10, ThreadFacts, NoneFacts DEF DispatchAsk, PlaceType, At, Goto, StepName,
     Answerer, listVars, profileVars, trainVars, Dispatched
<1>11. ASSUME NEW t \in Answerer, TrainingFails(t) PROVE PlaceType'
  BY <1>11, ThreadFacts, NoneFacts DEF TrainingFails, PlaceType, At, Goto, StepName,
     Answerer, listVars, profileVars, trainVars, TellEnd
<1>12. ASSUME NEW t \in Answerer, TrainingEnds(t) PROVE PlaceType'
  BY <1>12, ThreadFacts, NoneFacts DEF TrainingEnds, PlaceType, At, Goto, StepName,
     Answerer, listVars, profileVars, trainVars, TellEnd
<1>13. ASSUME NEW t \in Answerer, TrainingGoesOn(t) PROVE PlaceType'
  <2> DEFINE j == [job[t] EXCEPT !.answer = None]
  <2>1. j \in Job /\ j # None
    BY <1>13, GoesOnWith, NoneFacts DEF Job
  <2>2. /\ job' = [job EXCEPT !["event"] = j] /\ step' = [step EXCEPT !["event"] = "stop"]
        /\ mMutex' \in Thread
        /\ UNCHANGED <<mTraingModelBuffer, mTrainingModelCallback>>
    BY <1>13, GoesOnWith, SendDoes, ThreadFacts DEF TrainingGoesOn, profileVars, trainVars
  <2> HIDE DEF j
  <2> QED
    BY <2>1, <2>2, ThreadFacts DEF PlaceType, StepName, Answerer
<1>14. ASSUME NEW t \in Answerer, ResetTraining(t) PROVE PlaceType'
  BY <1>14, ThreadFacts, NoneFacts DEF ResetTraining, PlaceType, At, Goto, StepName,
     Answerer, listVars, profileVars, trainVars, Dispatched
<1>15. ASSUME NEW r \in Request, OnResponse(r) PROVE PlaceType'
  <2>1. CASE mExecutingList[commandOfRequest(r)] = None
    BY <1>15, <2>1, ResponseDoes DEF PlaceType
  <2>2. CASE mExecutingList[commandOfRequest(r)] # None
    <3> DEFINE j == [request |-> mExecutingList[commandOfRequest(r)].request, answer |-> r]
    <3>1. j \in Job /\ j # None
      BY <1>15, <2>2, ResponseDoes, NoneFacts DEF Entry, Job
    <3>2. /\ job' = [job EXCEPT !["event"] = j]
          /\ mMutex' = "event" /\ step' = [step EXCEPT !["event"] = "stop"]
          /\ UNCHANGED <<mTraingModelBuffer, mTrainingModelCallback>>
      BY <1>15, <2>2, ResponseDoes
    <3> HIDE DEF j
    <3> QED
      BY <3>1, <3>2, ThreadFacts DEF PlaceType, StepName, Answerer
  <2> QED
    BY <2>1, <2>2
<1>16. ASSUME TellProgress PROVE PlaceType'
  BY <1>16, ThreadFacts, NoneFacts DEF TellProgress, PlaceType, At, Goto, StepName,
     Answerer, listVars, profileVars, trainVars
<1>17. ASSUME ThreadLooks PROVE PlaceType'
  BY <1>17, ThreadFacts, NoneFacts DEF ThreadLooks, PlaceType, At, Goto, StepName,
     Answerer, listVars, profileVars, trainVars
<1>18. ASSUME ThreadWaits PROVE PlaceType'
  BY <1>18, ThreadFacts, NoneFacts DEF ThreadWaits, PlaceType, At, Goto, StepName,
     Answerer, listVars, profileVars, trainVars
<1>19. ASSUME ThreadWakes PROVE PlaceType'
  BY <1>19, ThreadFacts, NoneFacts DEF ThreadWakes, PlaceType, At, Goto, StepName,
     Answerer, listVars, profileVars, trainVars
<1>20. ASSUME Trigger PROVE PlaceType'
  BY <1>20, ThreadFacts, NoneFacts DEF Trigger, PlaceType, At, Goto, StepName, Answerer,
     listVars, profileVars, trainVars
<1>21. ASSUME OnTimer PROVE PlaceType'
  <2>1. ASSUME NEW k \in Command, mExecutingList[k] \in Entry,
               job' = [job EXCEPT !["timer"] =
                         [request |-> mExecutingList[k].request, answer |-> None]],
               step' = [step EXCEPT !["timer"] = "dispatch"]
        PROVE  PlaceType'
    <3> DEFINE j == [request |-> mExecutingList[k].request, answer |-> None]
    <3>1. j \in Job /\ j # None /\ j.answer = None
      BY <2>1, NoneFacts DEF Entry, Job
    <3>2. job' = [job EXCEPT !["timer"] = j]
      BY <2>1
    <3> HIDE DEF j
    <3> QED
      BY <1>21, <2>1, <3>1, <3>2, TimerDoes, TimerMoves
  <2>2. CASE job' = job /\ step' = [step EXCEPT !["timer"] = "stop"]
    <3>1. /\ step' \in [Thread -> StepName]
          /\ \A u \in Thread : step'[u] = IF u = "timer" THEN "stop" ELSE step[u]
      BY <2>2, ThreadFacts DEF PlaceType, StepName, Answerer
    <3> QED
      BY <1>21, <2>2, <3>1, TimerDoes, ThreadFacts DEF PlaceType, Answerer
  <2> QED
    BY <1>21, <2>1, <2>2, TimerDoes
<1>22. ASSUME Tick PROVE PlaceType'
  BY <1>22, ThreadFacts, NoneFacts DEF Tick, PlaceType, At, Goto, StepName, Answerer,
     listVars, profileVars, trainVars
<1>23. ASSUME UNCHANGED settingsVars PROVE PlaceType'
  BY <1>23 DEF settingsVars, listVars, profileVars, trainVars, PlaceType
<1> QED
  BY <1>1, <1>2, <1>3, <1>4, <1>5, <1>6, <1>7, <1>8, <1>9, <1>10, <1>11, <1>12, <1>13,
     <1>14, <1>15, <1>16, <1>17, <1>18, <1>19, <1>20, <1>21, <1>22, <1>23
    DEF SettingsNext, UpdateTimer, Begin, GoOn, Dispatch, TimerThread, Answerer

\* Calls are told what they may be told.
LEMMA ToldStep ==
    ASSUME ListType, PlaceType, TimeType, ToldType, [SettingsNext]_settingsVars
    PROVE  ToldType'
<1>1. ASSUME NEW t \in Thread, TimerStop(t) PROVE ToldType'
  BY <1>1, ThreadFacts, NoneFacts DEF TimerStop, ToldType, profileVars
<1>2. ASSUME NEW t \in Thread, FindEarliest(t) PROVE ToldType'
  BY <1>2, ThreadFacts, NoneFacts DEF FindEarliest, ToldType, profileVars
<1>3. ASSUME NEW t \in Thread, TimerStart(t) PROVE ToldType'
  BY <1>3, ThreadFacts, NoneFacts DEF TimerStart, ToldType, profileVars
<1>4. ASSUME NEW c \in Calls, AskDevice(c) PROVE ToldType'
  <2>1. CASE SendCommand(c, <<c, 0>>) /\ step' = [step EXCEPT ![c] = "stop"]
    BY <1>4, <2>1, AskSends, SendDoes, ThreadFacts DEF ToldType
  <2>2. CASE SendRefused(<<c, 0>>) /\ step' = [step EXCEPT ![c] = "done"]
    BY <1>4, <2>2, AskSends, ThreadFacts DEF SendRefused, ToldType
  <2> QED
    BY <1>4, <2>1, <2>2, AskSends
<1>5. ASSUME NEW c \in Calls, AskKept(c) PROVE ToldType'
  BY <1>5, ThreadFacts, NoneFacts DEF AskKept, ToldType, profileVars
<1>6. ASSUME NEW c \in Calls, TestBuffer(c) PROVE ToldType'
  BY <1>6, ThreadFacts, NoneFacts DEF TestBuffer, ToldType, profileVars
<1>7. ASSUME NEW c \in Calls, FillBuffer(c) PROVE ToldType'
  BY <1>7, ThreadFacts, NoneFacts DEF FillBuffer, ToldType, profileVars
<1>8. ASSUME NEW c \in Calls, SendFirst(c) PROVE ToldType'
  <2>1. CASE /\ <<mTraingModelBuffer, 1>> \in Request
              /\ SendCommand(c, <<mTraingModelBuffer, 1>>)
              /\ step' = [step EXCEPT ![c] = "stop"]
    BY <1>8, <2>1, FirstSends, SendDoes, ThreadFacts DEF ToldType
  <2>2. CASE SendRefused(<<c, 1>>) /\ step' = [step EXCEPT ![c] = "reset"]
    BY <1>8, <2>2, FirstSends, ThreadFacts DEF SendRefused, ToldType
  <2> QED
    BY <1>8, <2>1, <2>2, FirstSends
<1>9. ASSUME NEW c \in Calls, GiveUp(c) PROVE ToldType'
  BY <1>9, ThreadFacts, NoneFacts DEF GiveUp, ToldType, profileVars
<1>10. ASSUME NEW t \in Answerer, DispatchAsk(t) PROVE ToldType'
  <2>1. job[t].request[1] \in Ask
    BY <1>10 DEF DispatchAsk
  <2>2. AskCommand[job[t].request[1]] \in Command
    BY <2>1, AskIsRequest
  <2>3. /\ result' \in [Calls -> {None, "refused", "success", "failed", "timeout", "kept"}]
        /\ kept' \subseteq Command
    <3>1. CASE job[t].answer = None
      BY <1>10, <2>1, <3>1, ThreadFacts DEF DispatchAsk, ToldType
    <3>2. CASE job[t].answer # None
      BY <1>10, <2>1, <2>2, <3>2, ThreadFacts DEF DispatchAsk, ToldType, Parse
    <3> QED
      BY <3>1, <3>2
  <2> QED
    BY <1>10, <2>3 DEF DispatchAsk, ToldType
<1>11. ASSUME NEW t \in Answerer, TrainingFails(t) PROVE ToldType'
  BY <1>11, ThreadFacts, NoneFacts DEF TrainingFails, ToldType, profileVars, TellEnd,
     PlaceType
<1>12. ASSUME NEW t \in Answerer, TrainingEnds(t) PROVE ToldType'
  BY <1>12, ThreadFacts, NoneFacts DEF TrainingEnds, ToldType, profileVars, TellEnd,
     PlaceType
<1>13. ASSUME NEW t \in Answerer, TrainingGoesOn(t) PROVE ToldType'
  BY <1>13, GoesOnWith, SendDoes, ThreadFacts DEF ToldType, TrainingGoesOn, profileVars
<1>14. ASSUME NEW t \in Answerer, ResetTraining(t) PROVE ToldType'
  BY <1>14, ThreadFacts, NoneFacts DEF ResetTraining, ToldType, profileVars
<1>15. ASSUME NEW r \in Request, OnResponse(r) PROVE ToldType'
  BY <1>15, ResponseDoes DEF ToldType
<1>16. ASSUME TellProgress PROVE ToldType'
  BY <1>16, ThreadFacts, NoneFacts DEF TellProgress, ToldType, profileVars
<1>17. ASSUME ThreadLooks PROVE ToldType'
  BY <1>17, ThreadFacts, NoneFacts DEF ThreadLooks, ToldType, profileVars
<1>18. ASSUME ThreadWaits PROVE ToldType'
  BY <1>18, ThreadFacts, NoneFacts DEF ThreadWaits, ToldType, profileVars
<1>19. ASSUME ThreadWakes PROVE ToldType'
  BY <1>19, ThreadFacts, NoneFacts DEF ThreadWakes, ToldType, profileVars
<1>20. ASSUME Trigger PROVE ToldType'
  BY <1>20, ThreadFacts, NoneFacts DEF Trigger, ToldType, profileVars
<1>21. ASSUME OnTimer PROVE ToldType'
  BY <1>21, ThreadFacts, NoneFacts DEF OnTimer, ToldType, profileVars
<1>22. ASSUME Tick PROVE ToldType'
  BY <1>22, ThreadFacts, NoneFacts DEF Tick, ToldType, profileVars
<1>23. ASSUME UNCHANGED settingsVars PROVE ToldType'
  BY <1>23 DEF settingsVars, profileVars, ToldType
<1> QED
  BY <1>1, <1>2, <1>3, <1>4, <1>5, <1>6, <1>7, <1>8, <1>9, <1>10, <1>11, <1>12, <1>13,
     <1>14, <1>15, <1>16, <1>17, <1>18, <1>19, <1>20, <1>21, <1>22, <1>23
    DEF SettingsNext, UpdateTimer, Begin, GoOn, Dispatch, TimerThread, Answerer

\* Flags stay flags.
LEMMA FlagStep ==
    ASSUME FlagType, [SettingsNext]_settingsVars
    PROVE  FlagType'
<1>1. ASSUME NEW t \in Thread, TimerStop(t) PROVE FlagType'
  BY Zenon, <1>1 DEF TimerStop, FlagType, timerVars, listVars, profileVars, trainVars,
     settingsVars, Notified
<1>2. ASSUME NEW t \in Thread, FindEarliest(t) PROVE FlagType'
  BY Zenon, <1>2 DEF FindEarliest, FlagType, timerVars, listVars, profileVars, trainVars,
     settingsVars
<1>3. ASSUME NEW t \in Thread, TimerStart(t) PROVE FlagType'
  BY Zenon, <1>3 DEF TimerStart, FlagType, timerVars, listVars, profileVars, trainVars,
     settingsVars, Notified
<1>4. ASSUME NEW c \in Calls, AskDevice(c) PROVE FlagType'
  BY Zenon, <1>4 DEF AskDevice, FlagType, timerVars, listVars, profileVars, trainVars,
     settingsVars
<1>5. ASSUME NEW c \in Calls, AskKept(c) PROVE FlagType'
  BY Zenon, <1>5 DEF AskKept, FlagType, timerVars, listVars, profileVars, trainVars,
     settingsVars
<1>6. ASSUME NEW c \in Calls, TestBuffer(c) PROVE FlagType'
  BY Zenon, <1>6 DEF TestBuffer, FlagType, timerVars, listVars, profileVars, trainVars,
     settingsVars
<1>7. ASSUME NEW c \in Calls, FillBuffer(c) PROVE FlagType'
  BY Zenon, <1>7 DEF FillBuffer, FlagType, timerVars, listVars, profileVars, trainVars,
     settingsVars
<1>8. ASSUME NEW c \in Calls, SendFirst(c) PROVE FlagType'
  BY Zenon, <1>8 DEF SendFirst, FlagType, timerVars, listVars, profileVars, trainVars,
     settingsVars
<1>9. ASSUME NEW c \in Calls, GiveUp(c) PROVE FlagType'
  BY Zenon, <1>9 DEF GiveUp, FlagType, timerVars, listVars, profileVars, trainVars,
     settingsVars
<1>10. ASSUME NEW t \in Answerer, DispatchAsk(t) PROVE FlagType'
  BY Zenon, <1>10 DEF DispatchAsk, FlagType, timerVars, listVars, profileVars, trainVars,
     settingsVars
<1>11. ASSUME NEW t \in Answerer, TrainingFails(t) PROVE FlagType'
  BY Zenon, <1>11 DEF TrainingFails, FlagType, timerVars, listVars, profileVars, trainVars,
     settingsVars, TellEnd
<1>12. ASSUME NEW t \in Answerer, TrainingEnds(t) PROVE FlagType'
  BY Zenon, <1>12 DEF TrainingEnds, FlagType, timerVars, listVars, profileVars, trainVars,
     settingsVars, TellEnd
<1>13. ASSUME NEW t \in Answerer, TrainingGoesOn(t) PROVE FlagType'
  BY Zenon, <1>13 DEF TrainingGoesOn, FlagType, timerVars, listVars, profileVars,
     trainVars, settingsVars
<1>14. ASSUME NEW t \in Answerer, ResetTraining(t) PROVE FlagType'
  BY Zenon, <1>14 DEF ResetTraining, FlagType, timerVars, listVars, profileVars, trainVars,
     settingsVars
<1>15. ASSUME NEW r \in Request, OnResponse(r) PROVE FlagType'
  BY Zenon, <1>15 DEF OnResponse, FlagType, timerVars, listVars, profileVars, trainVars,
     settingsVars
<1>16. ASSUME TellProgress PROVE FlagType'
  BY Zenon, <1>16 DEF TellProgress, FlagType, timerVars, listVars, profileVars, trainVars,
     settingsVars
<1>17. ASSUME ThreadLooks PROVE FlagType'
  BY Zenon, <1>17 DEF ThreadLooks, FlagType, timerVars, listVars, profileVars, trainVars,
     settingsVars
<1>18. ASSUME ThreadWaits PROVE FlagType'
  BY Zenon, <1>18 DEF ThreadWaits, FlagType, timerVars, listVars, profileVars, trainVars,
     settingsVars
<1>19. ASSUME ThreadWakes PROVE FlagType'
  BY Zenon, <1>19 DEF ThreadWakes, FlagType, timerVars, listVars, profileVars, trainVars,
     settingsVars
<1>20. ASSUME Trigger PROVE FlagType'
  BY Zenon, <1>20 DEF Trigger, FlagType, timerVars, listVars, profileVars, trainVars,
     settingsVars
<1>21. ASSUME OnTimer PROVE FlagType'
  BY Zenon, <1>21 DEF OnTimer, FlagType, timerVars, listVars, profileVars, trainVars,
     settingsVars
<1>22. ASSUME Tick PROVE FlagType'
  BY Zenon, <1>22 DEF Tick, FlagType, timerVars, listVars, profileVars, trainVars,
     settingsVars
<1>23. ASSUME UNCHANGED settingsVars PROVE FlagType'
  BY Zenon, <1>23 DEF settingsVars, timerVars, FlagType
<1> QED
  BY <1>1, <1>2, <1>3, <1>4, <1>5, <1>6, <1>7, <1>8, <1>9, <1>10, <1>11, <1>12, <1>13,
     <1>14, <1>15, <1>16, <1>17, <1>18, <1>19, <1>20, <1>21, <1>22, <1>23
    DEF SettingsNext, UpdateTimer, Begin, GoOn, Dispatch, TimerThread, Answerer

\* At the start everything has its type.
LEMMA TypesStart == SettingsInit => SettingsTypes
<1> SUFFICES ASSUME SettingsInit PROVE SettingsTypes
  OBVIOUS
<1>1. ListType
  BY DEF SettingsInit, ListType
<1>2. PlaceType
  <2>1. \A t \in Thread : step[t] = CASE t = "event" -> "idle" [] t = "timer" -> "look"
                                      [] OTHER -> "new"
    BY DEF SettingsInit
  <2>2. step \in [Thread -> StepName]
    BY <2>1 DEF SettingsInit, StepName
  <2>3. /\ step["event"] = "idle" /\ step["timer"] = "look"
        /\ \A t \in Calls : step[t] = "new"
    BY <2>1, ThreadFacts DEF Answerer
  <2> QED
    BY <2>2, <2>3 DEF SettingsInit, PlaceType, Answerer
<1>3. TimeType /\ ToldType
  BY NoneFacts DEF SettingsInit, TimeType, ToldType
<1> QED
  BY <1>1, <1>2, <1>3 DEF SettingsTypes

\* The parts make up the type invariant.
LEMMA PartsMakeTypes == SettingsTypes /\ FlagType => SettingsTypeOK
<1> SUFFICES ASSUME SettingsTypes, FlagType PROVE SettingsTypeOK
  OBVIOUS
<1>1. {mRunning, late, mixed, raced, missed, crashed} \subseteq BOOLEAN
  BY Zenon DEF FlagType
<1>2. \A k \in Waiting : commandOfRequest(mExecutingList[k].request) = k
  BY DEF Waiting, SettingsTypes, ListType
<1> QED
  BY <1>1, <1>2 DEF SettingsTypes, ListType, PlaceType, TimeType, ToldType, SettingsTypeOK,
     StepName, Answerer, Entry, Job
-----------------------------------------------------------------------------
\* A command that is sent puts its own request on the air, and under its command.
LEMMA SendKeepsAir ==
    ASSUME ListType, ToldType, AirInv, NEW t \in Thread, NEW r \in Request,
           SendCommand(t, r), UNCHANGED <<late, mixed>>
    PROVE  AirInv'
<1>1. /\ mExecutingList[commandOfRequest(r)] = None
      /\ \A k \in Command : mExecutingList'[k] =
            IF k = commandOfRequest(r) THEN [request |-> r, left |-> TIMEOUT]
                                       ELSE mExecutingList[k]
      /\ air' = air \cup {r}
  BY SendDoes
<1>2. [request |-> r, left |-> TIMEOUT] # None
  BY NoneFacts DEF Entry, Ticks
<1>3. ASSUME ~late, NEW q \in air'
      PROVE  /\ mExecutingList'[commandOfRequest(q)] # None
             /\ mExecutingList'[commandOfRequest(q)].request = q
  <2>1. q \in Request /\ commandOfRequest(q) \in Command
    BY <1>1, RequestFacts DEF ToldType
  <2>2. CASE q = r
    BY <1>1, <1>2, <2>1, <2>2
  <2>3. CASE q # r
    <3>1. /\ q \in air /\ mExecutingList[commandOfRequest(q)] # None
          /\ mExecutingList[commandOfRequest(q)].request = q
      BY <1>1, <1>3, <2>3 DEF AirInv
    <3>2. mExecutingList'[commandOfRequest(q)] = mExecutingList[commandOfRequest(q)]
      BY <1>1, <2>1, <3>1
    <3> QED
      BY <3>1, <3>2
  <2> QED
    BY <2>2, <2>3
<1> QED
  BY <1>3 DEF AirInv

\* As long as nothing timed out, whatever may still be answered waits under its
\* command, and nobody else does.
LEMMA AirStep ==
    ASSUME ListType, PlaceType, ToldType, AirInv, [SettingsNext]_settingsVars
    PROVE  AirInv'
<1>1. ASSUME UNCHANGED <<mExecutingList, air, late, mixed>> PROVE AirInv'
  BY <1>1 DEF AirInv
<1>2. ASSUME NEW c \in Calls, AskDevice(c) PROVE AirInv'
  <2>1. CASE SendCommand(c, <<c, 0>>)
    BY <1>2, <2>1, AskSends, SendKeepsAir, ThreadFacts
  <2>2. CASE SendRefused(<<c, 0>>)
    BY <1>1, <1>2, <2>2, AskSends DEF SendRefused, listVars
  <2> QED
    BY <1>2, <2>1, <2>2, AskSends
<1>3. ASSUME NEW c \in Calls, SendFirst(c) PROVE AirInv'
  <2>1. CASE /\ <<mTraingModelBuffer, 1>> \in Request
             /\ SendCommand(c, <<mTraingModelBuffer, 1>>)
    BY <1>3, <2>1, FirstSends, SendKeepsAir, ThreadFacts
  <2>2. CASE SendRefused(<<c, 1>>)
    BY <1>1, <1>3, <2>2, FirstSends DEF SendRefused, listVars
  <2> QED
    BY <1>3, <2>1, <2>2, FirstSends
<1>4. ASSUME NEW t \in Answerer, TrainingGoesOn(t) PROVE AirInv'
  <2>1. UNCHANGED <<late, mixed>>
    BY <1>4 DEF TrainingGoesOn
  <2> QED
    BY <1>4, <2>1, GoesOnWith, SendKeepsAir, ThreadFacts
<1>5. ASSUME NEW r \in Request, OnResponse(r) PROVE AirInv'
  <2>1. /\ r \in air /\ air' = air \ {r} /\ late' = late
        /\ commandOfRequest(r) \in Command
        /\ r \in Request /\ air \subseteq Request
    BY <1>5, ResponseDoes DEF ToldType
  <2>2. CASE UNCHANGED <<mExecutingList, mixed>>
    BY <2>1, <2>2 DEF AirInv
  <2>3. CASE /\ mExecutingList' = [mExecutingList EXCEPT ![commandOfRequest(r)] = None]
             /\ mixed' = (mixed \/ mExecutingList[commandOfRequest(r)].request # r)
    <3>1. mixed' => late'
      BY <2>1, <2>3 DEF AirInv
    <3>2. ASSUME ~late, NEW q \in air'
          PROVE  /\ mExecutingList'[commandOfRequest(q)] # None
                 /\ mExecutingList'[commandOfRequest(q)].request = q
      <4>1. /\ q \in air /\ q # r /\ commandOfRequest(q) \in Command
            /\ mExecutingList[commandOfRequest(q)] # None
            /\ mExecutingList[commandOfRequest(q)].request = q
            /\ mExecutingList[commandOfRequest(r)].request = r
        BY <2>1, <3>2, RequestFacts DEF AirInv
      <4>2. commandOfRequest(q) # commandOfRequest(r)
        BY <4>1
      <4>3. mExecutingList'[commandOfRequest(q)] = mExecutingList[commandOfRequest(q)]
        BY <2>1, <2>3, <4>1, <4>2 DEF ListType
      <4> QED
        BY <4>1, <4>3
    <3> QED
      BY <2>1, <3>1, <3>2 DEF AirInv
  <2> QED
    BY <1>5, <2>2, <2>3, ResponseDoes
<1>6. ASSUME OnTimer PROVE AirInv'
  <2>1. CASE UNCHANGED <<mExecutingList, job, late>>
    BY <1>1, <1>6, <2>1, TimerDoes
  <2>2. CASE late' = TRUE
    BY <2>2 DEF AirInv
  <2> QED
    BY <1>6, <2>1, <2>2, TimerDoes
<1>7. ASSUME Tick PROVE AirInv'
  <2>1. ASSUME NEW q \in air
        PROVE  /\ commandOfRequest(q) \in Command
               /\ mExecutingList'[commandOfRequest(q)] = None <=>
                     mExecutingList[commandOfRequest(q)] = None
               /\ mExecutingList[commandOfRequest(q)] # None =>
                     mExecutingList'[commandOfRequest(q)].request =
                        mExecutingList[commandOfRequest(q)].request
    <3>1. commandOfRequest(q) \in Command
      BY <2>1, RequestFacts DEF ToldType
    <3> QED
      BY <1>7, <3>1, TickDoes
  <2> QED
    BY <1>7, <2>1, TickDoes DEF AirInv
<1>8. ASSUME NEW t \in Thread, UpdateTimer(t) PROVE AirInv'
  BY <1>1, <1>8 DEF UpdateTimer, TimerStop, FindEarliest, TimerStart, listVars
<1>9. ASSUME NEW c \in Calls, AskKept(c) \/ TestBuffer(c) \/ FillBuffer(c) \/ GiveUp(c)
      PROVE  AirInv'
  BY <1>1, <1>9 DEF AskKept, TestBuffer, FillBuffer, GiveUp, listVars
<1>10. ASSUME NEW t \in Answerer,
              DispatchAsk(t) \/ TrainingFails(t) \/ TrainingEnds(t) \/ ResetTraining(t)
       PROVE  AirInv'
  BY <1>1, <1>10 DEF DispatchAsk, TrainingFails, TrainingEnds, ResetTraining, listVars
<1>11. ASSUME TellProgress \/ ThreadLooks \/ ThreadWaits \/ ThreadWakes \/ Trigger
              \/ UNCHANGED settingsVars
       PROVE  AirInv'
  BY <1>1, <1>11 DEF TellProgress, ThreadLooks, ThreadWaits, ThreadWakes, Trigger, listVars,
     settingsVars
<1> QED
  BY <1>2, <1>3, <1>4, <1>5, <1>6, <1>7, <1>8, <1>9, <1>10, <1>11
  DEF SettingsNext, Begin, GoOn, Dispatch, TimerThread, Answerer

\* The variables of the device settings have their types in every reachable state.
THEOREM SettingsTypeCorrect == SettingsSpec => []SettingsTypeOK
<1>1. SettingsInit => SettingsTypes /\ FlagType
  <2>1. SettingsInit => FlagType
    BY Zenon DEF SettingsInit, FlagType
  <2> QED
    BY <2>1, TypesStart
<1>2. SettingsTypes /\ FlagType /\ [SettingsNext]_settingsVars => (SettingsTypes /\ FlagType)'
  BY ListStep, PlaceStep, TimeStep, ToldStep, FlagStep DEF SettingsTypes
<1> QED
  BY <1>1, <1>2, PartsMakeTypes, PTL DEF SettingsSpec

\* Whatever is in the list, in hand and on the air has its type.
LEMMA TypesHold == SettingsSpec => []SettingsTypes
<1>1. SettingsTypes /\ [SettingsNext]_settingsVars => SettingsTypes'
  BY ListStep, PlaceStep, TimeStep, ToldStep DEF SettingsTypes
<1> QED
  BY <1>1, TypesStart, PTL DEF SettingsSpec

\* A callback is given the answer to its own command, whatever the calls, unless a
\* command had timed out before (DeviceSettingHandle, one entry for each command).
THEOREM AnswersReachTheirCall == SettingsSpec => []OwnAnswer
<1>1. SettingsInit => AirInv
  BY DEF SettingsInit, AirInv
<1>2. SettingsTypes /\ AirInv /\ [SettingsNext]_settingsVars => AirInv'
  BY AirStep DEF SettingsTypes
<1>3. AirInv => OwnAnswer
  BY DEF AirInv, OwnAnswer
<1> QED
  BY <1>1, <1>2, <1>3, TypesHold, PTL DEF SettingsSpec
-----------------------------------------------------------------------------
OneModel == BufferInv /\ OneHolder /\ SentInv

\* A step after which nobody holds the buffer that did not hold it before.
LEMMA FewerHoldersKeep ==
    ASSUME OneModel, UNCHANGED <<mTraingModelBuffer, mTrainingModelCallback>>,
           \A t \in Thread, m \in Training : Holds(t, m)' => Holds(t, m),
           \A k \in Command, m \in Training :
              Listed(k, m)' => /\ Listed(k, m)
                               /\ mExecutingList'[k].request = mExecutingList[k].request,
           \A m \in Training : Holds("event", m)' => job'["event"] = job["event"],
           \A m \in Training : sent'[m] = sent[m],
           \A m \in Training :
              /\ step'[m] \in {"new", "fill"} => step[m] \in {"new", "fill"}
              /\ step'[m] = "send" => step[m] = "send",
           \A m \in Training :
              result'[m] = "success" => result[m] = "success" \/ sent[m] = 1..Packages
    PROVE  OneModel'
<1>1. BufferInv'
  BY DEF OneModel, BufferInv
<1>2. OneHolder'
  <2> SUFFICES ASSUME NEW t \in Thread, NEW m \in Training, Holds(t, m)'
               PROVE  /\ \A u \in Thread : Holds(u, m)' => u = t
                      /\ \A k \in Command : ~Listed(k, m)'
    BY DEF OneHolder
  <2> QED
    BY DEF OneModel, OneHolder
<1>3. SentInv'
  <2>1. \A m \in Training : /\ step'[m] \in {"new", "fill", "send"} => sent'[m] = {}
                            /\ step'[m] \in {"new", "fill"} => mTraingModelBuffer' # m
                            /\ result'[m] = "success" => sent'[m] = 1..Packages
    BY DEF OneModel, SentInv
  <2>2. \A k \in Command, m \in Training :
           Listed(k, m)' => sent'[m] = 1..mExecutingList'[k].request[2]
    BY DEF OneModel, SentInv
  <2>3. \A m \in Training :
           Holds("event", m)' => /\ job'["event"].answer = job'["event"].request
                                 /\ sent'[m] = 1..job'["event"].request[2]
    BY ThreadFacts DEF OneModel, SentInv, Answerer
  <2> QED
    BY <2>1, <2>2, <2>3 DEF SentInv
<1> QED
  BY <1>1, <1>2, <1>3 DEF OneModel

\* A step that moves no call into its training or out of it.
LEMMA QuietKeeps ==
    ASSUME OneModel,
           UNCHANGED <<mExecutingList, mTraingModelBuffer, mTrainingModelCallback, job, sent>>,
           \A c \in Calls : step'[c] \in {"new", "fill", "send", "reset"} => step'[c] = step[c],
           \A m \in Training :
              result'[m] = "success" => result[m] = "success" \/ sent[m] = 1..Packages
    PROVE  OneModel'
<1>1. \A t \in Thread, m \in Training : Holds(t, m)' => Holds(t, m)
  BY ThreadFacts DEF Holds
<1>2. \A k \in Command, m \in Training :
         Listed(k, m)' => /\ Listed(k, m)
                          /\ mExecutingList'[k].request = mExecutingList[k].request
  BY DEF Listed
<1>3. \A m \in Training : Holds("event", m)' => job'["event"] = job["event"]
  OBVIOUS
<1>4. \A m \in Training :
         /\ step'[m] \in {"new", "fill"} => step[m] \in {"new", "fill"}
         /\ step'[m] = "send" => step[m] = "send"
  BY ThreadFacts
<1> QED
  BY <1>1, <1>2, <1>3, <1>4, FewerHoldersKeep

\* Whoever holds the buffer holds the model it has, and is alone with it.
LEMMA Alone ==
    ASSUME OneModel, NEW t \in Thread, NEW m \in Training, Holds(t, m)
    PROVE  /\ mTraingModelBuffer = m /\ mTrainingModelCallback = m
           /\ \A u \in Thread, n \in Training : Holds(u, n) => u = t /\ n = m
           /\ \A k \in Command, n \in Training : ~Listed(k, n)
<1>1. mTraingModelBuffer = m /\ mTrainingModelCallback = m
  BY DEF OneModel, BufferInv
<1>2. \A u \in Thread, n \in Training : Holds(u, n) => n = m
  BY <1>1 DEF OneModel, BufferInv
<1>3. \A k \in Command, n \in Training : Listed(k, n) => n = m
  BY <1>1 DEF OneModel, BufferInv
<1> QED
  BY <1>1, <1>2, <1>3 DEF OneModel, OneHolder

\* Whoever holds the buffer gives it up.
LEMMA GivenUp ==
    ASSUME OneModel, NEW h \in Thread, NEW m \in Training, Holds(h, m),
           mTraingModelBuffer' = None, mTrainingModelCallback' = None,
           UNCHANGED <<mExecutingList, sent>>,
           \A u \in Thread, n \in Training : Holds(u, n)' => Holds(u, n) /\ u # h,
           \A c \in Calls : step'[c] \in {"new", "fill", "send"} => step'[c] = step[c],
           \A n \in Training : result'[n] = "success" => result[n] = "success"
    PROVE  OneModel'
<1>1. /\ \A u \in Thread, n \in Training : ~Holds(u, n)'
      /\ \A k \in Command, n \in Training : ~Listed(k, n)
  BY Alone
<1>2. \A k \in Command, n \in Training : ~Listed(k, n)'
  BY <1>1 DEF Listed
<1>3. BufferInv' /\ OneHolder'
  BY <1>1, <1>2 DEF BufferInv, OneHolder
<1>4. SentInv'
  <2>1. \A n \in Training : /\ step'[n] \in {"new", "fill", "send"} => sent'[n] = {}
                            /\ step'[n] \in {"new", "fill"} => mTraingModelBuffer' # n
                            /\ result'[n] = "success" => sent'[n] = 1..Packages
    BY ThreadFacts DEF OneModel, SentInv
  <2> QED
    BY <1>1, <1>2, <2>1, ThreadFacts DEF SentInv, Answerer
<1> QED
  BY <1>3, <1>4 DEF OneModel

\* A package is sent by whoever holds the buffer, and waits in the list from then on.
LEMMA PackageKeeps ==
    ASSUME OneModel, ListType, PlaceType, ToldType, NEW h \in Thread, NEW m \in Training,
           Holds(h, m), NEW n \in 1..Packages,
           SendCommand(h, <<m, n>>), sent[m] = 1..(n - 1),
           UNCHANGED <<mTraingModelBuffer, mTrainingModelCallback, result>>,
           \A u \in Thread, o \in Training : Holds(u, o)' => Holds(u, o) /\ u # h,
           \A c \in Calls : step'[c] \in {"new", "fill", "send"} => step'[c] = step[c]
    PROVE  OneModel'
<1> DEFINE r == <<m, n>>
<1>1. /\ r \in Request /\ r[1] = m /\ r[2] = n
      /\ commandOfRequest(r) = "SEND_TRAINING_PACKAGE"
  BY PackageIsRequest
<1>a. SendCommand(h, r)
  OBVIOUS
<1> HIDE DEF r
<1>2. /\ \A k \in Command : mExecutingList'[k] =
            IF k = commandOfRequest(r) THEN [request |-> r, left |-> TIMEOUT]
                                       ELSE mExecutingList[k]
      /\ \A o \in Training : sent'[o] = IF o = m THEN sent[o] \cup {n} ELSE sent[o]
  BY <1>1, <1>a, SendDoes
<1>3. sent'[m] = 1..n
  <2>1. n \in Nat /\ n > 0 /\ (1..(n - 1)) \cup {n} = 1..n
    BY NoneFacts
  <2> QED
    BY <1>2, <2>1
<1>4. /\ \A u \in Thread, o \in Training : ~Holds(u, o)'
      /\ \A k \in Command, o \in Training : ~Listed(k, o)
      /\ mTraingModelBuffer = m /\ mTrainingModelCallback = m
  BY Alone
<1>5. \A k \in Command, o \in Training :
         Listed(k, o)' => o = m /\ mExecutingList'[k].request[2] = n
  BY <1>1, <1>2, <1>4 DEF Listed
<1>6. BufferInv' /\ OneHolder'
  BY <1>4, <1>5 DEF BufferInv, OneHolder
<1>7. SentInv'
  <2>1. step'[m] \notin {"new", "fill", "send"}
    <3>1. step[m] \notin {"new", "fill"}
      BY <1>4 DEF OneModel, SentInv
    <3>2. step'[m] = "send" => Holds(m, m)'
      BY ThreadFacts DEF Holds
    <3> QED
      BY <1>4, <3>1, <3>2, ThreadFacts
  <2>2. \A o \in Training : /\ step'[o] \in {"new", "fill", "send"} => sent'[o] = {}
                            /\ step'[o] \in {"new", "fill"} => mTraingModelBuffer' # o
    BY <1>2, <2>1, ThreadFacts DEF OneModel, SentInv
  <2>3. \A o \in Training : result'[o] = "success" => sent'[o] = 1..Packages
    <3>1. sent[m] = 1..Packages => sent'[m] = 1..Packages
      BY <1>2, NoneFacts
    <3> QED
      BY <1>2, <3>1 DEF OneModel, SentInv
  <2> QED
    BY <1>3, <1>4, <1>5, <2>2, <2>3, ThreadFacts DEF SentInv, Answerer
<1> QED
  BY <1>6, <1>7 DEF OneModel

\* A package that waits is taken in hand: for its answer, or for its timeout.
LEMMA TakenKeeps ==
    ASSUME OneModel, ListType, PlaceType, NEW k \in Command, NEW t \in Answerer, NEW j \in Job,
           mExecutingList[k] # None,
           mExecutingList' = [mExecutingList EXCEPT ![k] = None],
           job' = [job EXCEPT ![t] = j], j # None,
           j.request = mExecutingList[k].request,
           t = "event" => j.answer = j.request,
           UNCHANGED <<mTraingModelBuffer, mTrainingModelCallback, sent, result>>,
           \A c \in Calls : step'[c] = step[c]
    PROVE  OneModel'
<1>1. /\ \A l \in Command : mExecutingList'[l] = IF l = k THEN None ELSE mExecutingList[l]
      /\ \A u \in Answerer : job'[u] = IF u = t THEN j ELSE job[u]
      /\ j.request \in Request
  BY DEF ListType, PlaceType, Job
<1>2. \A l \in Command, m \in Training : Listed(l, m)' => Listed(l, m) /\ l # k
  BY <1>1 DEF Listed
<1>3. \A u \in Thread, m \in Training : u # t /\ Holds(u, m)' => Holds(u, m)
  BY <1>1, ThreadFacts DEF Holds
<1>4. \A m \in Training : Holds(t, m)' => j.request[1] = m /\ Listed(k, m)
  BY <1>1, ThreadFacts DEF Holds, Listed, Answerer
<1>5. CASE j.request[1] \notin Training
  <2>1. \A u \in Thread, m \in Training : Holds(u, m)' => Holds(u, m)
    BY <1>3, <1>4, <1>5
  <2>2. \A l \in Command, m \in Training :
           Listed(l, m)' => /\ Listed(l, m)
                            /\ mExecutingList'[l].request = mExecutingList[l].request
    BY <1>1, <1>2
  <2>3. \A m \in Training : Holds("event", m)' => job'["event"] = job["event"]
    BY <1>1, <1>4, <1>5 DEF Answerer
  <2> QED
    BY <2>1, <2>2, <2>3, ThreadFacts, FewerHoldersKeep
<1>6. CASE j.request[1] \in Training
  <2> DEFINE m == j.request[1]
  <2>1. Listed(k, m)
    BY <1>6 DEF Listed
  <2>2. /\ mTraingModelBuffer = m /\ mTrainingModelCallback = m
        /\ sent[m] = 1..j.request[2]
    BY <1>6, <2>1 DEF OneModel, BufferInv, SentInv
  <2>3. \A u \in Thread, n \in Training : ~Holds(u, n)
    BY <1>6, <2>1, Alone
  <2>4. \A l \in Command, n \in Training : ~Listed(l, n)'
    <3> SUFFICES ASSUME NEW l \in Command, NEW n \in Training, Listed(l, n), l # k PROVE FALSE
      BY <1>2
    <3>1. /\ mExecutingList[l].request[1] \in Training
          /\ mExecutingList[k].request[1] \in Training
          /\ commandOfRequest(mExecutingList[l].request) = l
          /\ commandOfRequest(mExecutingList[k].request) = k
      BY <1>6 DEF Listed, ListType
    <3> QED
      BY <3>1 DEF commandOfRequest, commandOf
  <2>5. \A u \in Thread, n \in Training : Holds(u, n)' => u = t /\ n = m
    BY <1>3, <1>4, <2>3
  <2> HIDE DEF m
  <2>6. BufferInv' /\ OneHolder'
    BY <2>2, <2>4, <2>5 DEF BufferInv, OneHolder
  <2>7. SentInv'
    <3>1. \A n \in Training : /\ step'[n] \in {"new", "fill", "send"} => sent'[n] = {}
                              /\ step'[n] \in {"new", "fill"} => mTraingModelBuffer' # n
                              /\ result'[n] = "success" => sent'[n] = 1..Packages
      BY ThreadFacts DEF OneModel, SentInv
    <3>2. \A n \in Training :
             Holds("event", n)' => /\ job'["event"].answer = job'["event"].request
                                   /\ sent'[n] = 1..job'["event"].request[2]
      BY <1>1, <2>2, <2>5, ThreadFacts DEF Answerer
    <3> QED
      BY <2>4, <3>1, <3>2 DEF SentInv
  <2> QED
    BY <2>6, <2>7 DEF OneModel
<1> QED
  BY <1>5, <1>6

\* A step that touches neither the list nor the buffer, the jobs nor what was sent.
LEMMA QuietActions ==
    ASSUME OneModel, PlaceType,
           \/ \E t \in Thread : UpdateTimer(t)
           \/ \E c \in Calls : AskKept(c)
           \/ ThreadLooks \/ ThreadWaits \/ ThreadWakes \/ Trigger
           \/ UNCHANGED settingsVars
    PROVE  OneModel'
<1>1. ASSUME NEW t \in Thread, UpdateTimer(t) PROVE OneModel'
  <2>1. \A c \in Calls : step'[c] \in {"new", "fill", "send", "reset"} => step'[c] = step[c]
    <3>1. CASE TimerStop(t)
      BY <3>1, ThreadFacts DEF TimerStop, Notified, Goto, timerVars, PlaceType
    <3>2. CASE FindEarliest(t)
      BY <3>2, ThreadFacts DEF FindEarliest, AfterUpdate, Goto, PlaceType
    <3>3. CASE TimerStart(t)
      BY <3>3, ThreadFacts DEF TimerStart, AfterUpdate, Notified, Goto, timerVars, PlaceType
    <3> QED
      BY <1>1, <3>1, <3>2, <3>3 DEF UpdateTimer
  <2>2. UNCHANGED <<mExecutingList, mTraingModelBuffer, mTrainingModelCallback, job, sent, result>>
    BY <1>1 DEF UpdateTimer, TimerStop, FindEarliest, TimerStart, listVars, profileVars,
       trainVars
  <2> QED
    BY <2>1, <2>2, ThreadFacts, QuietKeeps
<1>2. ASSUME NEW c \in Calls, AskKept(c) PROVE OneModel'
  <2>1. /\ \A d \in Calls : step'[d] \in {"new", "fill", "send", "reset"} => step'[d] = step[d]
        /\ \A m \in Training : result'[m] = "success" => result[m] = "success"
    BY <1>2, ThreadFacts DEF AskKept, Goto, PlaceType
  <2>2. UNCHANGED <<mExecutingList, mTraingModelBuffer, mTrainingModelCallback, job, sent>>
    BY <1>2 DEF AskKept, listVars, profileVars, trainVars
  <2> QED
    BY <2>1, <2>2, QuietKeeps
<1>3. ASSUME ThreadLooks \/ ThreadWaits \/ ThreadWakes \/ Trigger PROVE OneModel'
  <2>1. \A d \in Calls : step'[d] = step[d]
    BY <1>3, ThreadFacts DEF ThreadLooks, ThreadWaits, ThreadWakes, Trigger, Goto, PlaceType
  <2>2. UNCHANGED <<mExecutingList, mTraingModelBuffer, mTrainingModelCallback, job, sent, result>>
    BY <1>3 DEF ThreadLooks, ThreadWaits, ThreadWakes, Trigger, listVars, profileVars,
       trainVars
  <2> QED
    BY <2>1, <2>2, ThreadFacts, QuietKeeps
<1>4. ASSUME UNCHANGED settingsVars PROVE OneModel'
  <2>1. UNCHANGED <<mExecutingList, mTraingModelBuffer, mTrainingModelCallback, job, sent, result,
                    step>>
    BY <1>4 DEF settingsVars, listVars, profileVars, trainVars
  <2> QED
    BY <2>1, ThreadFacts, QuietKeeps
<1> QED
  BY <1>1, <1>2, <1>3, <1>4

\* The simple commands, and the ticks.
LEMMA AskActions ==
    ASSUME OneModel, ListType, PlaceType, ToldType,
           (\E c \in Calls : AskDevice(c)) \/ (\E t \in Answerer : DispatchAsk(t)) \/ Tick
    PROVE  OneModel'
<1>1. ASSUME NEW c \in Calls, AskDevice(c) PROVE OneModel'
  <2>1. /\ c \in Ask /\ c \notin Training /\ <<c, 0>> \in Request
        /\ UNCHANGED <<mTraingModelBuffer, mTrainingModelCallback, job>>
    BY <1>1, AskSends, ThreadFacts
  <2>2. CASE /\ SendCommand(c, <<c, 0>>) /\ step' = [step EXCEPT ![c] = "stop"]
             /\ result' = result
    <3> DEFINE r == <<c, 0>>
    <3>1. r \in Request /\ r[1] = c /\ commandOfRequest(r) \in Command /\ SendCommand(c, r)
      BY <2>1, <2>2, AskIsRequest, RequestFacts
    <3> HIDE DEF r
    <3>2. /\ \A k \in Command : mExecutingList'[k] =
                IF k = commandOfRequest(r) THEN [request |-> r, left |-> TIMEOUT]
                                           ELSE mExecutingList[k]
          /\ \A o \in Training : sent'[o] = IF o = c THEN sent[o] \cup {r[2]} ELSE sent[o]
      BY <3>1, SendDoes, ThreadFacts
    <3>3. \A k \in Command, m \in Training :
             Listed(k, m)' => /\ Listed(k, m)
                              /\ mExecutingList'[k].request = mExecutingList[k].request
      BY <2>1, <3>1, <3>2 DEF Listed
    <3>4. \A d \in Calls : step'[d] \in {"new", "fill", "send", "reset"} => step'[d] = step[d]
      BY <2>2, ThreadFacts DEF PlaceType
    <3>5. \A t \in Thread, m \in Training : Holds(t, m)' => Holds(t, m)
      BY <2>1, <3>4 DEF Holds
    <3>6. \A m \in Training : sent'[m] = sent[m]
      BY <2>1, <3>2
    <3> QED
      BY <2>1, <2>2, <3>3, <3>4, <3>5, <3>6, ThreadFacts, FewerHoldersKeep
  <2>3. CASE /\ SendRefused(<<c, 0>>) /\ step' = [step EXCEPT ![c] = "done"]
             /\ result' = [result EXCEPT ![c] = "refused"]
    <3>1. /\ \A d \in Calls : step'[d] \in {"new", "fill", "send", "reset"} => step'[d] = step[d]
          /\ \A m \in Training : result'[m] = "success" => result[m] = "success"
      BY <2>1, <2>3, ThreadFacts DEF PlaceType, ToldType
    <3>2. UNCHANGED <<mExecutingList, sent>>
      BY <2>3 DEF SendRefused, listVars
    <3> QED
      BY <2>1, <3>1, <3>2, QuietKeeps
  <2> QED
    BY <1>1, <2>2, <2>3, AskSends
<1>2. ASSUME NEW t \in Answerer, DispatchAsk(t) PROVE OneModel'
  <2>1. /\ job[t].request[1] \in Ask
        /\ job' = [job EXCEPT ![t] = None]
        /\ step' = [step EXCEPT ![t] = Dispatched(t)]
        /\ UNCHANGED <<mTraingModelBuffer, mTrainingModelCallback, mExecutingList, sent>>
    BY <1>2 DEF DispatchAsk, Goto, listVars, trainVars
  <2>2. \A m \in Training : result'[m] = result[m]
    BY <1>2, <2>1, ThreadFacts DEF DispatchAsk, ToldType
  <2>3. \A d \in Calls : step'[d] = step[d]
    BY <2>1, ThreadFacts DEF PlaceType, Answerer
  <2>4. \A u \in Answerer : job'[u] = IF u = t THEN None ELSE job[u]
    BY <2>1 DEF PlaceType
  <2>5. \A u \in Thread, m \in Training : Holds(u, m)' => Holds(u, m) /\ u # t
    BY <2>3, <2>4, ThreadFacts DEF Holds, Answerer
  <2>6. \A k \in Command, m \in Training :
           Listed(k, m)' => /\ Listed(k, m)
                            /\ mExecutingList'[k].request = mExecutingList[k].request
    BY <2>1 DEF Listed
  <2>7. \A m \in Training : Holds("event", m)' => job'["event"] = job["event"]
    BY <2>4, <2>5, ThreadFacts DEF Answerer
  <2> QED
    BY <2>1, <2>2, <2>3, <2>5, <2>6, <2>7, ThreadFacts, FewerHoldersKeep
<1>3. ASSUME Tick PROVE OneModel'
  <2>1. \A k \in Command, m \in Training :
           Listed(k, m)' => /\ Listed(k, m)
                            /\ mExecutingList'[k].request = mExecutingList[k].request
    BY <1>3, TickDoes DEF Listed
  <2>2. UNCHANGED <<mTraingModelBuffer, mTrainingModelCallback, step, job, result, sent>>
    BY <1>3, TickDoes
  <2>3. \A t \in Thread, m \in Training : Holds(t, m)' => Holds(t, m)
    BY <2>2 DEF Holds
  <2> QED
    BY <2>1, <2>2, <2>3, FewerHoldersKeep
<1> QED
  BY <1>1, <1>2, <1>3

\* A training begins: the buffer is tested, filled, its first package sent, or given up.
LEMMA BeginActions ==
    ASSUME OneModel, ListType, PlaceType, ToldType, ~raced', NEW c \in Calls,
           TestBuffer(c) \/ GoOn(c)
    PROVE  OneModel'
<1>1. CASE TestBuffer(c)
  <2>1. /\ c \in Training /\ step[c] = "new"
        /\ UNCHANGED <<mExecutingList, mTraingModelBuffer, mTrainingModelCallback, job, sent>>
    BY <1>1 DEF TestBuffer, At, listVars, profileVars, trainVars
  <2>2. \/ step' = [step EXCEPT ![c] = "done"] /\ result' = [result EXCEPT ![c] = "refused"]
        \/ step' = [step EXCEPT ![c] = "fill"] /\ result' = result
    BY <1>1 DEF TestBuffer, Goto
  <2>3. \A m \in Training :
           /\ step'[m] \in {"new", "fill"} => step[m] \in {"new", "fill"}
           /\ step'[m] \in {"send", "reset"} => step'[m] = step[m]
           /\ result'[m] = "success" => result[m] = "success"
    BY <2>1, <2>2, ThreadFacts DEF PlaceType, ToldType
  <2>4. \A d \in Calls : step'[d] \in {"send", "reset"} => step'[d] = step[d]
    BY <2>1, <2>2, ThreadFacts DEF PlaceType
  <2>5. \A t \in Thread, m \in Training : Holds(t, m)' => Holds(t, m)
    BY <2>1, <2>4, ThreadFacts DEF Holds
  <2>6. \A k \in Command, m \in Training :
           Listed(k, m)' => /\ Listed(k, m)
                            /\ mExecutingList'[k].request = mExecutingList[k].request
    BY <2>1 DEF Listed
  <2> QED
    BY <2>1, <2>3, <2>5, <2>6, FewerHoldersKeep
<1>2. CASE FillBuffer(c)
  <2>1. /\ step[c] = "fill" /\ c \in Training /\ mTraingModelBuffer = None
        /\ mTraingModelBuffer' = c /\ mTrainingModelCallback' = c
        /\ step' = [step EXCEPT ![c] = "send"]
        /\ UNCHANGED <<mExecutingList, job, result, sent>>
    BY <1>2 DEF FillBuffer, At, Goto, listVars, PlaceType
  <2>2. /\ \A t \in Thread, m \in Training : ~Holds(t, m)
        /\ \A k \in Command, m \in Training : ~Listed(k, m)
    BY <2>1, ThreadFacts DEF OneModel, BufferInv
  <2>3. \A d \in Calls : step'[d] = IF d = c THEN "send" ELSE step[d]
    BY <2>1, ThreadFacts DEF PlaceType
  <2>4. \A t \in Thread, m \in Training : Holds(t, m)' => t = c /\ m = c
    BY <2>1, <2>2, <2>3, ThreadFacts DEF Holds
  <2>5. \A k \in Command, m \in Training : ~Listed(k, m)'
    BY <2>1, <2>2 DEF Listed
  <2>6. BufferInv' /\ OneHolder'
    BY <2>1, <2>4, <2>5 DEF BufferInv, OneHolder
  <2>7. SentInv'
    <3>1. \A m \in Training : /\ step'[m] \in {"new", "fill", "send"} => sent'[m] = {}
                              /\ step'[m] \in {"new", "fill"} => mTraingModelBuffer' # m
                              /\ result'[m] = "success" => sent'[m] = 1..Packages
      BY <2>1, <2>3, ThreadFacts DEF OneModel, SentInv
    <3> QED
      BY <2>4, <2>5, <3>1, ThreadFacts DEF SentInv, Answerer
  <2> QED
    BY <2>6, <2>7 DEF OneModel
<1>3. CASE SendFirst(c)
  <2>1. /\ c \in Training /\ step[c] = "send" /\ c \in Thread
        /\ UNCHANGED <<mTraingModelBuffer, mTrainingModelCallback, job, result>>
    BY <1>3, FirstSends, ThreadFacts
  <2>2. Holds(c, c)
    BY <2>1 DEF Holds
  <2>3. mTraingModelBuffer = c /\ sent[c] = {}
    BY <2>1, <2>2 DEF OneModel, BufferInv, SentInv
  <2>4. CASE /\ SendCommand(c, <<mTraingModelBuffer, 1>>)
             /\ step' = [step EXCEPT ![c] = "stop"]
    <3>1. \A d \in Calls : step'[d] = IF d = c THEN "stop" ELSE step[d]
      BY <2>4, ThreadFacts DEF PlaceType
    <3>2. \A u \in Thread, o \in Training : Holds(u, o)' => Holds(u, o) /\ u # c
      BY <2>1, <3>1, ThreadFacts DEF Holds
    <3>3. 1 \in 1..Packages /\ sent[c] = 1..(1 - 1) /\ SendCommand(c, <<c, 1>>)
      BY <2>3, <2>4, NoneFacts
    <3>4. \A d \in Calls : step'[d] \in {"new", "fill", "send"} => step'[d] = step[d]
      BY <3>1
    <3> QED
      BY <2>1, <2>2, <3>2, <3>3, <3>4, PackageKeeps
  <2>5. CASE SendRefused(<<c, 1>>) /\ step' = [step EXCEPT ![c] = "reset"]
    <3>1. \A d \in Calls : step'[d] = IF d = c THEN "reset" ELSE step[d]
      BY <2>5, ThreadFacts DEF PlaceType
    <3>2. UNCHANGED <<mExecutingList, sent>>
      BY <2>5 DEF SendRefused, listVars
    <3>3. \A t \in Thread, m \in Training : Holds(t, m)' => Holds(t, m)
      BY <2>1, <3>1, ThreadFacts DEF Holds
    <3>4. \A k \in Command, m \in Training :
             Listed(k, m)' => /\ Listed(k, m)
                              /\ mExecutingList'[k].request = mExecutingList[k].request
      BY <3>2 DEF Listed
    <3> QED
      BY <2>1, <3>1, <3>2, <3>3, <3>4, ThreadFacts, FewerHoldersKeep
  <2> QED
    BY <1>3, <2>4, <2>5, FirstSends
<1>4. CASE GiveUp(c)
  <2>1. /\ c \in Training /\ step[c] = "reset" /\ c \in Thread
        /\ mTraingModelBuffer' = None /\ mTrainingModelCallback' = None
        /\ step' = [step EXCEPT ![c] = "done"] /\ result' = [result EXCEPT ![c] = "refused"]
        /\ UNCHANGED <<mExecutingList, job, sent>>
    BY <1>4, ThreadFacts DEF GiveUp, At, Goto, listVars
  <2>2. Holds(c, c)
    BY <2>1 DEF Holds
  <2>3. \A d \in Calls : step'[d] = IF d = c THEN "done" ELSE step[d]
    BY <2>1, ThreadFacts DEF PlaceType
  <2>4. \A u \in Thread, o \in Training : Holds(u, o)' => Holds(u, o) /\ u # c
    BY <2>1, <2>3, ThreadFacts DEF Holds
  <2>5. /\ \A n \in Training : result'[n] = "success" => result[n] = "success"
        /\ \A d \in Calls : step'[d] \in {"new", "fill", "send"} => step'[d] = step[d]
    BY <2>1, <2>3, ThreadFacts DEF ToldType
  <2> QED
    BY <2>1, <2>2, <2>4, <2>5, GivenUp
<1> QED
  BY <1>1, <1>2, <1>3, <1>4 DEF GoOn

\* Who is told the end of a training is whose model the buffer has.
LEMMA EndTold ==
    ASSUME PlaceType, ToldType, NEW t \in Answerer, NEW how \in {"failed", "success"},
           TellEnd(t, how)
    PROVE  /\ \A c \in Calls : step'[c] = step[c]
           /\ \A c \in Calls : \/ result'[c] = result[c]
                               \/ c = mTrainingModelCallback /\ result'[c] = how
<1>1. CASE mTrainingModelCallback = None
  BY <1>1 DEF TellEnd
<1>2. CASE mTrainingModelCallback # None
  BY <1>2, ThreadFacts DEF TellEnd, Goto, PlaceType, ToldType, Answerer
<1> QED
  BY <1>1, <1>2

\* A training goes on or ends with an answer or a timeout.
LEMMA AnswerActions ==
    ASSUME OneModel, ListType, PlaceType, ToldType, NEW t \in Answerer,
           TrainingFails(t) \/ TrainingEnds(t) \/ TrainingGoesOn(t) \/ ResetTraining(t)
    PROVE  OneModel'
<1> DEFINE m == job[t].request[1]
<1>a. /\ step[t] \in {"dispatch", "reset"} /\ t \in Thread
      /\ step[t] = "dispatch" => m \in Training
  BY ThreadFacts DEF TrainingFails, TrainingEnds, TrainingGoesOn, ResetTraining, At
<1>b. /\ job[t] # None
      /\ t = "event" => job[t].answer # None
      /\ job[t] \in Job /\ m \in Training
  BY <1>a DEF PlaceType, Answerer
<1>c. Holds(t, m)
  BY <1>a, <1>b, ThreadFacts DEF Holds, Answerer, PlaceType
<1>d. mTraingModelBuffer = m /\ mTrainingModelCallback = m
  BY <1>a, <1>b, <1>c, Alone
<1>e. t = "event" => /\ job[t].answer = job[t].request
                     /\ sent[m] = 1..job[t].request[2]
                     /\ job[t].request[2] \in 1..Packages
  BY <1>b, <1>c, RequestFacts DEF OneModel, SentInv, Job
<1>1. CASE TrainingFails(t)
  <2>1. /\ \A c \in Calls : step'[c] = step[c]
        /\ \A c \in Calls : \/ result'[c] = result[c]
                            \/ c = mTrainingModelCallback /\ result'[c] = "failed"
    BY <1>1, EndTold DEF TrainingFails
  <2>2. UNCHANGED <<mExecutingList, mTraingModelBuffer, mTrainingModelCallback, job, sent>>
    BY <1>1 DEF TrainingFails, listVars, profileVars, trainVars
  <2> QED
    BY <2>1, <2>2, ThreadFacts, QuietKeeps
<1>2. CASE TrainingEnds(t)
  <2>1. /\ \A c \in Calls : step'[c] = step[c]
        /\ \A c \in Calls : \/ result'[c] = result[c]
                            \/ c = mTrainingModelCallback /\ result'[c] = "success"
    BY <1>2, EndTold DEF TrainingEnds
  <2>2. UNCHANGED <<mExecutingList, mTraingModelBuffer, mTrainingModelCallback, job, sent>>
    BY <1>2 DEF TrainingEnds, listVars, profileVars, trainVars
  <2>a. job[t].answer # None
    BY <1>2 DEF TrainingEnds
  <2>3. t = "event"
    BY <1>b, <2>a DEF PlaceType, Answerer
  <2>4. NextPackage(t) > Packages
    BY <1>2, <1>b, <1>d, ThreadFacts DEF TrainingEnds, PastTheEnd
  <2>5. sent[m] = 1..Packages
    BY <1>e, <2>3, <2>4, NoneFacts DEF NextPackage
  <2>6. \A n \in Training :
           result'[n] = "success" => result[n] = "success" \/ sent[n] = 1..Packages
    BY <1>d, <2>1, <2>5, ThreadFacts
  <2> QED
    BY <2>1, <2>2, <2>6, ThreadFacts, QuietKeeps
<1>3. CASE TrainingGoesOn(t)
  <2> DEFINE n == NextPackage(t)
             j == [job[t] EXCEPT !.answer = None]
  <2>1. /\ n \in 1..Packages /\ SendCommand(t, <<m, n>>) /\ t = "event"
        /\ step' = [step EXCEPT ![t] = "stop"] /\ job' = [job EXCEPT ![t] = j]
    BY <1>3, <1>d, GoesOnWith
  <2>2. UNCHANGED <<mTraingModelBuffer, mTrainingModelCallback, result>>
    BY <1>3 DEF TrainingGoesOn, profileVars, trainVars
  <2>3. sent[m] = 1..(n - 1)
    BY <1>e, <2>1, NoneFacts DEF NextPackage
  <2>4. j.answer = None
    BY <1>b DEF Job
  <2> HIDE DEF n, j
  <2>5. \A c \in Calls : step'[c] = step[c]
    BY <2>1, ThreadFacts DEF PlaceType, Answerer
  <2>6. \A u \in Answerer : job'[u] = IF u = t THEN j ELSE job[u]
    BY <2>1 DEF PlaceType
  <2>7. \A u \in Thread, o \in Training : Holds(u, o)' => Holds(u, o) /\ u # t
    BY <2>1, <2>4, <2>5, <2>6, ThreadFacts DEF Holds, Answerer
  <2> HIDE DEF m
  <2> QED
    BY <1>a, <1>b, <1>c, <2>1, <2>2, <2>3, <2>5, <2>7, PackageKeeps
<1>4. CASE ResetTraining(t)
  <2>1. /\ mTraingModelBuffer' = None /\ mTrainingModelCallback' = None
        /\ job' = [job EXCEPT ![t] = None] /\ step' = [step EXCEPT ![t] = Dispatched(t)]
        /\ UNCHANGED <<mExecutingList, sent, result>>
    BY <1>4 DEF ResetTraining, Goto, listVars
  <2>2. \A c \in Calls : step'[c] = step[c]
    BY <2>1, ThreadFacts DEF PlaceType, Answerer
  <2>3. \A u \in Answerer : job'[u] = IF u = t THEN None ELSE job[u]
    BY <2>1 DEF PlaceType
  <2>4. \A u \in Thread, o \in Training : Holds(u, o)' => Holds(u, o) /\ u # t
    BY <2>2, <2>3, ThreadFacts DEF Holds, Answerer
  <2> HIDE DEF m
  <2> QED
    BY <1>a, <1>b, <1>c, <2>1, <2>2, <2>4, GivenUp
<1> QED
  BY <1>1, <1>2, <1>3, <1>4

\* An answer, a timeout and a progress.
LEMMA TakeActions ==
    ASSUME OneModel, ListType, PlaceType, ~mixed',
           (\E r \in Request : OnResponse(r)) \/ OnTimer \/ TellProgress
    PROVE  OneModel'
<1>1. ASSUME NEW r \in Request, OnResponse(r) PROVE OneModel'
  <2> DEFINE k == commandOfRequest(r)
  <2>1. /\ k \in Command
        /\ UNCHANGED <<mTraingModelBuffer, mTrainingModelCallback, sent, result>>
    BY <1>1, ResponseDoes
  <2>2. CASE UNCHANGED <<mExecutingList, step, job>>
    BY <2>1, <2>2, ThreadFacts, QuietKeeps
  <2>3. CASE /\ mExecutingList[k] \in Entry /\ mExecutingList[k] # None
             /\ mExecutingList' = [mExecutingList EXCEPT ![k] = None]
             /\ job' = [job EXCEPT !["event"] =
                          [request |-> mExecutingList[k].request, answer |-> r]]
             /\ mixed' = (mixed \/ mExecutingList[k].request # r)
             /\ step' = [step EXCEPT !["event"] = "stop"]
    <3> DEFINE j == [request |-> mExecutingList[k].request, answer |-> r]
    <3>a. mExecutingList[k].request = r
      BY Zenon, <2>3
    <3>1. j \in Job /\ j # None /\ j.request = mExecutingList[k].request /\ j.answer = j.request
      BY <1>1, <3>a, NoneFacts DEF Job
    <3>2. job' = [job EXCEPT !["event"] = j]
      BY <2>3
    <3>3. \A c \in Calls : step'[c] = step[c]
      BY <2>3, ThreadFacts DEF PlaceType
    <3> HIDE DEF j, k
    <3>4. "event" \in Answerer
      BY DEF Answerer
    <3> QED
      BY <2>1, <2>3, <3>1, <3>2, <3>3, <3>4, TakenKeeps
  <2> QED
    BY <1>1, <2>2, <2>3, ResponseDoes
<1>2. ASSUME OnTimer PROVE OneModel'
  <2>1. UNCHANGED <<mTraingModelBuffer, mTrainingModelCallback, sent, result>>
    BY <1>2, TimerDoes
  <2>2. CASE UNCHANGED <<mExecutingList, job>> /\ step' = [step EXCEPT !["timer"] = "stop"]
    <3>1. \A c \in Calls : step'[c] = step[c]
      BY <2>2, ThreadFacts DEF PlaceType
    <3> QED
      BY <2>1, <2>2, <3>1, ThreadFacts, QuietKeeps
  <2>3. ASSUME NEW k \in Command, mExecutingList[k] \in Entry, mExecutingList[k] # None,
               mExecutingList' = [mExecutingList EXCEPT ![k] = None],
               job' = [job EXCEPT !["timer"] =
                         [request |-> mExecutingList[k].request, answer |-> None]],
               step' = [step EXCEPT !["timer"] = "dispatch"]
        PROVE  OneModel'
    <3> DEFINE j == [request |-> mExecutingList[k].request, answer |-> None]
    <3>1. j \in Job /\ j # None /\ j.request = mExecutingList[k].request
      BY <2>3, NoneFacts DEF Entry, Job
    <3>2. job' = [job EXCEPT !["timer"] = j]
      BY <2>3
    <3>3. \A c \in Calls : step'[c] = step[c]
      BY <2>3, ThreadFacts DEF PlaceType
    <3> HIDE DEF j
    <3>4. "timer" \in Answerer /\ "timer" # "event"
      BY DEF Answerer
    <3> QED
      BY <2>1, <2>3, <3>1, <3>2, <3>3, <3>4, TakenKeeps
  <2> QED
    BY <1>2, <2>2, <2>3, TimerDoes
<1>3. ASSUME TellProgress PROVE OneModel'
  <2>1. /\ job' = [job EXCEPT !["event"] = None] /\ step' = [step EXCEPT !["event"] = "idle"]
        /\ UNCHANGED <<mExecutingList, mTraingModelBuffer, mTrainingModelCallback, sent, result>>
    BY <1>3 DEF TellProgress, Goto, listVars, profileVars, trainVars
  <2>2. /\ \A c \in Calls : step'[c] = step[c]
        /\ \A u \in Answerer : job'[u] = IF u = "event" THEN None ELSE job[u]
    BY <2>1, ThreadFacts DEF PlaceType, Answerer
  <2>3. \A u \in Thread, m \in Training : Holds(u, m)' => Holds(u, m) /\ u # "event"
    BY <2>2, ThreadFacts DEF Holds, Answerer
  <2>4. \A k \in Command, m \in Training :
           Listed(k, m)' => /\ Listed(k, m)
                            /\ mExecutingList'[k].request = mExecutingList[k].request
    BY <2>1 DEF Listed
  <2>5. \A m \in Training : Holds("event", m)' => job'["event"] = job["event"]
    BY <2>3, ThreadFacts DEF Answerer
  <2> QED
    BY <2>1, <2>2, <2>3, <2>4, <2>5, ThreadFacts, FewerHoldersKeep
<1> QED
  BY <1>1, <1>2, <1>3

\* What was mixed or raced stays so.
LEMMA PastStays ==
    ASSUME [SettingsNext]_settingsVars
    PROVE  (mixed => mixed') /\ (raced => raced')
<1> DEFINE Stays == (mixed => mixed') /\ (raced => raced')
<1>1. ASSUME NEW t \in Thread, UpdateTimer(t) PROVE Stays
  BY <1>1 DEF UpdateTimer, TimerStop, FindEarliest, TimerStart
<1>2. ASSUME NEW c \in Calls, Begin(c) \/ SendFirst(c) \/ GiveUp(c) PROVE Stays
  BY <1>2 DEF Begin, AskDevice, AskKept, TestBuffer, SendFirst, GiveUp
<1>3. ASSUME NEW c \in Calls, FillBuffer(c) PROVE Stays
  BY Zenon, <1>3 DEF FillBuffer
<1>4. ASSUME NEW t \in Answerer, Dispatch(t) PROVE Stays
  BY <1>4 DEF Dispatch, DispatchAsk, TrainingFails, TrainingEnds, TrainingGoesOn,
     ResetTraining
<1>5. ASSUME NEW r \in Request, OnResponse(r) PROVE Stays
  BY Zenon, <1>5 DEF OnResponse
<1>6. ASSUME TellProgress \/ TimerThread \/ Tick \/ UNCHANGED settingsVars PROVE Stays
  BY <1>6 DEF TellProgress, TimerThread, ThreadLooks, ThreadWaits, ThreadWakes, Trigger,
     OnTimer,
     Tick, settingsVars
<1> QED
  BY <1>1, <1>2, <1>3, <1>4, <1>5, <1>6 DEF SettingsNext, GoOn, Answerer

\* The buffer goes from hand to hand with its model.
LEMMA ModelStep ==
    ASSUME SettingsTypes, ModelInv, [SettingsNext]_settingsVars
    PROVE  ModelInv'
<1> SUFFICES ASSUME ~mixed', ~raced' PROVE OneModel'
  BY DEF ModelInv, OneModel
<1>1. OneModel /\ ListType /\ PlaceType /\ ToldType
  BY PastStays DEF ModelInv, OneModel, SettingsTypes
<1>2. \/ \/ \E t \in Thread : UpdateTimer(t)
         \/ \E c \in Calls : AskKept(c)
         \/ ThreadLooks \/ ThreadWaits \/ ThreadWakes \/ Trigger
         \/ UNCHANGED settingsVars
      \/ (\E c \in Calls : AskDevice(c)) \/ (\E t \in Answerer : DispatchAsk(t)) \/ Tick
      \/ \E c \in Calls : TestBuffer(c) \/ GoOn(c)
      \/ \E t \in Answerer : \/ TrainingFails(t) \/ TrainingEnds(t)
                             \/ TrainingGoesOn(t) \/ ResetTraining(t)
      \/ (\E r \in Request : OnResponse(r)) \/ OnTimer \/ TellProgress
  BY DEF SettingsNext, Begin, Dispatch, TimerThread, Answerer
<1> QED
  BY <1>1, <1>2, QuietActions, AskActions, BeginActions, AnswerActions, TakeActions

\* A training is a success only if every package of its model was sent, whatever the
\* number of trainings, packages and calls, but for late answers and two trainings that
\* begin at once (trainingModelOnResponse, trainingModelSendNextPackage).
THEOREM SuccessIsWhole == SettingsSpec => []WholeModelSent
<1>1. SettingsInit => ModelInv
  <2> SUFFICES ASSUME SettingsInit PROVE OneModel
    BY DEF ModelInv, OneModel
  <2>1. /\ mExecutingList = [k \in Command |-> None]
        /\ mTraingModelBuffer = None /\ mTrainingModelCallback = None
        /\ job = [t \in Answerer |-> None]
        /\ result = [c \in Calls |-> None] /\ sent = [m \in Training |-> {}]
    BY DEF SettingsInit, Answerer
  <2>2. \A c \in Calls : step[c] = "new"
    <3> SUFFICES ASSUME NEW c \in Calls PROVE step[c] = "new"
      OBVIOUS
    <3>1. c \in Thread /\ c # "event" /\ c # "timer"
      BY ThreadFacts
    <3> QED
      BY <3>1 DEF SettingsInit
  <2>3. \A t \in Thread, m \in Training : ~Holds(t, m)
    BY <2>1, <2>2, ThreadFacts DEF Holds
  <2>4. \A k \in Command, m \in Training : ~Listed(k, m)
    BY <2>1 DEF Listed
  <2>5. BufferInv /\ OneHolder
    BY <2>1, <2>3, <2>4 DEF BufferInv, OneHolder
  <2>6. \A m \in Training : result[m] # "success" /\ sent[m] = {} /\ mTraingModelBuffer # m
    <3>1. None # "success"
      BY NoneAssumption
    <3> QED
      BY <2>1, <3>1, ThreadFacts
  <2>7. SentInv
    BY <2>3, <2>4, <2>6, ThreadFacts DEF SentInv, Answerer
  <2> QED
    BY <2>5, <2>7 DEF OneModel
<1>2. SettingsTypes /\ ModelInv /\ [SettingsNext]_settingsVars => ModelInv'
  BY ModelStep
<1>3. SettingsTypes /\ ModelInv => WholeModelSent
  BY DEF ModelInv, SentInv, WholeModelSent
<1> QED
  BY <1>1, <1>2, <1>3, TypesHold, PTL DEF SettingsSpec
=============================================================================
