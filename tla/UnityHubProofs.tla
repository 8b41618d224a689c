--------------------------- MODULE UnityHubProofs ---------------------------
(***************************************************************************)
(* Any number of devices, slots, Resets and waiting messages: the types,   *)
(* one slot for each device, and that the search for devices goes on.      *)
(***************************************************************************)
EXTENDS UnityHub, FiniteSetTheorems, SequenceTheorems, TLAPS

-----------------------------------------------------------------------------
(* The invariant.                                                          *)

Kinds == {"found", "discard", "connected", "lost", "scan"}

\* The types, with what they need of the messages and the listeners.
MessagesOK ==
    /\ messages \in Seq(Kinds \X (Device \cup {None}))
    /\ \A k \in 1..Len(messages) : messages[k][1] # "scan" => messages[k][2] \in Device

ListenersOK ==
    /\ mListeners \in Nat /\ turn \in Nat /\ resets \in 0..MaxResets
    /\ main \in {"play", "scan", "reset", "prepare", "gone"}
    /\ turn = 0 \/ turn < mListeners
    /\ mListeners <= resets + 1
    /\ main = "reset" => mListeners <= resets
    /\ main # "gone" => mListeners > 0
    /\ main # "gone" /\ ~_disposed => mListeners = 1

SlotsOK ==
    /\ mDeviceComps \in [Slot -> Device \cup {None}]
    /\ mFoundDevices \subseteq mDevices /\ mDevices \subseteq Device
    /\ status \in [Device -> {"absent", "idle", "connecting", "connected"}]

FlagsOK == {mNeedDeviceScan, native, _disposed, scanning, hitch, leftover} \subseteq BOOLEAN

DataOK == MessagesOK /\ ListenersOK /\ SlotsOK /\ FlagsOK

\* With one listener a device is connected, and put into a slot, only when it
\* holds none: between two connections, and between a slot and the next
\* connection, a message tells that the device is gone; ...
Held(d) == \E s \in Slot : mDeviceComps[s] = d
Gone(k, d) == messages[k] \in {<<"lost", d>>, <<"discard", d>>}
Comes(k, d) == messages[k] = <<"connected", d>>

SlotThenGone == \A d \in Device, k \in 1..Len(messages) :
    Held(d) /\ Comes(k, d) => \E j \in 1..Len(messages) : j < k /\ Gone(j, d)
ComesThenGone == \A d \in Device, k, l \in 1..Len(messages) :
    Comes(k, d) /\ Comes(l, d) /\ k < l =>
        \E j \in 1..Len(messages) : k < j /\ j < l /\ Gone(j, d)
\* ... also for the one that the hub may yet send, ...
LostIsTold == \A d \in Device : status[d] # "connected" =>
    /\ Held(d) => \E j \in 1..Len(messages) : Gone(j, d)
    /\ \A k \in 1..Len(messages) : Comes(k, d) =>
          \E j \in 1..Len(messages) : k < j /\ Gone(j, d)
\* ... and what is in a slot has an object that the message reaches.
HeldIsKnown == \A d \in Device : Held(d) => d \in mDevices
NoTwoSlots == \A s, t \in Slot : mDeviceComps[s] = mDeviceComps[t] =>
                                     s = t \/ mDeviceComps[s] = None
OneListener == mListeners <= 1 /\ ~leftover /\ main # "gone"
SlotInv == OneListener => /\ SlotThenGone /\ ComesThenGone /\ LostIsTold
                          /\ HeldIsKnown /\ NoTwoSlots

\* When the run thread has come to message k the device d has an object.
Known(k, d) ==
    \/ /\ d \in mDevices
       /\ \A j \in 1..Len(messages) : j < k => messages[j] # <<"discard", d>>
    \/ \E i \in 1..Len(messages) :
          /\ i < k /\ messages[i] = <<"found", d>>
          /\ \A j \in 1..Len(messages) : i < j /\ j < k => messages[j] # <<"discard", d>>

\* A device that connects is known when that is told; what was discarded was
\* discarded by a scan whose end is still to be told; and the search goes on
\* whatever becomes of the losses among the messages.
KnownWhenTold ==
    /\ \A d \in Device, k \in 1..Len(messages) : Comes(k, d) => Known(k, d)
    /\ \A d \in Device : status[d] # "absent" => Known(Len(messages) + 1, d)
DiscardInScan == \A k \in 1..Len(messages) : messages[k][1] = "discard" =>
    scanning \/ \E l \in 1..Len(messages) : k < l /\ messages[l][1] = "scan"
Searching ==
    \/ main = "gone" \/ hitch \/ FreeSlots(mDeviceComps) = {}
    \/ scanning \/ mNeedDeviceScan \/ main \in {"scan", "reset", "prepare"}
    \/ \E d \in Device : status[d] = "connecting"
    \/ \E i \in 1..Len(messages) : messages[i][1] \in {"scan", "connected"}
SearchInv == main # "gone" => KnownWhenTold /\ DiscardInScan /\ Searching
-----------------------------------------------------------------------------
(* Effects.                                                                *)

Message == Kinds \X (Device \cup {None})
Statuses == {"absent", "idle", "connecting", "connected"}

\* The step adds messages, all in S.
Adds(S) ==
    /\ messages' \in Seq(Message) /\ Len(messages') \in Nat /\ Len(messages') >= Len(messages)
    /\ \A k \in 1..Len(messages) : k \in 1..Len(messages') /\ messages'[k] = messages[k]
    /\ \A k \in 1..Len(messages') :
          \/ k \in 1..Len(messages)
          \/ k > Len(messages) /\ messages'[k] \in S

\* An attempt for an idle device starts.
Starts(d) == status[d] = "idle" /\ status'[d] = "connecting"

\* One more message.
LEMMA Appended ==
    ASSUME MessagesOK, NEW m \in Message, messages' = Append(messages, m)
    PROVE  /\ Adds({m}) /\ Len(messages) \in Nat
           /\ Len(messages') = Len(messages) + 1 /\ messages'[Len(messages')] = m
BY DEF MessagesOK, Adds, Message

\* A scan that starts discards what is idle.
LEMMA ScanStartsDoes ==
    ASSUME MessagesOK, SlotsOK, ScanStarts
    PROVE  /\ scanning' = TRUE
           /\ Adds({<<"discard", d>> : d \in Idle})
           /\ status' \in [Device -> Statuses]
           /\ \A d \in Device : status'[d] = IF status[d] = "idle" THEN "absent" ELSE status[d]
<1> DEFINE S == {<<"discard", d>> : d \in Idle}
<1>1. S \in SUBSET Message
  BY DEF Idle, Message, Kinds
<1>2. PICK q \in Discards(Idle) : messages' = messages \o q
  BY DEF ScanStarts
<1>3. Cardinality(Idle) \in Nat
  <2>1. Idle \in SUBSET Device /\ IsFiniteSet(Device)
    BY UnityHubAssumption DEF Idle
  <2> QED
    BY <2>1, FS_Subset, FS_CardinalityType
<1>4. q \in [1..Cardinality(Idle) -> S]
  BY DEF Discards
<1> HIDE DEF S
<1>5. q \in Seq(S)
  BY <1>3, <1>4, SeqDef
<1>6. Adds(S)
  <2>1. messages \in Seq(Message) /\ Len(messages) \in Nat /\ q \in Seq(Message) /\ Len(q) \in Nat
    BY <1>1, <1>5 DEF MessagesOK, Message
  <2>2. /\ messages' \in Seq(Message) /\ Len(messages') = Len(messages) + Len(q)
        /\ \A k \in 1..Len(messages) : messages'[k] = messages[k]
        /\ \A k \in 1..Len(messages') :
              k > Len(messages) => messages'[k] = q[k - Len(messages)]
    BY <1>2, <2>1
  <2>3. \A j \in 1..Len(q) : q[j] \in S
    BY <1>5, ElementOfSeq
  <2>4. \A k \in 1..Len(messages') :
           \/ k \in 1..Len(messages)
           \/ k > Len(messages) /\ k - Len(messages) \in 1..Len(q)
    BY <2>1, <2>2
  <2> QED
    BY <2>1, <2>2, <2>3, <2>4 DEF Adds
<1>7. /\ status' = [d \in Device |-> IF d \in Idle THEN "absent" ELSE status[d]]
      /\ scanning' = TRUE
  BY DEF ScanStarts
<1> QED
  BY <1>6, <1>7 DEF Idle, SlotsOK, Statuses, S

\* Trying to connect ends with a full house, an attempt or the wish for a scan.
LEMMA TryConnectingDoes ==
    ASSUME SlotsOK, FlagsOK, NEW comps, NEW found \in SUBSET Device, TryConnecting(comps, found)
    PROVE  /\ mFoundDevices' \subseteq found
           /\ status' \in [Device -> Statuses]
           /\ \A d \in Device : status'[d] = status[d] \/ Starts(d)
           /\ mNeedDeviceScan' = mNeedDeviceScan \/ mNeedDeviceScan' = TRUE
           /\ \/ FreeSlots(comps) = {} \/ mNeedDeviceScan' = TRUE
              \/ \E d \in Device : status'[d] = "connecting"
<1>0. status \in [Device -> Statuses]
  BY DEF SlotsOK, Statuses
<1>1. CASE /\ FreeSlots(comps) = {}
           /\ mFoundDevices' = {} /\ UNCHANGED <<mNeedDeviceScan, status>>
  BY <1>0, <1>1
<1>2. ASSUME NEW refused \in SUBSET found, mFoundDevices' = found \ refused,
             mNeedDeviceScan' = TRUE, UNCHANGED status
      PROVE  /\ mFoundDevices' \subseteq found /\ status' \in [Device -> Statuses]
             /\ mNeedDeviceScan' = TRUE
  BY <1>0, <1>2
<1>3. ASSUME NEW refused \in SUBSET found, mFoundDevices' = found \ refused,
             NEW d \in found \ refused, DeviceConnect(d), UNCHANGED mNeedDeviceScan
      PROVE  /\ mFoundDevices' \subseteq found /\ status' \in [Device -> Statuses]
             /\ UNCHANGED mNeedDeviceScan /\ d \in Device /\ status'[d] = "connecting"
             /\ status[d] = "idle"
             /\ \A e \in Device : e # d => status'[e] = status[e]
  BY <1>0, <1>3 DEF DeviceConnect, Idle, Statuses
<1>4. \/ /\ FreeSlots(comps) = {} /\ mFoundDevices' = {}
         /\ UNCHANGED <<mNeedDeviceScan, status>>
      \/ \E refused \in SUBSET found :
            /\ mFoundDevices' = found \ refused
            /\ \/ mNeedDeviceScan' = TRUE /\ UNCHANGED status
               \/ \E d \in found \ refused : DeviceConnect(d) /\ UNCHANGED mNeedDeviceScan
  BY DEF TryConnecting
<1>5. CASE \E refused \in SUBSET found :
            /\ mFoundDevices' = found \ refused
            /\ \/ mNeedDeviceScan' = TRUE /\ UNCHANGED status
               \/ \E d \in found \ refused : DeviceConnect(d) /\ UNCHANGED mNeedDeviceScan
  <2>1. PICK refused \in SUBSET found :
            /\ mFoundDevices' = found \ refused
            /\ \/ mNeedDeviceScan' = TRUE /\ UNCHANGED status
               \/ \E d \in found \ refused : DeviceConnect(d) /\ UNCHANGED mNeedDeviceScan
    BY <1>5
  <2>2. CASE mNeedDeviceScan' = TRUE /\ UNCHANGED status
    BY <1>2, <2>1, <2>2
  <2>3. CASE \E d \in found \ refused : DeviceConnect(d) /\ UNCHANGED mNeedDeviceScan
    <3>1. PICK d \in found \ refused : DeviceConnect(d) /\ UNCHANGED mNeedDeviceScan
      BY <2>3
    <3>2. /\ mFoundDevices' \subseteq found /\ status' \in [Device -> Statuses]
          /\ UNCHANGED mNeedDeviceScan /\ d \in Device /\ status'[d] = "connecting"
          /\ status[d] = "idle"
          /\ \A e \in Device : e # d => status'[e] = status[e]
      BY <1>3, <2>1, <3>1
    <3>3. \A e \in Device : status'[e] = status[e] \/ Starts(e)
      BY <3>2 DEF Starts
    <3> QED
      BY <3>2, <3>3
  <2> QED
    BY <2>1, <2>2, <2>3
<1> QED
  BY <1>1, <1>4, <1>5

\* A device is put into at most one more slot, and taken out of at most one.
LEMMA SlotChanges ==
    ASSUME SlotsOK, NEW d \in Device
    PROVE  /\ Place(d) \in [Slot -> Device \cup {None}]
           /\ \A s \in Slot : Place(d)[s] = mDeviceComps[s] \/ Place(d)[s] = d
           /\ \A s, t \in Slot : Place(d)[s] # mDeviceComps[s] /\ Place(d)[t] # mDeviceComps[t]
                                    => s = t
           /\ Release(d) \in [Slot -> Device \cup {None}]
           /\ \A s \in Slot : \/ Release(d)[s] = mDeviceComps[s]
                             \/ Release(d)[s] = None
           /\ NoTwoSlots => \A s \in Slot : Release(d)[s] # d
<1>0. mDeviceComps \in [Slot -> Device \cup {None}]
  BY DEF SlotsOK
<1>1. \/ Place(d) = mDeviceComps
      \/ \E x : Place(d) = [mDeviceComps EXCEPT ![x] = d]
  BY DEF Place
<1> DEFINE held == {s \in Slot : mDeviceComps[s] = d}
           x == CHOOSE s \in held : \A t \in held : s <= t
<1>2. \/ held = {} /\ Release(d) = mDeviceComps
      \/ held # {} /\ Release(d) = [mDeviceComps EXCEPT ![x] = None]
  BY DEF Release
<1>3. NoTwoSlots /\ held # {} => held = {x}
  <2> SUFFICES ASSUME NoTwoSlots, NEW s \in held
               PROVE  held = {x}
    OBVIOUS
  <2>1. held = {s}
    BY UnityHubAssumption DEF NoTwoSlots
  <2>2. s <= s
    BY UnityHubAssumption
  <2>3. \E z \in held : \A t \in held : z <= t
    BY <2>1, <2>2
  <2>4. x \in held
    BY <2>3
  <2> QED
    BY <2>1, <2>4
<1>4. NoTwoSlots => \A s \in Slot : Release(d)[s] # d
  <2> HIDE DEF x
  <2> QED
    BY <1>0, <1>2, <1>3, UnityHubAssumption
<1> HIDE DEF held, x
<1> QED
  BY <1>0, <1>1, <1>2, <1>4

\* The first message is gone, the others move up.
Taken ==
    /\ messages' \in Seq(Message) /\ Len(messages) \in Nat \ {0}
    /\ Len(messages') = Len(messages) - 1
    /\ \A k \in 1..Len(messages') :
          k + 1 \in 1..Len(messages) /\ k + 1 # 1 /\ messages'[k] = messages[k + 1]
    /\ \A k \in 1..Len(messages) :
          k # 1 => k - 1 \in 1..Len(messages') /\ messages'[k - 1] = messages[k]

\* The first message of a sequence that is not empty, and what taking it leaves.
LEMMA FirstMessage ==
    ASSUME MessagesOK, messages # <<>>
    PROVE  /\ 1 \in 1..Len(messages) /\ Head(messages) = messages[1] /\ messages[1] \in Message
           /\ messages' = Tail(messages) => Taken
<1>1. messages \in Seq(Message) /\ Len(messages) \in Nat \ {0} /\ 1 \in 1..Len(messages)
  BY DEF MessagesOK, Message
<1>2. Head(messages) = messages[1] /\ messages[1] \in Message
  BY <1>1
<1>3. ASSUME messages' = Tail(messages)
      PROVE  Taken
  <2>1. /\ messages' \in Seq(Message) /\ Len(messages') = Len(messages) - 1
        /\ \A k \in 1..Len(messages') : messages'[k] = messages[k + 1]
    BY <1>1, <1>3
  <2>2. \A k \in 1..Len(messages') : k + 1 \in 1..Len(messages) /\ k + 1 # 1
    BY <1>1, <2>1
  <2>3. \A k \in 1..Len(messages) : k # 1 =>
           k - 1 \in 1..Len(messages') /\ (k - 1) + 1 = k
    BY <1>1, <2>1
  <2>4. \A k \in 1..Len(messages) : k # 1 => messages'[k - 1] = messages[(k - 1) + 1]
    BY <2>1, <2>3
  <2> QED
    BY <1>1, <2>1, <2>2, <2>3, <2>4 DEF Taken
<1> QED
  BY <1>1, <1>2, <1>3

\* What a listener does with a message, and when it tries to connect.
Tried ==
    \/ FreeSlots(mDeviceComps') = {} \/ mNeedDeviceScan' = TRUE
    \/ \E e \in Device : status'[e] = "connecting"
Handled(kind, d) ==
    /\ mDeviceComps' \in [Slot -> Device \cup {None}]
    /\ status' \in [Device -> Statuses]
    /\ \A e \in Device : status'[e] = status[e] \/ Starts(e)
    /\ mNeedDeviceScan' = mNeedDeviceScan \/ mNeedDeviceScan' = TRUE
    /\ mFoundDevices' \subseteq mFoundDevices \cup (IF kind = "found" THEN {d} ELSE {})
    /\ kind = "discard" => d \notin mFoundDevices'
    /\ \/ kind = "connected" /\ d \in mDevices /\ mDeviceComps' = Place(d)
       \/ kind \in {"lost", "discard"} /\ d \in mDevices /\ mDeviceComps' = Release(d)
       \/ (kind \in {"scan", "found"} \/ d \notin mDevices) /\ UNCHANGED mDeviceComps
    /\ kind = "scan" => Tried
    /\ kind = "connected" /\ d \in mDevices => Tried
    /\ kind = "lost" /\ mDeviceComps' # mDeviceComps => Tried

\* Whatever the kind of the message, the handler does what Handled says.
LEMMA HandleDoes ==
    ASSUME DataOK, NEW kind \in Kinds, NEW d, kind # "scan" => d \in Device, Handle(kind, d)
    PROVE  Handled(kind, d)
<1>0. /\ SlotsOK /\ FlagsOK
      /\ mDeviceComps \in [Slot -> Device \cup {None}] /\ status \in [Device -> Statuses]
      /\ mFoundDevices \subseteq mDevices /\ mFoundDevices \in SUBSET Device
  BY DEF DataOK, SlotsOK, Statuses
<1>1. CASE kind = "scan" /\ onScanFinished
  BY <1>0, <1>1, TryConnectingDoes DEF onScanFinished, Handled, Tried
<1>2. CASE kind = "found" /\ onDeviceFound(d)
  BY <1>0, <1>2 DEF onDeviceFound, Handled
<1>3. CASE kind = "discard" /\ d \in mDevices /\ onDeviceDiscard(d)
  <2>1. Release(d) \in [Slot -> Device \cup {None}]
    BY <1>0, <1>3, SlotChanges
  <2> QED
    BY <1>0, <1>3, <2>1 DEF onDeviceDiscard, Handled
<1>4. CASE kind = "connected" /\ d \in mDevices /\ onDeviceConnected(d)
  <2>1. Place(d) \in [Slot -> Device \cup {None}]
    BY <1>0, <1>4, SlotChanges
  <2>2. mDeviceComps' = Place(d) /\ TryConnecting(Place(d), mFoundDevices)
    BY <1>4 DEF onDeviceConnected
  <2> QED
    BY <1>0, <1>4, <2>1, <2>2, TryConnectingDoes DEF Handled, Tried
<1>5. CASE kind = "lost" /\ d \in mDevices /\ onDeviceDisconnected(d)
  <2>1. Release(d) \in [Slot -> Device \cup {None}] /\ mDeviceComps' = Release(d)
    BY <1>0, <1>5, SlotChanges DEF onDeviceDisconnected
  <2>2. CASE TryConnecting(Release(d), mFoundDevices)
    BY <1>0, <1>5, <2>1, <2>2, TryConnectingDoes DEF Handled, Tried
  <2>3. CASE /\ UNCHANGED <<mFoundDevices, mNeedDeviceScan, status>>
             /\ \/ Release(d) = mDeviceComps
                \/ \E s \in Slot : Release(d)[s] # None /\ status[Release(d)[s]] = "connecting"
    <3>1. Release(d) # mDeviceComps => \E e \in Device : status'[e] = "connecting"
      <4> SUFFICES ASSUME NEW s \in Slot, Release(d)[s] # None,
                          status[Release(d)[s]] = "connecting"
                   PROVE  \E e \in Device : status'[e] = "connecting"
        BY <2>3
      <4>1. Release(d)[s] \in Device
        BY <2>1
      <4> QED
        BY <2>3, <4>1
    <3> QED
      BY <1>0, <1>5, <2>1, <2>3, <3>1 DEF Handled, Tried
  <2> QED
    BY <1>5, <2>2, <2>3 DEF onDeviceDisconnected
<1>6. CASE kind \notin {"scan", "found"} /\ d \notin mDevices /\ UNCHANGED <<appVars, status>>
  BY <1>0, <1>6 DEF Handled, appVars
<1> QED
  BY <1>1, <1>2, <1>3, <1>4, <1>5, <1>6 DEF Handle

\* One listener has the message; with the last of them it goes.
LEMMA DeliverDoes ==
    ASSUME DataOK, Deliver
    PROVE  LET kind == messages[1][1]
               d == messages[1][2]
           IN  /\ 1 \in 1..Len(messages) /\ messages[1] = <<kind, d>> /\ kind \in Kinds
               /\ kind # "scan" => d \in Device
               /\ main # "gone" /\ mListeners > 0
               /\ Handled(kind, d)
               /\ \/ /\ turn + 1 >= mListeners /\ turn' = 0 /\ Taken
                     /\ mDevices' = IF kind = "found" THEN mDevices \cup {d}
                                    ELSE IF kind = "discard" THEN mDevices \ {d} ELSE mDevices
                  \/ /\ turn + 1 < mListeners /\ turn' = turn + 1 /\ UNCHANGED messages
                     /\ mDevices' = IF kind = "found" THEN mDevices \cup {d} ELSE mDevices
               /\ UNCHANGED <<mListeners, native, _disposed, main, scanning, hitch, leftover,
                              resets>>
<1> DEFINE kind == messages[1][1]
           d == messages[1][2]
<1>1. MessagesOK /\ ListenersOK /\ messages # <<>>
  BY DEF DataOK, Deliver
<1>2. /\ 1 \in 1..Len(messages) /\ Head(messages) = messages[1] /\ messages[1] \in Message
      /\ messages' = Tail(messages) => Taken
  BY <1>1, FirstMessage
<1>3. messages[1] = <<kind, d>> /\ kind \in Kinds /\ (kind # "scan" => d \in Device)
  BY <1>1, <1>2 DEF Message, MessagesOK
<1>4. /\ Handle(kind, d) /\ main # "gone" /\ mListeners > 0
      /\ turn' = IF turn + 1 >= mListeners THEN 0 ELSE turn + 1
      /\ messages' = IF turn + 1 >= mListeners THEN Tail(messages) ELSE messages
      /\ mDevices' = CASE kind = "found"                                  -> mDevices \cup {d}
                       [] kind = "discard" /\ turn + 1 >= mListeners -> mDevices \ {d}
                       [] OTHER                                         -> mDevices
      /\ UNCHANGED <<mListeners, native, _disposed, main, scanning, hitch, leftover, resets>>
  BY <1>2 DEF Deliver
<1> HIDE DEF kind, d
<1>5. Handled(kind, d)
  BY <1>3, <1>4, HandleDoes
<1>6. CASE turn + 1 >= mListeners
  <2>1. /\ turn' = 0 /\ Taken
        /\ mDevices' = IF kind = "found" THEN mDevices \cup {d}
                       ELSE IF kind = "discard" THEN mDevices \ {d} ELSE mDevices
    BY <1>2, <1>4, <1>6
  <2> QED
    BY <1>2, <1>3, <1>4, <1>5, <1>6, <2>1 DEF kind, d
<1>7. CASE turn + 1 < mListeners
  <2>1. /\ turn' = turn + 1 /\ UNCHANGED messages
        /\ mDevices' = IF kind = "found" THEN mDevices \cup {d} ELSE mDevices
    BY <1>1, <1>4, <1>7 DEF ListenersOK
  <2> QED
    BY <1>2, <1>3, <1>4, <1>5, <1>7, <2>1 DEF kind, d
<1> QED
  BY <1>1, <1>6, <1>7 DEF ListenersOK
-----------------------------------------------------------------------------
(* Types.                                                                  *)

\* The initial state has its types.
LEMMA DataInit == Init => DataOK
<1> SUFFICES ASSUME Init PROVE DataOK
  OBVIOUS
<1>1. MessagesOK
  BY DEF Init, MessagesOK
<1>2. ListenersOK
  BY UnityHubAssumption DEF Init, ListenersOK
<1>3. SlotsOK
  BY DEF Init, SlotsOK
<1>4. FlagsOK
  BY Zenon DEF Init, FlagsOK
<1> QED
  BY <1>1, <1>2, <1>3, <1>4 DEF DataOK

\* No messages are sound ones.
LEMMA NoMessages ==
    ASSUME messages' = <<>>
    PROVE  MessagesOK'
BY DEF MessagesOK

\* So are more of them.
LEMMA MessagesGrow ==
    ASSUME MessagesOK, NEW S, Adds(S), \A m \in S : m[1] # "scan" => m[2] \in Device
    PROVE  MessagesOK'
<1>1. \A k \in 1..Len(messages') : messages'[k][1] # "scan" => messages'[k][2] \in Device
  BY DEF MessagesOK, Adds
<1> QED
  BY <1>1 DEF MessagesOK, Adds, Message

\* A message of the hub about one device, or the end of a scan.
LEMMA DataTold ==
    ASSUME DataOK,
           \/ ScanEnds
           \/ \E d \in Device : DeviceSeen(d) \/ HubConnects(d) \/ HubLoses(d)
    PROVE  DataOK'
<1>1. /\ UNCHANGED <<mDeviceComps, mFoundDevices, hubVars, main, turn, leftover, resets>>
      /\ UNCHANGED mNeedDeviceScan
  BY DEF DeviceSeen, HubConnects, HubLoses, ScanEnds, appVars
<1>2. PICK m \in Message : messages' = Append(messages, m) /\ (m[1] # "scan" => m[2] \in Device)
  <2>1. \A x \in {"found", "connected", "lost"}, d \in Device :
           <<x, d>> \in Message /\ <<x, d>>[2] \in Device
    BY DEF Message, Kinds
  <2>2. <<"scan", None>> \in Message /\ <<"scan", None>>[1] = "scan"
    BY DEF Message, Kinds
  <2> QED
    BY <2>1, <2>2 DEF DeviceSeen, HubConnects, HubLoses, ScanEnds
<1>3. MessagesOK'
  <2>1. Adds({m}) /\ MessagesOK
    BY <1>2, Appended DEF DataOK
  <2>2. \A x \in {m} : x[1] # "scan" => x[2] \in Device
    BY <1>2
  <2> QED
    BY <2>1, <2>2, MessagesGrow
<1>4. ListenersOK'
  BY <1>1 DEF DataOK, ListenersOK, hubVars
<1>5. SlotsOK'
  <2>1. status' \in [Device -> Statuses]
    BY DEF DataOK, SlotsOK, Statuses, DeviceSeen, HubConnects, HubLoses, ScanEnds
  <2> QED
    BY <1>1, <2>1 DEF DataOK, SlotsOK, Statuses, hubVars
<1>6. FlagsOK'
  <2>1. scanning' \in BOOLEAN /\ hitch' \in BOOLEAN
    BY Zenon DEF DataOK, FlagsOK, DeviceSeen, HubConnects, HubLoses, ScanEnds
  <2> QED
    BY <1>1, <2>1, Zenon DEF DataOK, FlagsOK, hubVars
<1> QED
  BY <1>3, <1>4, <1>5, <1>6 DEF DataOK

\* A message reaches a listener.
LEMMA DataDeliver ==
    ASSUME DataOK, Deliver
    PROVE  DataOK'
<1> DEFINE kind == messages[1][1]
           d == messages[1][2]
<1>1. /\ 1 \in 1..Len(messages) /\ kind \in Kinds
      /\ kind # "scan" => d \in Device
      /\ mListeners > 0
      /\ Handled(kind, d)
      /\ \/ /\ turn' = 0 /\ Taken
            /\ mDevices' = IF kind = "found" THEN mDevices \cup {d}
                           ELSE IF kind = "discard" THEN mDevices \ {d} ELSE mDevices
         \/ /\ turn + 1 < mListeners /\ turn' = turn + 1 /\ UNCHANGED messages
            /\ mDevices' = IF kind = "found" THEN mDevices \cup {d} ELSE mDevices
      /\ UNCHANGED <<mListeners, native, _disposed, main, scanning, hitch, leftover, resets>>
  BY DeliverDoes
<1> HIDE DEF kind, d
<1>2. MessagesOK'
  <2>1. CASE Taken
    <3>1. \A k \in 1..Len(messages') : messages'[k][1] # "scan" => messages'[k][2] \in Device
      BY <2>1 DEF DataOK, MessagesOK, Taken
    <3> QED
      BY <2>1, <3>1 DEF MessagesOK, Taken, Message
  <2>2. CASE UNCHANGED messages
    BY <2>2 DEF DataOK, MessagesOK
  <2> QED
    BY <1>1, <2>1, <2>2
<1>3. ListenersOK'
  BY <1>1 DEF DataOK, ListenersOK
<1>4. SlotsOK'
  <2>1. /\ mDeviceComps' \in [Slot -> Device \cup {None}] /\ status' \in [Device -> Statuses]
        /\ mFoundDevices' \subseteq mFoundDevices \cup (IF kind = "found" THEN {d} ELSE {})
        /\ kind = "discard" => d \notin mFoundDevices'
    BY <1>1 DEF Handled
  <2>2. mFoundDevices \subseteq mDevices /\ mDevices \subseteq Device
    BY DEF DataOK, SlotsOK
  <2>3. mFoundDevices' \subseteq mDevices' /\ mDevices' \subseteq Device
    BY <1>1, <2>1, <2>2
  <2> QED
    BY <2>1, <2>3 DEF SlotsOK, Statuses
<1>5. FlagsOK'
  <2>1. mNeedDeviceScan' \in BOOLEAN
    BY <1>1, Zenon DEF DataOK, FlagsOK, Handled
  <2> QED
    BY <1>1, <2>1, Zenon DEF DataOK, FlagsOK
<1> QED
  BY <1>2, <1>3, <1>4, <1>5 DEF DataOK

\* The main thread's scans.
LEMMA DataScans ==
    ASSUME DataOK, UpdateScans \/ PrepareScans
    PROVE  DataOK'
<1>1. /\ UNCHANGED <<appVars, hubVars, turn, leftover, resets>>
      /\ main \in {"scan", "prepare"} /\ main' = "play"
      /\ \/ ScanStarts /\ UNCHANGED hitch
         \/ ScanRefused /\ hitch' = (hitch \/ ~scanning)
  BY DEF UpdateScans, PrepareScans
<1>2. ListenersOK'
  BY <1>1 DEF DataOK, ListenersOK, hubVars
<1>3. CASE ScanStarts /\ UNCHANGED hitch
  <2>1. /\ scanning' = TRUE
        /\ Adds({<<"discard", d>> : d \in Idle})
        /\ status' \in [Device -> Statuses]
    BY <1>3, ScanStartsDoes DEF DataOK
  <2>2. \A m \in {<<"discard", d>> : d \in Idle} : m[1] # "scan" => m[2] \in Device
    BY DEF Idle
  <2>3. MessagesOK'
    BY <2>1, <2>2, MessagesGrow DEF DataOK
  <2>4. SlotsOK'
    BY <1>1, <2>1 DEF DataOK, SlotsOK, Statuses, appVars, hubVars
  <2>5. FlagsOK'
    BY <1>1, <1>3, <2>1, Zenon DEF DataOK, FlagsOK, appVars, hubVars
  <2> QED
    BY <1>2, <2>3, <2>4, <2>5 DEF DataOK
<1>4. CASE ScanRefused /\ hitch' = (hitch \/ ~scanning)
  <2>1. UNCHANGED <<scanning, status, messages>>
    BY <1>4 DEF ScanRefused, nativeVars
  <2>2. MessagesOK' /\ SlotsOK'
    BY <1>1, <2>1 DEF DataOK, MessagesOK, SlotsOK, appVars, hubVars
  <2>3. hitch' \in BOOLEAN
    BY <1>4, Zenon DEF DataOK, FlagsOK
  <2>4. FlagsOK'
    BY <1>1, <2>1, <2>3, Zenon DEF DataOK, FlagsOK, appVars, hubVars
  <2> QED
    BY <1>2, <2>2, <2>4 DEF DataOK
<1> QED
  BY <1>1, <1>3, <1>4

\* The rest of what the main thread does.
LEMMA DataMain ==
    ASSUME DataOK, Update \/ ResetSlots \/ ResetDisposes \/ OnApplicationQuit
    PROVE  DataOK'
<1>1. /\ UNCHANGED messages \/ messages' = <<>>
      /\ \/ UNCHANGED status
         \/ status' = [d \in Device |-> "absent"]
      /\ \/ UNCHANGED mDeviceComps
         \/ mDeviceComps' = [s \in Slot |-> None]
      /\ mDevices' = mDevices \/ mDevices' = {}
      /\ mFoundDevices' = {} \/ UNCHANGED <<mFoundDevices, mDevices>>
  BY DEF Update, ResetSlots, ResetDisposes, OnApplicationQuit, Dispose, Deinit, hubVars, nativeVars
<1>2. MessagesOK'
  <2>1. CASE messages' = <<>>
    BY <2>1, NoMessages
  <2>2. CASE UNCHANGED messages
    BY <2>2 DEF DataOK, MessagesOK
  <2> QED
    BY <1>1, <2>1, <2>2
<1>3. SlotsOK'
  BY <1>1 DEF DataOK, SlotsOK
<1>4. ListenersOK'
  <2>1. CASE Update \/ ResetSlots
    BY <2>1, UnityHubAssumption DEF DataOK, ListenersOK, Update, ResetSlots, hubVars
  <2>2. CASE ResetDisposes
    BY <2>2 DEF DataOK, ListenersOK, ResetDisposes, Dispose
  <2>3. CASE OnApplicationQuit
    BY <2>3 DEF DataOK, ListenersOK, OnApplicationQuit
  <2> QED
    BY <2>1, <2>2, <2>3
<1>5. FlagsOK'
  <2>1. CASE Update \/ ResetSlots
    BY <2>1, Zenon DEF DataOK, FlagsOK, Update, ResetSlots, hubVars, nativeVars
  <2>2. CASE ResetDisposes
    BY <2>2, Zenon DEF DataOK, FlagsOK, ResetDisposes, Dispose, Deinit, RegisterNative
  <2>3. CASE OnApplicationQuit
    BY <2>3, Zenon DEF DataOK, FlagsOK, OnApplicationQuit, Deinit, UnregisterNative
  <2> QED
    BY <2>1, <2>2, <2>3
<1> QED
  BY <1>2, <1>3, <1>4, <1>5 DEF DataOK

\* Every step keeps the types.
LEMMA DataStep == DataOK /\ [Next]_vars => DataOK'
<1> SUFFICES ASSUME DataOK, [Next]_vars PROVE DataOK'
  OBVIOUS
<1>1. CASE UNCHANGED vars
  BY <1>1 DEF DataOK, MessagesOK, ListenersOK, SlotsOK, FlagsOK, vars, appVars, hubVars, nativeVars
<1> QED
  BY <1>1, DataTold, DataDeliver, DataScans, DataMain DEF Next

\* The variables have their types.
THEOREM TypeCorrect == Spec => []TypeOK
<1>1. DataOK => TypeOK
  <2> SUFFICES ASSUME DataOK PROVE TypeOK
    OBVIOUS
  <2>1. FlagsOK
    BY DEF DataOK
  <2>2. turn \in 0..MaxResets /\ mListeners \in 0..(MaxResets + 1)
    BY UnityHubAssumption DEF DataOK, ListenersOK
  <2>3. {mNeedDeviceScan, native, _disposed, scanning, hitch, leftover} \subseteq BOOLEAN
    BY <2>1, Zenon DEF FlagsOK
  <2> QED
    BY <2>2, <2>3 DEF DataOK, MessagesOK, ListenersOK, SlotsOK, TypeOK, Kinds
<1> QED
  BY DataInit, DataStep, <1>1, PTL DEF Spec
-----------------------------------------------------------------------------
(* One slot for each device.                                               *)

\* Nothing is in a slot, nothing was told.
LEMMA SlotInit == Init => SlotInv
<1> SUFFICES ASSUME Init
             PROVE  SlotThenGone /\ ComesThenGone /\ LostIsTold /\ HeldIsKnown /\ NoTwoSlots
  BY DEF SlotInv
<1>1. messages = <<>> /\ mDeviceComps = [s \in Slot |-> None] /\ \A d \in Device : ~Held(d)
  BY UnityHubAssumption DEF Init, Held
<1> QED
  BY <1>1 DEF SlotThenGone, ComesThenGone, LostIsTold, HeldIsKnown, NoTwoSlots

\* Messages are added: of a device that comes none but when its last loss was told,
\* and none of its slots before.
LEMMA SlotsGrow ==
    ASSUME MessagesOK, SlotThenGone, ComesThenGone, LostIsTold, HeldIsKnown, NoTwoSlots,
           NEW S, Adds(S), UNCHANGED <<mDeviceComps, mDevices>>,
           \A d \in Device : <<"connected", d>> \in S =>
              status[d] # "connected" /\ Len(messages') = Len(messages) + 1,
           \A d \in Device : status'[d] # "connected" =>
              \/ status[d] # "connected" /\ <<"connected", d>> \notin S
              \/ Len(messages') > Len(messages) /\ messages'[Len(messages')] = <<"lost", d>>
    PROVE  SlotThenGone' /\ ComesThenGone' /\ LostIsTold' /\ HeldIsKnown' /\ NoTwoSlots'
<1> DEFINE n == Len(messages)
<1>1. /\ n \in Nat /\ Len(messages') \in Nat /\ Len(messages') >= n
      /\ \A k \in 1..n : k \in 1..Len(messages') /\ messages'[k] = messages[k]
      /\ \A k \in 1..Len(messages') : k \in 1..n \/ (k > n /\ messages'[k] \in S)
  BY DEF Adds, MessagesOK
<1>2. \A d : Held(d)' <=> Held(d)
  BY DEF Held
<1>3. \A k \in 1..n : \A d : (Comes(k, d)' <=> Comes(k, d)) /\ (Gone(k, d)' <=> Gone(k, d))
  BY <1>1 DEF Comes, Gone
<1>4. ASSUME NEW d \in Device, NEW k \in 1..Len(messages'), k > n, Comes(k, d)'
      PROVE  status[d] # "connected" /\ k = Len(messages') /\ k = n + 1
  <2>1. <<"connected", d>> \in S
    BY <1>1, <1>4 DEF Comes
  <2> QED
    BY <1>1, <1>4, <2>1
<1> HIDE DEF n
<1>5. SlotThenGone'
  <2> SUFFICES ASSUME NEW d \in Device, NEW k \in 1..Len(messages'), Held(d), Comes(k, d)'
               PROVE  \E j \in 1..Len(messages') : j < k /\ Gone(j, d)'
    BY <1>2 DEF SlotThenGone, Comes, Held, Gone
  <2>1. CASE k \in 1..n
    <3>1. \E j \in 1..n : j < k /\ Gone(j, d)
      BY <1>3, <2>1 DEF SlotThenGone, n
    <3> QED
      BY <1>1, <1>3, <3>1
  <2>2. CASE k > n
    <3>1. \E j \in 1..n : Gone(j, d)
      BY <1>4, <2>2 DEF LostIsTold, n
    <3> QED
      BY <1>1, <1>3, <2>2, <3>1
  <2> QED
    BY <1>1, <2>1, <2>2
<1>6. ComesThenGone'
  <2> SUFFICES ASSUME NEW d \in Device, NEW k \in 1..Len(messages'), NEW l \in 1..Len(messages'),
                      Comes(k, d)', Comes(l, d)', k < l
               PROVE  \E j \in 1..Len(messages') : k < j /\ j < l /\ Gone(j, d)'
    BY DEF ComesThenGone, Comes, Gone
  <2>1. CASE l \in 1..n
    <3>1. k \in 1..n
      BY <1>1, <2>1
    <3>2. \E j \in 1..n : k < j /\ j < l /\ Gone(j, d)
      BY <1>3, <2>1, <3>1 DEF ComesThenGone, n
    <3> QED
      BY <1>1, <1>3, <3>2
  <2>2. CASE l > n
    <3>1. status[d] # "connected" /\ l = n + 1
      BY <1>4, <2>2
    <3>2. k \in 1..n
      BY <1>1, <3>1
    <3>3. \E j \in 1..n : k < j /\ Gone(j, d)
      BY <1>3, <3>1, <3>2 DEF LostIsTold, n
    <3> QED
      BY <1>1, <1>3, <2>2, <3>3
  <2> QED
    BY <1>1, <2>1, <2>2
<1>7. LostIsTold'
  <2> SUFFICES ASSUME NEW d \in Device, status'[d] # "connected"
               PROVE  /\ Held(d) => \E j \in 1..Len(messages') : Gone(j, d)'
                      /\ \A k \in 1..Len(messages') : Comes(k, d)' =>
                            \E j \in 1..Len(messages') : k < j /\ Gone(j, d)'
    BY <1>2 DEF LostIsTold, Held, Comes, Gone
  <2>1. CASE status[d] # "connected" /\ <<"connected", d>> \notin S
    <3>1. Held(d) => \E j \in 1..n : Gone(j, d)
      BY <2>1 DEF LostIsTold, n
    <3>2. \A k \in 1..n : Comes(k, d) => \E j \in 1..n : k < j /\ Gone(j, d)
      BY <2>1 DEF LostIsTold, n
    <3>3. \A k \in 1..Len(messages') : Comes(k, d)' => k \in 1..n
      BY <1>1, <2>1 DEF Comes
    <3> QED
      BY <1>1, <1>3, <3>1, <3>2, <3>3
  <2>2. CASE /\ Len(messages') > Len(messages)
             /\ messages'[Len(messages')] = <<"lost", d>>
    <3>1. PICK m \in 1..Len(messages') : m = Len(messages')
      BY <1>1, <2>2 DEF n
    <3>2. Gone(m, d)' /\ ~Comes(m, d)'
      <4>1. messages'[m] = <<"lost", d>>
        BY <2>2, <3>1
      <4> QED
        BY <4>1 DEF Gone, Comes
    <3>3. \A k \in 1..Len(messages') : Comes(k, d)' => k < m
      <4> SUFFICES ASSUME NEW k \in 1..Len(messages'), Comes(k, d)' PROVE k < m
        OBVIOUS
      <4>1. k # m
        BY <3>2
      <4> QED
        BY <1>1, <3>1, <4>1
    <3> QED
      BY <3>1, <3>2, <3>3
  <2> QED
    BY <2>1, <2>2
<1>8. HeldIsKnown' /\ NoTwoSlots'
  BY DEF HeldIsKnown, NoTwoSlots, Held
<1> QED
  BY <1>5, <1>6, <1>7, <1>8

\* What the messages say of a device that is not told of now.
LEMMA SlotsShift ==
    ASSUME MessagesOK, SlotThenGone, ComesThenGone, LostIsTold, Taken, NEW d \in Device,
           Held(d)' => (Held(d) /\ ~Gone(1, d)) \/ Comes(1, d),
           status'[d] = "connected" <=> status[d] = "connected"
    PROVE  /\ \A k \in 1..Len(messages') : Held(d)' /\ Comes(k, d)' =>
                 \E j \in 1..Len(messages') : j < k /\ Gone(j, d)'
           /\ \A k, l \in 1..Len(messages') : Comes(k, d)' /\ Comes(l, d)' /\ k < l =>
                 \E j \in 1..Len(messages') : k < j /\ j < l /\ Gone(j, d)'
           /\ status'[d] # "connected" =>
                 /\ Held(d)' => \E j \in 1..Len(messages') : Gone(j, d)'
                 /\ \A k \in 1..Len(messages') : Comes(k, d)' =>
                       \E j \in 1..Len(messages') : k < j /\ Gone(j, d)'
<1>1. /\ Len(messages) \in Nat \ {0} /\ 1 \in 1..Len(messages)
      /\ \A k \in 1..Len(messages') :
            k + 1 \in 1..Len(messages) /\ k + 1 # 1 /\ messages'[k] = messages[k + 1]
      /\ \A k \in 1..Len(messages) :
            k # 1 => k - 1 \in 1..Len(messages') /\ messages'[k - 1] = messages[k]
  BY DEF Taken
<1>2. \A k \in 1..Len(messages') : Comes(k, d)' => Comes(k + 1, d)
  BY <1>1 DEF Comes
<1>3. \A j \in 1..Len(messages) : j # 1 /\ Gone(j, d) => Gone(j - 1, d)'
  BY <1>1 DEF Gone
<1>4. Comes(1, d) => ~Gone(1, d)
  BY DEF Comes, Gone
<1>5. ASSUME NEW k \in 1..Len(messages'), Held(d)', Comes(k, d)'
      PROVE  \E j \in 1..Len(messages') : j < k /\ Gone(j, d)'
  <2>0. k + 1 \in 1..Len(messages) /\ Comes(k + 1, d) /\ 1 < k + 1
    BY <1>1, <1>2, <1>5
  <2>1. PICK j \in 1..Len(messages) : j # 1 /\ j < k + 1 /\ Gone(j, d)
    <3>1. CASE Comes(1, d)
      <4>1. \E j \in 1..Len(messages) : 1 < j /\ j < k + 1 /\ Gone(j, d)
        BY <1>1, <2>0, <3>1 DEF ComesThenGone
      <4> QED
        BY <4>1
    <3>2. CASE Held(d) /\ ~Gone(1, d)
      <4>1. \E j \in 1..Len(messages) : j < k + 1 /\ Gone(j, d)
        BY <2>0, <3>2 DEF SlotThenGone
      <4> QED
        BY <3>2, <4>1
    <3> QED
      BY <1>5, <3>1, <3>2
  <2>2. j - 1 \in 1..Len(messages') /\ Gone(j - 1, d)' /\ j - 1 < k
    BY <1>1, <1>3, <2>1
  <2> QED
    BY <2>2
<1>6. ASSUME NEW k \in 1..Len(messages'), NEW l \in 1..Len(messages'),
             Comes(k, d)', Comes(l, d)', k < l
      PROVE  \E j \in 1..Len(messages') : k < j /\ j < l /\ Gone(j, d)'
  <2>1. k + 1 \in 1..Len(messages) /\ l + 1 \in 1..Len(messages) /\ k + 1 < l + 1
    BY <1>1, <1>6
  <2>2. PICK j \in 1..Len(messages) : k + 1 < j /\ j < l + 1 /\ Gone(j, d)
    BY <1>2, <1>6, <2>1 DEF ComesThenGone
  <2>3. j # 1 /\ j - 1 \in 1..Len(messages') /\ Gone(j - 1, d)' /\ k < j - 1 /\ j - 1 < l
    BY <1>1, <1>3, <2>2
  <2> QED
    BY <2>3
<1>7. ASSUME status'[d] # "connected", Held(d)'
      PROVE  \E j \in 1..Len(messages') : Gone(j, d)'
  <2>1. PICK j \in 1..Len(messages) : j # 1 /\ Gone(j, d)
    <3>1. CASE Comes(1, d)
      BY <1>1, <1>7, <3>1 DEF LostIsTold
    <3>2. CASE Held(d) /\ ~Gone(1, d)
      BY <1>7, <3>2 DEF LostIsTold
    <3> QED
      BY <1>7, <3>1, <3>2
  <2> QED
    BY <1>1, <1>3, <2>1
<1>8. ASSUME status'[d] # "connected", NEW k \in 1..Len(messages'), Comes(k, d)'
      PROVE  \E j \in 1..Len(messages') : k < j /\ Gone(j, d)'
  <2>1. PICK j \in 1..Len(messages) : k + 1 < j /\ Gone(j, d)
    BY <1>1, <1>2, <1>8 DEF LostIsTold
  <2>2. j # 1 /\ j - 1 \in 1..Len(messages') /\ Gone(j - 1, d)' /\ k < j - 1
    BY <1>1, <1>3, <2>1
  <2> QED
    BY <2>2
<1> QED
  BY <1>5, <1>6, <1>7, <1>8

\* The same for one message.
LEMMA SlotsTold ==
    ASSUME MessagesOK, SlotThenGone, ComesThenGone, LostIsTold, HeldIsKnown, NoTwoSlots,
           NEW m \in Message, messages' = Append(messages, m),
           UNCHANGED <<mDeviceComps, mDevices>>,
           \A d \in Device : m = <<"connected", d>> => status[d] # "connected",
           \A d \in Device : status'[d] # "connected" =>
              \/ status[d] # "connected" /\ m # <<"connected", d>>
              \/ m = <<"lost", d>>
    PROVE  SlotThenGone' /\ ComesThenGone' /\ LostIsTold' /\ HeldIsKnown' /\ NoTwoSlots'
<1>1. /\ Adds({m}) /\ Len(messages) \in Nat
      /\ Len(messages') = Len(messages) + 1 /\ messages'[Len(messages')] = m
  BY Appended
<1>2. \A d \in Device : <<"connected", d>> \in {m} =>
         status[d] # "connected" /\ Len(messages') = Len(messages) + 1
  BY <1>1
<1>3. \A d \in Device : status'[d] # "connected" =>
         \/ status[d] # "connected" /\ <<"connected", d>> \notin {m}
         \/ Len(messages') > Len(messages) /\ messages'[Len(messages')] = <<"lost", d>>
  BY <1>1
<1> QED
  BY <1>1, <1>2, <1>3, SlotsGrow

\* A message of the hub leaves one slot for each device.
LEMMA SlotTold ==
    ASSUME DataOK, SlotInv,
           \/ ScanEnds
           \/ \E d \in Device : DeviceSeen(d) \/ HubConnects(d) \/ HubLoses(d)
    PROVE  SlotInv'
<1>0. UNCHANGED <<mDeviceComps, mDevices, mListeners, main, leftover>>
  BY DEF DeviceSeen, HubConnects, HubLoses, ScanEnds, appVars, hubVars
<1> SUFFICES ASSUME OneListener
             PROVE  SlotThenGone' /\ ComesThenGone' /\ LostIsTold' /\ HeldIsKnown' /\ NoTwoSlots'
  BY <1>0 DEF SlotInv, OneListener
<1>1. /\ MessagesOK /\ SlotThenGone /\ ComesThenGone /\ LostIsTold /\ HeldIsKnown /\ NoTwoSlots
      /\ status \in [Device -> Statuses]
  BY DEF SlotInv, DataOK, SlotsOK, Statuses
<1>2. CASE ScanEnds
  <2>1. /\ messages' = Append(messages, <<"scan", None>>) /\ <<"scan", None>> \in Message
        /\ UNCHANGED status
    BY <1>2 DEF ScanEnds, Message, Kinds
  <2>2. \A d \in Device : <<"scan", None>> # <<"connected", d>>
    OBVIOUS
  <2> QED
    BY <1>0, <1>1, <2>1, <2>2, SlotsTold
<1>3. ASSUME NEW d \in Device, DeviceSeen(d)
      PROVE  SlotThenGone' /\ ComesThenGone' /\ LostIsTold' /\ HeldIsKnown' /\ NoTwoSlots'
  <2>1. /\ messages' = Append(messages, <<"found", d>>) /\ <<"found", d>> \in Message
        /\ \A e \in Device : status'[e] # "connected" => status[e] # "connected"
    BY <1>1, <1>3 DEF DeviceSeen, Message, Kinds
  <2>2. \A e \in Device : <<"found", d>> # <<"connected", e>>
    OBVIOUS
  <2> QED
    BY <1>0, <1>1, <2>1, <2>2, SlotsTold
<1>4. ASSUME NEW d \in Device, HubConnects(d)
      PROVE  SlotThenGone' /\ ComesThenGone' /\ LostIsTold' /\ HeldIsKnown' /\ NoTwoSlots'
  <2>1. /\ messages' = Append(messages, <<"connected", d>>) /\ <<"connected", d>> \in Message
        /\ status[d] = "connecting" /\ status'[d] = "connected"
        /\ \A e \in Device : e # d => status'[e] = status[e]
    BY <1>1, <1>4 DEF HubConnects, Message, Kinds
  <2>2. \A e \in Device : <<"connected", d>> = <<"connected", e>> => e = d
    OBVIOUS
  <2>3. \A e \in Device : <<"connected", d>> = <<"connected", e>> => status[e] # "connected"
    BY <2>1, <2>2
  <2>4. \A e \in Device : status'[e] # "connected" =>
           \/ status[e] # "connected" /\ <<"connected", d>> # <<"connected", e>>
           \/ <<"connected", d>> = <<"lost", e>>
    BY <2>1, <2>2
  <2> QED
    BY <1>0, <1>1, <2>1, <2>3, <2>4, SlotsTold
<1>5. ASSUME NEW d \in Device, HubLoses(d)
      PROVE  SlotThenGone' /\ ComesThenGone' /\ LostIsTold' /\ HeldIsKnown' /\ NoTwoSlots'
  <2>1. /\ messages' = Append(messages, <<"lost", d>>) /\ <<"lost", d>> \in Message
        /\ \A e \in Device : e # d => status'[e] = status[e]
    BY <1>1, <1>5 DEF HubLoses, Message, Kinds
  <2>2. \A e \in Device : <<"lost", d>> # <<"connected", e>>
    OBVIOUS
  <2>3. \A e \in Device : status'[e] # "connected" =>
           \/ status[e] # "connected" /\ <<"lost", d>> # <<"connected", e>>
           \/ <<"lost", d>> = <<"lost", e>>
    BY <2>1, <2>2
  <2> QED
    BY <1>0, <1>1, <2>1, <2>2, <2>3, SlotsTold
<1> QED
  BY <1>2, <1>3, <1>4, <1>5

\* So does a message that is delivered: a device that is put into a slot holds none.
LEMMA SlotDeliver ==
    ASSUME DataOK, SlotInv, Deliver
    PROVE  SlotInv'
<1> DEFINE kind == messages[1][1]
           d == messages[1][2]
<1>1. /\ 1 \in 1..Len(messages) /\ messages[1] = <<kind, d>> /\ kind \in Kinds
      /\ kind # "scan" => d \in Device
      /\ mListeners > 0
      /\ Handled(kind, d)
      /\ \/ /\ turn + 1 >= mListeners /\ turn' = 0 /\ Taken
            /\ mDevices' = IF kind = "found" THEN mDevices \cup {d}
                           ELSE IF kind = "discard" THEN mDevices \ {d} ELSE mDevices
         \/ turn + 1 < mListeners /\ turn' = turn + 1
      /\ UNCHANGED <<mListeners, main, leftover>>
  BY DeliverDoes
<1> HIDE DEF kind, d
<1> SUFFICES ASSUME OneListener
             PROVE  SlotThenGone' /\ ComesThenGone' /\ LostIsTold' /\ HeldIsKnown' /\ NoTwoSlots'
  BY <1>1 DEF SlotInv, OneListener
<1>2. /\ MessagesOK /\ SlotThenGone /\ ComesThenGone /\ LostIsTold /\ HeldIsKnown /\ NoTwoSlots
      /\ SlotsOK /\ ListenersOK /\ status \in [Device -> Statuses]
  BY DEF SlotInv, DataOK, SlotsOK, Statuses
<1>3. Taken /\ mDevices' = IF kind = "found" THEN mDevices \cup {d}
                           ELSE IF kind = "discard" THEN mDevices \ {d} ELSE mDevices
  BY <1>1, <1>2 DEF ListenersOK, OneListener
<1>4. \A e \in Device : /\ Comes(1, e) <=> kind = "connected" /\ d = e
                        /\ Gone(1, e) <=> kind \in {"lost", "discard"} /\ d = e
  BY <1>1 DEF Comes, Gone
<1>5. \/ kind = "connected" /\ d \in mDevices /\ mDeviceComps' = Place(d)
      \/ kind \in {"lost", "discard"} /\ d \in mDevices /\ mDeviceComps' = Release(d)
      \/ (kind \in {"scan", "found"} \/ d \notin mDevices) /\ UNCHANGED mDeviceComps
  BY <1>1 DEF Handled
<1>6. ASSUME NEW e \in Device, Held(e)'
      PROVE  (Held(e) /\ ~Gone(1, e)) \/ (Comes(1, e) /\ e \in mDevices)
  <2>0. PICK s \in Slot : mDeviceComps'[s] = e
    BY <1>6 DEF Held
  <2>1. CASE kind = "connected" /\ d \in mDevices /\ mDeviceComps' = Place(d)
    <3>1. mDeviceComps[s] = e \/ d = e
      BY <1>1, <1>2, <2>0, <2>1, SlotChanges
    <3> QED
      BY <1>4, <2>1, <3>1 DEF Held
  <2>2. CASE kind \in {"lost", "discard"} /\ d \in mDevices /\ mDeviceComps' = Release(d)
    <3>1. mDeviceComps[s] = e /\ d # e
      BY <1>1, <1>2, <2>0, <2>2, SlotChanges, UnityHubAssumption
    <3> QED
      BY <1>4, <3>1 DEF Held
  <2>3. CASE (kind \in {"scan", "found"} \/ d \notin mDevices) /\ UNCHANGED mDeviceComps
    <3>1. Held(e)
      BY <2>0, <2>3 DEF Held
    <3> QED
      BY <1>2, <1>4, <2>3, <3>1 DEF HeldIsKnown
  <2> QED
    BY <1>5, <2>1, <2>2, <2>3
<1>7. \A e \in Device : status'[e] = "connected" <=> status[e] = "connected"
  BY <1>1 DEF Handled, Starts
<1>8. SlotThenGone' /\ ComesThenGone' /\ LostIsTold'
  <2>1. ASSUME NEW e \in Device
        PROVE  /\ \A k \in 1..Len(messages') : Held(e)' /\ Comes(k, e)' =>
                     \E j \in 1..Len(messages') : j < k /\ Gone(j, e)'
               /\ \A k, l \in 1..Len(messages') : Comes(k, e)' /\ Comes(l, e)' /\ k < l =>
                     \E j \in 1..Len(messages') : k < j /\ j < l /\ Gone(j, e)'
               /\ status'[e] # "connected" =>
                     /\ Held(e)' => \E j \in 1..Len(messages') : Gone(j, e)'
                     /\ \A k \in 1..Len(messages') : Comes(k, e)' =>
                           \E j \in 1..Len(messages') : k < j /\ Gone(j, e)'
    <3>1. /\ Held(e)' => (Held(e) /\ ~Gone(1, e)) \/ Comes(1, e)
          /\ status'[e] = "connected" <=> status[e] = "connected"
      BY <1>6, <1>7
    <3> QED
      BY <1>2, <1>3, <3>1, SlotsShift
  <2> QED
    BY <2>1 DEF SlotThenGone, ComesThenGone, LostIsTold, Held, Comes, Gone
<1>9. HeldIsKnown'
  <2> SUFFICES ASSUME NEW e \in Device, Held(e)' PROVE e \in mDevices'
    BY DEF HeldIsKnown
  <2> QED
    BY <1>2, <1>3, <1>4, <1>6 DEF HeldIsKnown
<1>10. NoTwoSlots'
  <2>1. CASE kind = "connected" /\ d \in mDevices /\ mDeviceComps' = Place(d)
    <3>1. d \in Device /\ Comes(1, d)
      BY <1>1, <1>4, <2>1
    <3>2. ~Held(d)
      BY <1>1, <1>2, <3>1 DEF SlotThenGone
    <3>3. /\ \A s \in Slot : mDeviceComps'[s] = mDeviceComps[s] \/ mDeviceComps'[s] = d
          /\ \A s, t \in Slot :
                mDeviceComps'[s] # mDeviceComps[s] /\ mDeviceComps'[t] # mDeviceComps[t] => s = t
      BY <1>2, <2>1, <3>1, SlotChanges
    <3>4. \A s \in Slot : mDeviceComps[s] # d
      BY <3>2 DEF Held
    <3> QED
      BY <1>2, <3>3, <3>4 DEF NoTwoSlots
  <2>2. CASE kind \in {"lost", "discard"} /\ d \in mDevices /\ mDeviceComps' = Release(d)
    <3>1. \A s \in Slot : mDeviceComps'[s] = mDeviceComps[s] \/ mDeviceComps'[s] = None
      BY <1>1, <1>2, <2>2, SlotChanges
    <3> QED
      BY <1>2, <3>1 DEF NoTwoSlots
  <2>3. CASE UNCHANGED mDeviceComps
    BY <1>2, <2>3 DEF NoTwoSlots
  <2> QED
    BY <1>5, <2>1, <2>2, <2>3
<1> QED
  BY <1>8, <1>9, <1>10

\* What leaves slots, objects, statuses and messages alone leaves the invariant alone.
LEMMA SlotsStay ==
    ASSUME UNCHANGED <<mDeviceComps, mDevices, status, messages>>,
           SlotThenGone, ComesThenGone, LostIsTold, HeldIsKnown, NoTwoSlots
    PROVE  SlotThenGone' /\ ComesThenGone' /\ LostIsTold' /\ HeldIsKnown' /\ NoTwoSlots'
BY DEF SlotThenGone, ComesThenGone, LostIsTold, HeldIsKnown, NoTwoSlots, Held, Comes, Gone

\* With empty slots nothing but the messages counts.
LEMMA SlotsEmpty ==
    ASSUME \A s \in Slot : mDeviceComps'[s] = None
    PROVE  SlotThenGone' /\ HeldIsKnown' /\ NoTwoSlots' /\ \A d \in Device : ~Held(d)'
<1>1. \A d \in Device : ~Held(d)'
  BY UnityHubAssumption DEF Held
<1> QED
  BY <1>1 DEF SlotThenGone, HeldIsKnown, NoTwoSlots, Held

\* A scan of the main thread sends nothing but discards.
LEMMA SlotScans ==
    ASSUME DataOK, SlotInv, UpdateScans \/ PrepareScans
    PROVE  SlotInv'
<1>0. /\ UNCHANGED <<mDeviceComps, mDevices, mListeners, leftover>>
      /\ main \in {"scan", "prepare"} /\ main' = "play"
      /\ ScanStarts \/ UNCHANGED <<status, messages>>
  BY DEF UpdateScans, PrepareScans, ScanRefused, appVars, hubVars, nativeVars
<1> SUFFICES ASSUME OneListener
             PROVE  SlotThenGone' /\ ComesThenGone' /\ LostIsTold' /\ HeldIsKnown' /\ NoTwoSlots'
  BY <1>0 DEF SlotInv, OneListener
<1>1. /\ MessagesOK /\ SlotThenGone /\ ComesThenGone /\ LostIsTold /\ HeldIsKnown /\ NoTwoSlots
      /\ SlotsOK
  BY DEF SlotInv, DataOK
<1>2. CASE ScanStarts
  <2> DEFINE S == {<<"discard", d>> : d \in Idle}
  <2>1. /\ Adds(S)
        /\ \A d \in Device : status'[d] = IF status[d] = "idle" THEN "absent" ELSE status[d]
    BY <1>1, <1>2, ScanStartsDoes
  <2>2. \A d \in Device : <<"connected", d>> \notin S
    OBVIOUS
  <2> HIDE DEF S
  <2>3. \A d \in Device : <<"connected", d>> \in S =>
           status[d] # "connected" /\ Len(messages') = Len(messages) + 1
    BY <2>2
  <2>4. \A d \in Device : status'[d] # "connected" =>
           \/ status[d] # "connected" /\ <<"connected", d>> \notin S
           \/ Len(messages') > Len(messages) /\ messages'[Len(messages')] = <<"lost", d>>
    BY <2>1, <2>2
  <2>5. UNCHANGED <<mDeviceComps, mDevices>>
    BY <1>0
  <2> QED
    BY <1>1, <2>1, <2>3, <2>4, <2>5, SlotsGrow
<1>3. CASE UNCHANGED <<status, messages>>
  BY <1>0, <1>1, <1>3, SlotsStay
<1> QED
  BY <1>0, <1>2, <1>3

\* A Reset empties the slots; that it disposes of the hub, which forgets what it was to
\* tell, is safe while they are empty.
LEMMA SlotMain ==
    ASSUME DataOK, SlotInv, Update \/ ResetSlots \/ ResetDisposes \/ OnApplicationQuit
    PROVE  SlotInv'
<1> SUFFICES ASSUME OneListener'
             PROVE  SlotThenGone' /\ ComesThenGone' /\ LostIsTold' /\ HeldIsKnown' /\ NoTwoSlots'
  BY DEF SlotInv
<1>1. CASE Update
  <2>1. OneListener /\ UNCHANGED <<mDeviceComps, mDevices, status, messages>>
    BY <1>1 DEF Update, OneListener, hubVars, nativeVars
  <2> QED
    BY <2>1, SlotsStay DEF SlotInv
<1>2. CASE ResetSlots
  <2>1. /\ OneListener /\ UNCHANGED <<mDevices, status, messages>>
        /\ \A s \in Slot : mDeviceComps'[s] = None
    BY <1>2 DEF ResetSlots, OneListener, hubVars, nativeVars
  <2>2. SlotThenGone' /\ HeldIsKnown' /\ NoTwoSlots' /\ \A d \in Device : ~Held(d)'
    BY <2>1, SlotsEmpty
  <2>3. ComesThenGone' /\ LostIsTold'
    BY <2>1, <2>2 DEF SlotInv, ComesThenGone, LostIsTold, Comes, Gone
  <2> QED
    BY <2>2, <2>3
<1>3. CASE ResetDisposes
  <2>1. mListeners > 0 /\ mListeners \in Nat
    BY <1>3 DEF DataOK, ListenersOK, ResetDisposes
  <2>2. ~_disposed
    BY <1>3, <2>1 DEF ResetDisposes, OneListener
  <2>3. messages' = <<>> /\ \A s \in Slot : mDeviceComps'[s] = None
    BY <1>3, <2>2 DEF ResetDisposes, Dispose, Deinit, OneListener, FreeSlots
  <2>4. SlotThenGone' /\ HeldIsKnown' /\ NoTwoSlots' /\ \A d \in Device : ~Held(d)'
    BY <2>3, SlotsEmpty
  <2>5. ComesThenGone' /\ LostIsTold'
    BY <2>3, <2>4 DEF ComesThenGone, LostIsTold
  <2> QED
    BY <2>4, <2>5
<1>4. CASE OnApplicationQuit
  BY <1>4 DEF OnApplicationQuit, OneListener
<1> QED
  BY <1>1, <1>2, <1>3, <1>4

\* Every step keeps a device in one slot.
LEMMA SlotStep == DataOK /\ SlotInv /\ [Next]_vars => SlotInv'
<1> SUFFICES ASSUME DataOK, SlotInv, [Next]_vars PROVE SlotInv'
  OBVIOUS
<1>1. CASE UNCHANGED vars
  <2>1. /\ UNCHANGED <<mDeviceComps, mDevices, status, messages>>
        /\ UNCHANGED <<mListeners, leftover, main>>
    BY <1>1 DEF vars, appVars, hubVars, nativeVars
  <2> QED
    BY <2>1, SlotsStay DEF SlotInv, OneListener
<1> QED
  BY <1>1, SlotTold, SlotDeliver, SlotScans, SlotMain DEF Next

\* No device is in two slots: onDeviceConnected finds a slot for a device that has none,
\* as long as no message is delivered twice and none in the middle of a Reset.
THEOREM OnePlace == Spec => []OneSlotEach
<1>1. SlotInv => OneSlotEach
  BY DEF SlotInv, OneListener, NoTwoSlots, OneSlotEach
<1> QED
  BY DataInit, DataStep, SlotInit, SlotStep, <1>1, PTL DEF Spec
-----------------------------------------------------------------------------
(* The search for devices.                                                 *)

\* Nothing is told, and Awake goes on to scan.
LEMMA SearchInit == Init => SearchInv
<1> SUFFICES ASSUME Init PROVE KnownWhenTold /\ DiscardInScan /\ Searching
  BY DEF SearchInv
<1>1. messages = <<>> /\ (\A d \in Device : status[d] = "absent") /\ main = "prepare"
  BY DEF Init
<1> QED
  BY <1>1 DEF KnownWhenTold, DiscardInScan, Searching

\* A device keeps its object when messages are added, unless they discard it.
LEMMA KnownGrows ==
    ASSUME MessagesOK, NEW S, Adds(S), UNCHANGED mDevices, NEW d
    PROVE  /\ \A k \in 1..(Len(messages) + 1) : Known(k, d) => Known(k, d)'
           /\ Known(Len(messages) + 1, d) /\ <<"discard", d>> \notin S =>
                 \A k \in Nat : k > Len(messages) => Known(k, d)'
<1> DEFINE n == Len(messages)
<1>0. n \in Nat
  BY DEF MessagesOK
<1>1. /\ n \in Nat /\ Len(messages') \in Nat /\ Len(messages') >= n
      /\ \A j \in 1..n : j \in 1..Len(messages') /\ messages'[j] = messages[j]
      /\ \A j \in 1..Len(messages') : j \in 1..n \/ (j > n /\ messages'[j] \in S)
  BY <1>0 DEF Adds
<1> HIDE DEF n
<1>2. ASSUME NEW k \in 1..(n + 1), Known(k, d)
      PROVE  Known(k, d)'
  <2>1. CASE /\ d \in mDevices
             /\ \A j \in 1..n : j < k => messages[j] # <<"discard", d>>
    <3>1. \A j \in 1..Len(messages') : j < k => messages'[j] # <<"discard", d>>
      BY <1>1, <2>1
    <3> QED
      BY <2>1, <3>1 DEF Known
  <2>2. ASSUME NEW i \in 1..n, i < k, messages[i] = <<"found", d>>,
               \A j \in 1..n : i < j /\ j < k => messages[j] # <<"discard", d>>
        PROVE  Known(k, d)'
    <3>1. i \in 1..Len(messages') /\ messages'[i] = <<"found", d>>
      BY <1>1, <2>2
    <3>2. \A j \in 1..Len(messages') : i < j /\ j < k => messages'[j] # <<"discard", d>>
      BY <1>1, <2>2
    <3> QED
      BY <2>2, <3>1, <3>2 DEF Known
  <2> QED
    BY <1>2, <2>1, <2>2 DEF Known, n
<1>3. ASSUME Known(n + 1, d), <<"discard", d>> \notin S, NEW k \in Nat, k > n
      PROVE  Known(k, d)'
  <2>0. \A j \in 1..Len(messages') : j > n => messages'[j] # <<"discard", d>>
    BY <1>1, <1>3
  <2>1. CASE /\ d \in mDevices
             /\ \A j \in 1..n : j < n + 1 => messages[j] # <<"discard", d>>
    <3>1. \A j \in 1..Len(messages') : messages'[j] # <<"discard", d>>
      BY <1>1, <2>0, <2>1
    <3> QED
      BY <2>1, <3>1 DEF Known
  <2>2. ASSUME NEW i \in 1..n, messages[i] = <<"found", d>>,
               \A j \in 1..n : i < j /\ j < n + 1 => messages[j] # <<"discard", d>>
        PROVE  Known(k, d)'
    <3>1. i \in 1..Len(messages') /\ messages'[i] = <<"found", d>> /\ i < k
      BY <1>1, <1>3, <2>2
    <3>2. \A j \in 1..Len(messages') : i < j /\ j < k => messages'[j] # <<"discard", d>>
      BY <1>1, <2>0, <2>2
    <3> QED
      BY <3>1, <3>2 DEF Known
  <2> QED
    BY <1>3, <2>1, <2>2 DEF Known, n
<1> QED
  BY <1>2, <1>3 DEF n

\* It keeps it when the first message is taken.
LEMMA KnownShifts ==
    ASSUME MessagesOK, Taken, NEW d, NEW k \in Nat \ {0}, Known(k + 1, d),
           d \in mDevices /\ messages[1] # <<"discard", d>> => d \in mDevices',
           messages[1] = <<"found", d>> => d \in mDevices'
    PROVE  Known(k, d)'
<1>1. /\ Len(messages) \in Nat \ {0} /\ 1 \in 1..Len(messages)
      /\ \A j \in 1..Len(messages') :
            j + 1 \in 1..Len(messages) /\ j + 1 # 1 /\ messages'[j] = messages[j + 1]
      /\ \A j \in 1..Len(messages) :
            j # 1 => j - 1 \in 1..Len(messages') /\ messages'[j - 1] = messages[j]
  BY DEF Taken
<1>2. CASE /\ d \in mDevices
           /\ \A j \in 1..Len(messages) : j < k + 1 => messages[j] # <<"discard", d>>
  <2>1. d \in mDevices'
    BY <1>1, <1>2
  <2>2. ASSUME NEW j \in 1..Len(messages'), j < k
        PROVE  messages'[j] # <<"discard", d>>
    <3>1. j + 1 \in 1..Len(messages) /\ messages'[j] = messages[j + 1]
      BY <1>1
    <3>2. j + 1 < k + 1
      BY <2>2
    <3> QED
      BY <1>2, <3>1, <3>2
  <2> QED
    BY <2>1, <2>2 DEF Known
<1>3. ASSUME NEW i \in 1..Len(messages), i < k + 1, messages[i] = <<"found", d>>,
             \A j \in 1..Len(messages) : i < j /\ j < k + 1 => messages[j] # <<"discard", d>>
      PROVE  Known(k, d)'
  <2>1. CASE i = 1
    <3>1. d \in mDevices'
      BY <1>3, <2>1
    <3>2. ASSUME NEW j \in 1..Len(messages'), j < k
          PROVE  messages'[j] # <<"discard", d>>
      <4>1. j + 1 \in 1..Len(messages) /\ messages'[j] = messages[j + 1]
        BY <1>1
      <4>2. i < j + 1 /\ j + 1 < k + 1
        BY <2>1, <3>2
      <4> QED
        BY <1>3, <4>1, <4>2
    <3> QED
      BY <3>1, <3>2 DEF Known
  <2>2. CASE i # 1
    <3>1. i - 1 \in 1..Len(messages') /\ messages'[i - 1] = <<"found", d>> /\ i - 1 < k
      BY <1>1, <1>3, <2>2
    <3>2. ASSUME NEW j \in 1..Len(messages'), i - 1 < j, j < k
          PROVE  messages'[j] # <<"discard", d>>
      <4>1. j + 1 \in 1..Len(messages) /\ messages'[j] = messages[j + 1]
        BY <1>1
      <4>2. i < j + 1 /\ j + 1 < k + 1
        BY <3>2
      <4> QED
        BY <1>3, <4>1, <4>2
    <3> QED
      BY <3>1, <3>2 DEF Known
  <2> QED
    BY <2>1, <2>2
<1> QED
  BY <1>2, <1>3 DEF Known

\* Messages are added of which none discards a device that is there, and one of a
\* device that comes when it is there.
LEMMA KnownToldGrows ==
    ASSUME MessagesOK, KnownWhenTold, NEW S, Adds(S), UNCHANGED mDevices,
           \A d \in Device : <<"connected", d>> \in S =>
              status[d] # "absent" /\ Len(messages') = Len(messages) + 1,
           \A d \in Device : status'[d] # "absent" =>
              \/ status[d] # "absent" /\ <<"discard", d>> \notin S
              \/ Len(messages') > Len(messages) /\ messages'[Len(messages')] = <<"found", d>>
    PROVE  KnownWhenTold'
<1> DEFINE n == Len(messages)
<1>1. /\ n \in Nat /\ Len(messages') \in Nat /\ Len(messages') >= n
      /\ \A j \in 1..n : j \in 1..Len(messages') /\ messages'[j] = messages[j]
      /\ \A j \in 1..Len(messages') : j \in 1..n \/ (j > n /\ messages'[j] \in S)
  BY DEF Adds, MessagesOK
<1>2. \A d : /\ \A k \in 1..(n + 1) : Known(k, d) => Known(k, d)'
             /\ Known(n + 1, d) /\ <<"discard", d>> \notin S =>
                   \A k \in Nat : k > n => Known(k, d)'
  BY KnownGrows
<1>3. ASSUME NEW d \in Device, NEW k \in 1..Len(messages'), Comes(k, d)'
      PROVE  Known(k, d)'
  <2>1. CASE k \in 1..n
    <3>1. Comes(k, d)
      BY <1>1, <1>3, <2>1 DEF Comes
    <3>2. Known(k, d) /\ k \in 1..(n + 1)
      BY <1>1, <2>1, <3>1 DEF KnownWhenTold
    <3> QED
      BY <1>2, <3>2
  <2>2. CASE k > n
    <3>1. <<"connected", d>> \in S
      BY <1>1, <1>3, <2>2 DEF Comes
    <3>2. status[d] # "absent" /\ k = n + 1 /\ n + 1 \in 1..(n + 1)
      BY <1>1, <2>2, <3>1
    <3>3. Known(n + 1, d)
      BY <3>2 DEF KnownWhenTold
    <3> QED
      BY <1>2, <3>2, <3>3
  <2> QED
    BY <1>1, <2>1, <2>2
<1>4. ASSUME NEW d \in Device, status'[d] # "absent", NEW k \in Nat, k = Len(messages') + 1
      PROVE  Known(k, d)'
  <2>1. CASE status[d] # "absent" /\ <<"discard", d>> \notin S
    <3>1. Known(n + 1, d) /\ k > n
      BY <1>1, <1>4, <2>1 DEF KnownWhenTold
    <3> QED
      BY <1>2, <2>1, <3>1
  <2>2. CASE Len(messages') > Len(messages) /\ messages'[Len(messages')] = <<"found", d>>
    <3>1. PICK m \in 1..Len(messages') : m = Len(messages')
      BY <1>1, <2>2
    <3>2. messages'[m] = <<"found", d>> /\ m < k /\ \A j \in 1..Len(messages') : ~(m < j)
      BY <1>1, <1>4, <2>2, <3>1
    <3> QED
      BY <3>1, <3>2 DEF Known
  <2> QED
    BY <1>4, <2>1, <2>2
<1> HIDE DEF n
<1> QED
  <2>1. Len(messages') + 1 \in Nat
    BY <1>1
  <2>2. \A d \in Device : status'[d] # "absent" => Known(Len(messages) + 1, d)'
    <3> SUFFICES ASSUME NEW d \in Device, status'[d] # "absent"
                 PROVE  Known(Len(messages) + 1, d)'
      OBVIOUS
    <3>1. PICK k \in Nat : k = Len(messages') + 1
      BY <2>1
    <3>2. Known(k, d)'
      BY <1>4, <3>1
    <3> QED
      BY <3>1, <3>2 DEF Known
  <2> QED
    BY <1>3, <2>2 DEF KnownWhenTold, Comes

\* The same for one message.
LEMMA KnownTold ==
    ASSUME MessagesOK, KnownWhenTold, NEW m \in Message, messages' = Append(messages, m),
           UNCHANGED mDevices, m[1] # "discard",
           \A d \in Device : m = <<"connected", d>> => status[d] # "absent",
           \A d \in Device : status'[d] # "absent" => status[d] # "absent" \/ m = <<"found", d>>
    PROVE  KnownWhenTold'
<1>1. /\ Adds({m}) /\ Len(messages) \in Nat
      /\ Len(messages') = Len(messages) + 1 /\ messages'[Len(messages')] = m
  BY Appended
<1>2. \A d \in Device : <<"connected", d>> \in {m} =>
         status[d] # "absent" /\ Len(messages') = Len(messages) + 1
  BY <1>1
<1>3. \A d \in Device : m # <<"discard", d>>
  OBVIOUS
<1>4. \A d \in Device : status'[d] # "absent" =>
         \/ status[d] # "absent" /\ <<"discard", d>> \notin {m}
         \/ Len(messages') > Len(messages) /\ messages'[Len(messages')] = <<"found", d>>
  BY <1>1, <1>3
<1> QED
  BY <1>1, <1>2, <1>4, KnownToldGrows

\* A message that is added, while the scan goes on or as its end.
LEMMA DiscardTold ==
    ASSUME MessagesOK, DiscardInScan, NEW m \in Message, messages' = Append(messages, m),
           m[1] # "discard", scanning' = scanning \/ m[1] = "scan"
    PROVE  DiscardInScan'
<1> DEFINE n == Len(messages)
<1>1. /\ n \in Nat /\ n + 1 \in 1..Len(messages') /\ Len(messages') = n + 1
      /\ messages'[n + 1] = m
      /\ \A k \in 1..n : k \in 1..Len(messages') /\ messages'[k] = messages[k]
      /\ \A k \in 1..Len(messages') : k \in 1..n \/ k = n + 1
  BY DEF MessagesOK
<1> SUFFICES ASSUME NEW k \in 1..Len(messages'), messages'[k][1] = "discard"
             PROVE  \/ scanning'
                    \/ \E l \in 1..Len(messages') : k < l /\ messages'[l][1] = "scan"
  BY DEF DiscardInScan
<1>2. k \in 1..n /\ messages[k][1] = "discard"
  BY <1>1
<1>3. scanning \/ \E l \in 1..n : k < l /\ messages[l][1] = "scan"
  BY <1>2 DEF DiscardInScan
<1> HIDE DEF n
<1>4. CASE m[1] = "scan"
  BY <1>1, <1>2, <1>4
<1>5. CASE scanning' = scanning
  BY <1>1, <1>3, <1>5
<1> QED
  BY <1>4, <1>5

\* What leaves objects, statuses, messages and the scan alone changes nothing.
LEMMA SearchStays ==
    ASSUME UNCHANGED <<status, messages, scanning, mDevices>>, KnownWhenTold, DiscardInScan
    PROVE  KnownWhenTold' /\ DiscardInScan'
<1>0. \A k, d : (Known(k, d) => Known(k, d)') /\ (Comes(k, d)' => Comes(k, d))
  BY DEF Known, Comes
<1>1. KnownWhenTold'
  BY <1>0 DEF KnownWhenTold
<1>2. DiscardInScan'
  BY DEF DiscardInScan
<1> QED
  BY <1>1, <1>2

\* A message of the hub keeps the search going.
LEMMA SearchTold ==
    ASSUME DataOK, KnownWhenTold, DiscardInScan, Searching, main # "gone",
           \/ ScanEnds
           \/ \E d \in Device : DeviceSeen(d) \/ HubConnects(d) \/ HubLoses(d)
    PROVE  KnownWhenTold' /\ DiscardInScan' /\ Searching'
<1>0. /\ MessagesOK /\ status \in [Device -> Statuses]
      /\ UNCHANGED <<mDeviceComps, mDevices, mNeedDeviceScan, main>>
  BY DEF DataOK, SlotsOK, Statuses, DeviceSeen, HubConnects, HubLoses, ScanEnds, appVars, hubVars
<1>1. ASSUME NEW m \in Message, messages' = Append(messages, m)
      PROVE  /\ \A k \in 1..Len(messages) : k \in 1..Len(messages') /\ messages'[k] = messages[k]
             /\ \E k \in 1..Len(messages') : messages'[k] = m
  BY <1>0, <1>1 DEF MessagesOK
<1>2. CASE ScanEnds
  <2>1. PICK m \in Message : m = <<"scan", None>>
    BY DEF Message, Kinds
  <2>2. messages' = Append(messages, m) /\ UNCHANGED status /\ m[1] = "scan"
    BY <1>2, <2>1 DEF ScanEnds
  <2>3. KnownWhenTold'
    <3>1. /\ \A d \in Device : m = <<"connected", d>> => status[d] # "absent"
          /\ \A d \in Device : status'[d] # "absent" => status[d] # "absent" \/ m = <<"found", d>>
          /\ m[1] # "discard" /\ UNCHANGED mDevices
      BY <1>0, <2>1, <2>2
    <3> QED
      BY <1>0, <2>2, <3>1, KnownTold
  <2>4. DiscardInScan'
    BY <1>0, <2>2, DiscardTold
  <2>5. Searching'
    BY <1>1, <2>2 DEF Searching
  <2> QED
    BY <2>3, <2>4, <2>5
<1>3. ASSUME NEW d \in Device, DeviceSeen(d)
      PROVE  KnownWhenTold' /\ DiscardInScan' /\ Searching'
  <2>1. PICK m \in Message : m = <<"found", d>>
    BY DEF Message, Kinds
  <2>2. /\ messages' = Append(messages, m) /\ m[1] = "found"
        /\ \A e \in Device : e # d => status'[e] = status[e]
        /\ status[d] = "absent" /\ UNCHANGED <<scanning, hitch>>
    BY <1>0, <1>3, <2>1 DEF DeviceSeen
  <2>3. KnownWhenTold'
    <3>1. /\ \A e \in Device : m = <<"connected", e>> => status[e] # "absent"
          /\ \A e \in Device : status'[e] # "absent" => status[e] # "absent" \/ m = <<"found", e>>
          /\ m[1] # "discard" /\ UNCHANGED mDevices
      BY <1>0, <2>1, <2>2
    <3> QED
      BY <1>0, <2>2, <3>1, KnownTold
  <2>4. DiscardInScan'
    BY <1>0, <2>2, DiscardTold
  <2>5. Searching'
    <3>1. \A e \in Device : status[e] = "connecting" => status'[e] = "connecting"
      BY <2>2
    <3>2. \A k \in 1..Len(messages) : k \in 1..Len(messages') /\ messages'[k] = messages[k]
      BY <1>1, <2>2
    <3> QED
      BY <1>0, <2>2, <3>1, <3>2 DEF Searching, FreeSlots
  <2> QED
    BY <2>3, <2>4, <2>5
<1>4. ASSUME NEW d \in Device, HubConnects(d)
      PROVE  KnownWhenTold' /\ DiscardInScan' /\ Searching'
  <2>1. PICK m \in Message : m = <<"connected", d>>
    BY DEF Message, Kinds
  <2>2. /\ messages' = Append(messages, m) /\ m[1] = "connected"
        /\ \A e \in Device : e # d => status'[e] = status[e]
        /\ status[d] = "connecting" /\ UNCHANGED <<scanning, hitch>>
    BY <1>0, <1>4, <2>1 DEF HubConnects
  <2>3. KnownWhenTold'
    <3>1. /\ \A e \in Device : m = <<"connected", e>> => status[e] # "absent"
          /\ \A e \in Device : status'[e] # "absent" => status[e] # "absent" \/ m = <<"found", e>>
          /\ m[1] # "discard" /\ UNCHANGED mDevices
      BY <1>0, <2>1, <2>2
    <3> QED
      BY <1>0, <2>2, <3>1, KnownTold
  <2>4. DiscardInScan'
    BY <1>0, <2>2, DiscardTold
  <2>5. Searching'
    BY <1>1, <2>2 DEF Searching
  <2> QED
    BY <2>3, <2>4, <2>5
<1>5. ASSUME NEW d \in Device, HubLoses(d)
      PROVE  KnownWhenTold' /\ DiscardInScan' /\ Searching'
  <2>1. PICK m \in Message : m = <<"lost", d>>
    BY DEF Message, Kinds
  <2>2. /\ messages' = Append(messages, m) /\ m[1] = "lost"
        /\ \A e \in Device : e # d => status'[e] = status[e]
        /\ status[d] \in {"connecting", "connected"} /\ UNCHANGED scanning
    BY <1>0, <1>5, <2>1 DEF HubLoses
  <2>3. KnownWhenTold'
    <3>1. /\ \A e \in Device : m = <<"connected", e>> => status[e] # "absent"
          /\ \A e \in Device : status'[e] # "absent" => status[e] # "absent" \/ m = <<"found", e>>
          /\ m[1] # "discard" /\ UNCHANGED mDevices
      BY <1>0, <2>1, <2>2
    <3> QED
      BY <1>0, <2>2, <3>1, KnownTold
  <2>4. DiscardInScan'
    BY <1>0, <2>2, DiscardTold
  <2>5. (status[d] = "connecting" => hitch') /\ (hitch => hitch')
    BY <1>5, Zenon DEF HubLoses
  <2>6. Searching'
    <3>1. CASE status[d] = "connecting"
      BY <2>5, <3>1 DEF Searching
    <3>2. CASE status[d] # "connecting"
      <4>1. \A e \in Device : status[e] = "connecting" => status'[e] = "connecting"
        BY <2>2, <3>2
      <4>2. \A k \in 1..Len(messages) : k \in 1..Len(messages') /\ messages'[k] = messages[k]
        BY <1>1, <2>2
      <4> QED
        BY <1>0, <2>2, <2>5, <4>1, <4>2 DEF Searching, FreeSlots
    <3> QED
      BY <3>1, <3>2
  <2> QED
    BY <2>3, <2>4, <2>6
<1> QED
  BY <1>2, <1>3, <1>4, <1>5

\* A message that is delivered keeps the search going: one that ends an attempt for a
\* device with an object starts the next, and what frees a slot without a next attempt
\* was discarded by a scan whose end comes.
LEMMA SearchDeliver ==
    ASSUME DataOK, KnownWhenTold, DiscardInScan, Searching, Deliver
    PROVE  KnownWhenTold' /\ DiscardInScan' /\ Searching'
<1> DEFINE kind == messages[1][1]
           d == messages[1][2]
<1>1. /\ 1 \in 1..Len(messages) /\ messages[1] = <<kind, d>> /\ kind \in Kinds
      /\ kind # "scan" => d \in Device
      /\ main # "gone"
      /\ Handled(kind, d)
      /\ \/ /\ Taken
            /\ mDevices' = IF kind = "found" THEN mDevices \cup {d}
                           ELSE IF kind = "discard" THEN mDevices \ {d} ELSE mDevices
         \/ /\ UNCHANGED messages
            /\ mDevices' = IF kind = "found" THEN mDevices \cup {d} ELSE mDevices
      /\ UNCHANGED <<main, scanning, hitch>>
  BY DeliverDoes
<1>2. kind = messages[1][1] /\ d = messages[1][2]
  OBVIOUS
<1> HIDE DEF kind, d
<1>3. MessagesOK /\ status \in [Device -> Statuses] /\ Len(messages) \in Nat
  BY DEF DataOK, SlotsOK, MessagesOK, Statuses
<1>4. /\ \A e \in Device : status[e] = "connecting" => status'[e] = "connecting"
      /\ \A e \in Device : status'[e] # "absent" => status[e] # "absent"
  BY <1>1 DEF Handled, Starts
<1>5. KnownWhenTold'
  <2>1. CASE /\ Taken
             /\ mDevices' = IF kind = "found" THEN mDevices \cup {d}
                            ELSE IF kind = "discard" THEN mDevices \ {d} ELSE mDevices
    <3>1. ASSUME NEW e \in Device, NEW k \in Nat \ {0}, Known(k + 1, e)
          PROVE  Known(k, e)'
      <4>1. e \in mDevices /\ messages[1] # <<"discard", e>> => e \in mDevices'
        BY <1>1, <2>1
      <4>2. messages[1] = <<"found", e>> => e \in mDevices'
        BY <1>1, <2>1
      <4> QED
        BY <1>3, <2>1, <3>1, <4>1, <4>2, KnownShifts
    <3>2. ASSUME NEW e \in Device, NEW k \in 1..Len(messages'), Comes(k, e)'
          PROVE  Known(k, e)'
      <4>1. k + 1 \in 1..Len(messages) /\ Comes(k + 1, e) /\ k \in Nat \ {0}
        BY <2>1, <3>2 DEF Taken, Comes
      <4>2. Known(k + 1, e)
        BY <4>1 DEF KnownWhenTold
      <4> QED
        BY <3>1, <4>1, <4>2
    <3>3. \A e \in Device : status'[e] # "absent" => Known(Len(messages) + 1, e)'
      <4> SUFFICES ASSUME NEW e \in Device, status'[e] # "absent"
                   PROVE  Known(Len(messages) + 1, e)'
        OBVIOUS
      <4>1. PICK k \in Nat \ {0} : k = Len(messages) /\ k = Len(messages') + 1
        BY <2>1 DEF Taken
      <4>2. Known(k + 1, e)
        BY <1>4, <4>1 DEF KnownWhenTold
      <4>3. Known(k, e)'
        BY <3>1, <4>2
      <4> QED
        BY <4>1, <4>3 DEF Known
    <3> QED
      BY <2>1, <3>2, <3>3 DEF KnownWhenTold, Comes
  <2>2. CASE /\ UNCHANGED messages
             /\ mDevices' = IF kind = "found" THEN mDevices \cup {d} ELSE mDevices
    <3>1. \A e, k : Known(k, e) => Known(k, e)'
      BY <2>2 DEF Known
    <3>2. \A e, k : Comes(k, e)' <=> Comes(k, e)
      BY <2>2 DEF Comes
    <3> QED
      BY <1>4, <2>2, <3>1, <3>2 DEF KnownWhenTold
  <2> QED
    BY <1>1, <2>1, <2>2
<1>6. DiscardInScan'
  <2>1. CASE Taken
    <3> SUFFICES ASSUME NEW k \in 1..Len(messages'), messages'[k][1] = "discard", ~scanning'
                 PROVE  \E l \in 1..Len(messages') : k < l /\ messages'[l][1] = "scan"
      BY DEF DiscardInScan
    <3>1. k + 1 \in 1..Len(messages) /\ messages[k + 1][1] = "discard"
      BY <2>1 DEF Taken
    <3>2. PICK l \in 1..Len(messages) : k + 1 < l /\ messages[l][1] = "scan"
      BY <1>1, <3>1 DEF DiscardInScan
    <3>3. l - 1 \in 1..Len(messages') /\ messages'[l - 1][1] = "scan" /\ k < l - 1
      BY <2>1, <3>2 DEF Taken
    <3> QED
      BY <3>3
  <2>2. CASE UNCHANGED messages
    BY <1>1, <2>2 DEF DiscardInScan
  <2> QED
    BY <1>1, <2>1, <2>2
<1>7. \A i \in 1..Len(messages) : i # 1 /\ messages[i][1] \in {"scan", "connected"} =>
         \E k \in 1..Len(messages') : messages'[k][1] \in {"scan", "connected"}
  BY <1>1 DEF Taken
<1>8. Tried => Searching'
  BY DEF Tried, Searching, FreeSlots
<1>9. ASSUME UNCHANGED mDeviceComps, kind \notin {"scan", "connected"}
      PROVE  Searching'
  <2>1. FreeSlots(mDeviceComps') = FreeSlots(mDeviceComps)
    BY <1>9
  <2>2. mNeedDeviceScan => mNeedDeviceScan'
    BY <1>1, Zenon DEF Handled
  <2>3. (\E i \in 1..Len(messages) : messages[i][1] \in {"scan", "connected"}) =>
           \E k \in 1..Len(messages') : messages'[k][1] \in {"scan", "connected"}
    BY <1>2, <1>7, <1>9
  <2> QED
    BY <1>1, <1>4, <1>9, <2>1, <2>2, <2>3 DEF Searching, FreeSlots
<1>10. CASE kind = "scan"
  BY <1>1, <1>5, <1>6, <1>8, <1>10 DEF Handled
<1>11. CASE kind = "connected"
  <2>1. Known(1, d) /\ d \in Device
    BY <1>1, <1>11 DEF KnownWhenTold, Comes
  <2>2. d \in mDevices
    BY <2>1 DEF Known
  <2> QED
    BY <1>1, <1>5, <1>6, <1>8, <1>11, <2>2 DEF Handled
<1>12. CASE kind = "found"
  <2>1. UNCHANGED mDeviceComps
    BY <1>1, <1>12 DEF Handled
  <2> QED
    BY <1>5, <1>6, <1>9, <1>12, <2>1
<1>13. CASE kind = "lost"
  <2>1. mDeviceComps' # mDeviceComps => Tried
    BY <1>1, <1>13 DEF Handled
  <2> QED
    BY <1>5, <1>6, <1>8, <1>9, <1>13, <2>1
<1>14. CASE kind = "discard"
  <2>1. scanning \/ \E l \in 1..Len(messages) : 1 < l /\ messages[l][1] = "scan"
    BY <1>1, <1>2, <1>14 DEF DiscardInScan
  <2>2. scanning' \/ \E k \in 1..Len(messages') : messages'[k][1] \in {"scan", "connected"}
    BY <1>1, <1>7, <2>1
  <2> QED
    BY <1>5, <1>6, <2>2 DEF Searching
<1> QED
  BY <1>1, <1>5, <1>6, <1>10, <1>11, <1>12, <1>13, <1>14 DEF Kinds

\* The scan that the main thread came for runs then, or its failure is a hitch.
LEMMA SearchScans ==
    ASSUME DataOK, KnownWhenTold, DiscardInScan, Searching, UpdateScans \/ PrepareScans
    PROVE  KnownWhenTold' /\ DiscardInScan' /\ Searching'
<1>1. /\ UNCHANGED mDevices
      /\ \/ ScanStarts
         \/ UNCHANGED <<status, messages, scanning>> /\ hitch' = (hitch \/ ~scanning)
  BY DEF UpdateScans, PrepareScans, ScanRefused, hubVars, nativeVars
<1>2. CASE ScanStarts
  <2> DEFINE S == {<<"discard", d>> : d \in Idle}
  <2>1. /\ Adds(S) /\ scanning' = TRUE
        /\ \A d \in Device : status'[d] = IF status[d] = "idle" THEN "absent" ELSE status[d]
    BY <1>2, ScanStartsDoes DEF DataOK
  <2>2. \A d \in Device : /\ <<"connected", d>> \notin S
                          /\ <<"discard", d>> \in S <=> status[d] = "idle"
    BY DEF Idle
  <2> HIDE DEF S
  <2>3. \A d \in Device : <<"connected", d>> \in S =>
           status[d] # "absent" /\ Len(messages') = Len(messages) + 1
    BY <2>2
  <2>4. \A d \in Device : status'[d] # "absent" =>
           \/ status[d] # "absent" /\ <<"discard", d>> \notin S
           \/ Len(messages') > Len(messages) /\ messages'[Len(messages')] = <<"found", d>>
    BY <2>1, <2>2
  <2>5. MessagesOK /\ UNCHANGED mDevices
    BY <1>1 DEF DataOK
  <2>6. KnownWhenTold'
    BY <2>1, <2>3, <2>4, <2>5, KnownToldGrows
  <2> QED
    BY <2>1, <2>6 DEF DiscardInScan, Searching
<1>3. CASE UNCHANGED <<status, messages, scanning>> /\ hitch' = (hitch \/ ~scanning)
  <2>1. KnownWhenTold' /\ DiscardInScan'
    BY <1>1, <1>3, SearchStays
  <2>2. scanning' \/ hitch'
    BY <1>3, Zenon
  <2> QED
    BY <2>1, <2>2 DEF Searching
<1> QED
  BY <1>1, <1>2, <1>3

\* An Update, and a Reset, are on the way to a scan.
LEMMA SearchMain ==
    ASSUME DataOK, KnownWhenTold, DiscardInScan, Update \/ ResetSlots \/ ResetDisposes
    PROVE  KnownWhenTold' /\ DiscardInScan' /\ Searching'
<1>1. Searching'
  BY DEF Update, ResetSlots, ResetDisposes, Searching
<1>2. CASE UNCHANGED <<status, messages, scanning, mDevices>>
  BY <1>1, <1>2, SearchStays
<1>3. CASE messages' = <<>> /\ status' = [d \in Device |-> "absent"]
  BY <1>1, <1>3 DEF KnownWhenTold, DiscardInScan
<1> QED
  BY <1>2, <1>3 DEF Update, ResetSlots, ResetDisposes, Dispose, Deinit, hubVars, nativeVars

\* Every step keeps the search going.
LEMMA SearchStep == DataOK /\ SearchInv /\ [Next]_vars => SearchInv'
<1> SUFFICES ASSUME DataOK, SearchInv, [Next]_vars, main' # "gone"
             PROVE  KnownWhenTold' /\ DiscardInScan' /\ Searching'
  BY DEF SearchInv
<1>1. CASE OnApplicationQuit
  BY <1>1 DEF OnApplicationQuit
<1>2. CASE UNCHANGED vars
  <2>1. UNCHANGED <<mDeviceComps, mDevices, mNeedDeviceScan, main, status, messages, scanning,
                    hitch>>
    BY <1>2 DEF vars, appVars, hubVars, nativeVars
  <2>2. KnownWhenTold /\ DiscardInScan /\ Searching
    BY <2>1 DEF SearchInv
  <2>3. KnownWhenTold' /\ DiscardInScan'
    BY <2>1, <2>2, SearchStays
  <2>4. FreeSlots(mDeviceComps') = FreeSlots(mDeviceComps)
    BY <2>1
  <2>5. Searching'
    BY <2>1, <2>2, <2>4 DEF Searching, FreeSlots
  <2> QED
    BY <2>3, <2>5
<1>3. CASE ScanEnds \/ \E d \in Device : DeviceSeen(d) \/ HubConnects(d) \/ HubLoses(d)
  <2>1. main # "gone"
    BY <1>3 DEF ScanEnds, DeviceSeen, HubConnects, HubLoses
  <2> QED
    BY <1>3, <2>1, SearchTold DEF SearchInv
<1>4. CASE Deliver
  BY <1>4, SearchDeliver DEF SearchInv, Deliver
<1>5. CASE UpdateScans \/ PrepareScans
  <2>1. main # "gone"
    BY <1>5 DEF UpdateScans, PrepareScans
  <2> QED
    BY <1>5, <2>1, SearchScans DEF SearchInv
<1>6. CASE Update \/ ResetSlots \/ ResetDisposes
  <2>1. main # "gone"
    BY <1>6 DEF Update, ResetSlots, ResetDisposes
  <2> QED
    BY <1>6, <2>1, SearchMain DEF SearchInv
<1> QED
  BY <1>1, <1>2, <1>3, <1>4, <1>5, <1>6 DEF Next

\* As long as a slot is free the search for devices goes on, unless something failed that
\* nothing repeats: tryConnecting is reached whenever an attempt ends that nothing else
\* follows.
THEOREM SearchGoesOn == Spec => []KeepsSearching
<1>1. DataOK /\ SearchInv => KeepsSearching
  <2> SUFFICES ASSUME DataOK, SearchInv PROVE KeepsSearching
    OBVIOUS
  <2>1. main = "gone" \/ Searching
    BY DEF SearchInv
  <2>2. DOMAIN messages = 1..Len(messages)
    BY DEF DataOK, MessagesOK
  <2>3. \A x : x \in {"scan", "connected"} => x \in {"scan", "connected", "lost"}
    OBVIOUS
  <2>4. (\E i \in 1..Len(messages) : messages[i][1] \in {"scan", "connected"}) =>
           \E i \in DOMAIN messages : messages[i][1] \in {"scan", "connected", "lost"}
    BY <2>2, <2>3
  <2> QED
    BY <2>1, <2>4 DEF Searching, KeepsSearching
<1> QED
  BY DataInit, DataStep, SearchInit, SearchStep, <1>1, PTL DEF Spec
=============================================================================
