-------------------------- MODULE ConnectionProofs --------------------------
(***************************************************************************)
(* Any number of armbands, clients and handles, any budget: the types, the *)
(* hub's two sets and the handles apart, no link left behind as long as    *)
(* nobody cancels, and with careful clients the status that is read true.  *)
(***************************************************************************)
EXTENDS Connection, FiniteSetTheorems, SequenceTheorems, TLAPS

-----------------------------------------------------------------------------
(* The invariant, in three layers: the types, where each RemoteDevice is,    *)
(* and what holds as long as a deed was never done.                        *)

Threads == {"none", "setup", "discovering", "report", "onConnected", "protocol",
            "connected", "stopped", "deleted"}
Active == Threads \ {"none", "stopped", "deleted"}
AnyHandle == Handles \cup {INVALID_HANDLE}
RemoteDevice == [addr : Devices, handle : AnyHandle, link : AnyHandle,
                 thread : Threads, dev : Devices \cup {NoDevice}]
Call == [pc : {"idle", "queued", "write", "join"},
         op : {"none", "connect", "disconnect", "cancelConnect"},
         dev : Devices \cup {NoDevice}, handle : AnyHandle]
Message == [kind : {"up", "down", "upError"}, addr : Devices \cup {NoDevice},
            handle : AnyHandle]

\* The event thread is in the middle of telling that a device is gone.
Busy == event.pc \in {"hub", "device", "delete"}
Reporting == {"report", "onConnected", "protocol"}

\* Types, with what each part needs of its own values.
DeviceOK ==
    /\ mCnntStatus \in [Devices -> Statuses]
    /\ mHandle \in [Devices -> AnyHandle]
    /\ mProfile \subseteq Devices
    /\ mConnectedDevices \in Seq(Devices)
    /\ mDisconnDevices \in Seq(Devices)
    /\ crossed \in BOOLEAN
    /\ mTaskMutex \in Clients \cup {Free}
    /\ mIsConnecting \in BOOLEAN

ClientOK ==
    /\ client \in [Clients -> Call]
    /\ \A c \in Clients :
          /\ client[c].pc # "idle" => client[c].dev \in Devices
          /\ client[c].op = "disconnect" => client[c].handle \in Handles
          /\ client[c].pc = "join" => client[c].op = "disconnect"

RemoteOK ==
    /\ remote \in Seq(RemoteDevice)
    /\ Len(remote) <= MaxConnects
    /\ \A i \in DOMAIN remote :
          remote[i].thread \in Reporting => remote[i].dev \in Devices

ListOK ==
    /\ mConnectingDevice \in Seq(Ids)
    /\ Elements(mConnectingDevice) \subseteq DOMAIN remote
    /\ mConnectedDevice \in Seq(Ids)
    /\ Elements(mConnectedDevice) \subseteq DOMAIN remote
    /\ mDisconnectingDevice \in Seq(Ids)
    /\ Elements(mDisconnectingDevice) \subseteq DOMAIN remote
    /\ mCancelConnectingDevice \in DOMAIN remote \cup {NULL}

EventOK ==
    /\ event \in [pc : {"idle", "hub", "device", "delete", "crashed"},
                  addr : Devices \cup {NoDevice}, handle : AnyHandle, del : Nat]
    /\ Busy => event.addr \in Devices /\ event.del \in DOMAIN remote

DongleOK ==
    /\ pending \in Devices \cup {NoDevice}
    /\ links \in [Handles -> Devices \cup {NoDevice}]
    /\ events \in Seq(Message)
    /\ \A k \in 1..Len(events) :
          /\ events[k].kind = "up" => events[k].addr \in Devices
          /\ events[k].kind \in {"up", "down"} => events[k].handle \in Handles

BudgetOK == budget \in [Deeds -> [left : Nat, done : BOOLEAN]]

DataOK == /\ DeviceOK /\ ClientOK /\ RemoteOK
          /\ ListOK /\ EventOK /\ DongleOK /\ BudgetOK

\* The hub's two sets, as long as the handles have kept the order of the addresses:
\* their trees are in that order, and the sets are each other's complement.
Connecteds == Elements(mConnectedDevices)
Disconnecteds == Elements(mDisconnDevices)
SetsOK == ~crossed =>
    /\ Aligned
    /\ InOrder(mConnectedDevices) /\ InOrder(mDisconnDevices)
    /\ Connecteds \cap Disconnecteds = {}
    /\ Connecteds \cup Disconnecteds = Devices

InList(i) == i \in Elements(mConnectingDevice) \cup Elements(mConnectedDevice)
                   \cup Elements(mDisconnectingDevice)

\* A RemoteDevice is in the list its thread says: waiting ones have no thread yet,
\* connected ones a running thread, those being disconnected a stopped one; the
\* handle it has taken is that of its link; the one being deleted is in no list.
ObjectsOK ==
    /\ \A i \in Elements(mConnectingDevice) :
          /\ i \notin Elements(mConnectedDevice)
          /\ i \notin Elements(mDisconnectingDevice)
          /\ remote[i].thread = "none" /\ remote[i].link = INVALID_HANDLE
    /\ \A i \in Elements(mConnectedDevice) : i \notin Elements(mDisconnectingDevice)
    /\ \A i \in Elements(mDisconnectingDevice) : remote[i].thread = "stopped"
    /\ \A i \in DOMAIN remote :
          /\ i \in Elements(mConnectedDevice) <=> remote[i].thread \in Active
          /\ remote[i].thread = "setup" => remote[i].link \in Handles
          /\ remote[i].thread \in {"none", "setup"} => remote[i].handle = INVALID_HANDLE
          /\ remote[i].thread \in Active \ {"setup"} => remote[i].handle \in Handles
          /\ remote[i].handle \in Handles => remote[i].handle = remote[i].link
    /\ mCancelConnectingDevice # NULL =>
          /\ ~InList(mCancelConnectingDevice)
          /\ remote[mCancelConnectingDevice].thread \in {"none", "deleted"}
          /\ remote[mCancelConnectingDevice].handle = INVALID_HANDLE
    /\ Busy =>
          /\ ~InList(event.del)
          /\ remote[event.del].thread # "deleted"
          /\ remote[event.del].handle = event.handle

\* What makes a handle mean one armband: a link that is about to be told of is
\* new to every RemoteDevice and told once, ...
Alive(i) == i \in DOMAIN remote /\ remote[i].thread # "deleted"

UpFresh == \A k \in 1..Len(events) : events[k].kind = "up" =>
    /\ \A i \in DOMAIN remote : Alive(i) => remote[i].link # events[k].handle
    /\ \A l \in 1..Len(events) : events[l].kind = "up" /\ events[l].handle = events[k].handle
                                   => l = k
\* ... a handle whose end is told or being told has no link, ...
DownGone ==
    /\ \A k \in 1..Len(events) : events[k].kind = "down" => links[events[k].handle] = NoDevice
    /\ Busy /\ event.handle \in Handles => links[event.handle] = NoDevice

\* ... RemoteDevices of one link are of one armband, ...
OneAddr == \A i, j \in DOMAIN remote :
    Alive(i) /\ Alive(j) /\ remote[i].link = remote[j].link /\ remote[i].link \in Handles
       => remote[i].addr = remote[j].addr
\* ... each reports its own, ...
OwnDev == \A i \in DOMAIN remote :
    remote[i].thread \in Reporting => remote[i].dev = remote[i].addr
\* ... a handle a BLEDevice has was taken by a RemoteDevice of its armband, ...
KnownHandle == \A d \in Devices : mHandle[d] \in Handles =>
    \E i \in DOMAIN remote : Alive(i) /\ remote[i].handle = mHandle[d] /\ remote[i].addr = d
\* ... and the armband told to be gone is the one that was at the handle.
RightDel == Busy /\ event.handle \in Handles =>
    /\ event.addr = remote[event.del].addr
    /\ event.pc = "delete" => mHandle[event.addr] # event.handle
    /\ \A i \in DOMAIN remote : remote[i].handle = event.handle =>
          remote[i].thread \notin Reporting
Distinct == UpFresh /\ DownGone /\ OneAddr /\ OwnDev /\ KnownHandle /\ RightDel
ReuseInv == Never("reuse") /\ ~crossed => Distinct

\* Without cancels the dongle works on at most one attempt, from the request to
\* its event, and a RemoteDevice waits for it ...
Awaited(d) == mIsConnecting /\ \E i \in Elements(mConnectingDevice) : remote[i].addr = d
OneAttempt ==
    /\ \A c \in Clients : client[c].op # "cancelConnect"
    /\ \A k \in 1..Len(events) :
          /\ events[k].kind # "upError"
          /\ events[k].kind = "up" =>
                /\ pending = NoDevice /\ Awaited(events[k].addr)
                /\ \A l \in 1..Len(events) : events[l].kind = "up" => l = k
    /\ pending # NoDevice => Awaited(pending)

\* ... and a link that is up is about to be told of, after all that is still to
\* be told of its handle, or a connected RemoteDevice has it and nothing is.
Told(h) == \E k \in 1..Len(events) :
    /\ events[k].kind = "up" /\ events[k].addr = links[h] /\ events[k].handle = h
    /\ \A l \in 1..Len(events) : events[l].kind = "down" /\ events[l].handle = h => l < k
Ending(h) == \E l \in 1..Len(events) : events[l].kind = "down" /\ events[l].handle = h
Owned(h) ==
    /\ ~Ending(h)
    /\ \E i \in Elements(mConnectedDevice) : remote[i].addr = links[h] /\ remote[i].link = h
AllKnown == \A h \in Handles : links[h] # NoDevice => Told(h) \/ Owned(h)
CancelInv == Never("cancel") => OneAttempt /\ AllKnown
-----------------------------------------------------------------------------
(* Sequences of RemoteDevices. *)

\* The positions kept can be numbered in their order.
LEMMA Numbered ==
    ASSUME NEW n \in Nat, NEW K \in SUBSET (1..n)
    PROVE  /\ Cardinality(K) \in Nat
           /\ \A k \in K : Cardinality({l \in K : l <= k}) \in 1..Cardinality(K)
           /\ \A j \in 1..Cardinality(K) :
                 \E k \in K : Cardinality({l \in K : l <= k}) = j
           /\ \A k, m \in K :
                 Cardinality({l \in K : l <= k}) = Cardinality({l \in K : l <= m})
                   => k = m
<1> DEFINE Rank(k) == Cardinality({l \in K : l <= k})
           R == [k \in K |-> Rank(k)]
<1>1. IsFiniteSet(K) /\ Cardinality(K) \in Nat
  <2>1. IsFiniteSet(1..n)
    BY FS_Interval
  <2> QED
    BY <2>1, FS_Subset, FS_CardinalityType
<1>2. ASSUME NEW k \in K
      PROVE  Rank(k) \in 1..Cardinality(K)
  <2>1. {l \in K : l <= k} \in SUBSET K
    OBVIOUS
  <2>2. Rank(k) \in Nat /\ Rank(k) <= Cardinality(K) /\ IsFiniteSet({l \in K : l <= k})
    BY <1>1, <2>1, FS_Subset, FS_CardinalityType
  <2>3. k \in {l \in K : l <= k}
    OBVIOUS
  <2>4. Rank(k) # 0
    BY <2>2, <2>3, FS_EmptySet
  <2> QED
    BY <2>2, <2>4, <1>1
<1>3. ASSUME NEW k \in K, NEW m \in K, k < m
      PROVE  Rank(k) # Rank(m)
  <2>0. K \subseteq Nat
    OBVIOUS
  <2>1. {l \in K : l <= k} \in SUBSET {l \in K : l <= m}
    <3>1. \A l \in K : l <= k => l <= m
      BY <2>0, <1>3
    <3> QED
      BY <3>1
  <2>2. {l \in K : l <= k} # {l \in K : l <= m}
    <3>1. m \in {l \in K : l <= m} /\ m \notin {l \in K : l <= k}
      BY <2>0, <1>3
    <3> QED
      BY <3>1
  <2>3. IsFiniteSet({l \in K : l <= m})
    BY <1>1, FS_Subset
  <2> QED
    BY <2>1, <2>2, <2>3, FS_Subset
<1>4. R \in Injection(K, 1..Cardinality(K))
  <2>1. R \in [K -> 1..Cardinality(K)]
    BY <1>2
  <2>2. \A k, m \in K : R[k] = R[m] => k = m
    <3>1. \A k, m \in K : k < m \/ k = m \/ m < k
      OBVIOUS
    <3> HIDE DEF Rank
    <3> QED
      BY <1>3, <3>1
  <2> QED
    BY <2>1, <2>2 DEF Injection, IsInjective
<1>5. IsFiniteSet(1..Cardinality(K)) /\ Cardinality(1..Cardinality(K)) = Cardinality(K)
  BY <1>1, FS_Interval
<1>6. R \in Surjection(K, 1..Cardinality(K))
  BY <1>1, <1>4, <1>5, FS_Injection
<1>7. \A j \in 1..Cardinality(K) : \E k \in K : R[k] = j
  BY <1>6 DEF Surjection
<1>8. \A k, m \in K : R[k] = R[m] => k = m
  BY <1>4 DEF Injection, IsInjective
<1> QED
  BY <1>1, <1>2, <1>7, <1>8

\* What Kept finds, in terms of its argument.
LEMMA KeptPair ==
    ASSUME NEW search \in Seq(Ids) \X SUBSET Ids
    PROVE  /\ Kept[search] \in Seq(Ids)
           /\ Elements(Kept[search]) = Elements(search[1]) \cap search[2]
<1> DEFINE list == search[1]
           S == search[2]
<1>0. list \in Seq(Ids) /\ S \in SUBSET Ids
  OBVIOUS
<1> DEFINE K == {k \in 1..Len(list) : list[k] \in S}
           At(j) == CHOOSE k \in K : Cardinality({l \in K : l <= k}) = j
           q == [j \in 1..Cardinality(K) |-> list[At(j)]]
<1>1. Kept[search] = q
  BY DEF Kept
<1> HIDE DEF list, S
<1>2. K \in SUBSET (1..Len(list)) /\ Len(list) \in Nat
  BY <1>0
<1>3. /\ Cardinality(K) \in Nat
      /\ \A k \in K : Cardinality({l \in K : l <= k}) \in 1..Cardinality(K)
      /\ \A j \in 1..Cardinality(K) :
            \E k \in K : Cardinality({l \in K : l <= k}) = j
      /\ \A k, m \in K : Cardinality({l \in K : l <= k}) = Cardinality({l \in K : l <= m}) => k = m
  BY <1>2, Numbered
<1>4. \A j \in 1..Cardinality(K) : At(j) \in K /\ Cardinality({l \in K : l <= At(j)}) = j
  BY <1>3
<1>5. \A k \in K : At(Cardinality({l \in K : l <= k})) = k
  BY <1>3, <1>4
<1> QED
  <2> HIDE DEF At
  <2>1. \A k \in K : list[k] \in Ids /\ list[k] \in S
    BY <1>0, ElementOfSeq
  <2>2. q \in Seq(Ids) /\ Len(q) = Cardinality(K)
    <3>1. q \in [1..Cardinality(K) -> Ids]
      <4> SUFFICES ASSUME NEW j \in 1..Cardinality(K) PROVE list[At(j)] \in Ids
        OBVIOUS
      <4> QED
        BY <1>4, <2>1
    <3> HIDE DEF q, K
    <3> QED
      BY <3>1, <1>3, SeqDef
  <2>3. ASSUME NEW x \in Elements(q)
        PROVE  x \in Elements(list) \cap S
    BY <2>2, <2>1, <1>4 DEF Elements
  <2>4. ASSUME NEW x \in Elements(list) \cap S
        PROVE  x \in Elements(q)
    <3>1. PICK k \in 1..Len(list) : x = list[k]
      BY DEF Elements
    <3>2. k \in K
      BY <3>1
    <3>3. PICK j \in 1..Cardinality(K) : j = Cardinality({l \in K : l <= k})
      BY <3>2, <1>3
    <3>4. q[j] = x
      BY <3>3, <3>2, <3>1, <1>5
    <3> QED
      BY <3>4, <3>3, <2>2 DEF Elements
  <2> QED
    BY <1>1, <2>2, <2>3, <2>4 DEF list, S

\* Kept yields the elements of the list that are in S.
LEMMA KeptElements ==
    ASSUME NEW list \in Seq(Ids), NEW S \in SUBSET Ids
    PROVE  /\ Kept[<<list, S>>] \in Seq(Ids)
           /\ Elements(Kept[<<list, S>>]) = Elements(list) \cap S
<1>1. <<list, S>> \in Seq(Ids) \X SUBSET Ids
  OBVIOUS
<1> QED
  BY <1>1, KeptPair

\* The head of a list is in it, and an empty list has no elements.
LEMMA HeadIn ==
    ASSUME NEW list \in Seq(Ids)
    PROVE  /\ list # <<>> => Head(list) \in Elements(list)
           /\ list = <<>> <=> Elements(list) = {}
           /\ Elements(list) \subseteq Ids
<1>1. list # <<>> => 1 \in 1..Len(list) /\ Head(list) = list[1]
  OBVIOUS
<1>2. list = <<>> => 1..Len(list) = {}
  OBVIOUS
<1>3. \A k \in 1..Len(list) : list[k] \in Ids
  BY ElementOfSeq
<1> QED
  BY <1>1, <1>2, <1>3 DEF Elements

\* A list put backwards before another.
LEMMA Joined ==
    ASSUME NEW s \in Seq(Ids), NEW t \in Seq(Ids)
    PROVE  /\ Backwards(s) \o t \in Seq(Ids)
           /\ Elements(Backwards(s) \o t) = Elements(s) \cup Elements(t)
<1> DEFINE b == Backwards(s)
<1>1. b \in Seq(Ids) /\ Len(b) = Len(s) /\ \A k \in 1..Len(s) : b[k] = s[Len(s) + 1 - k]
  <2>1. b \in [1..Len(s) -> Ids]
    <3>1. \A k \in 1..Len(s) : s[Len(s) + 1 - k] \in Ids
      BY ElementOfSeq
    <3> QED
      BY <3>1 DEF Backwards
  <2>2. Len(s) \in Nat
    OBVIOUS
  <2> HIDE DEF b
  <2>3. b \in Seq(Ids)
    BY <2>1, <2>2, SeqDef
  <2> QED
    BY <2>1, <2>2, <2>3 DEF b, Backwards
<1>2. Elements(b) = Elements(s)
  <2> HIDE DEF b
  <2>1. ASSUME NEW x \in Elements(b)
        PROVE  x \in Elements(s)
    <3>1. PICK k \in 1..Len(s) : x = b[k]
      BY <1>1 DEF Elements
    <3>2. Len(s) + 1 - k \in 1..Len(s) /\ x = s[Len(s) + 1 - k]
      BY <3>1, <1>1
    <3> QED
      BY <3>2 DEF Elements
  <2>2. ASSUME NEW x \in Elements(s)
        PROVE  x \in Elements(b)
    <3>1. PICK k \in 1..Len(s) : x = s[k]
      BY DEF Elements
    <3>2. Len(s) + 1 - k \in 1..Len(s)
      BY <3>1
    <3> DEFINE m == Len(s) + 1 - k
    <3>3. Len(s) + 1 - m = k
      BY <3>2
    <3>4. b[m] = x
      BY <3>1, <3>3, <1>1
    <3> QED
      BY <3>2, <3>4, <1>1 DEF Elements
  <2> QED
    BY <2>1, <2>2
<1> HIDE DEF b
<1>3. /\ b \o t \in Seq(Ids) /\ Len(b \o t) = Len(b) + Len(t)
      /\ \A k \in 1..Len(b) : (b \o t)[k] = b[k]
      /\ \A k \in 1..Len(t) : (b \o t)[Len(b) + k] = t[k]
      /\ \A k \in 1..(Len(b) + Len(t)) : k > Len(b) =>
            k - Len(b) \in 1..Len(t) /\ (b \o t)[k] = t[k - Len(b)]
  <2>1. Len(b) \in Nat /\ Len(t) \in Nat
    BY <1>1
  <2>2. b \o t \in Seq(Ids) /\ Len(b \o t) = Len(b) + Len(t)
    BY <1>1, ConcatProperties
  <2>3. \A k \in 1..(Len(b) + Len(t)) :
           (b \o t)[k] = IF k <= Len(b) THEN b[k] ELSE t[k - Len(b)]
    BY <1>1, ConcatProperties
  <2> QED
    BY <2>1, <2>2, <2>3
<1>4. ASSUME NEW x \in Elements(b \o t)
      PROVE  x \in Elements(b) \cup Elements(t)
  <2>1. PICK k \in 1..(Len(b) + Len(t)) : x = (b \o t)[k]
    BY <1>3 DEF Elements
  <2>2. CASE k <= Len(b)
    <3>1. k \in 1..Len(b)
      BY <2>2, <1>1
    <3> QED
      BY <3>1, <2>1, <1>3 DEF Elements
  <2>3. CASE k > Len(b)
    BY <2>3, <2>1, <1>3 DEF Elements
  <2> QED
    BY <2>2, <2>3, <1>1
<1>5. ASSUME NEW x \in Elements(b)
      PROVE  x \in Elements(b \o t)
  <2>1. PICK k \in 1..Len(b) : x = b[k]
    BY DEF Elements
  <2>2. k \in 1..Len(b \o t) /\ (b \o t)[k] = x
    BY <2>1, <1>1, <1>3
  <2> QED
    BY <2>2 DEF Elements
<1>6. ASSUME NEW x \in Elements(t)
      PROVE  x \in Elements(b \o t)
  <2>1. PICK k \in 1..Len(t) : x = t[k]
    BY DEF Elements
  <2>2. PICK m \in 1..Len(b \o t) : m = Len(b) + k
    BY <2>1, <1>1, <1>3
  <2>3. (b \o t)[m] = x
    BY <2>1, <2>2, <1>3
  <2> QED
    BY <2>2, <2>3 DEF Elements
<1> QED
  BY <1>2, <1>3, <1>4, <1>5, <1>6 DEF b

\* An element put before a list.
LEMMA Pushed ==
    ASSUME NEW x \in Ids, NEW t \in Seq(Ids)
    PROVE  /\ <<x>> \o t \in Seq(Ids)
           /\ Elements(<<x>> \o t) = {x} \cup Elements(t)
<1>1. <<x>> \in Seq(Ids) /\ Len(<<x>>) = 1 /\ <<x>>[1] = x
  OBVIOUS
<1>2. Backwards(<<x>>) = <<x>>
  BY <1>1 DEF Backwards
<1>3. Elements(<<x>>) = {x}
  BY <1>1 DEF Elements
<1> QED
  BY <1>1, <1>2, <1>3, Joined
-----------------------------------------------------------------------------
(* The hub's two sets as the trees they are. *)

\* The keys order the devices as their addresses do.
Keyed == \A d, e \in Devices : Less(d, e) <=> Address[d] < Address[e]

\* They do while those that are Connected are aligned.
LEMMA AlignedKeys ==
    ASSUME mHandle \in [Devices -> AnyHandle], Aligned
    PROVE  Keyed
<1> SUFFICES ASSUME NEW d \in Devices, NEW e \in Devices
             PROVE  Less(d, e) <=> Address[d] < Address[e]
  BY DEF Keyed
<1>1. /\ Address[d] \in Nat /\ Address[e] \in Nat
      /\ Address[d] = Address[e] => d = e
  BY ConnectionAssumption
<1>2. mHandle[d] \in Nat /\ mHandle[e] \in Nat
  <2>1. AnyHandle \subseteq Nat
    BY ConnectionAssumption DEF AnyHandle, INVALID_HANDLE
  <2> QED
    BY <2>1
<1> QED
  BY <1>1, <1>2 DEF Aligned, Less

\* Two parts of a set put together.
LEMMA Parts ==
    ASSUME NEW set \in Seq(Devices), NEW b \in 0..Len(set), NEW c \in 0..Len(set)
    PROVE  /\ Len(set) \in Nat
           /\ SubSeq(set, 1, b) \in Seq(Devices) /\ Len(SubSeq(set, 1, b)) = b
           /\ \A m \in 1..b : SubSeq(set, 1, b)[m] = set[m]
           /\ SubSeq(set, c + 1, Len(set)) \in Seq(Devices)
           /\ Len(SubSeq(set, c + 1, Len(set))) = Len(set) - c
           /\ \A m \in 1..Len(set) - c : SubSeq(set, c + 1, Len(set))[m] = set[m + c]
<1>1. Len(set) \in Nat /\ \A m \in 1..Len(set) : set[m] \in Devices
  BY ElementOfSeq
<1>2. \A m \in 1..b : set[m] \in Devices
  BY <1>1
<1>3. /\ SubSeq(set, 1, b) \in Seq(Devices)
      /\ Len(SubSeq(set, 1, b)) = IF 1 <= b THEN b - 1 + 1 ELSE 0
      /\ \A m \in 1..b - 1 + 1 : SubSeq(set, 1, b)[m] = set[1 + m - 1]
  BY <1>1, <1>2, SubSeqProperties
<1>4. \A m \in c + 1..Len(set) : set[m] \in Devices
  BY <1>1
<1>5. /\ SubSeq(set, c + 1, Len(set)) \in Seq(Devices)
      /\ Len(SubSeq(set, c + 1, Len(set))) =
            IF c + 1 <= Len(set) THEN Len(set) - (c + 1) + 1 ELSE 0
      /\ \A m \in 1..Len(set) - (c + 1) + 1 :
            SubSeq(set, c + 1, Len(set))[m] = set[c + 1 + m - 1]
  BY <1>1, <1>4, SubSeqProperties
<1> QED
  BY <1>1, <1>3, <1>5

\* A sequence after another.
LEMMA Together ==
    ASSUME NEW s \in Seq(Devices), NEW t \in Seq(Devices)
    PROVE  /\ s \o t \in Seq(Devices) /\ Len(s \o t) = Len(s) + Len(t)
           /\ Len(s) \in Nat /\ Len(t) \in Nat
           /\ \A m \in 1..Len(s) : (s \o t)[m] = s[m]
           /\ \A m \in Len(s) + 1..Len(s) + Len(t) : (s \o t)[m] = t[m - Len(s)]
<1>1. Len(s) \in Nat /\ Len(t) \in Nat
  OBVIOUS
<1>2. s \o t \in Seq(Devices) /\ Len(s \o t) = Len(s) + Len(t)
  BY ConcatProperties
<1>3. \A m \in 1..Len(s) + Len(t) :
         (s \o t)[m] = IF m <= Len(s) THEN s[m] ELSE t[m - Len(s)]
  BY ConcatProperties
<1> QED
  BY <1>1, <1>2, <1>3

\* A set without its elements from b + 1 to c ...
Cut(set, b, c) == SubSeq(set, 1, b) \o SubSeq(set, c + 1, Len(set))

\* Its first b elements stay, the others come c - b places earlier.
LEMMA CutOut ==
    ASSUME NEW set \in Seq(Devices), NEW b \in 0..Len(set), NEW c \in 0..Len(set)
    PROVE  /\ Cut(set, b, c) \in Seq(Devices)
           /\ Len(Cut(set, b, c)) = b + (Len(set) - c)
           /\ \A m \in 1..b : Cut(set, b, c)[m] = set[m]
           /\ \A m \in b + 1..b + (Len(set) - c) : Cut(set, b, c)[m] = set[m - b + c]
<1> DEFINE low == SubSeq(set, 1, b)
           high == SubSeq(set, c + 1, Len(set))
<1>1. /\ Len(set) \in Nat
      /\ low \in Seq(Devices) /\ Len(low) = b
      /\ \A m \in 1..b : low[m] = set[m]
      /\ high \in Seq(Devices) /\ Len(high) = Len(set) - c
      /\ \A m \in 1..Len(set) - c : high[m] = set[m + c]
  BY Parts
<1>2. Cut(set, b, c) = low \o high
  BY DEF Cut
<1> HIDE DEF low, high
<1>3. /\ low \o high \in Seq(Devices) /\ Len(low \o high) = Len(low) + Len(high)
      /\ \A m \in 1..Len(low) : (low \o high)[m] = low[m]
      /\ \A m \in Len(low) + 1..Len(low) + Len(high) : (low \o high)[m] = high[m - Len(low)]
  BY <1>1, Together
<1>4. ASSUME NEW m \in b + 1..b + (Len(set) - c)
      PROVE  (low \o high)[m] = set[m - b + c]
  <2>1. m - b \in 1..Len(set) - c /\ m \in Len(low) + 1..Len(low) + Len(high)
    BY <1>1
  <2> QED
    BY <1>1, <1>3, <2>1
<1> QED
  BY <1>1, <1>2, <1>3, <1>4

\* ... and with one more after its first g.
Put(set, g, x) == SubSeq(set, 1, g) \o <<x>> \o SubSeq(set, g + 1, Len(set))

\* Its first g elements stay, the others come one place later.
LEMMA PutIn ==
    ASSUME NEW set \in Seq(Devices), NEW g \in 0..Len(set), NEW x \in Devices
    PROVE  /\ Put(set, g, x) \in Seq(Devices) /\ Len(Put(set, g, x)) = Len(set) + 1
           /\ Put(set, g, x)[g + 1] = x
           /\ \A m \in 1..g : Put(set, g, x)[m] = set[m]
           /\ \A m \in g + 2..Len(set) + 1 : Put(set, g, x)[m] = set[m - 1]
<1> DEFINE low == SubSeq(set, 1, g)
           mid == <<x>>
           high == SubSeq(set, g + 1, Len(set))
<1>1. /\ Len(set) \in Nat
      /\ low \in Seq(Devices) /\ Len(low) = g
      /\ \A m \in 1..g : low[m] = set[m]
      /\ high \in Seq(Devices) /\ Len(high) = Len(set) - g
      /\ \A m \in 1..Len(set) - g : high[m] = set[m + g]
  BY Parts
<1>2. mid \in Seq(Devices) /\ Len(mid) = 1 /\ mid[1] = x
  OBVIOUS
<1>3. Put(set, g, x) = (low \o mid) \o high
  BY DEF Put
<1> HIDE DEF low, mid, high
<1> DEFINE both == low \o mid
<1>4. /\ both \in Seq(Devices) /\ Len(both) = g + 1
      /\ \A m \in 1..g : both[m] = set[m]
      /\ both[g + 1] = x
  <2>1. /\ both \in Seq(Devices) /\ Len(both) = Len(low) + Len(mid)
        /\ \A m \in 1..Len(low) : both[m] = low[m]
        /\ \A m \in Len(low) + 1..Len(low) + Len(mid) : both[m] = mid[m - Len(low)]
    BY <1>1, <1>2, Together
  <2> HIDE DEF both
  <2> QED
    BY <1>1, <1>2, <2>1
<1> HIDE DEF both
<1>5. /\ both \o high \in Seq(Devices) /\ Len(both \o high) = Len(both) + Len(high)
      /\ \A m \in 1..Len(both) : (both \o high)[m] = both[m]
      /\ \A m \in Len(both) + 1..Len(both) + Len(high) :
            (both \o high)[m] = high[m - Len(both)]
  BY <1>1, <1>4, Together
<1>6. ASSUME NEW m \in g + 2..Len(set) + 1
      PROVE  (both \o high)[m] = set[m - 1]
  <2>1. m - (g + 1) \in 1..Len(set) - g /\ m \in Len(both) + 1..Len(both) + Len(high)
    BY <1>1, <1>4
  <2>2. (both \o high)[m] = high[m - (g + 1)] /\ high[m - (g + 1)] = set[m - (g + 1) + g]
    BY <1>1, <1>4, <1>5, <2>1
  <2> QED
    BY <1>1, <2>2
<1>7. \A m \in 1..g + 1 : (both \o high)[m] = both[m]
  BY <1>4, <1>5
<1> QED
  BY <1>1, <1>3, <1>4, <1>5, <1>6, <1>7 DEF both

\* Whatever the keys, what is erased from a set or inserted in it leaves devices.
LEMMA SetTypes ==
    ASSUME NEW set \in Seq(Devices), NEW x \in Devices
    PROVE  Erased(set, x) \cup Inserted(set, x) \subseteq Seq(Devices)
<1>1. Len(set) \in Nat
  OBVIOUS
<1>2. ASSUME NEW s \in Erased(set, x)
      PROVE  s \in Seq(Devices)
  <2>1. PICK b \in LowerBounds(set, x) \X UpperBounds(set, x) :
           s = SubSeq(set, 1, b[1]) \o SubSeq(set, b[2] + 1, Len(set))
    BY <1>2 DEF Erased
  <2>2. b[1] \in 0..Len(set) /\ b[2] \in 0..Len(set)
    BY DEF LowerBounds, UpperBounds
  <2> QED
    BY <2>1, <2>2, CutOut DEF Cut
<1>3. ASSUME NEW s \in Inserted(set, x)
      PROVE  s \in Seq(Devices)
  <2>1. PICK g \in UpperBounds(set, x) :
           s \in {set, SubSeq(set, 1, g) \o <<x>> \o SubSeq(set, g + 1, Len(set))}
    BY <1>3 DEF Inserted
  <2>2. g \in 0..Len(set)
    BY DEF UpperBounds
  <2> QED
    BY <2>1, <2>2, PutIn DEF Put
<1> QED
  BY <1>2, <1>3

\* While the keys keep the order, an element that is erased is found and is the
\* only one to go ...
LEMMA ErasedOne ==
    ASSUME Keyed, NEW set \in Seq(Devices), InOrder(set), NEW x \in Elements(set),
           NEW s \in Erased(set, x)
    PROVE  InOrder(s) /\ Elements(s) = Elements(set) \ {x}
<1>1. PICK n \in Nat : n = Len(set)
  OBVIOUS
<1>2. PICK k \in 1..n : set[k] = x
  BY <1>1 DEF Elements
<1>3. \A m \in 1..n : set[m] \in Devices /\ Address[set[m]] \in Nat
  BY <1>1, ElementOfSeq, ConnectionAssumption
<1>4. \A l, m \in 1..n : l < m => Address[set[l]] < Address[set[m]]
  BY <1>1 DEF InOrder
<1>5. \A m \in 1..n : /\ Less(set[m], x) <=> m < k
                      /\ Less(x, set[m]) <=> k < m
  <2> SUFFICES ASSUME NEW m \in 1..n
               PROVE  /\ Less(set[m], x) <=> m < k
                      /\ Less(x, set[m]) <=> k < m
    OBVIOUS
  <2>1. /\ Less(set[m], x) <=> Address[set[m]] < Address[set[k]]
        /\ Less(x, set[m]) <=> Address[set[k]] < Address[set[m]]
    BY <1>2, <1>3 DEF Keyed
  <2>2. m < k \/ m = k \/ k < m
    OBVIOUS
  <2> QED
    BY <1>3, <1>4, <2>1, <2>2
<1>6. LowerBounds(set, x) \subseteq {k - 1} /\ UpperBounds(set, x) \subseteq {k}
  <2>1. ASSUME NEW g \in LowerBounds(set, x)
        PROVE  g = k - 1
    <3>1. /\ g \in 0..n /\ (g > 0 => Less(set[g], x))
          /\ g < n => ~Less(set[g + 1], x)
      BY <1>1 DEF LowerBounds
    <3>2. g > 0 => g < k
      BY <1>5, <3>1
    <3>3. g < n => ~(g + 1 < k)
      <4>1. g < n => g + 1 \in 1..n
        BY <3>1
      <4> QED
        BY <1>5, <3>1, <4>1
    <3> QED
      BY <3>1, <3>2, <3>3
  <2>2. ASSUME NEW g \in UpperBounds(set, x)
        PROVE  g = k
    <3>1. /\ g \in 0..n /\ (g > 0 => ~Less(x, set[g]))
          /\ g < n => Less(x, set[g + 1])
      BY <1>1 DEF UpperBounds
    <3>2. g > 0 => ~(k < g)
      BY <1>5, <3>1
    <3>3. g < n => k < g + 1
      <4>1. g < n => g + 1 \in 1..n
        BY <3>1
      <4> QED
        BY <1>5, <3>1, <4>1
    <3> QED
      BY <3>1, <3>2, <3>3
  <2> QED
    BY <2>1, <2>2
<1>7. s = Cut(set, k - 1, k)
  <2>1. PICK b \in LowerBounds(set, x) \X UpperBounds(set, x) :
           s = SubSeq(set, 1, b[1]) \o SubSeq(set, b[2] + 1, Len(set))
    BY DEF Erased
  <2>2. b[1] = k - 1 /\ b[2] = k
    BY <1>6
  <2> QED
    BY <2>1, <2>2 DEF Cut
<1>8. /\ Len(s) = n - 1
      /\ \A m \in 1..n - 1 : /\ m < k => s[m] = set[m]
                             /\ m >= k => s[m] = set[m + 1]
  <2>1. k - 1 \in 0..Len(set) /\ k \in 0..Len(set)
    BY <1>1
  <2>2. /\ Len(s) = k - 1 + (Len(set) - k)
        /\ \A m \in 1..k - 1 : s[m] = set[m]
        /\ \A m \in k - 1 + 1..k - 1 + (Len(set) - k) : s[m] = set[m - (k - 1) + k]
    BY <1>7, <2>1, CutOut
  <2>3. ASSUME NEW m \in 1..n - 1
        PROVE  (m < k => s[m] = set[m]) /\ (m >= k => s[m] = set[m + 1])
    <3>1. CASE m < k
      BY <2>2, <3>1
    <3>2. CASE m >= k
      <4>1. m \in k - 1 + 1..k - 1 + (Len(set) - k) /\ m - (k - 1) + k = m + 1
        BY <1>1, <3>2
      <4> QED
        BY <2>2, <3>2, <4>1
    <3> QED
      BY <3>1, <3>2
  <2> QED
    BY <1>1, <2>2, <2>3
<1>9. InOrder(s)
  BY <1>4, <1>8 DEF InOrder
<1>10. \A l \in 1..n : set[l] = x => l = k
  BY <1>2, <1>3, <1>4
<1>11. ASSUME NEW y \in Elements(s)
       PROVE  y \in Elements(set) \ {x}
  <2>1. PICK m \in 1..n - 1 : s[m] = y
    BY <1>8 DEF Elements
  <2>2. \E l \in 1..n : l # k /\ set[l] = y
    <3>1. CASE m < k
      BY <1>8, <2>1, <3>1
    <3>2. CASE m >= k
      <4>1. m + 1 \in 1..n /\ m + 1 # k /\ set[m + 1] = y
        BY <1>8, <2>1, <3>2
      <4> QED
        BY <4>1
    <3> QED
      BY <3>1, <3>2
  <2> QED
    BY <1>1, <1>10, <2>2 DEF Elements
<1>12. ASSUME NEW y \in Elements(set), y # x
       PROVE  y \in Elements(s)
  <2>1. PICK l \in 1..n : set[l] = y
    BY <1>1 DEF Elements
  <2>2. l # k
    BY <1>2, <1>12, <2>1
  <2>3. \E m \in 1..n - 1 : s[m] = y
    <3>1. CASE l < k
      BY <1>8, <2>1, <3>1
    <3>2. CASE l > k
      <4>1. l - 1 \in 1..n - 1 /\ l - 1 >= k /\ l - 1 + 1 = l
        BY <3>2
      <4>2. s[l - 1] = y
        BY <1>8, <2>1, <4>1
      <4> QED
        BY <4>1, <4>2
    <3> QED
      BY <2>2, <3>1, <3>2
  <2> QED
    BY <1>8, <2>3 DEF Elements
<1> QED
  BY <1>9, <1>11, <1>12

\* ... and one that is inserted is there, once.
LEMMA InsertedOne ==
    ASSUME Keyed, NEW set \in Seq(Devices), InOrder(set), NEW x \in Devices,
           NEW s \in Inserted(set, x)
    PROVE  InOrder(s) /\ Elements(s) = Elements(set) \cup {x}
<1>1. PICK n \in Nat : n = Len(set)
  OBVIOUS
<1>2. PICK g \in UpperBounds(set, x) :
         s = IF g = 0 \/ Less(set[g], x)
               THEN Put(set, g, x) ELSE set
  BY DEF Inserted, Put
<1>3. \A m \in 1..n : set[m] \in Devices /\ Address[set[m]] \in Nat
  BY <1>1, ElementOfSeq, ConnectionAssumption
<1>4. \A l, m \in 1..n : l < m => Address[set[l]] < Address[set[m]]
  BY <1>1 DEF InOrder
<1>5. /\ g \in 0..n /\ (g > 0 => ~Less(x, set[g]))
      /\ g < n => Less(x, set[g + 1])
  BY <1>1 DEF UpperBounds
<1>6. CASE ~(g = 0 \/ Less(set[g], x))
  <2>1. g \in 1..n /\ ~Less(set[g], x) /\ ~Less(x, set[g])
    BY <1>5, <1>6
  <2>2. ~(Address[set[g]] < Address[x]) /\ ~(Address[x] < Address[set[g]])
    BY <1>3, <2>1 DEF Keyed
  <2>3. set[g] = x
    BY <1>3, <2>1, <2>2, ConnectionAssumption
  <2> QED
    BY <1>1, <1>2, <1>6, <2>1, <2>3 DEF Elements
<1>7. CASE g = 0 \/ Less(set[g], x)
  <2>1. /\ Len(s) = n + 1 /\ s[g + 1] = x
        /\ \A m \in 1..g : s[m] = set[m]
        /\ \A m \in g + 2..n + 1 : s[m] = set[m - 1]
    BY <1>1, <1>2, <1>5, <1>7, PutIn
  <2>2. Address[x] \in Nat
    BY ConnectionAssumption
  <2>3. \A m \in 1..g : Address[set[m]] < Address[x]
    <3> SUFFICES ASSUME NEW m \in 1..g PROVE Address[set[m]] < Address[x]
      OBVIOUS
    <3>1. g \in 1..n /\ m \in 1..n /\ Less(set[g], x)
      BY <1>5, <1>7
    <3>2. Address[set[g]] < Address[x]
      BY <1>3, <3>1 DEF Keyed
    <3>3. m < g \/ m = g
      BY <1>5
    <3> QED
      BY <1>3, <1>4, <2>2, <3>1, <3>2, <3>3
  <2>4. \A m \in g + 1..n : Address[x] < Address[set[m]]
    <3> SUFFICES ASSUME NEW m \in g + 1..n PROVE Address[x] < Address[set[m]]
      OBVIOUS
    <3>1. g + 1 \in 1..n /\ m \in 1..n /\ Less(x, set[g + 1])
      BY <1>5
    <3>2. Address[x] < Address[set[g + 1]]
      BY <1>3, <3>1 DEF Keyed
    <3>3. g + 1 < m \/ m = g + 1
      BY <1>5
    <3> QED
      BY <1>3, <1>4, <2>2, <3>1, <3>2, <3>3
  <2>5. \A m \in 1..n + 1 :
           \/ m \in 1..g /\ s[m] = set[m]
           \/ m = g + 1 /\ s[m] = x
           \/ m > g + 1 /\ m - 1 \in g + 1..n /\ s[m] = set[m - 1]
    <3> SUFFICES ASSUME NEW m \in 1..n + 1, m > g + 1
                 PROVE  m - 1 \in g + 1..n /\ s[m] = set[m - 1]
      BY <1>5, <2>1
    <3>1. m - 1 \in g + 1..n /\ m \in g + 2..n + 1
      BY <1>5
    <3> QED
      BY <2>1, <3>1
  <2>6. InOrder(s)
    <3> SUFFICES ASSUME NEW l \in 1..n + 1, NEW m \in 1..n + 1, l < m
                 PROVE  Address[s[l]] < Address[s[m]]
      BY <2>1 DEF InOrder
    <3>1. CASE l \in 1..g
      <4>1. s[l] = set[l] /\ l \in 1..n /\ Address[set[l]] < Address[x]
        BY <1>5, <2>1, <2>3, <3>1
      <4>2. CASE m > g + 1
        <5>1. m - 1 \in 1..n /\ s[m] = set[m - 1] /\ l < m - 1
          BY <1>5, <2>5, <3>1, <4>2
        <5> QED
          BY <1>4, <4>1, <5>1
      <4>3. CASE m = g + 1
        BY <2>1, <4>1, <4>3
      <4>4. CASE m \in 1..g
        <5>1. s[m] = set[m] /\ m \in 1..n
          BY <1>5, <2>1, <4>4
        <5> QED
          BY <1>4, <4>1, <5>1
      <4> QED
        BY <1>5, <4>2, <4>3, <4>4
    <3>2. CASE l = g + 1
      <4>1. m - 1 \in g + 1..n /\ s[m] = set[m - 1]
        BY <1>5, <2>5, <3>2
      <4> QED
        BY <2>1, <2>4, <3>2, <4>1
    <3>3. CASE l > g + 1
      <4>1. /\ l - 1 \in g + 1..n /\ s[l] = set[l - 1]
            /\ m - 1 \in g + 1..n /\ s[m] = set[m - 1]
        BY <1>5, <2>5, <3>3
      <4>2. l - 1 \in 1..n /\ m - 1 \in 1..n /\ l - 1 < m - 1
        BY <1>5, <4>1
      <4> QED
        BY <1>4, <4>1, <4>2
    <3> QED
      BY <1>5, <3>1, <3>2, <3>3
  <2>7. ASSUME NEW y \in Elements(s)
        PROVE  y \in Elements(set) \cup {x}
    <3>1. PICK m \in 1..n + 1 : s[m] = y
      BY <2>1 DEF Elements
    <3>2. y = x \/ \E l \in 1..n : set[l] = y
      <4>1. CASE m \in 1..g
        BY <1>5, <2>1, <3>1, <4>1
      <4>2. CASE m = g + 1
        BY <2>1, <3>1, <4>2
      <4>3. CASE m > g + 1
        <5>1. m - 1 \in 1..n /\ s[m] = set[m - 1]
          BY <1>5, <2>5, <4>3
        <5> QED
          BY <3>1, <5>1
      <4> QED
        BY <1>5, <4>1, <4>2, <4>3
    <3> QED
      BY <1>1, <3>2 DEF Elements
  <2>8. x \in Elements(s)
    <3>1. g + 1 \in 1..n + 1
      BY <1>5
    <3> QED
      BY <2>1, <3>1 DEF Elements
  <2>9. ASSUME NEW y \in Elements(set)
        PROVE  y \in Elements(s)
    <3>1. PICK l \in 1..n : set[l] = y
      BY <1>1 DEF Elements
    <3>2. \E m \in 1..n + 1 : s[m] = y
      <4>1. CASE l \in 1..g
        BY <1>5, <2>1, <3>1, <4>1
      <4>2. CASE l \in g + 1..n
        <5>1. l + 1 \in 1..n + 1 /\ l + 1 \in g + 2..n + 1 /\ l + 1 - 1 = l
          BY <1>5, <4>2
        <5> QED
          BY <2>1, <3>1, <5>1
      <4> QED
        BY <1>5, <4>1, <4>2
    <3> QED
      BY <2>1, <3>2 DEF Elements
  <2> QED
    BY <2>6, <2>7, <2>8, <2>9
<1> QED
  BY <1>6, <1>7
-----------------------------------------------------------------------------
(* Types. *)

\* What a search of a list finds.
LEMMA Searches ==
    ASSUME RemoteOK, NEW list \in Seq(Ids), Elements(list) \subseteq DOMAIN remote
    PROVE  /\ \A d : /\ OfAddr(list, d) \in Seq(Ids)
                     /\ Elements(OfAddr(list, d)) =
                           {i \in Elements(list) : remote[i].addr = d}
                     /\ NotOfAddr(list, d) \in Seq(Ids)
                     /\ Elements(NotOfAddr(list, d)) =
                           {i \in Elements(list) : remote[i].addr # d}
           /\ \A h : /\ AtHandle(list, h) \in Seq(Ids)
                     /\ Elements(AtHandle(list, h)) =
                           {i \in Elements(list) : remote[i].handle = h}
                     /\ NotAtHandle(list, h) \in Seq(Ids)
                     /\ Elements(NotAtHandle(list, h)) =
                           {i \in Elements(list) : remote[i].handle # h}
           /\ \A x : LET rest == Kept[<<list, DOMAIN remote \ {x}>>]
                    IN  rest \in Seq(Ids) /\ Elements(rest) = Elements(list) \ {x}
<1>1. DOMAIN remote \subseteq Ids
  BY ConnectionAssumption DEF RemoteOK, Ids
<1>2. ASSUME NEW d
      PROVE  /\ OfAddr(list, d) \in Seq(Ids)
             /\ Elements(OfAddr(list, d)) = {i \in Elements(list) : remote[i].addr = d}
             /\ NotOfAddr(list, d) \in Seq(Ids)
             /\ Elements(NotOfAddr(list, d)) = {i \in Elements(list) : remote[i].addr # d}
  <2> DEFINE S == {i \in DOMAIN remote : remote[i].addr = d}
             T == {i \in DOMAIN remote : remote[i].addr # d}
  <2>1. S \in SUBSET Ids /\ T \in SUBSET Ids
    BY <1>1
  <2>2. OfAddr(list, d) = Kept[<<list, S>>] /\ NotOfAddr(list, d) = Kept[<<list, T>>]
    BY DEF OfAddr, NotOfAddr
  <2>3. /\ Elements(list) \cap S = {i \in Elements(list) : remote[i].addr = d}
        /\ Elements(list) \cap T = {i \in Elements(list) : remote[i].addr # d}
    OBVIOUS
  <2> HIDE DEF S, T
  <2> QED
    BY <2>1, <2>2, <2>3, KeptElements
<1>3. ASSUME NEW h
      PROVE  /\ AtHandle(list, h) \in Seq(Ids)
             /\ Elements(AtHandle(list, h)) = {i \in Elements(list) : remote[i].handle = h}
             /\ NotAtHandle(list, h) \in Seq(Ids)
             /\ Elements(NotAtHandle(list, h)) = {i \in Elements(list) : remote[i].handle # h}
  <2> DEFINE S == {i \in DOMAIN remote : remote[i].handle = h}
             T == {i \in DOMAIN remote : remote[i].handle # h}
  <2>1. S \in SUBSET Ids /\ T \in SUBSET Ids
    BY <1>1
  <2>2. AtHandle(list, h) = Kept[<<list, S>>] /\ NotAtHandle(list, h) = Kept[<<list, T>>]
    BY DEF AtHandle, NotAtHandle
  <2>3. /\ Elements(list) \cap S = {i \in Elements(list) : remote[i].handle = h}
        /\ Elements(list) \cap T = {i \in Elements(list) : remote[i].handle # h}
    OBVIOUS
  <2> HIDE DEF S, T
  <2> QED
    BY <2>1, <2>2, <2>3, KeptElements
<1>4. ASSUME NEW x
      PROVE  /\ Kept[<<list, DOMAIN remote \ {x}>>] \in Seq(Ids)
             /\ Elements(Kept[<<list, DOMAIN remote \ {x}>>]) = Elements(list) \ {x}
  <2> DEFINE S == DOMAIN remote \ {x}
  <2>1. S \in SUBSET Ids /\ Elements(list) \cap S = Elements(list) \ {x}
    BY <1>1
  <2> HIDE DEF S
  <2> QED
    BY <2>1, KeptElements DEF S
<1> QED
  BY <1>2, <1>3, <1>4

\* The initial state has its types.
LEMMA DataInit == Init => DataOK
<1> SUFFICES ASSUME Init PROVE DataOK
  OBVIOUS
<1> USE ConnectionAssumption
<1>1. DeviceOK
  <2>1. Cardinality(Devices) \in Nat
    BY FS_CardinalityType
  <2>2. <<>> \in Seq(Devices) /\ mDisconnDevices \in Seq(Devices)
    <3>1. PICK n \in Nat : n = Cardinality(Devices)
      BY <2>1
    <3>2. mDisconnDevices \in [1..n -> Devices]
      BY <3>1 DEF Init
    <3> QED
      BY <3>2, SeqDef
  <2> QED
    BY <2>2 DEF Init, DeviceOK, Statuses, AnyHandle
<1>2. ClientOK
  BY DEF Init, ClientOK, Call, NoCall, AnyHandle
<1>3. RemoteOK
  BY DEF Init, RemoteOK
<1>4. ListOK
  BY DEF Init, ListOK, Elements
<1>5. EventOK
  BY DEF Init, EventOK, Busy, NoEvent, AnyHandle, NULL
<1>6. DongleOK
  BY DEF Init, DongleOK
<1>7. BudgetOK
  <2>1. PICK bound \in Budgets :
           budget = [b \in Deeds |-> [left |-> bound[b], done |-> FALSE]]
    BY DEF Init
  <2>2. bound \in [Deeds -> Nat]
    OBVIOUS
  <2> QED
    BY <2>1, <2>2 DEF BudgetOK
<1> QED
  BY <1>1, <1>2, <1>3, <1>4, <1>5, <1>6, <1>7 DEF DataOK

\* Spending keeps the budget a budget, and what was done stays done.
LEMMA Spending ==
    ASSUME BudgetOK, NEW b \in Deeds, Spend(b)
    PROVE  BudgetOK' /\ ~Never(b)' /\ \A x \in Deeds : Never(x)' => Never(x)
<1>1. /\ budget[b].left \in Nat /\ budget[b].left > 0
      /\ budget' = [budget EXCEPT ![b] = [left |-> budget[b].left - 1, done |-> TRUE]]
  BY DEF Spend, BudgetOK
<1>2. [left |-> budget[b].left - 1, done |-> TRUE] \in [left : Nat, done : BOOLEAN]
  BY <1>1
<1>3. BudgetOK'
  BY <1>1, <1>2 DEF BudgetOK
<1>4. budget'[b].done = TRUE /\ \A x \in Deeds : x # b => budget'[x] = budget[x]
  BY <1>1 DEF BudgetOK
<1> QED
  BY <1>3, <1>4 DEF Never

\* No step takes a deed back.
LEMMA DoneStaysDone ==
    ASSUME BudgetOK, [Next]_vars
    PROVE  BudgetOK' /\ \A b \in Deeds : Never(b)' => Never(b)
<1>1. CASE UNCHANGED budget
  BY <1>1 DEF BudgetOK, Never
<1>2. ASSUME NEW b \in Deeds, Spend(b)
      PROVE  BudgetOK' /\ \A x \in Deeds : Never(x)' => Never(x)
  BY <1>2, Spending
<1>3. \A b \in {"disconnect", "loss", "early", "cancel", "again", "slow", "reuse"} : b \in Deeds
  BY DEF Deeds
<1>4. CASE UNCHANGED vars
  BY <1>4, <1>1 DEF vars
<1>5. ASSUME NEW h \in Handles, LinkUp(h) \/ LinkLost(h)
      PROVE  UNCHANGED budget \/ \E b \in Deeds : Spend(b)
  BY <1>5, <1>3 DEF LinkUp, LinkLost
<1>6. ASSUME NEW c \in Clients, NEW d \in Devices,
             ConnectCall(c, d) \/ DisconnectCall(c, d) \/ CancelCall(c, d)
      PROVE  UNCHANGED budget \/ \E b \in Deeds : Spend(b)
  BY <1>6, <1>3 DEF ConnectCall, DisconnectCall, CancelCall
<1>7. ASSUME NEW c \in Clients, Succeed(c)
      PROVE  UNCHANGED budget \/ \E b \in Deeds : Spend(b)
  BY <1>7, <1>3 DEF Succeed
<1>8. ASSUME NEW c \in Clients, Request(c) \/ WriteStatus(c)
      PROVE  UNCHANGED budget \/ \E b \in Deeds : Spend(b)
  BY <1>7, <1>8 DEF Request, WriteStatus, Connect, CancelConnect, DisconnectUnknown,
                    DisconnectBegin, DisconnectEnd
<1>9. CASE EventStep
  BY <1>9, <1>1 DEF EventStep, OnConnectEvent, OnConnectError, LinkTerminated,
                    LinkTerminatedAsAsked, LinkTerminatedUnknown, HubDisconnected,
                    DeviceDisconnected
<1>10. ASSUME NEW i \in DOMAIN remote, DeviceStep(i)
       PROVE  UNCHANGED budget
  BY <1>10 DEF DeviceStep, TakeHandle, Discovered, HubConnected, DeviceSetHandle,
               DeviceSetConnected
<1> QED
  BY <1>1, <1>2, <1>4, <1>5, <1>6, <1>8, <1>9, <1>10 DEF Next

\* A client that is given something sound to do.
LEMMA ClientSet ==
    ASSUME ClientOK, NEW c \in Clients, NEW call \in Call,
           client' = [client EXCEPT ![c] = call],
           call.pc # "idle" => call.dev \in Devices,
           call.op = "disconnect" => call.handle \in Handles,
           call.pc = "join" => call.op = "disconnect"
    PROVE  ClientOK'
<1>1. client' \in [Clients -> Call]
  BY DEF ClientOK
<1>2. \A b \in Clients : client'[b] = IF b = c THEN call ELSE client[b]
  BY DEF ClientOK
<1> QED
  BY <1>1, <1>2 DEF ClientOK

\* The end of a request.
LEMMA Succeeded ==
    ASSUME DeviceOK, ClientOK, NEW c \in Clients, client[c].pc \in {"queued", "join"},
           Succeed(c)
    PROVE  ClientOK' /\ mCnntStatus' \in [Devices -> Statuses]
<1>1. client[c] \in Call /\ client[c].dev \in Devices
  BY DEF ClientOK
<1>2. NoCall \in Call /\ NoCall.pc = "idle" /\ NoCall.op = "none"
  BY DEF NoCall, Call, AnyHandle
<1>3. CASE client' = [client EXCEPT ![c].pc = "write"] /\ UNCHANGED mCnntStatus
  <2> DEFINE call == [client[c] EXCEPT !.pc = "write"]
  <2>1. client' = [client EXCEPT ![c] = call]
    BY <1>3
  <2>2. call \in Call /\ call.pc = "write" /\ call.dev = client[c].dev
        /\ call.op = client[c].op /\ call.handle = client[c].handle
    BY <1>1 DEF Call
  <2>3. call.op = "disconnect" => call.handle \in Handles
    BY <2>2 DEF ClientOK
  <2> HIDE DEF call
  <2>4. ClientOK'
    BY <1>1, <2>1, <2>2, <2>3, ClientSet
  <2> QED
    BY <1>3, <2>4 DEF DeviceOK
<1>4. CASE /\ client' = [client EXCEPT ![c] = NoCall]
           /\ mCnntStatus' = [mCnntStatus EXCEPT
                                 ![client[c].dev] = StatusAfter(client[c].op)]
  <2>1. ClientOK'
    BY <1>2, <1>4, ClientSet
  <2>2. StatusAfter(client[c].op) \in Statuses
    BY DEF StatusAfter, Statuses
  <2>3. mCnntStatus' \in [Devices -> Statuses]
    BY <1>1, <1>4, <2>2 DEF DeviceOK
  <2> QED
    BY <2>1, <2>3
<1> QED
  BY <1>3, <1>4 DEF Succeed

\* One more event, or one fewer.
LEMMA EventAdded ==
    ASSUME DongleOK, NEW e \in Message, events' = Append(events, e),
           e.kind = "up" => e.addr \in Devices,
           e.kind \in {"up", "down"} => e.handle \in Handles
    PROVE  /\ events' \in Seq(Message)
           /\ \A k \in 1..Len(events') :
                 /\ events'[k].kind = "up" => events'[k].addr \in Devices
                 /\ events'[k].kind \in {"up", "down"} => events'[k].handle \in Handles
<1>1. events \in Seq(Message) /\ Len(events) \in Nat
  BY DEF DongleOK
<1>2. /\ events' \in Seq(Message) /\ Len(events') = Len(events) + 1
      /\ events'[Len(events) + 1] = e
      /\ \A k \in 1..Len(events) : events'[k] = events[k]
  BY <1>1
<1>3. \A k \in 1..Len(events') : k \in 1..Len(events) \/ k = Len(events) + 1
  BY <1>1, <1>2
<1> QED
  BY <1>2, <1>3 DEF DongleOK

\* One event fewer: the others move up.
LEMMA EventTaken ==
    ASSUME DongleOK, NEW kind, Take(kind)
    PROVE  /\ DongleOK' /\ Len(events) \in Nat \ {0} /\ Head(events) = events[1]
           /\ events[1] \in Message /\ 1 \in 1..Len(events) /\ events[1].kind = kind
           /\ Len(events') = Len(events) - 1
           /\ \A k \in 1..Len(events') :
                 k + 1 \in 1..Len(events) /\ events'[k] = events[k + 1]
           /\ \A k \in 1..Len(events) :
                 k # 1 => k - 1 \in 1..Len(events') /\ events'[k - 1] = events[k]
<1>1. events \in Seq(Message) /\ events # <<>> /\ events' = Tail(events)
      /\ Head(events).kind = kind /\ UNCHANGED <<pending, links>>
  BY DEF DongleOK, Take
<1>2. /\ Len(events) \in Nat \ {0} /\ Head(events) = events[1] /\ 1 \in 1..Len(events)
      /\ events[1] \in Message /\ events' \in Seq(Message) /\ Len(events') = Len(events) - 1
      /\ \A k \in 1..Len(events') : events'[k] = events[k + 1]
  BY <1>1
<1>3. \A k \in 1..Len(events') : k + 1 \in 1..Len(events)
  BY <1>2
<1>4. \A k \in 1..Len(events) : k # 1 => k - 1 \in 1..Len(events') /\ (k - 1) + 1 = k
  BY <1>2
<1>5. DongleOK'
  <2>1. \A k \in 1..Len(events') :
           /\ events'[k].kind = "up" => events'[k].addr \in Devices
           /\ events'[k].kind \in {"up", "down"} => events'[k].handle \in Handles
    BY <1>2, <1>3 DEF DongleOK
  <2> QED
    BY <1>1, <1>2, <2>1 DEF DongleOK
<1> QED
  BY <1>1, <1>2, <1>3, <1>4, <1>5

\* The dongle's part keeps its types.
LEMMA LinkDropped ==
    ASSUME DongleOK, NEW h \in Handles, DropLink(h)
    PROVE  DongleOK'
<1> DEFINE e == [kind |-> "down", addr |-> NoDevice, handle |-> h]
<1>1. e \in Message /\ e.kind = "down" /\ e.handle = h
  BY DEF Message, AnyHandle
<1>2. events' = Append(events, e) /\ UNCHANGED pending
      /\ links' = [links EXCEPT ![h] = NoDevice]
  BY DEF DropLink
<1> HIDE DEF e
<1>3. links' \in [Handles -> Devices \cup {NoDevice}]
  BY <1>2 DEF DongleOK
<1> QED
  BY <1>1, <1>2, <1>3, EventAdded DEF DongleOK

\* So does GAP_TerminateLinkRequest ...
LEMMA LinkTerminatedOK ==
    ASSUME DongleOK, NEW h, TerminateLink(h)
    PROVE  DongleOK'
BY LinkDropped DEF TerminateLink, dongleVars, DongleOK

\* ... the same for the request under way ...
LEMMA RequestCancelledOK ==
    ASSUME DongleOK, CancelLinkRequest
    PROVE  DongleOK'
<1> DEFINE e == [kind |-> "upError", addr |-> NoDevice, handle |-> INVALID_HANDLE]
<1>1. e \in Message /\ e.kind = "upError"
  BY DEF Message, AnyHandle
<1>2. pending' = NoDevice /\ UNCHANGED links /\ (UNCHANGED events \/ events' = Append(events, e))
  BY DEF CancelLinkRequest
<1> HIDE DEF e
<1> QED
  BY <1>1, <1>2, EventAdded DEF DongleOK

\* ... and a link that comes up.
LEMMA LinkUpOK ==
    ASSUME DataOK, NEW h \in Handles, LinkUp(h)
    PROVE  DongleOK'
<1> DEFINE e == [kind |-> "up", addr |-> pending, handle |-> h]
<1>1. pending \in Devices
  BY DEF DataOK, DongleOK, LinkUp
<1>2. e \in Message /\ e.kind = "up" /\ e.handle = h /\ e.addr = pending
  BY <1>1 DEF Message, AnyHandle
<1>3. events' = Append(events, e) /\ pending' = NoDevice
      /\ links' = [links EXCEPT ![h] = pending]
  BY DEF LinkUp
<1> HIDE DEF e
<1>4. links' \in [Handles -> Devices \cup {NoDevice}]
  BY <1>1, <1>3 DEF DataOK, DongleOK
<1> QED
  BY <1>1, <1>2, <1>3, <1>4, EventAdded DEF DataOK, DongleOK

\* What leaves the RemoteDevices and the lists alone keeps their types.
LEMMA ObjectsKept ==
    ASSUME RemoteOK, ListOK, UNCHANGED <<listVars, remote>>
    PROVE  RemoteOK' /\ ListOK'
BY DEF RemoteOK, ListOK, listVars
-----------------------------------------------------------------------------
(* What the steps do to the RemoteDevices and the lists. *)

\* One of them is changed.
LEMMA OneChanged ==
    ASSUME RemoteOK, NEW i \in DOMAIN remote, NEW r \in RemoteDevice,
           remote' = [remote EXCEPT ![i] = r],
           r.thread \in Reporting => r.dev \in Devices
    PROVE  /\ RemoteOK' /\ DOMAIN remote' = DOMAIN remote
           /\ remote'[i] = r
           /\ \A j \in DOMAIN remote : j # i => remote'[j] = remote[j]
<1>1. remote \in Seq(RemoteDevice) /\ DOMAIN remote = 1..Len(remote) /\ Len(remote) \in Nat
  BY DEF RemoteOK
<1>2. remote' \in Seq(RemoteDevice) /\ Len(remote') = Len(remote)
  BY <1>1
<1>3. DOMAIN remote' = DOMAIN remote /\ remote'[i] = r
      /\ \A j \in DOMAIN remote : j # i => remote'[j] = remote[j]
  BY <1>1
<1> QED
  BY <1>2, <1>3 DEF RemoteOK

\* The thread of one of them moves on.
LEMMA ThreadMoved ==
    ASSUME RemoteOK, NEW i \in DOMAIN remote, NEW t \in Threads,
           remote' = [remote EXCEPT ![i].thread = t],
           t \in Reporting => remote[i].dev \in Devices
    PROVE  /\ RemoteOK' /\ DOMAIN remote' = DOMAIN remote
           /\ remote'[i].thread = t
           /\ \A j \in DOMAIN remote : /\ remote'[j].addr = remote[j].addr
                                       /\ remote'[j].handle = remote[j].handle
                                       /\ remote'[j].link = remote[j].link
                                       /\ remote'[j].dev = remote[j].dev
                                       /\ j # i => remote'[j] = remote[j]
<1> DEFINE r == [remote[i] EXCEPT !.thread = t]
<1>1. remote[i] \in RemoteDevice
  BY ElementOfSeq DEF RemoteOK
<1>2. r \in RemoteDevice /\ r.thread = t /\ r.addr = remote[i].addr
      /\ r.handle = remote[i].handle /\ r.link = remote[i].link /\ r.dev = remote[i].dev
  BY <1>1 DEF RemoteDevice
<1>3. remote' = [remote EXCEPT ![i] = r]
  OBVIOUS
<1> HIDE DEF r
<1> QED
  BY <1>2, <1>3, OneChanged

\* The lists stay sound while the RemoteDevices are the same ones.
LEMMA ListsKept ==
    ASSUME ListOK, DOMAIN remote' = DOMAIN remote, UNCHANGED listVars
    PROVE  ListOK'
BY DEF ListOK, listVars

\* The thread takes its handle.
LEMMA TakeHandleDoes ==
    ASSUME RemoteOK, NEW i \in DOMAIN remote, TakeHandle(i)
    PROVE  /\ RemoteOK' /\ DOMAIN remote' = DOMAIN remote
           /\ remote'[i].thread = "discovering" /\ remote'[i].handle = remote[i].link
           /\ \A j \in DOMAIN remote : /\ remote'[j].addr = remote[j].addr
                                       /\ remote'[j].link = remote[j].link
                                       /\ remote'[j].dev = remote[j].dev
                                       /\ j # i => remote'[j] = remote[j]
<1> DEFINE r == [remote[i] EXCEPT !.handle = remote[i].link, !.thread = "discovering"]
<1>1. remote[i] \in RemoteDevice
  BY ElementOfSeq DEF RemoteOK
<1>2. r \in RemoteDevice /\ r.thread = "discovering" /\ r.addr = remote[i].addr
      /\ r.handle = remote[i].link /\ r.link = remote[i].link /\ r.dev = remote[i].dev
  BY <1>1 DEF RemoteDevice, Threads
<1>3. remote' = [remote EXCEPT ![i] = r]
  BY DEF TakeHandle
<1> HIDE DEF r
<1>4. r.thread \notin Reporting
  BY <1>2 DEF Reporting
<1> QED
  BY <1>2, <1>3, <1>4, OneChanged

\* A discovered device is reported under the address of one at its handle.
LEMMA DiscoveredDoes ==
    ASSUME RemoteOK, ListOK, NEW i \in DOMAIN remote, Discovered(i)
    PROVE  /\ RemoteOK' /\ DOMAIN remote' = DOMAIN remote
           /\ \/ /\ remote'[i].thread = "connected"
                 /\ \A m \in Elements(mConnectedDevice) : remote[m].handle # remote[i].handle
              \/ /\ remote'[i].thread = "report"
                 /\ \E m \in Elements(mConnectedDevice) :
                       /\ remote[m].handle = remote[i].handle
                       /\ remote'[i].dev = remote[m].addr
           /\ \A j \in DOMAIN remote : /\ remote'[j].addr = remote[j].addr
                                       /\ remote'[j].handle = remote[j].handle
                                       /\ remote'[j].link = remote[j].link
                                       /\ j # i => remote'[j] = remote[j]
<1> DEFINE mine == AtHandle(mConnectedDevice, remote[i].handle)
<1>1. remote[i] \in RemoteDevice
  BY ElementOfSeq DEF RemoteOK
<1>2. mine \in Seq(Ids) /\ Elements(mine) = {m \in Elements(mConnectedDevice) :
                                               remote[m].handle = remote[i].handle}
  BY Searches DEF ListOK
<1>3. remote' = [remote EXCEPT ![i] = IF mine = <<>>
                          THEN [remote[i] EXCEPT !.thread = "connected"]
                          ELSE [remote[i] EXCEPT !.thread = "report",
                                         !.dev = remote[Head(mine)].addr]]
  BY DEF Discovered
<1> HIDE DEF mine
<1>4. CASE mine = <<>>
  <2>1. remote' = [remote EXCEPT ![i].thread = "connected"]
    BY <1>3, <1>4
  <2>2. "connected" \in Threads /\ "connected" \notin Reporting
    BY DEF Threads, Reporting
  <2>3. \A m \in Elements(mConnectedDevice) : remote[m].handle # remote[i].handle
    <3>1. Elements(mine) = {}
      BY <1>2, <1>4, HeadIn
    <3> QED
      BY <1>2, <3>1
  <2> QED
    BY <2>1, <2>2, <2>3, ThreadMoved
<1>5. CASE mine # <<>>
  <2>1. Head(mine) \in Elements(mConnectedDevice) /\ remote[Head(mine)].handle = remote[i].handle
    BY <1>2, <1>5, HeadIn
  <2>2. remote[Head(mine)] \in RemoteDevice /\ remote[Head(mine)].addr \in Devices
    <3>1. Head(mine) \in 1..Len(remote)
      BY <2>1 DEF ListOK, RemoteOK
    <3>2. remote[Head(mine)] \in RemoteDevice
      BY <3>1, ElementOfSeq DEF RemoteOK
    <3> QED
      BY <3>2 DEF RemoteDevice
  <2> DEFINE r == [remote[i] EXCEPT !.thread = "report", !.dev = remote[Head(mine)].addr]
  <2>3. r \in RemoteDevice /\ r.thread = "report" /\ r.addr = remote[i].addr
        /\ r.handle = remote[i].handle /\ r.link = remote[i].link
        /\ r.dev = remote[Head(mine)].addr
    BY <1>1, <2>2 DEF RemoteDevice, Threads
  <2>4. remote' = [remote EXCEPT ![i] = r]
    BY <1>3, <1>5
  <2> HIDE DEF r
  <2> QED
    BY <2>1, <2>2, <2>3, <2>4, OneChanged
<1> QED
  BY <1>4, <1>5

\* The threads of some of them are stopped.
LEMMA DeInitDoes ==
    ASSUME RemoteOK, NEW list, remote' = DeInit(list)
    PROVE  /\ RemoteOK' /\ DOMAIN remote' = DOMAIN remote
           /\ \A j \in DOMAIN remote :
                 /\ remote'[j].addr = remote[j].addr
                 /\ remote'[j].handle = remote[j].handle
                 /\ remote'[j].link = remote[j].link
                 /\ remote'[j].dev = remote[j].dev
                 /\ remote'[j].thread = IF j \in Elements(list) THEN "stopped"
                                                              ELSE remote[j].thread
<1>1. remote \in Seq(RemoteDevice) /\ DOMAIN remote = 1..Len(remote) /\ Len(remote) \in Nat
      /\ DOMAIN remote' = DOMAIN remote
  BY DEF RemoteOK, DeInit
<1>2. ASSUME NEW j \in DOMAIN remote
      PROVE  /\ remote'[j] \in RemoteDevice
             /\ remote'[j].addr = remote[j].addr
             /\ remote'[j].handle = remote[j].handle
             /\ remote'[j].link = remote[j].link
             /\ remote'[j].dev = remote[j].dev
             /\ remote'[j].thread = IF j \in Elements(list) THEN "stopped"
                                                          ELSE remote[j].thread
  <2>1. remote[j] \in RemoteDevice
    BY ElementOfSeq, <1>1
  <2>2. remote'[j] = IF j \in Elements(list) THEN [remote[j] EXCEPT !.thread = "stopped"]
                                             ELSE remote[j]
    BY DEF DeInit
  <2>3. CASE j \in Elements(list)
    <3>1. remote'[j] = [remote[j] EXCEPT !.thread = "stopped"]
      BY <2>2, <2>3
    <3> QED
      BY <3>1, <2>1, <2>3 DEF RemoteDevice, Threads
  <2>4. CASE j \notin Elements(list)
    BY <2>1, <2>2, <2>4
  <2> QED
    BY <2>3, <2>4
<1>3. remote' \in Seq(RemoteDevice) /\ Len(remote') = Len(remote)
  <2>1. remote' = [j \in 1..Len(remote) |-> remote'[j]]
    BY <1>1 DEF DeInit
  <2>2. remote' \in [1..Len(remote) -> RemoteDevice]
    BY <2>1, <1>1, <1>2
  <2> QED
    BY <2>2, <1>1, SeqDef
<1>4. \A j \in DOMAIN remote' : remote'[j].thread \in Reporting => remote'[j].dev \in Devices
  BY <1>1, <1>2 DEF RemoteOK, Reporting
<1> QED
  BY <1>1, <1>2, <1>3, <1>4 DEF RemoteOK

\* A connection is made: all that wait for the address of the event have its handle.
LEMMA OnConnectEventDoes ==
    ASSUME RemoteOK, ListOK, DongleOK, OnConnectEvent
    PROVE  LET a == events[1].addr
               h == events[1].handle
               mine == {i \in Elements(mConnectingDevice) : remote[i].addr = a}
           IN  /\ RemoteOK' /\ ListOK' /\ DOMAIN remote' = DOMAIN remote
               /\ \A j \in DOMAIN remote :
                     /\ remote'[j].addr = remote[j].addr
                     /\ remote'[j].handle = remote[j].handle
                     /\ remote'[j].dev = remote[j].dev
                     /\ remote'[j].thread = IF j \in mine THEN "setup" ELSE remote[j].thread
                     /\ remote'[j].link = IF j \in mine THEN h ELSE remote[j].link
               /\ Elements(mConnectingDevice') = Elements(mConnectingDevice) \ mine
               /\ Elements(mConnectedDevice') = mine \cup Elements(mConnectedDevice)
               /\ UNCHANGED <<mDisconnectingDevice, mCancelConnectingDevice>>
               /\ mIsConnecting' = (mIsConnecting /\ mine = {})
<1> DEFINE a == events[1].addr
           h == events[1].handle
           mine == {i \in Elements(mConnectingDevice) : remote[i].addr = a}
           found == OfAddr(mConnectingDevice, a)
<1>1. /\ Head(events) = events[1] /\ events[1] \in Message /\ 1 \in 1..Len(events)
      /\ events[1].kind = "up"
  BY EventTaken DEF OnConnectEvent
<1>2. h \in AnyHandle /\ a \in Devices
  BY <1>1 DEF Message, DongleOK
<1>3. /\ found \in Seq(Ids) /\ Elements(found) = mine
      /\ NotOfAddr(mConnectingDevice, a) \in Seq(Ids)
      /\ Elements(NotOfAddr(mConnectingDevice, a)) = Elements(mConnectingDevice) \ mine
  BY Searches DEF ListOK
<1>4. /\ remote' = [i \in DOMAIN remote |->
                           IF i \in Elements(found)
                             THEN [remote[i] EXCEPT !.thread = "setup", !.link = h]
                             ELSE remote[i]]
      /\ mConnectedDevice' = Backwards(found) \o mConnectedDevice
      /\ mConnectingDevice' = NotOfAddr(mConnectingDevice, a)
      /\ mIsConnecting' = (mIsConnecting /\ found = <<>>)
      /\ UNCHANGED <<mDisconnectingDevice, mCancelConnectingDevice>>
  BY <1>1 DEF OnConnectEvent
<1> HIDE DEF a, h, mine, found
<1>5. remote \in Seq(RemoteDevice) /\ DOMAIN remote = 1..Len(remote) /\ Len(remote) \in Nat
      /\ DOMAIN remote' = DOMAIN remote
  <2>1. DOMAIN remote' = DOMAIN remote
    BY <1>4
  <2> QED
    BY <2>1 DEF RemoteOK
<1>6. ASSUME NEW j \in DOMAIN remote
      PROVE  /\ remote'[j] \in RemoteDevice
             /\ remote'[j].addr = remote[j].addr
             /\ remote'[j].handle = remote[j].handle
             /\ remote'[j].dev = remote[j].dev
             /\ remote'[j].thread = IF j \in mine THEN "setup" ELSE remote[j].thread
             /\ remote'[j].link = IF j \in mine THEN h ELSE remote[j].link
  <2>1. remote[j] \in RemoteDevice
    BY ElementOfSeq, <1>5
  <2>2. remote'[j] = IF j \in mine
                       THEN [remote[j] EXCEPT !.thread = "setup", !.link = h]
                       ELSE remote[j]
    BY <1>3, <1>4
  <2>3. CASE j \in mine
    <3>1. remote'[j] = [remote[j] EXCEPT !.thread = "setup", !.link = h]
      BY <2>2, <2>3
    <3> QED
      BY <3>1, <2>1, <2>3, <1>2 DEF RemoteDevice, Threads
  <2>4. CASE j \notin mine
    BY <2>1, <2>2, <2>4
  <2> QED
    BY <2>3, <2>4
<1>7. remote' \in Seq(RemoteDevice) /\ Len(remote') = Len(remote)
  <2>1. remote' = [j \in 1..Len(remote) |-> remote'[j]]
    BY <1>4, <1>5
  <2>2. remote' \in [1..Len(remote) -> RemoteDevice]
    BY <2>1, <1>5, <1>6
  <2> QED
    BY <2>2, <1>5, SeqDef
<1>8. RemoteOK'
  <2>1. \A j \in DOMAIN remote' : remote'[j].thread \in Reporting => remote'[j].dev \in Devices
    BY <1>5, <1>6 DEF RemoteOK, Reporting
  <2> QED
    BY <1>7, <2>1 DEF RemoteOK
<1>9. /\ mConnectedDevice' \in Seq(Ids) /\ mConnectingDevice' \in Seq(Ids)
      /\ Elements(mConnectedDevice') = mine \cup Elements(mConnectedDevice)
      /\ Elements(mConnectingDevice') = Elements(mConnectingDevice) \ mine
  BY <1>3, <1>4, Joined DEF ListOK
<1>10. mine \subseteq Elements(mConnectingDevice)
  BY DEF mine
<1>11. ListOK'
  BY <1>4, <1>5, <1>9, <1>10 DEF ListOK
<1>12. found = <<>> <=> mine = {}
  BY <1>3, HeadIn
<1> QED
  BY <1>4, <1>5, <1>6, <1>8, <1>9, <1>11, <1>12 DEF a, h, mine

\* A link of a connected device is gone.
LEMMA LinkTerminatedDoes ==
    ASSUME RemoteOK, ListOK, DongleOK, LinkTerminated
    PROVE  LET h == events[1].handle
               mine == {i \in Elements(mConnectedDevice) : remote[i].handle = h}
           IN  /\ RemoteOK' /\ ListOK' /\ DOMAIN remote' = DOMAIN remote
               /\ \A j \in DOMAIN remote :
                     /\ remote'[j].addr = remote[j].addr
                     /\ remote'[j].handle = remote[j].handle
                     /\ remote'[j].link = remote[j].link
                     /\ remote'[j].dev = remote[j].dev
                     /\ remote'[j].thread = IF j \in mine THEN "stopped"
                                                          ELSE remote[j].thread
               /\ \A i \in mine : CanStop(i)
               /\ Elements(mConnectedDevice') = Elements(mConnectedDevice) \ mine
               /\ UNCHANGED <<mConnectingDevice, mDisconnectingDevice,
                              mCancelConnectingDevice>>
               /\ event'.pc = "hub" /\ event'.handle = h /\ event'.del \in mine
               /\ event'.addr = remote[event'.del].addr
               /\ event' = [pc |-> "hub", addr |-> event'.addr, handle |-> h, del |-> event'.del]
<1> DEFINE h == events[1].handle
           mine == {i \in Elements(mConnectedDevice) : remote[i].handle = h}
           found == AtHandle(mConnectedDevice, h)
<1>1. Head(events) = events[1]
  BY EventTaken DEF LinkTerminated
<1>2. /\ found \in Seq(Ids) /\ Elements(found) = mine
      /\ NotAtHandle(mConnectedDevice, h) \in Seq(Ids)
      /\ Elements(NotAtHandle(mConnectedDevice, h)) = Elements(mConnectedDevice) \ mine
  BY Searches DEF ListOK
<1>3. /\ found # <<>> /\ \A i \in Elements(found) : CanStop(i)
      /\ remote' = DeInit(found)
      /\ mConnectedDevice' = NotAtHandle(mConnectedDevice, h)
      /\ event' = [pc |-> "hub", addr |-> remote[Head(found)].addr,
                   handle |-> h, del |-> Head(found)]
      /\ UNCHANGED <<mConnectingDevice, mDisconnectingDevice, mCancelConnectingDevice>>
  BY <1>1 DEF LinkTerminated
<1>4. Head(found) \in mine
  BY <1>2, <1>3, HeadIn
<1> HIDE DEF h, mine, found
<1>5. ListOK'
  BY <1>2, <1>3, DeInitDoes DEF ListOK
<1> QED
  BY <1>2, <1>3, <1>4, <1>5, DeInitDoes DEF h, mine

\* A link that was to end has ended.
LEMMA LinkTerminatedAsAskedDoes ==
    ASSUME RemoteOK, ListOK, DongleOK, LinkTerminatedAsAsked
    PROVE  LET h == events[1].handle
               mine == {i \in Elements(mDisconnectingDevice) : remote[i].handle = h}
           IN  /\ ListOK'
               /\ \A i \in Elements(mConnectedDevice) : remote[i].handle # h
               /\ Elements(mDisconnectingDevice') = Elements(mDisconnectingDevice) \ mine
               /\ UNCHANGED <<mConnectingDevice, mConnectedDevice,
                              mCancelConnectingDevice, remote>>
               /\ event'.pc = "hub" /\ event'.handle = h /\ event'.del \in mine
               /\ event'.addr = remote[event'.del].addr
               /\ event' = [pc |-> "hub", addr |-> event'.addr, handle |-> h, del |-> event'.del]
<1> DEFINE h == events[1].handle
           mine == {i \in Elements(mDisconnectingDevice) : remote[i].handle = h}
           found == AtHandle(mDisconnectingDevice, h)
<1>1. Head(events) = events[1]
  BY EventTaken DEF LinkTerminatedAsAsked
<1>2. /\ found \in Seq(Ids) /\ Elements(found) = mine
      /\ NotAtHandle(mDisconnectingDevice, h) \in Seq(Ids)
      /\ Elements(NotAtHandle(mDisconnectingDevice, h)) = Elements(mDisconnectingDevice) \ mine
  BY Searches DEF ListOK
<1>3. /\ found # <<>>
      /\ AtHandle(mConnectedDevice, h) = <<>>
      /\ mDisconnectingDevice' = NotAtHandle(mDisconnectingDevice, h)
      /\ event' = [pc |-> "hub", addr |-> remote[Head(found)].addr,
                   handle |-> h, del |-> Head(found)]
      /\ UNCHANGED <<mConnectingDevice, mConnectedDevice, mCancelConnectingDevice, remote>>
  BY <1>1 DEF LinkTerminatedAsAsked
<1>4. Head(found) \in mine
  BY <1>2, <1>3, HeadIn
<1>5. \A i \in Elements(mConnectedDevice) : remote[i].handle # h
  <2>1. /\ AtHandle(mConnectedDevice, h) \in Seq(Ids)
        /\ Elements(AtHandle(mConnectedDevice, h)) =
              {i \in Elements(mConnectedDevice) : remote[i].handle = h}
    BY Searches DEF ListOK
  <2>2. Elements(AtHandle(mConnectedDevice, h)) = {}
    BY <1>3, <2>1, HeadIn
  <2> QED
    BY <2>1, <2>2
<1> HIDE DEF h, mine, found
<1>6. ListOK'
  BY <1>2, <1>3 DEF ListOK
<1> QED
  BY <1>2, <1>3, <1>4, <1>5, <1>6 DEF h, mine

\* AdapterManager::Disconnect.
LEMMA DisconnectEndDoes ==
    ASSUME RemoteOK, ListOK, NEW c \in Clients, DisconnectEnd(c)
    PROVE  LET h == client[c].handle
               mine == {i \in Elements(mConnectedDevice) : remote[i].handle = h}
           IN  /\ RemoteOK' /\ ListOK' /\ DOMAIN remote' = DOMAIN remote
               /\ \A j \in DOMAIN remote :
                     /\ remote'[j].addr = remote[j].addr
                     /\ remote'[j].handle = remote[j].handle
                     /\ remote'[j].link = remote[j].link
                     /\ remote'[j].dev = remote[j].dev
                     /\ remote'[j].thread = IF j \in mine THEN "stopped"
                                                          ELSE remote[j].thread
               /\ \A i \in mine : CanStop(i)
               /\ Elements(mConnectedDevice') = Elements(mConnectedDevice) \ mine
               /\ Elements(mDisconnectingDevice') = mine \cup Elements(mDisconnectingDevice)
               /\ UNCHANGED <<mConnectingDevice, mCancelConnectingDevice>>
               /\ TerminateLink(h)
<1> DEFINE h == client[c].handle
           mine == {i \in Elements(mConnectedDevice) : remote[i].handle = h}
           found == AtHandle(mConnectedDevice, h)
<1>2. /\ found \in Seq(Ids) /\ Elements(found) = mine
      /\ NotAtHandle(mConnectedDevice, h) \in Seq(Ids)
      /\ Elements(NotAtHandle(mConnectedDevice, h)) = Elements(mConnectedDevice) \ mine
  BY Searches DEF ListOK
<1>3. /\ remote' = DeInit(found) /\ \A i \in Elements(found) : CanStop(i)
      /\ mDisconnectingDevice' = Backwards(found) \o mDisconnectingDevice
      /\ mConnectedDevice' = NotAtHandle(mConnectedDevice, h)
      /\ TerminateLink(h)
      /\ UNCHANGED <<mConnectingDevice, mCancelConnectingDevice>>
  BY DEF DisconnectEnd
<1>4. mine \subseteq Elements(mConnectedDevice)
  OBVIOUS
<1> HIDE DEF h, mine, found
<1>5. /\ mDisconnectingDevice' \in Seq(Ids)
      /\ Elements(mDisconnectingDevice') = mine \cup Elements(mDisconnectingDevice)
  BY <1>2, <1>3, Joined DEF ListOK
<1>6. ListOK'
  BY <1>2, <1>3, <1>4, <1>5, DeInitDoes DEF ListOK
<1> QED
  BY <1>2, <1>3, <1>5, <1>6, DeInitDoes DEF h, mine

\* AdapterManager::Connect, when it goes ahead.
LEMMA ConnectDoes ==
    ASSUME RemoteOK, ListOK, ClientOK, NEW c \in Clients, Connect(c), ~mIsConnecting
    PROVE  LET n == Len(remote) + 1
           IN  /\ RemoteOK' /\ ListOK'
               /\ n \notin DOMAIN remote /\ DOMAIN remote' = DOMAIN remote \cup {n}
               /\ \A j \in DOMAIN remote : remote'[j] = remote[j]
               /\ remote'[n].addr = client[c].dev /\ remote'[n].thread = "none"
               /\ remote'[n].handle = INVALID_HANDLE /\ remote'[n].link = INVALID_HANDLE
               /\ Elements(mConnectingDevice') = {n} \cup Elements(mConnectingDevice)
               /\ UNCHANGED <<mConnectedDevice, mDisconnectingDevice,
                              mCancelConnectingDevice>>
               /\ mIsConnecting' = TRUE /\ RequestLink(client[c].dev) /\ Succeed(c)
<1> DEFINE n == Len(remote) + 1
           r == [addr |-> client[c].dev, handle |-> INVALID_HANDLE,
                 link |-> INVALID_HANDLE, thread |-> "none", dev |-> NoDevice]
<1>1. client[c] \in Call /\ client[c].dev \in Devices
  BY DEF ClientOK, Connect
<1>2. r \in RemoteDevice /\ r.thread \notin Reporting
  BY <1>1 DEF RemoteDevice, AnyHandle, Threads, Reporting
<1>3. /\ Len(remote) < MaxConnects /\ remote' = Append(remote, r)
      /\ mConnectingDevice' = <<n>> \o mConnectingDevice
      /\ mIsConnecting' = TRUE /\ RequestLink(client[c].dev) /\ Succeed(c)
      /\ UNCHANGED <<mConnectedDevice, mDisconnectingDevice, mCancelConnectingDevice>>
  BY DEF Connect
<1>4. /\ r.addr = client[c].dev /\ r.thread = "none"
      /\ r.handle = INVALID_HANDLE /\ r.link = INVALID_HANDLE
  OBVIOUS
<1> HIDE DEF r
<1>5. /\ remote \in Seq(RemoteDevice) /\ Len(remote) \in Nat
      /\ DOMAIN remote = 1..Len(remote)
  BY DEF RemoteOK
<1>6. /\ remote' \in Seq(RemoteDevice) /\ Len(remote') = n /\ DOMAIN remote' = 1..n
      /\ \A j \in 1..Len(remote) : remote'[j] = remote[j]
      /\ remote'[n] = r
  BY <1>2, <1>3, <1>5
<1>7. n \in Ids /\ n \notin DOMAIN remote /\ DOMAIN remote' = DOMAIN remote \cup {n}
  BY <1>3, <1>5, <1>6, ConnectionAssumption DEF Ids
<1> HIDE DEF n
<1>8. RemoteOK'
  <2>1. Len(remote') <= MaxConnects
    BY <1>6, <1>3, <1>5, ConnectionAssumption DEF n
  <2>2. \A j \in DOMAIN remote' : remote'[j].thread \in Reporting => remote'[j].dev \in Devices
    BY <1>2, <1>5, <1>6, <1>7 DEF RemoteOK
  <2> QED
    BY <1>6, <2>1, <2>2 DEF RemoteOK
<1>9. /\ mConnectingDevice' \in Seq(Ids)
      /\ Elements(mConnectingDevice') = {n} \cup Elements(mConnectingDevice)
  BY <1>3, <1>7, Pushed DEF ListOK
<1>10. ListOK'
  BY <1>3, <1>7, <1>9 DEF ListOK
<1> QED
  BY <1>3, <1>4, <1>5, <1>6, <1>7, <1>8, <1>9, <1>10 DEF n

\* AdapterManager::CancelConnect.
LEMMA CancelConnectDoes ==
    ASSUME RemoteOK, ListOK, NEW c \in Clients, CancelConnect(c)
    PROVE  /\ ListOK' /\ UNCHANGED <<remote, mConnectedDevice, mDisconnectingDevice>>
           /\ \/ UNCHANGED <<mCancelConnectingDevice, mConnectingDevice>>
              \/ /\ mCancelConnectingDevice' \in Elements(mConnectingDevice)
                 /\ Elements(mConnectingDevice') =
                       Elements(mConnectingDevice) \ {mCancelConnectingDevice'}
<1> DEFINE found == OfAddr(mConnectingDevice, client[c].dev)
           rest == Kept[<<mConnectingDevice, DOMAIN remote \ {Head(found)}>>]
<1>1. /\ found \in Seq(Ids) /\ Elements(found) \subseteq Elements(mConnectingDevice)
      /\ rest \in Seq(Ids) /\ Elements(rest) = Elements(mConnectingDevice) \ {Head(found)}
  <2>1. mConnectingDevice \in Seq(Ids) /\ Elements(mConnectingDevice) \subseteq DOMAIN remote
    BY DEF ListOK
  <2>2. found \in Seq(Ids) /\ Elements(found) \subseteq Elements(mConnectingDevice)
    BY <2>1, Searches
  <2> HIDE DEF found
  <2>3. rest \in Seq(Ids) /\ Elements(rest) = Elements(mConnectingDevice) \ {Head(found)}
    BY <2>1, Searches
  <2> QED
    BY <2>2, <2>3
<1>2. /\ UNCHANGED <<remote, mConnectedDevice, mDisconnectingDevice>>
      /\ IF found # <<>> THEN /\ mCancelConnectingDevice' = Head(found)
                              /\ mConnectingDevice' = rest
                         ELSE UNCHANGED <<mCancelConnectingDevice, mConnectingDevice>>
  BY DEF CancelConnect
<1> HIDE DEF found, rest
<1>3. CASE found = <<>>
  BY <1>2, <1>3 DEF ListOK
<1>4. CASE found # <<>>
  <2>1. Head(found) \in Elements(mConnectingDevice)
    BY <1>1, <1>4, HeadIn
  <2>2. mCancelConnectingDevice' = Head(found) /\ mConnectingDevice' = rest
    BY <1>2, <1>4
  <2>3. ListOK'
    BY <1>1, <1>2, <2>1, <2>2 DEF ListOK
  <2> QED
    BY <1>1, <1>2, <2>1, <2>2, <2>3
<1> QED
  BY <1>3, <1>4
-----------------------------------------------------------------------------
(* Every step keeps the types. *)

\* Steps of the dongle and calls of the clients.
LEMMA DataDongle ==
    ASSUME DataOK, NEW h \in Handles, LinkUp(h) \/ LinkLost(h)
    PROVE  DeviceOK' /\ ClientOK' /\ RemoteOK' /\ ListOK' /\ EventOK' /\ DongleOK'
<1>1. UNCHANGED <<deviceVars, setVars, mTaskMutex, client, mIsConnecting, listVars, remote, event>>
  BY DEF LinkUp, LinkLost
<1>2. RemoteOK' /\ ListOK'
  BY <1>1, ObjectsKept DEF DataOK
<1>3. DeviceOK' /\ ClientOK' /\ EventOK'
  BY <1>1 DEF DataOK, DeviceOK, ClientOK, EventOK, Busy, deviceVars, setVars
<1>4. DongleOK'
  BY LinkUpOK, LinkDropped DEF DataOK, LinkLost
<1> QED
  BY <1>2, <1>3, <1>4

\* Calls only give a client something to do.
LEMMA DataCalls ==
    ASSUME DataOK, NEW c \in Clients, NEW d \in Devices,
           ConnectCall(c, d) \/ DisconnectCall(c, d) \/ CancelCall(c, d)
    PROVE  DeviceOK' /\ ClientOK' /\ RemoteOK' /\ ListOK' /\ EventOK' /\ DongleOK'
<1>1. UNCHANGED <<deviceVars, setVars, mTaskMutex, mIsConnecting, listVars, remote, event,
                  dongleVars>>
  BY DEF ConnectCall, DisconnectCall, CancelCall
<1>2. RemoteOK' /\ ListOK'
  BY <1>1, ObjectsKept DEF DataOK
<1>3. DeviceOK' /\ DongleOK' /\ EventOK'
  BY <1>1 DEF DataOK, DeviceOK, DongleOK, EventOK, Busy, deviceVars, setVars, dongleVars
<1>4. ASSUME NEW op \in {"connect", "cancelConnect"},
             client' = [client EXCEPT ![c] = [NoCall EXCEPT !.pc = "queued", !.op = op, !.dev = d]]
      PROVE  ClientOK'
  <2> DEFINE call == [NoCall EXCEPT !.pc = "queued", !.op = op, !.dev = d]
  <2>1. call \in Call /\ call.pc = "queued" /\ call.op = op /\ call.dev = d
    BY DEF Call, NoCall, AnyHandle
  <2>2. client' = [client EXCEPT ![c] = call]
    BY <1>4
  <2> HIDE DEF call
  <2> QED
    BY <2>1, <2>2, ClientSet DEF DataOK
<1>5. CASE DisconnectCall(c, d)
  <2> DEFINE call == [pc |-> "queued", op |-> "disconnect", dev |-> d, handle |-> mHandle[d]]
  <2>1. mHandle[d] \in Handles
    BY <1>5 DEF DisconnectCall, DataOK, DeviceOK, AnyHandle
  <2>2. call \in Call /\ call.pc = "queued" /\ call.dev = d /\ call.handle = mHandle[d]
    BY <2>1 DEF Call, AnyHandle
  <2>3. client' = [client EXCEPT ![c] = call]
    BY <1>5 DEF DisconnectCall
  <2> HIDE DEF call
  <2> QED
    BY <1>2, <1>3, <2>1, <2>2, <2>3, ClientSet DEF DataOK
<1> QED
  BY <1>2, <1>3, <1>4, <1>5 DEF ConnectCall, CancelCall

\* Steps of the command thread for a client, and the client's own.
LEMMA DataRequests ==
    ASSUME DataOK, NEW c \in Clients, Request(c) \/ WriteStatus(c)
    PROVE  DeviceOK' /\ ClientOK' /\ RemoteOK' /\ ListOK' /\ EventOK' /\ DongleOK'
<1> USE DEF DataOK
<1>0. NoCall \in Call /\ NoCall.pc = "idle" /\ NoCall.op = "none"
  BY DEF NoCall, Call, AnyHandle
<1>1. CASE Connect(c)
  <2>1. CASE /\ mIsConnecting
             /\ client' = [client EXCEPT ![c] = NoCall]
             /\ UNCHANGED <<mCnntStatus, mIsConnecting, listVars, remote, dongleVars, budget>>
    <3>1. UNCHANGED <<mHandle, mProfile, setVars, mTaskMutex, event>>
      BY <1>1 DEF Connect
    <3>2. ClientOK'
      BY <1>0, <2>1, ClientSet
    <3>3. RemoteOK' /\ ListOK'
      BY <2>1, ObjectsKept
    <3>4. DeviceOK' /\ EventOK' /\ DongleOK'
      BY <2>1, <3>1 DEF DeviceOK, EventOK, Busy, DongleOK, dongleVars, setVars
    <3> QED
      BY <3>2, <3>3, <3>4
  <2>2. CASE ~mIsConnecting
    <3>1. /\ UNCHANGED <<mHandle, mProfile, setVars, mTaskMutex, event>>
          /\ client[c].pc = "queued"
      BY <1>1 DEF Connect
    <3>2. /\ RemoteOK' /\ ListOK' /\ DOMAIN remote \subseteq DOMAIN remote'
          /\ mIsConnecting' = TRUE /\ RequestLink(client[c].dev) /\ Succeed(c)
      BY <1>1, <2>2, ConnectDoes
    <3>3. ClientOK' /\ mCnntStatus' \in [Devices -> Statuses]
      BY <3>1, <3>2, Succeeded
    <3>4. DeviceOK'
      BY <3>1, <3>2, <3>3 DEF DeviceOK, setVars
    <3>5. EventOK'
      BY <3>1, <3>2 DEF EventOK, Busy
    <3>6. client[c].dev \in Devices
      BY <3>1 DEF ClientOK
    <3>7. DongleOK'
      BY <3>2, <3>6 DEF DongleOK, RequestLink
    <3> QED
      BY <3>2, <3>3, <3>4, <3>5, <3>7
  <2> QED
    BY <1>1, <2>1, <2>2 DEF Connect
<1>2. CASE CancelConnect(c)
  <2>1. /\ client[c].pc = "queued" /\ mIsConnecting' = FALSE
        /\ CancelLinkRequest /\ Succeed(c)
        /\ UNCHANGED <<mHandle, mProfile, setVars, mTaskMutex, remote, event>>
    BY <1>2 DEF CancelConnect
  <2>2. ListOK'
    BY <1>2, CancelConnectDoes
  <2>3. ClientOK' /\ mCnntStatus' \in [Devices -> Statuses]
    BY <2>1, Succeeded
  <2>4. DongleOK'
    BY <2>1, RequestCancelledOK
  <2>5. DeviceOK' /\ EventOK' /\ RemoteOK'
    BY <2>1, <2>3 DEF DeviceOK, EventOK, Busy, RemoteOK, setVars
  <2> QED
    BY <2>2, <2>3, <2>4, <2>5
<1>3. CASE DisconnectUnknown(c)
  <2>1. /\ client' = [client EXCEPT ![c] = NoCall]
        /\ UNCHANGED <<deviceVars, setVars, mTaskMutex, mIsConnecting, listVars, remote,
                       event, dongleVars>>
    BY <1>3 DEF DisconnectUnknown
  <2>2. ClientOK'
    BY <1>0, <2>1, ClientSet
  <2>3. RemoteOK' /\ ListOK'
    BY <2>1, ObjectsKept
  <2>4. DeviceOK' /\ EventOK' /\ DongleOK'
    BY <2>1 DEF DeviceOK, EventOK, Busy, DongleOK, dongleVars, setVars, deviceVars
  <2> QED
    BY <2>2, <2>3, <2>4
<1>4. CASE DisconnectBegin(c)
  <2>1. /\ client' = [client EXCEPT ![c].pc = "join"] /\ mTaskMutex' = c
        /\ client[c].op = "disconnect"
        /\ client[c].pc = "queued"
        /\ UNCHANGED <<deviceVars, setVars, mIsConnecting, listVars, remote,
                       event, dongleVars>>
    BY <1>4 DEF DisconnectBegin
  <2> DEFINE call == [client[c] EXCEPT !.pc = "join"]
  <2>2. client' = [client EXCEPT ![c] = call]
    BY <2>1
  <2>3. client[c] \in Call
    BY DEF ClientOK
  <2>4. call \in Call /\ call.pc = "join" /\ call.dev = client[c].dev
        /\ call.op = client[c].op /\ call.handle = client[c].handle
    BY <2>3 DEF Call
  <2> HIDE DEF call
  <2>5. ClientOK'
    BY <2>1, <2>2, <2>4, ClientSet DEF ClientOK
  <2>6. RemoteOK' /\ ListOK'
    BY <2>1, ObjectsKept
  <2>7. DeviceOK' /\ EventOK' /\ DongleOK'
    BY <2>1 DEF DeviceOK, EventOK, Busy, DongleOK, dongleVars, setVars, deviceVars
  <2> QED
    BY <2>5, <2>6, <2>7
<1>5. CASE DisconnectEnd(c)
  <2>1. /\ client[c].pc = "join" /\ mTaskMutex' = Free /\ Succeed(c)
        /\ UNCHANGED <<mHandle, mProfile, setVars, mIsConnecting, event>>
    BY <1>5 DEF DisconnectEnd
  <2>2. /\ RemoteOK' /\ ListOK' /\ DOMAIN remote' = DOMAIN remote
        /\ TerminateLink(client[c].handle)
    BY <1>5, DisconnectEndDoes
  <2>3. ClientOK' /\ mCnntStatus' \in [Devices -> Statuses]
    BY <2>1, Succeeded
  <2>4. DongleOK'
    BY <2>2, LinkTerminatedOK
  <2>5. DeviceOK' /\ EventOK'
    BY <2>1, <2>2, <2>3 DEF DeviceOK, EventOK, Busy, setVars
  <2> QED
    BY <2>2, <2>3, <2>4, <2>5
<1>6. CASE WriteStatus(c)
  <2>1. /\ client' = [client EXCEPT ![c] = NoCall]
        /\ mCnntStatus' = [mCnntStatus EXCEPT ![client[c].dev] = StatusAfter(client[c].op)]
        /\ UNCHANGED <<mHandle, mProfile, setVars, mTaskMutex, mIsConnecting, listVars,
                       remote, event, dongleVars>>
    BY <1>6 DEF WriteStatus
  <2>2. StatusAfter(client[c].op) \in Statuses
    BY DEF StatusAfter, Statuses
  <2>3. ClientOK'
    BY <1>0, <2>1, ClientSet
  <2>4. RemoteOK' /\ ListOK'
    BY <2>1, ObjectsKept
  <2>5. DeviceOK' /\ EventOK' /\ DongleOK'
    BY <2>1, <2>2 DEF DeviceOK, EventOK, Busy, DongleOK, dongleVars, setVars
  <2> QED
    BY <2>3, <2>4, <2>5
<1> QED
  BY <1>1, <1>2, <1>3, <1>4, <1>5, <1>6 DEF Request

\* Steps of the event thread.
LEMMA DataEvents ==
    ASSUME DataOK, EventStep
    PROVE  DeviceOK' /\ ClientOK' /\ RemoteOK' /\ ListOK' /\ EventOK' /\ DongleOK'
<1> USE DEF DataOK
<1>0. /\ \A i \in DOMAIN remote : remote[i].addr \in Devices /\ remote[i].handle \in AnyHandle
      /\ INVALID_HANDLE \in AnyHandle /\ "deleted" \in Threads /\ "deleted" \notin Reporting
      /\ DOMAIN remote \subseteq Nat
  <2>1. /\ \A i \in DOMAIN remote : remote[i] \in RemoteDevice
        /\ DOMAIN remote \subseteq Nat
    BY DEF RemoteOK
  <2> QED
    BY <2>1 DEF RemoteDevice, AnyHandle, Threads, Reporting
<1>1. CASE OnConnectEvent
  <2>1. /\ UNCHANGED <<deviceVars, setVars, mTaskMutex, client, event>> /\ Take("up")
    BY <1>1 DEF OnConnectEvent
  <2>2. RemoteOK' /\ ListOK' /\ DOMAIN remote' = DOMAIN remote /\ mIsConnecting' \in BOOLEAN
    BY <1>1, OnConnectEventDoes
  <2>3. DongleOK'
    BY <2>1, EventTaken
  <2>4. DeviceOK' /\ ClientOK' /\ EventOK'
    BY <2>1, <2>2 DEF DeviceOK, ClientOK, EventOK, Busy, deviceVars, setVars
  <2> QED
    BY <2>2, <2>3, <2>4
<1>2. CASE OnConnectError
  <2>1. /\ UNCHANGED <<deviceVars, setVars, mTaskMutex, client, listVars, remote>>
        /\ Take("upError") /\ mIsConnecting' = FALSE
    BY <1>2 DEF OnConnectError
  <2>2. DongleOK'
    BY <2>1, EventTaken
  <2>3. EventOK'
    <3>1. CASE event' = [NoEvent EXCEPT !.pc = "crashed"]
      BY <3>1, <1>0 DEF EventOK, NoEvent, Busy, NULL
    <3>2. CASE /\ mCancelConnectingDevice # NULL
               /\ event' = [pc |-> "hub", addr |-> remote[mCancelConnectingDevice].addr,
                            handle |-> INVALID_HANDLE, del |-> mCancelConnectingDevice]
      <4>1. mCancelConnectingDevice \in DOMAIN remote
        BY <3>2 DEF ListOK
      <4> QED
        BY <4>1, <3>2, <2>1, <1>0 DEF EventOK, Busy
    <3> QED
      BY <1>2, <3>1, <3>2 DEF OnConnectError
  <2>4. RemoteOK' /\ ListOK'
    BY <2>1, ObjectsKept
  <2>5. DeviceOK' /\ ClientOK'
    BY <2>1 DEF DeviceOK, ClientOK, deviceVars, setVars
  <2> QED
    BY <2>2, <2>3, <2>4, <2>5
<1>3. CASE LinkTerminated
  <2>1. UNCHANGED <<deviceVars, setVars, mTaskMutex, client, mIsConnecting>> /\ Take("down")
    BY <1>3 DEF LinkTerminated
  <2>2. /\ RemoteOK' /\ ListOK' /\ DOMAIN remote' = DOMAIN remote
        /\ event'.pc = "hub" /\ event'.handle = events[1].handle
        /\ event'.del \in Elements(mConnectedDevice)
        /\ event'.addr = remote[event'.del].addr
        /\ event' = [pc |-> "hub", addr |-> event'.addr, handle |-> events[1].handle,
                     del |-> event'.del]
    BY <1>3, LinkTerminatedDoes
  <2>3. DongleOK' /\ events[1].handle \in AnyHandle
    BY <2>1, EventTaken DEF Message
  <2>4. event'.del \in DOMAIN remote
    BY <2>2 DEF ListOK
  <2>5. DeviceOK' /\ ClientOK' /\ EventOK'
    BY <1>0, <2>1, <2>2, <2>3, <2>4 DEF DeviceOK, ClientOK, EventOK, Busy, deviceVars,
       setVars
  <2> QED
    BY <2>2, <2>3, <2>5
<1>4. CASE LinkTerminatedAsAsked
  <2>1. /\ UNCHANGED <<deviceVars, setVars, mTaskMutex, client, mIsConnecting, remote>>
        /\ Take("down")
    BY <1>4 DEF LinkTerminatedAsAsked
  <2>2. /\ ListOK'
        /\ event'.pc = "hub" /\ event'.handle = events[1].handle
        /\ event'.del \in Elements(mDisconnectingDevice)
        /\ event'.addr = remote[event'.del].addr
        /\ event' = [pc |-> "hub", addr |-> event'.addr, handle |-> events[1].handle,
                     del |-> event'.del]
    BY <1>4, LinkTerminatedAsAskedDoes
  <2>3. DongleOK' /\ events[1].handle \in AnyHandle
    BY <2>1, EventTaken DEF Message
  <2>4. event'.del \in DOMAIN remote
    BY <2>2 DEF ListOK
  <2>5. DeviceOK' /\ ClientOK' /\ EventOK'
    BY <1>0, <2>1, <2>2, <2>3, <2>4 DEF DeviceOK, ClientOK, EventOK, Busy, deviceVars,
       setVars
  <2>6. RemoteOK'
    BY <2>1 DEF RemoteOK
  <2> QED
    BY <2>2, <2>3, <2>5, <2>6
<1>5. CASE LinkTerminatedUnknown
  <2>1. /\ UNCHANGED <<deviceVars, setVars, mTaskMutex, client, mIsConnecting, listVars,
                       remote, event>>
        /\ Take("down")
    BY <1>5 DEF LinkTerminatedUnknown
  <2>2. DongleOK' /\ RemoteOK' /\ ListOK'
    BY <2>1, EventTaken, ObjectsKept
  <2>3. DeviceOK' /\ ClientOK' /\ EventOK'
    BY <2>1 DEF DeviceOK, ClientOK, EventOK, Busy, deviceVars, setVars
  <2> QED
    BY <2>2, <2>3
<1>6. CASE HubDisconnected
  <2>1. /\ UNCHANGED <<deviceVars, mTaskMutex, client, mIsConnecting, listVars, remote,
                       dongleVars>>
        /\ event.pc = "hub"
    BY <1>6 DEF HubDisconnected
  <2>2. RemoteOK' /\ ListOK'
    BY <2>1, ObjectsKept
  <2>3. ClientOK' /\ DongleOK'
    BY <2>1 DEF ClientOK, DongleOK, dongleVars
  <2>4. event.addr \in Devices /\ event.del \in DOMAIN remote
    BY <2>1 DEF EventOK, Busy
  <2>5. EventOK' /\ DeviceOK'
    <3>1. PICK d \in Devices :
             /\ mConnectedDevices' \in {mConnectedDevices} \cup Erased(mConnectedDevices, d)
             /\ mDisconnDevices' \in {mDisconnDevices} \cup Inserted(mDisconnDevices, d)
             /\ UNCHANGED crossed
             /\ \/ event' = [event EXCEPT !.pc = "device", !.addr = d]
                \/ event' = [event EXCEPT !.pc = "delete"]
      <4>1. CASE \E k \in 1..Len(mConnectedDevices) :
                   /\ mConnectedDevices' \in Erased(mConnectedDevices, mConnectedDevices[k])
                   /\ mDisconnDevices' \in Inserted(mDisconnDevices, mConnectedDevices[k])
                   /\ event' = [event EXCEPT !.pc = "device", !.addr = mConnectedDevices[k]]
                   /\ UNCHANGED crossed
        <5>1. PICK k \in 1..Len(mConnectedDevices) :
                   /\ mConnectedDevices' \in Erased(mConnectedDevices, mConnectedDevices[k])
                   /\ mDisconnDevices' \in Inserted(mDisconnDevices, mConnectedDevices[k])
                   /\ event' = [event EXCEPT !.pc = "device", !.addr = mConnectedDevices[k]]
                   /\ UNCHANGED crossed
          BY <4>1
        <5>2. mConnectedDevices[k] \in Devices
          BY ElementOfSeq DEF DeviceOK
        <5> QED
          BY <5>1, <5>2
      <4>2. CASE /\ mDisconnDevices' \in Inserted(mDisconnDevices, event.addr)
                 /\ event' = [event EXCEPT !.pc = "device"]
                 /\ UNCHANGED <<mConnectedDevices, crossed>>
        <5>1. event' = [event EXCEPT !.pc = "device", !.addr = event.addr]
          BY <4>2 DEF EventOK
        <5> QED
          BY <2>4, <4>2, <5>1
      <4>3. CASE event' = [event EXCEPT !.pc = "delete"] /\ UNCHANGED setVars
        BY <2>4, <4>3 DEF setVars
      <4> QED
        BY <1>6, <4>1, <4>2, <4>3 DEF HubDisconnected
    <3>2. mConnectedDevices' \in Seq(Devices) /\ mDisconnDevices' \in Seq(Devices)
      BY <3>1, SetTypes DEF DeviceOK
    <3>3. DeviceOK'
      BY <2>1, <3>1, <3>2 DEF DeviceOK, deviceVars
    <3>4. EventOK'
      <4>1. CASE event' = [event EXCEPT !.pc = "device", !.addr = d]
        BY <2>1, <2>4, <4>1 DEF EventOK, Busy
      <4>2. CASE event' = [event EXCEPT !.pc = "delete"]
        BY <2>1, <2>4, <4>2 DEF EventOK, Busy
      <4> QED
        BY <3>1, <4>1, <4>2
    <3> QED
      BY <3>3, <3>4
  <2> QED
    BY <2>2, <2>3, <2>5
<1>7. CASE DeviceDisconnected
  <2>1. /\ UNCHANGED <<setVars, mTaskMutex, client, mIsConnecting, listVars, dongleVars>>
        /\ remote' = [remote EXCEPT ![event.del].thread = "deleted"]
        /\ event' = NoEvent /\ event.pc \in {"device", "delete"}
    BY <1>7 DEF DeviceDisconnected
  <2>2. event.addr \in Devices /\ event.del \in DOMAIN remote
    BY <2>1 DEF EventOK, Busy
  <2>3. RemoteOK' /\ DOMAIN remote' = DOMAIN remote
    BY <1>0, <2>1, <2>2, ThreadMoved
  <2>4. ListOK'
    BY <2>1, <2>3, ListsKept
  <2>5. ClientOK' /\ DongleOK' /\ EventOK'
    BY <2>1, <1>0 DEF ClientOK, DongleOK, EventOK, Busy, NoEvent, NULL, dongleVars
  <2>6. DeviceOK'
    BY <1>7, <1>0, <2>1, <2>2 DEF DeviceDisconnected, OnDisconnected, DeviceOK, Statuses,
       setVars,
                                deviceVars
  <2> QED
    BY <2>3, <2>4, <2>5, <2>6
<1> QED
  BY <1>1, <1>2, <1>3, <1>4, <1>5, <1>6, <1>7 DEF EventStep

\* Steps of the thread of a RemoteDevice.
LEMMA DataThreads ==
    ASSUME DataOK, NEW i \in DOMAIN remote, DeviceStep(i)
    PROVE  DeviceOK' /\ ClientOK' /\ RemoteOK' /\ ListOK' /\ EventOK' /\ DongleOK'
<1> USE DEF DataOK
<1>0. /\ remote[i].thread \in Reporting => remote[i].dev \in Devices
      /\ remote[i].handle \in AnyHandle
  <2>1. remote[i] \in RemoteDevice
    BY ElementOfSeq DEF RemoteOK
  <2> QED
    BY <2>1 DEF RemoteOK, RemoteDevice
<1>1. UNCHANGED <<mTaskMutex, client, mIsConnecting, listVars, event, dongleVars>>
  BY DEF DeviceStep, TakeHandle, Discovered, HubConnected, DeviceSetHandle,
     DeviceSetConnected
<1>2. /\ RemoteOK' /\ DOMAIN remote' = DOMAIN remote
      /\ TakeHandle(i) \/ Discovered(i) => UNCHANGED <<deviceVars, setVars>>
      /\ ~(TakeHandle(i) \/ Discovered(i)) => remote[i].dev \in Devices
  <2>1. CASE TakeHandle(i)
    BY <2>1, TakeHandleDoes DEF TakeHandle
  <2>2. CASE Discovered(i)
    BY <2>2, DiscoveredDoes DEF Discovered
  <2>3. CASE HubConnected(i) \/ DeviceSetHandle(i) \/ DeviceSetConnected(i)
    <3>1. remote[i].thread \in Reporting /\ \E t \in Threads : remote' = [remote EXCEPT ![i].thread = t]
      BY <2>3 DEF HubConnected, DeviceSetHandle, DeviceSetConnected, Threads, Reporting
    <3>2. remote[i].dev \in Devices
      BY <1>0, <3>1
    <3>3. RemoteOK' /\ DOMAIN remote' = DOMAIN remote
      BY <3>1, <3>2, ThreadMoved
    <3> QED
      BY <3>2, <3>3 DEF TakeHandle, Discovered
  <2> QED
    BY <2>1, <2>2, <2>3 DEF DeviceStep
<1>3. ListOK' /\ ClientOK' /\ EventOK' /\ DongleOK'
  <2>1. ListOK'
    BY <1>1, <1>2, ListsKept
  <2> QED
    BY <1>1, <1>2, <2>1 DEF ClientOK, EventOK, Busy, DongleOK, dongleVars
<1>4. DeviceOK'
  <2>1. CASE TakeHandle(i) \/ Discovered(i)
    BY <2>1, <1>1, <1>2 DEF DeviceOK, deviceVars, setVars
  <2>2. CASE HubConnected(i)
    <3>1. remote[i].dev \in Devices
      BY <2>2, <1>0 DEF HubConnected, Reporting
    <3>2. /\ mDisconnDevices' \in {mDisconnDevices} \cup Erased(mDisconnDevices, remote[i].dev)
          /\ mConnectedDevices' \in {mConnectedDevices} \cup Inserted(mConnectedDevices, remote[i].dev)
          /\ UNCHANGED <<mCnntStatus, mHandle, mProfile, crossed>>
      BY <2>2 DEF HubConnected, deviceVars
    <3>3. mDisconnDevices' \in Seq(Devices) /\ mConnectedDevices' \in Seq(Devices)
      BY <3>1, <3>2, SetTypes DEF DeviceOK
    <3> QED
      BY <3>2, <3>3, <1>1 DEF DeviceOK
  <2>3. CASE DeviceSetHandle(i)
    <3>1. remote[i].dev \in Devices
      BY <2>3, <1>0 DEF DeviceSetHandle, Reporting
    <3> QED
      BY <2>3, <3>1, <1>0, <1>1 DEF DeviceSetHandle, DeviceOK
  <2>4. CASE DeviceSetConnected(i)
    <3>1. remote[i].dev \in Devices
      BY <2>4, <1>0 DEF DeviceSetConnected, Reporting
    <3> QED
      BY <2>4, <3>1, <1>1 DEF DeviceSetConnected, DeviceOK, Statuses
  <2> QED
    BY <2>1, <2>2, <2>3, <2>4 DEF DeviceStep
<1> QED
  BY <1>2, <1>3, <1>4

\* Every step keeps the types.
LEMMA DataStep == DataOK /\ [Next]_vars => DataOK'
<1> SUFFICES ASSUME DataOK, [Next]_vars PROVE DataOK'
  OBVIOUS
<1>1. BudgetOK'
  BY DoneStaysDone DEF DataOK
<1>2. CASE Next
  BY <1>1, <1>2, DataDongle, DataCalls, DataRequests, DataEvents, DataThreads
     DEF Next, DataOK
<1>3. CASE UNCHANGED vars
  BY <1>1, <1>3 DEF DataOK, DeviceOK, ClientOK, RemoteOK, ListOK, EventOK, Busy, DongleOK,
     vars,
                    deviceVars, setVars, listVars, dongleVars
<1> QED
  BY <1>2, <1>3

\* The variables have their types.
THEOREM TypeCorrect == Spec => []TypeOK
<1>1. DataOK => TypeOK
  BY DEF DataOK, TypeOK, DeviceOK, ListOK, DongleOK, AnyHandle
<1> QED
  BY DataInit, DataStep, <1>1, PTL DEF Spec
-----------------------------------------------------------------------------
(* The hub's two sets. *)

\* The sets are the same as long as their trees are.
LEMMA SameSets == UNCHANGED setVars => UNCHANGED <<Connecteds, Disconnecteds>>
BY DEF setVars, Connecteds, Disconnecteds, Elements

\* At first all are in one, in the order of their addresses.
LEMMA SetsInit == Init => SetsOK
<1> SUFFICES ASSUME Init PROVE SetsOK
  OBVIOUS
<1>1. Connecteds = {} /\ InOrder(mConnectedDevices)
  BY DEF Init, Connecteds, Elements, InOrder
<1>2. Aligned
  BY DEF Init, Aligned
<1> QED
  BY <1>1, <1>2 DEF Init, SetsOK, Disconnecteds

\* While they are in order, onDeviceDisconnected takes the device from one to the other ...
LEMMA HubDisconnectedSets ==
    ASSUME DataOK, SetsOK, ~crossed, HubDisconnected
    PROVE  /\ UNCHANGED crossed
           /\ InOrder(mConnectedDevices') /\ InOrder(mDisconnDevices')
           /\ \/ \E d \in Connecteds :
                    /\ mHandle[d] = event.handle
                    /\ Connecteds' = Connecteds \ {d} /\ Disconnecteds' = Disconnecteds \cup {d}
                    /\ event' = [event EXCEPT !.pc = "device", !.addr = d]
              \/ /\ Connecteds' = Connecteds /\ Disconnecteds' = Disconnecteds
                 /\ \A d \in Connecteds : mHandle[d] # event.handle
                 /\ \/ event.addr \in Disconnecteds /\ event' = [event EXCEPT !.pc = "device"]
                    \/ event.addr \notin Disconnecteds /\ event' = [event EXCEPT !.pc = "delete"]
<1> DEFINE mine == {k \in 1..Len(mConnectedDevices) : mHandle[mConnectedDevices[k]] = event.handle}
<1>1. /\ mConnectedDevices \in Seq(Devices) /\ InOrder(mConnectedDevices)
      /\ mDisconnDevices \in Seq(Devices) /\ InOrder(mDisconnDevices)
  BY DEF DataOK, DeviceOK, SetsOK
<1>2. Keyed
  BY AlignedKeys DEF DataOK, DeviceOK, SetsOK
<1>3. CASE \E k \in mine :
              /\ mConnectedDevices' \in Erased(mConnectedDevices, mConnectedDevices[k])
              /\ mDisconnDevices' \in Inserted(mDisconnDevices, mConnectedDevices[k])
              /\ event' = [event EXCEPT !.pc = "device", !.addr = mConnectedDevices[k]]
              /\ UNCHANGED crossed
  <2>1. PICK k \in mine :
              /\ mConnectedDevices' \in Erased(mConnectedDevices, mConnectedDevices[k])
              /\ mDisconnDevices' \in Inserted(mDisconnDevices, mConnectedDevices[k])
              /\ event' = [event EXCEPT !.pc = "device", !.addr = mConnectedDevices[k]]
              /\ UNCHANGED crossed
    BY <1>3
  <2>2. PICK d \in Devices : d = mConnectedDevices[k] /\ d \in Elements(mConnectedDevices)
    BY <1>1, ElementOfSeq DEF Elements
  <2>3. /\ InOrder(mConnectedDevices')
        /\ Elements(mConnectedDevices') = Elements(mConnectedDevices) \ {d}
    BY <1>1, <1>2, <2>1, <2>2, ErasedOne
  <2>4. /\ InOrder(mDisconnDevices')
        /\ Elements(mDisconnDevices') = Elements(mDisconnDevices) \cup {d}
    BY <1>1, <1>2, <2>1, <2>2, InsertedOne
  <2>5. Connecteds' = Connecteds \ {d} /\ Disconnecteds' = Disconnecteds \cup {d}
    BY <2>3, <2>4 DEF Connecteds, Disconnecteds, Elements
  <2>6. d \in Connecteds /\ mHandle[d] = event.handle
    BY <2>1, <2>2 DEF Connecteds
  <2> QED
    BY <2>1, <2>2, <2>3, <2>4, <2>5, <2>6
<1>4. ASSUME mine = {}
      PROVE  \A d \in Connecteds : mHandle[d] # event.handle
  BY <1>4 DEF Connecteds, Elements
<1>5. CASE /\ mine = {} /\ event.addr \in Elements(mDisconnDevices)
           /\ mDisconnDevices' \in Inserted(mDisconnDevices, event.addr)
           /\ event' = [event EXCEPT !.pc = "device"]
           /\ UNCHANGED <<mConnectedDevices, crossed>>
  <2>1. PICK d \in Devices : d = event.addr
    BY <1>1, <1>5, ElementOfSeq DEF Elements
  <2>2. /\ InOrder(mDisconnDevices')
        /\ Elements(mDisconnDevices') = Elements(mDisconnDevices) \cup {d}
    BY <1>1, <1>2, <1>5, <2>1, InsertedOne
  <2>3. Connecteds' = Connecteds /\ Disconnecteds' = Disconnecteds /\ event.addr \in Disconnecteds
    BY <1>5, <2>1, <2>2 DEF Connecteds, Disconnecteds, Elements
  <2>4. InOrder(mConnectedDevices')
    BY <1>1, <1>5
  <2> QED
    BY <1>4, <1>5, <2>2, <2>3, <2>4
<1>6. CASE /\ mine = {} /\ event.addr \notin Elements(mDisconnDevices)
           /\ event' = [event EXCEPT !.pc = "delete"] /\ UNCHANGED setVars
  <2>1. Connecteds' = Connecteds /\ Disconnecteds' = Disconnecteds /\ event.addr \notin Disconnecteds
    BY <1>6 DEF Connecteds, Disconnecteds, Elements, setVars
  <2> QED
    BY <1>1, <1>4, <1>6, <2>1 DEF setVars
<1> QED
  BY <1>3, <1>5, <1>6 DEF HubDisconnected

\* ... and onDeviceConnected takes it back, and finds it in one of them.
LEMMA HubConnectedSets ==
    ASSUME DataOK, SetsOK, ~crossed, NEW i \in DOMAIN remote, HubConnected(i)
    PROVE  /\ UNCHANGED crossed
           /\ InOrder(mConnectedDevices') /\ InOrder(mDisconnDevices')
           /\ Connecteds' = Connecteds \cup {remote[i].dev}
           /\ Disconnecteds' = Disconnecteds \ {remote[i].dev}
           /\ remote' = [remote EXCEPT ![i].thread = "onConnected"]
<1>1. /\ mConnectedDevices \in Seq(Devices) /\ InOrder(mConnectedDevices)
      /\ mDisconnDevices \in Seq(Devices) /\ InOrder(mDisconnDevices)
      /\ Connecteds \cap Disconnecteds = {} /\ Connecteds \cup Disconnecteds = Devices
  BY DEF DataOK, DeviceOK, SetsOK
<1>2. Keyed
  BY AlignedKeys DEF DataOK, DeviceOK, SetsOK
<1>3. PICK d \in Devices : d = remote[i].dev
  BY DEF HubConnected, DataOK, RemoteOK, Reporting
<1>4. d \in Elements(mDisconnDevices) \cup Elements(mConnectedDevices)
  BY <1>1 DEF Connecteds, Disconnecteds
<1>5. /\ mConnectedDevices' \in Inserted(mConnectedDevices, d)
      /\ remote' = [remote EXCEPT ![i].thread = "onConnected"]
      /\ d \in Elements(mDisconnDevices) => mDisconnDevices' \in Erased(mDisconnDevices, d)
      /\ d \notin Elements(mDisconnDevices) => UNCHANGED mDisconnDevices
      /\ UNCHANGED crossed
  BY <1>3, <1>4 DEF HubConnected
<1>6. /\ InOrder(mConnectedDevices')
      /\ Elements(mConnectedDevices') = Elements(mConnectedDevices) \cup {d}
  BY <1>1, <1>2, <1>5, InsertedOne
<1>7. /\ InOrder(mDisconnDevices')
      /\ Elements(mDisconnDevices') = Elements(mDisconnDevices) \ {d}
  <2>1. CASE d \in Elements(mDisconnDevices)
    BY <1>1, <1>2, <1>5, <2>1, ErasedOne
  <2>2. CASE d \notin Elements(mDisconnDevices)
    BY <1>1, <1>5, <2>2
  <2> QED
    BY <2>1, <2>2
<1>8. Connecteds' = Connecteds \cup {d} /\ Disconnecteds' = Disconnecteds \ {d}
  BY <1>6, <1>7 DEF Connecteds, Disconnecteds, Elements
<1> QED
  BY <1>3, <1>5, <1>6, <1>7, <1>8

\* Those that are Connected stay aligned when a status becomes another ...
LEMMA LessConnected ==
    ASSUME Aligned,
           \A d \in Devices : mCnntStatus'[d] = "Connected" =>
              mCnntStatus[d] = "Connected" /\ mHandle'[d] = mHandle[d]
    PROVE  Aligned'
<1> SUFFICES ASSUME NEW d \in Devices, NEW e \in Devices,
                    mCnntStatus'[d] = "Connected", mCnntStatus'[e] = "Connected",
                    Address[d] < Address[e]
             PROVE  mHandle'[d] < mHandle'[e]
  BY DEF Aligned
<1>1. mCnntStatus[d] = "Connected" /\ mCnntStatus[e] = "Connected"
      /\ mHandle'[d] = mHandle[d] /\ mHandle'[e] = mHandle[e]
  OBVIOUS
<1>2. mHandle[d] < mHandle[e]
  BY <1>1 DEF Aligned
<1> QED
  BY <1>1, <1>2

\* ... and with them the sets.
LEMMA SetsKept ==
    ASSUME SetsOK, UNCHANGED setVars,
           \A d \in Devices : mCnntStatus'[d] = "Connected" =>
              mCnntStatus[d] = "Connected" /\ mHandle'[d] = mHandle[d]
    PROVE  SetsOK'
<1> SUFFICES ASSUME ~crossed
             PROVE  /\ Aligned' /\ InOrder(mConnectedDevices') /\ InOrder(mDisconnDevices')
                    /\ Connecteds' \cap Disconnecteds' = {}
                    /\ Connecteds' \cup Disconnecteds' = Devices
  BY DEF SetsOK, setVars
<1>1. /\ Aligned /\ InOrder(mConnectedDevices) /\ InOrder(mDisconnDevices)
      /\ Connecteds \cap Disconnecteds = {} /\ Connecteds \cup Disconnecteds = Devices
  BY DEF SetsOK
<1>2. Connecteds' = Connecteds /\ Disconnecteds' = Disconnecteds
  BY DEF Connecteds, Disconnecteds, Elements, setVars
<1> QED
  BY <1>1, <1>2, LessConnected DEF setVars

\* A handle or a status that would cross them is remembered.
LEMMA SetsAligned ==
    ASSUME SetsOK, UNCHANGED <<mConnectedDevices, mDisconnDevices>>, crossed \in BOOLEAN,
           crossed' = (crossed \/ ~Aligned')
    PROVE  SetsOK'
<1> SUFFICES ASSUME ~crossed'
             PROVE  /\ Aligned' /\ InOrder(mConnectedDevices') /\ InOrder(mDisconnDevices')
                    /\ Connecteds' \cap Disconnecteds' = {}
                    /\ Connecteds' \cup Disconnecteds' = Devices
  BY DEF SetsOK
<1>0. ~crossed /\ Aligned'
  OBVIOUS
<1>1. /\ InOrder(mConnectedDevices) /\ InOrder(mDisconnDevices)
      /\ Connecteds \cap Disconnecteds = {} /\ Connecteds \cup Disconnecteds = Devices
  BY <1>0 DEF SetsOK
<1>2. Connecteds' = Connecteds /\ Disconnecteds' = Disconnecteds
  BY DEF Connecteds, Disconnecteds, Elements
<1> QED
  BY <1>0, <1>1, <1>2

\* Every step keeps the two sets, and what was crossed stays crossed.
LEMMA SetsStep == DataOK /\ SetsOK /\ [Next]_vars => SetsOK' /\ (~crossed' => ~crossed)
<1> SUFFICES ASSUME DataOK, SetsOK, [Next]_vars PROVE SetsOK' /\ (~crossed' => ~crossed)
  OBVIOUS
<1>0. /\ crossed \in BOOLEAN /\ mCnntStatus \in [Devices -> Statuses]
      /\ mHandle \in [Devices -> AnyHandle]
  BY DEF DataOK, DeviceOK
<1>1. ASSUME UNCHANGED setVars, UNCHANGED <<mCnntStatus, mHandle>>
      PROVE  SetsOK' /\ (~crossed' => ~crossed)
  BY <1>1, SetsKept DEF setVars
<1>2. ASSUME UNCHANGED setVars, UNCHANGED mHandle, NEW d \in Devices, NEW t, t # "Connected",
             mCnntStatus' = [mCnntStatus EXCEPT ![d] = t]
      PROVE  SetsOK' /\ (~crossed' => ~crossed)
  BY <1>0, <1>2, SetsKept DEF setVars
<1>3. ASSUME NEW c \in Clients, Request(c) \/ WriteStatus(c)
      PROVE  SetsOK' /\ (~crossed' => ~crossed)
  <2>1. client[c].dev \in Devices /\ StatusAfter(client[c].op) # "Connected"
    BY <1>3 DEF Request, Connect, CancelConnect, DisconnectUnknown, DisconnectBegin, DisconnectEnd,
       WriteStatus, DataOK, ClientOK, StatusAfter
  <2>2. /\ UNCHANGED setVars /\ UNCHANGED mHandle
        /\ \/ UNCHANGED mCnntStatus
           \/ mCnntStatus' = [mCnntStatus EXCEPT ![client[c].dev] = StatusAfter(client[c].op)]
    BY <1>3 DEF Request, Connect, CancelConnect, DisconnectUnknown, DisconnectBegin, DisconnectEnd,
       WriteStatus, Succeed, deviceVars
  <2> QED
    BY <1>1, <1>2, <2>1, <2>2
<1>4. CASE HubDisconnected
  <2>1. CASE crossed
    BY <1>4, <2>1 DEF HubDisconnected, SetsOK, setVars
  <2>2. CASE ~crossed
    <3>1. /\ Aligned /\ Connecteds \cap Disconnecteds = {} /\ Connecteds \cup Disconnecteds = Devices
          /\ UNCHANGED <<mCnntStatus, mHandle>>
      BY <1>4, <2>2 DEF SetsOK, HubDisconnected, deviceVars
    <3>2. Aligned'
      BY <3>1, LessConnected
    <3>3. /\ InOrder(mConnectedDevices') /\ InOrder(mDisconnDevices')
          /\ Connecteds' \cap Disconnecteds' = {} /\ Connecteds' \cup Disconnecteds' = Devices
      BY <1>4, <2>2, <3>1, HubDisconnectedSets
    <3> QED
      BY <2>2, <3>2, <3>3 DEF SetsOK
  <2> QED
    BY <2>1, <2>2
<1>5. ASSUME NEW i \in DOMAIN remote, HubConnected(i)
      PROVE  SetsOK' /\ (~crossed' => ~crossed)
  <2>1. CASE crossed
    BY <1>5, <2>1 DEF HubConnected, SetsOK
  <2>2. CASE ~crossed
    <3>1. /\ Aligned /\ Connecteds \cap Disconnecteds = {} /\ Connecteds \cup Disconnecteds = Devices
          /\ UNCHANGED <<mCnntStatus, mHandle>>
      BY <1>5, <2>2 DEF SetsOK, HubConnected, deviceVars
    <3>2. Aligned'
      BY <3>1, LessConnected
    <3>3. remote[i].dev \in Devices
      BY <1>5 DEF HubConnected, DataOK, RemoteOK, Reporting
    <3>4. /\ InOrder(mConnectedDevices') /\ InOrder(mDisconnDevices')
          /\ Connecteds' \cap Disconnecteds' = {} /\ Connecteds' \cup Disconnecteds' = Devices
      BY <1>5, <2>2, <3>1, <3>3, HubConnectedSets
    <3> QED
      BY <2>2, <3>2, <3>4 DEF SetsOK
  <2> QED
    BY <2>1, <2>2
<1>6. ASSUME NEW i \in DOMAIN remote, DeviceSetHandle(i) \/ DeviceSetConnected(i)
      PROVE  SetsOK' /\ (~crossed' => ~crossed)
  <2>1. UNCHANGED <<mConnectedDevices, mDisconnDevices>> /\ crossed' = (crossed \/ ~Aligned')
    BY <1>6 DEF DeviceSetHandle, DeviceSetConnected
  <2> QED
    BY <1>0, <2>1, SetsAligned
<1>7. ASSUME NEW i \in DOMAIN remote, TakeHandle(i) \/ Discovered(i)
      PROVE  SetsOK' /\ (~crossed' => ~crossed)
  BY <1>1, <1>7 DEF TakeHandle, Discovered, deviceVars
<1>8. CASE DeviceDisconnected
  <2>1. UNCHANGED setVars /\ \A d \in Devices : mCnntStatus'[d] = "Connected" =>
           mCnntStatus[d] = "Connected" /\ mHandle'[d] = mHandle[d]
    BY <1>0, <1>8 DEF DeviceDisconnected, OnDisconnected, deviceVars, setVars
  <2> QED
    BY <2>1, SetsKept DEF setVars
<1>9. CASE OnConnectEvent \/ OnConnectError \/ LinkTerminated \/ LinkTerminatedAsAsked
           \/ LinkTerminatedUnknown
  BY <1>1, <1>9 DEF OnConnectEvent, OnConnectError, LinkTerminated, LinkTerminatedAsAsked,
     LinkTerminatedUnknown, deviceVars
<1>10. ASSUME NEW h \in Handles, LinkUp(h) \/ LinkLost(h)
      PROVE  SetsOK' /\ (~crossed' => ~crossed)
  BY <1>1, <1>10 DEF LinkUp, LinkLost, deviceVars
<1>11. ASSUME NEW c \in Clients, NEW d \in Devices,
             ConnectCall(c, d) \/ DisconnectCall(c, d) \/ CancelCall(c, d)
      PROVE  SetsOK' /\ (~crossed' => ~crossed)
  BY <1>1, <1>11 DEF ConnectCall, DisconnectCall, CancelCall, deviceVars
<1>12. CASE UNCHANGED vars
  BY <1>1, <1>12 DEF vars, deviceVars
<1> QED
  BY <1>3, <1>4, <1>5, <1>6, <1>7, <1>8, <1>9, <1>10, <1>11, <1>12
     DEF Next, EventStep, DeviceStep
-----------------------------------------------------------------------------
(* Every RemoteDevice is where its thread says. *)

\* At first there are none.
LEMMA ObjectsInit == Init => ObjectsOK
BY DEF Init, ObjectsOK, Elements, Busy, NoEvent, Active

\* Steps that leave the RemoteDevices and their lists alone.
LEMMA ObjectsIdle ==
    ASSUME ObjectsOK, UNCHANGED <<listVars, remote, event>>
    PROVE  ObjectsOK'
BY DEF ObjectsOK, InList, Busy, listVars

\* The command thread makes, cancels and disconnects them.
LEMMA ObjectsRequests ==
    ASSUME DataOK, ObjectsOK, NEW c \in Clients, Request(c)
    PROVE  ObjectsOK'
<1> USE DEF DataOK
<1>1. CASE Connect(c)
  <2>1. CASE mIsConnecting
    BY <1>1, <2>1, ObjectsIdle DEF Connect
  <2>2. CASE ~mIsConnecting
    <3> DEFINE n == Len(remote) + 1
    <3>1. /\ n \notin DOMAIN remote /\ DOMAIN remote' = DOMAIN remote \cup {n}
          /\ \A j \in DOMAIN remote : remote'[j] = remote[j]
          /\ remote'[n].thread = "none"
          /\ remote'[n].handle = INVALID_HANDLE /\ remote'[n].link = INVALID_HANDLE
          /\ Elements(mConnectingDevice') = {n} \cup Elements(mConnectingDevice)
          /\ UNCHANGED <<mConnectedDevice, mDisconnectingDevice, mCancelConnectingDevice>>
      BY <1>1, <2>2, ConnectDoes
    <3>2. UNCHANGED event
      BY <1>1 DEF Connect
    <3>3. /\ n \notin Elements(mConnectedDevice) /\ n \notin Elements(mDisconnectingDevice)
          /\ n # mCancelConnectingDevice \/ mCancelConnectingDevice = NULL
          /\ mCancelConnectingDevice \in DOMAIN remote \/ mCancelConnectingDevice = NULL
          /\ Busy => event.del \in DOMAIN remote
          /\ Elements(mConnectingDevice) \subseteq DOMAIN remote
          /\ Elements(mDisconnectingDevice) \subseteq DOMAIN remote
      BY <3>1 DEF ListOK, EventOK
    <3> HIDE DEF n
    <3> QED
      BY <3>1, <3>2, <3>3, ConnectionAssumption DEF ObjectsOK, InList, Busy, Active
  <2> QED
    BY <2>1, <2>2
<1>2. CASE CancelConnect(c)
  <2>1. /\ UNCHANGED <<remote, mConnectedDevice, mDisconnectingDevice, event>>
        /\ \/ UNCHANGED <<mCancelConnectingDevice, mConnectingDevice>>
           \/ /\ mCancelConnectingDevice' \in Elements(mConnectingDevice)
              /\ Elements(mConnectingDevice') =
                    Elements(mConnectingDevice) \ {mCancelConnectingDevice'}
    BY <1>2, CancelConnectDoes DEF CancelConnect
  <2>2. Elements(mConnectingDevice) \subseteq DOMAIN remote
    BY DEF ListOK
  <2> QED
    BY <2>1, <2>2 DEF ObjectsOK, InList, Busy
<1>3. CASE DisconnectUnknown(c) \/ DisconnectBegin(c)
  BY <1>3, ObjectsIdle DEF DisconnectUnknown, DisconnectBegin
<1>4. CASE DisconnectEnd(c)
  <2> DEFINE mine == {i \in Elements(mConnectedDevice) : remote[i].handle = client[c].handle}
  <2>1. /\ DOMAIN remote' = DOMAIN remote
        /\ \A j \in DOMAIN remote :
              /\ remote'[j].handle = remote[j].handle
              /\ remote'[j].link = remote[j].link
              /\ remote'[j].thread = IF j \in mine THEN "stopped" ELSE remote[j].thread
        /\ Elements(mConnectedDevice') = Elements(mConnectedDevice) \ mine
        /\ Elements(mDisconnectingDevice') = mine \cup Elements(mDisconnectingDevice)
        /\ UNCHANGED <<mConnectingDevice, mCancelConnectingDevice>>
    BY <1>4, DisconnectEndDoes
  <2>2. UNCHANGED event
    BY <1>4 DEF DisconnectEnd
  <2>3. /\ mine \subseteq Elements(mConnectedDevice)
        /\ Elements(mConnectingDevice) \subseteq DOMAIN remote
        /\ Elements(mConnectedDevice) \subseteq DOMAIN remote
        /\ Elements(mDisconnectingDevice) \subseteq DOMAIN remote
        /\ mCancelConnectingDevice \in DOMAIN remote \/ mCancelConnectingDevice = NULL
        /\ Busy => event.del \in DOMAIN remote
    BY DEF ListOK, EventOK
  <2> HIDE DEF mine
  <2> QED
    BY <2>1, <2>2, <2>3 DEF ObjectsOK, InList, Busy, Active
<1> QED
  BY <1>1, <1>2, <1>3, <1>4 DEF Request

\* The event thread connects, terminates and deletes them.
LEMMA ObjectsEvents ==
    ASSUME DataOK, ObjectsOK, EventStep
    PROVE  ObjectsOK'
<1> USE DEF DataOK
<1>0. /\ Elements(mConnectingDevice) \subseteq DOMAIN remote
      /\ Elements(mConnectedDevice) \subseteq DOMAIN remote
      /\ Elements(mDisconnectingDevice) \subseteq DOMAIN remote
      /\ mCancelConnectingDevice \in DOMAIN remote \/ mCancelConnectingDevice = NULL
      /\ Busy => event.del \in DOMAIN remote
  BY DEF ListOK, EventOK
<1>1. CASE OnConnectEvent
  <2> DEFINE mine == {i \in Elements(mConnectingDevice) : remote[i].addr = events[1].addr}
  <2>1. /\ DOMAIN remote' = DOMAIN remote
        /\ \A j \in DOMAIN remote :
              /\ remote'[j].handle = remote[j].handle
              /\ remote'[j].thread = IF j \in mine THEN "setup" ELSE remote[j].thread
              /\ remote'[j].link = IF j \in mine THEN events[1].handle ELSE remote[j].link
        /\ Elements(mConnectingDevice') = Elements(mConnectingDevice) \ mine
        /\ Elements(mConnectedDevice') = mine \cup Elements(mConnectedDevice)
        /\ UNCHANGED <<mDisconnectingDevice, mCancelConnectingDevice>>
    BY <1>1, OnConnectEventDoes
  <2>2. UNCHANGED event /\ events[1].handle \in Handles
    BY <1>1, EventTaken DEF OnConnectEvent, DongleOK
  <2>3. mine \subseteq Elements(mConnectingDevice)
    OBVIOUS
  <2> HIDE DEF mine
  <2> QED
    BY <2>1, <2>2, <2>3, <1>0, ConnectionAssumption DEF ObjectsOK, InList, Busy, Active,
       Threads
<1>2. CASE OnConnectError
  <2>1. UNCHANGED <<listVars, remote>>
    BY <1>2 DEF OnConnectError
  <2>2. CASE event' = [NoEvent EXCEPT !.pc = "crashed"]
    BY <2>1, <2>2 DEF ObjectsOK, InList, Busy, NoEvent, listVars
  <2>3. CASE /\ mCancelConnectingDevice # NULL
             /\ remote[mCancelConnectingDevice].thread # "deleted"
             /\ event' = [pc |-> "hub", addr |-> remote[mCancelConnectingDevice].addr,
                          handle |-> INVALID_HANDLE, del |-> mCancelConnectingDevice]
    BY <2>1, <2>3 DEF ObjectsOK, InList, Busy, listVars
  <2> QED
    BY <1>2, <2>2, <2>3 DEF OnConnectError
<1>3. CASE LinkTerminated
  <2> DEFINE mine == {i \in Elements(mConnectedDevice) : remote[i].handle = events[1].handle}
  <2>1. /\ DOMAIN remote' = DOMAIN remote
        /\ \A j \in DOMAIN remote :
              /\ remote'[j].handle = remote[j].handle
              /\ remote'[j].link = remote[j].link
              /\ remote'[j].thread = IF j \in mine THEN "stopped" ELSE remote[j].thread
        /\ Elements(mConnectedDevice') = Elements(mConnectedDevice) \ mine
        /\ UNCHANGED <<mConnectingDevice, mDisconnectingDevice, mCancelConnectingDevice>>
        /\ event'.pc = "hub" /\ event'.handle = events[1].handle /\ event'.del \in mine
    BY <1>3, LinkTerminatedDoes
  <2>2. /\ mine \subseteq Elements(mConnectedDevice)
        /\ \A i \in mine : remote[i].handle = events[1].handle
    OBVIOUS
  <2> HIDE DEF mine
  <2> QED
    BY <2>1, <2>2, <1>0 DEF ObjectsOK, InList, Busy, Active
<1>4. CASE LinkTerminatedAsAsked
  <2> DEFINE mine == {i \in Elements(mDisconnectingDevice) : remote[i].handle = events[1].handle}
  <2>1. /\ Elements(mDisconnectingDevice') = Elements(mDisconnectingDevice) \ mine
        /\ UNCHANGED <<mConnectingDevice, mConnectedDevice, mCancelConnectingDevice, remote>>
        /\ event'.pc = "hub" /\ event'.handle = events[1].handle /\ event'.del \in mine
    BY <1>4, LinkTerminatedAsAskedDoes
  <2>2. /\ mine \subseteq Elements(mDisconnectingDevice)
        /\ \A i \in mine : remote[i].handle = events[1].handle
    OBVIOUS
  <2> HIDE DEF mine
  <2> QED
    BY <2>1, <2>2, <1>0 DEF ObjectsOK, InList, Busy, Active
<1>5. CASE LinkTerminatedUnknown
  BY <1>5, ObjectsIdle DEF LinkTerminatedUnknown
<1>6. CASE HubDisconnected
  <2>1. /\ UNCHANGED <<listVars, remote>> /\ Busy
        /\ event'.del = event.del /\ event'.handle = event.handle
    <3>1. event.pc = "hub" /\ UNCHANGED <<listVars, remote>>
      BY <1>6 DEF HubDisconnected
    <3>2. event'.del = event.del /\ event'.handle = event.handle
      <4>1. ASSUME NEW d, event' = [event EXCEPT !.pc = "device", !.addr = d]
            PROVE  event'.del = event.del /\ event'.handle = event.handle
        BY <4>1
      <4>2. ASSUME NEW pc, event' = [event EXCEPT !.pc = pc]
            PROVE  event'.del = event.del /\ event'.handle = event.handle
        BY <4>2
      <4> QED
        BY <1>6, <4>1, <4>2 DEF HubDisconnected
    <3> QED
      BY <3>1, <3>2 DEF Busy
  <2> QED
    BY <2>1 DEF ObjectsOK, InList, listVars, Busy
<1>7. CASE DeviceDisconnected
  <2>1. /\ UNCHANGED listVars /\ Busy
        /\ remote' = [remote EXCEPT ![event.del].thread = "deleted"]
        /\ event' = NoEvent
    BY <1>7 DEF DeviceDisconnected, Busy
  <2>2. "deleted" \in Threads /\ "deleted" \notin Reporting
    BY DEF Threads, Reporting
  <2>3. /\ event.del \in DOMAIN remote /\ DOMAIN remote' = DOMAIN remote
        /\ remote'[event.del].thread = "deleted"
        /\ \A j \in DOMAIN remote : /\ remote'[j].handle = remote[j].handle
                                    /\ remote'[j].link = remote[j].link
                                    /\ j # event.del => remote'[j] = remote[j]
    BY <1>0, <2>1, <2>2, ThreadMoved
  <2> QED
    BY <1>0, <2>1, <2>3 DEF ObjectsOK, InList, Busy, NoEvent, Active, listVars
<1> QED
  BY <1>1, <1>2, <1>3, <1>4, <1>5, <1>6, <1>7 DEF EventStep

\* Their own threads bring them from setup to connected.
LEMMA ObjectsThreads ==
    ASSUME DataOK, ObjectsOK, NEW i \in DOMAIN remote, DeviceStep(i)
    PROVE  ObjectsOK'
<1> USE DEF DataOK
<1>0. /\ Elements(mConnectingDevice) \subseteq DOMAIN remote
      /\ Elements(mConnectedDevice) \subseteq DOMAIN remote
      /\ Elements(mDisconnectingDevice) \subseteq DOMAIN remote
      /\ mCancelConnectingDevice \in DOMAIN remote \/ mCancelConnectingDevice = NULL
      /\ Busy => event.del \in DOMAIN remote
      /\ remote[i].thread \in Reporting => remote[i].dev \in Devices
  BY DEF ListOK, EventOK, RemoteOK
<1>1. UNCHANGED <<listVars, event>>
  BY DEF DeviceStep, TakeHandle, Discovered, HubConnected, DeviceSetHandle,
     DeviceSetConnected
<1>2. CASE TakeHandle(i)
  <2>1. remote[i].thread = "setup"
    BY <1>2 DEF TakeHandle
  <2> QED
    BY <1>0, <1>1, <1>2, <2>1, TakeHandleDoes DEF ObjectsOK, InList, Busy, Active, Threads,
       listVars
<1>3. CASE ~TakeHandle(i)
  <2>1. /\ DOMAIN remote' = DOMAIN remote
        /\ remote[i].thread \in Active \ {"setup"} /\ remote'[i].thread \in Active \ {"setup"}
        /\ \A j \in DOMAIN remote : /\ remote'[j].handle = remote[j].handle
                                    /\ remote'[j].link = remote[j].link
                                    /\ j # i => remote'[j] = remote[j]
    <3>1. CASE Discovered(i)
      <4>1. remote[i].thread = "discovering"
        BY <3>1 DEF Discovered
      <4> QED
        BY <3>1, <4>1, DiscoveredDoes DEF Active, Threads
    <3>2. CASE HubConnected(i) \/ DeviceSetHandle(i) \/ DeviceSetConnected(i)
      <4>1. PICK t \in Active \ {"setup"} : remote' = [remote EXCEPT ![i].thread = t]
        BY <3>2 DEF HubConnected, DeviceSetHandle, DeviceSetConnected, Threads, Active
      <4>2. remote[i].thread \in Reporting
        BY <3>2 DEF HubConnected, DeviceSetHandle, DeviceSetConnected, Reporting
      <4> QED
        BY <1>0, <4>1, <4>2, ThreadMoved DEF Active, Threads, Reporting
    <3> QED
      BY <1>3, <3>1, <3>2 DEF DeviceStep
  <2> QED
    BY <1>0, <1>1, <2>1 DEF ObjectsOK, InList, Busy, Active, Threads, listVars
<1> QED
  BY <1>2, <1>3

\* Every step keeps them there.
LEMMA ObjectsStep == DataOK /\ ObjectsOK /\ [Next]_vars => ObjectsOK'
<1> SUFFICES ASSUME DataOK, ObjectsOK, [Next]_vars PROVE ObjectsOK'
  OBVIOUS
<1>1. ASSUME NEW h \in Handles, LinkUp(h) \/ LinkLost(h)
      PROVE  ObjectsOK'
  BY <1>1, ObjectsIdle DEF LinkUp, LinkLost
<1>2. ASSUME NEW c \in Clients, NEW d \in Devices,
             ConnectCall(c, d) \/ DisconnectCall(c, d) \/ CancelCall(c, d)
      PROVE  ObjectsOK'
  BY <1>2, ObjectsIdle DEF ConnectCall, DisconnectCall, CancelCall
<1>3. ASSUME NEW c \in Clients, WriteStatus(c)
      PROVE  ObjectsOK'
  BY <1>3, ObjectsIdle DEF WriteStatus
<1>4. CASE UNCHANGED vars
  BY <1>4, ObjectsIdle DEF vars
<1> QED
  BY <1>1, <1>2, <1>3, <1>4, ObjectsRequests, ObjectsEvents, ObjectsThreads DEF Next
-----------------------------------------------------------------------------
(* As long as no handle is given again too soon, a handle means one armband. *)

\* At first no handle means anything.
LEMMA DistinctInit == Init => Distinct
BY ConnectionAssumption
   DEF Init, Distinct, UpFresh, DownGone, OneAddr, OwnDev, KnownHandle, RightDel, Busy, NoEvent

\* Steps that change nothing it depends on.
LEMMA DistinctIdle ==
    ASSUME Distinct, UNCHANGED <<mHandle, remote, event, links, events>>
    PROVE  Distinct'
BY DEF Distinct, UpFresh, DownGone, OneAddr, OwnDev, KnownHandle, RightDel, Busy, Alive

\* A last event that is new.
LEMMA LastEvent ==
    ASSUME DongleOK, NEW e, events' = Append(events, e)
    PROVE  /\ Len(events) \in Nat /\ Len(events') = Len(events) + 1
           /\ events'[Len(events) + 1] = e
           /\ \A k \in 1..Len(events) : k \in 1..Len(events') /\ events'[k] = events[k]
           /\ \A k \in 1..Len(events') : k \in 1..Len(events) \/ k = Len(events) + 1
BY DEF DongleOK

\* Links that come stay fresh while no thread gets one and no event tells of one.
LEMMA FreshKept ==
    ASSUME UpFresh, DongleOK, NEW shift \in {0, 1},
           \A j \in DOMAIN remote' : remote'[j].thread # "deleted" =>
              \/ remote'[j].link = INVALID_HANDLE
              \/ /\ j \in DOMAIN remote /\ remote[j].thread # "deleted"
                 /\ remote'[j].link = remote[j].link,
           \A k \in 1..Len(events') : events'[k].kind = "up" =>
              k + shift \in 1..Len(events) /\ events'[k] = events[k + shift]
    PROVE  UpFresh'
<1> SUFFICES ASSUME NEW k \in 1..Len(events'), events'[k].kind = "up"
             PROVE  /\ \A i \in DOMAIN remote' :
                          remote'[i].thread # "deleted" => remote'[i].link # events'[k].handle
                    /\ \A l \in 1..Len(events') :
                          events'[l].kind = "up" /\ events'[l].handle = events'[k].handle => l = k
  BY DEF UpFresh, Alive
<1>1. /\ k + shift \in 1..Len(events) /\ events'[k] = events[k + shift]
      /\ events'[k].handle \in Handles
  BY DEF DongleOK
<1>2. \A i \in DOMAIN remote' : remote'[i].thread # "deleted" => remote'[i].link # events'[k].handle
  BY <1>1, ConnectionAssumption DEF UpFresh, Alive
<1>3. ASSUME NEW l \in 1..Len(events'), events'[l].kind = "up", events'[l].handle = events'[k].handle
      PROVE  l = k
  <2>1. l + shift \in 1..Len(events) /\ events'[l] = events[l + shift]
    BY <1>3
  <2>2. l + shift = k + shift
    BY <1>1, <1>3, <2>1 DEF UpFresh
  <2> QED
    BY <2>2
<1> QED
  BY <1>2, <1>3

\* Ended links stay ended while none begins.
LEMMA GoneKept ==
    ASSUME DownGone, DongleOK, NEW shift \in {0, 1},
           \A h \in Handles : links[h] = NoDevice => links'[h] = NoDevice,
           \A k \in 1..Len(events') : events'[k].kind = "down" =>
              /\ events'[k].handle \in Handles
              /\ \/ links'[events'[k].handle] = NoDevice
                 \/ k + shift \in 1..Len(events) /\ events'[k] = events[k + shift],
           Busy' /\ event'.handle \in Handles =>
              links'[event'.handle] = NoDevice \/ (Busy /\ event'.handle = event.handle)
    PROVE  DownGone'
<1>1. ASSUME NEW k \in 1..Len(events'), events'[k].kind = "down"
      PROVE  links'[events'[k].handle] = NoDevice
  BY <1>1 DEF DownGone
<1> QED
  BY <1>1 DEF DownGone

\* A link is dropped.
LEMMA DropFacts ==
    ASSUME DataOK, Distinct, NEW h \in Handles, DropLink(h)
    PROVE  /\ \A g \in Handles : links[g] = NoDevice => links'[g] = NoDevice
           /\ \A k \in 1..Len(events') : events'[k].kind = "down" =>
                 /\ events'[k].handle \in Handles
                 /\ \/ links'[events'[k].handle] = NoDevice
                    \/ k + 0 \in 1..Len(events) /\ events'[k] = events[k + 0]
           /\ \A k \in 1..Len(events') : events'[k].kind = "up" =>
                 k + 0 \in 1..Len(events) /\ events'[k] = events[k + 0]
<1> DEFINE e == [kind |-> "down", addr |-> NoDevice, handle |-> h]
<1>1. events' = Append(events, e) /\ links' = [links EXCEPT ![h] = NoDevice]
  BY DEF DropLink
<1>2. e.kind = "down" /\ e.handle = h
  OBVIOUS
<1> HIDE DEF e
<1>3. DongleOK
  BY DEF DataOK
<1>4. \A g \in Handles : links[g] = NoDevice => links'[g] = NoDevice
  BY <1>1, <1>3 DEF DongleOK
<1>5. links'[h] = NoDevice
  BY <1>1, <1>3 DEF DongleOK
<1>6. ASSUME NEW k \in 1..Len(events')
      PROVE  \/ k + 0 \in 1..Len(events) /\ events'[k] = events[k + 0]
             \/ events'[k] = e
  <2>1. CASE k \in 1..Len(events)
    <3>1. k + 0 = k
      OBVIOUS
    <3> QED
      BY <1>1, <1>3, <2>1, <3>1, LastEvent
  <2>2. CASE k = Len(events) + 1
    BY <1>1, <1>3, <2>2, LastEvent
  <2> QED
    BY <1>1, <1>3, <2>1, <2>2, LastEvent
<1>7. \A k \in 1..Len(events) : events[k].kind = "down" => events[k].handle \in Handles
  BY <1>3 DEF DongleOK
<1> QED
  BY <1>2, <1>4, <1>5, <1>6, <1>7

\* A link comes up with a handle nothing refers to, or is lost.
LEMMA DistinctDongle ==
    ASSUME DataOK, Distinct, NEW h \in Handles,
           \/ LinkUp(h) /\ ~InUse(h)
           \/ LinkLost(h)
    PROVE  Distinct'
<1>1. UNCHANGED <<mHandle, remote, event>>
  BY DEF LinkUp, LinkLost, deviceVars
<1>2. OneAddr' /\ OwnDev' /\ KnownHandle' /\ RightDel'
  BY <1>1 DEF Distinct, OneAddr, OwnDev, KnownHandle, RightDel, Busy, Alive
<1>3. CASE LinkUp(h) /\ ~InUse(h)
  <2> DEFINE e == [kind |-> "up", addr |-> pending, handle |-> h]
             n == Len(events) + 1
  <2>1. events' = Append(events, e) /\ links' = [links EXCEPT ![h] = pending]
    BY <1>3 DEF LinkUp
  <2>2. e.kind = "up" /\ e.handle = h
    OBVIOUS
  <2> HIDE DEF e
  <2>3. /\ n \notin 1..Len(events) /\ events'[n] = e
        /\ \A k \in 1..Len(events) : events'[k] = events[k]
        /\ \A k \in 1..Len(events') : k \in 1..Len(events) \/ k = n
    BY <2>1, LastEvent DEF DataOK
  <2>4. /\ event.handle # h
        /\ \A k \in 1..Len(events) : events[k].handle # h
        /\ \A i \in DOMAIN remote : remote[i].thread # "deleted" => remote[i].link # h
    BY <1>3 DEF InUse
  <2>5. \A g \in Handles : g # h => links'[g] = links[g]
    BY <2>1 DEF DataOK, DongleOK
  <2> HIDE DEF n
  <2>6. UpFresh'
    <3>1. ASSUME NEW k \in 1..Len(events'), events'[k].kind = "up"
          PROVE  \A i \in DOMAIN remote :
                    remote[i].thread # "deleted" => remote[i].link # events'[k].handle
      BY <2>2, <2>3, <2>4, <3>1 DEF Distinct, UpFresh, Alive
    <3>2. ASSUME NEW k \in 1..Len(events'), events'[k].kind = "up",
                 NEW l \in 1..Len(events'), events'[l].kind = "up",
                 events'[l].handle = events'[k].handle
          PROVE  l = k
      BY <2>2, <2>3, <2>4, <3>2 DEF Distinct, UpFresh
    <3> QED
      BY <1>1, <3>1, <3>2 DEF UpFresh, Alive
  <2>7. DownGone'
    <3>1. ASSUME NEW k \in 1..Len(events'), events'[k].kind = "down"
          PROVE  links'[events'[k].handle] = NoDevice
      <4>1. k \in 1..Len(events) /\ events'[k] = events[k]
        BY <2>2, <2>3, <3>1
      <4>2. events[k].handle \in Handles /\ events[k].handle # h
            /\ links[events[k].handle] = NoDevice
        BY <3>1, <4>1, <2>4 DEF DataOK, DongleOK, Distinct, DownGone
      <4> QED
        BY <4>1, <4>2, <2>5
    <3>2. Busy' /\ event'.handle \in Handles => links'[event'.handle] = NoDevice
      BY <1>1, <2>4, <2>5 DEF Distinct, DownGone, Busy
    <3> QED
      BY <3>1, <3>2 DEF DownGone
  <2> QED
    BY <1>2, <2>6, <2>7 DEF Distinct
<1>4. CASE LinkLost(h)
  <2>1. DropLink(h)
    BY <1>4 DEF LinkLost
  <2>2. UpFresh'
    BY <1>1, <2>1, DropFacts, FreshKept DEF Distinct, DataOK
  <2>3. DownGone'
    <3>1. Busy' => Busy
      BY <1>1 DEF Busy
    <3> QED
      BY <1>1, <2>1, <3>1, DropFacts, GoneKept DEF Distinct, DataOK
  <2> QED
    BY <1>2, <2>2, <2>3 DEF Distinct
<1> QED
  BY <1>3, <1>4

\* Nothing that a handle means changes when threads only end.
LEMMA QuieterKept ==
    ASSUME Distinct, EventOK, DOMAIN remote' = DOMAIN remote, UNCHANGED mHandle,
           \A j \in DOMAIN remote :
              /\ remote'[j].addr = remote[j].addr
              /\ remote'[j].handle = remote[j].handle
              /\ remote'[j].link = remote[j].link
              /\ remote'[j].dev = remote[j].dev
              /\ remote'[j].thread # "deleted" <=> remote[j].thread # "deleted"
              /\ remote'[j].thread \in Reporting => remote[j].thread \in Reporting
    PROVE  OneAddr' /\ OwnDev' /\ KnownHandle' /\ (UNCHANGED event => RightDel')
<1>1. OneAddr'
  BY DEF Distinct, OneAddr, Alive
<1>2. OwnDev'
  BY DEF Distinct, OwnDev
<1>3. KnownHandle'
  <2> SUFFICES ASSUME NEW d \in Devices, mHandle[d] \in Handles
               PROVE  \E i \in DOMAIN remote' :
                         /\ remote'[i].thread # "deleted" /\ remote'[i].handle = mHandle[d]
                         /\ remote'[i].addr = d
    BY DEF KnownHandle, Alive
  <2>1. PICK i \in DOMAIN remote : /\ remote[i].thread # "deleted"
                                  /\ remote[i].handle = mHandle[d] /\ remote[i].addr = d
    BY DEF Distinct, KnownHandle, Alive
  <2> QED
    BY <2>1
<1>4. ASSUME UNCHANGED event PROVE RightDel'
  <2> SUFFICES ASSUME Busy, event.handle \in Handles
               PROVE  /\ event.addr = remote'[event.del].addr
                      /\ event.pc = "delete" => mHandle[event.addr] # event.handle
                      /\ \A i \in DOMAIN remote' : remote'[i].handle = event.handle =>
                            remote'[i].thread \notin Reporting
    BY <1>4 DEF RightDel, Busy
  <2>1. RightDel /\ event.del \in DOMAIN remote
    BY DEF Distinct, EventOK
  <2> QED
    BY <2>1 DEF RightDel
<1> QED
  BY <1>1, <1>2, <1>3, <1>4

\* The command thread gives no handle a new meaning.
LEMMA DistinctRequests ==
    ASSUME DataOK, ObjectsOK, Distinct, NEW c \in Clients, Request(c)
    PROVE  Distinct'
<1> USE DEF DataOK
<1>1. CASE Connect(c)
  <2>1. CASE mIsConnecting
    BY <1>1, <2>1, DistinctIdle DEF Connect, dongleVars
  <2>2. CASE ~mIsConnecting
    <3> DEFINE n == Len(remote) + 1
    <3>1. /\ n \notin DOMAIN remote /\ DOMAIN remote' = DOMAIN remote \cup {n}
          /\ \A j \in DOMAIN remote : remote'[j] = remote[j]
          /\ remote'[n].thread = "none"
          /\ remote'[n].handle = INVALID_HANDLE /\ remote'[n].link = INVALID_HANDLE
          /\ RequestLink(client[c].dev)
      BY <1>1, <2>2, ConnectDoes
    <3>2. UNCHANGED <<mHandle, event, links, events>>
      BY <1>1, <3>1 DEF Connect, RequestLink
    <3>3. Busy => event.del \in DOMAIN remote
      BY DEF EventOK
    <3>4. UpFresh' /\ DownGone'
      BY <3>1, <3>2, ConnectionAssumption DEF Distinct, UpFresh, DownGone, Busy, Alive,
         DongleOK
    <3> HIDE DEF n
    <3>5. OneAddr'
      BY <3>1, ConnectionAssumption DEF Distinct, OneAddr, Alive
    <3>6. OwnDev'
      BY <3>1 DEF Distinct, OwnDev, Reporting
    <3>7. KnownHandle'
      <4> SUFFICES ASSUME NEW d \in Devices, mHandle[d] \in Handles
                   PROVE  \E i \in DOMAIN remote' :
                             /\ remote'[i].thread # "deleted" /\ remote'[i].handle = mHandle[d]
                             /\ remote'[i].addr = d
        BY <3>2 DEF KnownHandle, Alive
      <4>1. PICK i \in DOMAIN remote : /\ remote[i].thread # "deleted"
                                      /\ remote[i].handle = mHandle[d] /\ remote[i].addr = d
        BY DEF Distinct, KnownHandle, Alive
      <4> QED
        BY <4>1, <3>1
    <3>8. RightDel'
      BY <3>1, <3>2, <3>3 DEF Distinct, RightDel, Busy, Reporting
    <3> QED
      BY <3>4, <3>5, <3>6, <3>7, <3>8 DEF Distinct
  <2> QED
    BY <2>1, <2>2
<1>2. CASE CancelConnect(c)
  <2> DEFINE e == [kind |-> "upError", addr |-> NoDevice, handle |-> INVALID_HANDLE]
  <2>1. /\ UNCHANGED <<mHandle, remote, event, links>>
        /\ UNCHANGED events \/ events' = Append(events, e)
    BY <1>2 DEF CancelConnect, CancelLinkRequest
  <2>2. CASE UNCHANGED events
    BY <2>1, <2>2, DistinctIdle
  <2>3. CASE events' = Append(events, e)
    <3>1. e.kind = "upError"
      OBVIOUS
    <3> HIDE DEF e
    <3>2. \A k \in 1..Len(events') : events'[k].kind # "upError" =>
             k + 0 \in 1..Len(events) /\ events'[k] = events[k + 0]
      <4>1. \A k \in 1..Len(events) : k + 0 = k
        OBVIOUS
      <4> QED
        BY <2>3, <3>1, <4>1, LastEvent
    <3>3. UpFresh'
      BY <2>1, <3>2, FreshKept DEF Distinct
    <3>4. DownGone'
      <4>1. Busy' => Busy
        BY <2>1 DEF Busy
      <4>2. \A k \in 1..Len(events) : events[k].kind = "down" => events[k].handle \in Handles
        BY DEF DongleOK
      <4> QED
        BY <2>1, <3>2, <4>1, <4>2, GoneKept DEF Distinct
    <3>5. OneAddr' /\ OwnDev' /\ KnownHandle' /\ RightDel'
      BY <2>1 DEF Distinct, OneAddr, OwnDev, KnownHandle, RightDel, Busy, Alive
    <3> QED
      BY <3>3, <3>4, <3>5 DEF Distinct
  <2> QED
    BY <2>1, <2>2, <2>3
<1>3. CASE DisconnectUnknown(c) \/ DisconnectBegin(c)
  BY <1>3, DistinctIdle DEF DisconnectUnknown, DisconnectBegin, deviceVars, dongleVars
<1>4. CASE DisconnectEnd(c)
  <2> DEFINE mine == {i \in Elements(mConnectedDevice) : remote[i].handle = client[c].handle}
  <2>1. /\ DOMAIN remote' = DOMAIN remote
        /\ \A j \in DOMAIN remote :
              /\ remote'[j].addr = remote[j].addr
              /\ remote'[j].handle = remote[j].handle
              /\ remote'[j].link = remote[j].link
              /\ remote'[j].dev = remote[j].dev
              /\ remote'[j].thread = IF j \in mine THEN "stopped" ELSE remote[j].thread
        /\ TerminateLink(client[c].handle)
    BY <1>4, DisconnectEndDoes
  <2>2. UNCHANGED <<mHandle, event>>
    BY <1>4 DEF DisconnectEnd
  <2>3. \A j \in mine : j \in DOMAIN remote /\ remote[j].thread # "deleted"
    BY DEF ListOK, ObjectsOK, Active
  <2> HIDE DEF mine
  <2>4. \A j \in DOMAIN remote :
           /\ remote'[j].thread # "deleted" <=> remote[j].thread # "deleted"
           /\ remote'[j].thread \in Reporting => remote[j].thread \in Reporting
    BY <2>1, <2>3 DEF Reporting
  <2>5. OneAddr' /\ OwnDev' /\ KnownHandle' /\ RightDel'
    BY <2>1, <2>2, <2>4, QuieterKept
  <2>6. UpFresh' /\ DownGone'
    <3>0. Busy' => Busy
      BY <2>2 DEF Busy
    <3>1. CASE client[c].handle \in Handles /\ DropLink(client[c].handle)
      <4>1. UpFresh'
        BY <3>1, <2>1, <2>4, DropFacts, FreshKept DEF Distinct
      <4>2. DownGone'
        BY <3>0, <3>1, <2>2, DropFacts, GoneKept DEF Distinct
      <4> QED
        BY <4>1, <4>2
    <3>2. CASE UNCHANGED dongleVars
      BY <3>2, <2>1, <2>2, <2>4 DEF Distinct, UpFresh, DownGone, Busy, Alive, dongleVars
    <3> QED
      BY <2>1, <3>1, <3>2 DEF TerminateLink
  <2> QED
    BY <2>5, <2>6 DEF Distinct
<1> QED
  BY <1>1, <1>2, <1>3, <1>4 DEF Request

\* What the taking of an event leaves of the others.
LEMMA TakenFacts ==
    ASSUME DataOK, Distinct, NEW kind, Take(kind)
    PROVE  /\ UNCHANGED links /\ 1 \in 1..Len(events) /\ events[1].kind = kind
           /\ \A k \in 1..Len(events') :
                 k + 1 \in 1..Len(events) /\ k + 1 # 1 /\ events'[k] = events[k + 1]
           /\ \A k \in 1..Len(events') : events'[k].kind = "down" =>
                 events'[k].handle \in Handles
           /\ kind = "down" => events[1].handle \in Handles /\ links[events[1].handle] = NoDevice
<1>1. DongleOK /\ DongleOK'
  BY EventTaken DEF DataOK
<1>2. /\ 1 \in 1..Len(events) /\ events[1].kind = kind
      /\ \A k \in 1..Len(events') : k + 1 \in 1..Len(events) /\ events'[k] = events[k + 1]
  BY <1>1, EventTaken
<1>3. \A k \in 1..Len(events') : k + 1 # 1
  OBVIOUS
<1>4. kind = "down" => events[1].handle \in Handles /\ links[events[1].handle] = NoDevice
  BY <1>1, <1>2 DEF Distinct, DownGone, DongleOK
<1> QED
  BY <1>1, <1>2, <1>3, <1>4 DEF Take, DongleOK

\* The event thread gives a fresh handle to the armband it is for.
LEMMA DistinctEvents ==
    ASSUME DataOK, ObjectsOK, SetsOK, ~crossed, Distinct, EventStep
    PROVE  Distinct'
<1> USE DEF DataOK
<1>0. /\ Elements(mConnectingDevice) \subseteq DOMAIN remote
      /\ Elements(mConnectedDevice) \subseteq DOMAIN remote
      /\ Elements(mDisconnectingDevice) \subseteq DOMAIN remote
      /\ Busy => event.del \in DOMAIN remote
  BY DEF ListOK, EventOK
<1>1. CASE OnConnectEvent
  <2> DEFINE mine == {i \in Elements(mConnectingDevice) : remote[i].addr = events[1].addr}
             h == events[1].handle
  <2>1. /\ DOMAIN remote' = DOMAIN remote
        /\ \A j \in DOMAIN remote :
              /\ remote'[j].addr = remote[j].addr
              /\ remote'[j].handle = remote[j].handle
              /\ remote'[j].dev = remote[j].dev
              /\ remote'[j].thread = IF j \in mine THEN "setup" ELSE remote[j].thread
              /\ remote'[j].link = IF j \in mine THEN h ELSE remote[j].link
    BY <1>1, OnConnectEventDoes
  <2>2. UNCHANGED <<mHandle, event>> /\ Take("up")
    BY <1>1 DEF OnConnectEvent, deviceVars
  <2>3. /\ \A i \in mine : remote[i].addr = events[1].addr
        /\ \A i \in mine : i \in DOMAIN remote /\ remote[i].thread = "none"
    BY <1>0 DEF ObjectsOK
  <2> HIDE DEF mine
  <2>4. /\ 1 \in 1..Len(events) /\ events[1].kind = "up" /\ UNCHANGED links
        /\ \A k \in 1..Len(events') :
              k + 1 \in 1..Len(events) /\ k + 1 # 1 /\ events'[k] = events[k + 1]
    BY <2>2, TakenFacts
  <2>5. h \in Handles
    BY <2>4 DEF DongleOK
  <2>6. UpFresh'
    <3>1. ASSUME NEW k \in 1..Len(events'), events'[k].kind = "up"
          PROVE  /\ events'[k].handle # h
                 /\ \A i \in DOMAIN remote :
                       remote[i].thread # "deleted" => remote[i].link # events'[k].handle
      <4>1. k + 1 \in 1..Len(events) /\ k + 1 # 1 /\ events[k + 1].kind = "up"
            /\ events[k + 1].handle = events'[k].handle
        BY <2>4, <3>1
      <4> QED
        BY <2>4, <4>1 DEF Distinct, UpFresh, Alive
    <3>2. ASSUME NEW k \in 1..Len(events'), events'[k].kind = "up",
                 NEW l \in 1..Len(events'), events'[l].kind = "up",
                 events'[l].handle = events'[k].handle
          PROVE  l = k
      <4>1. /\ k + 1 \in 1..Len(events) /\ events'[k] = events[k + 1]
            /\ l + 1 \in 1..Len(events) /\ events'[l] = events[l + 1]
        BY <2>4
      <4>2. l + 1 = k + 1
        BY <4>1, <3>2 DEF Distinct, UpFresh
      <4> QED
        BY <4>2
    <3>3. ASSUME NEW k \in 1..Len(events'), events'[k].kind = "up",
                 NEW i \in DOMAIN remote', remote'[i].thread # "deleted"
          PROVE  remote'[i].link # events'[k].handle
      BY <2>1, <2>3, <3>1, <3>3
    <3> HIDE DEF h
    <3> QED
      BY <3>2, <3>3 DEF UpFresh, Alive
  <2>7. DownGone'
    <3>1. Busy' => Busy
      BY <2>2 DEF Busy
    <3>2. \A k \in 1..Len(events') : events'[k].kind = "down" => events'[k].handle \in Handles
      BY <2>2, TakenFacts
    <3> QED
      BY <2>2, <2>4, <3>1, <3>2, GoneKept DEF Distinct
  <2>8. OneAddr'
    <3> SUFFICES ASSUME NEW i \in DOMAIN remote, NEW j \in DOMAIN remote,
                        remote'[i].thread # "deleted", remote'[j].thread # "deleted",
                        remote'[i].link = remote'[j].link, remote'[i].link \in Handles
                 PROVE  remote[i].addr = remote[j].addr
      BY <2>1 DEF OneAddr, Alive
    <3>1. \A m \in DOMAIN remote : remote[m].thread # "deleted" => remote[m].link # h
      BY <2>4 DEF Distinct, UpFresh, Alive
    <3>2. CASE i \in mine /\ j \in mine
      BY <2>3, <3>2
    <3>3. CASE i \in mine /\ j \notin mine
      BY <2>1, <3>1, <3>3
    <3>4. CASE i \notin mine /\ j \in mine
      BY <2>1, <3>1, <3>4
    <3>5. CASE i \notin mine /\ j \notin mine
      BY <2>1, <3>5 DEF Distinct, OneAddr, Alive
    <3> QED
      BY <3>2, <3>3, <3>4, <3>5
  <2>9. OwnDev'
    BY <2>1 DEF Distinct, OwnDev, Reporting
  <2>10. KnownHandle'
    <3> SUFFICES ASSUME NEW d \in Devices, mHandle[d] \in Handles
                 PROVE  \E i \in DOMAIN remote' :
                           /\ remote'[i].thread # "deleted" /\ remote'[i].handle = mHandle[d]
                           /\ remote'[i].addr = d
      BY <2>2 DEF KnownHandle, Alive
    <3>1. PICK i \in DOMAIN remote : /\ remote[i].thread # "deleted"
                                    /\ remote[i].handle = mHandle[d] /\ remote[i].addr = d
      BY DEF Distinct, KnownHandle, Alive
    <3> QED
      BY <3>1, <2>1
  <2>11. RightDel'
    BY <1>0, <2>1, <2>2 DEF Distinct, RightDel, Busy, Reporting
  <2> QED
    BY <2>6, <2>7, <2>8, <2>9, <2>10, <2>11 DEF Distinct
<1>2. ASSUME NEW kind, Take(kind), UNCHANGED <<mHandle, remote>>,
             Busy' /\ event'.handle \in Handles =>
                links[event'.handle] = NoDevice \/ (Busy /\ event'.handle = event.handle),
             RightDel'
      PROVE  Distinct'
  <2>1. /\ UNCHANGED links
        /\ \A k \in 1..Len(events') : k + 1 \in 1..Len(events) /\ events'[k] = events[k + 1]
        /\ \A k \in 1..Len(events') : events'[k].kind = "down" => events'[k].handle \in Handles
    BY <1>2, TakenFacts
  <2>2. UpFresh'
    BY <1>2, <2>1, FreshKept DEF Distinct
  <2>3. DownGone'
    BY <1>2, <2>1, GoneKept DEF Distinct
  <2>4. OneAddr' /\ OwnDev' /\ KnownHandle'
    BY <1>2 DEF Distinct, OneAddr, OwnDev, KnownHandle, Alive
  <2> QED
    BY <1>2, <2>2, <2>3, <2>4 DEF Distinct
<1>3. CASE OnConnectError
  <2>1. UNCHANGED <<mHandle, remote>> /\ Take("upError")
    BY <1>3 DEF OnConnectError, deviceVars
  <2>2. Busy' => event'.handle = INVALID_HANDLE
    BY <1>3 DEF OnConnectError, Busy, NoEvent
  <2>3. ~(Busy' /\ event'.handle \in Handles)
    BY <2>2, ConnectionAssumption
  <2>4. RightDel'
    BY <2>3 DEF RightDel
  <2> QED
    BY <1>2, <2>1, <2>3, <2>4
<1>4. CASE LinkTerminated
  <2> DEFINE mine == {i \in Elements(mConnectedDevice) : remote[i].handle = events[1].handle}
             h == events[1].handle
  <2>1. /\ DOMAIN remote' = DOMAIN remote
        /\ \A j \in DOMAIN remote :
              /\ remote'[j].addr = remote[j].addr
              /\ remote'[j].handle = remote[j].handle
              /\ remote'[j].link = remote[j].link
              /\ remote'[j].dev = remote[j].dev
              /\ remote'[j].thread = IF j \in mine THEN "stopped" ELSE remote[j].thread
        /\ event'.pc = "hub" /\ event'.handle = h /\ event'.del \in mine
        /\ event'.addr = remote[event'.del].addr
    BY <1>4, LinkTerminatedDoes
  <2>2. UNCHANGED mHandle /\ Take("down")
    BY <1>4 DEF LinkTerminated, deviceVars
  <2>3. /\ \A j \in mine : j \in DOMAIN remote /\ remote[j].thread # "deleted"
        /\ \A j \in DOMAIN remote : remote[j].thread \in Reporting /\ remote[j].handle = h => j \in mine
    BY <1>0 DEF ObjectsOK, Active, Reporting, Threads
  <2> HIDE DEF mine
  <2>4. \A j \in DOMAIN remote :
           /\ remote'[j].thread # "deleted" <=> remote[j].thread # "deleted"
           /\ remote'[j].thread \in Reporting => remote[j].thread \in Reporting
    BY <2>1, <2>3 DEF Reporting
  <2>5. OneAddr' /\ OwnDev' /\ KnownHandle'
    BY <2>1, <2>2, <2>4, QuieterKept
  <2>6. RightDel'
    BY <2>1, <2>3 DEF RightDel, Reporting
  <2>7. /\ UNCHANGED links /\ links[h] = NoDevice
        /\ \A k \in 1..Len(events') : k + 1 \in 1..Len(events) /\ events'[k] = events[k + 1]
        /\ \A k \in 1..Len(events') : events'[k].kind = "down" => events'[k].handle \in Handles
    BY <2>2, TakenFacts
  <2> HIDE DEF h
  <2>8. UpFresh'
    BY <2>1, <2>4, <2>7, FreshKept DEF Distinct
  <2>9. DownGone'
    <3>1. links'[event'.handle] = NoDevice /\ \A g \in Handles : links[g] = NoDevice => links'[g] = NoDevice
      BY <2>1, <2>7
    <3>2. Busy' /\ event'.handle \in Handles =>
             links'[event'.handle] = NoDevice \/ (Busy /\ event'.handle = event.handle)
      BY <3>1
    <3>3. \A k \in 1..Len(events') : events'[k].kind = "down" =>
              /\ events'[k].handle \in Handles
              /\ \/ links'[events'[k].handle] = NoDevice
                 \/ k + 1 \in 1..Len(events) /\ events'[k] = events[k + 1]
      BY <2>7
    <3>4. DownGone /\ DongleOK
      BY DEF Distinct
    <3> QED
      BY <3>1, <3>2, <3>3, <3>4, GoneKept
  <2> QED
    BY <2>5, <2>6, <2>8, <2>9 DEF Distinct
<1>5. CASE LinkTerminatedAsAsked
  <2> DEFINE h == events[1].handle
  <2>1. /\ UNCHANGED <<mHandle, remote>> /\ Take("down")
        /\ \A i \in Elements(mConnectedDevice) : remote[i].handle # h
        /\ event'.pc = "hub" /\ event'.handle = h
        /\ event'.addr = remote[event'.del].addr
    BY <1>5, LinkTerminatedAsAskedDoes DEF LinkTerminatedAsAsked, deviceVars
  <2>2. links[h] = NoDevice
    BY <2>1, TakenFacts
  <2>3. \A i \in DOMAIN remote : remote[i].handle = h => remote[i].thread \notin Reporting
    BY <2>1 DEF ObjectsOK, Active, Reporting, Threads
  <2> HIDE DEF h
  <2>4. RightDel'
    BY <2>1, <2>3 DEF RightDel
  <2>5. Busy' /\ event'.handle \in Handles =>
           links[event'.handle] = NoDevice \/ (Busy /\ event'.handle = event.handle)
    BY <2>1, <2>2
  <2>6. Take("down") /\ UNCHANGED <<mHandle, remote>>
    BY <2>1
  <2> QED
    BY <1>2, <2>4, <2>5, <2>6
<1>6. CASE LinkTerminatedUnknown
  <2>1. UNCHANGED <<mHandle, remote, event>> /\ Take("down")
    BY <1>6 DEF LinkTerminatedUnknown, deviceVars
  <2>2. RightDel' /\ (Busy' => Busy)
    BY <2>1 DEF Distinct, RightDel, Busy
  <2> QED
    BY <1>2, <2>1, <2>2
<1>7. CASE HubDisconnected
  <2>1. /\ UNCHANGED <<mHandle, remote, links, events>> /\ Busy /\ event.pc = "hub"
    BY <1>7 DEF HubDisconnected, deviceVars, dongleVars, Busy
  <2>2. event.addr \in Devices /\ event.del \in DOMAIN remote
    BY <2>1 DEF EventOK
  <2>3. event'.handle = event.handle /\ event'.del = event.del
    <3>1. ASSUME NEW d, event' = [event EXCEPT !.pc = "device", !.addr = d]
          PROVE  event'.handle = event.handle /\ event'.del = event.del
      BY <3>1
    <3>2. ASSUME NEW pc, event' = [event EXCEPT !.pc = pc]
          PROVE  event'.handle = event.handle /\ event'.del = event.del
      BY <3>2
    <3> QED
      BY <1>7, <3>1, <3>2, HubDisconnectedSets
  <2>4. UpFresh' /\ OneAddr' /\ OwnDev' /\ KnownHandle'
    BY <2>1 DEF Distinct, UpFresh, OneAddr, OwnDev, KnownHandle, Alive
  <2>5. DownGone'
    BY <2>1, <2>3 DEF Distinct, DownGone
  <2>6. RightDel'
    <3> SUFFICES ASSUME event.handle \in Handles
                 PROVE  /\ event'.addr = remote[event.del].addr
                        /\ event'.pc = "delete" => mHandle[event'.addr] # event.handle
                        /\ \A i \in DOMAIN remote : remote[i].handle = event.handle =>
                              remote[i].thread \notin Reporting
      BY <2>1, <2>3 DEF RightDel
    <3>1. /\ event.addr = remote[event.del].addr
          /\ \A i \in DOMAIN remote : remote[i].handle = event.handle =>
                              remote[i].thread \notin Reporting
      BY <2>1 DEF Distinct, RightDel
    <3>2. ASSUME NEW d \in Connecteds, mHandle[d] = event.handle,
                 event' = [event EXCEPT !.pc = "device", !.addr = d]
          PROVE  event'.addr = remote[event.del].addr /\ event'.pc = "device"
      <4>1. d \in Devices /\ event'.addr = d /\ event'.pc = "device"
        BY <3>2 DEF SetsOK, EventOK
      <4>2. PICK i \in DOMAIN remote : /\ remote[i].thread # "deleted"
                                      /\ remote[i].handle = event.handle /\ remote[i].addr = d
        BY <3>2, <4>1 DEF Distinct, KnownHandle, Alive
      <4>3. remote[event.del].thread # "deleted" /\ remote[event.del].handle = event.handle
        BY <2>1 DEF ObjectsOK
      <4>4. remote[i].link = remote[i].handle /\ remote[event.del].link = remote[event.del].handle
        BY <2>2, <4>2, <4>3 DEF ObjectsOK
      <4> QED
        BY <2>2, <4>1, <4>2, <4>3, <4>4 DEF Distinct, OneAddr, Alive
    <3>3. ASSUME event' = [event EXCEPT !.pc = "device"]
          PROVE  event'.addr = remote[event.del].addr /\ event'.pc = "device"
      BY <3>1, <3>3
    <3>4. ASSUME \A d \in Connecteds : mHandle[d] # event.handle,
                 event.addr \notin Disconnecteds, event' = [event EXCEPT !.pc = "delete"]
          PROVE  event'.addr = remote[event.del].addr /\ mHandle[event'.addr] # event.handle
      <4>1. event.addr \in Connecteds
        BY <2>2, <3>4 DEF SetsOK
      <4> QED
        BY <3>1, <3>4, <4>1
    <3> QED
      BY <1>7, <3>1, <3>2, <3>3, <3>4, HubDisconnectedSets
  <2> QED
    BY <2>4, <2>5, <2>6 DEF Distinct
<1>8. CASE DeviceDisconnected
  <2>1. /\ UNCHANGED dongleVars /\ Busy /\ event.pc \in {"device", "delete"}
        /\ remote' = [remote EXCEPT ![event.del].thread = "deleted"]
        /\ event' = NoEvent
    BY <1>8 DEF DeviceDisconnected, Busy
  <2>2. "deleted" \in Threads /\ "deleted" \notin Reporting
    BY DEF Threads, Reporting
  <2>3. /\ event.del \in DOMAIN remote /\ DOMAIN remote' = DOMAIN remote
        /\ remote'[event.del].thread = "deleted"
        /\ \A j \in DOMAIN remote : /\ remote'[j].addr = remote[j].addr
                                    /\ remote'[j].handle = remote[j].handle
                                    /\ remote'[j].link = remote[j].link
                                    /\ remote'[j].dev = remote[j].dev
                                    /\ j # event.del => remote'[j] = remote[j]
    BY <1>0, <2>1, <2>2, ThreadMoved
  <2>4. UpFresh'
    BY <2>1, <2>3 DEF Distinct, UpFresh, Alive, dongleVars
  <2>5. DownGone' /\ RightDel'
    BY <2>1 DEF Distinct, DownGone, RightDel, Busy, NoEvent, dongleVars
  <2>6. OneAddr' /\ OwnDev'
    BY <2>2, <2>3 DEF Distinct, OneAddr, OwnDev, Alive
  <2>7. KnownHandle'
    <3> SUFFICES ASSUME NEW d \in Devices, mHandle'[d] \in Handles
                 PROVE  \E i \in DOMAIN remote' :
                           /\ remote'[i].thread # "deleted" /\ remote'[i].handle = mHandle'[d]
                           /\ remote'[i].addr = d
      BY DEF KnownHandle, Alive
    <3>1. /\ mHandle'[d] = mHandle[d]
          /\ event.pc = "device" => d # event.addr
      <4>1. CASE event.pc = "device"
        <5>1. mHandle' = [mHandle EXCEPT ![event.addr] = INVALID_HANDLE]
          BY <1>8, <4>1 DEF DeviceDisconnected, OnDisconnected
        <5> QED
          BY <4>1, <5>1, ConnectionAssumption DEF DeviceOK
      <4>2. CASE event.pc = "delete"
        BY <1>8, <4>2 DEF DeviceDisconnected, deviceVars
      <4> QED
        BY <2>1, <4>1, <4>2
    <3>2. PICK i \in DOMAIN remote : /\ remote[i].thread # "deleted"
                                    /\ remote[i].handle = mHandle[d] /\ remote[i].addr = d
      BY <3>1 DEF Distinct, KnownHandle, Alive
    <3>3. CASE i = event.del
      <4>1. event.handle = mHandle[d] /\ event.handle \in Handles
        BY <2>1, <3>1, <3>2, <3>3 DEF ObjectsOK
      <4>2. event.addr = d /\ (event.pc = "delete" => mHandle[event.addr] # event.handle)
        BY <2>1, <3>2, <3>3, <4>1 DEF Distinct, RightDel
      <4> QED
        BY <2>1, <3>1, <4>1, <4>2
    <3>4. CASE i # event.del
      BY <2>3, <3>1, <3>2, <3>4
    <3> QED
      BY <3>3, <3>4
  <2> QED
    BY <2>4, <2>5, <2>6, <2>7 DEF Distinct
<1> QED
  BY <1>1, <1>3, <1>4, <1>5, <1>6, <1>7, <1>8 DEF EventStep

\* A thread gives its BLEDevice the handle of its own armband.
LEMMA DistinctThreads ==
    ASSUME DataOK, ObjectsOK, Distinct, NEW i \in DOMAIN remote, DeviceStep(i)
    PROVE  Distinct'
<1> USE DEF DataOK
<1>0. /\ Elements(mConnectedDevice) \subseteq DOMAIN remote
      /\ Busy => event.del \in DOMAIN remote
      /\ remote[i].thread \in Reporting => remote[i].dev \in Devices
  BY DEF ListOK, EventOK, RemoteOK
<1>1. UNCHANGED <<event, links, events>>
  BY DEF DeviceStep, TakeHandle, Discovered, HubConnected, DeviceSetHandle,
     DeviceSetConnected,
         dongleVars
<1>2. CASE TakeHandle(i)
  <2>1. /\ DOMAIN remote' = DOMAIN remote
        /\ remote'[i].thread = "discovering" /\ remote'[i].handle = remote[i].link
        /\ \A j \in DOMAIN remote : /\ remote'[j].addr = remote[j].addr
                                    /\ remote'[j].link = remote[j].link
                                    /\ remote'[j].dev = remote[j].dev
                                    /\ j # i => remote'[j] = remote[j]
    BY <1>2, TakeHandleDoes
  <2>2. remote[i].thread = "setup" /\ remote[i].handle = INVALID_HANDLE /\ UNCHANGED mHandle
    BY <1>2 DEF TakeHandle, ObjectsOK, deviceVars
  <2>3. UpFresh' /\ DownGone'
    BY <1>1, <2>1, <2>2 DEF Distinct, UpFresh, DownGone, Busy, Alive
  <2>4. OneAddr' /\ OwnDev'
    BY <2>1, <2>2 DEF Distinct, OneAddr, OwnDev, Alive, Reporting
  <2>5. KnownHandle'
    <3> SUFFICES ASSUME NEW d \in Devices, mHandle[d] \in Handles
                 PROVE  \E j \in DOMAIN remote' :
                           /\ remote'[j].thread # "deleted" /\ remote'[j].handle = mHandle[d]
                           /\ remote'[j].addr = d
      BY <2>2 DEF KnownHandle, Alive
    <3>1. PICK j \in DOMAIN remote : /\ remote[j].thread # "deleted"
                                    /\ remote[j].handle = mHandle[d] /\ remote[j].addr = d
      BY DEF Distinct, KnownHandle, Alive
    <3>2. j # i
      BY <2>2, <3>1, ConnectionAssumption
    <3> QED
      BY <3>1, <3>2, <2>1
  <2>6. RightDel'
    BY <1>0, <1>1, <2>1, <2>2 DEF Distinct, RightDel, Busy, Reporting
  <2> QED
    BY <2>3, <2>4, <2>5, <2>6 DEF Distinct
<1>3. CASE ~TakeHandle(i)
  <2>1. /\ DOMAIN remote' = DOMAIN remote
        /\ remote[i].thread \in Active /\ remote'[i].thread \in Active
        /\ \A j \in DOMAIN remote : /\ remote'[j].addr = remote[j].addr
                                    /\ remote'[j].handle = remote[j].handle
                                    /\ remote'[j].link = remote[j].link
                                    /\ j # i => remote'[j] = remote[j]
        /\ remote'[i].thread \in Reporting =>
              /\ remote'[i].dev = remote[i].addr
              /\ ~(Busy /\ event.handle \in Handles /\ remote[i].handle = event.handle)
    <3>1. CASE Discovered(i)
      <4>1. remote[i].thread = "discovering" /\ links[remote[i].handle] # NoDevice
        BY <3>1 DEF Discovered
      <4>2. /\ DOMAIN remote' = DOMAIN remote /\ remote'[i].thread \in {"connected", "report"}
            /\ \A j \in DOMAIN remote : /\ remote'[j].addr = remote[j].addr
                                        /\ remote'[j].handle = remote[j].handle
                                        /\ remote'[j].link = remote[j].link
                                        /\ j # i => remote'[j] = remote[j]
        BY <3>1, DiscoveredDoes
      <4>3. ASSUME remote'[i].thread \in Reporting
            PROVE  remote'[i].dev = remote[i].addr
        <5>1. PICK m \in Elements(mConnectedDevice) : /\ remote[m].handle = remote[i].handle
                                                     /\ remote'[i].dev = remote[m].addr
          BY <3>1, <4>3, DiscoveredDoes DEF Reporting
        <5>2. /\ remote[i].handle \in Handles
              /\ remote[i].handle = remote[i].link /\ remote[m].handle = remote[m].link
              /\ remote[m].thread # "deleted" /\ remote[i].thread # "deleted"
              /\ m \in DOMAIN remote
          BY <1>0, <4>1, <5>1 DEF ObjectsOK, Active, Threads
        <5> QED
          BY <5>1, <5>2 DEF Distinct, OneAddr, Alive
      <4>4. ~(Busy /\ event.handle \in Handles /\ remote[i].handle = event.handle)
        BY <4>1 DEF Distinct, DownGone
      <4> QED
        BY <4>1, <4>2, <4>3, <4>4 DEF Active, Threads
    <3>2. CASE HubConnected(i) \/ DeviceSetHandle(i) \/ DeviceSetConnected(i)
      <4>1. PICK t \in Active : remote' = [remote EXCEPT ![i].thread = t]
        BY <3>2 DEF HubConnected, DeviceSetHandle, DeviceSetConnected, Threads, Active
      <4>2. remote[i].thread \in Reporting
        BY <3>2 DEF HubConnected, DeviceSetHandle, DeviceSetConnected, Reporting
      <4>3. /\ DOMAIN remote' = DOMAIN remote /\ remote'[i].thread \in Active
            /\ \A j \in DOMAIN remote : /\ remote'[j].addr = remote[j].addr
                                        /\ remote'[j].handle = remote[j].handle
                                        /\ remote'[j].link = remote[j].link
                                        /\ remote'[j].dev = remote[j].dev
                                        /\ j # i => remote'[j] = remote[j]
        BY <1>0, <4>1, <4>2, ThreadMoved DEF Active, Threads, Reporting
      <4>4. /\ remote[i].dev = remote[i].addr
            /\ ~(Busy /\ event.handle \in Handles /\ remote[i].handle = event.handle)
        BY <4>2 DEF Distinct, OwnDev, RightDel
      <4>5. remote[i].thread \in Active
        BY <4>2 DEF Active, Threads, Reporting
      <4> QED
        BY <4>3, <4>4, <4>5
    <3> QED
      BY <1>3, <3>1, <3>2 DEF DeviceStep
  <2>2. remote[i].thread # "deleted" /\ remote'[i].thread # "deleted"
    BY <2>1 DEF Active
  <2>3. UpFresh' /\ DownGone'
    BY <1>1, <2>1, <2>2 DEF Distinct, UpFresh, DownGone, Busy, Alive
  <2>4. OneAddr' /\ OwnDev'
    BY <2>1, <2>2 DEF Distinct, OneAddr, OwnDev, Alive
  <2>5. /\ ~DeviceSetHandle(i) => UNCHANGED mHandle
        /\ DeviceSetHandle(i) => mHandle' = [mHandle EXCEPT ![remote[i].addr] = remote[i].handle]
    <3>1. CASE DeviceSetHandle(i)
      <4>1. remote[i].dev = remote[i].addr /\ mHandle' = [mHandle EXCEPT ![remote[i].dev] = remote[i].handle]
        BY <3>1 DEF DeviceSetHandle, Distinct, OwnDev, Reporting
      <4> QED
        BY <3>1, <4>1
    <3>2. CASE ~DeviceSetHandle(i)
      BY <3>2 DEF DeviceStep, TakeHandle, Discovered, HubConnected, DeviceSetConnected,
         deviceVars
    <3> QED
      BY <3>1, <3>2
  <2>6. KnownHandle'
    <3> SUFFICES ASSUME NEW d \in Devices, mHandle'[d] \in Handles
                 PROVE  \E j \in DOMAIN remote' :
                           /\ remote'[j].thread # "deleted" /\ remote'[j].handle = mHandle'[d]
                           /\ remote'[j].addr = d
      BY DEF KnownHandle, Alive
    <3>1. CASE mHandle'[d] = mHandle[d]
      <4>1. PICK j \in DOMAIN remote : /\ remote[j].thread # "deleted"
                                      /\ remote[j].handle = mHandle[d] /\ remote[j].addr = d
        BY <3>1 DEF Distinct, KnownHandle, Alive
      <4>2. remote'[j].thread # "deleted"
        BY <4>1, <2>1, <2>2
      <4> QED
        BY <3>1, <4>1, <4>2, <2>1
    <3>2. CASE mHandle'[d] # mHandle[d]
      <4>1. d = remote[i].addr /\ mHandle'[d] = remote[i].handle
        BY <2>5, <3>2 DEF DeviceOK
      <4> QED
        BY <4>1, <2>1, <2>2
    <3> QED
      BY <3>1, <3>2
  <2>7. RightDel'
    <3> SUFFICES ASSUME Busy, event.handle \in Handles
                 PROVE  /\ event.addr = remote'[event.del].addr
                        /\ event.pc = "delete" => mHandle'[event.addr] # event.handle
                        /\ \A j \in DOMAIN remote' : remote'[j].handle = event.handle =>
                              remote'[j].thread \notin Reporting
      BY <1>1 DEF RightDel, Busy
    <3>1. /\ event.addr = remote[event.del].addr /\ event.addr \in Devices
          /\ event.pc = "delete" => mHandle[event.addr] # event.handle
          /\ \A j \in DOMAIN remote : remote[j].handle = event.handle =>
                remote[j].thread \notin Reporting
      BY DEF Distinct, RightDel, EventOK
    <3>2. event.addr = remote'[event.del].addr
      BY <1>0, <2>1, <3>1
    <3>3. \A j \in DOMAIN remote' : remote'[j].handle = event.handle =>
             remote'[j].thread \notin Reporting
      BY <2>1, <3>1
    <3>4. CASE DeviceSetHandle(i)
      <4>1. remote[i].handle # event.handle
        BY <3>1, <3>4 DEF DeviceSetHandle, Reporting
      <4>2. mHandle'[event.addr] \in {mHandle[event.addr], remote[i].handle}
        BY <2>5, <3>1, <3>4 DEF DeviceOK
      <4> QED
        BY <3>1, <3>2, <3>3, <4>1, <4>2
    <3>5. CASE ~DeviceSetHandle(i)
      BY <2>5, <3>1, <3>2, <3>3, <3>5
    <3> QED
      BY <3>4, <3>5
  <2> QED
    BY <2>3, <2>4, <2>6, <2>7 DEF Distinct
<1> QED
  BY <1>2, <1>3

\* Every step keeps the handles apart, but for one that gives a handle again too soon.
LEMMA ReuseStep == DataOK /\ ObjectsOK /\ SetsOK /\ ReuseInv /\ [Next]_vars => ReuseInv'
<1> SUFFICES ASSUME DataOK, ObjectsOK, SetsOK, ReuseInv, [Next]_vars, Never("reuse")', ~crossed'
             PROVE  Distinct'
  BY DEF ReuseInv
<1>0. "reuse" \in Deeds
  BY DEF Deeds
<1>1. Distinct /\ ~crossed
  BY <1>0, DoneStaysDone, SetsStep DEF ReuseInv, DataOK
<1>2. ASSUME NEW h \in Handles, LinkUp(h)
      PROVE  Distinct'
  <2>1. CASE InUse(h)
    BY <1>0, <1>2, <2>1, Spending DEF LinkUp, DataOK
  <2>2. CASE ~InUse(h)
    BY <1>1, <1>2, <2>2, DistinctDongle
  <2> QED
    BY <2>1, <2>2
<1>3. ASSUME NEW h \in Handles, LinkLost(h)
      PROVE  Distinct'
  BY <1>1, <1>3, DistinctDongle
<1>4. ASSUME NEW c \in Clients, NEW d \in Devices,
             ConnectCall(c, d) \/ DisconnectCall(c, d) \/ CancelCall(c, d)
      PROVE  Distinct'
  BY <1>1, <1>4, DistinctIdle DEF ConnectCall, DisconnectCall, CancelCall, deviceVars,
     dongleVars
<1>5. ASSUME NEW c \in Clients, WriteStatus(c)
      PROVE  Distinct'
  BY <1>1, <1>5, DistinctIdle DEF WriteStatus, dongleVars
<1>6. CASE UNCHANGED vars
  BY <1>1, <1>6, DistinctIdle DEF vars, deviceVars, dongleVars
<1> QED
  BY <1>1, <1>2, <1>3, <1>4, <1>5, <1>6, DistinctRequests, DistinctEvents,
     DistinctThreads DEF Next

\* As long as the handles of those connected have been in the order of their addresses a
\* device is in exactly one of the hub's two sets, once, for all that their keys change; and
\* no two connected devices answer to one handle unless the dongle gave one again too soon.
THEOREM Apart == Spec => []SetsApart
<1> DEFINE Inv == DataOK /\ ObjectsOK /\ SetsOK /\ ReuseInv
<1>1. Init => Inv
  BY DataInit, ObjectsInit, SetsInit, DistinctInit DEF ReuseInv
<1>2. Inv /\ [Next]_vars => Inv'
  BY DataStep, ObjectsStep, SetsStep, ReuseStep
<1>3. Inv => SetsApart
  <2> SUFFICES ASSUME Inv, ~crossed
               PROVE  /\ Connecteds \cap Disconnecteds = {} /\ Connecteds \cup Disconnecteds = Devices
                      /\ \A set \in {mConnectedDevices, mDisconnDevices} :
                            \A k, l \in 1..Len(set) : set[k] = set[l] => k = l
                      /\ Never("reuse") => \A d, e \in Connecteds :
                            mHandle[d] = mHandle[e] /\ mHandle[d] # INVALID_HANDLE => d = e
    BY DEF SetsApart, Connecteds, Disconnecteds
  <2>1. Connecteds \cap Disconnecteds = {} /\ Connecteds \cup Disconnecteds = Devices
    BY DEF SetsOK
  <2>2. ASSUME Never("reuse"), NEW d \in Connecteds, NEW e \in Connecteds,
               mHandle[d] = mHandle[e], mHandle[d] # INVALID_HANDLE
        PROVE  d = e
    <3>1. Distinct /\ d \in Devices /\ e \in Devices /\ mHandle[d] \in Handles
      BY <2>1, <2>2 DEF ReuseInv, DataOK, DeviceOK, AnyHandle
    <3>2. PICK i \in DOMAIN remote : /\ remote[i].thread # "deleted"
                                    /\ remote[i].handle = mHandle[d] /\ remote[i].addr = d
      BY <3>1 DEF Distinct, KnownHandle, Alive
    <3>3. PICK j \in DOMAIN remote : /\ remote[j].thread # "deleted"
                                    /\ remote[j].handle = mHandle[e] /\ remote[j].addr = e
      BY <2>2, <3>1 DEF Distinct, KnownHandle, Alive
    <3>4. remote[i].link = remote[i].handle /\ remote[j].link = remote[j].handle
      BY <2>2, <3>1, <3>2, <3>3 DEF ObjectsOK
    <3> QED
      BY <2>2, <3>1, <3>2, <3>3, <3>4 DEF Distinct, OneAddr, Alive
  <2>3. ASSUME NEW set \in {mConnectedDevices, mDisconnDevices},
               NEW k \in 1..Len(set), NEW l \in 1..Len(set), set[k] = set[l]
        PROVE  k = l
    <3>1. set \in Seq(Devices) /\ InOrder(set)
      BY DEF SetsOK, DataOK, DeviceOK
    <3>2. set[k] \in Devices /\ Address[set[k]] \in Nat /\ Address[set[l]] = Address[set[k]]
      BY <2>3, <3>1, ElementOfSeq, ConnectionAssumption
    <3> QED
      BY <3>1, <3>2 DEF InOrder
  <2> QED
    BY <2>1, <2>2, <2>3
<1> QED
  BY <1>1, <1>2, <1>3, PTL DEF Spec
-----------------------------------------------------------------------------
(* As long as nobody cancels, every link is known. *)

\* Steps that leave the attempt alone; shift is 1 when an event is taken.
LEMMA AttemptKept ==
    ASSUME OneAttempt, ListOK, NEW shift \in {0, 1},
           UNCHANGED <<pending, mIsConnecting, mConnectingDevice>>,
           \A c \in Clients : client'[c].op # "cancelConnect",
           \A j \in DOMAIN remote : remote'[j].addr = remote[j].addr,
           \A k \in 1..Len(events') : events'[k].kind # "down" =>
              k + shift \in 1..Len(events) /\ events'[k] = events[k + shift]
    PROVE  OneAttempt'
<1>1. \A d : Awaited(d) => Awaited(d)'
  <2> SUFFICES ASSUME NEW d, Awaited(d)
               PROVE  mIsConnecting' /\ \E i \in Elements(mConnectingDevice') : remote'[i].addr = d
    BY DEF Awaited
  <2>1. PICK i \in Elements(mConnectingDevice) : remote[i].addr = d
    BY DEF Awaited
  <2>2. i \in DOMAIN remote
    BY DEF ListOK
  <2> QED
    BY <2>1, <2>2 DEF Awaited
<1>2. ASSUME NEW k \in 1..Len(events')
      PROVE  /\ events'[k].kind # "upError"
             /\ events'[k].kind = "up" =>
                   /\ pending = NoDevice /\ Awaited(events'[k].addr)
                   /\ \A l \in 1..Len(events') : events'[l].kind = "up" => l = k
  <2>1. CASE events'[k].kind = "down"
    BY <2>1
  <2>2. CASE events'[k].kind # "down"
    <3>1. k + shift \in 1..Len(events) /\ events'[k] = events[k + shift]
      BY <2>2
    <3>2. /\ events'[k].kind # "upError"
          /\ events'[k].kind = "up" => pending = NoDevice /\ Awaited(events'[k].addr)
      BY <3>1 DEF OneAttempt
    <3>3. ASSUME events'[k].kind = "up", NEW l \in 1..Len(events'), events'[l].kind = "up"
          PROVE  l = k
      <4>1. l + shift \in 1..Len(events) /\ events'[l] = events[l + shift]
        BY <3>3
      <4>2. l + shift = k + shift
        BY <3>1, <3>3, <4>1 DEF OneAttempt
      <4> QED
        BY <4>2
    <3> QED
      BY <3>2, <3>3
  <2> QED
    BY <2>1, <2>2
<1>3. pending # NoDevice => Awaited(pending)
  BY DEF OneAttempt
<1>4. /\ pending' # NoDevice => Awaited(pending)'
      /\ \A k \in 1..Len(events') : Awaited(events'[k].addr) =>
            /\ mIsConnecting'
            /\ \E i \in Elements(mConnectingDevice') : remote'[i].addr = events'[k].addr
  BY <1>1, <1>3 DEF Awaited
<1> QED
  BY <1>2, <1>4 DEF OneAttempt, Awaited

\* Steps that leave known what is known.
LEMMA KnownKept ==
    ASSUME AllKnown, DongleOK, NEW shift \in {0, 1},
           \A k \in 1..Len(events) : events[k].kind = "up" =>
              k - shift \in 1..Len(events') /\ events'[k - shift] = events[k],
           \A k \in 1..Len(events') : events'[k].kind = "down" =>
              \/ k + shift \in 1..Len(events) /\ events'[k] = events[k + shift]
              \/ links'[events'[k].handle] = NoDevice,
           \A h \in Handles : links'[h] # NoDevice => links'[h] = links[h],
           \A h \in Handles : links'[h] # NoDevice /\ ~Ending(h) =>
              \A i \in Elements(mConnectedDevice) : remote[i].link = h =>
                 /\ i \in Elements(mConnectedDevice')
                 /\ remote'[i].addr = remote[i].addr /\ remote'[i].link = h
    PROVE  AllKnown'
<1> SUFFICES ASSUME NEW h \in Handles, links'[h] # NoDevice
             PROVE  \/ \E k \in 1..Len(events') :
                          /\ events'[k].kind = "up" /\ events'[k].addr = links'[h]
                          /\ events'[k].handle = h
                          /\ \A l \in 1..Len(events') :
                                events'[l].kind = "down" /\ events'[l].handle = h => l < k
                    \/ /\ ~ \E l \in 1..Len(events') :
                               events'[l].kind = "down" /\ events'[l].handle = h
                       /\ \E i \in Elements(mConnectedDevice') :
                             remote'[i].addr = links'[h] /\ remote'[i].link = h
  BY DEF AllKnown, Told, Owned, Ending
<1>1. links[h] = links'[h] /\ (Told(h) \/ Owned(h))
  BY DEF AllKnown
<1>2. \A l \in 1..Len(events') : events'[l].kind = "down" /\ events'[l].handle = h =>
         l + shift \in 1..Len(events) /\ events'[l] = events[l + shift]
  OBVIOUS
<1>3. CASE Told(h)
  <2>1. PICK k \in 1..Len(events) :
           /\ events[k].kind = "up" /\ events[k].addr = links[h] /\ events[k].handle = h
           /\ \A l \in 1..Len(events) : events[l].kind = "down" /\ events[l].handle = h => l < k
    BY <1>3 DEF Told
  <2>2. k - shift \in 1..Len(events') /\ events'[k - shift] = events[k]
    BY <2>1
  <2>3. ASSUME NEW l \in 1..Len(events'), events'[l].kind = "down", events'[l].handle = h
        PROVE  l < k - shift
    <3>1. l + shift \in 1..Len(events) /\ events'[l] = events[l + shift]
      BY <1>2, <2>3
    <3>2. l + shift < k
      BY <2>1, <2>3, <3>1
    <3> QED
      BY <3>2
  <2> QED
    BY <1>1, <2>1, <2>2, <2>3
<1>4. CASE Owned(h)
  <2>1. /\ ~Ending(h)
        /\ \E i \in Elements(mConnectedDevice) : remote[i].addr = links[h] /\ remote[i].link = h
    BY <1>4 DEF Owned
  <2>2. ~ \E l \in 1..Len(events') : events'[l].kind = "down" /\ events'[l].handle = h
    BY <1>2, <2>1 DEF Ending
  <2>3. \E i \in Elements(mConnectedDevice') : remote'[i].addr = links'[h] /\ remote'[i].link = h
    BY <1>1, <2>1
  <2> QED
    BY <2>2, <2>3
<1> QED
  BY <1>1, <1>3, <1>4

\* What the initial state says of it.
LEMMA CancelInit == Init => CancelInv
<1> SUFFICES ASSUME Init PROVE OneAttempt /\ AllKnown
  BY DEF CancelInv
<1>1. OneAttempt
  BY DEF Init, OneAttempt, NoCall
<1>2. AllKnown
  BY DEF Init, AllKnown
<1> QED
  BY <1>1, <1>2

\* A request that ends leaves no cancel behind.
LEMMA NoCancelBegun ==
    ASSUME ClientOK, NEW c \in Clients, \A b \in Clients : client[b].op # "cancelConnect",
           \/ Succeed(c)
           \/ UNCHANGED client
           \/ \E call : call.op # "cancelConnect" /\ client' = [client EXCEPT ![c] = call]
           \/ client' = [client EXCEPT ![c].pc = "join"]
    PROVE  \A b \in Clients : client'[b].op # "cancelConnect"
<1>1. NoCall.op # "cancelConnect"
  BY DEF NoCall
<1>2. \/ UNCHANGED client
      \/ \E call : call.op # "cancelConnect" /\ client' = [client EXCEPT ![c] = call]
      \/ \E pc : client' = [client EXCEPT ![c].pc = pc]
  BY <1>1 DEF Succeed
<1>3. CASE \E call : call.op # "cancelConnect" /\ client' = [client EXCEPT ![c] = call]
  <2>1. PICK call : call.op # "cancelConnect" /\ client' = [client EXCEPT ![c] = call]
    BY <1>3
  <2> QED
    BY <2>1 DEF ClientOK
<1>4. CASE \E pc : client' = [client EXCEPT ![c].pc = pc]
  <2>1. PICK pc : client' = [client EXCEPT ![c].pc = pc]
    BY <1>4
  <2>2. client[c] \in Call /\ client'[c] = [client[c] EXCEPT !.pc = pc]
    BY <2>1 DEF ClientOK
  <2>3. client'[c].op = client[c].op
    BY <2>2 DEF Call
  <2>4. \A b \in Clients : b # c => client'[b] = client[b]
    BY <2>1 DEF ClientOK
  <2> QED
    BY <2>3, <2>4
<1> QED
  BY <1>2, <1>3, <1>4

\* Steps that touch neither the dongle nor what waits for it.
LEMMA CancelIdle ==
    ASSUME DataOK, OneAttempt, AllKnown,
           UNCHANGED <<pending, mIsConnecting, mConnectingDevice, links, events>>,
           \A c \in Clients : client'[c].op # "cancelConnect",
           \A j \in DOMAIN remote : remote'[j].addr = remote[j].addr,
           \A i \in Elements(mConnectedDevice) :
              i \in Elements(mConnectedDevice') /\ remote'[i].link = remote[i].link
    PROVE  OneAttempt' /\ AllKnown'
<1>0. Elements(mConnectedDevice) \subseteq DOMAIN remote /\ Len(events) \in Nat
  BY DEF DataOK, ListOK, DongleOK
<1>1. \A k \in 1..Len(events) : k + 0 = k /\ k - 0 = k
  BY <1>0
<1>2. OneAttempt'
  <2>1. \A k \in 1..Len(events') : events'[k].kind # "down" =>
           k + 0 \in 1..Len(events) /\ events'[k] = events[k + 0]
    BY <1>1
  <2>2. 0 \in {0, 1} /\ ListOK
    BY DEF DataOK
  <2> QED
    BY <2>1, <2>2, AttemptKept
<1>3. AllKnown'
  <2>1. \A k \in 1..Len(events) : events[k].kind = "up" =>
           k - 0 \in 1..Len(events') /\ events'[k - 0] = events[k]
    BY <1>1
  <2>2. \A k \in 1..Len(events') : events'[k].kind = "down" =>
           \/ k + 0 \in 1..Len(events) /\ events'[k] = events[k + 0]
           \/ links'[events'[k].handle] = NoDevice
    BY <1>1
  <2>3. \A h \in Handles : links'[h] # NoDevice => links'[h] = links[h]
    OBVIOUS
  <2>4. \A h \in Handles : links'[h] # NoDevice /\ ~Ending(h) =>
           \A i \in Elements(mConnectedDevice) : remote[i].link = h =>
              /\ i \in Elements(mConnectedDevice')
              /\ remote'[i].addr = remote[i].addr /\ remote'[i].link = h
    BY <1>0
  <2>5. 0 \in {0, 1} /\ DongleOK
    BY DEF DataOK
  <2> QED
    BY <2>1, <2>2, <2>3, <2>4, <2>5, KnownKept
<1> QED
  BY <1>2, <1>3

\* An object whose link is another has another handle, if it has one.
LEMMA OtherHandle ==
    ASSUME DataOK, ObjectsOK, NEW i \in DOMAIN remote, NEW h \in Handles, NEW g \in Handles,
           remote[i].link = h, h # g
    PROVE  remote[i].handle # g
BY DEF ObjectsOK

\* The end of a link is taken.
LEMMA CancelTaken ==
    ASSUME DataOK, ObjectsOK, OneAttempt, AllKnown, Take("down"),
           UNCHANGED <<mIsConnecting, mConnectingDevice, client>>,
           \A j \in DOMAIN remote : remote'[j].addr = remote[j].addr
                                    /\ remote'[j].link = remote[j].link,
           \A i \in Elements(mConnectedDevice) :
              remote[i].handle # events[1].handle => i \in Elements(mConnectedDevice')
    PROVE  OneAttempt' /\ AllKnown'
<1>0. Elements(mConnectedDevice) \subseteq DOMAIN remote
  BY DEF DataOK, ListOK
<1>1. /\ DongleOK /\ ListOK /\ 1 \in {0, 1}
      /\ \A k \in 1..Len(events') : k + 1 \in 1..Len(events) /\ events'[k] = events[k + 1]
      /\ \A k \in 1..Len(events) :
            k # 1 => k - 1 \in 1..Len(events') /\ events'[k - 1] = events[k]
      /\ 1 \in 1..Len(events) /\ events[1].kind = "down"
      /\ UNCHANGED <<pending, links>>
  BY EventTaken DEF DataOK, Take
<1>2. OneAttempt'
  <2>1. \A k \in 1..Len(events') : events'[k].kind # "down" =>
           k + 1 \in 1..Len(events) /\ events'[k] = events[k + 1]
    BY <1>1
  <2>2. \A c \in Clients : client'[c].op # "cancelConnect"
    BY DEF OneAttempt
  <2> QED
    BY <1>1, <2>1, <2>2, AttemptKept
<1>3. AllKnown'
  <2>1. \A k \in 1..Len(events) : events[k].kind = "up" =>
           k - 1 \in 1..Len(events') /\ events'[k - 1] = events[k]
    BY <1>1
  <2>2. \A k \in 1..Len(events') : events'[k].kind = "down" =>
           \/ k + 1 \in 1..Len(events) /\ events'[k] = events[k + 1]
           \/ links'[events'[k].handle] = NoDevice
    BY <1>1
  <2>3. \A h \in Handles : links'[h] # NoDevice => links'[h] = links[h]
    BY <1>1
  <2>4. ASSUME NEW h \in Handles, ~Ending(h),
               NEW i \in Elements(mConnectedDevice), remote[i].link = h
        PROVE  /\ i \in Elements(mConnectedDevice')
               /\ remote'[i].addr = remote[i].addr /\ remote'[i].link = h
    <3>1. events[1].handle \in Handles /\ h # events[1].handle
      BY <1>1, <2>4 DEF Ending, DongleOK
    <3> QED
      BY <1>0, <2>4, <3>1, OtherHandle
  <2>5. \A h \in Handles : links'[h] # NoDevice /\ ~Ending(h) =>
           \A i \in Elements(mConnectedDevice) : remote[i].link = h =>
              /\ i \in Elements(mConnectedDevice')
              /\ remote'[i].addr = remote[i].addr /\ remote'[i].link = h
    BY <2>4
  <2> QED
    BY <1>1, <2>1, <2>2, <2>3, <2>5, KnownKept
<1> QED
  BY <1>2, <1>3

\* A link is dropped, and perhaps its owners let go of it.
LEMMA CancelDropped ==
    ASSUME DataOK, OneAttempt, AllKnown, NEW g \in Handles, DropLink(g),
           UNCHANGED <<mIsConnecting, mConnectingDevice>>,
           \A c \in Clients : client'[c].op # "cancelConnect",
           \A j \in DOMAIN remote : remote'[j].addr = remote[j].addr
                                    /\ remote'[j].link = remote[j].link,
           \A i \in Elements(mConnectedDevice) :
              remote[i].link \in Handles /\ remote[i].link # g => i \in Elements(mConnectedDevice')
    PROVE  OneAttempt' /\ AllKnown'
<1> DEFINE e == [kind |-> "down", addr |-> NoDevice, handle |-> g]
<1>0. Elements(mConnectedDevice) \subseteq DOMAIN remote
  BY DEF DataOK, ListOK
<1>1. /\ events' = Append(events, e) /\ links' = [links EXCEPT ![g] = NoDevice]
      /\ UNCHANGED pending /\ DongleOK /\ ListOK /\ 0 \in {0, 1}
  BY DEF DropLink, DataOK
<1>2. e.kind = "down" /\ e.handle = g
  OBVIOUS
<1> HIDE DEF e
<1>3. links'[g] = NoDevice /\ \A h \in Handles : h # g => links'[h] = links[h]
  BY <1>1 DEF DongleOK
<1>4. /\ \A k \in 1..Len(events) :
            k - 0 \in 1..Len(events') /\ events'[k - 0] = events[k]
      /\ \A k \in 1..Len(events') :
            \/ k + 0 \in 1..Len(events) /\ events'[k] = events[k + 0]
            \/ events'[k] = e
  <2>1. /\ Len(events) \in Nat /\ Len(events') = Len(events) + 1
        /\ events'[Len(events) + 1] = e
        /\ \A k \in 1..Len(events) : k \in 1..Len(events') /\ events'[k] = events[k]
        /\ \A k \in 1..Len(events') : k \in 1..Len(events) \/ k = Len(events) + 1
    BY <1>1, LastEvent
  <2>2. \A k \in 1..Len(events) : k - 0 = k /\ k + 0 = k
    BY <2>1
  <2> QED
    BY <2>1, <2>2
<1>5. OneAttempt'
  <2>1. \A k \in 1..Len(events') : events'[k].kind # "down" =>
           k + 0 \in 1..Len(events) /\ events'[k] = events[k + 0]
    BY <1>2, <1>4
  <2> QED
    BY <1>1, <2>1, AttemptKept
<1>6. AllKnown'
  <2>1. \A k \in 1..Len(events) : events[k].kind = "up" =>
           k - 0 \in 1..Len(events') /\ events'[k - 0] = events[k]
    BY <1>4
  <2>2. \A k \in 1..Len(events') : events'[k].kind = "down" =>
           \/ k + 0 \in 1..Len(events) /\ events'[k] = events[k + 0]
           \/ links'[events'[k].handle] = NoDevice
    BY <1>2, <1>3, <1>4
  <2>3. \A h \in Handles : links'[h] # NoDevice => links'[h] = links[h]
    BY <1>3
  <2>4. \A h \in Handles : links'[h] # NoDevice /\ ~Ending(h) =>
           \A i \in Elements(mConnectedDevice) : remote[i].link = h =>
              /\ i \in Elements(mConnectedDevice')
              /\ remote'[i].addr = remote[i].addr /\ remote'[i].link = h
    BY <1>0, <1>3
  <2> QED
    BY <1>1, <2>1, <2>2, <2>3, <2>4, KnownKept
<1> QED
  BY <1>5, <1>6

\* The armband answers.
LEMMA CancelLinkUp ==
    ASSUME DataOK, OneAttempt, AllKnown, NEW g \in Handles, LinkUp(g)
    PROVE  OneAttempt' /\ AllKnown'
<1> DEFINE e == [kind |-> "up", addr |-> pending, handle |-> g]
           n == Len(events) + 1
<1>1. /\ events' = Append(events, e) /\ links' = [links EXCEPT ![g] = pending]
      /\ pending \in Devices /\ pending # NoDevice /\ pending' = NoDevice
      /\ UNCHANGED <<client, mIsConnecting, listVars, remote>>
      /\ DongleOK /\ links[g] = NoDevice
  BY DEF LinkUp, DataOK, DongleOK
<1>2. e.kind = "up" /\ e.handle = g /\ e.addr = pending
  OBVIOUS
<1> HIDE DEF e
<1>3. /\ n \in 1..Len(events') /\ events'[n] = e
      /\ \A k \in 1..Len(events) : k \in 1..Len(events') /\ events'[k] = events[k] /\ k < n
      /\ \A k \in 1..Len(events') : k \in 1..Len(events) \/ k = n
  BY <1>1, LastEvent
<1> HIDE DEF n
<1>4. \A d : Awaited(d)' <=> Awaited(d)
  BY <1>1 DEF Awaited, listVars
<1>5. \A k \in 1..Len(events) : events[k].kind # "up" /\ events[k].kind # "upError"
  BY <1>1 DEF OneAttempt
<1>6. OneAttempt'
  <2>1. \A k \in 1..Len(events') : events'[k].kind = "up" => k = n
    BY <1>3, <1>5
  <2>2. \A k \in 1..Len(events') : events'[k].kind # "upError"
    BY <1>2, <1>3, <1>5
  <2>3. Awaited(pending)'
        <=> mIsConnecting' /\ \E i \in Elements(mConnectingDevice') : remote'[i].addr = pending'
    BY DEF Awaited
  <2>4. mIsConnecting' /\ \E i \in Elements(mConnectingDevice') : remote'[i].addr = pending
    BY <1>1 DEF OneAttempt, Awaited, listVars
  <2>5. \A c \in Clients : client'[c].op # "cancelConnect"
    BY <1>1 DEF OneAttempt
  <2>6. \A k \in 1..Len(events') : events'[k].kind = "up" => events'[k].addr = pending
    BY <1>2, <1>3, <2>1
  <2> QED
    BY <1>1, <2>1, <2>2, <2>4, <2>5, <2>6 DEF OneAttempt, Awaited
<1>7. AllKnown'
  <2> SUFFICES ASSUME NEW h \in Handles, links'[h] # NoDevice
               PROVE  Told(h)' \/ Owned(h)'
    BY DEF AllKnown, Told, Owned, Ending
  <2>1. CASE h = g
    <3>1. links'[h] = pending
      BY <1>1, <2>1 DEF DongleOK
    <3>2. \A l \in 1..Len(events') : events'[l].kind = "down" /\ events'[l].handle = h => l < n
      BY <1>2, <1>3
    <3> QED
      BY <1>2, <1>3, <2>1, <3>1, <3>2 DEF Told
  <2>2. CASE h # g
    <3>1. links'[h] = links[h] /\ (Told(h) \/ Owned(h))
      BY <1>1, <2>2 DEF DongleOK, AllKnown
    <3>2. ~Told(h)
      BY <1>5 DEF Told
    <3>3. ~Ending(h)'
      BY <1>2, <1>3, <3>1, <3>2 DEF Owned, Ending
    <3> QED
      BY <1>1, <3>1, <3>2, <3>3 DEF Owned, listVars
  <2> QED
    BY <2>1, <2>2
<1> QED
  BY <1>6, <1>7

\* The RemoteDevice that waits is told: the attempt is over, the link owned.
LEMMA CancelOnConnect ==
    ASSUME DataOK, ObjectsOK, OneAttempt, AllKnown, OnConnectEvent
    PROVE  OneAttempt' /\ AllKnown'
<1> DEFINE a == events[1].addr
           g == events[1].handle
           mine == {i \in Elements(mConnectingDevice) : remote[i].addr = a}
<1>1. /\ DOMAIN remote' = DOMAIN remote
      /\ \A j \in DOMAIN remote :
            /\ remote'[j].addr = remote[j].addr
            /\ remote'[j].link = IF j \in mine THEN g ELSE remote[j].link
      /\ Elements(mConnectedDevice') = mine \cup Elements(mConnectedDevice)
  BY OnConnectEventDoes DEF DataOK
<1>2. /\ DongleOK /\ 1 \in 1..Len(events) /\ events[1].kind = "up" /\ Len(events) \in Nat
      /\ \A k \in 1..Len(events') :
            k + 1 \in 1..Len(events) /\ k + 1 # 1 /\ events'[k] = events[k + 1]
      /\ UNCHANGED <<pending, links, client>>
  <2>1. Take("up") /\ UNCHANGED client
    BY DEF OnConnectEvent
  <2>2. DongleOK
    BY DEF DataOK
  <2>3. /\ 1 \in 1..Len(events) /\ events[1].kind = "up" /\ Len(events) \in Nat
        /\ \A k \in 1..Len(events') : k + 1 \in 1..Len(events) /\ events'[k] = events[k + 1]
    BY <2>1, <2>2, EventTaken
  <2>4. \A k \in 1..Len(events') : k + 1 # 1
    OBVIOUS
  <2> QED
    BY <2>1, <2>2, <2>3, <2>4 DEF Take
<1>3. pending = NoDevice /\ Awaited(a)
      /\ \A k \in 1..Len(events) : events[k].kind = "up" => k = 1
  BY <1>2 DEF OneAttempt
<1>4. /\ mine \subseteq DOMAIN remote /\ Elements(mConnectedDevice) \subseteq DOMAIN remote
      /\ \A i \in mine : i \notin Elements(mConnectedDevice) /\ remote[i].addr = a
      /\ \E i \in DOMAIN remote : i \in mine
  BY <1>3 DEF DataOK, ListOK, ObjectsOK, Awaited
<1> HIDE DEF a, g, mine
<1>5. OneAttempt'
  <2>1. \A k \in 1..Len(events') : events'[k].kind \notin {"up", "upError"}
    <3> SUFFICES ASSUME NEW k \in 1..Len(events')
                 PROVE  events'[k].kind \notin {"up", "upError"}
      OBVIOUS
    <3>1. k + 1 \in 1..Len(events) /\ k + 1 # 1 /\ events'[k] = events[k + 1]
      BY <1>2
    <3> QED
      BY <1>3, <3>1 DEF OneAttempt
  <2>2. \A c \in Clients : client'[c].op # "cancelConnect"
    BY <1>2 DEF OneAttempt
  <2> QED
    BY <1>2, <1>3, <2>1, <2>2 DEF OneAttempt
<1>6. AllKnown'
  <2> SUFFICES ASSUME NEW h \in Handles, links[h] # NoDevice
               PROVE  Owned(h)'
    BY <1>2 DEF AllKnown, Told, Owned, Ending
  <2>1. Told(h) \/ Owned(h)
    BY DEF AllKnown
  <2>2. CASE Told(h)
    <3>1. /\ a = links[h] /\ g = h
          /\ \A l \in 1..Len(events) : ~(events[l].kind = "down" /\ events[l].handle = h)
      <4>1. PICK k \in 1..Len(events) :
               /\ events[k].kind = "up" /\ events[k].addr = links[h] /\ events[k].handle = h
               /\ \A l \in 1..Len(events) :
                     events[l].kind = "down" /\ events[l].handle = h => l < k
        BY <2>2 DEF Told
      <4>2. k = 1
        BY <1>3, <4>1
      <4> QED
        BY <1>2, <4>1, <4>2 DEF a, g
    <3>2. ~Ending(h)'
      BY <1>2, <3>1 DEF Ending
    <3>3. \E i \in Elements(mConnectedDevice') : remote'[i].addr = links'[h] /\ remote'[i].link = h
      BY <1>1, <1>2, <1>4, <3>1
    <3> QED
      BY <3>2, <3>3 DEF Owned
  <2>3. CASE Owned(h)
    <3>1. ~Ending(h)'
      BY <1>2, <2>3 DEF Owned, Ending
    <3>2. \E i \in Elements(mConnectedDevice') : remote'[i].addr = links'[h] /\ remote'[i].link = h
      BY <1>1, <1>2, <1>4, <2>3 DEF Owned
    <3> QED
      BY <3>1, <3>2 DEF Owned
  <2> QED
    BY <2>1, <2>2, <2>3
<1> QED
  BY <1>5, <1>6

\* The command thread begins an attempt.
LEMMA CancelConnectBegun ==
    ASSUME DataOK, OneAttempt, AllKnown, NEW c \in Clients, Connect(c), ~mIsConnecting
    PROVE  OneAttempt' /\ AllKnown'
<1> DEFINE n == Len(remote) + 1
<1>1. /\ n \notin DOMAIN remote
      /\ \A j \in DOMAIN remote : remote'[j] = remote[j]
      /\ remote'[n].addr = client[c].dev
      /\ Elements(mConnectingDevice') = {n} \cup Elements(mConnectingDevice)
      /\ UNCHANGED <<mConnectedDevice>>
      /\ mIsConnecting' = TRUE /\ RequestLink(client[c].dev) /\ Succeed(c)
  BY ConnectDoes DEF DataOK
<1> HIDE DEF n
<1>2. pending = NoDevice /\ \A k \in 1..Len(events) : events[k].kind \notin {"up", "upError"}
  BY DEF OneAttempt, Awaited
<1>3. /\ UNCHANGED <<links, events>>
      /\ pending' \in {client[c].dev, NoDevice}
  BY <1>1, <1>2 DEF RequestLink
<1>4. OneAttempt'
  <2>1. \A b \in Clients : client'[b].op # "cancelConnect"
    BY <1>1, NoCancelBegun DEF OneAttempt, DataOK
  <2>2. \A k \in 1..Len(events') : events'[k].kind \notin {"up", "upError"}
    BY <1>2, <1>3
  <2>3. pending' # NoDevice =>
           mIsConnecting' /\ \E i \in Elements(mConnectingDevice') : remote'[i].addr = pending'
    BY <1>1, <1>3
  <2> QED
    BY <2>1, <2>2, <2>3 DEF OneAttempt, Awaited
<1>5. AllKnown'
  <2>1. Elements(mConnectedDevice) \subseteq DOMAIN remote
    BY DEF DataOK, ListOK
  <2>2. \A h \in Handles : Told(h) => Told(h)'
    BY <1>3 DEF Told
  <2>3. \A h \in Handles : Owned(h) => Owned(h)'
    BY <1>1, <1>3, <2>1 DEF Owned, Ending
  <2> QED
    BY <1>3, <2>2, <2>3 DEF AllKnown
<1> QED
  BY <1>4, <1>5

\* AdapterManager::Disconnect drops the link it is for, and who owns it.
LEMMA CancelDisconnect ==
    ASSUME DataOK, ObjectsOK, OneAttempt, AllKnown, NEW c \in Clients, DisconnectEnd(c)
    PROVE  OneAttempt' /\ AllKnown'
<1> DEFINE g == client[c].handle
           mine == {i \in Elements(mConnectedDevice) : remote[i].handle = g}
<1>1. /\ \A j \in DOMAIN remote : remote'[j].addr = remote[j].addr
                                  /\ remote'[j].link = remote[j].link
      /\ Elements(mConnectedDevice') = Elements(mConnectedDevice) \ mine
      /\ UNCHANGED mConnectingDevice /\ TerminateLink(g)
  BY DisconnectEndDoes DEF DataOK
<1>2. /\ g \in Handles /\ Elements(mConnectedDevice) \subseteq DOMAIN remote
      /\ Succeed(c) /\ UNCHANGED mIsConnecting
  BY DEF DisconnectEnd, DataOK, ClientOK, ListOK
<1>3. \A b \in Clients : client'[b].op # "cancelConnect"
  BY <1>2, NoCancelBegun DEF OneAttempt, DataOK
<1>4. ASSUME NEW i \in Elements(mConnectedDevice), remote[i].link \in Handles, remote[i].link # g
      PROVE  i \in Elements(mConnectedDevice')
  <2>1. remote[i].handle # g
    BY <1>2, <1>4, OtherHandle
  <2> QED
    BY <1>1, <2>1
<1> HIDE DEF g, mine
<1>5. CASE DropLink(g)
  BY <1>1, <1>2, <1>3, <1>4, <1>5, CancelDropped
<1>6. CASE links[g] = NoDevice /\ UNCHANGED dongleVars
  <2>1. UNCHANGED <<pending, links, events>>
    BY <1>6 DEF dongleVars
  <2>2. OneAttempt'
    <3>1. \A d : Awaited(d) => Awaited(d)'
      <4> SUFFICES ASSUME NEW d, Awaited(d)
                   PROVE  mIsConnecting' /\ \E i \in Elements(mConnectingDevice') : remote'[i].addr = d
        BY DEF Awaited
      <4> QED
        BY <1>1, <1>2 DEF Awaited, DataOK, ListOK
    <3>2. /\ pending' # NoDevice => Awaited(pending)'
          /\ \A k \in 1..Len(events') : Awaited(events'[k].addr) =>
                /\ mIsConnecting'
            /\ \E i \in Elements(mConnectingDevice') : remote'[i].addr = events'[k].addr
      BY <2>1, <3>1 DEF OneAttempt, Awaited
    <3> QED
      BY <1>3, <2>1, <3>2 DEF OneAttempt, Awaited
  <2>3. ASSUME NEW h \in Handles, links[h] # NoDevice
        PROVE  Told(h)' \/ Owned(h)'
    <3>1. h # g /\ (Told(h) \/ Owned(h))
      BY <1>6, <2>3 DEF AllKnown
    <3>2. Told(h) => Told(h)'
      BY <2>1 DEF Told
    <3>3. Owned(h) => Owned(h)'
      BY <1>1, <1>2, <1>4, <2>1, <3>1 DEF Owned, Ending
    <3> QED
      BY <3>1, <3>2, <3>3
  <2> QED
    BY <2>1, <2>2, <2>3 DEF AllKnown
<1> QED
  BY <1>1, <1>2, <1>5, <1>6 DEF TerminateLink

\* Calls, and the rest of what the command thread and the clients do.
LEMMA CancelRequests ==
    ASSUME DataOK, ObjectsOK, OneAttempt, AllKnown, NEW c \in Clients,
           Request(c) \/ WriteStatus(c)
    PROVE  OneAttempt' /\ AllKnown'
<1>1. \A b \in Clients : client[b].op # "cancelConnect"
  BY DEF OneAttempt
<1>2. ASSUME UNCHANGED <<pending, mIsConnecting, mConnectingDevice, links, events, remote,
                         mConnectedDevice>>,
             \A b \in Clients : client'[b].op # "cancelConnect"
      PROVE  OneAttempt' /\ AllKnown'
  BY <1>2, CancelIdle
<1>3. NoCall.op # "cancelConnect"
  BY DEF NoCall
<1>4. CASE Connect(c)
  <2>1. CASE ~mIsConnecting
    BY <1>4, <2>1, CancelConnectBegun
  <2>2. CASE /\ mIsConnecting
             /\ client' = [client EXCEPT ![c] = NoCall]
             /\ UNCHANGED <<mIsConnecting, listVars, remote, dongleVars>>
    <3>1. \A b \in Clients : client'[b].op # "cancelConnect"
      BY <1>1, <1>3, <2>2, NoCancelBegun DEF DataOK
    <3> QED
      BY <1>2, <2>2, <3>1 DEF listVars, dongleVars
  <2> QED
    BY <1>4, <2>1, <2>2 DEF Connect
<1>5. CASE CancelConnect(c)
  BY <1>1, <1>5 DEF CancelConnect
<1>6. CASE DisconnectUnknown(c) \/ WriteStatus(c)
  <2>1. client' = [client EXCEPT ![c] = NoCall]
    BY <1>6 DEF DisconnectUnknown, WriteStatus
  <2>2. \A b \in Clients : client'[b].op # "cancelConnect"
    BY <1>1, <1>3, <2>1, NoCancelBegun DEF DataOK
  <2> QED
    BY <1>2, <1>6, <2>2 DEF DisconnectUnknown, WriteStatus, listVars, dongleVars
<1>7. CASE DisconnectBegin(c)
  <2>1. \A b \in Clients : client'[b].op # "cancelConnect"
    BY <1>1, <1>7, NoCancelBegun DEF DataOK, DisconnectBegin
  <2> QED
    BY <1>2, <1>7, <2>1 DEF DisconnectBegin, listVars, dongleVars
<1>8. CASE DisconnectEnd(c)
  BY <1>8, CancelDisconnect
<1> QED
  BY <1>4, <1>5, <1>6, <1>7, <1>8 DEF Request

\* The event thread.
LEMMA CancelEvents ==
    ASSUME DataOK, ObjectsOK, OneAttempt, AllKnown, EventStep
    PROVE  OneAttempt' /\ AllKnown'
<1>0. \A c \in Clients : client[c].op # "cancelConnect"
  BY DEF OneAttempt
<1>1. CASE OnConnectEvent
  BY <1>1, CancelOnConnect
<1>2. CASE OnConnectError
  <2>1. 1 \in 1..Len(events) /\ events[1].kind = "upError"
    BY <1>2, EventTaken DEF OnConnectError, DataOK
  <2> QED
    BY <2>1 DEF OneAttempt
<1>3. CASE LinkTerminated
  <2> DEFINE mine == {i \in Elements(mConnectedDevice) : remote[i].handle = events[1].handle}
  <2>1. /\ \A j \in DOMAIN remote : remote'[j].addr = remote[j].addr
                                    /\ remote'[j].link = remote[j].link
        /\ Elements(mConnectedDevice') = Elements(mConnectedDevice) \ mine
    BY <1>3, LinkTerminatedDoes DEF DataOK
  <2>2. Take("down") /\ UNCHANGED <<mIsConnecting, mConnectingDevice, client>>
    BY <1>3 DEF LinkTerminated
  <2>3. \A i \in Elements(mConnectedDevice) :
           remote[i].handle # events[1].handle => i \in Elements(mConnectedDevice')
    BY <2>1
  <2> QED
    BY <2>1, <2>2, <2>3, CancelTaken
<1>4. CASE LinkTerminatedAsAsked \/ LinkTerminatedUnknown
  <2>1. /\ Take("down")
        /\ UNCHANGED <<mIsConnecting, mConnectingDevice, client, remote, mConnectedDevice>>
    BY <1>4 DEF LinkTerminatedAsAsked, LinkTerminatedUnknown, listVars
  <2> QED
    BY <2>1, CancelTaken
<1>5. CASE HubDisconnected
  BY <1>0, <1>5, CancelIdle DEF HubDisconnected, listVars, dongleVars
<1>6. CASE DeviceDisconnected
  <2>1. /\ UNCHANGED <<listVars, dongleVars, mIsConnecting, client>> /\ Busy
        /\ remote' = [remote EXCEPT ![event.del].thread = "deleted"]
    BY <1>6 DEF DeviceDisconnected, Busy
  <2>2. "deleted" \in Threads /\ "deleted" \notin Reporting
    BY DEF Threads, Reporting
  <2>3. event.del \in DOMAIN remote
    BY <2>1 DEF DataOK, EventOK
  <2>4. \A j \in DOMAIN remote : remote'[j].addr = remote[j].addr
                                 /\ remote'[j].link = remote[j].link
    BY <2>1, <2>2, <2>3, ThreadMoved DEF DataOK
  <2>5. Elements(mConnectedDevice) \subseteq DOMAIN remote
    BY DEF DataOK, ListOK
  <2> QED
    BY <1>0, <2>1, <2>4, <2>5, CancelIdle DEF listVars, dongleVars
<1> QED
  BY <1>1, <1>2, <1>3, <1>4, <1>5, <1>6 DEF EventStep

\* The threads of the RemoteDevices.
LEMMA CancelThreads ==
    ASSUME DataOK, OneAttempt, AllKnown, NEW i \in DOMAIN remote, DeviceStep(i)
    PROVE  OneAttempt' /\ AllKnown'
<1>1. UNCHANGED <<listVars, dongleVars, mIsConnecting, client>>
  BY DEF DeviceStep, TakeHandle, Discovered, HubConnected, DeviceSetHandle,
     DeviceSetConnected
<1>2. \A j \in DOMAIN remote : remote'[j].addr = remote[j].addr
                               /\ remote'[j].link = remote[j].link
  <2>1. CASE TakeHandle(i)
    BY <2>1, TakeHandleDoes DEF DataOK
  <2>2. CASE Discovered(i)
    BY <2>2, DiscoveredDoes DEF DataOK
  <2>3. CASE HubConnected(i) \/ DeviceSetHandle(i) \/ DeviceSetConnected(i)
    <3>1. PICK t \in Threads : remote' = [remote EXCEPT ![i].thread = t]
      BY <2>3 DEF HubConnected, DeviceSetHandle, DeviceSetConnected, Threads
    <3>2. remote[i].dev \in Devices
      BY <2>3 DEF HubConnected, DeviceSetHandle, DeviceSetConnected, Reporting, DataOK,
         RemoteOK
    <3> QED
      BY <3>1, <3>2, ThreadMoved DEF DataOK
  <2> QED
    BY <2>1, <2>2, <2>3 DEF DeviceStep
<1>3. Elements(mConnectedDevice) \subseteq DOMAIN remote
      /\ \A c \in Clients : client[c].op # "cancelConnect"
  BY DEF DataOK, ListOK, OneAttempt
<1> QED
  BY <1>1, <1>2, <1>3, CancelIdle DEF listVars, dongleVars

\* Every step but a call of cancelConnect keeps every link known.
LEMMA CancelStep == DataOK /\ ObjectsOK /\ CancelInv /\ [Next]_vars => CancelInv'
<1> SUFFICES ASSUME DataOK, ObjectsOK, CancelInv, [Next]_vars, Never("cancel")'
             PROVE  OneAttempt' /\ AllKnown'
  BY DEF CancelInv
<1>0. "cancel" \in Deeds
  BY DEF Deeds
<1>1. OneAttempt /\ AllKnown
  BY <1>0, DoneStaysDone DEF CancelInv, DataOK
<1>2. \A c \in Clients : client[c].op # "cancelConnect"
  BY <1>1 DEF OneAttempt
<1>3. ASSUME NEW h \in Handles, LinkUp(h)
      PROVE  OneAttempt' /\ AllKnown'
  BY <1>1, <1>3, CancelLinkUp
<1>4. ASSUME NEW h \in Handles, LinkLost(h)
      PROVE  OneAttempt' /\ AllKnown'
  <2>1. DropLink(h) /\ UNCHANGED <<mIsConnecting, listVars, client, remote>>
    BY <1>4 DEF LinkLost
  <2> QED
    BY <1>1, <1>2, <2>1, CancelDropped DEF listVars
<1>5. ASSUME NEW c \in Clients, NEW d \in Devices,
             ConnectCall(c, d) \/ DisconnectCall(c, d) \/ CancelCall(c, d)
      PROVE  OneAttempt' /\ AllKnown'
  <2>1. ~CancelCall(c, d)
    BY <1>0, Spending DEF CancelCall, DataOK
  <2>2. PICK call : call.op # "cancelConnect" /\ client' = [client EXCEPT ![c] = call]
    <3>1. CASE ConnectCall(c, d)
      <4> DEFINE call == [NoCall EXCEPT !.pc = "queued", !.op = "connect", !.dev = d]
      <4>1. call.op # "cancelConnect"
        BY DEF NoCall
      <4>2. client' = [client EXCEPT ![c] = call]
        BY <3>1 DEF ConnectCall
      <4> QED
        BY <4>1, <4>2
    <3>2. CASE DisconnectCall(c, d)
      BY <3>2 DEF DisconnectCall
    <3> QED
      BY <1>5, <2>1, <3>1, <3>2
  <2>3. \A b \in Clients : client'[b].op # "cancelConnect"
    BY <1>2, <2>2, NoCancelBegun DEF DataOK
  <2>4. UNCHANGED <<mIsConnecting, listVars, remote, dongleVars>>
    BY <1>5 DEF ConnectCall, DisconnectCall, CancelCall
  <2> QED
    BY <1>1, <2>3, <2>4, CancelIdle DEF listVars, dongleVars
<1>6. CASE UNCHANGED vars
  BY <1>1, <1>2, <1>6, CancelIdle DEF vars, listVars, dongleVars
<1> QED
  BY <1>1, <1>3, <1>4, <1>5, <1>6, CancelRequests, CancelEvents, CancelThreads DEF Next

\* As long as nobody cancels no link is left behind: while it is up a RemoteDevice
\* knows it or is about to be told of it.
THEOREM NoLinkLeft == Spec => []LinksOwned
<1> DEFINE Inv == DataOK /\ ObjectsOK /\ CancelInv
<1>1. Init => Inv
  BY DataInit, ObjectsInit, CancelInit
<1>2. Inv /\ [Next]_vars => Inv'
  BY DataStep, ObjectsStep, CancelStep
<1>3. Inv => LinksOwned
  <2> SUFFICES ASSUME Inv, NEW h \in Handles, Never("cancel"), links[h] # NoDevice
               PROVE  \/ \E k \in 1..Len(events) :
                            events[k] = [kind |-> "up", addr |-> links[h], handle |-> h]
                      \/ \E i \in Elements(mConnectedDevice) :
                            /\ remote[i].addr = links[h]
                            /\ h = IF remote[i].thread = "setup" THEN remote[i].link
                                                                 ELSE remote[i].handle
    BY DEF LinksOwned
  <2>1. CASE Told(h)
    <3>1. PICK k \in 1..Len(events) :
             events[k].kind = "up" /\ events[k].addr = links[h] /\ events[k].handle = h
      BY <2>1 DEF Told
    <3>2. events[k] \in Message
      BY DEF DataOK, DongleOK
    <3>3. events[k] = [kind |-> "up", addr |-> links[h], handle |-> h]
      BY <3>1, <3>2 DEF Message
    <3> QED
      BY <3>3
  <2>2. CASE Owned(h)
    <3>1. PICK i \in Elements(mConnectedDevice) : remote[i].addr = links[h] /\ remote[i].link = h
      BY <2>2 DEF Owned
    <3>2. i \in DOMAIN remote
      BY DEF DataOK, ListOK
    <3>3. remote[i].thread # "setup" => remote[i].handle = h
      BY <3>1, <3>2 DEF ObjectsOK
    <3> QED
      BY <3>1, <3>3
  <2> QED
    BY <2>1, <2>2 DEF CancelInv, AllKnown
<1> QED
  BY <1>1, <1>2, <1>3, PTL DEF Spec
-----------------------------------------------------------------------------
(* With careful clients: the status follows the radio.                       *)

\* A link to armband d with handle h is about to be told of.
UpOf(h, d) == \E k \in 1..Len(events) :
    events[k].kind = "up" /\ events[k].handle = h /\ events[k].addr = d

\* With careful clients there is at most one RemoteDevice of an armband at a time, ...
OneLive == \A i, j \in DOMAIN remote :
    Alive(i) /\ Alive(j) /\ remote[i].addr = remote[j].addr => i = j
NoneOf(d) == \A i \in DOMAIN remote : Alive(i) => remote[i].addr # d

\* ... an armband without one is as it was at first, ...
Unlinked(d) == mHandle[d] = INVALID_HANDLE /\ d \in Disconnecteds
Linked(i) == mHandle[remote[i].addr] = remote[i].handle /\ remote[i].addr \in Connecteds
GoneInv == \A d \in Devices :
    NoneOf(d) => mCnntStatus[d] = "Disconnected" /\ Unlinked(d)

\* ... a RemoteDevice without a thread waits, one that was stopped is told of, ...
PlaceInv == \A i \in DOMAIN remote :
    /\ remote[i].thread = "none" => i \in Elements(mConnectingDevice)
    /\ remote[i].thread = "stopped" =>
          i \in Elements(mDisconnectingDevice) \/ (Busy /\ event.del = i)

\* ... the BLEDevice and the hub's sets follow the RemoteDevice's thread, ...
StatusInv == \A i \in DOMAIN remote : Alive(i) =>
    /\ mCnntStatus[remote[i].addr] # "Disconnected"
    /\ remote[i].thread = "none" => mCnntStatus[remote[i].addr] = "Connecting"
    /\ remote[i].thread = "connected" => mCnntStatus[remote[i].addr] = "Connected"
StageInv == \A i \in DOMAIN remote :
    /\ remote[i].thread \in {"none", "setup", "discovering", "report"} => Unlinked(remote[i].addr)
    /\ remote[i].thread = "onConnected" =>
          mHandle[remote[i].addr] = INVALID_HANDLE /\ remote[i].addr \in Connecteds
    /\ remote[i].thread \in {"protocol", "connected"} => Linked(i)
    /\ remote[i].thread = "stopped" =>
          \/ Unlinked(remote[i].addr) \/ Linked(i)
          \/ event.pc = "device" /\ event.del = i

\* ... and so does the event thread, ...
BusyInv == Busy =>
    /\ event.handle \in Handles /\ event.pc # "delete"
    /\ remote[event.del].thread = "stopped"
    /\ event.pc = "device" => event.addr \in Disconnecteds

\* ... a client that connects is alone with the armband, one that disconnects has the
\* handle of that armband, ...
ClientInv ==
    /\ \A c \in Clients :
          /\ client[c].pc # "write"
          /\ client[c].pc = "idle" => client[c].op = "none"
          /\ client[c].pc = "join" <=> mTaskMutex = c
    /\ \A c \in Clients : client[c].op = "connect" =>
          /\ \A b \in Clients : client[b].dev = client[c].dev => b = c
          /\ NoneOf(client[c].dev)
    /\ \A c \in Clients : client[c].op = "disconnect" =>
          /\ \A i \in DOMAIN remote : Alive(i) /\ remote[i].link = client[c].handle =>
                remote[i].addr = client[c].dev
          /\ \A d \in Devices : ~UpOf(client[c].handle, d)
JoinInv == \A c \in Clients : client[c].pc = "join" =>
    \E i \in DOMAIN remote : /\ Alive(i) /\ remote[i].handle = client[c].handle
                             /\ \/ i \in Elements(mConnectedDevice)
                                \/ event.pc = "hub" /\ event.del = i

\* ... a link is there until its end is told, ...
LinkInv ==
    /\ \A h \in Handles, d \in Devices : UpOf(h, d) => links[h] = d
    /\ \A i \in Elements(mConnectedDevice) :
          \/ links[remote[i].link] = remote[i].addr
          \/ remote[i].thread # "setup" /\ Ending(remote[i].link)
    /\ \A i \in Elements(mDisconnectingDevice) :
          remote[i].handle \in Handles /\ Ending(remote[i].handle)

\* ... and who waits for a link, and the busy flag, have the dongle at work.
WaitInv ==
    /\ \A i \in Elements(mConnectingDevice) :
          pending = remote[i].addr \/ \E h \in Handles : UpOf(h, remote[i].addr)
    /\ mIsConnecting => pending # NoDevice \/ \E h \in Handles, d \in Devices : UpOf(h, d)

CareInv == /\ OneLive /\ GoneInv /\ PlaceInv /\ StatusInv /\ StageInv
           /\ BusyInv /\ ClientInv /\ JoinInv /\ LinkInv /\ WaitInv
CareState == /\ DataOK /\ ObjectsOK /\ SetsOK /\ ~crossed
             /\ Distinct /\ OneAttempt /\ AllKnown /\ CareInv

-----------------------------------------------------------------------------
(* What the queue of events tells, whatever the places of the events in it. *)

\* The event of a link that comes up is added ...
LEMMA UpAdded ==
    ASSUME DongleOK, NEW h \in Handles, NEW d \in Devices,
           events' = Append(events, [kind |-> "up", addr |-> d, handle |-> h])
    PROVE  /\ \A g, e : UpOf(g, e)' <=> UpOf(g, e) \/ (g = h /\ e = d)
           /\ \A g : Ending(g)' <=> Ending(g)
<1> DEFINE m == [kind |-> "up", addr |-> d, handle |-> h]
           n == Len(events) + 1
<1>1. m.kind = "up" /\ m.addr = d /\ m.handle = h
  OBVIOUS
<1> HIDE DEF m
<1>2. /\ n \in 1..Len(events') /\ events'[n] = m
      /\ \A k \in 1..Len(events) : k \in 1..Len(events') /\ events'[k] = events[k]
      /\ \A k \in 1..Len(events') : k \in 1..Len(events) \/ k = n
  BY LastEvent DEF m
<1> HIDE DEF n
<1>3. ASSUME NEW g, NEW e PROVE UpOf(g, e)' <=> UpOf(g, e) \/ (g = h /\ e = d)
  BY <1>1, <1>2 DEF UpOf
<1>4. ASSUME NEW g PROVE Ending(g)' <=> Ending(g)
  BY <1>1, <1>2 DEF Ending
<1> QED
  BY <1>3, <1>4

\* ... or that of one that goes down, ...
LEMMA DownAdded ==
    ASSUME DongleOK, NEW h \in Handles,
           events' = Append(events, [kind |-> "down", addr |-> NoDevice, handle |-> h])
    PROVE  /\ \A g, e : UpOf(g, e)' <=> UpOf(g, e)
           /\ \A g : Ending(g)' <=> Ending(g) \/ g = h
<1> DEFINE m == [kind |-> "down", addr |-> NoDevice, handle |-> h]
           n == Len(events) + 1
<1>1. m.kind = "down" /\ m.handle = h
  OBVIOUS
<1> HIDE DEF m
<1>2. /\ n \in 1..Len(events') /\ events'[n] = m
      /\ \A k \in 1..Len(events) : k \in 1..Len(events') /\ events'[k] = events[k]
      /\ \A k \in 1..Len(events') : k \in 1..Len(events) \/ k = n
  BY LastEvent DEF m
<1> HIDE DEF n
<1>3. ASSUME NEW g, NEW e PROVE UpOf(g, e)' <=> UpOf(g, e)
  BY <1>1, <1>2 DEF UpOf
<1>4. ASSUME NEW g PROVE Ending(g)' <=> Ending(g) \/ g = h
  BY <1>1, <1>2 DEF Ending
<1> QED
  BY <1>3, <1>4

\* ... the only event of a link that came up is taken ...
LEMMA UpTaken ==
    ASSUME DongleOK, OneAttempt, Take("up")
    PROVE  /\ events[1].handle \in Handles /\ events[1].addr \in Devices
           /\ UpOf(events[1].handle, events[1].addr)
           /\ \A g, e : ~UpOf(g, e)'
           /\ \A g : Ending(g)' <=> Ending(g)
<1>1. /\ 1 \in 1..Len(events) /\ events[1].kind = "up"
      /\ \A k \in 1..Len(events') : k + 1 \in 1..Len(events) /\ events'[k] = events[k + 1]
      /\ \A k \in 1..Len(events) :
            k # 1 => k - 1 \in 1..Len(events') /\ events'[k - 1] = events[k]
  BY EventTaken
<1>2. \A k \in 1..Len(events) : events[k].kind = "up" => k = 1
  BY <1>1 DEF OneAttempt
<1>3. \A k \in 1..Len(events') : k + 1 # 1
  OBVIOUS
<1>4. events[1].handle \in Handles /\ events[1].addr \in Devices
  BY <1>1 DEF DongleOK
<1>5. UpOf(events[1].handle, events[1].addr)
  BY <1>1 DEF UpOf
<1>6. ASSUME NEW g, NEW e PROVE ~UpOf(g, e)'
  BY <1>1, <1>2, <1>3 DEF UpOf
<1>7. ASSUME NEW g PROVE Ending(g)' <=> Ending(g)
  <2>1. ASSUME Ending(g) PROVE Ending(g)'
    <3>1. PICK k \in 1..Len(events) : events[k].kind = "down" /\ events[k].handle = g
      BY <2>1 DEF Ending
    <3>2. k # 1
      BY <1>1, <3>1
    <3> QED
      BY <1>1, <3>1, <3>2 DEF Ending
  <2>2. ASSUME Ending(g)' PROVE Ending(g)
    BY <1>1, <2>2 DEF Ending
  <2> QED
    BY <2>1, <2>2
<1> QED
  BY <1>4, <1>5, <1>6, <1>7

\* ... or one of a link that went down.
LEMMA DownTaken ==
    ASSUME DongleOK, Take("down")
    PROVE  /\ events[1].handle \in Handles /\ Ending(events[1].handle)
           /\ \A g, e : UpOf(g, e)' <=> UpOf(g, e)
           /\ \A g : Ending(g)' => Ending(g)
           /\ \A g : Ending(g) /\ g # events[1].handle => Ending(g)'
<1>1. /\ 1 \in 1..Len(events) /\ events[1].kind = "down"
      /\ \A k \in 1..Len(events') : k + 1 \in 1..Len(events) /\ events'[k] = events[k + 1]
      /\ \A k \in 1..Len(events) :
            k # 1 => k - 1 \in 1..Len(events') /\ events'[k - 1] = events[k]
  BY EventTaken
<1>2. events[1].handle \in Handles /\ Ending(events[1].handle)
  BY <1>1 DEF DongleOK, Ending
<1>3. ASSUME NEW g, NEW e PROVE UpOf(g, e)' <=> UpOf(g, e)
  <2>1. ASSUME UpOf(g, e) PROVE UpOf(g, e)'
    <3>1. PICK k \in 1..Len(events) :
             events[k].kind = "up" /\ events[k].handle = g /\ events[k].addr = e
      BY <2>1 DEF UpOf
    <3>2. k # 1
      BY <1>1, <3>1
    <3> QED
      BY <1>1, <3>1, <3>2 DEF UpOf
  <2>2. ASSUME UpOf(g, e)' PROVE UpOf(g, e)
    BY <1>1, <2>2 DEF UpOf
  <2> QED
    BY <2>1, <2>2
<1>4. ASSUME NEW g, Ending(g)' PROVE Ending(g)
  BY <1>1, <1>4 DEF Ending
<1>5. ASSUME NEW g, Ending(g), g # events[1].handle PROVE Ending(g)'
  <2>1. PICK k \in 1..Len(events) : events[k].kind = "down" /\ events[k].handle = g
    BY <1>5 DEF Ending
  <2>2. k # 1
    BY <1>5, <2>1
  <2> QED
    BY <1>1, <2>1, <2>2 DEF Ending
<1> QED
  BY <1>2, <1>3, <1>4, <1>5

\* The queue is left alone.
LEMMA EventsLeft ==
    ASSUME UNCHANGED events
    PROVE  /\ \A g, e : UpOf(g, e)' <=> UpOf(g, e)
           /\ \A g : Ending(g)' <=> Ending(g)
BY DEF UpOf, Ending

\* What is known of a link that is about to be told of, and of one that is up.
LEMMA LinkFacts ==
    ASSUME DataOK, ObjectsOK, Distinct, OneAttempt, AllKnown
    PROVE  /\ \A h, d : UpOf(h, d) =>
                 /\ h \in Handles /\ d \in Devices /\ pending = NoDevice /\ mIsConnecting
                 /\ \E i \in Elements(mConnectingDevice) : remote[i].addr = d
                 /\ \A i \in DOMAIN remote : Alive(i) => remote[i].link # h
           /\ \A g, h, d, e : UpOf(g, d) /\ UpOf(h, e) => g = h /\ d = e
           /\ pending # NoDevice =>
                 mIsConnecting /\ \E i \in Elements(mConnectingDevice) : remote[i].addr = pending
           /\ \A h \in Handles : Ending(h) => links[h] = NoDevice
           /\ \A h \in Handles : links[h] # NoDevice =>
                 \/ UpOf(h, links[h])
                 \/ \E i \in Elements(mConnectedDevice) :
                       remote[i].addr = links[h] /\ remote[i].link = h
<1>1. ASSUME NEW h, NEW d, UpOf(h, d)
      PROVE  /\ h \in Handles /\ d \in Devices /\ pending = NoDevice /\ mIsConnecting
             /\ \E i \in Elements(mConnectingDevice) : remote[i].addr = d
             /\ \A i \in DOMAIN remote : Alive(i) => remote[i].link # h
  <2>1. PICK k \in 1..Len(events) :
           events[k].kind = "up" /\ events[k].handle = h /\ events[k].addr = d
    BY <1>1 DEF UpOf
  <2>2. h \in Handles /\ d \in Devices
    BY <2>1 DEF DataOK, DongleOK
  <2>3. pending = NoDevice /\ Awaited(d)
    BY <2>1 DEF OneAttempt
  <2>4. \A i \in DOMAIN remote : Alive(i) => remote[i].link # h
    BY <2>1 DEF Distinct, UpFresh
  <2> QED
    BY <2>2, <2>3, <2>4 DEF Awaited
<1>2. ASSUME NEW g, NEW h, NEW d, NEW e, UpOf(g, d), UpOf(h, e)
      PROVE  g = h /\ d = e
  BY <1>2 DEF UpOf, OneAttempt
<1>3. pending # NoDevice =>
         mIsConnecting /\ \E i \in Elements(mConnectingDevice) : remote[i].addr = pending
  BY DEF OneAttempt, Awaited
<1>4. \A h \in Handles : Ending(h) => links[h] = NoDevice
  BY DEF Ending, Distinct, DownGone
<1>5. \A h \in Handles : links[h] # NoDevice =>
         \/ UpOf(h, links[h])
         \/ \E i \in Elements(mConnectedDevice) : remote[i].addr = links[h] /\ remote[i].link = h
  BY DEF AllKnown, Told, Owned, UpOf
<1> QED
  BY <1>1, <1>2, <1>3, <1>4, <1>5

\* An armband without a RemoteDevice has no link, none coming and none asked for.
LEMMA NoLinkOf ==
    ASSUME CareState, NEW d \in Devices, NoneOf(d)
    PROVE  pending # d /\ \A h \in Handles : links[h] # d /\ ~UpOf(h, d)
<1>1. DataOK /\ ObjectsOK /\ Distinct /\ OneAttempt /\ AllKnown
  BY DEF CareState
<1>2. \A i \in Elements(mConnectingDevice) : remote[i].addr # d
  BY <1>1 DEF DataOK, ListOK, ObjectsOK, NoneOf, Alive
<1>3. \A i \in Elements(mConnectedDevice) : remote[i].addr # d
  BY <1>1 DEF DataOK, ListOK, ObjectsOK, NoneOf, Alive, Active
<1>4. \A h \in Handles : ~UpOf(h, d)
  BY <1>1, <1>2, LinkFacts
<1>5. pending # d /\ \A h \in Handles : links[h] # d
  BY <1>1, <1>2, <1>3, <1>4, LinkFacts, ConnectionAssumption
<1> QED
  BY <1>4, <1>5

\* RemoteDevices with one link, or with one handle, are one.
LEMMA SameLink ==
    ASSUME CareState, NEW i \in DOMAIN remote, NEW j \in DOMAIN remote, Alive(i), Alive(j),
           \/ remote[i].link \in Handles /\ remote[i].link = remote[j].link
           \/ remote[i].handle \in Handles /\ remote[i].handle = remote[j].handle
    PROVE  i = j
<1>1. ObjectsOK /\ OneAddr /\ OneLive
  BY DEF CareState, Distinct, CareInv
<1>2. remote[i].link \in Handles /\ remote[i].link = remote[j].link
  BY <1>1 DEF ObjectsOK
<1>3. remote[i].addr = remote[j].addr
  BY <1>1, <1>2 DEF OneAddr
<1> QED
  BY <1>1, <1>3 DEF OneLive

\* A RemoteDevice with a running thread has a link, and unless the thread has just begun
\* its handle is the link's.
LEMMA Running ==
    ASSUME DataOK, ObjectsOK, NEW i \in Elements(mConnectedDevice)
    PROVE  /\ i \in DOMAIN remote /\ Alive(i) /\ remote[i].link \in Handles
           /\ remote[i].thread # "setup" => remote[i].handle = remote[i].link
           /\ remote[i].thread \in Active /\ i \notin Elements(mDisconnectingDevice)
           /\ i \notin Elements(mConnectingDevice)
<1>1. i \in DOMAIN remote /\ remote[i].thread \in Active
  BY DEF DataOK, ListOK, ObjectsOK
<1>2. Alive(i) /\ remote[i].link \in Handles
      /\ (remote[i].thread # "setup" => remote[i].handle = remote[i].link)
  BY <1>1 DEF ObjectsOK, Alive, Active
<1>3. i \notin Elements(mDisconnectingDevice) /\ i \notin Elements(mConnectingDevice)
  BY DEF ObjectsOK
<1> QED
  BY <1>1, <1>2, <1>3

\* Every RemoteDevice is of an armband.
LEMMA AddrOf ==
    ASSUME DataOK
    PROVE  \A i \in DOMAIN remote : remote[i].addr \in Devices
<1> SUFFICES ASSUME NEW i \in DOMAIN remote PROVE remote[i].addr \in Devices
  OBVIOUS
<1>1. remote[i] \in RemoteDevice
  BY ElementOfSeq DEF DataOK, RemoteOK
<1> QED
  BY <1>1 DEF RemoteDevice

\* What is so of the RemoteDevices that live stays so when none is new ...
LEMMA FewerObjects ==
    ASSUME \A j : Alive(j)' => Alive(j) /\ remote'[j].addr = remote[j].addr
    PROVE  /\ OneLive => OneLive'
           /\ \A d : NoneOf(d) => NoneOf(d)'
<1>1. ASSUME OneLive PROVE OneLive'
  BY <1>1 DEF OneLive, Alive
<1>2. ASSUME NEW d, NoneOf(d) PROVE NoneOf(d)'
  BY <1>2 DEF NoneOf, Alive
<1> QED
  BY <1>1, <1>2

\* ... and what the clients rely on too, while no link comes up and no thread gets one.
LEMMA ClientsKept ==
    ASSUME ClientInv, UNCHANGED <<client, mTaskMutex>>,
           \A j : Alive(j)' => /\ Alive(j) /\ remote'[j].addr = remote[j].addr
                               /\ remote'[j].link = remote[j].link,
           \A g, e : UpOf(g, e)' => UpOf(g, e)
    PROVE  ClientInv'
<1>1. \A d : NoneOf(d) => NoneOf(d)'
  BY FewerObjects
<1>2. \A c \in Clients :
         /\ client'[c].pc # "write"
         /\ client'[c].pc = "idle" => client'[c].op = "none"
         /\ client'[c].pc = "join" <=> mTaskMutex' = c
  BY DEF ClientInv
<1>3. ASSUME NEW c \in Clients, client[c].op = "connect"
      PROVE  /\ \A b \in Clients : client[b].dev = client[c].dev => b = c
             /\ NoneOf(client[c].dev)'
  <2> DEFINE d == client[c].dev
  <2>1. NoneOf(d) /\ d' = d
    BY <1>3 DEF ClientInv
  <2> HIDE DEF d
  <2>2. \A i \in DOMAIN remote' : Alive(i)' => remote'[i].addr # d
    BY <1>1, <2>1 DEF NoneOf
  <2>3. \A i \in DOMAIN remote' : Alive(i)' => remote'[i].addr # client'[c].dev
    BY <2>1, <2>2 DEF d
  <2> QED
    BY <1>3, <2>3 DEF ClientInv, NoneOf
<1>4. ASSUME NEW c \in Clients, client[c].op = "disconnect"
      PROVE  /\ \A i \in DOMAIN remote' : Alive(i)' /\ remote'[i].link = client'[c].handle =>
                   remote'[i].addr = client'[c].dev
             /\ \A d \in Devices : ~UpOf(client[c].handle, d)'
  <2>1. \A i \in DOMAIN remote : Alive(i) /\ remote[i].link = client[c].handle =>
           remote[i].addr = client[c].dev
    BY <1>4 DEF ClientInv
  <2>2. ASSUME NEW i, Alive(i)', remote'[i].link = client'[c].handle
        PROVE  remote'[i].addr = client'[c].dev
    BY <2>1, <2>2 DEF Alive
  <2> DEFINE h == client[c].handle
  <2>3. h' = h /\ \A d \in Devices : ~UpOf(h, d)
    BY <1>4 DEF ClientInv
  <2>4. \A d \in Devices : UpOf(client[c].handle, d)' => UpOf(h, d)
    BY <2>3 DEF UpOf
  <2> QED
    BY <2>2, <2>3, <2>4
<1> QED
  BY <1>2, <1>3, <1>4 DEF ClientInv

-----------------------------------------------------------------------------
(* Every step of careful clients keeps the invariant. *)

\* A link comes up with a handle nothing refers to.
LEMMA CareLinkUp ==
    ASSUME CareState, NEW h \in Handles, LinkUp(h), ~InUse(h)
    PROVE  CareInv'
<1>0. /\ DataOK /\ ObjectsOK /\ Distinct /\ OneAttempt /\ AllKnown /\ DongleOK
      /\ OneLive /\ GoneInv /\ PlaceInv /\ StatusInv /\ StageInv
      /\ BusyInv /\ ClientInv /\ JoinInv /\ LinkInv /\ WaitInv
  BY DEF CareState, CareInv, DataOK
<1>1. /\ pending \in Devices /\ links' = [links EXCEPT ![h] = pending] /\ pending' = NoDevice
      /\ events' = Append(events, [kind |-> "up", addr |-> pending, handle |-> h])
      /\ UNCHANGED <<deviceVars, setVars, mTaskMutex, client, mIsConnecting, listVars, remote, event>>
  BY <1>0 DEF LinkUp, DongleOK
<1>2. /\ \A g, e : UpOf(g, e)' <=> g = h /\ e = pending
      /\ \A g : Ending(g)' <=> Ending(g)
      /\ \A g, e : ~UpOf(g, e)
  <2>1. \A g, e : ~UpOf(g, e)
    BY <1>0, <1>1, LinkFacts, ConnectionAssumption
  <2> QED
    BY <1>0, <1>1, <2>1, UpAdded
<1>3. /\ \A c \in Clients : client[c].handle # h
      /\ \A i \in DOMAIN remote : Alive(i) => remote[i].link # h
  BY DEF InUse, Alive
<1>4. OneLive' /\ GoneInv' /\ PlaceInv' /\ StatusInv' /\ StageInv'
  BY <1>0, <1>1, SameSets
  DEF OneLive, GoneInv, NoneOf, PlaceInv, StatusInv, StageInv, Unlinked,
     Linked,
                    Alive, Busy, deviceVars, setVars, listVars
<1>5. BusyInv' /\ JoinInv'
  BY <1>0, <1>1, SameSets DEF BusyInv, JoinInv, Alive, Busy, setVars, listVars
<1>6. ClientInv'
  <2>1. \A c \in Clients :
           /\ client'[c].pc # "write"
           /\ client'[c].pc = "idle" => client'[c].op = "none"
           /\ client'[c].pc = "join" <=> mTaskMutex' = c
    BY <1>0, <1>1 DEF ClientInv
  <2>2. \A c \in Clients : client'[c].op = "connect" =>
          /\ \A b \in Clients : client'[b].dev = client'[c].dev => b = c
          /\ NoneOf(client[c].dev)'
    BY <1>0, <1>1 DEF ClientInv, NoneOf, Alive
  <2>3. \A c \in Clients : client'[c].op = "disconnect" =>
          \A i \in DOMAIN remote' : Alive(i)' /\ remote'[i].link = client'[c].handle =>
                remote'[i].addr = client'[c].dev
    BY <1>0, <1>1 DEF ClientInv, Alive
  <2>4. ASSUME NEW c \in Clients, NEW d \in Devices
        PROVE  ~UpOf(client[c].handle, d)'
    <3> DEFINE g == client[c].handle
    <3>1. g # h /\ g' = g
      BY <1>1, <1>3
    <3> QED
      BY <1>2, <3>1
  <2> QED
    BY <2>1, <2>2, <2>3, <2>4 DEF ClientInv
<1>7. LinkInv'
  <2>1. links'[h] = pending /\ \A g \in Handles : g # h => links'[g] = links[g]
    BY <1>0, <1>1 DEF DongleOK
  <2>2. ASSUME NEW i \in Elements(mConnectedDevice)
        PROVE  \/ links'[remote[i].link] = remote[i].addr
               \/ remote[i].thread # "setup" /\ Ending(remote[i].link)
    <3>1. remote[i].link \in Handles /\ remote[i].link # h
      BY <1>0, <1>3, Running
    <3> QED
      BY <1>0, <2>1, <3>1 DEF LinkInv
  <2>3. \A i \in Elements(mConnectedDevice') :
          \/ links'[remote'[i].link] = remote'[i].addr
          \/ remote'[i].thread # "setup" /\ Ending(remote[i].link)'
    BY <1>1, <1>2, <2>2 DEF listVars
  <2>4. \A i \in Elements(mDisconnectingDevice') :
          remote'[i].handle \in Handles /\ Ending(remote[i].handle)'
    BY <1>0, <1>1, <1>2 DEF LinkInv, listVars
  <2> QED
    BY <1>2, <2>1, <2>3, <2>4 DEF LinkInv
<1>8. WaitInv'
  BY <1>0, <1>1, <1>2 DEF WaitInv, listVars
<1> QED
  BY <1>4, <1>5, <1>6, <1>7, <1>8 DEF CareInv

\* A link is lost whose thread has the handle.
LEMMA CareLinkLost ==
    ASSUME CareState, NEW h \in Handles, LinkLost(h), HandleTaken(h)
    PROVE  CareInv'
<1>0. /\ DataOK /\ ObjectsOK /\ Distinct /\ OneAttempt /\ AllKnown /\ DongleOK
      /\ OneLive /\ GoneInv /\ PlaceInv /\ StatusInv /\ StageInv
      /\ BusyInv /\ ClientInv /\ JoinInv /\ LinkInv /\ WaitInv
  BY DEF CareState, CareInv, DataOK
<1>1. /\ links' = [links EXCEPT ![h] = NoDevice] /\ UNCHANGED pending
      /\ events' = Append(events, [kind |-> "down", addr |-> NoDevice, handle |-> h])
      /\ UNCHANGED <<deviceVars, setVars, mTaskMutex, client, mIsConnecting, listVars, remote, event>>
  BY DEF LinkLost, DropLink
<1>2. /\ \A g, e : UpOf(g, e)' <=> UpOf(g, e)
      /\ \A g : Ending(g)' <=> Ending(g) \/ g = h
  BY <1>0, <1>1, DownAdded
<1>3. \A d : ~UpOf(h, d)
  BY DEF HandleTaken, UpOf
<1>4. OneLive' /\ GoneInv' /\ PlaceInv' /\ StatusInv' /\ StageInv'
  BY <1>0, <1>1, SameSets
  DEF OneLive, GoneInv, NoneOf, PlaceInv, StatusInv, StageInv, Unlinked,
     Linked,
                    Alive, Busy, deviceVars, setVars, listVars
<1>5. BusyInv' /\ JoinInv'
  BY <1>0, <1>1, SameSets DEF BusyInv, JoinInv, Alive, Busy, setVars, listVars
<1>6. ClientInv'
  <2>1. \A j : Alive(j)' => Alive(j) /\ remote'[j].addr = remote[j].addr
                            /\ remote'[j].link = remote[j].link
    BY <1>1 DEF Alive
  <2> QED
    BY <1>0, <1>1, <1>2, <2>1, ClientsKept
<1>7. LinkInv'
  <2>1. links'[h] = NoDevice /\ \A g \in Handles : g # h => links'[g] = links[g]
    BY <1>0, <1>1 DEF DongleOK
  <2>2. PICK j \in Elements(mConnectedDevice) : remote[j].handle = h
    BY DEF HandleTaken
  <2>3. ASSUME NEW i \in Elements(mConnectedDevice)
        PROVE  \/ links'[remote[i].link] = remote[i].addr
               \/ remote[i].thread # "setup" /\ (Ending(remote[i].link) \/ remote[i].link = h)
    <3>1. i \in DOMAIN remote /\ Alive(i) /\ remote[i].link \in Handles
      BY <1>0, Running
    <3>2. j \in DOMAIN remote /\ Alive(j) /\ remote[j].thread # "setup" /\ remote[j].link = h
      <4>1. j \in DOMAIN remote /\ Alive(j) /\ (remote[j].thread # "setup" => remote[j].link = h)
        BY <1>0, <2>2, Running
      <4>2. remote[j].thread # "setup"
        BY <1>0, <2>2, <4>1, ConnectionAssumption DEF ObjectsOK
      <4> QED
        BY <4>1, <4>2
    <3>3. CASE remote[i].link = h
      <4>1. i = j
        BY <3>1, <3>2, <3>3, SameLink
      <4> QED
        BY <3>2, <3>3, <4>1
    <3>4. CASE remote[i].link # h
      BY <1>0, <2>1, <3>1, <3>4 DEF LinkInv
    <3> QED
      BY <3>3, <3>4
  <2>4. \A i \in Elements(mConnectedDevice') :
          \/ links'[remote'[i].link] = remote'[i].addr
          \/ remote'[i].thread # "setup" /\ Ending(remote[i].link)'
    BY <1>1, <1>2, <2>3 DEF listVars
  <2>5. \A i \in Elements(mDisconnectingDevice') :
          remote'[i].handle \in Handles /\ Ending(remote[i].handle)'
    BY <1>0, <1>1, <1>2 DEF LinkInv, listVars
  <2>6. \A g \in Handles, d \in Devices : UpOf(g, d)' => links'[g] = d
    BY <1>0, <1>2, <1>3, <2>1 DEF LinkInv
  <2> QED
    BY <2>4, <2>5, <2>6 DEF LinkInv
<1>8. WaitInv'
  BY <1>0, <1>1, <1>2 DEF WaitInv, listVars
<1> QED
  BY <1>4, <1>5, <1>6, <1>7, <1>8 DEF CareInv

\* A client gives up a request, or takes one.
LEMMA ClientChanged ==
    ASSUME DataOK, NEW c \in Clients, NEW call, client' = [client EXCEPT ![c] = call]
    PROVE  client'[c] = call /\ \A b \in Clients : b # c => client'[b] = client[b]
BY DEF DataOK, ClientOK

\* What only the clients and mTaskMutex change.
LEMMA ClientsOnly ==
    ASSUME CareInv, ClientInv', JoinInv',
           UNCHANGED <<deviceVars, setVars, mIsConnecting, listVars, remote, event, dongleVars>>
    PROVE  CareInv'
<1>1. \A g, e : UpOf(g, e)' <=> UpOf(g, e)
  BY EventsLeft DEF dongleVars
<1>2. \A g : Ending(g)' <=> Ending(g)
  BY EventsLeft DEF dongleVars
<1>3. OneLive' /\ GoneInv' /\ PlaceInv' /\ StatusInv' /\ StageInv'
  BY SameSets DEF CareInv, OneLive, GoneInv, NoneOf, PlaceInv, StatusInv, StageInv, Unlinked, Linked,
         Alive, Busy, deviceVars, setVars, listVars
<1>4. BusyInv'
  BY SameSets DEF CareInv, BusyInv, Busy, setVars
<1>5. LinkInv'
  <2>1. /\ \A h \in Handles, d \in Devices : UpOf(h, d)' => links'[h] = d
        /\ \A i \in Elements(mConnectedDevice') :
              \/ links'[remote'[i].link] = remote'[i].addr
              \/ remote'[i].thread # "setup" /\ Ending(remote[i].link)'
        /\ \A i \in Elements(mDisconnectingDevice') :
              remote'[i].handle \in Handles /\ Ending(remote[i].handle)'
    BY <1>1, <1>2 DEF CareInv, LinkInv, listVars, dongleVars
  <2> QED
    BY <2>1 DEF LinkInv
<1>6. WaitInv'
  BY <1>1 DEF CareInv, WaitInv, listVars, dongleVars
<1> QED
  BY <1>3, <1>4, <1>5, <1>6 DEF CareInv

\* A call of connect for an armband that is Disconnected, alone with it.
LEMMA CareConnectCall ==
    ASSUME CareState, NEW c \in Clients, NEW d \in Devices, ConnectCall(c, d),
           mCnntStatus[d] = "Disconnected", \A b \in Clients : client[b].dev # d
    PROVE  CareInv'
<1> DEFINE call == [NoCall EXCEPT !.pc = "queued", !.op = "connect", !.dev = d]
<1>0. DataOK /\ CareInv /\ ClientInv /\ JoinInv /\ StatusInv
  BY DEF CareState, CareInv
<1>1. /\ client[c].pc = "idle" /\ client' = [client EXCEPT ![c] = call]
      /\ UNCHANGED <<deviceVars, setVars, mTaskMutex, mIsConnecting, listVars, remote, event,
                     dongleVars>>
  BY DEF ConnectCall
<1>2. call.pc = "queued" /\ call.op = "connect" /\ call.dev = d
  BY DEF NoCall
<1> HIDE DEF call
<1>3. client'[c] = call /\ \A b \in Clients : b # c => client'[b] = client[b]
  BY <1>0, <1>1, ClientChanged
<1>4. NoneOf(d)
  BY <1>0 DEF StatusInv, NoneOf
<1>5. ClientInv'
  <2>1. \A b \in Clients :
           /\ client'[b].pc # "write"
           /\ client'[b].pc = "idle" => client'[b].op = "none"
           /\ client'[b].pc = "join" <=> mTaskMutex' = b
    BY <1>0, <1>1, <1>2, <1>3 DEF ClientInv
  <2>2. \A b \in Clients : client'[b].op = "connect" =>
           /\ \A e \in Clients : client'[e].dev = client'[b].dev => e = b
           /\ NoneOf(client'[b].dev)
    BY <1>0, <1>2, <1>3, <1>4 DEF ClientInv
  <2>3. \A b \in Clients : client'[b].op = "disconnect" =>
          /\ \A i \in DOMAIN remote : Alive(i) /\ remote[i].link = client'[b].handle =>
                remote[i].addr = client'[b].dev
          /\ \A e \in Devices : ~UpOf(client'[b].handle, e)
    BY <1>0, <1>2, <1>3 DEF ClientInv
  <2> QED
    BY <1>1, <2>1, <2>2, <2>3 DEF ClientInv, NoneOf, Alive, UpOf, dongleVars
<1>6. JoinInv'
  BY <1>0, <1>1, <1>2, <1>3 DEF JoinInv, Alive, listVars
<1> QED
  BY <1>0, <1>1, <1>5, <1>6, ClientsOnly

\* A call of disconnect.
LEMMA CareDisconnectCall ==
    ASSUME CareState, NEW c \in Clients, NEW d \in Devices, DisconnectCall(c, d)
    PROVE  CareInv'
<1> DEFINE h == mHandle[d]
           call == [pc |-> "queued", op |-> "disconnect", dev |-> d, handle |-> h]
<1>0. /\ DataOK /\ ObjectsOK /\ Distinct /\ OneAttempt /\ AllKnown
      /\ CareInv /\ ClientInv /\ JoinInv /\ GoneInv
  BY DEF CareState, CareInv
<1>1. /\ client[c].pc = "idle" /\ client' = [client EXCEPT ![c] = call]
      /\ mCnntStatus[d] = "Connected" /\ h # INVALID_HANDLE
      /\ UNCHANGED <<deviceVars, setVars, mTaskMutex, mIsConnecting, listVars, remote, event,
                     dongleVars>>
  BY DEF DisconnectCall
<1>2. call.pc = "queued" /\ call.op = "disconnect" /\ call.dev = d /\ call.handle = h
  OBVIOUS
<1>3. h \in Handles
  BY <1>0, <1>1 DEF DataOK, DeviceOK, AnyHandle
<1>4. PICK j \in DOMAIN remote : Alive(j) /\ remote[j].handle = h /\ remote[j].addr = d
  BY <1>0, <1>3 DEF Distinct, KnownHandle
<1> HIDE DEF call, h
<1>5. client'[c] = call /\ \A b \in Clients : b # c => client'[b] = client[b]
  BY <1>0, <1>1, ClientChanged
<1>6. remote[j].link = h
  BY <1>0, <1>3, <1>4 DEF ObjectsOK
<1>7. \A i \in DOMAIN remote : Alive(i) /\ remote[i].link = h => remote[i].addr = d
  BY <1>0, <1>3, <1>4, <1>6 DEF Distinct, OneAddr
<1>8. \A e \in Devices : ~UpOf(h, e)
  BY <1>0, <1>4, <1>6, LinkFacts
<1>9. ClientInv'
  <2>1. \A b \in Clients :
           /\ client'[b].pc # "write"
           /\ client'[b].pc = "idle" => client'[b].op = "none"
           /\ client'[b].pc = "join" <=> mTaskMutex' = b
    BY <1>0, <1>1, <1>2, <1>5 DEF ClientInv
  <2>2. \A b \in Clients : client[b].op = "connect" => client[b].dev # d
    BY <1>0, <1>1, <1>4 DEF ClientInv, NoneOf
  <2>3. \A b \in Clients : client'[b].op = "connect" =>
           /\ \A e \in Clients : client'[e].dev = client'[b].dev => e = b
           /\ NoneOf(client'[b].dev)
    BY <1>0, <1>2, <1>5, <2>2 DEF ClientInv
  <2>4. \A b \in Clients : client'[b].op = "disconnect" =>
          /\ \A i \in DOMAIN remote : Alive(i) /\ remote[i].link = client'[b].handle =>
                remote[i].addr = client'[b].dev
          /\ \A e \in Devices : ~UpOf(client'[b].handle, e)
    BY <1>0, <1>2, <1>5, <1>7, <1>8 DEF ClientInv
  <2> QED
    BY <1>1, <2>1, <2>3, <2>4 DEF ClientInv, NoneOf, Alive, UpOf, dongleVars
<1>10. JoinInv'
  BY <1>0, <1>1, <1>2, <1>5 DEF JoinInv, Alive, listVars
<1> QED
  BY <1>0, <1>1, <1>9, <1>10, ClientsOnly

\* A request is refused.
LEMMA CareRefused ==
    ASSUME CareState, NEW c \in Clients, client[c].pc = "queued",
           client' = [client EXCEPT ![c] = NoCall],
           UNCHANGED <<deviceVars, setVars, mTaskMutex, mIsConnecting, listVars, remote, event,
                       dongleVars>>
    PROVE  CareInv'
<1>0. DataOK /\ CareInv /\ ClientInv /\ JoinInv
  BY DEF CareState, CareInv
<1>1. NoCall.pc = "idle" /\ NoCall.op = "none" /\ NoCall.dev = NoDevice
  BY DEF NoCall
<1>2. client'[c] = NoCall /\ \A b \in Clients : b # c => client'[b] = client[b]
  BY <1>0, ClientChanged
<1>3. ClientInv'
  <2>1. \A b \in Clients :
           /\ client'[b].pc # "write"
           /\ client'[b].pc = "idle" => client'[b].op = "none"
           /\ client'[b].pc = "join" <=> mTaskMutex' = b
    BY <1>0, <1>1, <1>2 DEF ClientInv
  <2>2. \A b \in Clients : client[b].op = "connect" => client[b].dev \in Devices
    BY <1>0 DEF ClientInv, DataOK, ClientOK
  <2>3. \A b \in Clients : client'[b].op = "connect" =>
           /\ \A e \in Clients : client'[e].dev = client'[b].dev => e = b
           /\ NoneOf(client'[b].dev)
    BY <1>0, <1>1, <1>2, <2>2, ConnectionAssumption DEF ClientInv
  <2>4. \A b \in Clients : client'[b].op = "disconnect" =>
          /\ \A i \in DOMAIN remote : Alive(i) /\ remote[i].link = client'[b].handle =>
                remote[i].addr = client'[b].dev
          /\ \A e \in Devices : ~UpOf(client'[b].handle, e)
    BY <1>0, <1>1, <1>2 DEF ClientInv
  <2> QED
    BY <2>1, <2>3, <2>4 DEF ClientInv, NoneOf, Alive, UpOf, dongleVars
<1>4. JoinInv'
  BY <1>0, <1>1, <1>2 DEF JoinInv, Alive, listVars
<1> QED
  BY <1>0, <1>3, <1>4, ClientsOnly

\* The command thread begins to wait for the threads it stops.
LEMMA CareDisconnectBegin ==
    ASSUME CareState, NEW c \in Clients, DisconnectBegin(c)
    PROVE  CareInv'
<1> DEFINE call == [client[c] EXCEPT !.pc = "join"]
           found == AtHandle(mConnectedDevice, client[c].handle)
<1>0. DataOK /\ CareInv /\ ClientInv /\ JoinInv /\ ObjectsOK
  BY DEF CareState, CareInv
<1>1. /\ client[c].pc = "queued" /\ mTaskMutex = Free /\ mTaskMutex' = c
      /\ client' = [client EXCEPT ![c] = call] /\ found # <<>>
      /\ UNCHANGED <<deviceVars, setVars, mIsConnecting, listVars, remote, event, dongleVars>>
  BY DEF DisconnectBegin
<1>2. call.pc = "join" /\ call.op = client[c].op /\ call.dev = client[c].dev
      /\ call.handle = client[c].handle
  <2>1. client[c] \in Call
    BY <1>0 DEF DataOK, ClientOK
  <2> QED
    BY <2>1 DEF Call
<1>3. \E i \in Elements(mConnectedDevice) : remote[i].handle = client[c].handle
  <2>1. /\ found \in Seq(Ids)
        /\ Elements(found) = {i \in Elements(mConnectedDevice) : remote[i].handle = client[c].handle}
    BY <1>0, Searches DEF DataOK, ListOK
  <2> HIDE DEF found
  <2> QED
    BY <1>1, <2>1, HeadIn
<1> HIDE DEF call, found
<1>4. client'[c] = call /\ \A b \in Clients : b # c => client'[b] = client[b]
  BY <1>0, <1>1, ClientChanged
<1>5. ClientInv'
  <2>1. \A b \in Clients :
           /\ client'[b].pc # "write"
           /\ client'[b].pc = "idle" => client'[b].op = "none"
           /\ client'[b].pc = "join" <=> mTaskMutex' = b
    BY <1>0, <1>1, <1>2, <1>4, ConnectionAssumption DEF ClientInv
  <2>2. \A b \in Clients : client'[b].op = client[b].op /\ client'[b].dev = client[b].dev
                           /\ client'[b].handle = client[b].handle
    BY <1>2, <1>4
  <2>3. \A b \in Clients : client'[b].op = "connect" =>
           /\ \A e \in Clients : client'[e].dev = client'[b].dev => e = b
           /\ NoneOf(client'[b].dev)
    BY <1>0, <2>2 DEF ClientInv
  <2>4. \A b \in Clients : client'[b].op = "disconnect" =>
          /\ \A i \in DOMAIN remote : Alive(i) /\ remote[i].link = client'[b].handle =>
                remote[i].addr = client'[b].dev
          /\ \A e \in Devices : ~UpOf(client'[b].handle, e)
    BY <1>0, <2>2 DEF ClientInv
  <2> QED
    BY <1>1, <2>1, <2>3, <2>4 DEF ClientInv, NoneOf, Alive, UpOf, dongleVars
<1>6. JoinInv'
  <2>1. PICK i \in Elements(mConnectedDevice) : remote[i].handle = client[c].handle
    BY <1>3
  <2>2. i \in DOMAIN remote /\ Alive(i)
    BY <1>0, Running
  <2>3. \A b \in Clients : b # c => client[b].pc # "join"
    BY <1>0, <1>1, ConnectionAssumption DEF ClientInv
  <2> QED
    BY <1>1, <1>2, <1>4, <2>1, <2>2, <2>3 DEF JoinInv, Alive, listVars
<1> QED
  BY <1>0, <1>1, <1>5, <1>6, ClientsOnly

\* AdapterManager::Connect goes ahead.
LEMMA CareConnect ==
    ASSUME CareState, NEW c \in Clients, Connect(c), ~mIsConnecting,
           client' = [client EXCEPT ![c] = NoCall],
           mCnntStatus' = [mCnntStatus EXCEPT ![client[c].dev] = StatusAfter(client[c].op)]
    PROVE  CareInv'
<1> DEFINE n == Len(remote) + 1
           d == client[c].dev
<1>0. /\ DataOK /\ ObjectsOK /\ Distinct /\ OneAttempt /\ AllKnown
      /\ OneLive /\ GoneInv /\ PlaceInv /\ StatusInv /\ StageInv
      /\ BusyInv /\ ClientInv /\ JoinInv /\ LinkInv /\ WaitInv
  BY DEF CareState, CareInv
<1>1. /\ n \notin DOMAIN remote /\ DOMAIN remote' = DOMAIN remote \cup {n}
      /\ \A j \in DOMAIN remote : remote'[j] = remote[j]
      /\ remote'[n].addr = d /\ remote'[n].thread = "none" /\ remote'[n].link = INVALID_HANDLE
      /\ Elements(mConnectingDevice') = {n} \cup Elements(mConnectingDevice)
      /\ UNCHANGED <<mConnectedDevice, mDisconnectingDevice>>
      /\ RequestLink(d)
  BY <1>0, ConnectDoes DEF DataOK
<1>2. /\ client[c].pc = "queued" /\ client[c].op = "connect" /\ mTaskMutex = Free
      /\ mCnntStatus' = [mCnntStatus EXCEPT ![d] = "Connecting"]
      /\ UNCHANGED <<mHandle, setVars, mTaskMutex, event, links, events>>
  BY <1>1 DEF Connect, StatusAfter, RequestLink
<1>3. d \in Devices /\ d # NoDevice
  BY <1>0, <1>2, ConnectionAssumption DEF DataOK, ClientOK
<1>4. NoneOf(d) /\ \A b \in Clients : client[b].dev = d => b = c
  BY <1>0, <1>2 DEF ClientInv
<1>5. mCnntStatus'[d] = "Connecting" /\ \A e \in Devices : e # d => mCnntStatus'[e] = mCnntStatus[e]
  BY <1>0, <1>2, <1>3 DEF DataOK, DeviceOK
<1>6. pending = NoDevice /\ \A g, e : ~UpOf(g, e)
  BY <1>0, LinkFacts
<1>7. pending' = d
  <2>1. \A h \in Handles : links[h] # d
    BY <1>3, <1>4, NoLinkOf
  <2> QED
    BY <1>1, <1>6, <2>1 DEF RequestLink
<1>8. /\ \A g, e : UpOf(g, e)' <=> UpOf(g, e)
      /\ \A g : Ending(g)' <=> Ending(g)
  BY <1>2, EventsLeft
<1>9. NoCall.pc = "idle" /\ NoCall.op = "none" /\ NoCall.dev = NoDevice
  BY DEF NoCall
<1>10. client'[c] = NoCall /\ \A b \in Clients : b # c => client'[b] = client[b]
  BY <1>0, ClientChanged
<1>11. \A i \in DOMAIN remote : remote[i].addr \in Devices /\ (Alive(i) => remote[i].addr # d)
  BY <1>0, <1>4, AddrOf DEF NoneOf
<1>12. /\ Elements(mConnectingDevice) \subseteq DOMAIN remote
       /\ Elements(mConnectedDevice) \subseteq DOMAIN remote
       /\ Elements(mDisconnectingDevice) \subseteq DOMAIN remote
       /\ Busy => event.del \in DOMAIN remote
  BY <1>0 DEF DataOK, ListOK, EventOK
<1> HIDE DEF n, d
<1>13. \A i : Alive(i)' <=> Alive(i) \/ i = n
  BY <1>1 DEF Alive
<1>14. \A e \in Devices : NoneOf(e)' <=> NoneOf(e) /\ e # d
  BY <1>1, <1>13 DEF NoneOf, Alive
<1>15. OneLive'
  BY <1>0, <1>1, <1>11, <1>13 DEF OneLive, Alive
<1>16. GoneInv'
  BY <1>0, <1>2, <1>5, <1>14, SameSets DEF GoneInv, Unlinked, setVars
<1>17. PlaceInv'
  BY <1>0, <1>1, <1>2 DEF PlaceInv, Busy
<1>18. StatusInv'
  BY <1>0, <1>1, <1>5, <1>11, <1>13 DEF StatusInv, Alive
<1>19. StageInv'
  <2>1. Unlinked(d)
    BY <1>0, <1>3, <1>4 DEF GoneInv
  <2> QED
    BY <1>0, <1>1, <1>2, <2>1, SameSets DEF StageInv, Unlinked, Linked, setVars
<1>20. BusyInv'
  BY <1>0, <1>1, <1>2, <1>12, SameSets DEF BusyInv, Busy, setVars
<1>21. ClientInv'
  <2>1. \A b \in Clients :
           /\ client'[b].pc # "write"
           /\ client'[b].pc = "idle" => client'[b].op = "none"
           /\ client'[b].pc = "join" <=> mTaskMutex' = b
    BY <1>0, <1>2, <1>9, <1>10 DEF ClientInv
  <2>2. ASSUME NEW b \in Clients, client'[b].op = "connect"
        PROVE  /\ \A e \in Clients : client'[e].dev = client'[b].dev => e = b
               /\ \A i \in DOMAIN remote' : Alive(i)' => remote'[i].addr # client'[b].dev
    <3>1. b # c /\ client'[b] = client[b] /\ client[b].dev # d /\ client[b].dev \in Devices
      BY <1>0, <1>4, <1>9, <1>10, <2>2 DEF ClientInv, DataOK, ClientOK
    <3>2. NoneOf(client[b].dev) /\ \A e \in Clients : client[e].dev = client[b].dev => e = b
      BY <1>0, <2>2, <3>1 DEF ClientInv
    <3>3. \A e \in Clients : client'[e].dev = client'[b].dev => e = b
      BY <1>9, <1>10, <3>1, <3>2, ConnectionAssumption
    <3> QED
      BY <1>1, <1>13, <3>1, <3>2, <3>3 DEF NoneOf, Alive
  <2>3. ASSUME NEW b \in Clients, client'[b].op = "disconnect"
        PROVE  /\ \A i \in DOMAIN remote' : Alive(i)' /\ remote'[i].link = client'[b].handle =>
                     remote'[i].addr = client'[b].dev
               /\ \A e \in Devices : ~UpOf(client'[b].handle, e)
    <3>1. b # c /\ client'[b] = client[b] /\ client[b].handle \in Handles
      BY <1>0, <1>9, <1>10, <2>3 DEF DataOK, ClientOK
    <3>2. /\ \A i \in DOMAIN remote : Alive(i) /\ remote[i].link = client[b].handle =>
                     remote[i].addr = client[b].dev
          /\ \A e \in Devices : ~UpOf(client[b].handle, e)
      BY <1>0, <2>3, <3>1 DEF ClientInv
    <3> QED
      BY <1>1, <1>13, <3>1, <3>2, ConnectionAssumption DEF Alive
  <2>4. \A b \in Clients, e \in Devices : client'[b].op = "disconnect" =>
           ~UpOf(client[b].handle, e)'
    BY <1>2, <2>3 DEF UpOf
  <2> QED
    BY <1>2, <2>1, <2>2, <2>3 DEF ClientInv, NoneOf, UpOf
<1>22. JoinInv'
  BY <1>0, <1>2, <1>9, <1>10, ConnectionAssumption DEF ClientInv, JoinInv
<1>23. LinkInv'
  <2>1. /\ \A i \in Elements(mConnectedDevice') :
              \/ links'[remote'[i].link] = remote'[i].addr
              \/ remote'[i].thread # "setup" /\ Ending(remote'[i].link)
        /\ \A i \in Elements(mDisconnectingDevice') :
              remote'[i].handle \in Handles /\ Ending(remote'[i].handle)
    BY <1>0, <1>1, <1>2, <1>12 DEF LinkInv
  <2> QED
    BY <1>2, <1>6, <1>8, <2>1 DEF LinkInv, Ending
<1>24. WaitInv'
  <2>1. Elements(mConnectingDevice) = {}
    <3>1. \A i \in Elements(mConnectingDevice) : pending = remote[i].addr
      BY <1>0, <1>6 DEF WaitInv
    <3> QED
      BY <1>6, <1>11, <1>12, <3>1, ConnectionAssumption
  <2> QED
    BY <1>1, <1>3, <1>7, <2>1 DEF WaitInv
<1> QED
  BY <1>15, <1>16, <1>17, <1>18, <1>19, <1>20, <1>21, <1>22, <1>23, <1>24 DEF CareInv

\* AdapterManager::Disconnect ends.
LEMMA CareDisconnectEnd ==
    ASSUME CareState, NEW c \in Clients, DisconnectEnd(c),
           client' = [client EXCEPT ![c] = NoCall],
           mCnntStatus' = [mCnntStatus EXCEPT ![client[c].dev] = StatusAfter(client[c].op)]
    PROVE  CareInv'
<1> DEFINE d == client[c].dev
           h == client[c].handle
           mine == {i \in Elements(mConnectedDevice) : remote[i].handle = h}
<1>0. /\ DataOK /\ ObjectsOK /\ Distinct /\ OneAttempt /\ AllKnown
      /\ OneLive /\ GoneInv /\ PlaceInv /\ StatusInv /\ StageInv
      /\ BusyInv /\ ClientInv /\ JoinInv /\ LinkInv /\ WaitInv
  BY DEF CareState, CareInv
<1>1. /\ DOMAIN remote' = DOMAIN remote
      /\ \A j \in DOMAIN remote :
            /\ remote'[j].addr = remote[j].addr
            /\ remote'[j].handle = remote[j].handle
            /\ remote'[j].link = remote[j].link
            /\ remote'[j].thread = IF j \in mine THEN "stopped" ELSE remote[j].thread
      /\ \A i \in mine : CanStop(i)
      /\ Elements(mConnectedDevice') = Elements(mConnectedDevice) \ mine
      /\ Elements(mDisconnectingDevice') = mine \cup Elements(mDisconnectingDevice)
      /\ UNCHANGED mConnectingDevice
      /\ TerminateLink(h)
  BY <1>0, DisconnectEndDoes DEF DataOK
<1>2. /\ client[c].pc = "join" /\ mTaskMutex' = Free
      /\ UNCHANGED <<mHandle, setVars, mIsConnecting, event>>
  BY DEF DisconnectEnd
<1>3. client[c].op = "disconnect" /\ d \in Devices /\ h \in Handles /\ mTaskMutex = c
  BY <1>0, <1>2 DEF DataOK, ClientOK, ClientInv
<1>4. mCnntStatus'[d] = "Disconnecting" /\ \A e \in Devices : e # d => mCnntStatus'[e] = mCnntStatus[e]
  BY <1>0, <1>3 DEF DataOK, DeviceOK, StatusAfter
<1>5. NoCall.pc = "idle" /\ NoCall.op = "none" /\ NoCall.dev = NoDevice
  BY DEF NoCall
<1>6. client'[c] = NoCall /\ \A b \in Clients : b # c => client'[b] = client[b]
  BY <1>0, ClientChanged
<1>7. /\ \A i \in DOMAIN remote : Alive(i) /\ remote[i].link = h => remote[i].addr = d
      /\ \A e \in Devices : ~UpOf(h, e)
  BY <1>0, <1>3 DEF ClientInv
<1>8. PICK o \in DOMAIN remote :
         /\ Alive(o) /\ remote[o].handle = h
         /\ o \in Elements(mConnectedDevice) \/ (event.pc = "hub" /\ event.del = o)
  BY <1>0, <1>2 DEF JoinInv
<1>9. remote[o].link = h /\ remote[o].addr = d
  BY <1>0, <1>3, <1>7, <1>8 DEF ObjectsOK
<1>10. \A i \in mine : i = o
  <2> SUFFICES ASSUME NEW i \in mine PROVE i = o
    OBVIOUS
  <2>1. i \in DOMAIN remote /\ Alive(i) /\ remote[i].handle = h
    BY <1>0, Running
  <2> QED
    BY <1>3, <1>8, <2>1, SameLink
<1>11. /\ pending' = pending
       /\ \A g, e : UpOf(g, e)' <=> UpOf(g, e)
       /\ \A g : Ending(g) => Ending(g)'
       /\ \A g \in Handles : g # h => links'[g] = links[g]
       /\ links[h] # NoDevice => \A g : g = h => Ending(g)'
  <2> HIDE DEF h
  <2>1. CASE DropLink(h)
    <3>1. /\ links' = [links EXCEPT ![h] = NoDevice] /\ pending' = pending
          /\ events' = Append(events, [kind |-> "down", addr |-> NoDevice, handle |-> h])
      BY <2>1 DEF DropLink
    <3>2. /\ \A g, e : UpOf(g, e)' <=> UpOf(g, e)
          /\ \A g : Ending(g)' <=> Ending(g) \/ g = h
      BY <1>0, <1>3, <3>1, DownAdded DEF DataOK
    <3>3. \A g \in Handles : g # h => links'[g] = links[g]
      BY <1>0, <3>1 DEF DataOK, DongleOK
    <3> QED
      BY <3>1, <3>2, <3>3
  <2>2. CASE links[h] = NoDevice /\ UNCHANGED dongleVars
    BY <2>2, EventsLeft DEF dongleVars
  <2> QED
    BY <1>1, <1>3, <2>1, <2>2 DEF TerminateLink
<1>12. \A i \in DOMAIN remote : remote[i].addr \in Devices
  BY <1>0, AddrOf
<1>13. /\ Elements(mConnectingDevice) \subseteq DOMAIN remote
       /\ Elements(mConnectedDevice) \subseteq DOMAIN remote
       /\ Elements(mDisconnectingDevice) \subseteq DOMAIN remote
       /\ Busy => event.del \in DOMAIN remote
  BY <1>0 DEF DataOK, ListOK, EventOK
<1>14. mine \subseteq Elements(mConnectedDevice) /\ \A i \in mine : remote[i].handle = h
  OBVIOUS
<1>15. o \in Elements(mConnectedDevice) => o \in mine
  BY <1>8
<1> HIDE DEF mine, h, d
<1>16. \A i \in mine : Alive(i) /\ i \in Elements(mConnectedDevice) /\ remote[i].link = h
  BY <1>8, <1>9, <1>10, <1>14
<1>17. \A j : /\ Alive(j)' <=> Alive(j)
              /\ Alive(j) => remote'[j].addr = remote[j].addr /\ remote'[j].link = remote[j].link
  BY <1>1, <1>16 DEF Alive
<1>18. \A e : NoneOf(e)' <=> NoneOf(e)
  BY <1>1, <1>17 DEF NoneOf
<1>19. OneLive'
  BY <1>0, <1>17, FewerObjects
<1>20. GoneInv'
  <2>1. ~NoneOf(d)
    BY <1>8, <1>9 DEF NoneOf
  <2> QED
    BY <1>0, <1>2, <1>4, <1>18, <2>1, SameSets DEF GoneInv, Unlinked, setVars
<1>21. PlaceInv'
  BY <1>0, <1>1, <1>2 DEF PlaceInv, Busy
<1>22. StatusInv'
  <2> SUFFICES ASSUME NEW i \in DOMAIN remote, Alive(i)
               PROVE  /\ mCnntStatus'[remote[i].addr] # "Disconnected"
                      /\ remote'[i].thread = "none" => mCnntStatus'[remote[i].addr] = "Connecting"
                      /\ remote'[i].thread = "connected" =>
                            mCnntStatus'[remote[i].addr] = "Connected"
    BY <1>1, <1>17 DEF StatusInv
  <2>1. CASE i = o
    <3>1. remote'[o].thread = "stopped"
      <4>1. CASE o \in Elements(mConnectedDevice)
        BY <1>1, <1>8, <1>15, <4>1
      <4>2. CASE event.pc = "hub" /\ event.del = o
        <5>1. remote[o].thread = "stopped"
          BY <1>0, <4>2 DEF BusyInv, Busy
        <5> QED
          BY <1>1, <1>8, <5>1
      <4> QED
        BY <1>8, <4>1, <4>2
    <3> QED
      BY <1>4, <1>9, <2>1, <3>1
  <2>2. CASE i # o
    <3>1. remote[i].addr # d /\ remote'[i].thread = remote[i].thread
      BY <1>0, <1>1, <1>8, <1>9, <1>10, <2>2 DEF OneLive
    <3> QED
      BY <1>0, <1>4, <1>12, <3>1 DEF StatusInv
  <2> QED
    BY <2>1, <2>2
<1>23. StageInv'
  <2> SUFFICES ASSUME NEW i \in DOMAIN remote
        PROVE  /\ remote'[i].thread \in {"none", "setup", "discovering", "report"} =>
                     Unlinked(remote[i].addr)
               /\ remote'[i].thread = "onConnected" =>
                     mHandle[remote[i].addr] = INVALID_HANDLE /\ remote[i].addr \in Connecteds
               /\ remote'[i].thread \in {"protocol", "connected"} => Linked(i)
               /\ remote'[i].thread = "stopped" =>
                     \/ Unlinked(remote[i].addr) \/ Linked(i)
                     \/ event.pc = "device" /\ event.del = i
    BY <1>1, <1>2, SameSets DEF StageInv, Unlinked, Linked, setVars
  <2>1. CASE i \in mine
    <3>1. remote[i].thread \in {"setup", "discovering", "connected"}
      BY <1>0, <1>1, <1>16, <2>1, Running DEF CanStop, Active, Threads
    <3> QED
      BY <1>0, <1>1, <2>1, <3>1 DEF StageInv
  <2>2. CASE i \notin mine
    BY <1>0, <1>1, <2>2 DEF StageInv
  <2> QED
    BY <2>1, <2>2
<1>24. BusyInv'
  BY <1>0, <1>1, <1>2, <1>13, SameSets DEF BusyInv, Busy, setVars
<1>25. ClientInv'
  <2>1. \A b \in Clients :
           /\ client'[b].pc # "write"
           /\ client'[b].pc = "idle" => client'[b].op = "none"
           /\ client'[b].pc = "join" <=> mTaskMutex' = b
    BY <1>0, <1>2, <1>3, <1>5, <1>6, ConnectionAssumption DEF ClientInv
  <2>2. \A b \in Clients : client[b].op = "connect" => client[b].dev \in Devices
    BY <1>0 DEF ClientInv, DataOK, ClientOK
  <2>3. \A b \in Clients : client'[b].op = "connect" =>
           /\ \A e \in Clients : client'[e].dev = client'[b].dev => e = b
           /\ NoneOf(client'[b].dev)
    BY <1>0, <1>5, <1>6, <2>2, ConnectionAssumption DEF ClientInv
  <2>4. \A b \in Clients : client'[b].op = "disconnect" =>
          /\ \A i \in DOMAIN remote : Alive(i) /\ remote[i].link = client'[b].handle =>
                remote[i].addr = client'[b].dev
          /\ \A e \in Devices : ~UpOf(client'[b].handle, e)
    BY <1>0, <1>5, <1>6 DEF ClientInv
  <2>5. \A b \in Clients : client'[b].op = "connect" =>
           \A i \in DOMAIN remote' : Alive(i)' => remote'[i].addr # client'[b].dev
    BY <1>1, <1>17, <2>3 DEF NoneOf
  <2>6. \A b \in Clients : client'[b].op = "disconnect" =>
           \A i \in DOMAIN remote' : Alive(i)' /\ remote'[i].link = client'[b].handle =>
                remote'[i].addr = client'[b].dev
    BY <1>1, <1>17, <2>4
  <2>7. ASSUME NEW b \in Clients, client'[b].op = "disconnect", NEW e \in Devices
        PROVE  ~(\E k \in 1..Len(events') : /\ events'[k].kind = "up" /\ events'[k].addr = e
                                            /\ events'[k].handle = client'[b].handle)
    <3> DEFINE g == client[b].handle
    <3>1. g = client'[b].handle /\ ~UpOf(client'[b].handle, e)
      BY <1>5, <1>6, <2>4, <2>7
    <3>2. ~UpOf(g, e)
      BY <3>1
    <3> HIDE DEF g
    <3>3. \A x : x = g => ~UpOf(x, e)'
      BY <1>11, <3>2
    <3> QED
      BY <3>1, <3>3 DEF UpOf
  <2> QED
    BY <2>1, <2>3, <2>5, <2>6, <2>7 DEF ClientInv, NoneOf, UpOf
<1>26. JoinInv'
  BY <1>0, <1>2, <1>3, <1>5, <1>6 DEF ClientInv, JoinInv
<1>27. LinkInv'
  <2>1. \A g \in Handles, e \in Devices : UpOf(g, e)' => links'[g] = e
    BY <1>0, <1>7, <1>11 DEF LinkInv
  <2>2. ASSUME NEW i \in Elements(mConnectedDevice'), NEW g, g = remote[i].link
        PROVE  links'[g] = remote[i].addr \/ (remote'[i].thread # "setup" /\ Ending(g)')
    <3>1. /\ i \in Elements(mConnectedDevice) /\ i \notin mine /\ i \in DOMAIN remote
          /\ Alive(i) /\ g \in Handles
      BY <1>0, <1>1, <2>2, Running
    <3>2. i # o
      BY <1>15, <3>1
    <3>3. g # h
      BY <1>3, <1>8, <1>9, <2>2, <3>1, <3>2, SameLink
    <3>4. links[g] = remote[i].addr \/ (remote[i].thread # "setup" /\ Ending(g))
      BY <1>0, <2>2, <3>1 DEF LinkInv
    <3> QED
      BY <1>1, <1>11, <3>1, <3>3, <3>4
  <2>3. ASSUME NEW i \in Elements(mDisconnectingDevice'), NEW g, g = remote[i].handle
        PROVE  g \in Handles /\ Ending(g)'
    <3>1. CASE i \in mine
      <4>1. g = h /\ i \in Elements(mConnectedDevice) /\ remote[i].link = h
        BY <1>14, <1>16, <2>3, <3>1
      <4>2. links[h] = remote[i].addr \/ Ending(h)
        BY <1>0, <4>1 DEF LinkInv
      <4>3. remote[i].addr # NoDevice
        BY <1>12, <1>13, <4>1, ConnectionAssumption
      <4> QED
        BY <1>3, <1>11, <4>1, <4>2, <4>3
    <3>2. CASE i \in Elements(mDisconnectingDevice)
      BY <1>0, <1>11, <2>3, <3>2 DEF LinkInv
    <3> QED
      BY <1>1, <2>3, <3>1, <3>2
  <2>4. ASSUME NEW i \in Elements(mConnectedDevice')
        PROVE  \/ links'[remote'[i].link] = remote'[i].addr
               \/ remote'[i].thread # "setup" /\ Ending(remote[i].link)'
    <3>1. i \in DOMAIN remote
      BY <1>1, <1>13, <2>4
    <3> QED
      BY <1>1, <2>2, <3>1 DEF Ending
  <2>5. ASSUME NEW i \in Elements(mDisconnectingDevice')
        PROVE  remote'[i].handle \in Handles /\ Ending(remote[i].handle)'
    <3>1. i \in DOMAIN remote
      BY <1>1, <1>13, <1>14, <2>5
    <3> QED
      BY <1>1, <2>3, <3>1 DEF Ending
  <2> QED
    BY <2>1, <2>4, <2>5 DEF LinkInv
<1>28. WaitInv'
  BY <1>0, <1>1, <1>2, <1>11, <1>13 DEF WaitInv
<1> QED
  BY <1>19, <1>20, <1>21, <1>22, <1>23, <1>24, <1>25, <1>26, <1>27, <1>28 DEF CareInv

\* OnConnectEvent: the one RemoteDevice that waits gets its thread and its link.
LEMMA CareOnConnect ==
    ASSUME CareState, OnConnectEvent
    PROVE  CareInv'
<1> DEFINE a == events[1].addr
           h == events[1].handle
           mine == {i \in Elements(mConnectingDevice) : remote[i].addr = a}
<1>0. /\ DataOK /\ ObjectsOK /\ Distinct /\ OneAttempt /\ AllKnown
      /\ OneLive /\ GoneInv /\ PlaceInv /\ StatusInv /\ StageInv
      /\ BusyInv /\ ClientInv /\ JoinInv /\ LinkInv /\ WaitInv
  BY DEF CareState, CareInv
<1>1. /\ DOMAIN remote' = DOMAIN remote
      /\ \A j \in DOMAIN remote :
            /\ remote'[j].addr = remote[j].addr
            /\ remote'[j].handle = remote[j].handle
            /\ remote'[j].thread = IF j \in mine THEN "setup" ELSE remote[j].thread
            /\ remote'[j].link = IF j \in mine THEN h ELSE remote[j].link
      /\ Elements(mConnectingDevice') = Elements(mConnectingDevice) \ mine
      /\ Elements(mConnectedDevice') = mine \cup Elements(mConnectedDevice)
      /\ UNCHANGED mDisconnectingDevice
      /\ mIsConnecting' = (mIsConnecting /\ mine = {})
  BY <1>0, OnConnectEventDoes DEF DataOK
<1>2. /\ event.pc = "idle" /\ Take("up")
      /\ UNCHANGED <<pending, links, event, deviceVars, setVars, mTaskMutex, client>>
  BY DEF OnConnectEvent, Take
<1>3. /\ h \in Handles /\ a \in Devices /\ UpOf(h, a)
      /\ \A g, e : ~UpOf(g, e)'
      /\ \A g : Ending(g)' <=> Ending(g)
  BY <1>0, <1>2, UpTaken DEF DataOK
<1>4. /\ Elements(mConnectingDevice) \subseteq DOMAIN remote
      /\ Elements(mConnectedDevice) \subseteq DOMAIN remote
      /\ Elements(mDisconnectingDevice) \subseteq DOMAIN remote
  BY <1>0 DEF DataOK, ListOK
<1>5. \A i \in mine : i \in Elements(mConnectingDevice) /\ remote[i].addr = a
  OBVIOUS
<1>6. \A i \in Elements(mConnectingDevice) : remote[i].addr = a => i \in mine
  OBVIOUS
<1> HIDE DEF mine, a, h
<1>7. \A i \in mine : /\ i \in DOMAIN remote /\ remote[i].thread = "none"
                      /\ i \notin Elements(mConnectedDevice)
                      /\ i \notin Elements(mDisconnectingDevice)
  BY <1>0, <1>4, <1>5 DEF ObjectsOK
<1>8. /\ pending = NoDevice /\ links[h] = a
      /\ \A i \in DOMAIN remote : Alive(i) => remote[i].link # h
      /\ \A g, e : UpOf(g, e) => g = h /\ e = a
      /\ \E i \in Elements(mConnectingDevice) : remote[i].addr = a
  BY <1>0, <1>3, LinkFacts DEF LinkInv
<1>9. mine # {} /\ mIsConnecting' = FALSE
  BY <1>1, <1>6, <1>8
<1>10. \A i \in Elements(mConnectingDevice) : i \in mine
  <2> SUFFICES ASSUME NEW i \in Elements(mConnectingDevice) PROVE remote[i].addr = a
    BY <1>6
  <2>1. pending # remote[i].addr
    BY <1>0, <1>4, <1>8, AddrOf, ConnectionAssumption
  <2> QED
    BY <1>0, <1>8, <2>1 DEF WaitInv
<1>11. \A j : /\ Alive(j)' <=> Alive(j)
              /\ Alive(j) => remote'[j].addr = remote[j].addr
  BY <1>1, <1>7 DEF Alive
<1>12. \A e : NoneOf(e)' <=> NoneOf(e)
  BY <1>1, <1>11 DEF NoneOf
<1>13. OneLive'
  BY <1>0, <1>11, FewerObjects
<1>14. GoneInv'
  BY <1>0, <1>2, <1>12, SameSets DEF GoneInv, Unlinked, setVars, deviceVars
<1>15. PlaceInv'
  BY <1>0, <1>1, <1>2, <1>7 DEF PlaceInv, Busy
<1>16. StatusInv'
  <2>1. \A i \in mine : mCnntStatus[remote[i].addr] = "Connecting"
    BY <1>0, <1>7 DEF StatusInv, Alive
  <2> QED
    BY <1>0, <1>1, <1>2, <1>11, <2>1 DEF StatusInv, deviceVars
<1>17. StageInv'
  <2>1. \A i \in mine : Unlinked(remote[i].addr)
    BY <1>0, <1>7 DEF StageInv
  <2> QED
    BY <1>0, <1>1, <1>2, <2>1, SameSets DEF StageInv, Unlinked, Linked, setVars, deviceVars
<1>18. BusyInv'
  BY <1>2 DEF BusyInv, Busy
<1>19. ClientInv'
  <2>1. \A b \in Clients :
           /\ client'[b].pc # "write"
           /\ client'[b].pc = "idle" => client'[b].op = "none"
           /\ client'[b].pc = "join" <=> mTaskMutex' = b
    BY <1>0, <1>2 DEF ClientInv
  <2>2. \A b \in Clients : client[b].op = "connect" =>
           /\ \A e \in Clients : client[e].dev = client[b].dev => e = b
           /\ NoneOf(client[b].dev)
    BY <1>0 DEF ClientInv
  <2>3. \A b \in Clients : client'[b].op = "connect" =>
           \A i \in DOMAIN remote' : Alive(i)' => remote'[i].addr # client'[b].dev
    BY <1>1, <1>2, <1>11, <2>2 DEF NoneOf
  <2>4. ASSUME NEW b \in Clients, client[b].op = "disconnect",
               NEW i \in DOMAIN remote, Alive(i)', remote'[i].link = client[b].handle
        PROVE  remote[i].addr = client[b].dev
    <3>1. client[b].handle # h
      BY <1>0, <1>3, <2>4 DEF ClientInv
    <3>2. remote[i].link = client[b].handle
      BY <1>1, <2>4, <3>1
    <3> QED
      BY <1>0, <1>11, <2>4, <3>2 DEF ClientInv
  <2>5. \A b \in Clients, e \in Devices : ~UpOf(client[b].handle, e)'
    BY <1>3 DEF UpOf
  <2> QED
    BY <1>1, <1>2, <2>1, <2>2, <2>3, <2>4, <2>5 DEF ClientInv, NoneOf
<1>20. JoinInv'
  BY <1>0, <1>1, <1>2, <1>11 DEF JoinInv
<1>21. LinkInv'
  <2>1. ASSUME NEW i \in Elements(mConnectedDevice')
        PROVE  \/ links'[remote'[i].link] = remote'[i].addr
               \/ remote'[i].thread # "setup" /\ Ending(remote'[i].link)
    <3>1. CASE i \in mine
      BY <1>1, <1>2, <1>5, <1>7, <1>8, <3>1
    <3>2. CASE i \in Elements(mConnectedDevice) /\ i \notin mine
      BY <1>0, <1>1, <1>2, <1>4, <3>2 DEF LinkInv
    <3> QED
      BY <1>1, <2>1, <3>1, <3>2
  <2>2. \A i \in Elements(mDisconnectingDevice') :
           remote'[i].handle \in Handles /\ Ending(remote'[i].handle)
    BY <1>0, <1>1, <1>4 DEF LinkInv
  <2>3. ASSUME NEW i \in Elements(mConnectedDevice'), Ending(remote'[i].link)
        PROVE  Ending(remote[i].link)'
    <3> DEFINE g == remote'[i].link
    <3>1. Ending(g)
      BY <2>3
    <3> HIDE DEF g
    <3>2. \A x : x = g => Ending(x)'
      BY <1>3, <3>1
    <3> QED
      BY <3>2 DEF Ending, g
  <2>4. ASSUME NEW i \in Elements(mDisconnectingDevice'), Ending(remote'[i].handle)
        PROVE  Ending(remote[i].handle)'
    <3> DEFINE g == remote'[i].handle
    <3>1. Ending(g)
      BY <2>4
    <3> HIDE DEF g
    <3>2. \A x : x = g => Ending(x)'
      BY <1>3, <3>1
    <3> QED
      BY <3>2 DEF Ending, g
  <2> QED
    BY <1>3, <2>1, <2>2, <2>3, <2>4 DEF LinkInv
<1>22. WaitInv'
  BY <1>1, <1>9, <1>10 DEF WaitInv
<1> QED
  BY <1>13, <1>14, <1>15, <1>16, <1>17, <1>18, <1>19, <1>20, <1>21, <1>22 DEF CareInv

\* What the taking of a down event leaves of the links that are known.
LEMMA LinksAfterDown ==
    ASSUME DataOK, ObjectsOK, LinkInv, Take("down"), UNCHANGED links,
           \A i \in Elements(mConnectedDevice') :
              /\ i \in Elements(mConnectedDevice) /\ remote[i].handle # events[1].handle
              /\ remote'[i].addr = remote[i].addr /\ remote'[i].link = remote[i].link
              /\ remote'[i].thread = remote[i].thread,
           \A i \in Elements(mDisconnectingDevice') :
              /\ i \in Elements(mDisconnectingDevice) /\ remote[i].handle # events[1].handle
              /\ remote'[i].handle = remote[i].handle
    PROVE  LinkInv'
<1>1. /\ \A g, e : UpOf(g, e)' <=> UpOf(g, e)
      /\ \A g : Ending(g) /\ g # events[1].handle => Ending(g)'
  BY DownTaken DEF DataOK
<1>2. ASSUME NEW i \in Elements(mConnectedDevice'), NEW g, g = remote[i].link
      PROVE  links[g] = remote[i].addr \/ (remote[i].thread # "setup" /\ Ending(g)')
  <2>1. links[g] = remote[i].addr \/ (remote[i].thread # "setup" /\ Ending(g))
    BY <1>2 DEF LinkInv
  <2>2. remote[i].thread # "setup" => g # events[1].handle
    BY <1>2, Running
  <2> QED
    BY <1>1, <2>1, <2>2
<1>3. ASSUME NEW i \in Elements(mConnectedDevice')
      PROVE  \/ links'[remote'[i].link] = remote'[i].addr
             \/ remote'[i].thread # "setup" /\ Ending(remote[i].link)'
  BY <1>2, <1>3 DEF Ending
<1>4. ASSUME NEW i \in Elements(mDisconnectingDevice'), NEW g, g = remote[i].handle
      PROVE  g \in Handles /\ Ending(g)'
  BY <1>1, <1>4 DEF LinkInv
<1>5. ASSUME NEW i \in Elements(mDisconnectingDevice')
      PROVE  remote'[i].handle \in Handles /\ Ending(remote[i].handle)'
  BY <1>4, <1>5 DEF Ending
<1>6. \A g \in Handles, e \in Devices : UpOf(g, e)' => links'[g] = e
  BY <1>1 DEF LinkInv
<1> QED
  BY <1>3, <1>5, <1>6 DEF LinkInv

\* LINK_TERMINATED of a connected RemoteDevice.
LEMMA CareLinkTerminated ==
    ASSUME CareState, LinkTerminated
    PROVE  CareInv'
<1> DEFINE h == events[1].handle
           mine == {i \in Elements(mConnectedDevice) : remote[i].handle = h}
           o == event'.del
<1>0. /\ DataOK /\ ObjectsOK /\ Distinct /\ OneAttempt /\ AllKnown
      /\ OneLive /\ GoneInv /\ PlaceInv /\ StatusInv /\ StageInv
      /\ BusyInv /\ ClientInv /\ JoinInv /\ LinkInv /\ WaitInv
  BY DEF CareState, CareInv
<1>1. /\ DOMAIN remote' = DOMAIN remote
      /\ \A j \in DOMAIN remote :
            /\ remote'[j].addr = remote[j].addr
            /\ remote'[j].handle = remote[j].handle
            /\ remote'[j].link = remote[j].link
            /\ remote'[j].thread = IF j \in mine THEN "stopped" ELSE remote[j].thread
      /\ \A i \in mine : CanStop(i)
      /\ Elements(mConnectedDevice') = Elements(mConnectedDevice) \ mine
      /\ UNCHANGED <<mConnectingDevice, mDisconnectingDevice>>
      /\ event'.pc = "hub" /\ event'.handle = h /\ o \in mine
  BY <1>0, LinkTerminatedDoes DEF DataOK
<1>2. /\ event.pc = "idle" /\ Take("down")
      /\ UNCHANGED <<pending, links, deviceVars, setVars, mTaskMutex, client, mIsConnecting>>
  BY DEF LinkTerminated, Take
<1>3. h \in Handles /\ \A g, e : UpOf(g, e)' <=> UpOf(g, e)
  BY <1>0, <1>2, DownTaken DEF DataOK
<1>4. /\ Elements(mConnectingDevice) \subseteq DOMAIN remote
      /\ Elements(mConnectedDevice) \subseteq DOMAIN remote
      /\ Elements(mDisconnectingDevice) \subseteq DOMAIN remote
  BY <1>0 DEF DataOK, ListOK
<1>5. \A i : i \in mine <=> i \in Elements(mConnectedDevice) /\ remote[i].handle = h
  OBVIOUS
<1>6. \A i \in mine : i \in DOMAIN remote /\ Alive(i) /\ remote[i].handle = h
                      /\ i \notin Elements(mDisconnectingDevice)
  BY <1>0, <1>5, Running
<1> HIDE DEF mine, h, o
<1>7. \A i \in DOMAIN remote : Alive(i) /\ remote[i].handle = h => i = o
  BY <1>1, <1>3, <1>6, SameLink
<1>8. \A j : /\ Alive(j)' <=> Alive(j)
             /\ Alive(j) => remote'[j].addr = remote[j].addr /\ remote'[j].link = remote[j].link
  BY <1>1, <1>6 DEF Alive
<1>9. \A e : NoneOf(e)' <=> NoneOf(e)
  BY <1>1, <1>8 DEF NoneOf
<1>10. OneLive'
  BY <1>0, <1>8, FewerObjects
<1>11. GoneInv'
  BY <1>0, <1>2, <1>9, SameSets DEF GoneInv, Unlinked, setVars, deviceVars
<1>12. PlaceInv'
  <2>1. \A i \in mine : event'.del = i
    BY <1>6, <1>7 DEF o
  <2> QED
    BY <1>0, <1>1, <1>2, <2>1 DEF PlaceInv, Busy
<1>13. StatusInv'
  BY <1>0, <1>1, <1>2, <1>8 DEF StatusInv, deviceVars
<1>14. StageInv'
  <2> SUFFICES ASSUME NEW i \in DOMAIN remote
        PROVE  /\ remote'[i].thread \in {"none", "setup", "discovering", "report"} =>
                     Unlinked(remote[i].addr)
               /\ remote'[i].thread = "onConnected" =>
                     mHandle[remote[i].addr] = INVALID_HANDLE /\ remote[i].addr \in Connecteds
               /\ remote'[i].thread \in {"protocol", "connected"} => Linked(i)
               /\ remote'[i].thread = "stopped" => Unlinked(remote[i].addr) \/ Linked(i)
    BY <1>1, <1>2, SameSets DEF StageInv, Unlinked, Linked, setVars, deviceVars
  <2>1. CASE i \in mine
    <3>1. remote[i].thread \in {"setup", "discovering", "connected"}
      BY <1>0, <1>1, <1>5, <2>1, Running DEF CanStop, Active, Threads
    <3> QED
      BY <1>0, <1>1, <2>1, <3>1 DEF StageInv
  <2>2. CASE i \notin mine
    BY <1>0, <1>1, <1>2, <2>2 DEF StageInv
  <2> QED
    BY <2>1, <2>2
<1>15. BusyInv'
  <2>1. remote'[event'.del].thread = "stopped"
    BY <1>1, <1>6 DEF o
  <2> QED
    BY <1>1, <1>3, <2>1 DEF BusyInv
<1>16. ClientInv'
  BY <1>0, <1>2, <1>3, <1>8, ClientsKept
<1>17. JoinInv'
  <2> SUFFICES ASSUME NEW c \in Clients, client[c].pc = "join"
               PROVE  \E i \in DOMAIN remote' :
                         /\ Alive(i)' /\ remote'[i].handle = client[c].handle
                         /\ \/ i \in Elements(mConnectedDevice')
                            \/ event'.pc = "hub" /\ event'.del = i
    BY <1>2 DEF JoinInv
  <2>1. PICK i \in DOMAIN remote : /\ Alive(i) /\ remote[i].handle = client[c].handle
                                  /\ i \in Elements(mConnectedDevice)
    BY <1>0, <1>2 DEF JoinInv
  <2>2. i \in mine => event'.del = i
    BY <1>6, <1>7 DEF o
  <2> QED
    BY <1>1, <1>8, <2>1, <2>2
<1>18. LinkInv'
  <2>1. \A i \in Elements(mConnectedDevice') :
           /\ i \in Elements(mConnectedDevice) /\ remote[i].handle # events[1].handle
           /\ remote'[i].addr = remote[i].addr /\ remote'[i].link = remote[i].link
           /\ remote'[i].thread = remote[i].thread
    BY <1>1, <1>4, <1>5 DEF h
  <2>2. \A i \in Elements(mDisconnectingDevice') :
           /\ i \in Elements(mDisconnectingDevice) /\ remote[i].handle # events[1].handle
           /\ remote'[i].handle = remote[i].handle
    <3> SUFFICES ASSUME NEW i \in Elements(mDisconnectingDevice)
                 PROVE  remote[i].handle # h /\ remote'[i].handle = remote[i].handle
      BY <1>1 DEF h
    <3>1. i \in DOMAIN remote /\ Alive(i)
      BY <1>0, <1>4 DEF ObjectsOK, Alive
    <3> QED
      BY <1>1, <1>6, <1>7, <3>1
  <2> QED
    BY <1>0, <1>2, <2>1, <2>2, LinksAfterDown
<1>19. WaitInv'
  BY <1>0, <1>1, <1>2, <1>3, <1>4 DEF WaitInv
<1> QED
  BY <1>10, <1>11, <1>12, <1>13, <1>14, <1>15, <1>16, <1>17, <1>18, <1>19 DEF CareInv

\* LINK_TERMINATED of a RemoteDevice being disconnected.
LEMMA CareLinkTerminatedAsAsked ==
    ASSUME CareState, LinkTerminatedAsAsked
    PROVE  CareInv'
<1> DEFINE h == events[1].handle
           mine == {i \in Elements(mDisconnectingDevice) : remote[i].handle = h}
           o == event'.del
<1>0. /\ DataOK /\ ObjectsOK /\ Distinct /\ OneAttempt /\ AllKnown
      /\ OneLive /\ GoneInv /\ PlaceInv /\ StatusInv /\ StageInv
      /\ BusyInv /\ ClientInv /\ JoinInv /\ LinkInv /\ WaitInv
  BY DEF CareState, CareInv
<1>1. /\ \A i \in Elements(mConnectedDevice) : remote[i].handle # h
      /\ Elements(mDisconnectingDevice') = Elements(mDisconnectingDevice) \ mine
      /\ UNCHANGED <<mConnectingDevice, mConnectedDevice, remote>>
      /\ event'.pc = "hub" /\ event'.handle = h /\ o \in mine
  BY <1>0, LinkTerminatedAsAskedDoes DEF DataOK
<1>2. /\ event.pc = "idle" /\ Take("down")
      /\ UNCHANGED <<pending, links, deviceVars, setVars, mTaskMutex, client, mIsConnecting>>
  BY DEF LinkTerminatedAsAsked, Take
<1>3. h \in Handles /\ \A g, e : UpOf(g, e)' <=> UpOf(g, e)
  BY <1>0, <1>2, DownTaken DEF DataOK
<1>4. \A i : i \in mine <=> i \in Elements(mDisconnectingDevice) /\ remote[i].handle = h
  OBVIOUS
<1>5. \A i \in Elements(mDisconnectingDevice) :
         i \in DOMAIN remote /\ Alive(i) /\ remote[i].thread = "stopped"
  BY <1>0 DEF DataOK, ListOK, ObjectsOK, Alive
<1> HIDE DEF mine, h, o
<1>6. \A i \in mine : i = o
  BY <1>1, <1>3, <1>4, <1>5, SameLink
<1>7. OneLive' /\ GoneInv' /\ StatusInv'
  BY <1>0, <1>1, <1>2, SameSets
  DEF OneLive, GoneInv, NoneOf, StatusInv, Unlinked, Alive, deviceVars,
     setVars
<1>8. PlaceInv'
  BY <1>0, <1>1, <1>2, <1>6 DEF PlaceInv, Busy, o
<1>9. StageInv'
  <2> SUFFICES ASSUME NEW i \in DOMAIN remote
        PROVE  /\ remote[i].thread \in {"none", "setup", "discovering", "report"} =>
                     Unlinked(remote[i].addr)
               /\ remote[i].thread = "onConnected" =>
                     mHandle[remote[i].addr] = INVALID_HANDLE /\ remote[i].addr \in Connecteds
               /\ remote[i].thread \in {"protocol", "connected"} => Linked(i)
               /\ remote[i].thread = "stopped" => Unlinked(remote[i].addr) \/ Linked(i)
    BY <1>1, <1>2, SameSets DEF StageInv, Unlinked, Linked, setVars, deviceVars
  <2> QED
    BY <1>0, <1>2 DEF StageInv
<1>10. BusyInv'
  <2>1. remote'[event'.del].thread = "stopped"
    BY <1>1, <1>4, <1>5 DEF o
  <2> QED
    BY <1>1, <1>3, <2>1 DEF BusyInv
<1>11. ClientInv'
  <2>1. \A j : Alive(j)' => Alive(j) /\ remote'[j].addr = remote[j].addr
                            /\ remote'[j].link = remote[j].link
    BY <1>1 DEF Alive
  <2> QED
    BY <1>0, <1>2, <1>3, <2>1, ClientsKept
<1>12. JoinInv'
  BY <1>0, <1>1, <1>2 DEF JoinInv, Alive
<1>13. LinkInv'
  <2>1. \A i \in Elements(mConnectedDevice') :
           /\ i \in Elements(mConnectedDevice) /\ remote[i].handle # events[1].handle
           /\ remote'[i].addr = remote[i].addr /\ remote'[i].link = remote[i].link
           /\ remote'[i].thread = remote[i].thread
    BY <1>1 DEF h
  <2>2. \A i \in Elements(mDisconnectingDevice') :
           /\ i \in Elements(mDisconnectingDevice) /\ remote[i].handle # events[1].handle
           /\ remote'[i].handle = remote[i].handle
    BY <1>1, <1>4 DEF h
  <2> QED
    BY <1>0, <1>2, <2>1, <2>2, LinksAfterDown
<1>14. WaitInv'
  BY <1>0, <1>1, <1>2, <1>3 DEF WaitInv
<1> QED
  BY <1>7, <1>8, <1>9, <1>10, <1>11, <1>12, <1>13, <1>14 DEF CareInv

\* LINK_TERMINATED of a handle that no list knows.
LEMMA CareLinkTerminatedUnknown ==
    ASSUME CareState, LinkTerminatedUnknown
    PROVE  CareInv'
<1> DEFINE h == events[1].handle
<1>0. /\ DataOK /\ ObjectsOK /\ Distinct /\ OneAttempt /\ AllKnown
      /\ OneLive /\ GoneInv /\ PlaceInv /\ StatusInv /\ StageInv
      /\ BusyInv /\ ClientInv /\ JoinInv /\ LinkInv /\ WaitInv
  BY DEF CareState, CareInv
<1>1. /\ Take("down") /\ UNCHANGED <<pending, links>>
      /\ UNCHANGED <<deviceVars, setVars, mTaskMutex, client, mIsConnecting, listVars, remote, event>>
      /\ AtHandle(mConnectedDevice, Head(events).handle) = <<>>
      /\ AtHandle(mDisconnectingDevice, Head(events).handle) = <<>>
  BY DEF LinkTerminatedUnknown, Take
<1>2. Head(events) = events[1]
  BY <1>0, <1>1, EventTaken DEF DataOK
<1>3. \A g, e : UpOf(g, e)' <=> UpOf(g, e)
  BY <1>0, <1>1, DownTaken DEF DataOK
<1>4. /\ \A i \in Elements(mConnectedDevice) : remote[i].handle # h
      /\ \A i \in Elements(mDisconnectingDevice) : remote[i].handle # h
  <2>1. /\ AtHandle(mConnectedDevice, h) = <<>> /\ AtHandle(mDisconnectingDevice, h) = <<>>
    BY <1>1, <1>2
  <2>2. /\ AtHandle(mConnectedDevice, h) \in Seq(Ids)
        /\ Elements(AtHandle(mConnectedDevice, h)) =
              {i \in Elements(mConnectedDevice) : remote[i].handle = h}
        /\ AtHandle(mDisconnectingDevice, h) \in Seq(Ids)
        /\ Elements(AtHandle(mDisconnectingDevice, h)) =
              {i \in Elements(mDisconnectingDevice) : remote[i].handle = h}
    BY <1>0, Searches DEF DataOK, ListOK
  <2>3. /\ Elements(AtHandle(mConnectedDevice, h)) = {}
        /\ Elements(AtHandle(mDisconnectingDevice, h)) = {}
    BY <2>1, <2>2, HeadIn
  <2> QED
    BY <2>2, <2>3
<1>5. OneLive' /\ GoneInv' /\ PlaceInv' /\ StatusInv' /\ StageInv'
  BY <1>0, <1>1, SameSets
  DEF OneLive, GoneInv, NoneOf, PlaceInv, StatusInv, StageInv, Unlinked,
     Linked,
                    Alive, Busy, deviceVars, setVars, listVars
<1>6. BusyInv' /\ JoinInv'
  BY <1>0, <1>1, SameSets DEF BusyInv, JoinInv, Alive, Busy, setVars, listVars
<1>7. ClientInv'
  <2>1. \A j : Alive(j)' => Alive(j) /\ remote'[j].addr = remote[j].addr
                            /\ remote'[j].link = remote[j].link
    BY <1>1 DEF Alive
  <2> QED
    BY <1>0, <1>1, <1>3, <2>1, ClientsKept
<1>8. LinkInv'
  <2>1. \A i \in Elements(mConnectedDevice') :
           /\ i \in Elements(mConnectedDevice) /\ remote[i].handle # events[1].handle
           /\ remote'[i].addr = remote[i].addr /\ remote'[i].link = remote[i].link
           /\ remote'[i].thread = remote[i].thread
    BY <1>1, <1>4 DEF listVars
  <2>2. \A i \in Elements(mDisconnectingDevice') :
           /\ i \in Elements(mDisconnectingDevice) /\ remote[i].handle # events[1].handle
           /\ remote'[i].handle = remote[i].handle
    BY <1>1, <1>4 DEF listVars
  <2> QED
    BY <1>0, <1>1, <2>1, <2>2, LinksAfterDown
<1>9. WaitInv'
  BY <1>0, <1>1, <1>3 DEF WaitInv, listVars
<1> QED
  BY <1>5, <1>6, <1>7, <1>8, <1>9 DEF CareInv

\* What a step that leaves the dongle and the lists alone, and adds no RemoteDevice,
\* keeps of the links and of what waits.
LEMMA LinksLeft ==
    ASSUME DataOK, LinkInv, WaitInv, UNCHANGED <<dongleVars, listVars, mIsConnecting>>,
           \A j \in DOMAIN remote : /\ remote'[j].addr = remote[j].addr
                                    /\ remote'[j].link = remote[j].link,
           \A j \in Elements(mDisconnectingDevice) : remote'[j].handle = remote[j].handle,
           \A j \in Elements(mConnectedDevice) :
              remote'[j].thread = "setup" => remote[j].thread = "setup"
    PROVE  LinkInv' /\ WaitInv'
<1>0. /\ Elements(mConnectingDevice) \subseteq DOMAIN remote
      /\ Elements(mConnectedDevice) \subseteq DOMAIN remote
      /\ Elements(mDisconnectingDevice) \subseteq DOMAIN remote
  BY DEF DataOK, ListOK
<1>1. /\ \A g, e : UpOf(g, e)' <=> UpOf(g, e)
      /\ \A g : Ending(g)' <=> Ending(g)
  BY EventsLeft DEF dongleVars
<1>2. \A i \in Elements(mConnectedDevice') :
         \/ links'[remote'[i].link] = remote'[i].addr
         \/ remote'[i].thread # "setup" /\ Ending(remote'[i].link)
  BY <1>0 DEF LinkInv, listVars, dongleVars
<1>3. \A i \in Elements(mDisconnectingDevice') :
         remote'[i].handle \in Handles /\ Ending(remote'[i].handle)
  BY <1>0 DEF LinkInv, listVars
<1>4. LinkInv'
  BY <1>1, <1>2, <1>3 DEF LinkInv, Ending, dongleVars
<1>5. WaitInv'
  BY <1>0, <1>1 DEF WaitInv, listVars, dongleVars
<1> QED
  BY <1>4, <1>5

\* BLEHub::onDeviceDisconnected: it finds the armband whose RemoteDevice was stopped.
LEMMA CareHubDisconnected ==
    ASSUME CareState, HubDisconnected
    PROVE  CareInv'
<1> DEFINE o == event.del
           d == event.addr
<1>0. /\ DataOK /\ ObjectsOK /\ Distinct /\ OneAttempt /\ AllKnown
      /\ OneLive /\ GoneInv /\ PlaceInv /\ StatusInv /\ StageInv
      /\ BusyInv /\ ClientInv /\ JoinInv /\ LinkInv /\ WaitInv
  BY DEF CareState, CareInv
<1>1. /\ event.pc = "hub" /\ mTaskMutex = Free
      /\ UNCHANGED <<deviceVars, mTaskMutex, client, mIsConnecting, listVars, remote, dongleVars>>
  BY DEF HubDisconnected
<1>2. /\ Busy /\ event.handle \in Handles /\ o \in DOMAIN remote /\ d \in Devices
      /\ Alive(o) /\ remote[o].thread = "stopped" /\ remote[o].handle = event.handle
      /\ remote[o].addr = d
  <2>1. Busy /\ event.handle \in Handles /\ remote[o].thread = "stopped"
    BY <1>0, <1>1 DEF BusyInv, Busy
  <2>2. o \in DOMAIN remote /\ d \in Devices
    BY <1>0, <2>1 DEF DataOK, EventOK
  <2>3. remote[o].handle = event.handle
    BY <1>0, <2>1 DEF ObjectsOK
  <2>4. remote[o].addr = d
    BY <1>0, <2>1 DEF Distinct, RightDel
  <2> QED
    BY <2>1, <2>2, <2>3, <2>4 DEF Alive
<1>3. Unlinked(d) \/ (mHandle[d] = event.handle /\ d \in Connecteds)
  BY <1>0, <1>1, <1>2 DEF StageInv, Linked
<1>4. \A e \in Devices : mHandle[e] = event.handle => e = d
  <2> SUFFICES ASSUME NEW e \in Devices, mHandle[e] = event.handle PROVE e = d
    OBVIOUS
  <2>1. PICK i \in DOMAIN remote : Alive(i) /\ remote[i].handle = mHandle[e] /\ remote[i].addr = e
    BY <1>0, <1>2 DEF Distinct, KnownHandle
  <2>2. i = o
    BY <1>2, <2>1, SameLink
  <2> QED
    BY <1>2, <2>1, <2>2
<1>5. /\ event' = [event EXCEPT !.pc = "device", !.addr = d]
      /\ d \in Disconnecteds'
      /\ \A e \in Devices : e \in Disconnecteds => e \in Disconnecteds'
      /\ \A e \in Devices : e # d => (e \in Connecteds' <=> e \in Connecteds)
  <2>0. SetsOK /\ ~crossed /\ Connecteds \cup Disconnecteds = Devices
    BY DEF CareState, SetsOK
  <2>1. CASE \E e \in Connecteds :
                /\ mHandle[e] = event.handle
                /\ Connecteds' = Connecteds \ {e} /\ Disconnecteds' = Disconnecteds \cup {e}
                /\ event' = [event EXCEPT !.pc = "device", !.addr = e]
    <3>1. PICK e \in Connecteds :
                /\ mHandle[e] = event.handle
                /\ Connecteds' = Connecteds \ {e} /\ Disconnecteds' = Disconnecteds \cup {e}
                /\ event' = [event EXCEPT !.pc = "device", !.addr = e]
      BY <2>1
    <3>2. e = d
      BY <1>4, <2>0, <3>1
    <3> QED
      BY <3>1, <3>2
  <2>2. CASE /\ event.addr \in Disconnecteds /\ event' = [event EXCEPT !.pc = "device"]
             /\ Connecteds' = Connecteds /\ Disconnecteds' = Disconnecteds
    <3>1. event' = [event EXCEPT !.pc = "device", !.addr = event.addr]
      BY <1>0, <2>2 DEF DataOK, EventOK
    <3> QED
      BY <2>2, <3>1
  <2>3. CASE (\A e \in Connecteds : mHandle[e] # event.handle) /\ event.addr \notin Disconnecteds
    BY <1>3, <2>3 DEF Unlinked
  <2> QED
    BY <1>0, <2>0, <2>1, <2>2, <2>3, HubDisconnectedSets
<1>6. /\ event'.pc = "device" /\ event'.addr = d /\ event'.del = o /\ event'.handle = event.handle
  <2>1. event' = [event EXCEPT !.pc = "device", !.addr = d]
    BY <1>5
  <2> HIDE DEF d
  <2> QED
    BY <2>1 DEF o
<1> HIDE DEF o, d
<1>7. \A i \in DOMAIN remote : Alive(i) /\ remote[i].addr = d => i = o
  BY <1>0, <1>2 DEF OneLive
<1>8. OneLive' /\ StatusInv'
  BY <1>0, <1>1 DEF OneLive, StatusInv, Alive, deviceVars
<1>9. GoneInv'
  BY <1>0, <1>1, <1>5 DEF GoneInv, NoneOf, Unlinked, Alive, deviceVars
<1>10. PlaceInv'
  BY <1>0, <1>1, <1>6 DEF PlaceInv, Busy, listVars, o
<1>11. StageInv'
  <2> SUFFICES ASSUME NEW i \in DOMAIN remote
        PROVE  /\ remote[i].thread \in {"none", "setup", "discovering", "report"} =>
                     mHandle[remote[i].addr] = INVALID_HANDLE /\ remote[i].addr \in Disconnecteds'
               /\ remote[i].thread = "onConnected" =>
                     mHandle[remote[i].addr] = INVALID_HANDLE /\ remote[i].addr \in Connecteds'
               /\ remote[i].thread \in {"protocol", "connected"} =>
                     /\ mHandle[remote[i].addr] = remote[i].handle
                     /\ remote[i].addr \in Connecteds'
               /\ remote[i].thread = "stopped" =>
                     \/ mHandle[remote[i].addr] = INVALID_HANDLE /\ remote[i].addr \in Disconnecteds'
                     \/ /\ mHandle[remote[i].addr] = remote[i].handle
                        /\ remote[i].addr \in Connecteds'
                     \/ i = o
    BY <1>1, <1>6 DEF StageInv, Unlinked, Linked, deviceVars
  <2>1. remote[i].addr \in Devices
    BY <1>0, AddrOf
  <2>2. CASE i = o
    BY <1>2, <2>2
  <2>3. CASE i # o
    <3>1. Alive(i) => remote[i].addr # d
      BY <1>7, <2>3
    <3> QED
      BY <1>0, <1>1, <1>5, <2>1, <3>1 DEF StageInv, Unlinked, Linked, Alive, o
  <2> QED
    BY <2>2, <2>3
<1>12. BusyInv'
  BY <1>1, <1>2, <1>5, <1>6 DEF BusyInv, Busy, o
<1>13. ClientInv'
  <2>1. \A j : Alive(j)' => Alive(j) /\ remote'[j].addr = remote[j].addr
                            /\ remote'[j].link = remote[j].link
    BY <1>1 DEF Alive
  <2>2. \A g, e : UpOf(g, e)' => UpOf(g, e)
    BY <1>1, EventsLeft DEF dongleVars
  <2> QED
    BY <1>0, <1>1, <2>1, <2>2, ClientsKept
<1>14. JoinInv'
  BY <1>0, <1>1, ConnectionAssumption DEF JoinInv, ClientInv
<1>15. LinkInv' /\ WaitInv'
  BY <1>0, <1>1, LinksLeft
<1> QED
  BY <1>8, <1>9, <1>10, <1>11, <1>12, <1>13, <1>14, <1>15 DEF CareInv

\* BLEDevice::onDisconnected, and the RemoteDevice is deleted.
LEMMA CareDeviceDisconnected ==
    ASSUME CareState, DeviceDisconnected
    PROVE  CareInv'
<1> DEFINE o == event.del
           d == event.addr
<1>0. /\ DataOK /\ ObjectsOK /\ Distinct /\ OneAttempt /\ AllKnown
      /\ OneLive /\ GoneInv /\ PlaceInv /\ StatusInv /\ StageInv
      /\ BusyInv /\ ClientInv /\ JoinInv /\ LinkInv /\ WaitInv
  BY DEF CareState, CareInv
<1>1. /\ Busy /\ event.pc = "device" /\ event.handle \in Handles
      /\ remote[o].thread = "stopped" /\ d \in Disconnecteds
  BY <1>0 DEF DeviceDisconnected, Busy, BusyInv
<1>2. /\ OnDisconnected(d) /\ remote' = [remote EXCEPT ![o].thread = "deleted"]
      /\ event' = NoEvent
      /\ UNCHANGED <<setVars, mTaskMutex, client, mIsConnecting, listVars, dongleVars>>
  BY <1>1 DEF DeviceDisconnected
<1>3. o \in DOMAIN remote /\ d \in Devices /\ Alive(o) /\ remote[o].addr = d
      /\ o \notin Elements(mConnectingDevice) /\ o \notin Elements(mConnectedDevice)
      /\ o \notin Elements(mDisconnectingDevice)
  BY <1>0, <1>1 DEF DataOK, EventOK, Distinct, RightDel, Alive, ObjectsOK, InList
<1>4. NoEvent.pc = "idle"
  BY DEF NoEvent
<1> HIDE DEF o, d
<1>5. /\ mCnntStatus'[d] = "Disconnected" /\ mHandle'[d] = INVALID_HANDLE
      /\ \A e \in Devices : e # d => mCnntStatus'[e] = mCnntStatus[e] /\ mHandle'[e] = mHandle[e]
  BY <1>0, <1>2, <1>3 DEF OnDisconnected, DataOK, DeviceOK
<1>6. /\ DOMAIN remote' = DOMAIN remote /\ remote'[o].thread = "deleted"
      /\ \A j \in DOMAIN remote : /\ remote'[j].addr = remote[j].addr
                                  /\ remote'[j].handle = remote[j].handle
                                  /\ remote'[j].link = remote[j].link
                                  /\ j # o => remote'[j] = remote[j]
  <2>1. "deleted" \in Threads /\ "deleted" \notin Reporting
    BY DEF Threads, Reporting
  <2> QED
    BY <1>0, <1>2, <1>3, <2>1, ThreadMoved DEF DataOK
<1>7. \A j : Alive(j)' <=> Alive(j) /\ j # o
  BY <1>3, <1>6 DEF Alive
<1>8. \A j : Alive(j)' => Alive(j) /\ remote'[j].addr = remote[j].addr
                          /\ remote'[j].link = remote[j].link
  BY <1>6, <1>7 DEF Alive
<1>9. \A i \in DOMAIN remote : Alive(i) /\ i # o => remote[i].addr \in Devices /\ remote[i].addr # d
  BY <1>0, <1>3, AddrOf DEF OneLive
<1>10. OneLive'
  BY <1>0, <1>8, FewerObjects
<1>11. GoneInv'
  <2> SUFFICES ASSUME NEW e \in Devices, NoneOf(e)'
               PROVE  /\ mCnntStatus'[e] = "Disconnected" /\ mHandle'[e] = INVALID_HANDLE
                      /\ e \in Disconnecteds
    BY <1>2, SameSets DEF GoneInv, Unlinked, setVars
  <2>1. CASE e = d
    BY <1>1, <1>5, <2>1 DEF d
  <2>2. CASE e # d
    <3>1. NoneOf(e)
      BY <1>3, <1>6, <1>7, <2>2 DEF NoneOf, Alive
    <3> QED
      BY <1>0, <1>5, <2>2, <3>1 DEF GoneInv, Unlinked
  <2> QED
    BY <2>1, <2>2
<1>12. PlaceInv'
  BY <1>0, <1>2, <1>6 DEF PlaceInv, listVars, o
<1>13. StatusInv'
  BY <1>0, <1>5, <1>6, <1>7, <1>9 DEF StatusInv
<1>14. StageInv'
  <2> SUFFICES ASSUME NEW i \in DOMAIN remote, i # o, Alive(i)
        PROVE  /\ remote[i].thread \in {"none", "setup", "discovering", "report"} =>
                     mHandle'[remote[i].addr] = INVALID_HANDLE /\ remote[i].addr \in Disconnecteds
               /\ remote[i].thread = "onConnected" =>
                     mHandle'[remote[i].addr] = INVALID_HANDLE /\ remote[i].addr \in Connecteds
               /\ remote[i].thread \in {"protocol", "connected"} =>
                     /\ mHandle'[remote[i].addr] = remote[i].handle
                     /\ remote[i].addr \in Connecteds
               /\ remote[i].thread = "stopped" =>
                     \/ mHandle'[remote[i].addr] = INVALID_HANDLE /\ remote[i].addr \in Disconnecteds
                     \/ /\ mHandle'[remote[i].addr] = remote[i].handle
                        /\ remote[i].addr \in Connecteds
    BY <1>2, <1>6, SameSets DEF StageInv, Unlinked, Linked, setVars, Alive
  <2>1. mHandle'[remote[i].addr] = mHandle[remote[i].addr]
    BY <1>5, <1>9
  <2> QED
    BY <1>0, <2>1 DEF StageInv, Unlinked, Linked, o
<1>15. BusyInv'
  BY <1>2, <1>4 DEF BusyInv, Busy
<1>16. ClientInv'
  <2>1. \A g, e : UpOf(g, e)' => UpOf(g, e)
    BY <1>2, EventsLeft DEF dongleVars
  <2> QED
    BY <1>0, <1>2, <1>8, <2>1, ClientsKept
<1>17. JoinInv'
  BY <1>0, <1>1, <1>2, <1>3, <1>6, <1>7 DEF JoinInv, listVars
<1>18. LinkInv' /\ WaitInv'
  <2>1. /\ \A j \in Elements(mDisconnectingDevice) : j \in DOMAIN remote
        /\ \A j \in Elements(mConnectedDevice) : j \in DOMAIN remote
    BY <1>0 DEF DataOK, ListOK
  <2>2. \A j \in Elements(mConnectedDevice) :
           remote'[j].thread = "setup" => remote[j].thread = "setup"
    BY <1>3, <1>6, <2>1
  <2>3. \A j \in Elements(mDisconnectingDevice) : remote'[j].handle = remote[j].handle
    BY <1>6, <2>1
  <2> QED
    BY <1>0, <1>2, <1>6, <2>2, <2>3, LinksLeft
<1> QED
  BY <1>10, <1>11, <1>12, <1>13, <1>14, <1>15, <1>16, <1>17, <1>18 DEF CareInv

\* What the step of one running thread i keeps, whatever it does to its own armband.
LEMMA CareThread ==
    ASSUME CareState, NEW i \in DOMAIN remote,
           UNCHANGED <<mTaskMutex, client, mIsConnecting, listVars, event, dongleVars>>,
           DOMAIN remote' = DOMAIN remote,
           \A j \in DOMAIN remote : /\ remote'[j].addr = remote[j].addr
                                    /\ remote'[j].link = remote[j].link
                                    /\ j # i => remote'[j] = remote[j],
           remote[i].thread \in Active, remote'[i].thread \in Active \ {"setup"},
           remote[i].handle = INVALID_HANDLE \/ remote'[i].handle = remote[i].handle,
           \A e \in Devices : e # remote[i].addr =>
              /\ mCnntStatus'[e] = mCnntStatus[e] /\ mHandle'[e] = mHandle[e]
              /\ e \in Connecteds' <=> e \in Connecteds
              /\ e \in Disconnecteds' <=> e \in Disconnecteds,
           mCnntStatus'[remote[i].addr] # "Disconnected",
           remote'[i].thread = "connected" => mCnntStatus'[remote[i].addr] = "Connected",
           remote'[i].thread \in {"discovering", "report"} =>
              mHandle'[remote[i].addr] = INVALID_HANDLE /\ remote[i].addr \in Disconnecteds',
           remote'[i].thread = "onConnected" =>
              mHandle'[remote[i].addr] = INVALID_HANDLE /\ remote[i].addr \in Connecteds',
           remote'[i].thread \in {"protocol", "connected"} =>
              /\ mHandle'[remote[i].addr] = remote'[i].handle
              /\ remote[i].addr \in Connecteds'
    PROVE  CareInv'
<1> DEFINE d == remote[i].addr
<1>0. /\ DataOK /\ ObjectsOK /\ Distinct /\ OneAttempt /\ AllKnown
      /\ OneLive /\ GoneInv /\ PlaceInv /\ StatusInv /\ StageInv
      /\ BusyInv /\ ClientInv /\ JoinInv /\ LinkInv /\ WaitInv
  BY DEF CareState, CareInv
<1>1. i \in Elements(mConnectedDevice) /\ d \in Devices /\ Alive(i)
  BY <1>0, AddrOf DEF ObjectsOK, Alive, Active
<1>2. remote'[i].thread \notin {"none", "setup", "stopped", "deleted"}
      /\ remote[i].thread \notin {"none", "stopped", "deleted"}
  BY DEF Active
<1>3. \A j : /\ Alive(j)' <=> Alive(j)
             /\ Alive(j) => remote'[j].addr = remote[j].addr /\ remote'[j].link = remote[j].link
  BY <1>2 DEF Alive
<1>4. \A j \in DOMAIN remote :
         Alive(j) /\ j # i => remote[j].addr \in Devices /\ remote[j].addr # d
  BY <1>0, <1>1, AddrOf DEF OneLive
<1>5. \A e : NoneOf(e)' <=> NoneOf(e)
  BY <1>3 DEF NoneOf
<1>6. OneLive'
  BY <1>0, <1>3, FewerObjects
<1>7. GoneInv'
  <2>1. ~NoneOf(d)
    BY <1>1 DEF NoneOf
  <2> QED
    BY <1>0, <1>5, <2>1 DEF GoneInv, Unlinked
<1>8. PlaceInv'
  BY <1>0, <1>2 DEF PlaceInv, Busy, listVars
<1>9. StatusInv'
  <2> SUFFICES ASSUME NEW j \in DOMAIN remote, Alive(j)
               PROVE  /\ mCnntStatus'[remote[j].addr] # "Disconnected"
                      /\ remote'[j].thread = "none" => mCnntStatus'[remote[j].addr] = "Connecting"
                      /\ remote'[j].thread = "connected" =>
                            mCnntStatus'[remote[j].addr] = "Connected"
    BY <1>3 DEF StatusInv
  <2>1. CASE j = i
    BY <1>2, <2>1
  <2>2. CASE j # i
    BY <1>0, <1>4, <2>2 DEF StatusInv
  <2> QED
    BY <2>1, <2>2
<1>10. StageInv'
  <2> SUFFICES ASSUME NEW j \in DOMAIN remote
        PROVE  /\ remote'[j].thread \in {"none", "setup", "discovering", "report"} =>
                     mHandle'[remote[j].addr] = INVALID_HANDLE /\ remote[j].addr \in Disconnecteds'
               /\ remote'[j].thread = "onConnected" =>
                     mHandle'[remote[j].addr] = INVALID_HANDLE /\ remote[j].addr \in Connecteds'
               /\ remote'[j].thread \in {"protocol", "connected"} =>
                     /\ mHandle'[remote[j].addr] = remote'[j].handle
                     /\ remote[j].addr \in Connecteds'
               /\ remote'[j].thread = "stopped" =>
                     \/ mHandle'[remote[j].addr] = INVALID_HANDLE /\ remote[j].addr \in Disconnecteds'
                     \/ /\ mHandle'[remote[j].addr] = remote'[j].handle
                        /\ remote[j].addr \in Connecteds'
                     \/ event.pc = "device" /\ event.del = j
    BY DEF StageInv, Unlinked, Linked
  <2>1. CASE j = i
    BY <1>2, <2>1
  <2>2. CASE j # i
    <3>1. remote'[j] = remote[j]
      BY <2>2
    <3>2. CASE remote[j].thread = "deleted"
      BY <3>1, <3>2
    <3>3. CASE remote[j].thread # "deleted"
      <4>1. /\ mHandle'[remote[j].addr] = mHandle[remote[j].addr]
            /\ remote[j].addr \in Connecteds' <=> remote[j].addr \in Connecteds
            /\ remote[j].addr \in Disconnecteds' <=> remote[j].addr \in Disconnecteds
        BY <1>4, <2>2, <3>3 DEF Alive
      <4> QED
        BY <1>0, <3>1, <4>1 DEF StageInv, Unlinked, Linked
    <3> QED
      BY <3>2, <3>3
  <2> QED
    BY <2>1, <2>2
<1>11. BusyInv'
  <2> SUFFICES ASSUME Busy
               PROVE  /\ event.handle \in Handles /\ event.pc # "delete"
                      /\ remote'[event.del].thread = "stopped"
                      /\ event.pc = "device" => event.addr \in Disconnecteds'
    BY DEF BusyInv, Busy
  <2>1. /\ event.handle \in Handles /\ event.pc # "delete"
        /\ remote[event.del].thread = "stopped"
        /\ event.pc = "device" => event.addr \in Disconnecteds
    BY <1>0 DEF BusyInv
  <2>2. event.del \in DOMAIN remote /\ event.addr \in Devices /\ event.addr = remote[event.del].addr
    BY <1>0, <2>1 DEF DataOK, EventOK, Distinct, RightDel
  <2>3. event.del # i /\ Alive(event.del)
    BY <1>2, <2>1, <2>2 DEF Alive
  <2>4. event.addr # remote[i].addr
    BY <1>4, <2>2, <2>3
  <2> QED
    BY <2>1, <2>2, <2>3, <2>4
<1>12. ClientInv'
  <2>1. \A g, e : UpOf(g, e)' => UpOf(g, e)
    BY EventsLeft DEF dongleVars
  <2> QED
    BY <1>0, <1>3, <2>1, ClientsKept
<1>13. JoinInv'
  <2> SUFFICES ASSUME NEW c \in Clients, client[c].pc = "join"
               PROVE  \E j \in DOMAIN remote :
                         /\ Alive(j)' /\ remote'[j].handle = client[c].handle
                         /\ \/ j \in Elements(mConnectedDevice)
                            \/ event.pc = "hub" /\ event.del = j
    BY DEF JoinInv, listVars
  <2>1. PICK j \in DOMAIN remote :
           /\ Alive(j) /\ remote[j].handle = client[c].handle
           /\ j \in Elements(mConnectedDevice) \/ (event.pc = "hub" /\ event.del = j)
    BY <1>0 DEF JoinInv
  <2>2. client[c].handle \in Handles
    BY <1>0 DEF DataOK, ClientOK
  <2>3. remote'[j].handle = remote[j].handle
    BY <2>1, <2>2, ConnectionAssumption
  <2> QED
    BY <1>3, <2>1, <2>3
<1>14. LinkInv' /\ WaitInv'
  <2>1. /\ i \notin Elements(mDisconnectingDevice)
        /\ \A j \in Elements(mDisconnectingDevice) : j \in DOMAIN remote
        /\ \A j \in Elements(mConnectedDevice) : j \in DOMAIN remote
    BY <1>0, <1>1, Running DEF DataOK, ListOK
  <2>2. \A j \in Elements(mConnectedDevice) :
           remote'[j].thread = "setup" => remote[j].thread = "setup"
    BY <1>2, <2>1
  <2>3. \A j \in Elements(mDisconnectingDevice) : remote'[j].handle = remote[j].handle
    BY <2>1
  <2> QED
    BY <1>0, <2>2, <2>3, LinksLeft
<1> QED
  BY <1>6, <1>7, <1>8, <1>9, <1>10, <1>11, <1>12, <1>13, <1>14 DEF CareInv

\* Every step of a RemoteDevice's thread.
LEMMA CareThreads ==
    ASSUME CareState, NEW i \in DOMAIN remote, DeviceStep(i)
    PROVE  CareInv'
<1>0. /\ DataOK /\ ObjectsOK /\ Distinct /\ OneAttempt /\ AllKnown
      /\ OneLive /\ GoneInv /\ PlaceInv /\ StatusInv /\ StageInv
      /\ BusyInv /\ ClientInv /\ JoinInv /\ LinkInv /\ WaitInv
  BY DEF CareState, CareInv
<1>1. UNCHANGED <<mTaskMutex, client, mIsConnecting, listVars, event, dongleVars>>
  BY DEF DeviceStep, TakeHandle, Discovered, HubConnected, DeviceSetHandle,
     DeviceSetConnected
<1>2. remote[i].thread \in {"setup", "discovering", "report", "onConnected", "protocol"}
  BY DEF DeviceStep, TakeHandle, Discovered, HubConnected, DeviceSetHandle,
     DeviceSetConnected
<1>3. remote[i].thread \in Active /\ Alive(i) /\ remote[i].addr \in Devices
  BY <1>0, <1>2, AddrOf DEF Active, Threads, Alive
<1>4. mCnntStatus[remote[i].addr] # "Disconnected"
  BY <1>0, <1>3 DEF StatusInv
<1>5. {"discovering", "report", "onConnected", "protocol", "connected"} \subseteq Active \ {"setup"}
  BY DEF Active, Threads
<1>6. CASE TakeHandle(i)
  <2>1. /\ DOMAIN remote' = DOMAIN remote
        /\ remote'[i].thread = "discovering" /\ remote'[i].handle = remote[i].link
        /\ \A j \in DOMAIN remote : /\ remote'[j].addr = remote[j].addr
                                    /\ remote'[j].link = remote[j].link
                                    /\ j # i => remote'[j] = remote[j]
    BY <1>0, <1>6, TakeHandleDoes DEF DataOK
  <2>2. remote[i].thread = "setup" /\ remote[i].handle = INVALID_HANDLE
        /\ UNCHANGED <<mCnntStatus, mHandle, Connecteds, Disconnecteds>>
    BY <1>0, <1>6 DEF TakeHandle, ObjectsOK, deviceVars, setVars, Connecteds, Disconnecteds, Elements
  <2>3. mHandle[remote[i].addr] = INVALID_HANDLE /\ remote[i].addr \in Disconnecteds
    BY <1>0, <2>2 DEF StageInv, Unlinked
  <2> QED
    BY <1>0, <1>1, <1>3, <1>4, <1>5, <2>1, <2>2, <2>3, CareThread
<1>7. CASE Discovered(i)
  <2>1. remote[i].thread = "discovering"
        /\ UNCHANGED <<mCnntStatus, mHandle, Connecteds, Disconnecteds>>
    BY <1>7 DEF Discovered, deviceVars, setVars, Connecteds, Disconnecteds, Elements
  <2>2. /\ DOMAIN remote' = DOMAIN remote
        /\ \/ \A m \in Elements(mConnectedDevice) : remote[m].handle # remote[i].handle
           \/ remote'[i].thread = "report"
        /\ \A j \in DOMAIN remote : /\ remote'[j].addr = remote[j].addr
                                    /\ remote'[j].handle = remote[j].handle
                                    /\ remote'[j].link = remote[j].link
                                    /\ j # i => remote'[j] = remote[j]
    BY <1>0, <1>7, DiscoveredDoes DEF DataOK
  <2>3. i \in Elements(mConnectedDevice)
    BY <1>0, <1>3 DEF ObjectsOK
  <2>4. remote'[i].thread = "report"
    BY <2>2, <2>3
  <2>5. mHandle[remote[i].addr] = INVALID_HANDLE /\ remote[i].addr \in Disconnecteds
    BY <1>0, <2>1 DEF StageInv, Unlinked
  <2> QED
    BY <1>0, <1>1, <1>3, <1>4, <1>5, <2>1, <2>2, <2>4, <2>5, CareThread
<1>8. ASSUME NEW t \in Active \ {"setup"}, remote' = [remote EXCEPT ![i].thread = t],
             remote[i].thread \in Reporting
      PROVE  /\ DOMAIN remote' = DOMAIN remote /\ remote'[i].thread = t
             /\ remote'[i].handle = remote[i].handle
             /\ remote[i].dev = remote[i].addr
             /\ \A j \in DOMAIN remote : /\ remote'[j].addr = remote[j].addr
                                         /\ remote'[j].link = remote[j].link
                                         /\ j # i => remote'[j] = remote[j]
  <2>1. t \in Threads /\ remote[i].dev = remote[i].addr
    BY <1>0, <1>8 DEF Active, Distinct, OwnDev
  <2> QED
    BY <1>0, <1>3, <1>8, <2>1, ThreadMoved DEF DataOK
<1>9. CASE HubConnected(i)
  <2>1. /\ remote[i].thread = "report" /\ remote' = [remote EXCEPT ![i].thread = "onConnected"]
        /\ Disconnecteds' = Disconnecteds \ {remote[i].dev}
        /\ Connecteds' = Connecteds \cup {remote[i].dev}
        /\ UNCHANGED <<mCnntStatus, mHandle>>
    <3>1. remote[i].thread = "report" /\ UNCHANGED <<mCnntStatus, mHandle>>
      BY <1>9 DEF HubConnected, deviceVars
    <3>2. SetsOK /\ ~crossed
      BY DEF CareState
    <3> QED
      BY <1>0, <1>9, <3>1, <3>2, HubConnectedSets
  <2>2. remote[i].thread \in Reporting /\ "onConnected" \in Active \ {"setup"}
    BY <1>5, <2>1 DEF Reporting
  <2>3. /\ DOMAIN remote' = DOMAIN remote /\ remote'[i].thread = "onConnected"
        /\ remote'[i].handle = remote[i].handle
        /\ remote[i].dev = remote[i].addr
        /\ \A j \in DOMAIN remote : /\ remote'[j].addr = remote[j].addr
                                    /\ remote'[j].link = remote[j].link
                                    /\ j # i => remote'[j] = remote[j]
    BY <1>8, <2>1, <2>2
  <2>4. mHandle[remote[i].addr] = INVALID_HANDLE
    BY <1>0, <2>1 DEF StageInv, Unlinked
  <2>5. /\ \A e \in Devices : e # remote[i].addr =>
              /\ mCnntStatus'[e] = mCnntStatus[e] /\ mHandle'[e] = mHandle[e]
              /\ e \in Connecteds' <=> e \in Connecteds
              /\ e \in Disconnecteds' <=> e \in Disconnecteds
        /\ remote[i].addr \in Connecteds'
    BY <2>1, <2>3
  <2> QED
    BY <1>0, <1>1, <1>3, <1>4, <1>5, <2>1, <2>3, <2>4, <2>5, CareThread
<1>10. CASE DeviceSetHandle(i)
  <2>1. /\ remote[i].thread = "onConnected" /\ remote' = [remote EXCEPT ![i].thread = "protocol"]
        /\ mHandle' = [mHandle EXCEPT ![remote[i].dev] = remote[i].handle]
        /\ UNCHANGED <<mCnntStatus, Connecteds, Disconnecteds>>
    BY <1>10 DEF DeviceSetHandle, Connecteds, Disconnecteds, Elements
  <2>2. remote[i].thread \in Reporting /\ "protocol" \in Active \ {"setup"}
    BY <1>5, <2>1 DEF Reporting
  <2>3. /\ DOMAIN remote' = DOMAIN remote /\ remote'[i].thread = "protocol"
        /\ remote'[i].handle = remote[i].handle
        /\ remote[i].dev = remote[i].addr
        /\ \A j \in DOMAIN remote : /\ remote'[j].addr = remote[j].addr
                                    /\ remote'[j].link = remote[j].link
                                    /\ j # i => remote'[j] = remote[j]
    BY <1>8, <2>1, <2>2
  <2>4. remote[i].addr \in Connecteds
    BY <1>0, <2>1 DEF StageInv
  <2>5. /\ \A e \in Devices : e # remote[i].addr =>
              /\ mCnntStatus'[e] = mCnntStatus[e] /\ mHandle'[e] = mHandle[e]
              /\ e \in Connecteds' <=> e \in Connecteds
              /\ e \in Disconnecteds' <=> e \in Disconnecteds
        /\ mHandle'[remote[i].addr] = remote'[i].handle
    BY <1>0, <1>3, <2>1, <2>3 DEF DataOK, DeviceOK
  <2> QED
    BY <1>0, <1>1, <1>3, <1>4, <1>5, <2>1, <2>3, <2>4, <2>5, CareThread
<1>11. CASE DeviceSetConnected(i)
  <2>1. /\ remote[i].thread = "protocol" /\ remote' = [remote EXCEPT ![i].thread = "connected"]
        /\ mCnntStatus' = [mCnntStatus EXCEPT ![remote[i].dev] = "Connected"]
        /\ UNCHANGED <<mHandle, Connecteds, Disconnecteds>>
    BY <1>11 DEF DeviceSetConnected, Connecteds, Disconnecteds, Elements
  <2>2. remote[i].thread \in Reporting /\ "connected" \in Active \ {"setup"}
    BY <1>5, <2>1 DEF Reporting
  <2>3. /\ DOMAIN remote' = DOMAIN remote /\ remote'[i].thread = "connected"
        /\ remote'[i].handle = remote[i].handle
        /\ remote[i].dev = remote[i].addr
        /\ \A j \in DOMAIN remote : /\ remote'[j].addr = remote[j].addr
                                    /\ remote'[j].link = remote[j].link
                                    /\ j # i => remote'[j] = remote[j]
    BY <1>8, <2>1, <2>2
  <2>4. remote[i].addr \in Connecteds /\ mHandle[remote[i].addr] = remote[i].handle
    BY <1>0, <2>1 DEF StageInv, Linked
  <2>5. /\ \A e \in Devices : e # remote[i].addr =>
              /\ mCnntStatus'[e] = mCnntStatus[e] /\ mHandle'[e] = mHandle[e]
              /\ e \in Connecteds' <=> e \in Connecteds
              /\ e \in Disconnecteds' <=> e \in Disconnecteds
        /\ mCnntStatus'[remote[i].addr] = "Connected"
    BY <1>0, <1>3, <2>1, <2>3 DEF DataOK, DeviceOK
  <2> QED
    BY <1>0, <1>1, <1>3, <1>4, <1>5, <2>1, <2>3, <2>4, <2>5, CareThread
<1> QED
  BY <1>6, <1>7, <1>9, <1>10, <1>11 DEF DeviceStep

\* Nothing exists yet.
LEMMA CareInit == Init => CareInv
<1> SUFFICES ASSUME Init PROVE CareInv
  OBVIOUS
<1>1. DOMAIN remote = {} /\ events = <<>> /\ Len(events) = 0
  BY DEF Init
<1>2. /\ Elements(mConnectingDevice) = {} /\ Elements(mConnectedDevice) = {}
      /\ Elements(mDisconnectingDevice) = {}
  BY DEF Init, Elements
<1>3. event.pc = "idle" /\ event.del = NULL
  BY DEF Init, NoEvent
<1>4. \A c \in Clients : client[c].pc = "idle" /\ client[c].op = "none" /\ mTaskMutex # c
  BY ConnectionAssumption DEF Init, NoCall
<1>5. \A i : ~Alive(i)
  BY <1>1 DEF Alive
<1>6. \A h, d : ~UpOf(h, d)
  BY <1>1 DEF UpOf
<1>7. OneLive /\ GoneInv /\ PlaceInv /\ StatusInv /\ StageInv
  BY <1>1, <1>5 DEF Init, OneLive, GoneInv, Unlinked, Disconnecteds, PlaceInv, StatusInv, StageInv
<1>8. BusyInv /\ ClientInv /\ JoinInv
  BY <1>3, <1>4 DEF BusyInv, Busy, ClientInv, JoinInv
<1>9. LinkInv /\ WaitInv
  BY <1>2, <1>6 DEF Init, LinkInv, WaitInv
<1> QED
  BY <1>7, <1>8, <1>9 DEF CareInv

\* A careful client's request, ...
LEMMA CareRequests ==
    ASSUME CareState, NEW c \in Clients, Request(c), Careful'
    PROVE  CareInv'
<1>0. /\ DataOK /\ ClientInv /\ \A b \in Clients : client[b].op # "cancelConnect"
  BY DEF CareState, CareInv, OneAttempt
<1>1. ~Spend("slow")
  BY <1>0, Spending DEF Careful, Deeds, DataOK
<1>2. ASSUME Succeed(c)
      PROVE  /\ client' = [client EXCEPT ![c] = NoCall]
             /\ mCnntStatus' = [mCnntStatus EXCEPT ![client[c].dev] = StatusAfter(client[c].op)]
  BY <1>1, <1>2 DEF Succeed
<1>3. CASE Connect(c)
  <2>1. CASE mIsConnecting
    <3>1. /\ client[c].pc = "queued" /\ client' = [client EXCEPT ![c] = NoCall]
          /\ UNCHANGED <<deviceVars, setVars, mTaskMutex, mIsConnecting, listVars, remote, event,
                         dongleVars>>
      BY <1>3, <2>1 DEF Connect, deviceVars
    <3> QED
      BY <3>1, CareRefused
  <2>2. CASE ~mIsConnecting
    <3>1. Succeed(c)
      BY <1>3, <2>2 DEF Connect
    <3> QED
      BY <1>2, <1>3, <2>2, <3>1, CareConnect
  <2> QED
    BY <2>1, <2>2
<1>4. CASE CancelConnect(c)
  BY <1>0, <1>4 DEF CancelConnect
<1>5. CASE DisconnectUnknown(c)
  <2>1. /\ client[c].pc = "queued" /\ client' = [client EXCEPT ![c] = NoCall]
        /\ UNCHANGED <<deviceVars, setVars, mTaskMutex, mIsConnecting, listVars, remote, event,
                       dongleVars>>
    BY <1>5 DEF DisconnectUnknown
  <2> QED
    BY <2>1, CareRefused
<1>6. CASE DisconnectBegin(c)
  BY <1>6, CareDisconnectBegin
<1>7. CASE DisconnectEnd(c)
  <2>1. Succeed(c)
    BY <1>7 DEF DisconnectEnd
  <2> QED
    BY <1>2, <1>7, <2>1, CareDisconnectEnd
<1> QED
  BY <1>3, <1>4, <1>5, <1>6, <1>7 DEF Request

\* ... the event thread's steps, ...
LEMMA CareEvents ==
    ASSUME CareState, EventStep
    PROVE  CareInv'
<1>1. CASE OnConnectError
  <2>1. DongleOK /\ \A k \in 1..Len(events) : events[k].kind # "upError"
    BY DEF CareState, OneAttempt, DataOK
  <2>2. Take("upError")
    BY <1>1 DEF OnConnectError
  <2>3. 1 \in 1..Len(events) /\ events[1].kind = "upError"
    BY <2>1, <2>2, EventTaken
  <2> QED
    BY <2>1, <2>3
<1> QED
  BY <1>1, CareOnConnect, CareLinkTerminated, CareLinkTerminatedAsAsked,
     CareLinkTerminatedUnknown, CareHubDisconnected, CareDeviceDisconnected DEF EventStep

\* ... and all others.
LEMMA CareStep ==
    ASSUME DataOK, ObjectsOK, SetsOK, ReuseInv, CancelInv, Careful => CareInv, [Next]_vars, Careful'
    PROVE  CareInv'
<1>0. {"cancel", "again", "slow", "early", "reuse"} \subseteq Deeds
  BY DEF Deeds
<1>1. Careful /\ BudgetOK
  BY <1>0, DoneStaysDone, SetsStep DEF Careful, DataOK
<1>2. CareState /\ CareInv /\ ClientInv /\ JoinInv
  BY <1>1 DEF CareState, CareInv, ReuseInv, CancelInv, Careful
<1>3. ~Spend("cancel") /\ ~Spend("again") /\ ~Spend("early") /\ ~Spend("reuse")
  BY <1>0, <1>1, Spending DEF Careful
<1>4. ASSUME NEW h \in Handles, LinkUp(h)
      PROVE  CareInv'
  BY <1>2, <1>3, <1>4, CareLinkUp DEF LinkUp
<1>5. ASSUME NEW h \in Handles, LinkLost(h)
      PROVE  CareInv'
  BY <1>2, <1>3, <1>5, CareLinkLost DEF LinkLost
<1>6. ASSUME NEW c \in Clients, NEW d \in Devices, ConnectCall(c, d)
      PROVE  CareInv'
  <2>1. mCnntStatus[d] = "Disconnected" /\ \A b \in Clients : client[b].dev # d
    BY <1>3, <1>6 DEF ConnectCall
  <2> QED
    BY <1>2, <1>6, <2>1, CareConnectCall
<1>7. ASSUME NEW c \in Clients, NEW d \in Devices, DisconnectCall(c, d)
      PROVE  CareInv'
  BY <1>2, <1>7, CareDisconnectCall
<1>8. ASSUME NEW c \in Clients, NEW d \in Devices, CancelCall(c, d)
      PROVE  CareInv'
  BY <1>3, <1>8 DEF CancelCall
<1>9. ASSUME NEW c \in Clients, WriteStatus(c)
      PROVE  CareInv'
  BY <1>2, <1>9 DEF WriteStatus, ClientInv
<1>10. CASE UNCHANGED vars
  <2>1. /\ UNCHANGED <<deviceVars, setVars, mIsConnecting, listVars, remote, event, dongleVars>>
        /\ UNCHANGED <<client, mTaskMutex>>
    BY <1>10 DEF vars
  <2>2. /\ \A g, e : UpOf(g, e)' => UpOf(g, e)
        /\ \A j : Alive(j)' <=> Alive(j)
    BY <2>1, EventsLeft DEF dongleVars, Alive
  <2>3. \A j : Alive(j)' => /\ Alive(j) /\ remote'[j].addr = remote[j].addr
                            /\ remote'[j].link = remote[j].link
    BY <2>1, <2>2
  <2>4. ClientInv'
    BY <1>2, <2>1, <2>2, <2>3, ClientsKept
  <2>5. JoinInv'
    BY <1>2, <2>1 DEF JoinInv, Alive, listVars
  <2> QED
    BY <1>2, <2>1, <2>4, <2>5, ClientsOnly
<1> QED
  BY <1>2, <1>4, <1>5, <1>6, <1>7, <1>8, <1>9, <1>10, CareRequests, CareEvents, CareThreads
  DEF Next

\* When nothing is under way, what the radio says of an armband is what its status is.
LEMMA QuietStatus ==
    ASSUME CareState, Quiet, NEW d \in Devices
    PROVE  \/ /\ \E h \in Handles : links[h] = d
              /\ pending # d /\ mCnntStatus[d] = "Connected"
           \/ /\ \A h \in Handles : links[h] # d
              /\ pending = d /\ mCnntStatus[d] = "Connecting"
           \/ /\ \A h \in Handles : links[h] # d
              /\ pending # d /\ mCnntStatus[d] = "Disconnected"
<1>0. /\ DataOK /\ ObjectsOK /\ Distinct /\ OneAttempt /\ AllKnown
      /\ OneLive /\ GoneInv /\ PlaceInv /\ StatusInv /\ LinkInv /\ WaitInv
  BY DEF CareState, CareInv
<1>1. events = <<>> /\ ~Busy
  BY DEF Quiet, Busy
<1>2. (\A h, e : ~UpOf(h, e)) /\ \A h : ~Ending(h)
  BY <1>1 DEF UpOf, Ending
<1>3. CASE NoneOf(d)
  BY <1>0, <1>3, NoLinkOf DEF GoneInv
<1>4. ASSUME NEW i \in DOMAIN remote, Alive(i), remote[i].addr = d
      PROVE  \/ /\ \E h \in Handles : links[h] = d
                /\ pending # d /\ mCnntStatus[d] = "Connected"
             \/ /\ \A h \in Handles : links[h] # d
                /\ pending = d /\ mCnntStatus[d] = "Connecting"
  <2>1. \/ remote[i].thread \in {"none", "connected", "stopped"}
        \/ remote[i].thread = "discovering" /\ links[remote[i].handle] = NoDevice
    BY <1>4 DEF Quiet, Alive
  <2>2. CASE remote[i].thread = "none"
    <3>1. i \in Elements(mConnectingDevice) /\ mCnntStatus[d] = "Connecting"
      BY <1>0, <1>4, <2>2 DEF PlaceInv, StatusInv
    <3>2. pending = d
      BY <1>0, <1>2, <1>4, <3>1 DEF WaitInv
    <3>3. ASSUME NEW h \in Handles, links[h] = d
          PROVE  FALSE
      <4>1. links[h] # NoDevice
        BY <3>3, ConnectionAssumption
      <4>2. PICK j \in Elements(mConnectedDevice) : remote[j].addr = d
        BY <1>0, <1>2, <3>3, <4>1, LinkFacts
      <4>3. j \in DOMAIN remote /\ Alive(j) /\ remote[j].thread \in Active
        BY <1>0, Running
      <4> QED
        BY <1>0, <1>4, <2>2, <4>2, <4>3 DEF OneLive, Active
    <3> QED
      BY <3>1, <3>2, <3>3
  <2>3. ASSUME i \in Elements(mConnectedDevice)
        PROVE  links[remote[i].link] = d /\ remote[i].link \in Handles /\ pending # d
    <3>1. remote[i].link \in Handles /\ links[remote[i].link] = d
      BY <1>0, <1>2, <1>4, <2>3, Running DEF LinkInv
    <3>2. ASSUME pending = d
          PROVE  FALSE
      <4>1. pending # NoDevice
        BY <3>2, ConnectionAssumption
      <4>2. PICK j \in Elements(mConnectingDevice) : remote[j].addr = d
        BY <1>0, <3>2, <4>1, LinkFacts
      <4>3. j \in DOMAIN remote /\ Alive(j) /\ j # i
        BY <1>0, <2>3 DEF DataOK, ListOK, ObjectsOK, Alive
      <4> QED
        BY <1>0, <1>4, <4>2, <4>3 DEF OneLive
    <3> QED
      BY <3>1, <3>2
  <2>4. CASE remote[i].thread = "connected"
    <3>1. i \in Elements(mConnectedDevice) /\ mCnntStatus[d] = "Connected"
      BY <1>0, <1>4, <2>4 DEF ObjectsOK, StatusInv, Active, Threads
    <3> QED
      BY <2>3, <3>1
  <2>5. CASE remote[i].thread = "discovering" /\ links[remote[i].handle] = NoDevice
    <3>1. i \in Elements(mConnectedDevice)
      BY <1>0, <2>5 DEF ObjectsOK, Active, Threads
    <3>2. remote[i].handle = remote[i].link
      BY <1>0, <2>5, <3>1, Running
    <3> QED
      BY <2>3, <2>5, <3>1, <3>2, ConnectionAssumption
  <2>6. CASE remote[i].thread = "stopped"
    BY <1>0, <1>1, <1>2, <2>6 DEF PlaceInv, LinkInv
  <2> QED
    BY <2>1, <2>2, <2>4, <2>5, <2>6
<1> QED
  BY <1>3, <1>4 DEF NoneOf

\* With careful clients, once nothing is under way the status a client reads is what the
\* radio says, and mIsConnecting is up exactly while the dongle connects or the event that
\* says it has is still to come.
THEOREM StatusReadTrue == Spec => []StatusTrue
<1> DEFINE Inv == DataOK /\ ObjectsOK /\ SetsOK /\ ReuseInv /\ CancelInv /\ (Careful => CareInv)
<1>1. Init => Inv
  BY DataInit, ObjectsInit, SetsInit, DistinctInit, CancelInit, CareInit DEF ReuseInv
<1>2. Inv /\ [Next]_vars => Inv'
  <2> SUFFICES ASSUME Inv, [Next]_vars PROVE Inv'
    OBVIOUS
  <2>1. DataOK' /\ ObjectsOK' /\ SetsOK' /\ ReuseInv' /\ CancelInv'
    BY DataStep, ObjectsStep, SetsStep, ReuseStep, CancelStep
  <2>2. ASSUME Careful' PROVE CareInv'
    BY <2>2, CareStep
  <2> QED
    BY <2>1, <2>2
<1>3. Inv => StatusTrue
  <2> SUFFICES ASSUME Inv, Careful
               PROVE  /\ Quiet => \A d \in Devices :
                            mCnntStatus[d] = CASE \E h \in Handles : links[h] = d -> "Connected"
                                               [] pending = d -> "Connecting"
                                               [] OTHER -> "Disconnected"
                      /\ mIsConnecting <=> \/ pending # NoDevice
                                           \/ \E k \in 1..Len(events) : events[k].kind = "up"
    BY DEF StatusTrue
  <2>0. CareState
    BY DEF CareState, ReuseInv, CancelInv, Careful
  <2>1. ASSUME Quiet, NEW d \in Devices
        PROVE  mCnntStatus[d] = CASE \E h \in Handles : links[h] = d -> "Connected"
                                  [] pending = d -> "Connecting"
                                  [] OTHER -> "Disconnected"
    <3>1. \/ /\ \E h \in Handles : links[h] = d
             /\ pending # d /\ mCnntStatus[d] = "Connected"
          \/ /\ \A h \in Handles : links[h] # d
             /\ pending = d /\ mCnntStatus[d] = "Connecting"
          \/ /\ \A h \in Handles : links[h] # d
             /\ pending # d /\ mCnntStatus[d] = "Disconnected"
      BY <2>0, <2>1, QuietStatus
    <3>2. CASE \E h \in Handles : links[h] = d
      BY <3>1, <3>2
    <3>3. CASE (\A h \in Handles : links[h] # d) /\ pending = d
      BY <3>1, <3>3
    <3>4. CASE (\A h \in Handles : links[h] # d) /\ pending # d
      BY <3>1, <3>4
    <3> QED
      BY <3>2, <3>3, <3>4
  <2>2. /\ DataOK /\ ObjectsOK /\ Distinct /\ OneAttempt /\ AllKnown /\ WaitInv
    BY <2>0 DEF CareState, CareInv
  <2>3. mIsConnecting => \/ pending # NoDevice
                         \/ \E k \in 1..Len(events) : events[k].kind = "up"
    BY <2>2 DEF WaitInv, UpOf
  <2>4. ASSUME NEW k \in 1..Len(events), events[k].kind = "up"
        PROVE  mIsConnecting
    <3>1. UpOf(events[k].handle, events[k].addr)
      BY <2>4 DEF UpOf
    <3> QED
      BY <2>2, <3>1, LinkFacts
  <2>5. pending # NoDevice => mIsConnecting
    BY <2>2, LinkFacts
  <2> QED
    BY <2>1, <2>3, <2>4, <2>5
<1> QED
  BY <1>1, <1>2, <1>3, PTL DEF Spec
=============================================================================
