--------------------------- MODULE GattDiscovery ---------------------------
(***************************************************************************)
(* What the thread of a GF_CRemoteDevice does from the new connection to   *)
(* the CONNECTED state: security, the MTU exchange, the walk over the      *)
(* armband's services, characteristics and descriptors, and the reading or *)
(* writing of every descriptor.  Each answer of the armband is a message   *)
(* that the handler of the current state takes; it asks for the next thing *)
(* with one request.  Services that were discovered are saved in the       *)
(* device's file (Database) and loaded on the next connection, also by the *)
(* next run of the program when this one ended in the middle of it.        *)
(*                                                                         *)
(* Handles and UUIDs are positions in the armband's layout: a service is   *)
(* "empty" if its handle range is (start >= end), a characteristic has     *)
(* "room" if handles lie between its value and what comes next.  No        *)
(* service of a layout includes another one.  The state W4CONN is never    *)
(* entered by the code.  Messages that change nothing in any state         *)
(* (security requests, connection parameters) are left out.                *)
(***************************************************************************)
EXTENDS Database, FiniteSets

CONSTANTS Devices,
          Layouts,        \* what may be in range: each armband's services
          MaxConnects,    \* bound: connections
          MaxLosses,      \* bound: links lost and ends of the program
          MaxRefusals     \* bound: errors instead of an answer that was possible

Request(op, s, c, k) == [op |-> op, svc |-> s, chr |-> c, des |-> k]
None  == Request("none", 0, 0, 0)
Blobs == 2                      \* parts of a long value

Characteristic == [readable : BOOLEAN, long : BOOLEAN, room : BOOLEAN,
                   descs : Seq({"ccc", "other"})]
Service == [empty : BOOLEAN, chars : Seq(Characteristic)]

ASSUME DiscoveryAssumption ==
    /\ \A f \in Layouts : DOMAIN f \subseteq Devices
    /\ \A L \in UNION {Range(f) : f \in Layouts} :
          /\ L \in Seq(Service) /\ L # <<>> /\ ~L[1].empty
          /\ \A s \in DOMAIN L : L[s].empty => L[s].chars = <<>>
          /\ \A s \in DOMAIN L : \A c \in DOMAIN L[s].chars :
                L[s].chars[c].descs # <<>> => L[s].chars[c].room
    /\ {MaxConnects, MaxLosses, MaxRefusals} \subseteq Nat

VARIABLES layout,         \* the services of each armband in range (external)
          rd,             \* the GF_CRemoteDevice of each device
          mMessage,       \* its messages, oldest first
          link,           \* "up", "closing" once disconnected, "down"
          database,       \* the file of each device
          Temp_Buffer,    \* parts of a long value, by owner; one for all devices
          value,          \* the last long value each device assembled
          asked,          \* history: what the walk of this connection asked for
          refused,        \* history: the armband gave an answer that ends the walk
          overlap,        \* history: two devices read a long value at once
          budget

history == <<asked, refused, overlap>>
discoveryVars == <<layout, rd, mMessage, link, database, Temp_Buffer, value, history, budget>>

\* A new GF_CRemoteDevice: svc and chr are mCurrentPriService and that
\* service's mCurrentCharateristic, at the descriptor being configured;
\* mService[s][c] lists the descriptors found so far.
Fresh == [mState |-> "IDLE", mService |-> <<>>, svc |-> 1, chr |-> 1,
          at |-> <<1, 1, 1>>, mNeedSaveService |-> TRUE, request |-> None]

DiscoveryInit ==
    /\ layout \in Layouts
    /\ rd = [d \in Devices |-> Fresh]
    /\ mMessage = [d \in Devices |-> <<>>]
    /\ link = [d \in Devices |-> "down"]
    /\ database \in {[d \in Devices |-> file] : file \in {<<>>, <<LinkKey>>}}
    /\ Temp_Buffer = <<>>
    /\ value = [d \in Devices |-> <<>>]
    /\ asked = [d \in Devices |-> <<>>]
    /\ refused = [d \in Devices |-> FALSE]
    /\ overlap = FALSE
    /\ budget = [connect |-> MaxConnects, loss |-> MaxLosses, refusal |-> MaxRefusals]
-----------------------------------------------------------------------------
\* The helpers return the RemoteDevice r of d after what they do.
Ask(r, state, op, s, c, k) ==
    [r EXCEPT !.mState = state, !.request = Request(op, s, c, k)]

\* Positions of descriptors and the order in which they are configured.
Positions(services) ==
    UNION {UNION {{<<s, c, k>> : k \in DOMAIN services[s][c]}
                     : c \in DOMAIN services[s]} : s \in DOMAIN services}
Before(p, q) ==
    \/ p[1] < q[1]
    \/ p[1] = q[1] /\ p[2] < q[2]
    \/ p[1] = q[1] /\ p[2] = q[2] /\ p[3] < q[3]

\* A client characteristic configuration is written, anything else is read.
ToConfigure(services, p) ==
    IF services[p[1]][p[2]][p[3]] = "ccc" THEN "write" ELSE "read"

\* ProcessCharacteristicConfiguration: the first descriptor not before p.
Unconfigured(r, p) == {q \in Positions(r.mService) : ~Before(q, p)}
Configure(r, p) ==
    IF Unconfigured(r, p) = {} THEN r
    ELSE LET q  == CHOOSE q \in Unconfigured(r, p) :
                       \A o \in Unconfigured(r, p) : ~Before(o, q)
         IN  Ask([r EXCEPT !.at = q], r.mState, ToConfigure(r.mService, q), q[1], q[2], q[3])

\* Its result is not looked at when the configuration starts.
StartConfiguration(r) ==
    [Configure(r, <<1, 1, 1>>) EXCEPT !.mState = "GATT_READ_CHARC_DESCRIPTOR_VALUE"]

\* Mutant: the next service is taken whether or not its range is empty.
NextOfAll(d, r) == {s \in r.svc + 1 .. Len(r.mService) : TRUE}

\* GetNextAvailablePriSvc
NextServices(d, r) ==
    {s \in r.svc + 1 .. Len(r.mService) : ~layout[d][s].empty}
NextAvailable(d, r) == Least(NextServices(d, r))

NextService(d, r) ==
    IF NextServices(d, r) = {} THEN StartConfiguration(r)
    ELSE Ask([r EXCEPT !.svc = NextAvailable(d, r)], "GATT_INC_SVC", "included",
             NextAvailable(d, r), 0, 0)

\* Room for descriptors; behind the last characteristic it goes to 0xFFFF.
HasRoom(d, r, c) ==
    \/ r.svc = Len(r.mService) /\ c = Len(r.mService[r.svc])
    \/ layout[d][r.svc].chars[c].room
Readable(d, r, c) == layout[d][r.svc].chars[c].readable

\* NextCharacterateristic: from c on, the first characteristic that has a
\* value to read or room for descriptors, else the next service.
Visit(d, r, from) ==
    LET stops == {c \in from .. Len(r.mService[r.svc]) :
                     Readable(d, r, c) \/ HasRoom(d, r, c)}
        c     == Least(stops)
    IN  IF stops = {} THEN NextService(d, r)
        ELSE Ask([r EXCEPT !.chr = c], "GATT_READ_CHARC_VALUE",
                 IF Readable(d, r, c) THEN "value" ELSE "descriptors", r.svc, c, 0)

DiscoveryDescriptor(d, r) ==
    IF HasRoom(d, r, r.chr)
      THEN Ask(r, "GATT_READ_CHARC_VALUE", "descriptors", r.svc, r.chr, 0)
      ELSE Visit(d, r, r.chr + 1)

StartDiscoveryCharacteristic(r) == Ask(r, "GATT_DIS_CHARC", "characteristics", r.svc, 0, 0)
-----------------------------------------------------------------------------
\* The device's thread takes its next message in one of the states and goes on
\* as `new`; a request is at most one.
Take(d, states, messages, new) ==
    /\ link[d] # "down"
    /\ mMessage[d] # <<>>
    /\ rd[d].mState \in states
    /\ Head(mMessage[d]) \in messages
    /\ mMessage' = [mMessage EXCEPT ![d] = Tail(@)]
    /\ rd' = [rd EXCEPT ![d] = new]
    /\ asked' = IF new.request.op \in {"none", "auth", "bond", "long"} THEN asked
                ELSE [asked EXCEPT ![d] = Append(@, new.request)]
    /\ UNCHANGED <<layout, refused, budget>>

files   == <<database>>
buffers == <<Temp_Buffer, value, overlap>>
Disconnect(d) == link' = [link EXCEPT ![d] = "closing"]

\* OnDeviceConnected: bonds with a stored key, authenticates without.
OnDeviceConnected(d) ==
    /\ Take(d, {"IDLE"}, {"connected"},
            Ask(rd[d], "W4SECU", IF LoadsLinkKey(database[d]) THEN "bond" ELSE "auth",
                0, 0, 0))
    /\ UNCHANGED <<link, files, buffers>>

\* AuthenticationComplete
Authenticated(d) ==
    /\ Take(d, {"W4SECU"}, {"authOk"}, Ask(rd[d], "W4SECU", "bond", 0, 0, 0))
    /\ UNCHANGED <<link, files, buffers>>

AuthenticationNotSupported(d) ==
    /\ Take(d, {"W4SECU"}, {"authUnsupported"}, Ask(rd[d], "GATT_PRI_SVC", "mtu", 0, 0, 0))
    /\ UNCHANGED <<link, files, buffers>>

\* Without a key, or after an error, the link is dropped; a debug build stops
\* at the assertion on the error instead.
AuthenticationFailed(d) ==
    \/ /\ Take(d, {"W4SECU"}, {"authNoKey", "authError"}, rd[d])
       /\ Disconnect(d)
       /\ UNCHANGED <<files, buffers>>
    \/ /\ Take(d, {"W4SECU"}, {"authError"}, [rd[d] EXCEPT !.mState = "aborted"])
       /\ UNCHANGED <<link, files, buffers>>

\* BondComplete; any other status is logged and nothing follows.
Bonded(d) ==
    /\ Take(d, {"W4SECU"}, {"bondOk"}, Ask(rd[d], "GATT_PRI_SVC", "mtu", 0, 0, 0))
    /\ UNCHANGED <<link, files, buffers>>

WithoutKey(file)      == DeleteNode(file, "SecurityInfomation")
WithoutServices(file) == DeleteNode(file, "GATTService")

BondKeyMissing(d) ==
    /\ Take(d, {"W4SECU"}, {"bondKeyMissing"}, [rd[d] EXCEPT !.mNeedSaveService = TRUE])
    /\ Disconnect(d)
    /\ database' = [database EXCEPT ![d] = WithoutServices(WithoutKey(@))]
    /\ UNCHANGED buffers

\* The MTU reply: configure the services in the file, or discover them.
MTUExchanged(d) ==
    /\ Take(d, {"GATT_PRI_SVC"}, {"mtu"},
            IF LoadsService(database[d])
              THEN [StartConfiguration([rd[d] EXCEPT !.mService = LoadService(database[d])])
                       EXCEPT !.mNeedSaveService = FALSE]
              ELSE Ask(rd[d], "GATT_PRI_SVC", "primary", 0, 0, 0))
    /\ UNCHANGED <<link, files, buffers>>

ServiceFound(d) ==
    /\ Take(d, {"GATT_PRI_SVC"}, {"group"},
            [rd[d] EXCEPT !.mService = Append(@, <<>>)])
    /\ UNCHANGED <<link, files, buffers>>

ServicesComplete(d) ==
    /\ Take(d, {"GATT_PRI_SVC"}, {"groupDone"},
            Ask(rd[d], "GATT_INC_SVC", "included", rd[d].svc, 0, 0))
    /\ UNCHANGED <<link, files, buffers>>

IncludedComplete(d) ==
    /\ Take(d, {"GATT_INC_SVC"}, {"notFound", "typeDone"},
            StartDiscoveryCharacteristic(rd[d]))
    /\ UNCHANGED <<link, files, buffers>>

CharacteristicFound(d) ==
    /\ Take(d, {"GATT_DIS_CHARC"}, {"type"},
            [rd[d] EXCEPT !.mService[rd[d].svc] = Append(@, <<>>)])
    /\ UNCHANGED <<link, files, buffers>>

\* A service without characteristics is left as it is: nothing follows.
CharacteristicsComplete(d) ==
    /\ Take(d, {"GATT_DIS_CHARC"}, {"typeDone"},
            IF rd[d].mService[rd[d].svc] = <<>> THEN rd[d] ELSE Visit(d, rd[d], 1))
    /\ UNCHANGED <<link, files, buffers>>

\* Mutant: GetNextAvailablePriSvc goes past the last service.
PastLastService(d) ==
    /\ NextServices(d, rd[d]) = {}
    /\ Take(d, {"GATT_DIS_CHARC"}, {"notFound"}, [rd[d] EXCEPT !.svc = @ + 1])
    /\ UNCHANGED <<link, files, buffers>>

\* Nor is the next one reached from the error that says so: the successful
\* request is taken for a failed one.  A debug build stops at the assertion, a
\* release build stays in its state with the request made.
NoCharacteristicFound(d) ==
    /\ \/ /\ NextServices(d, rd[d]) = {}
          /\ Take(d, {"GATT_DIS_CHARC"}, {"notFound"},
                  [rd[d] EXCEPT !.svc = Len(rd[d].mService)])
       \/ /\ NextServices(d, rd[d]) # {}
          /\ \E state \in {"GATT_DIS_CHARC", "aborted"} :
                Take(d, {"GATT_DIS_CHARC"}, {"notFound"},
                     Ask([rd[d] EXCEPT !.svc = NextAvailable(d, rd[d])], state,
                         "included", NextAvailable(d, rd[d]), 0, 0))
    /\ UNCHANGED <<link, files, buffers>>

\* A value that was read, or that could not be, is followed by the descriptors.
ValueRead(d) ==
    /\ Take(d, {"GATT_READ_CHARC_VALUE"}, {"read", "error", "notFound"},
            DiscoveryDescriptor(d, rd[d]))
    /\ UNCHANGED <<link, files, buffers>>

LongUnderWay(d) ==
    rd[d].request.op = "long" \/ \E i \in DOMAIN mMessage[d] :
                                    mMessage[d][i] \in {"blob", "blobDone"}

\* A value of 22 bytes or more is read again in parts, into the one buffer.
LongValueAnnounced(d) ==
    /\ Take(d, {"GATT_READ_CHARC_VALUE"}, {"readLong"},
            Ask(rd[d], "GATT_READ_CHARC_VALUE", "long", rd[d].svc, rd[d].chr, 0))
    /\ Temp_Buffer' = <<>>
    /\ overlap' = (overlap \/ \E e \in Devices \ {d} : LongUnderWay(e))
    /\ UNCHANGED <<link, files, value>>

PartRead(d) ==
    /\ Take(d, {"GATT_READ_CHARC_VALUE"}, {"blob"}, rd[d])
    /\ Temp_Buffer' = Append(Temp_Buffer, d)
    /\ UNCHANGED <<link, files, value, overlap>>

\* Mutant: nothing follows a long value.
LongValueEnds(d) ==
    /\ Take(d, {"GATT_READ_CHARC_VALUE"}, {"blobDone"}, rd[d])
    /\ value' = [value EXCEPT ![d] = Temp_Buffer]
    /\ UNCHANGED <<link, files, Temp_Buffer, overlap>>

LongValueRead(d) ==
    /\ Take(d, {"GATT_READ_CHARC_VALUE"}, {"blobDone"}, DiscoveryDescriptor(d, rd[d]))
    /\ value' = [value EXCEPT ![d] = Temp_Buffer]
    /\ UNCHANGED <<link, files, Temp_Buffer, overlap>>

\* Mutant: only one descriptor is kept.
LastDescriptorOnly(d) ==
    /\ Take(d, {"GATT_READ_CHARC_VALUE"}, {"info"},
            LET r == rd[d]
            IN  [r EXCEPT !.mService[r.svc][r.chr] = <<"ccc">>])
    /\ UNCHANGED <<link, files, buffers>>

DescriptorFound(d) ==
    /\ Take(d, {"GATT_READ_CHARC_VALUE"}, {"info"},
            LET r == rd[d]
                known == r.mService[r.svc][r.chr]
            IN  [r EXCEPT !.mService[r.svc][r.chr] =
                     Append(known, layout[d][r.svc].chars[r.chr].descs[Len(known) + 1])])
    /\ UNCHANGED <<link, files, buffers>>

DescriptorsComplete(d) ==
    /\ Take(d, {"GATT_READ_CHARC_VALUE"}, {"infoDone"}, Visit(d, rd[d], rd[d].chr + 1))
    /\ UNCHANGED <<link, files, buffers>>

NextPosition(r) == <<r.at[1], r.at[2], r.at[3] + 1>>
LastPosition(r) == Unconfigured(r, NextPosition(r)) = {}

\* mProperty of what was discovered.
ReadableOf(d) ==
    [s \in DOMAIN layout[d] |->
        [c \in DOMAIN layout[d][s].chars |-> layout[d][s].chars[c].readable]]
WithServices(d, file) == SaveService(file, rd[d].mService, ReadableOf(d))

\* The next descriptor, or the end of discovery: the services are saved and
\* the hub is told (in Connection).
Configured(d) ==
    /\ LET r == rd[d]
       IN  /\ Take(d, {"GATT_READ_CHARC_DESCRIPTOR_VALUE"}, {"read", "write"},
                   IF LastPosition(r) THEN [r EXCEPT !.mState = "CONNECTED"]
                   ELSE Configure(r, NextPosition(r)))
           /\ database' = IF LastPosition(r) /\ r.mNeedSaveService
                            THEN [database EXCEPT ![d] = WithServices(d, @)] ELSE database
    /\ UNCHANGED <<link, buffers>>

\* No handler looks at these: the walk stays where it is.
Ignored(d) ==
    /\ \/ Take(d, {"W4SECU"}, {"bondError"}, rd[d])
       \/ Take(d, {"GATT_PRI_SVC", "GATT_INC_SVC", "GATT_DIS_CHARC",
                   "GATT_READ_CHARC_DESCRIPTOR_VALUE"}, {"error"}, rd[d])
    /\ UNCHANGED <<link, files, buffers>>

DeviceStep(d) ==
    \/ OnDeviceConnected(d) \/ Authenticated(d) \/ AuthenticationNotSupported(d)
    \/ AuthenticationFailed(d) \/ Bonded(d) \/ BondKeyMissing(d)
    \/ MTUExchanged(d) \/ ServiceFound(d) \/ ServicesComplete(d)
    \/ IncludedComplete(d) \/ CharacteristicFound(d) \/ CharacteristicsComplete(d)
    \/ NoCharacteristicFound(d) \/ ValueRead(d) \/ LongValueAnnounced(d)
    \/ PartRead(d) \/ LongValueRead(d) \/ DescriptorFound(d)
    \/ DescriptorsComplete(d) \/ Configured(d) \/ Ignored(d)
-----------------------------------------------------------------------------
\* External: the armband answers the request, in as many messages as it takes.
Times(n, message) == [i \in 1..n |-> message]
Listed(n, item, last) == Times(n, item) \o <<last>>

Answers(d) ==
    LET q == rd[d].request
        L == layout[d]
    IN  CASE q.op = "auth" -> {<<"authOk">>, <<"authUnsupported">>, <<"authNoKey">>}
          [] q.op = "bond" -> {<<"bondOk">>, <<"bondKeyMissing">>}
          [] q.op = "mtu" -> {<<"mtu">>}
          [] q.op = "primary" -> {Listed(Len(L), "group", "groupDone")}
          [] q.op = "included" -> {<<"notFound">>, <<"typeDone">>}
          [] q.op = "characteristics" ->
                IF L[q.svc].chars = <<>> THEN {}
                ELSE {Listed(Len(L[q.svc].chars), "type", "typeDone")}
          [] q.op = "value" ->
                {<<IF L[q.svc].chars[q.chr].long THEN "readLong" ELSE "read">>}
          [] q.op = "long" -> {Listed(Blobs, "blob", "blobDone")}
          [] q.op = "descriptors" ->
                {Listed(Len(L[q.svc].chars[q.chr].descs), "info", "infoDone")}
          [] q.op \in {"read", "write"} -> {<<q.op>>}
          [] OTHER -> {}

\* The answers that do not lead on, and the errors instead of a value.
Refusals(d) ==
    LET q == rd[d].request
        L == layout[d]
    IN  CASE q.op = "auth" -> {<<"authError">>}
          [] q.op = "bond" -> {<<"bondError">>}
          [] q.op = "characteristics" /\ L[q.svc].chars = <<>> ->
                {<<"notFound">>, <<"typeDone">>}
          [] q.op = "descriptors" /\ L[q.svc].chars[q.chr].descs = <<>> ->
                {<<"notFound">>}
          [] q.op = "none" -> {}
          [] OTHER -> {<<"error">>}

Reply(d, a) ==
    /\ link[d] # "down"
    /\ mMessage' = [mMessage EXCEPT ![d] = @ \o a]
    /\ rd' = [rd EXCEPT ![d].request = None]
    /\ UNCHANGED <<layout, link, files, buffers, asked>>

Answer(d) == \E a \in Answers(d) : Reply(d, a) /\ UNCHANGED <<refused, budget>>

Refuse(d) ==
    \E a \in Refusals(d) :
       /\ Reply(d, a)
       /\ refused' = [refused EXCEPT ![d] = @ \/ rd[d].request.op \notin {"value", "long"}]
       /\ IF Answers(d) = {} THEN UNCHANGED budget
          ELSE budget.refusal > 0 /\ budget' = [budget EXCEPT !.refusal = @ - 1]

\* The AdapterManager makes a RemoteDevice and hands it the connected event.
LinkUp(d) ==
    /\ d \in DOMAIN layout
    /\ link[d] = "down"
    /\ budget.connect > 0
    /\ link' = [link EXCEPT ![d] = "up"]
    /\ rd' = [rd EXCEPT ![d] = Fresh]
    /\ mMessage' = [mMessage EXCEPT ![d] = <<"connected">>]
    /\ asked' = [asked EXCEPT ![d] = <<>>]
    /\ refused' = [refused EXCEPT ![d] = FALSE]
    /\ budget' = [budget EXCEPT !.connect = @ - 1]
    /\ UNCHANGED <<layout, files, buffers>>

\* The link goes, because it was dropped or lost: DeInit.
LinkDown(d) ==
    /\ \/ link[d] = "closing" /\ UNCHANGED budget
       \/ /\ link[d] = "up" /\ budget.loss > 0
          /\ budget' = [budget EXCEPT !.loss = @ - 1]
    /\ link' = [link EXCEPT ![d] = "down"]
    /\ rd' = [rd EXCEPT ![d].mState = "IDLE", ![d].request = None]
    /\ mMessage' = [mMessage EXCEPT ![d] = <<>>]
    /\ UNCHANGED <<layout, files, buffers, asked, refused>>

\* The documents that the handler of d's next message saves.
Saved(d) ==
    IF link[d] = "down" \/ mMessage[d] = <<>> THEN {}
    ELSE CASE rd[d].mState = "W4SECU" /\ Head(mMessage[d]) = "bondKeyMissing" ->
                {WithoutKey(database[d]), WithoutServices(WithoutKey(database[d]))}
                    \ {database[d]}
           [] /\ rd[d].mState = "GATT_READ_CHARC_DESCRIPTOR_VALUE"
              /\ Head(mMessage[d]) \in {"read", "write"}
              /\ LastPosition(rd[d]) /\ rd[d].mNeedSaveService ->
                {WithServices(d, database[d])}
           [] OTHER -> {}

LeftBehind(d) == {database[d]} \cup UNION {Interrupted(file) : file \in Saved(d)}

\* The program ends, between two messages or while a file is written, and is
\* started again.
Crash ==
    /\ budget.loss > 0
    /\ \E left \in [Devices -> UNION {LeftBehind(d) : d \in Devices}] :
          /\ \A d \in Devices : left[d] \in LeftBehind(d)
          /\ database' = left
    /\ rd' = [d \in Devices |-> Fresh]
    /\ mMessage' = [d \in Devices |-> <<>>]
    /\ link' = [d \in Devices |-> "down"]
    /\ Temp_Buffer' = <<>>
    /\ value' = [d \in Devices |-> <<>>]
    /\ asked' = [d \in Devices |-> <<>>]
    /\ refused' = [d \in Devices |-> FALSE]
    /\ overlap' = FALSE
    /\ budget' = [budget EXCEPT !.loss = @ - 1]
    /\ UNCHANGED layout

\* An assertion that fails ends the program.
Aborted == \E d \in Devices : rd[d].mState = "aborted"

DiscoveryNext ==
    /\ ~Aborted
    /\ \/ \E d \in Devices : DeviceStep(d) \/ Answer(d) \/ Refuse(d)
                             \/ LinkUp(d) \/ LinkDown(d)
       \/ Crash
DiscoverySpec == DiscoveryInit /\ [][DiscoveryNext]_discoveryVars

\* Threads run, the armband answers a request, a dropped link ends.
DiscoveryFairness ==
    \A d \in Devices : /\ WF_discoveryVars(DeviceStep(d))
                       /\ WF_discoveryVars(Answer(d) \/ Refuse(d))
                       /\ WF_discoveryVars(link[d] = "closing" /\ LinkDown(d))
DiscoveryFairSpec == DiscoverySpec /\ DiscoveryFairness
-----------------------------------------------------------------------------
\* What the services of a layout look like once they are all known.
Known(L) == [s \in DOMAIN L |-> [c \in DOMAIN L[s].chars |-> L[s].chars[c].descs]]

\* The requests the head of GattClient.cpp announces for a layout: every
\* service, with its included services and its characteristics, every
\* characteristic with its value and descriptors; then every descriptor.
OfService(L, s) ==
    LET last == IF s = Len(L) THEN {Len(L[s].chars)} ELSE {}
    IN  {Request("included", s, 0, 0), Request("characteristics", s, 0, 0)} \cup
        {Request("value", s, c, 0) : c \in {k \in DOMAIN L[s].chars : L[s].chars[k].readable}} \cup
        {Request("descriptors", s, c, 0) :
            c \in {k \in DOMAIN L[s].chars : L[s].chars[k].room \/ k \in last}}

Documented(L, loaded) ==
    {Request("mtu", 0, 0, 0)} \cup
    (IF loaded THEN {}
     ELSE {Request("primary", 0, 0, 0)} \cup
          UNION {OfService(L, s) : s \in {t \in DOMAIN L : ~L[t].empty}}) \cup
    {Request(ToConfigure(Known(L), p), p[1], p[2], p[3]) : p \in Positions(Known(L))}

\* The order in which they are made.
Phase(q) == CASE q.op = "mtu" -> 1
              [] q.op = "primary" -> 2
              [] q.op \in {"read", "write"} -> 4
              [] OTHER -> 3
Position(q) == <<q.svc, q.chr, IF q.op \in {"characteristics", "descriptors"} THEN 1 ELSE q.des>>
Earlier(q, o) ==
    Phase(q) < Phase(o) \/ (Phase(q) = Phase(o) /\ Before(Position(q), Position(o)))

States == {"IDLE", "W4SECU", "GATT_PRI_SVC", "GATT_INC_SVC", "GATT_DIS_CHARC",
           "GATT_READ_CHARC_VALUE", "GATT_READ_CHARC_DESCRIPTOR_VALUE",
           "CONNECTED", "aborted"}
Requests == [op : {"none", "auth", "bond", "mtu", "primary", "included",
                   "characteristics", "value", "long", "descriptors", "read", "write"},
             svc : Nat, chr : Nat, des : Nat]
Messages == {"connected", "authOk", "authUnsupported", "authNoKey", "authError",
             "bondOk", "bondKeyMissing", "bondError", "mtu", "group", "groupDone",
             "notFound", "type", "typeDone", "read", "readLong", "blob", "blobDone",
             "info", "infoDone", "write", "error"}
Services == Seq(Seq(Seq({"ccc", "other"})))

DiscoveryTypeOK ==
    /\ layout \in Layouts
    /\ rd \in [Devices -> [mState : States, mService : Services, svc : Nat, chr : Nat,
                           at : Nat \X Nat \X Nat, mNeedSaveService : BOOLEAN,
                           request : Requests]]
    /\ \A d \in Devices : rd[d].svc = 1 \/ rd[d].svc \in DOMAIN rd[d].mService
    /\ mMessage \in [Devices -> Seq(Messages)]
    /\ link \in [Devices -> {"up", "closing", "down"}]
    /\ \A d \in Devices : \A e \in Range(database[d]) :
          e.name \in {"SecurityInfomation", "GATTService", "torn"}
    /\ Temp_Buffer \in Seq(Devices)
    /\ value \in [Devices -> Seq(Devices)]
    /\ asked \in [Devices -> Seq(Requests)]
    /\ refused \in [Devices -> BOOLEAN]
    /\ overlap \in BOOLEAN
    /\ budget \in [connect : Nat, loss : Nat, refusal : Nat]

\* As long as the armband does not refuse, the walk makes exactly the announced
\* requests in the announced order, and is CONNECTED only when it made them all:
\* no service, characteristic or descriptor is skipped or visited twice by the
\* three places that move the cursors, and no assertion fails.  And whatever the
\* armband answers, nothing of an earlier request is left to be taken while one
\* is open: the handlers take any message for the answer to their last one.
WalkInOrder ==
    \A d \in DOMAIN layout :
        /\ rd[d].request # None => mMessage[d] = <<>>
        /\ ~refused[d] =>
             LET all  == Documented(layout[d], ~rd[d].mNeedSaveService)
                 made == Range(asked[d])
             IN  /\ made \subseteq all
                 /\ \A i, j \in DOMAIN asked[d] :
                       i < j => Earlier(asked[d][i], asked[d][j])
                 /\ \A q \in made, o \in all : Earlier(o, q) => o \in made
                 /\ rd[d].mState = "CONNECTED" => made = all
                 /\ rd[d].mState # "aborted"

\* Whatever was refused, and wherever the program ended, even while it wrote the
\* file: services that a later connection loads are all the armband has, for it
\* trusts them without a check.  Nor, unless two devices read long values at
\* once, has a long value parts of another's or too few of its own (Temp_Buffer
\* and Total are shared by every thread).
SavedIsComplete ==
    \A d \in DOMAIN layout :
        /\ LoadsService(database[d]) => LoadService(database[d]) = Known(layout[d])
        /\ ~overlap /\ value[d] # <<>> => value[d] = Times(Blobs, d)

\* A connection leads to CONNECTED or ends, unless the armband refuses or has
\* no descriptor at all (then no request starts the configuration).
Bare(d) == d \in DOMAIN layout /\ Positions(Known(layout[d])) = {}

DiscoveryEnds ==
    \A d \in Devices :
        rd[d].mState = "W4SECU" ~>
            \/ rd[d].mState \in {"CONNECTED", "IDLE"}
            \/ refused[d] \/ Aborted \/ Bare(d)
=============================================================================
