---------------------------- MODULE NpiCommands -----------------------------
(***************************************************************************)
(* The commands NPI_CMD can build for the dongle.  What the bytes mean is  *)
(* left out; what is kept is what decides whether a command survives the   *)
(* way to the serial port: how many data bytes its function allocates, how *)
(* many it announces in cmd->len and how many it fills in.                 *)
(***************************************************************************)
EXTENDS Naturals, Integers

CMD_HEAD_LEN == 4            \* type, two bytes of opcode, len

\* A builder is described by the data bytes it allocates, announces and fills,
\* and by which of the three grow with the payload its caller hands in.
Fixed(n)    == [alloc |-> n, len |-> n, fill |-> n, grows |-> {}]
WithData(n) == [alloc |-> n, len |-> n, fill |-> n, grows |-> {"alloc", "len", "fill"}]

\* The vendor commands for the radio and its test modes.
HciExtRadio ==
    [HciExt_SetRxGain |-> Fixed(1),  HciExt_SetTxPower |-> Fixed(1),
     HciExt_ClkDivOnHalt |-> Fixed(1), HciExt_DecNvUsage |-> Fixed(1),
     HciExt_Decrypt |-> Fixed(32),   HciExt_SetLocalFeatures |-> Fixed(8),
     HciExt_SetFastTxRespTime |-> Fixed(1), HciExt_ModemTestTx |-> Fixed(2),
     HciExt_ModemHopTestTx |-> Fixed(0), HciExt_ModemTestRx |-> Fixed(1),
     HciExt_EndModemTest |-> Fixed(0)]

\* The vendor commands for the controller's settings.
HciExtSettings ==
    [HciExt_SetBdAddr |-> Fixed(6),  HciExt_SetSCA |-> Fixed(2),
     HciExt_SetFreqTune |-> Fixed(1), HciExt_SaveFreqTune |-> Fixed(0),
     HCIExt_SetMaxDtmTxPower |-> Fixed(1), HCIExt_MapPmIoPort |-> Fixed(2),
     HCIExt_DisconnectImmed |-> Fixed(2), HCIExt_PER |-> Fixed(3),
     HCIExt_ExtendRfRange |-> Fixed(0), HCIExt_HaltDuringRf |-> Fixed(1),
     HCIExt_OverrideSL |-> Fixed(1)]

\* The last vendor commands and L2CAP signalling.  NumComplPktsLimit fills one
\* byte more than it has.
ExtAndL2cap ==
    [HCIExt_BuildRevision |-> Fixed(3), HCIExt_DelaySleep |-> Fixed(2),
     HCIExt_ResetSystem |-> Fixed(1), HCIExt_OverlappedProcessing |-> Fixed(1),
     HCIExt_NumComplPktsLimit |-> [Fixed(1) EXCEPT !.fill = 2],
     L2CAP_DisconnectReq |-> Fixed(2), L2CAP_InfoReq |-> Fixed(4),
     L2CAP_ConnParamUpdateReq |-> Fixed(10), L2CAP_ConnectReq |-> Fixed(6),
     L2CAP_FlowCtrlCredit |-> Fixed(4)]

\* L2CAP channels and the first attribute requests.
L2capAndAtt ==
    [L2CAP_Data |-> WithData(2),     L2CAP_RegisterPsm |-> Fixed(10),
     L2CAP_DeregisterPsm |-> Fixed(2), L2CAP_PsmChannels |-> Fixed(2),
     ATT_ExchangeMTUReq |-> Fixed(4), ATT_FindInfoReq |-> Fixed(6),
     ATT_FindByTypeValueReq |-> WithData(8), ATT_ReadByTypeReq |-> WithData(6)]

\* The other attribute requests.
AttRequests ==
    [ATT_ReadReq |-> Fixed(4),       ATT_ReadBlobReq |-> Fixed(6),
     ATT_ReadMultiReq |-> WithData(2), ATT_ReadByGroupTypeReq |-> WithData(6),
     ATT_WriteReq |-> WithData(6),   ATT_PrepareWriteReq |-> WithData(6),
     ATT_ExecuteWriteReq |-> Fixed(3), GATT_ExchangeMTU |-> Fixed(4)]

\* GATT discovery and the first reads.
GattDiscoveries ==
    [GATT_DiscAllPrimaryServices |-> Fixed(2),
     GATT_DiscPrimaryServiceByUUID |-> WithData(2),
     GATT_FindIncludedServices |-> Fixed(6), GATT_DiscAllChar |-> Fixed(6),
     GATT_DiscCharByUUID |-> WithData(6), GATT_DiscAllCharDesc |-> Fixed(6),
     GATT_ReadCharVal |-> Fixed(4),  GATT_ReadUseCharUUID |-> WithData(6)]

\* GATT reads and writes.  GATT_ReliableWrites allocates three bytes and then
\* announces and fills whatever the requests need; with more than 252 it gives up
\* and pushes nothing.
GattAccesses ==
    [GATT_ReadLongCharValue |-> Fixed(6), GATT_ReadMultiCharValues |-> WithData(2),
     GATT_WriteCharValue |-> WithData(4), GATT_WriteLongCharValue |-> WithData(6),
     GATT_ReliableWrites |-> [Fixed(3) EXCEPT !.grows = {"len", "fill"}],
     GATT_ReadCharDesc |-> Fixed(4), GATT_ReadLongCharDesc |-> Fixed(6),
     GATT_WriteCharDesc |-> WithData(4)]

\* GATT's last write, the attribute server, and the start of GAP.
ServerAndGap ==
    [GATT_WriteLongCharDesc |-> WithData(6), GATT_AddService |-> Fixed(5),
     GATT_DelService |-> Fixed(2),   GATT_AddAttribute |-> WithData(1),
     GAP_DeviceInit |-> Fixed(38),   GAP_ConfigDeviceAddr |-> Fixed(7),
     GAP_DeviceDiscoveryRequest |-> Fixed(3), GAP_DeviceDiscoveryCancel |-> Fixed(0)]

\* Links and pairing.  GAP_PasskeyUpdate copies a 16-byte key into 6 bytes and
\* GAP_Signable announces a byte it does not set.
GapLinks ==
    [GAP_MakeDiscoverable |-> Fixed(10), GAP_UpdateAdvertisingData |-> WithData(2),
     GAP_EndDiscoverable |-> Fixed(0), GAP_EstablishLinkRequest |-> Fixed(9),
     GAP_TerminateLinkRequest |-> Fixed(3), GAP_Authenticate |-> Fixed(29),
     GAP_PasskeyUpdate |-> [Fixed(8) EXCEPT !.fill = 18],
     GAP_SlaveSecurityRequest |-> Fixed(3),
     GAP_Signable |-> [Fixed(23) EXCEPT !.fill = 22]]

\* Bonds, parameters and advertising tokens.
GapBonds ==
    [GAP_Bond |-> Fixed(30),         GAP_TerminateAuth |-> Fixed(3),
     GAP_UpdateLinkParamReq |-> Fixed(10), GAP_SetParam |-> Fixed(3),
     GAP_GetParam |-> Fixed(1),      GAP_ResolvePrivateAddr |-> Fixed(22),
     GAP_SetAdvToken |-> WithData(2), GAP_RemoveAdvToken |-> Fixed(1),
     GAP_UpdateAdvTokens |-> Fixed(0)]

\* The dongle's memory and the first host commands.  UTIL_NVWrite returns before it
\* builds anything.
UtilAndHci ==
    [GAP_BondSetParam |-> WithData(2), GAP_BondGetParam |-> Fixed(1),
     UTIL_Reset |-> Fixed(1),        UTIL_NVRead |-> Fixed(2),
     HCI_ReadLocalSupportedFeatures |-> Fixed(0), HCI_ReadBdAddr |-> Fixed(0),
     HCI_ReadRSSI |-> Fixed(2),      HCI_LEReadLocalSupportedFeatures |-> Fixed(0),
     HCI_LEReadWhiteListSize |-> Fixed(0)]

\* The white list and the radio tests.  HCI_LEConnectionUpdate allocates half
\* of what it announces and fills.
HciLowEnergy ==
    [HCI_LEClearWhiteList |-> Fixed(0), HCI_LEAddDeviceToWhiteList |-> Fixed(7),
     HCI_LERemoveDeviceFromWhiteList |-> Fixed(7),
     HCI_LEConnectionUpdate |-> [Fixed(14) EXCEPT !.alloc = 7],
     HCI_LEReceiverTest |-> Fixed(1), HCI_LETransmitterTest |-> WithData(2),
     HCI_LETestEnd |-> Fixed(0)]

BuilderTables ==
    {HciExtRadio, HciExtSettings, ExtAndL2cap, L2capAndAtt, AttRequests, GattDiscoveries,
     GattAccesses, ServerAndGap, GapLinks, GapBonds, UtilAndHci, HciLowEnergy}

\* Every builder is in one of the tables.
Builders ==
    [name \in UNION {DOMAIN t : t \in BuilderTables} |->
        (CHOOSE t \in BuilderTables : name \in DOMAIN t)[name]]

\* The command a builder makes of a payload of n bytes; cmd->len is one byte.
Frame(name, n) ==
    LET b == Builders[name]
        with(part) == IF part \in b.grows THEN n ELSE 0
    IN [name |-> name,
        payload |-> n,
        alloc |-> b.alloc + with("alloc"),
        len |-> (b.len + with("len")) % 256,
        fill |-> b.fill + with("fill")]

\* Every announced byte is there and none was written elsewhere.
Whole(f) == f.fill = f.len /\ f.len <= f.alloc

\* The signed eight bits in which NPI_TX::Run keeps the length of a frame.
TotalLen(f) == LET n == (f.len + CMD_HEAD_LEN) % 256
               IN IF n > 127 THEN n - 256 ELSE n
=============================================================================
