--------------------------- MODULE AndroidAdapter ---------------------------
(***************************************************************************)
(* The phone's Bluetooth adapter, which the user and the SDK switch on and *)
(* off.  External: it belongs to Android.                                  *)
(***************************************************************************)
EXTENDS Naturals, Sequences, FiniteSets

CONSTANT MaxOffs           \* bound: how often the adapter is switched off

VARIABLES adapter,         \* BluetoothAdapter.getState()
          offs             \* budget: how often it was switched off

AdapterInit == adapter \in {"on", "off"} /\ offs = 0

\* Switching on or off takes a while.
AdapterOn ==
    /\ adapter = "turning_on"
    /\ adapter' = "on"
    /\ UNCHANGED offs

AdapterOff ==
    /\ adapter = "turning_off"
    /\ adapter' = "off"
    /\ UNCHANGED offs

UserSwitches ==
    \/ adapter = "off" /\ adapter' = "turning_on" /\ UNCHANGED offs
    \/ adapter = "on" /\ offs < MaxOffs /\ adapter' = "turning_off" /\ offs' = offs + 1
=============================================================================
