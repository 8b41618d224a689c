---------------------------- MODULE MCGattQueue -----------------------------
(***************************************************************************)
(* GattQueue for TLC: command identities as numbers, so that the MTU       *)
(* requests and the direct writes can be named in the configuration.       *)
(***************************************************************************)
EXTENDS GattQueue

MCCommands == 1..4
MCMtu == {2}
MCDirect == {8}
=============================================================================
