----------------------------- MODULE MCUnityHub -----------------------------
(* Two slots and two devices, one more than the messages let wait; two       *)
(* resets, of which only the first disposes of the hub.                      *)
EXTENDS UnityHub
=============================================================================
