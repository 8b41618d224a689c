-------------------------- MODULE MCAndroidDevices --------------------------
(* Two devices on a table of two handles, one tried twice; the adapter is    *)
(* switched off once.                                                        *)
EXTENDS AndroidDevices

CONSTANTS d1, d2, r1, r2

Twice == (d1 :> 2) @@ (d2 :> 1)
ToTheFirst == (r1 :> d1) @@ (r2 :> d1)
=============================================================================
