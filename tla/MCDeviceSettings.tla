-------------------------- MODULE MCDeviceSettings --------------------------
(* Two trainings of two packages, so that the second can meet the late        *)
(* answer of the first, and a get whose value is kept if it is long enough.  *)
EXTENDS DeviceSettings

GetRevision == [a \in Ask |-> "GET_FW_REVISION"]
ShortAndLong == {2, 3}
=============================================================================
