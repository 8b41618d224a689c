---------------------------- MODULE DataProfiles ----------------------------
(***************************************************************************)
(* BLEDataProfile4 and SimpleProfile: what the hub notifies of when an     *)
(* armband sends data.  The number of a package, where it has one, decides *)
(* a line of the log and nothing else.                                     *)
(***************************************************************************)
EXTENDS Naturals, TLC

\* The payload a type must have at least, and what the hub notifies of.
Raw == [least |-> 0, to |-> "ExtendedData"]

\* BLEDataProfile4; the status of the device has to be one it knows.
Profile4 ==
    [ACCELERATE |-> Raw, GYROSCOPE |-> Raw, MAGNETOMETER |-> Raw, EULERANGLE |-> Raw,
     QUATERNION |-> [least |-> 16, to |-> "OrientationData"], ROTATIONMATRIX |-> Raw,
     GESTURE |-> [least |-> 1, to |-> "GestureData"], EMGRAW |-> Raw,
     HIDMOUSE |-> Raw, HIDJOYSTICK |-> Raw,
     DEVICESTATUS |-> [least |-> 1, to |-> "DeviceStatusChanged"]]

\* SimpleProfile; its status has to be the one to recenter.
Simple ==
    [QUATERNION |-> [least |-> 16, to |-> "OrientationData"],
     GESTURE |-> [least |-> 1, to |-> "GestureData"],
     STATUS |-> [least |-> 1, to |-> "DeviceStatusChanged"]]

\* The bytes before the payload: two of handle, one of type, the number if any.
HeadOf4(numbered) == IF numbered THEN 4 ELSE 3

\* onData of each: whether a package of this type and length, to the right handle,
\* is told to the hub.  Lengths are of eight bits; the simple profile is told the
\* length of what follows and takes the number off it.
Told4(type, length, numbered) ==
    /\ type \in DOMAIN Profile4 /\ length > 1
    /\ (length + 256 - HeadOf4(numbered)) % 256 >= Profile4[type].least

ToldSimple(type, length, payloadLength, numbered) ==
    /\ type \in DOMAIN Simple /\ length > 4
    /\ (payloadLength + IF numbered THEN 255 ELSE 256) % 256 >= Simple[type].least
=============================================================================
