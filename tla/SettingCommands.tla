-------------------------- MODULE SettingCommands ---------------------------
(***************************************************************************)
(* The commands of DeviceSettingDataProfile4 and the handlers of their     *)
(* answers.  Of a command this keeps how many bytes it sends, whether it   *)
(* waits for an answer, whether it asks for a larger MTU first and whether *)
(* its value is kept; of a handler how many bytes a good answer has.       *)
(***************************************************************************)
EXTENDS Naturals, TLC

\* A command with an answer; one that asks for the MTU its package needs; a get,
\* which sends its number alone; a get whose value is kept; one without answer.
Set(n)        == [bytes |-> n, answered |-> TRUE, mtu |-> FALSE, kept |-> FALSE]
Package(n)    == [Set(n) EXCEPT !.mtu = TRUE]
Get           == Set(1)
GetKept       == [Get EXCEPT !.kept = TRUE]
NoResponse(n) == [Set(n) EXCEPT !.answered = FALSE]

\* The gets that look at what they were told before.
Kept ==
    [GET_PROTOCOL_VERSION |-> GetKept,   GET_FEATURE_MAP |-> GetKept,
     GET_DEVICE_NAME |-> GetKept,        GET_MODEL_NUMBER |-> GetKept,
     GET_SERIAL_NUMBER |-> GetKept,      GET_HW_REVISION |-> GetKept,
     GET_FW_REVISION |-> GetKept,        GET_MANUFACTURER_NAME |-> GetKept,
     GET_BOOTLOADER_VERSION |-> GetKept]

\* The ones that wait for nothing, and the switch for the kinds of data, whose
\* test for the rotation matrix is always true.
Switches ==
    [POWEROFF |-> NoResponse(1),         SWITCH_TO_OAD |-> NoResponse(1),
     SYSTEM_RESET |-> NoResponse(1),     SWITCH_SERVICE |-> NoResponse(2),
     SET_DATA_NOTIF_SWITCH |-> Package(5)]

\* A package of a training model: command, number, sixteen bytes.
TrainingPackage == [SEND_TRAINING_PACKAGE |-> Set(19)]

\* Logging, controls and the accelerometer.
Controls ==
    [GET_BATTERY_LEVEL |-> Get,          GET_TEMPERATURE |-> Get,
     SET_SWO_LOG_LEVEL |-> Set(2),       SET_SWO_LOG_MODULE |-> Set(5),
     PRINT_KERNEL_MSG |-> Set(2),        MOTOR_CONTROL |-> Set(2),
     LED_CONTROL_TEST |-> Set(2),        PACKAGE_ID_CONTROL |-> Set(2),
     GET_ACCELERATE_CAP |-> Get,         SET_ACCELERATE_CONFIG |-> Package(5)]

\* The gyroscope to the rotation matrix.
Sensors ==
    [GET_GYROSCOPE_CAP |-> Get,          SET_GYROSCOPE_CONFIG |-> Package(6),
     GET_MAGNETOMETER_CAP |-> Get,       SET_MAGNETOMETER_CONFIG |-> Package(6),
     GET_EULER_ANGLE_CAP |-> Get,        SET_EULER_ANGLE_CONFIG |-> Set(3),
     GET_QUATERNION_CAP |-> Get,         SET_QUATERNION_CONFIG |-> Set(3),
     GET_ROTATION_MATRIX_CAP |-> Get,    SET_ROTATION_MATRIX_CONFIG |-> Set(3)]

\* Gestures to the status of the device.
Gestures ==
    [GET_GESTURE_CAP |-> Get,            SET_GESTURE_CONFIG |-> Set(5),
     GET_EMG_RAWDATA_CAP |-> Get,        SET_EMG_RAWDATA_CONFIG |-> Package(6),
     GET_MOUSE_DATA_CAP |-> Get,         SET_MOUSE_DATA_CONFIG |-> Set(3),
     GET_JOYSTICK_DATA_CAP |-> Get,      SET_JOYSTICK_DATA_CONFIG |-> Set(3),
     GET_DEVICE_STATUS_CAP |-> Get,      SET_DEVICE_STATUS_CONFIG |-> Set(3)]

Commands == Kept @@ Switches @@ TrainingPackage @@ Controls @@ Sensors @@ Gestures
-----------------------------------------------------------------------------
(* The handlers: an answer with fewer bytes than these is a failure.       *)

\* The values that are kept: a name may be empty.
KeptNeeds ==
    [GET_PROTOCOL_VERSION |-> 2,         GET_FEATURE_MAP |-> 4,
     GET_DEVICE_NAME |-> 0,              GET_MODEL_NUMBER |-> 0,
     GET_SERIAL_NUMBER |-> 0,            GET_HW_REVISION |-> 1,
     GET_FW_REVISION |-> 3,              GET_MANUFACTURER_NAME |-> 0,
     GET_BOOTLOADER_VERSION |-> 3]

\* The other handlers that read data; every further one reads the result alone.
DataNeeds ==
    [SEND_TRAINING_PACKAGE |-> 2,        GET_BATTERY_LEVEL |-> 1,
     GET_TEMPERATURE |-> 1,              GET_ACCELERATE_CAP |-> 4,
     GET_GYROSCOPE_CAP |-> 5,            GET_MAGNETOMETER_CAP |-> 5,
     GET_EULER_ANGLE_CAP |-> 2,          GET_QUATERNION_CAP |-> 2,
     GET_ROTATION_MATRIX_CAP |-> 2]

LaterNeeds ==
    [GET_GESTURE_CAP |-> 4,              GET_EMG_RAWDATA_CAP |-> 5,
     GET_MOUSE_DATA_CAP |-> 2,           GET_JOYSTICK_DATA_CAP |-> 2,
     GET_DEVICE_STATUS_CAP |-> 2]

ResultOnly ==
    {"SET_DATA_NOTIF_SWITCH", "SET_SWO_LOG_LEVEL", "SET_SWO_LOG_MODULE", "PRINT_KERNEL_MSG",
     "MOTOR_CONTROL", "LED_CONTROL_TEST", "PACKAGE_ID_CONTROL", "SET_ACCELERATE_CONFIG",
     "SET_GYROSCOPE_CONFIG", "SET_MAGNETOMETER_CONFIG", "SET_EULER_ANGLE_CONFIG",
     "SET_QUATERNION_CONFIG", "SET_ROTATION_MATRIX_CONFIG", "SET_GESTURE_CONFIG",
     "SET_EMG_RAWDATA_CONFIG", "SET_MOUSE_DATA_CONFIG", "SET_JOYSTICK_DATA_CONFIG",
     "SET_DEVICE_STATUS_CONFIG"}

\* DispatchTable: the bytes the handler of each command needs.
DispatchTable == KeptNeeds @@ DataNeeds @@ LaterNeeds @@ [c \in ResultOnly |-> 0]

\* An answer to a command outside the table would reach no callback: the table
\* has every command that waits, and those only.
ASSUME EveryAnswerHasAHandler ==
    DOMAIN DispatchTable = {c \in DOMAIN Commands : Commands[c].answered}

\* What the client is told of a good answer of that length.
Parse(c, length) == IF length >= DispatchTable[c] THEN "success" ELSE "failed"

\* Whether the handler keeps a value for the next get: an empty name is not one.
Keeps(c, length) == Commands[c].kept /\ length > 0 /\ length >= DispatchTable[c]
=============================================================================
