-------------------------- MODULE MCAndroidScanner --------------------------
(* Three scans, so that a timer left by one runs into the next; the user     *)
(* switches the adapter off twice.                                           *)
EXTENDS AndroidScanner
=============================================================================
