--------------------------- MODULE AndroidScanner ---------------------------
(***************************************************************************)
(* Scanning on Android: BLEScanner and the scan calls of BLEService and of *)
(* the JNI AdapterManager.  The hub command thread starts and stops a      *)
(* scan, the main thread runs the ten-second timer and reports the end;    *)
(* nothing is locked between the two.                                      *)
(***************************************************************************)
EXTENDS AndroidAdapter

CONSTANT MaxScans          \* bound on the scans started

ASSUME AndroidScannerAssumption == MaxScans \in Nat

VARIABLES hubCall,         \* where the hub command thread is
          timerCall,       \* where the main thread's mRunnable is
          mIsScanning,     \* the flag of the JNI AdapterManager
          mScanningState,  \* SANNING_IDLE or SANNING_BUSY
          timers,          \* mRunnable posted and not run or removed
          finishes,        \* onScanFinished posted and not run
          scans,           \* budget: scans started
          unreported,      \* history: a scan was started and no end reported since
          silent,          \* history: a stop found the adapter off
          overlapped       \* history: a scan was started inside the timer's stop

scanVars == <<hubCall, timerCall, mIsScanning, mScanningState, timers, finishes, scans,
              unreported, silent, overlapped>>

ScanInit ==
    /\ hubCall = "idle" /\ timerCall = "idle"
    /\ mIsScanning = FALSE
    /\ mScanningState = "idle"
    /\ timers = 0 /\ finishes = 0 /\ scans = 0
    /\ unreported = FALSE /\ silent = FALSE /\ overlapped = FALSE

\* startScan waits in checkBluetoothState until the adapter is on, and asks
\* for that; an adapter being switched off is an error.
StartScan ==
    /\ hubCall = "idle" /\ scans < MaxScans
    /\ scans' = scans + 1
    /\ IF adapter = "turning_off" THEN UNCHANGED hubCall ELSE hubCall' = "check"
    /\ adapter' = IF adapter = "off" THEN "turning_on" ELSE adapter
    /\ UNCHANGED <<offs, timerCall, mIsScanning, mScanningState, timers, finishes,
                   unreported, silent, overlapped>>

\* Eight seconds are over, or the adapter has gone since.
CheckFails ==
    /\ hubCall = "check" /\ adapter # "on"
    /\ hubCall' = "idle"
    /\ UNCHANGED <<adapter, offs, timerCall, mIsScanning, mScanningState, timers, finishes,
                   scans, unreported, silent, overlapped>>

\* BLEScanner.startScan: refused while busy; else the radio scans and the
\* timer is posted before the state says so.
ScannerStart ==
    /\ hubCall = "check" /\ adapter = "on"
    /\ IF mScanningState = "busy"
         THEN hubCall' = "idle" /\ UNCHANGED <<timers, unreported, overlapped>>
         ELSE /\ hubCall' = "busy"
              /\ timers' = timers + 1
              /\ unreported' = TRUE
              /\ overlapped' = (overlapped \/ timerCall = "stop")
    /\ UNCHANGED <<adapter, offs, timerCall, mIsScanning, mScanningState, finishes, scans,
                   silent>>

ScannerBusy ==
    /\ hubCall = "busy"
    /\ mScanningState' = "busy"
    /\ mIsScanning' = TRUE
    /\ hubCall' = "idle"
    /\ UNCHANGED <<adapter, offs, timerCall, timers, finishes, scans, unreported, silent,
                   overlapped>>

\* Mutant: the handler keeps the timer of a stopped scan.
StopKeepsTimer ==
    /\ mScanningState' = "idle"
    /\ finishes' = finishes + 1
    /\ UNCHANGED <<timers, silent>>

\* Mutant: the scan is stopped and its end not reported.
StopQuietly ==
    /\ mScanningState' = "idle"
    /\ timers' = 0
    /\ UNCHANGED <<finishes, silent>>

\* The second half of BLEScanner.stopScan: with the adapter off the state
\* changes and nothing else; the timer stays and no end is reported.
StopRest ==
    /\ mScanningState' = "idle"
    /\ IF adapter = "on"
         THEN timers' = 0 /\ finishes' = finishes + 1 /\ UNCHANGED silent
         ELSE silent' = TRUE /\ UNCHANGED <<timers, finishes>>

\* The JNI StopScan and the busy test of BLEScanner.stopScan.  The result is
\* taken the wrong way round: false clears mIsScanning, true leaves it.
StopScan ==
    /\ hubCall = "idle" /\ mIsScanning
    /\ IF mScanningState = "busy"
         THEN hubCall' = "stop" /\ UNCHANGED mIsScanning
         ELSE mIsScanning' = FALSE /\ UNCHANGED hubCall
    /\ UNCHANGED <<adapter, offs, timerCall, mScanningState, timers, finishes, scans,
                   unreported, silent, overlapped>>

StopScanRest ==
    /\ hubCall = "stop"
    /\ StopRest
    /\ mIsScanning' = (mIsScanning /\ adapter = "on")
    /\ hubCall' = "idle"
    /\ UNCHANGED <<adapter, offs, timerCall, scans, unreported, overlapped>>

\* Ten seconds after a start, by when startScan has returned: mRunnable stops
\* the scan, if there is one.
Timeout ==
    /\ timerCall = "idle"
    /\ timers > (IF hubCall = "busy" THEN 1 ELSE 0)
    /\ timers' = timers - 1
    /\ timerCall' = IF mScanningState = "busy" THEN "stop" ELSE "idle"
    /\ UNCHANGED <<adapter, offs, hubCall, mIsScanning, mScanningState, finishes, scans,
                   unreported, silent, overlapped>>

TimeoutRest ==
    /\ timerCall = "stop"
    /\ StopRest
    /\ timerCall' = "idle"
    /\ overlapped' = (overlapped \/ hubCall = "busy")
    /\ UNCHANGED <<adapter, offs, hubCall, mIsScanning, scans, unreported>>

OnScanFinished ==
    /\ finishes > 0 /\ timerCall = "idle"
    /\ finishes' = finishes - 1
    /\ unreported' = FALSE
    /\ UNCHANGED <<adapter, offs, hubCall, timerCall, mIsScanning, mScanningState, timers,
                   scans, silent, overlapped>>

\* The adapter changes by itself; nothing here listens to it.
AdapterSwitches == (AdapterOn \/ AdapterOff \/ UserSwitches) /\ UNCHANGED scanVars

scannerVars == <<adapter, offs, scanVars>>

ScannerInit == AdapterInit /\ ScanInit

ScannerNext ==
    \/ StartScan \/ CheckFails \/ ScannerStart \/ ScannerBusy
    \/ StopScan \/ StopScanRest
    \/ Timeout \/ TimeoutRest \/ OnScanFinished
    \/ AdapterSwitches

ScannerSpec == ScannerInit /\ [][ScannerNext]_scannerVars

\* The main thread runs what is posted to it, and a call on the hub command
\* thread goes on; nobody need call, and nobody need switch the adapter.
ScannerFairness ==
    /\ WF_scannerVars(CheckFails \/ ScannerStart \/ ScannerBusy \/ StopScanRest)
    /\ WF_scannerVars(Timeout \/ TimeoutRest)
    /\ WF_scannerVars(OnScanFinished)
    /\ WF_scannerVars(AdapterOn /\ UNCHANGED scanVars)

ScannerFairSpec == ScannerSpec /\ ScannerFairness
-----------------------------------------------------------------------------
ScannerTypeOK ==
    /\ adapter \in {"off", "turning_on", "on", "turning_off"}
    /\ hubCall \in {"idle", "check", "busy", "stop"}
    /\ timerCall \in {"idle", "stop"}
    /\ mScanningState \in {"idle", "busy"}
    /\ mIsScanning \in BOOLEAN /\ unreported \in BOOLEAN
    /\ silent \in BOOLEAN /\ overlapped \in BOOLEAN
    /\ timers \in Nat /\ finishes \in Nat /\ scans \in 0..MaxScans

\* A scan is stopped by its own ten-second timer: BLEScanner never has an older
\* one posted besides, unless a stop found the adapter off and left it, or a new
\* scan was begun while the timer's stop was under way.
OneTimer == timers <= 1 \/ silent \/ overlapped

\* A scan that runs can be stopped, and its end is reported (BLEScanner's timer
\* and its stopScan against the calls of the client), unless a stop finds the
\* adapter off or a new scan was begun while the timer's stop was under way.
ScanEnds ==
    (mScanningState = "busy" \/ unreported) ~>
        (mScanningState = "idle" /\ ~unreported) \/ silent \/ overlapped
=============================================================================
