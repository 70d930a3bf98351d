--------------------------- MODULE AttemptTracker ---------------------------
(***************************************************************************)
(* The count of the attempts that failed with one key (an API key, the     *)
(* administrator's secret, a signature...), kept in Redis for all          *)
(* processes, and the alert when it reaches the threshold.  A window is    *)
(* the life of the counter; its commands are one at a time.                *)
(***************************************************************************)
EXTENDS Naturals

CONSTANTS
    Recordings,        \* recordEvent() calls that may run at once, again and again
    Threshold,         \* config.attemptTracker.threshold
    MaxAttempts,       \* bound: the count of one window
    LastWindow,        \* bound: windows
    RecordingFailures  \* bound: commands that fail, and processes that end

ASSUME ThresholdAssumption == Threshold \in Nat \ {0}
ASSUME AttemptBounds == /\ MaxAttempts \in Nat /\ LastWindow \in Nat \ {0}
                        /\ RecordingFailures \in Nat

VARIABLES
    counter,           \* the Redis key: its count, and whether it expires
    recording,         \* what each call is doing
    window,            \* history: how many counters there were
    alerts,            \* history: alerts about each window
    recordingFailures, \* failures so far
    silenced           \* history: windows in which a call failed

attemptsVars == <<counter, recording, window, alerts, recordingFailures, silenced>>

AttemptsTypeOK ==
    /\ counter \in [count : 0 .. MaxAttempts, expires : BOOLEAN]
    /\ recording \in [Recordings -> [at : {"idle", "counted", "expiring"}, count : 0 .. MaxAttempts,
                                     window : 0 .. LastWindow]]
    /\ window \in 1 .. LastWindow /\ alerts \in [1 .. LastWindow -> Nat]
    /\ recordingFailures \in 0 .. RecordingFailures /\ silenced \subseteq 1 .. LastWindow

Quiet == [at |-> "idle", count |-> 0, window |-> 0]

AttemptsInit ==
    /\ counter = [count |-> 0, expires |-> FALSE]
    /\ recording = [r \in Recordings |-> Quiet]
    /\ window = 1 /\ alerts = [w \in 1 .. LastWindow |-> 0]
    /\ recordingFailures = 0 /\ silenced = {}

\* INCR tells the call the count it made.
Increments(r) ==
    /\ recording[r].at = "idle" /\ counter.count < MaxAttempts
    /\ counter' = [counter EXCEPT !.count = @ + 1]
    /\ recording' = [recording EXCEPT ![r] =
           [at |-> IF counter'.count = 1 THEN "expiring" ELSE "counted",
            count |-> counter'.count, window |-> window]]
    /\ UNCHANGED <<window, alerts, recordingFailures, silenced>>

\* PEXPIRE is a command of its own, of the call that began the window.
SetsExpiry(r) ==
    /\ recording[r].at = "expiring" /\ recording' = [recording EXCEPT ![r].at = "counted"]
    /\ counter' = [counter EXCEPT !.expires = TRUE]
    /\ UNCHANGED <<window, alerts, recordingFailures, silenced>>

\* Mutant: every attempt past the threshold alerts.
ComparesAtLeast(r) ==
    /\ recording[r].at = "counted" /\ recording' = [recording EXCEPT ![r] = Quiet]
    /\ alerts' = IF recording[r].count >= Threshold
                 THEN [alerts EXCEPT ![recording[r].window] = @ + 1] ELSE alerts
    /\ UNCHANGED <<counter, window, recordingFailures, silenced>>

Compares(r) ==
    /\ recording[r].at = "counted" /\ recording' = [recording EXCEPT ![r] = Quiet]
    /\ alerts' = IF recording[r].count = Threshold
                 THEN [alerts EXCEPT ![recording[r].window] = @ + 1] ELSE alerts
    /\ UNCHANGED <<counter, window, recordingFailures, silenced>>

\* A command fails after the count, or the process ends: the caller goes on.
RecordingFails(r) ==
    /\ recording[r].at # "idle" /\ recording' = [recording EXCEPT ![r] = Quiet]
    /\ recordingFailures < RecordingFailures /\ recordingFailures' = recordingFailures + 1
    /\ silenced' = silenced \cup {recording[r].window}
    /\ UNCHANGED <<counter, window, alerts>>

\* A counter whose expiry was never set stays for good.
WindowEnds ==
    /\ counter.expires /\ window < LastWindow /\ window' = window + 1
    /\ counter' = [count |-> 0, expires |-> FALSE]
    /\ UNCHANGED <<recording, alerts, recordingFailures, silenced>>

AttemptsNext ==
    \/ WindowEnds
    \/ \E r \in Recordings : Increments(r) \/ SetsExpiry(r) \/ Compares(r) \/ RecordingFails(r)

AttemptsSpec == AttemptsInit /\ [][AttemptsNext]_attemptsVars

-----------------------------------------------------------------------------
(* Property.                                                               *)

\* However many processes count at once, a window gives one alert at most, and has given
\* it, or has a call about to give it, when its count is at the threshold or past it;
\* and its counter expires once its first call is through; unless a call of the window
\* failed (attempt-tracker.service.js:20-36).
AlertedOnce ==
    /\ \A w \in 1 .. LastWindow : alerts[w] <= 1
    /\ window \in silenced \/
       /\ counter.count >= Threshold =>
             \/ alerts[window] = 1
             \/ \E r \in Recordings : recording[r].window = window /\ recording[r].count = Threshold
       /\ counter.count > 0 =>
             \/ counter.expires
             \/ \E r \in Recordings : recording[r].at = "expiring" /\ recording[r].window = window
=============================================================================
