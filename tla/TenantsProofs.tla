--------------------------- MODULE TenantsProofs ---------------------------
(***************************************************************************)
(* Proofs about the attempts counted against a key, the agreements a       *)
(* tenant accepts, what it is told (Prices, Notices, CertAlerts) and what  *)
(* it is charged (Prices), for any calls, thresholds, windows, versions,   *)
(* prices, documents, alerts and failures; and about the specification     *)
(* that composes them with the subscriptions.                              *)
(***************************************************************************)
EXTENDS MCTenants, BillingProofs

-----------------------------------------------------------------------------
(* AttemptTracker: one alert for a window.  The counts that calls of one   *)
(* window have in hand differ, so that one call at most has the threshold; *)
(* and no alert was given while a call has it, or before it is reached.    *)

\* What a call has in hand: a count of its window, which only it has.
CallOK(r, rec, cnt, win) ==
    rec[r].at # "idle" =>
        /\ rec[r].window \in 1 .. win /\ rec[r].count \in Nat \ {0}
        /\ rec[r].window = win => rec[r].count <= cnt
        /\ rec[r].at = "expiring" => rec[r].count = 1
        /\ \A s \in Recordings \ {r} :
              rec[s].at # "idle" /\ rec[s].window = rec[r].window => rec[s].count # rec[r].count

\* Alerts given: none before the threshold, none while a call has it, one at most.
AlertsOK ==
    /\ \A w \in 1 .. LastWindow : alerts[w] <= 1
    /\ \A w \in 1 .. LastWindow : w > window => alerts[w] = 0
    /\ counter.count < Threshold => alerts[window] = 0
    /\ \A r \in Recordings : recording[r].at # "idle" /\ recording[r].count = Threshold =>
          alerts[recording[r].window] = 0

AttemptsInv ==
    /\ AttemptsTypeOK /\ AlertsOK /\ AlertedOnce
    /\ \A r \in Recordings : recording[r].at = "idle" => recording[r] = Quiet
    /\ \A r \in Recordings : CallOK(r, recording, counter.count, window)

\* The types of the variables, one by one.
LEMMA AttemptTypes ==
    ASSUME AttemptsTypeOK
    PROVE  /\ counter.count \in Nat /\ counter.count <= MaxAttempts
           /\ window \in Nat \ {0} /\ window <= LastWindow
           /\ \A w \in 1 .. LastWindow : alerts[w] \in Nat
           /\ \A r \in Recordings : /\ recording[r].count \in Nat
                                    /\ recording[r].window \in Nat
                                    /\ recording[r].window <= LastWindow
           /\ counter = [count |-> counter.count, expires |-> counter.expires]
  BY AttemptBounds DEF AttemptsTypeOK

\* Nothing was counted yet.
LEMMA AttemptsBegin == AttemptsInit => AttemptsInv
  BY ThresholdAssumption, AttemptBounds
     DEF AttemptsInit, AttemptsInv, AttemptsTypeOK, AlertsOK, AlertedOnce, CallOK, Quiet

\* INCR: the count is greater than any other of the window.
LEMMA IncrementsKeeps ==
    ASSUME AttemptsInv, NEW r \in Recordings, Increments(r)
    PROVE  AttemptsInv'
  <1> DEFINE n == counter.count + 1
             t == [at |-> IF n = 1 THEN "expiring" ELSE "counted", count |-> n, window |-> window]
  <1>0. AttemptsTypeOK /\ AlertsOK /\ AlertedOnce
    BY DEF AttemptsInv
  <1>1. /\ counter'.count = n /\ counter'.expires = counter.expires
        /\ counter' = [count |-> n, expires |-> counter.expires]
        /\ recording' = [recording EXCEPT ![r] = t] /\ recording'[r] = t
        /\ \A s \in Recordings \ {r} : recording'[s] = recording[s]
        /\ UNCHANGED <<window, alerts, recordingFailures, silenced>>
        /\ recording[r].at = "idle" /\ recording[r] = Quiet
    BY <1>0 DEF Increments, AttemptsTypeOK, AttemptsInv
  <1>2. /\ n \in Nat \ {0} /\ n <= MaxAttempts /\ n > counter.count
        /\ window \in Nat \ {0} /\ window <= LastWindow
    BY <1>0, AttemptTypes, AttemptBounds DEF Increments
  <1>3. /\ t.at \in {"expiring", "counted"} /\ t.count = n /\ t.window = window
        /\ t.at = "expiring" <=> n = 1
    OBVIOUS
  <1>4. AttemptsTypeOK'
    <2>1. t \in [at : {"idle", "counted", "expiring"}, count : 0 .. MaxAttempts,
                 window : 0 .. LastWindow]
      BY <1>2, AttemptBounds
    <2>2. counter' \in [count : 0 .. MaxAttempts, expires : BOOLEAN]
      BY <1>0, <1>1, <1>2, AttemptBounds DEF AttemptsTypeOK
    <2> HIDE DEF t, n
    <2> QED BY <1>0, <1>1, <2>1, <2>2 DEF AttemptsTypeOK
  <1> HIDE DEF t, n
  <1>5. \A s \in Recordings : CallOK(s, recording', n, window)
    <2>1. \A s \in Recordings : CallOK(s, recording, counter.count, window)
      BY DEF AttemptsInv
    <2>2. \A s \in Recordings \ {r} :
             recording[s].at # "idle" /\ recording[s].window = window =>
                 recording[s].count < n /\ recording[s].count # n
      BY <1>0, <1>2, <2>1, AttemptTypes DEF CallOK
    <2>3. CallOK(r, recording', n, window)
      BY <1>1, <1>2, <1>3, <2>2 DEF CallOK
    <2>4. ASSUME NEW s \in Recordings \ {r} PROVE CallOK(s, recording', n, window)
      <3>1. CASE recording[s].at = "idle"
        BY <1>1, <3>1 DEF CallOK
      <3>2. CASE recording[s].at # "idle"
        <4>1. CallOK(s, recording, counter.count, window)
          BY <2>1
        <4>2. recording[s].window = window => recording[s].count <= n
          BY <2>2, <3>2, <1>0, <1>2, AttemptTypes
        <4>3. recording'[r].window = recording[s].window => recording'[r].count # recording[s].count
          BY <1>1, <1>3, <2>2, <3>2
        <4> QED BY <1>1, <3>2, <4>1, <4>2, <4>3 DEF CallOK
      <3> QED BY <3>1, <3>2
    <2> QED BY <2>3, <2>4
  <1>6. AlertsOK'
    <2>1. n < Threshold => alerts[window] = 0
      BY <1>0, <1>2, AttemptTypes, ThresholdAssumption DEF AlertsOK
    <2>2. n = Threshold => alerts[window] = 0
      BY <1>0, <1>2, AttemptTypes, ThresholdAssumption DEF AlertsOK
    <2> QED BY <1>0, <1>1, <1>3, <2>1, <2>2 DEF AlertsOK
  <1>7. AlertedOnce'
    <2>1. CASE window \in silenced
      BY <1>0, <1>1, <2>1 DEF AlertedOnce
    <2>2. CASE window \notin silenced
      <3>1. n >= Threshold => \/ alerts[window] = 1
                              \/ \E s \in Recordings : /\ recording'[s].window = window
                                                       /\ recording'[s].count = Threshold
        <4>1. CASE n = Threshold
          BY <1>1, <1>3, <4>1
        <4>2. CASE n # Threshold
          <5>1. n >= Threshold => counter.count >= Threshold
            BY <1>0, <1>2, <4>2, AttemptTypes, ThresholdAssumption DEF n
          <5>2. recording[r].count # Threshold
            BY <1>1, ThresholdAssumption DEF Quiet
          <5> QED BY <1>0, <1>1, <2>2, <5>1, <5>2 DEF AlertedOnce
        <4> QED BY <4>1, <4>2
      <3>2. \/ counter.expires
            \/ \E s \in Recordings : recording'[s].at = "expiring" /\ recording'[s].window = window
        <4>1. CASE n = 1
          BY <1>1, <1>3, <4>1
        <4>2. CASE n # 1
          <5>1. counter.count > 0
            BY <1>0, <1>2, <4>2, AttemptTypes DEF n
          <5> QED BY <1>0, <1>1, <2>2, <5>1 DEF AlertedOnce, Quiet
        <4> QED BY <4>1, <4>2
      <3> QED BY <1>0, <1>1, <3>1, <3>2 DEF AlertedOnce
    <2> QED BY <2>1, <2>2
  <1> QED BY <1>1, <1>2, <1>3, <1>4, <1>5, <1>6, <1>7 DEF AttemptsInv

\* A call that goes on to its comparison, or is over, takes its count with it.
LEMMA CallMoves ==
    ASSUME AttemptsInv, NEW r \in Recordings, NEW t, recording' = [recording EXCEPT ![r] = t],
           recording[r].at # "idle",
           \/ t = Quiet
           \/ /\ t.at = "counted" /\ t.count = recording[r].count /\ t.window = recording[r].window
              /\ t \in [at : {"idle", "counted", "expiring"}, count : 0 .. MaxAttempts,
                        window : 0 .. LastWindow]
    PROVE  /\ recording' \in [Recordings -> [at : {"idle", "counted", "expiring"},
                                             count : 0 .. MaxAttempts, window : 0 .. LastWindow]]
           /\ recording'[r] = t /\ \A s \in Recordings \ {r} : recording'[s] = recording[s]
           /\ \A s \in Recordings : recording'[s].at = "idle" => recording'[s] = Quiet
           /\ \A s \in Recordings : CallOK(s, recording', counter.count, window)
  <1>0. AttemptsTypeOK
    BY DEF AttemptsInv
  <1>1. Quiet \in [at : {"idle", "counted", "expiring"}, count : 0 .. MaxAttempts,
                   window : 0 .. LastWindow]
    BY AttemptBounds DEF Quiet
  <1>2. /\ recording' \in [Recordings -> [at : {"idle", "counted", "expiring"},
                                          count : 0 .. MaxAttempts, window : 0 .. LastWindow]]
        /\ recording'[r] = t /\ \A s \in Recordings \ {r} : recording'[s] = recording[s]
    BY <1>0, <1>1 DEF AttemptsTypeOK
  <1>3. Quiet.at = "idle"
    BY DEF Quiet
  <1>4. \A s \in Recordings : recording'[s].at = "idle" => recording'[s] = Quiet
    BY <1>2 DEF AttemptsInv
  <1>5. \A s \in Recordings : recording'[s].at # "idle" =>
           /\ recording[s].at # "idle"
           /\ recording'[s].count = recording[s].count /\ recording'[s].window = recording[s].window
           /\ recording'[s].at = "expiring" => recording[s].at = "expiring"
    BY <1>2, <1>3
  <1>6. \A s \in Recordings : CallOK(s, recording', counter.count, window)
    <2>1. \A s \in Recordings : CallOK(s, recording, counter.count, window)
      BY DEF AttemptsInv
    <2> QED BY <1>5, <2>1 DEF CallOK
  <1> QED BY <1>2, <1>4, <1>6

\* PEXPIRE: the window ends some day, whatever becomes of the call.
LEMMA SetsExpiryKeeps ==
    ASSUME AttemptsInv, NEW r \in Recordings, SetsExpiry(r)
    PROVE  AttemptsInv'
  <1> DEFINE t == [recording[r] EXCEPT !.at = "counted"]
  <1>0. AttemptsTypeOK /\ AlertsOK /\ AlertedOnce
    BY DEF AttemptsInv
  <1>1. /\ counter' = [counter EXCEPT !.expires = TRUE]
        /\ counter'.count = counter.count /\ counter'.expires
        /\ recording' = [recording EXCEPT ![r] = t] /\ recording[r].at = "expiring"
        /\ UNCHANGED <<window, alerts, recordingFailures, silenced>>
    BY <1>0 DEF SetsExpiry, AttemptsTypeOK
  <1>2. /\ t.at = "counted" /\ t.count = recording[r].count /\ t.window = recording[r].window
        /\ t \in [at : {"idle", "counted", "expiring"}, count : 0 .. MaxAttempts,
                  window : 0 .. LastWindow]
    BY <1>0 DEF AttemptsTypeOK
  <1> HIDE DEF t
  <1>3. /\ recording' \in [Recordings -> [at : {"idle", "counted", "expiring"},
                                          count : 0 .. MaxAttempts, window : 0 .. LastWindow]]
        /\ recording'[r] = t /\ \A s \in Recordings \ {r} : recording'[s] = recording[s]
        /\ \A s \in Recordings : recording'[s].at = "idle" => recording'[s] = Quiet
        /\ \A s \in Recordings : CallOK(s, recording', counter.count, window)
    BY <1>1, <1>2, CallMoves
  <1>4. AttemptsTypeOK'
    BY <1>0, <1>1, <1>3 DEF AttemptsTypeOK
  <1>5. AlertsOK'
    BY <1>0, <1>1, <1>2, <1>3 DEF AlertsOK
  <1>6. AlertedOnce'
    <2>1. \A s \in Recordings : /\ recording'[s].window = recording[s].window
                                /\ recording'[s].count = recording[s].count
      BY <1>2, <1>3
    <2> QED BY <1>0, <1>1, <2>1 DEF AlertedOnce
  <1> QED BY <1>1, <1>3, <1>4, <1>5, <1>6 DEF AttemptsInv

\* The comparison: whoever has the threshold has it alone, and no alert was given.
LEMMA ComparesKeeps ==
    ASSUME AttemptsInv, NEW r \in Recordings, Compares(r)
    PROVE  AttemptsInv'
  <1>0. AttemptsTypeOK /\ AlertsOK /\ AlertedOnce
    BY DEF AttemptsInv
  <1>1. /\ recording' = [recording EXCEPT ![r] = Quiet] /\ recording[r].at = "counted"
        /\ UNCHANGED <<counter, window, recordingFailures, silenced>>
    BY DEF Compares
  <1>2. /\ recording' \in [Recordings -> [at : {"idle", "counted", "expiring"},
                                          count : 0 .. MaxAttempts, window : 0 .. LastWindow]]
        /\ recording'[r] = Quiet /\ \A s \in Recordings \ {r} : recording'[s] = recording[s]
        /\ \A s \in Recordings : recording'[s].at = "idle" => recording'[s] = Quiet
        /\ \A s \in Recordings : CallOK(s, recording', counter.count, window)
    BY <1>1, CallMoves
  <1>3. \A s \in Recordings : CallOK(s, recording, counter.count, window)
    BY DEF AttemptsInv
  <1>4. PICK w : w = recording[r].window
    OBVIOUS
  <1>5. w \in 1 .. window /\ w \in 1 .. LastWindow
    <2>1. w \in 1 .. window
      BY <1>1, <1>3, <1>4 DEF CallOK
    <2> QED BY <1>0, <2>1, AttemptTypes, AttemptBounds
  <1>6. CASE recording[r].count # Threshold
    <2>1. UNCHANGED alerts
      BY <1>6 DEF Compares
    <2>2. AttemptsTypeOK'
      BY <1>0, <1>1, <1>2, <2>1 DEF AttemptsTypeOK
    <2>3. AlertsOK'
      BY <1>0, <1>1, <1>2, <2>1 DEF AlertsOK, Quiet
    <2>4. AlertedOnce'
      BY <1>0, <1>1, <1>2, <1>6, <2>1 DEF AlertedOnce
    <2> QED BY <1>1, <1>2, <2>2, <2>3, <2>4 DEF AttemptsInv
  <1>7. CASE recording[r].count = Threshold
    <2>1. alerts' = [alerts EXCEPT ![w] = alerts[w] + 1] /\ alerts[w] = 0
      BY <1>0, <1>1, <1>4, <1>7 DEF Compares, AlertsOK
    <2>2. /\ alerts'[w] = 1 /\ alerts' \in [1 .. LastWindow -> Nat]
          /\ \A v \in 1 .. LastWindow : v # w => alerts'[v] = alerts[v]
      BY <1>0, <1>5, <2>1 DEF AttemptsTypeOK
    <2>3. AttemptsTypeOK'
      BY <1>0, <1>1, <1>2, <2>2 DEF AttemptsTypeOK
    <2>4. AlertsOK'
      <3>1. \A v \in 1 .. LastWindow : alerts'[v] <= 1
        BY <1>0, <2>2 DEF AlertsOK
      <3>2. \A v \in 1 .. LastWindow : v > window => alerts'[v] = 0
        BY <1>0, <1>5, <2>2, AttemptTypes DEF AlertsOK
      <3>3. counter.count < Threshold => alerts'[window] = 0
        <4>1. w = window => Threshold <= counter.count
          BY <1>1, <1>3, <1>4, <1>7 DEF CallOK
        <4>2. window \in 1 .. LastWindow
          BY <1>0 DEF AttemptsTypeOK
        <4> QED BY <1>0, <2>2, <4>1, <4>2, AttemptTypes, ThresholdAssumption DEF AlertsOK
      <3>4. ASSUME NEW s \in Recordings, recording'[s].at # "idle", recording'[s].count = Threshold
            PROVE  alerts'[recording'[s].window] = 0
        <4>1. s # r /\ recording'[s] = recording[s]
          BY <1>2, <3>4 DEF Quiet
        <4>2. CallOK(r, recording, counter.count, window)
          BY <1>3
        <4>3. recording[s].window # w
          BY <1>1, <1>4, <1>7, <3>4, <4>1, <4>2 DEF CallOK
        <4>4. recording[s].window \in 1 .. LastWindow
          <5>1. CallOK(s, recording, counter.count, window)
            BY <1>3
          <5>2. recording[s].window \in 1 .. window
            BY <3>4, <4>1, <5>1 DEF CallOK
          <5> QED BY <1>0, <5>2, AttemptTypes, AttemptBounds
        <4>5. alerts[recording[s].window] = 0
          BY <1>0, <3>4, <4>1 DEF AlertsOK
        <4> QED BY <2>2, <4>1, <4>3, <4>4, <4>5
      <3> QED BY <1>1, <3>1, <3>2, <3>3, <3>4 DEF AlertsOK
    <2>5. AlertedOnce'
      <3>1. \A v \in 1 .. LastWindow : alerts'[v] <= 1
        BY <1>0, <2>2 DEF AlertedOnce
      <3>2. ASSUME window \notin silenced, counter.count >= Threshold
            PROVE  \/ alerts'[window] = 1
                   \/ \E s \in Recordings : /\ recording'[s].window = window
                                            /\ recording'[s].count = Threshold
        <4>1. CASE w = window
          BY <2>2, <4>1
        <4>2. CASE w # window
          <5>1. window \in 1 .. LastWindow
            BY <1>0 DEF AttemptsTypeOK
          <5>2. \/ alerts[window] = 1
                \/ \E s \in Recordings : recording[s].window = window /\ recording[s].count = Threshold
            BY <1>0, <3>2 DEF AlertedOnce
          <5> QED BY <1>2, <1>4, <2>2, <4>2, <5>1, <5>2
        <4> QED BY <4>1, <4>2
      <3>3. ASSUME window \notin silenced, counter.count > 0
            PROVE  \/ counter.expires
                   \/ \E s \in Recordings : recording'[s].at = "expiring" /\ recording'[s].window = window
        BY <1>0, <1>1, <1>2, <3>3 DEF AlertedOnce
      <3> QED BY <1>1, <3>1, <3>2, <3>3 DEF AlertedOnce
    <2> QED BY <1>1, <1>2, <2>3, <2>4, <2>5 DEF AttemptsInv
  <1> QED BY <1>6, <1>7

\* A call that fails silences its window.
LEMMA RecordingFailsKeeps ==
    ASSUME AttemptsInv, NEW r \in Recordings, RecordingFails(r)
    PROVE  AttemptsInv'
  <1>0. AttemptsTypeOK /\ AlertsOK /\ AlertedOnce
    BY DEF AttemptsInv
  <1>1. /\ recording' = [recording EXCEPT ![r] = Quiet] /\ recording[r].at # "idle"
        /\ recordingFailures' \in 0 .. RecordingFailures
        /\ silenced' = silenced \cup {recording[r].window}
        /\ UNCHANGED <<counter, window, alerts>>
    BY <1>0, AttemptBounds DEF RecordingFails, AttemptsTypeOK
  <1>2. /\ recording' \in [Recordings -> [at : {"idle", "counted", "expiring"},
                                          count : 0 .. MaxAttempts, window : 0 .. LastWindow]]
        /\ recording'[r] = Quiet /\ \A s \in Recordings \ {r} : recording'[s] = recording[s]
        /\ \A s \in Recordings : recording'[s].at = "idle" => recording'[s] = Quiet
        /\ \A s \in Recordings : CallOK(s, recording', counter.count, window)
    BY <1>1, CallMoves
  <1>3. recording[r].window \in 1 .. LastWindow
    <2>1. CallOK(r, recording, counter.count, window)
      BY DEF AttemptsInv
    <2>2. recording[r].window \in 1 .. window
      BY <1>1, <2>1 DEF CallOK
    <2> QED BY <1>0, <2>2, AttemptTypes, AttemptBounds
  <1>4. AttemptsTypeOK'
    BY <1>0, <1>1, <1>2, <1>3 DEF AttemptsTypeOK
  <1>5. AlertsOK'
    BY <1>0, <1>1, <1>2 DEF AlertsOK, Quiet
  <1>6. AlertedOnce'
    BY <1>0, <1>1, <1>2 DEF AlertedOnce
  <1> QED BY <1>1, <1>2, <1>4, <1>5, <1>6 DEF AttemptsInv

\* A new window: its calls are to come, and no alert was given about it.
LEMMA WindowEndsKeeps ==
    ASSUME AttemptsInv, WindowEnds
    PROVE  AttemptsInv'
  <1>0. AttemptsTypeOK /\ AlertsOK /\ AlertedOnce
    BY DEF AttemptsInv
  <1>1. /\ counter' = [count |-> 0, expires |-> FALSE] /\ window' = window + 1
        /\ window < LastWindow
        /\ UNCHANGED <<recording, alerts, recordingFailures, silenced>>
    BY DEF WindowEnds
  <1>2. window \in Nat \ {0} /\ window + 1 \in 1 .. LastWindow
    BY <1>0, <1>1, AttemptTypes, AttemptBounds
  <1>3. AttemptsTypeOK'
    BY <1>0, <1>1, <1>2, AttemptBounds DEF AttemptsTypeOK
  <1>4. AlertsOK'
    BY <1>0, <1>1, <1>2, AttemptBounds DEF AlertsOK
  <1>5. AlertedOnce'
    BY <1>0, <1>1, ThresholdAssumption DEF AlertedOnce
  <1>6. ASSUME NEW s \in Recordings PROVE CallOK(s, recording, 0, window + 1)
    <2>1. CallOK(s, recording, counter.count, window)
      BY DEF AttemptsInv
    <2>2. recording[s].at # "idle" =>
             recording[s].window \in 1 .. window + 1 /\ recording[s].window # window + 1
      BY <1>2, <2>1 DEF CallOK
    <2> QED BY <2>1, <2>2 DEF CallOK
  <1> QED BY <1>1, <1>3, <1>4, <1>5, <1>6 DEF AttemptsInv

LEMMA AttemptsHold == AttemptsSpec => []AttemptsInv
<1>1. AttemptsInv /\ [AttemptsNext]_attemptsVars => AttemptsInv'
  <2>1. AttemptsInv /\ UNCHANGED attemptsVars => AttemptsInv'
    BY DEF AttemptsInv, AttemptsTypeOK, AlertsOK, AlertedOnce, CallOK, attemptsVars
  <2> QED BY <2>1, IncrementsKeeps, SetsExpiryKeeps, ComparesKeeps, RecordingFailsKeeps,
             WindowEndsKeeps DEF AttemptsNext
<1> QED BY <1>1, AttemptsBegin, PTL DEF AttemptsSpec

\* However many processes count at once, a window gives one alert at most, and gives it,
\* and its counter expires, unless a call of the window failed.
THEOREM OneAlertPerWindow == AttemptsSpec => []AlertedOnce
<1>1. AttemptsInv => AlertedOnce
  BY DEF AttemptsInv
<1> QED BY <1>1, AttemptsHold, PTL

-----------------------------------------------------------------------------
(* Agreements: what is accepted was named, and is not asked for again.     *)

\* One version of a document is current, and what is copied was published.
VersionsOK ==
    /\ \A v \in Versions : version[v].current => version[v].type # "none"
    /\ \A v, w \in Versions :
          version[v].current /\ version[w].current /\ version[v].type = version[w].type => v = w
    /\ \A i \in DOMAIN copies : version[copies[i]].type # "none"
    /\ \A g \in Generations : \A v \in generation[g].found : version[v].type # "none"

\* Until a version is activated during an acceptance, an acceptance that has checked the
\* name of the terms has checked it against the current version.
NamesOK ==
    /\ \A c \in Acceptances : acceptance[c].at = "validated" =>
          acceptance[c].terms = Current("TERMS") /\ Current("TERMS") \subseteq named
    /\ \A v \in accepted : version[v].type = "TERMS" => v \in named

\* Until a version is activated during a generation, or again, what a generation is about
\* to copy is current, and the copy of a current version is the last of its type.
CopiesOK ==
    /\ \A g \in Generations : \A v \in generation[g].found : version[v].current
    /\ \A i, j \in DOMAIN copies :
          version[copies[i]].current /\ version[copies[j]].type = version[copies[i]].type => j <= i

AgreementsInv ==
    /\ AgreementsTypeOK /\ VersionsOK
    /\ "acceptance" \notin overlapped => NamesOK
    /\ overlapped \cap {"generation", "rollback"} = {} => CopiesOK

\* Nothing is published yet.
LEMMA AgreementsBegin == AgreementsInit => AgreementsInv
  <1> SUFFICES ASSUME AgreementsInit PROVE AgreementsInv
    OBVIOUS
  <1>1. AgreementsTypeOK
    <2>1. copies \in Seq(Versions) /\ DOMAIN copies = {}
      BY DEF AgreementsInit
    <2>2. IsInjective(copies)
      BY <2>1 DEF IsInjective
    <2>3. version \in [Versions -> [type : AgreementTypes \cup {"none"}, current : BOOLEAN]]
      BY DEF AgreementsInit
    <2>4. /\ accepted = {} /\ stamp = {} /\ named = {} /\ overlapped = {}
          /\ generation = [g \in Generations |-> [at |-> "idle", todo |-> {}, found |-> {}]]
          /\ acceptance = [c \in Acceptances |-> [at |-> "idle", terms |-> {}]]
      BY DEF AgreementsInit
    <2> QED BY <2>1, <2>2, <2>3, <2>4 DEF AgreementsTypeOK
  <1>2. /\ \A v \in Versions : ~version[v].current
        /\ DOMAIN copies = {} /\ accepted = {}
        /\ \A g \in Generations : generation[g].found = {}
        /\ \A c \in Acceptances : acceptance[c].at = "idle"
    BY DEF AgreementsInit
  <1>3. VersionsOK
    BY <1>2 DEF VersionsOK
  <1>4. NamesOK
    BY <1>2 DEF NamesOK
  <1>5. CopiesOK
    BY <1>2 DEF CopiesOK
  <1> QED BY <1>1, <1>3, <1>4, <1>5 DEF AgreementsInv

\* The administrator's two statements.
LEMMA VersionsKeep ==
    ASSUME AgreementsInv, NEW v \in Versions,
           ActivatesVersion(v) \/ \E type \in AgreementTypes : CreatesVersion(v, type)
    PROVE  AgreementsInv'
  <1>0. /\ version \in [Versions -> [type : AgreementTypes \cup {"none"}, current : BOOLEAN]]
        /\ copies \in Seq(Versions) /\ \A i \in DOMAIN copies : copies[i] \in Versions
        /\ accepted \subseteq ToSet(copies) /\ AgreementsTypeOK
        /\ \A g \in Generations : generation[g].found \subseteq Versions
    BY DEF AgreementsInv, AgreementsTypeOK
  <1>1. accepted \subseteq Versions
    BY <1>0 DEF ToSet
  <1>2. CASE ActivatesVersion(v)
    <2>1. /\ version[v].type # "none" /\ ~version[v].current
          /\ UNCHANGED <<copies, accepted, generation, acceptance, stamp, named>>
          /\ overlapped \subseteq overlapped'
          /\ "acceptance" \notin overlapped' => \A c \in Acceptances : acceptance[c].at # "validated"
          /\ "generation" \notin overlapped' => \A g \in Generations : generation[g].found = {}
          /\ "rollback" \notin overlapped' => v \notin ToSet(copies)
          /\ overlapped' \subseteq {"acceptance", "generation", "rollback"}
      BY <1>0, <1>2 DEF ActivatesVersion, AgreementsTypeOK
    <2>2. \A w \in Versions : /\ version'[w].type = version[w].type
                              /\ version'[w].current = IF version[w].type = version[v].type
                                                       THEN w = v ELSE version[w].current
      BY <1>0, <1>2 DEF ActivatesVersion
    <2>3. version' \in [Versions -> [type : AgreementTypes \cup {"none"}, current : BOOLEAN]]
      BY <1>0, <1>2 DEF ActivatesVersion
    <2>4. AgreementsTypeOK'
      BY <1>0, <2>1, <2>3 DEF AgreementsTypeOK
    <2>5. VersionsOK'
      BY <1>0, <2>1, <2>2 DEF AgreementsInv, VersionsOK
    <2>6. ASSUME "acceptance" \notin overlapped' PROVE NamesOK'
      BY <1>0, <1>1, <2>1, <2>2, <2>6 DEF AgreementsInv, NamesOK
    <2>7. ASSUME overlapped' \cap {"generation", "rollback"} = {} PROVE CopiesOK'
      <3>1. CopiesOK /\ v \notin ToSet(copies)
        BY <2>1, <2>7 DEF AgreementsInv
      <3>2. \A i \in DOMAIN copies : copies[i] # v
        BY <3>1 DEF ToSet
      <3> QED BY <1>0, <2>1, <2>2, <2>7, <3>1, <3>2 DEF CopiesOK
    <2> QED BY <2>4, <2>5, <2>6, <2>7 DEF AgreementsInv
  <1>3. ASSUME NEW type \in AgreementTypes, CreatesVersion(v, type) PROVE AgreementsInv'
    <2>1. /\ version[v].type = "none" /\ type # "none"
          /\ UNCHANGED <<copies, accepted, generation, acceptance, stamp, named, overlapped>>
      BY <1>3 DEF CreatesVersion, AgreementTypes
    <2>2. \A w \in Versions : /\ version'[w].type = IF w = v THEN type ELSE version[w].type
                              /\ version'[w].current = version[w].current
      BY <1>0, <1>3 DEF CreatesVersion
    <2>3. version' \in [Versions -> [type : AgreementTypes \cup {"none"}, current : BOOLEAN]]
      BY <1>0, <1>3 DEF CreatesVersion
    <2>4. AgreementsTypeOK'
      BY <1>0, <2>1, <2>3 DEF AgreementsTypeOK
    <2>5. ~version[v].current /\ \A i \in DOMAIN copies : copies[i] # v
      BY <1>0, <2>1 DEF AgreementsInv, VersionsOK
    <2>6. VersionsOK'
      BY <1>0, <2>1, <2>2, <2>5 DEF AgreementsInv, VersionsOK
    <2>7. Current("TERMS")' = Current("TERMS") /\ v \notin accepted
      BY <1>0, <2>2, <2>5 DEF Current, ToSet
    <2>8. NamesOK => NamesOK'
      BY <1>1, <2>1, <2>2, <2>7 DEF NamesOK
    <2>9. CopiesOK => CopiesOK'
      BY <1>0, <2>1, <2>2, <2>5 DEF CopiesOK
    <2> QED BY <2>1, <2>4, <2>6, <2>8, <2>9 DEF AgreementsInv
  <1> QED BY <1>2, <1>3

\* generateForTenant().
LEMMA GenerationsKeep ==
    ASSUME AgreementsInv, NEW g \in Generations,
           \/ ListsCurrent(g) \/ GenerationEnds(g)
           \/ \E type \in AgreementTypes : ReadsCurrent(g, type)
           \/ \E v \in Versions : CreatesCopy(g, v)
    PROVE  AgreementsInv'
  <1> DEFINE Task == [at : {"idle", "listed", "done"}, todo : SUBSET AgreementTypes,
                      found : SUBSET Versions]
  <1>0. /\ version \in [Versions -> [type : AgreementTypes \cup {"none"}, current : BOOLEAN]]
        /\ copies \in Seq(Versions) /\ \A i \in DOMAIN copies : copies[i] \in Versions
        /\ accepted \subseteq ToSet(copies) /\ AgreementsTypeOK
        /\ generation \in [Generations -> Task] /\ generation[g] \in Task
    BY DEF AgreementsInv, AgreementsTypeOK
  \* The copies stay, and what the generation found is current.
  <1>1. ASSUME UNCHANGED <<version, copies, accepted, acceptance, stamp, named, overlapped>>,
               generation' = [generation EXCEPT ![g] = generation'[g]], generation'[g] \in Task,
               CopiesOK => \A v \in generation'[g].found : version[v].current,
               \A v \in generation'[g].found : version[v].type # "none"
        PROVE  AgreementsInv'
    <2>1. AgreementsTypeOK'
      BY <1>0, <1>1 DEF AgreementsTypeOK
    <2>2. VersionsOK' /\ (NamesOK => NamesOK')
      BY <1>0, <1>1 DEF AgreementsInv, VersionsOK, NamesOK, Current
    <2>3. CopiesOK => CopiesOK'
      BY <1>0, <1>1 DEF CopiesOK
    <2> QED BY <1>1, <2>1, <2>2, <2>3 DEF AgreementsInv
  <1>2. CASE ListsCurrent(g)
    <2>1. generation'[g] = [generation[g] EXCEPT !.at = "listed",
                              !.todo = {ty \in AgreementTypes : Current(ty) # {}}]
      BY <1>0, <1>2 DEF ListsCurrent
    <2>2. generation'[g] \in Task /\ generation'[g].found = generation[g].found
      BY <1>0, <2>1
    <2>3. /\ CopiesOK => \A v \in generation'[g].found : version[v].current
          /\ \A v \in generation'[g].found : version[v].type # "none"
      BY <2>2 DEF CopiesOK, AgreementsInv, VersionsOK
    <2>4. generation' = [generation EXCEPT ![g] = generation'[g]]
      BY <1>0, <1>2 DEF ListsCurrent
    <2> QED BY <1>1, <1>2, <2>2, <2>3, <2>4 DEF ListsCurrent
  <1>3. CASE GenerationEnds(g)
    BY <1>0, <1>1, <1>3 DEF GenerationEnds
  <1>4. ASSUME NEW type \in AgreementTypes, ReadsCurrent(g, type) PROVE AgreementsInv'
    <2>1. /\ generation' = [generation EXCEPT ![g].found = Current(type), ![g].todo = @ \ {type}]
          /\ UNCHANGED <<version, copies, accepted, acceptance, stamp, named, overlapped>>
      BY <1>4 DEF ReadsCurrent
    <2>2. /\ generation'[g].found = Current(type) /\ generation'[g] \in Task
          /\ generation' = [generation EXCEPT ![g] = generation'[g]]
      BY <1>0, <2>1 DEF Current
    <2>3. \A v \in Current(type) : version[v].current /\ version[v].type # "none"
      BY DEF Current, AgreementTypes
    <2> QED BY <1>1, <2>1, <2>2, <2>3
  <1>5. ASSUME NEW v \in Versions, CreatesCopy(g, v) PROVE AgreementsInv'
    <2>1. /\ generation[g].found = {v}
          /\ copies' = IF v \in ToSet(copies) THEN copies ELSE Append(copies, v)
          /\ generation' = [generation EXCEPT ![g].found = {}]
          /\ UNCHANGED <<version, accepted, acceptance, stamp, named, overlapped>>
      BY <1>5 DEF CreatesCopy
    <2>2. generation'[g] \in Task /\ generation'[g].found = {}
      BY <1>0, <2>1
    <2>3. CASE v \in ToSet(copies)
      BY <1>1, <2>1, <2>2, <2>3
    <2>4. CASE v \notin ToSet(copies)
      <3> DEFINE n == Len(copies)
      <3>1. /\ n \in Nat /\ DOMAIN copies = 1 .. n /\ DOMAIN copies' = 1 .. n + 1
            /\ copies' \in Seq(Versions) /\ copies'[n + 1] = v
            /\ \A i \in 1 .. n : copies'[i] = copies[i]
        BY <1>0, <2>1, <2>4
      <3>2. \A i \in 1 .. n : copies[i] # v
        BY <2>4, <3>1 DEF ToSet
      <3>3. \A i \in DOMAIN copies' : i = n + 1 \/ i \in 1 .. n
        BY <3>1
      <3> HIDE DEF n
      <3>4. IsInjective(copies')
        <4>1. IsInjective(copies)
          BY <1>0 DEF AgreementsTypeOK
        <4> QED BY <3>1, <3>2, <3>3, <4>1 DEF IsInjective
      <3>5. accepted' \subseteq ToSet(copies')
        <4>1. \A i \in 1 .. n : i \in DOMAIN copies'
          BY <3>1
        <4>2. ToSet(copies) \subseteq ToSet(copies')
          BY <3>1, <4>1 DEF ToSet
        <4> QED BY <1>0, <2>1, <4>2
      <3>6. AgreementsTypeOK'
        BY <1>0, <2>1, <2>2, <3>1, <3>4, <3>5 DEF AgreementsTypeOK
      <3>7. VersionsOK'
        <4>1. version[v].type # "none"
          BY <2>1 DEF AgreementsInv, VersionsOK
        <4>2. \A h \in Generations : generation'[h].found \subseteq generation[h].found
          BY <1>0, <2>1, <2>2
        <4> QED BY <2>1, <3>1, <3>3, <4>1, <4>2 DEF AgreementsInv, VersionsOK
      <3>8. NamesOK => NamesOK'
        BY <2>1 DEF NamesOK, Current
      <3>9. ASSUME CopiesOK PROVE CopiesOK'
        <4>1. version[v].current
          BY <2>1, <3>9 DEF CopiesOK
        <4>2. \A h \in Generations : generation'[h].found \subseteq generation[h].found
          BY <1>0, <2>1, <2>2
        <4>3. ASSUME NEW i \in DOMAIN copies', NEW j \in DOMAIN copies',
                     version[copies'[i]].current,
                     version[copies'[j]].type = version[copies'[i]].type
              PROVE  j <= i
          <5>1. CASE i = n + 1
            BY <3>1, <3>3, <5>1
          <5>2. CASE i # n + 1 /\ j # n + 1
            BY <3>1, <3>3, <3>9, <4>3, <5>2 DEF CopiesOK
          <5>3. ~(i # n + 1 /\ j = n + 1)
            <6>1. SUFFICES ASSUME i # n + 1, j = n + 1 PROVE FALSE
              OBVIOUS
            <6>2. copies'[i] = copies[i] /\ i \in 1 .. n /\ copies[i] \in Versions
              BY <1>0, <3>1, <3>3, <6>1
            <6>3. copies[i] = v
              BY <3>1, <4>1, <4>3, <6>1, <6>2 DEF AgreementsInv, VersionsOK
            <6> QED BY <3>2, <6>2, <6>3
          <5> QED BY <5>1, <5>2, <5>3
        <4> QED BY <2>1, <3>9, <4>2, <4>3 DEF CopiesOK
      <3> QED BY <2>1, <3>6, <3>7, <3>8, <3>9 DEF AgreementsInv
    <2> QED BY <2>3, <2>4
  <1> QED BY <1>2, <1>3, <1>4, <1>5

\* acceptAgreements().
LEMMA AcceptancesKeep ==
    ASSUME AgreementsInv, NEW c \in Acceptances, ValidatesTerms(c) \/ AcceptsAll(c) \/ StampsTenant(c)
    PROVE  AgreementsInv'
  <1>0. /\ acceptance \in [Acceptances -> [at : {"idle", "validated", "accepted", "done"},
                                           terms : SUBSET Versions]]
        /\ accepted \subseteq ToSet(copies) /\ AgreementsTypeOK /\ copies \in Seq(Versions)
    BY DEF AgreementsInv, AgreementsTypeOK
  <1>1. UNCHANGED <<version, copies, generation, overlapped>>
    BY DEF ValidatesTerms, AcceptsAll, StampsTenant
  <1>2. VersionsOK' /\ (CopiesOK => CopiesOK') /\ Current("TERMS")' = Current("TERMS")
    BY <1>1 DEF AgreementsInv, VersionsOK, CopiesOK, Current
  <1>3. CASE ValidatesTerms(c)
    <2>1. /\ acceptance' = [acceptance EXCEPT ![c] = [at |-> "validated", terms |-> Current("TERMS")]]
          /\ named' = named \cup Current("TERMS") /\ UNCHANGED <<accepted, stamp>>
      BY <1>3 DEF ValidatesTerms
    <2>2. AgreementsTypeOK'
      BY <1>0, <1>1, <2>1 DEF AgreementsTypeOK, Current
    <2>3. NamesOK => NamesOK'
      BY <1>0, <1>1, <1>2, <2>1 DEF NamesOK
    <2> QED BY <1>1, <1>2, <2>2, <2>3 DEF AgreementsInv
  <1>4. CASE AcceptsAll(c)
    <2>1. /\ acceptance[c].at = "validated" /\ acceptance' = [acceptance EXCEPT ![c].at = "accepted"]
          /\ accepted' = accepted \cup {v \in ToSet(copies) : version[v].current}
          /\ UNCHANGED <<named, stamp>>
      BY <1>4 DEF AcceptsAll
    <2>2. AgreementsTypeOK'
      <3>1. /\ accepted' \subseteq ToSet(copies') /\ named' = named /\ stamp' = stamp
            /\ acceptance' \in [Acceptances -> [at : {"idle", "validated", "accepted", "done"},
                                               terms : SUBSET Versions]]
        BY <1>0, <1>1, <2>1
      <3> QED BY <1>0, <1>1, <3>1 DEF AgreementsTypeOK
    <2>3. ToSet(copies) \subseteq Versions
      BY <1>0 DEF ToSet
    <2>4. ASSUME NamesOK PROVE NamesOK'
      <3>1. Current("TERMS") \subseteq named
        BY <2>1, <2>4 DEF NamesOK
      <3>2. \A v \in accepted' : version[v].type = "TERMS" => v \in named
        BY <2>1, <2>3, <2>4, <3>1 DEF NamesOK, Current
      <3>3. \A d \in Acceptances : acceptance'[d].at = "validated" => acceptance'[d] = acceptance[d]
        BY <1>0, <2>1
      <3> QED BY <1>1, <1>2, <2>1, <2>4, <3>2, <3>3 DEF NamesOK
    <2> QED BY <1>1, <1>2, <2>2, <2>4 DEF AgreementsInv
  <1>5. CASE StampsTenant(c)
    <2>1. /\ acceptance' = [acceptance EXCEPT ![c].at = "done"]
          /\ stamp' \in {stamp, acceptance[c].terms} /\ UNCHANGED <<named, accepted>>
      BY <1>5 DEF StampsTenant
    <2>2. AgreementsTypeOK'
      BY <1>0, <1>1, <2>1 DEF AgreementsTypeOK
    <2>3. NamesOK => NamesOK'
      BY <1>0, <1>1, <1>2, <2>1 DEF NamesOK
    <2> QED BY <1>1, <1>2, <2>2, <2>3 DEF AgreementsInv
  <1> QED BY <1>3, <1>4, <1>5

\* An accepted current version is the tenant's last copy of the document.
LEMMA AcceptedIsLast ==
    ASSUME AgreementsInv, CopiesOK, NEW type \in AgreementTypes, Current(type) \subseteq accepted
    PROVE  ~Outdated(type)
  <1> SUFFICES ASSUME NEW v \in Current(type)
               PROVE  LatestCopy(type) = Current(type) /\ LatestCopy(type) \subseteq accepted
    BY DEF Outdated
  <1>1. /\ v \in Versions /\ version[v].type = type /\ version[v].current /\ v \in ToSet(copies)
    BY DEF Current, AgreementsInv, AgreementsTypeOK
  <1>2. Current(type) = {v}
    BY <1>1 DEF AgreementsInv, VersionsOK, Current
  <1>3. PICK n \in DOMAIN copies : copies[n] = v
    BY <1>1 DEF ToSet
  <1>4. DOMAIN copies \subseteq Nat
    BY DEF AgreementsInv, AgreementsTypeOK
  <1> DEFINE generated == {i \in DOMAIN copies : version[copies[i]].type = type}
  <1>5. \A l \in generated : l <= n
    BY <1>1, <1>3 DEF CopiesOK
  <1>6. {k \in generated : \A l \in generated : l <= k} = {n}
    <2>1. n \in generated
      BY <1>1, <1>3
    <2>2. \A k \in generated : k \in Nat
      BY <1>4
    <2> HIDE DEF generated
    <2>3. \A k \in generated : n <= k => k = n
      BY <1>5, <2>1, <2>2
    <2> QED BY <1>5, <2>1, <2>3
  <1>7. LatestCopy(type) = {v}
    BY <1>3, <1>6 DEF LatestCopy
  <1> QED BY <1>2, <1>7

LEMMA AgreementsStay == AgreementsSpec => []AgreementsInv
<1>1. AgreementsInv /\ [AgreementsNext]_agreementsVars => AgreementsInv'
  <2>1. AgreementsInv /\ UNCHANGED agreementsVars => AgreementsInv'
    BY DEF AgreementsInv, AgreementsTypeOK, VersionsOK, NamesOK, CopiesOK, Current, agreementsVars
  <2> QED BY <2>1, VersionsKeep, GenerationsKeep, AcceptancesKeep DEF AgreementsNext
<1> QED BY <1>1, AgreementsBegin, PTL DEF AgreementsSpec

\* Whatever is published and activated, and however many copies are generated and accepted
\* at once: a tenant accepts the terms it named, and what it has accepted of the current
\* versions is not asked for again, within the bounds each part states.
THEOREM AgreementsAreKept == AgreementsSpec => []AgreementsHold
<1>1. AgreementsInv => AgreementsHold
  <2>1. AgreementsInv => TermsAsNamed
    BY DEF AgreementsInv, NamesOK, TermsAsNamed
  <2>2. AgreementsInv => AcceptedIsUpToDate
    BY AcceptedIsLast DEF AgreementsInv, AcceptedIsUpToDate
  <2> QED BY <2>1, <2>2 DEF AgreementsHold
<1> QED BY <1>1, AgreementsStay, PTL

-----------------------------------------------------------------------------
(* Prices: what a tenant is told, once.                                    *)

\* Whoever has a price in hand has it alone, and the tenant was not told of it yet.
InHand ==
    /\ \A c \in Announcers : /\ announcer[c].todo \subseteq Published
                             /\ announcer[c].at = "idle" => announcer[c].todo = {}
    /\ \A c \in Announcers : \A p \in announcer[c].todo :
          p \in doubled \/ (told[p] = 0 /\ \A d \in Announcers \ {c} : p \notin announcer[d].todo)

\* Each table has a price in effect from the first day.
Seeded == \A table \in PriceTables : \E p \in Published : price[p].table = table /\ price[p].effective = 0

PricesInv == PricesTypeOK /\ InHand /\ ToldOnce /\ Seeded

LEMMA PricesStart == PricesInit => PricesInv
<1> SUFFICES ASSUME PricesInit PROVE PricesInv
  OBVIOUS
<1> USE PriceBounds
<1>1. PICK plan \in PriceRows, seat \in PriceRows :
          /\ plan # seat
          /\ price = [p \in PriceRows |->
                 IF p = plan THEN [NoPrice EXCEPT !.status = "PUBLISHED"]
                 ELSE IF p = seat THEN [NoPrice EXCEPT !.status = "PUBLISHED", !.table = "seat_prices"]
                 ELSE NoPrice]
  BY DEF PricesInit
<1>2. PricesTypeOK
  <2> DEFINE Row == [table : PriceTables, status : {"ABSENT", "DRAFT", "PUBLISHED"},
                     raised : BOOLEAN, effective : Days]
  <2>1. 0 \in Days /\ 0 \in 0 .. LastPriceDay
    BY DEF Days
  <2>2. /\ NoPrice \in Row
        /\ [NoPrice EXCEPT !.status = "PUBLISHED"] \in Row
        /\ [NoPrice EXCEPT !.status = "PUBLISHED", !.table = "seat_prices"] \in Row
    BY <2>1 DEF NoPrice, PriceTables
  <2>3. price \in [PriceRows -> Row]
    <3> HIDE DEF Row
    <3> QED BY <1>1, <2>2
  <2>4. announcer \in [Announcers -> [at : {"idle", "listed"}, todo : SUBSET PriceRows]]
    BY DEF PricesInit, NoAnnouncer
  <2> QED BY <2>1, <2>3, <2>4 DEF PricesInit, PricesTypeOK
<1>3. InHand /\ ToldOnce
  <2>1. \A c \in Announcers : announcer[c].todo = {}
    BY DEF PricesInit, NoAnnouncer
  <2>2. \A p \in PriceRows : told[p] = 0
    BY DEF PricesInit
  <2> QED BY <2>1, <2>2 DEF InHand, ToldOnce
<1>4. Seeded
  <2>1. price[plan] = [NoPrice EXCEPT !.status = "PUBLISHED"]
        /\ price[seat] = [NoPrice EXCEPT !.status = "PUBLISHED", !.table = "seat_prices"]
    BY <1>1
  <2>2. plan \in Published /\ price[plan].table = "tier_prices" /\ price[plan].effective = 0
    BY <2>1 DEF Published, NoPrice
  <2>3. seat \in Published /\ price[seat].table = "seat_prices" /\ price[seat].effective = 0
    BY <2>1 DEF Published, NoPrice
  <2> QED BY <2>2, <2>3 DEF Seeded, PriceTables
<1> QED BY <1>2, <1>3, <1>4 DEF PricesInv

\* Drafting, editing and publishing: published rows are left alone, and a notice is long.
LEMMA RowsStep ==
    ASSUME PricesInv, NEW p \in PriceRows,
           DraftsPrice(p) \/ DraftsSeatPrice(p) \/ EditsDraft(p) \/ PublishesPrice(p)
              \/ PublishesSeatPrice(p)
    PROVE  /\ PricesTypeOK' /\ UNCHANGED <<today, told, announcer, doubled>>
           /\ \A q \in Published : price'[q] = price[q]
           /\ \A q \in PriceRows \ Published : price'[q].status = "PUBLISHED" =>
                  price'[q].effective >= today + NoticeDays
<1> USE PriceBounds DEF PricesInv, PricesTypeOK
<1> DEFINE Row == [table : PriceTables, status : {"ABSENT", "DRAFT", "PUBLISHED"},
                   raised : BOOLEAN, effective : Days]
<1>1. price[p] \in Row
  OBVIOUS
<1>2. CASE DraftsPrice(p)
  BY <1>1, <1>2 DEF DraftsPrice, Published
<1>3. CASE DraftsSeatPrice(p)
  BY <1>1, <1>3 DEF DraftsSeatPrice, Published, PriceTables
<1>4. CASE EditsDraft(p)
  BY <1>1, <1>4 DEF EditsDraft, Published
<1>5. CASE PublishesPrice(p) \/ PublishesSeatPrice(p)
  <2>1. PICK days \in Notice : Publishes(p, days)
    BY <1>5 DEF PublishesPrice, PublishesSeatPrice
  <2>2. days \in Nat /\ days >= NoticeDays /\ today + days \in Days
    BY <2>1 DEF Notice, Days
  <2>3. price'[p].effective = today + days /\ \A q \in PriceRows \ {p} : price'[q] = price[q]
    BY <2>1, <1>1 DEF Publishes
  <2>4. price' \in [PriceRows -> Row]
    BY <2>1, <2>2, <1>1 DEF Publishes
  <2>5. UNCHANGED <<today, told, announcer, doubled, notifiable, priceFailures>> /\ p \notin Published
    BY <2>1 DEF Publishes, Published
  <2>6. \A q \in Published : price'[q] = price[q]
    BY <2>3, <2>5 DEF Published
  <2>7. \A q \in PriceRows \ Published : price'[q].status = "PUBLISHED" =>
                  price'[q].effective >= today + NoticeDays
    BY <2>2, <2>3, <2>5 DEF Published
  <2> HIDE DEF Row
  <2> QED BY <2>4, <2>5, <2>6, <2>7 DEF Row
<1> QED BY <1>2, <1>3, <1>4, <1>5

LEMMA PricesHold == PricesInv /\ [PricesNext]_pricesVars => PricesInv'
<1> SUFFICES ASSUME PricesInv, [PricesNext]_pricesVars PROVE PricesInv'
  OBVIOUS
<1> USE PriceBounds DEF PricesInv
<1>1. CASE \E p \in PriceRows : DraftsPrice(p) \/ DraftsSeatPrice(p) \/ EditsDraft(p)
                                   \/ PublishesPrice(p) \/ PublishesSeatPrice(p)
  <2>1. /\ PricesTypeOK' /\ UNCHANGED <<today, told, announcer, doubled>>
        /\ \A q \in Published : price'[q] = price[q]
    BY <1>1, RowsStep
  <2>2. Published \subseteq Published'
    BY <2>1 DEF Published
  <2>3. InHand' /\ ToldOnce' /\ Seeded'
    BY <2>1, <2>2 DEF InHand, ToldOnce, Seeded
  <2> QED BY <2>1, <2>3
<1>2. ASSUME NEW c \in Announcers, ListsUntold(c) PROVE PricesInv'
  <2>1. Published' = Published /\ Untold \subseteq Published /\ \A p \in Untold : told[p] = 0
    BY <1>2 DEF ListsUntold, Published, Untold
  <2>2. PricesTypeOK'
    BY <1>2, <2>1 DEF ListsUntold, PricesTypeOK, Published
  <2>3. announcer[c].todo = {}
    BY <1>2 DEF ListsUntold, InHand
  <2>4. announcer'[c].todo = Untold /\ announcer'[c].at = "listed"
        /\ \A d \in Announcers \ {c} : announcer'[d] = announcer[d]
    BY <1>2 DEF ListsUntold, PricesTypeOK
  <2>5. InHand'
    BY <1>2, <2>1, <2>3, <2>4 DEF ListsUntold, InHand
  <2>6. ToldOnce' /\ Seeded'
    BY <1>2, <2>1 DEF ListsUntold, ToldOnce, Seeded
  <2> QED BY <2>2, <2>5, <2>6
<1>3. ASSUME NEW c \in Announcers, NEW p \in PriceRows, Tells(c, p) PROVE PricesInv'
  <2>1. Published' = Published /\ p \in Published
    BY <1>3 DEF Tells, Published, InHand
  <2>2. PricesTypeOK'
    BY <1>3 DEF Tells, PricesTypeOK
  <2>3. announcer'[c].todo = announcer[c].todo \ {p} /\ announcer'[c].at = announcer[c].at
        /\ \A d \in Announcers \ {c} : announcer'[d] = announcer[d]
    BY <1>3 DEF Tells, PricesTypeOK
  <2>4. told[p] \in Nat /\ told'[p] = told[p] + 1 /\ \A q \in PriceRows \ {p} : told'[q] = told[q]
    BY <1>3 DEF Tells, PricesTypeOK
  <2>5. InHand'
    BY <1>3, <2>1, <2>3, <2>4 DEF Tells, InHand, Published
  <2>6. ToldOnce'
    BY <1>3, <2>1, <2>4 DEF Tells, ToldOnce, InHand
  <2>7. Seeded'
    BY <1>3, <2>1 DEF Tells, Seeded
  <2> QED BY <2>2, <2>5, <2>6, <2>7
<1>4. ASSUME NEW c \in Announcers, EndsAnnouncing(c) PROVE PricesInv'
  <2>1. Published' = Published
    BY <1>4 DEF EndsAnnouncing, Published
  <2>2. PricesTypeOK'
    BY <1>4 DEF EndsAnnouncing, PriceFailure, PricesTypeOK, NoAnnouncer
  <2>3. announcer'[c] = NoAnnouncer /\ \A d \in Announcers \ {c} : announcer'[d] = announcer[d]
    BY <1>4 DEF EndsAnnouncing, PricesTypeOK
  <2>4. InHand'
    BY <1>4, <2>1, <2>3 DEF EndsAnnouncing, InHand, NoAnnouncer
  <2>5. ToldOnce' /\ Seeded'
    BY <1>4, <2>1 DEF EndsAnnouncing, ToldOnce, Seeded
  <2> QED BY <2>2, <2>4, <2>5
<1>5. CASE TenantTurns \/ DayPasses \/ UNCHANGED pricesVars
  <2>1. today' \in 0 .. LastPriceDay
    <3>1. today' = today \/ (today < LastPriceDay /\ today' = today + 1)
      BY <1>5 DEF TenantTurns, DayPasses, pricesVars
    <3> QED BY <3>1 DEF PricesTypeOK
  <2>4. notifiable' \in BOOLEAN
    <3>1. notifiable' = ~notifiable \/ notifiable' = notifiable
      BY <1>5 DEF TenantTurns, DayPasses, pricesVars
    <3> QED BY <3>1 DEF PricesTypeOK
  <2>3. PricesTypeOK'
    BY <1>5, <2>1, <2>4 DEF TenantTurns, DayPasses, pricesVars, PricesTypeOK
  <2>2. UNCHANGED <<price, told, announcer, doubled>>
    BY <1>5 DEF TenantTurns, DayPasses, pricesVars
  <2> QED BY <2>2, <2>3 DEF InHand, ToldOnce, Seeded, Published
<1> QED BY <1>1, <1>2, <1>3, <1>4, <1>5 DEF PricesNext, TellsOfPrice, TellsOfSeatPrice

\* A price of each table is in effect on every day, and the latest is one of them.
LEMMA OneIsCharged ==
    ASSUME PricesInv, NEW table \in PriceTables, NEW start \in Nat
    PROVE  AsOf(table, start) \in InEffect(table, start)
<1> DEFINE known == InEffect(table, start)
           dates == {price[p].effective : p \in known}
<1>1. \A p \in known : p \in PriceRows /\ price[p].effective \in Nat /\ price[p].effective <= start
  BY DEF PricesInv, PricesTypeOK, InEffect, Published, Days
<1>2. PICK seed \in Published : price[seed].table = table /\ price[seed].effective = 0
  BY DEF PricesInv, Seeded
<1>3. seed \in known
  BY <1>2 DEF InEffect
<1>4. dates \in SUBSET (0 .. start) /\ dates # {}
  BY <1>1, <1>3
<1>5. PICK date \in dates : \A other \in dates : other <= date
  <2> HIDE DEF dates
  <2> QED BY <1>4, HasGreatest
<1>6. PICK p \in known : date = price[p].effective
  BY <1>5
<1>7. p \in Latest(table, start)
  BY <1>5, <1>6 DEF Latest
<1>8. AsOf(table, start) \in Latest(table, start)
  BY <1>7 DEF AsOf
<1> QED BY <1>8 DEF Latest

\* A step that writes a price leaves what is charged within the notice as it is.
LEMMA SettledStep ==
    ASSUME PricesInv, PricesNext, price' # price
    PROVE  \A table \in PriceTables, start \in today .. today + NoticeDays - 1 :
               Charged(table, start)' = Charged(table, start)
<1>1. PICK p \in PriceRows : DraftsPrice(p) \/ DraftsSeatPrice(p) \/ EditsDraft(p)
                                \/ PublishesPrice(p) \/ PublishesSeatPrice(p)
  BY DEF PricesNext, ListsUntold, EndsAnnouncing, TellsOfPrice, TellsOfSeatPrice, Tells,
         TenantTurns, DayPasses
<1>2. /\ PricesTypeOK'
      /\ \A q \in Published : price'[q] = price[q]
      /\ \A q \in PriceRows \ Published : price'[q].status = "PUBLISHED" =>
             price'[q].effective >= today + NoticeDays
  BY <1>1, RowsStep
<1> SUFFICES ASSUME NEW table \in PriceTables, NEW start \in today .. today + NoticeDays - 1
             PROVE  Charged(table, start)' = Charged(table, start)
  OBVIOUS
<1>3. today \in Nat /\ NoticeDays \in Nat /\ start \in Nat /\ start < today + NoticeDays
  BY PriceBounds DEF PricesInv, PricesTypeOK
<1>4. \A q \in PriceRows : price'[q].effective \in Nat
  BY <1>2 DEF PricesTypeOK, Days
<1>5. InEffect(table, start)' = InEffect(table, start)
  <2>1. ASSUME NEW q \in InEffect(table, start) PROVE q \in InEffect(table, start)'
    BY <1>2 DEF InEffect, Published
  <2>2. ASSUME NEW q \in InEffect(table, start)' PROVE q \in InEffect(table, start)
    <3>1. q \in PriceRows /\ price'[q].status = "PUBLISHED" /\ price'[q].table = table
          /\ price'[q].effective <= start
      BY DEF InEffect, Published
    <3>2. q \in Published
      BY <1>2, <1>3, <1>4, <3>1
    <3> QED BY <1>2, <3>1, <3>2 DEF InEffect
  <2> QED BY <2>1, <2>2
<1>6. \A q \in InEffect(table, start) : price'[q] = price[q]
  BY <1>2 DEF InEffect
<1>7. Latest(table, start)' = Latest(table, start)
  BY <1>5, <1>6 DEF Latest
<1>8. AsOf(table, start)' = AsOf(table, start)
  BY <1>7 DEF AsOf
<1>9. AsOf(table, start) \in InEffect(table, start)
  BY <1>3, OneIsCharged
<1> QED BY <1>6, <1>8, <1>9 DEF Charged

-----------------------------------------------------------------------------
(* Notices: the documents a notification counts.                           *)

\* What a check has found is a notification there is, and lists what a notification may.
Found ==
    \A d \in Invoices :
        /\ announcing[d].existing \in 0 .. Len(notices)
        /\ announcing[d].at = "done" => announcing[d].existing # 0
        /\ announcing[d].at = "none" => announcing[d].existing = 0
        /\ IsFiniteSet(announcing[d].documents)
        /\ Cardinality(announcing[d].documents) <= MaxListed

\* A list and what it stands for are finite.
Listing ==
    \A i \in DOMAIN notices : /\ IsFiniteSet(Announced(i)) /\ IsFiniteSet(notices[i].documents)
                              /\ Cardinality(notices[i].documents) <= MaxListed

\* A check between its look-up and its write knows what the row says, unless a document
\* the row stands for is flagged.
Known ==
    \A d \in Invoices :
        announcing[d].at = "found" /\ announcing[d].existing # 0 =>
            LET i == announcing[d].existing IN
            \/ Announced(i) \cap overwritten # {}
            \/ /\ announcing[d].documents = notices[i].documents
               /\ announcing[d].count = notices[i].count

NoticesInv == NoticesTypeOK /\ Found /\ Listing /\ Known /\ NoticeCountsDocuments

LEMMA NoticesStart == NoticesInit => NoticesInv
<1> SUFFICES ASSUME NoticesInit PROVE NoticesInv
  OBVIOUS
<1>1. NoticesTypeOK
  BY DEF NoticesInit, NoticesTypeOK, NoAnnouncement, Announcement
<1>2. IsFiniteSet({}) /\ Cardinality({}) = 0
  BY FS_EmptySet
<1>3. \A d \in Invoices : announcing[d] = NoAnnouncement
  BY DEF NoticesInit
<1>5. Len(notices) = 0 /\ DOMAIN notices = {}
  BY DEF NoticesInit
<1>4. Found /\ Known
  <2>1. \A d \in Invoices : /\ announcing[d].at = "none" /\ announcing[d].existing = 0
                            /\ announcing[d].documents = {}
    BY <1>3 DEF NoAnnouncement
  <2>2. Known
    BY <2>1 DEF Known
  <2>3. 0 \in 0 .. Len(notices) /\ Cardinality({}) <= MaxListed
    BY <1>2, <1>5, NoticeBounds
  <2>4. Found
    BY <1>2, <2>1, <2>3 DEF Found
  <2> QED BY <2>2, <2>4
<1>6. Listing /\ NoticeCountsDocuments
  BY <1>5 DEF Listing, NoticeCountsDocuments
<1> QED BY <1>1, <1>4, <1>6 DEF NoticesInv

\* The look-up finds the newest of the open notifications, or that there is none.
LEMMA FindsNoticeHolds ==
    ASSUME NoticesInv, NEW d \in Invoices, FindsNotice(d)
    PROVE  NoticesInv'
<1> USE NoticeBounds DEF NoticesInv
<1>1. announcing[d].at = "none" /\ UNCHANGED <<notices, noticeFailures, overwritten>>
  BY DEF FindsNotice
<1>2. PICK a \in Announcement :
          /\ announcing' = [announcing EXCEPT ![d] = a]
          /\ a.at = "found"
          /\ \/ a.existing = 0 /\ a.documents = announcing[d].documents
             \/ /\ a.existing \in DOMAIN notices
                /\ a.documents = notices[a.existing].documents
                /\ a.count = notices[a.existing].count
  <2>1. CASE Pending = {}
    <3> DEFINE a == [announcing[d] EXCEPT !.at = "found"]
    <3>1. announcing' = [announcing EXCEPT ![d] = a]
      BY <2>1 DEF FindsNotice
    <3>2. announcing[d] \in Announcement /\ announcing[d].existing = 0
      BY <1>1 DEF NoticesTypeOK, Found
    <3>3. a \in Announcement /\ a.at = "found" /\ a.existing = 0
          /\ a.documents = announcing[d].documents
      BY <3>2 DEF Announcement
    <3> HIDE DEF a
    <3> QED BY <3>1, <3>3
  <2>2. CASE Pending # {}
    <3> DEFINE newest == CHOOSE i \in Pending : \A k \in Pending : k <= i
               a == [at |-> "found", existing |-> newest, documents |-> notices[newest].documents,
                     count |-> notices[newest].count]
    <3>1. Len(notices) \in Nat /\ DOMAIN notices = 1 .. Len(notices)
      BY DEF NoticesTypeOK
    <3>2. Pending \in SUBSET (0 .. Len(notices))
      BY <3>1 DEF Pending
    <3>3. \E i \in Pending : \A k \in Pending : k <= i
      BY <2>2, <3>1, <3>2, HasGreatest
    <3>4. newest \in Pending
      BY <3>3
    <3>5. announcing' = [announcing EXCEPT ![d] = a]
      BY <2>2 DEF FindsNotice
    <3> HIDE DEF newest
    <3>6. newest \in DOMAIN notices /\ newest \in Nat
      BY <3>1, <3>4 DEF Pending
    <3>7. notices[newest] \in Notification
      BY <3>6 DEF NoticesTypeOK
    <3>8. a \in Announcement
      BY <3>6, <3>7 DEF Announcement, Notification
    <3>9. a.at = "found" /\ a.existing = newest /\ a.documents = notices[newest].documents
          /\ a.count = notices[newest].count
      OBVIOUS
    <3> HIDE DEF a
    <3> QED BY <3>5, <3>6, <3>8, <3>9
  <2> QED BY <2>1, <2>2
<1>10. announcing'[d] = a /\ \A e \in Invoices \ {d} : announcing'[e] = announcing[e]
  BY <1>2 DEF NoticesTypeOK
<1>3. NoticesTypeOK'
  BY <1>1, <1>2 DEF NoticesTypeOK
<1>4. \A i : Announced(i)' = Announced(i)
  BY <1>1, <1>2, <1>10 DEF Announced
<1>5. Listing'
  BY <1>1, <1>4 DEF Listing
<1>6. NoticeCountsDocuments'
  BY <1>1, <1>4 DEF NoticeCountsDocuments
<1>7. Len(notices) \in Nat /\ DOMAIN notices = 1 .. Len(notices)
  BY DEF NoticesTypeOK
<1>8. Found'
  <2> SUFFICES ASSUME NEW e \in Invoices
               PROVE  /\ announcing'[e].existing \in 0 .. Len(notices)
                      /\ announcing'[e].at = "done" => announcing'[e].existing # 0
                      /\ announcing'[e].at = "none" => announcing'[e].existing = 0
                      /\ IsFiniteSet(announcing'[e].documents)
                      /\ Cardinality(announcing'[e].documents) <= MaxListed
    BY <1>1 DEF Found
  <2>1. CASE e # d
    BY <1>10, <2>1 DEF Found
  <2>2. CASE e = d
    BY <1>2, <1>7, <1>10, <2>2 DEF Found, Listing
  <2> QED BY <2>1, <2>2
<1>9. Known'
  <2> SUFFICES ASSUME NEW e \in Invoices, announcing'[e].at = "found", announcing'[e].existing # 0,
                      NEW i, i = announcing'[e].existing
               PROVE  \/ Announced(i) \cap overwritten # {}
                      \/ /\ announcing'[e].documents = notices[i].documents
                         /\ announcing'[e].count = notices[i].count
    BY <1>1, <1>4 DEF Known
  <2>1. CASE e # d
    BY <1>10, <2>1 DEF Known
  <2>2. CASE e = d
    BY <1>2, <1>10, <2>2
  <2> QED BY <2>1, <2>2
<1> QED BY <1>3, <1>5, <1>6, <1>8, <1>9

\* Counting: a document more in a list.
LEMMA OneMoreListed ==
    ASSUME NEW S, NEW d, IsFiniteSet(S)
    PROVE  /\ IsFiniteSet(S \cup {d}) /\ Cardinality(S) \in Nat
           /\ d \notin S => Cardinality(S \cup {d}) = Cardinality(S) + 1
           /\ Cardinality(S \cup {d}) <= Cardinality(S) + 1
<1>1. Cardinality(S) \in Nat
  BY FS_CardinalityType
<1>2. IsFiniteSet(S \cup {d})
      /\ (d \notin S => Cardinality(S \cup {d}) = Cardinality(S) + 1)
      /\ (d \in S => Cardinality(S \cup {d}) = Cardinality(S))
  BY FS_AddElement
<1> QED BY <1>1, <1>2

\* The first document of a notification: the row is the check's own.
LEMMA OpensNoticeHolds ==
    ASSUME NoticesInv, NEW d \in Invoices, WritesNotice(d), announcing[d].existing = 0
    PROVE  NoticesInv'
<1> USE NoticeBounds DEF NoticesInv
<1>0. PICK n \in Nat : n = Len(notices) + 1
  BY DEF NoticesTypeOK
<1> DEFINE first == [unread |-> TRUE, recent |-> TRUE, documents |-> {d}, count |-> 1]
           a == [announcing[d] EXCEPT !.at = "done", !.existing = n]
<1>1. Len(notices) \in Nat /\ DOMAIN notices = 1 .. Len(notices)
  BY DEF NoticesTypeOK
<1>2. /\ announcing[d].at = "found" /\ UNCHANGED <<noticeFailures, overwritten>>
      /\ notices' = Append(notices, first)
      /\ announcing' = [announcing EXCEPT ![d] = a]
  <2>1. announcing[d] \in Announcement
    BY DEF NoticesTypeOK
  <2> QED BY <1>0, <2>1 DEF WritesNotice
<1>3. first \in Notification /\ first.documents = {d} /\ first.count = 1
  BY DEF Notification
<1>4. a \in Announcement /\ a.at = "done" /\ a.existing = n /\ a.documents = announcing[d].documents
  <2>1. announcing[d] \in Announcement
    BY DEF NoticesTypeOK
  <2> QED BY <1>0, <2>1 DEF Announcement
<1> HIDE DEF first, a
<1>5. announcing'[d] = a /\ \A e \in Invoices \ {d} : announcing'[e] = announcing[e]
  BY <1>2 DEF NoticesTypeOK
<1>6. /\ Len(notices') = n /\ DOMAIN notices' = 1 .. n
      /\ notices'[n] = first /\ \A i \in DOMAIN notices : notices'[i] = notices[i]
  BY <1>0, <1>1, <1>2, <1>3 DEF NoticesTypeOK
<1>7. NoticesTypeOK'
  BY <1>2, <1>3, <1>4 DEF NoticesTypeOK
<1>8. \A e \in Invoices : announcing[e].existing # n
  BY <1>0, <1>1 DEF Found
<1>9. Announced(n)' = {d}
  BY <1>4, <1>5, <1>8 DEF Announced
<1>10. \A i \in DOMAIN notices : Announced(i)' = Announced(i)
  BY <1>0, <1>1, <1>2, <1>4, <1>5 DEF Announced
<1>11. IsFiniteSet({d}) /\ Cardinality({d}) = 1
  BY FS_Singleton
<1>12. Listing'
  <2>1. \A i \in DOMAIN notices : /\ IsFiniteSet(Announced(i)') /\ IsFiniteSet(notices'[i].documents)
                                  /\ Cardinality(notices'[i].documents) <= MaxListed
    BY <1>6, <1>10 DEF Listing
  <2>2. IsFiniteSet(Announced(n)') /\ IsFiniteSet(notices'[n].documents)
        /\ Cardinality(notices'[n].documents) <= MaxListed
    <3>1. notices'[n].documents = {d} /\ 1 <= MaxListed
      BY <1>3, <1>6
    <3> QED BY <1>9, <1>11, <3>1
  <2>3. \A i \in DOMAIN notices' : i \in DOMAIN notices \/ i = n
    BY <1>0, <1>1, <1>6
  <2> QED BY <2>1, <2>2, <2>3 DEF Listing
<1>13. NoticeCountsDocuments'
  <2>1. \A i \in DOMAIN notices' : i \in DOMAIN notices \/ i = n
    BY <1>0, <1>1, <1>6
  <2>2. /\ notices'[n].count = Cardinality(Announced(n)')
        /\ notices'[n].documents = Announced(n)'
    BY <1>3, <1>6, <1>9, <1>11
  <2>3. ASSUME NEW i \in DOMAIN notices, Announced(i)' \cap overwritten' = {}
        PROVE  /\ notices'[i].count = Cardinality(Announced(i)')
               /\ notices'[i].documents \subseteq Announced(i)'
               /\ Cardinality(notices'[i].documents) = MaxListed \/ notices'[i].documents = Announced(i)'
    BY <1>2, <1>6, <1>10, <2>3 DEF NoticeCountsDocuments
  <2> QED BY <2>1, <2>2, <2>3 DEF NoticeCountsDocuments
<1>14. Found'
  <2>1. ASSUME NEW e \in Invoices, e # d
        PROVE  /\ announcing'[e].existing \in 0 .. Len(notices')
               /\ announcing'[e].at = "done" => announcing'[e].existing # 0
               /\ announcing'[e].at = "none" => announcing'[e].existing = 0
               /\ IsFiniteSet(announcing'[e].documents)
               /\ Cardinality(announcing'[e].documents) <= MaxListed
    BY <1>0, <1>1, <1>5, <1>6, <2>1 DEF Found
  <2>2. /\ announcing'[d].existing \in 0 .. Len(notices')
        /\ announcing'[d].at = "done" /\ announcing'[d].existing # 0
        /\ IsFiniteSet(announcing'[d].documents)
        /\ Cardinality(announcing'[d].documents) <= MaxListed
    BY <1>0, <1>1, <1>4, <1>5, <1>6 DEF Found
  <2> QED BY <2>1, <2>2 DEF Found
<1>15. Known'
  <2> SUFFICES ASSUME NEW e \in Invoices, announcing'[e].at = "found", announcing'[e].existing # 0,
                      NEW i, i = announcing'[e].existing
               PROVE  \/ Announced(i)' \cap overwritten' # {}
                      \/ /\ announcing'[e].documents = notices'[i].documents
                         /\ announcing'[e].count = notices'[i].count
    BY DEF Known
  <2>1. e # d /\ announcing'[e] = announcing[e]
    BY <1>4, <1>5
  <2>2. i \in DOMAIN notices
    BY <1>1, <2>1 DEF Found
  <2> QED BY <1>2, <1>6, <1>10, <2>1, <2>2 DEF Known
<1> QED BY <1>7, <1>12, <1>13, <1>14, <1>15

\* A later document: the row is written with what the check had read of it.
LEMMA AddsToNoticeHolds ==
    ASSUME NoticesInv, NEW d \in Invoices, WritesNotice(d), announcing[d].existing # 0
    PROVE  NoticesInv'
<1> USE NoticeBounds DEF NoticesInv
<1>0. PICK j \in Nat : j = announcing[d].existing
  BY DEF NoticesTypeOK, Announcement
<1> DEFINE list == Listed(d, announcing[d])
           row == [notices[j] EXCEPT !.documents = list, !.count = announcing[d].count + 1]
           a == [announcing[d] EXCEPT !.at = "done"]
<1>1. Len(notices) \in Nat /\ DOMAIN notices = 1 .. Len(notices) /\ j \in DOMAIN notices
  BY <1>0 DEF NoticesTypeOK, Found
<1>2. announcing[d] \in Announcement /\ notices[j] \in Notification
  BY <1>1 DEF NoticesTypeOK
<1>3. /\ list \subseteq Invoices /\ IsFiniteSet(list) /\ Cardinality(list) \in Nat
      /\ Cardinality(list) <= MaxListed
      /\ \/ Cardinality(announcing[d].documents) = MaxListed /\ list = announcing[d].documents
         \/ list = announcing[d].documents \cup {d}
  <2> DEFINE docs == announcing[d].documents
  <2>1. IsFiniteSet(docs) /\ Cardinality(docs) <= MaxListed /\ docs \subseteq Invoices
    BY <1>2 DEF Found, Announcement
  <2>2. list = IF Cardinality(docs) < MaxListed THEN docs \cup {d} ELSE docs
    BY DEF Listed
  <2> HIDE DEF docs, list
  <2>3. /\ IsFiniteSet(docs \cup {d}) /\ Cardinality(docs) \in Nat
        /\ Cardinality(docs \cup {d}) <= Cardinality(docs) + 1
    BY <2>1, OneMoreListed
  <2>4. Cardinality(docs \cup {d}) \in Nat
    BY <2>3, FS_CardinalityType
  <2>5. CASE Cardinality(docs) < MaxListed
    BY <2>1, <2>2, <2>3, <2>4, <2>5 DEF docs
  <2>6. CASE ~(Cardinality(docs) < MaxListed)
    BY <2>1, <2>2, <2>3, <2>4, <2>6 DEF docs
  <2> QED BY <2>5, <2>6
<1>4. /\ announcing[d].at = "found" /\ UNCHANGED noticeFailures
      /\ notices' = [notices EXCEPT ![j] = row]
      /\ announcing' = [announcing EXCEPT ![d] = a]
      /\ overwritten \subseteq overwritten' /\ overwritten' \subseteq overwritten \cup {d}
      /\ \A e \in Invoices \ {d} : announcing[e].at = "found" /\ announcing[e].existing = j
             => d \in overwritten'
  <2>1. notices' = [notices EXCEPT ![j] = row]
    BY <1>0, <1>1, <1>2 DEF WritesNotice, Count, Notification, NoticesTypeOK
  <2>2. announcing' = [announcing EXCEPT ![d] = a]
    BY <1>0, <1>2 DEF WritesNotice, Announcement
  <2> HIDE DEF row, a, list
  <2> QED BY <1>0, <2>1, <2>2 DEF WritesNotice
<1>5. a \in Announcement /\ a.at = "done" /\ a.existing = j /\ a.documents = announcing[d].documents
  BY <1>0, <1>2 DEF Announcement
<1>6. row \in Notification /\ row.documents = list /\ row.count = announcing[d].count + 1
  <2>1. announcing[d].count + 1 \in Nat
    BY <1>2 DEF Announcement
  <2> HIDE DEF list
  <2> QED BY <1>2, <1>3, <2>1 DEF Notification
<1> HIDE DEF list, row, a
<1>7. announcing'[d] = a /\ \A e \in Invoices \ {d} : announcing'[e] = announcing[e]
  BY <1>4 DEF NoticesTypeOK
<1>8. /\ Len(notices') = Len(notices) /\ DOMAIN notices' = DOMAIN notices
      /\ notices'[j] = row /\ \A i \in DOMAIN notices : i # j => notices'[i] = notices[i]
  BY <1>1, <1>4, <1>6 DEF NoticesTypeOK
<1>9. NoticesTypeOK'
  <2>1. notices' \in Seq(Notification)
    BY <1>1, <1>4, <1>6 DEF NoticesTypeOK
  <2>2. announcing' \in [Invoices -> Announcement]
    BY <1>4, <1>5 DEF NoticesTypeOK
  <2>3. noticeFailures' \in Nat /\ overwritten' \subseteq Invoices
    BY <1>4 DEF NoticesTypeOK
  <2> QED BY <2>1, <2>2, <2>3 DEF NoticesTypeOK
<1>10. Announced(j)' = Announced(j) \cup {d} /\ d \notin Announced(j)
  BY <1>4, <1>5, <1>7 DEF Announced
<1>11. \A i \in DOMAIN notices : i # j => Announced(i)' = Announced(i)
  BY <1>4, <1>5, <1>7 DEF Announced
<1>12. /\ IsFiniteSet(Announced(j)') /\ Cardinality(Announced(j)') = Cardinality(Announced(j)) + 1
  BY <1>1, <1>10, OneMoreListed DEF Listing
<1>13. Listing'
  <2>1. IsFiniteSet(Announced(j)') /\ IsFiniteSet(notices'[j].documents)
        /\ Cardinality(notices'[j].documents) <= MaxListed
    BY <1>3, <1>6, <1>8, <1>12
  <2>2. \A i \in DOMAIN notices : i # j =>
            /\ IsFiniteSet(Announced(i)') /\ IsFiniteSet(notices'[i].documents)
            /\ Cardinality(notices'[i].documents) <= MaxListed
    BY <1>8, <1>11 DEF Listing
  <2> QED BY <1>8, <2>1, <2>2 DEF Listing
<1>14. NoticeCountsDocuments'
  <2>1. ASSUME Announced(j)' \cap overwritten' = {}
        PROVE  /\ notices'[j].count = Cardinality(Announced(j)')
               /\ notices'[j].documents \subseteq Announced(j)'
               /\ Cardinality(notices'[j].documents) = MaxListed \/ notices'[j].documents = Announced(j)'
    <3>1. Announced(j) \cap overwritten = {}
      BY <1>4, <1>10, <2>1
    <3>2. announcing[d].documents = notices[j].documents /\ announcing[d].count = notices[j].count
      BY <1>0, <1>4, <3>1 DEF Known
    <3>3. /\ notices[j].count = Cardinality(Announced(j))
          /\ notices[j].documents \subseteq Announced(j)
          /\ Cardinality(notices[j].documents) = MaxListed \/ notices[j].documents = Announced(j)
      BY <1>1, <3>1 DEF NoticeCountsDocuments
    <3>4. notices'[j].count = Cardinality(Announced(j)')
      BY <1>6, <1>8, <1>12, <3>2, <3>3
    <3>5. CASE list = announcing[d].documents \cup {d}
      <4>1. notices'[j].documents = notices[j].documents \cup {d}
        BY <1>6, <1>8, <3>2, <3>5
      <4>2. CASE notices[j].documents = Announced(j)
        BY <1>10, <3>4, <4>1, <4>2
      <4>3. CASE Cardinality(notices[j].documents) = MaxListed
        <5>1. d \notin notices[j].documents
          BY <1>10, <3>3
        <5>2. Cardinality(notices'[j].documents) = MaxListed + 1
          BY <1>1, <4>1, <4>3, <5>1, OneMoreListed DEF Listing
        <5>3. Cardinality(notices'[j].documents) <= MaxListed
          BY <1>3, <1>6, <1>8
        <5> QED BY <5>2, <5>3
      <4> QED BY <3>3, <4>2, <4>3
    <3>6. CASE Cardinality(announcing[d].documents) = MaxListed /\ list = announcing[d].documents
      BY <1>6, <1>8, <1>10, <3>2, <3>3, <3>4, <3>6
    <3> QED BY <1>3, <3>5, <3>6
  <2>2. ASSUME NEW i \in DOMAIN notices, i # j, Announced(i)' \cap overwritten' = {}
        PROVE  /\ notices'[i].count = Cardinality(Announced(i)')
               /\ notices'[i].documents \subseteq Announced(i)'
               /\ Cardinality(notices'[i].documents) = MaxListed \/ notices'[i].documents = Announced(i)'
    BY <1>4, <1>8, <1>11, <2>2 DEF NoticeCountsDocuments
  <2> QED BY <1>8, <2>1, <2>2 DEF NoticeCountsDocuments
<1>15. Found'
  <2>1. ASSUME NEW e \in Invoices, e # d
        PROVE  /\ announcing'[e].existing \in 0 .. Len(notices')
               /\ announcing'[e].at = "done" => announcing'[e].existing # 0
               /\ announcing'[e].at = "none" => announcing'[e].existing = 0
               /\ IsFiniteSet(announcing'[e].documents)
               /\ Cardinality(announcing'[e].documents) <= MaxListed
    BY <1>7, <1>8, <2>1 DEF Found
  <2>2. /\ announcing'[d].existing \in 0 .. Len(notices')
        /\ announcing'[d].at = "done" /\ announcing'[d].existing # 0
        /\ IsFiniteSet(announcing'[d].documents)
        /\ Cardinality(announcing'[d].documents) <= MaxListed
    BY <1>1, <1>5, <1>7, <1>8 DEF Found
  <2> QED BY <2>1, <2>2 DEF Found
<1>16. Known'
  <2> SUFFICES ASSUME NEW e \in Invoices, announcing'[e].at = "found", announcing'[e].existing # 0,
                      NEW i, i = announcing'[e].existing
               PROVE  \/ Announced(i)' \cap overwritten' # {}
                      \/ /\ announcing'[e].documents = notices'[i].documents
                         /\ announcing'[e].count = notices'[i].count
    BY DEF Known
  <2>1. e # d /\ announcing'[e] = announcing[e]
    BY <1>5, <1>7
  <2>2. i \in DOMAIN notices
    BY <1>1, <2>1 DEF Found
  <2>3. CASE i = j
    BY <1>4, <1>10, <2>1, <2>3
  <2>4. CASE i # j
    BY <1>4, <1>8, <1>11, <2>1, <2>2, <2>4 DEF Known
  <2> QED BY <2>3, <2>4
<1> QED BY <1>9, <1>13, <1>14, <1>15, <1>16

\* Failures and closings touch no list.
LEMMA NoticeClosesHolds ==
    ASSUME NoticesInv, NEW i \in DOMAIN notices, NoticeCloses(i)
    PROVE  NoticesInv'
<1> USE NoticeBounds DEF NoticesInv
<1>1. PICK row \in Notification :
          /\ row.documents = notices[i].documents /\ row.count = notices[i].count
          /\ notices' = [notices EXCEPT ![i] = row]
  <2>1. notices[i] \in Notification
    BY DEF NoticesTypeOK
  <2> DEFINE read == [notices[i] EXCEPT !.unread = FALSE]
             late == [notices[i] EXCEPT !.recent = FALSE]
  <2>2. notices' = [notices EXCEPT ![i] = read] \/ notices' = [notices EXCEPT ![i] = late]
    BY DEF NoticeCloses
  <2>3. /\ read \in Notification /\ read.documents = notices[i].documents
        /\ read.count = notices[i].count
        /\ late \in Notification /\ late.documents = notices[i].documents
        /\ late.count = notices[i].count
    BY <2>1 DEF Notification
  <2> HIDE DEF read, late
  <2> QED BY <2>2, <2>3
<1>2. UNCHANGED <<announcing, noticeFailures, overwritten>>
  BY DEF NoticeCloses
<1>3. Len(notices) \in Nat /\ DOMAIN notices = 1 .. Len(notices)
  BY DEF NoticesTypeOK
<1>4. /\ Len(notices') = Len(notices) /\ DOMAIN notices' = DOMAIN notices
      /\ \A k \in DOMAIN notices : notices'[k].documents = notices[k].documents
                                   /\ notices'[k].count = notices[k].count
  BY <1>1, <1>3 DEF NoticesTypeOK
<1>5. NoticesTypeOK'
  BY <1>1, <1>2 DEF NoticesTypeOK
<1>6. \A k : Announced(k)' = Announced(k)
  BY <1>2 DEF Announced
<1>7. Found' /\ Listing' /\ NoticeCountsDocuments'
  BY <1>2, <1>4, <1>6 DEF Found, Listing, NoticeCountsDocuments
<1>8. Known'
  <2> SUFFICES ASSUME NEW e \in Invoices, announcing[e].at = "found", announcing[e].existing # 0,
                      NEW k, k = announcing[e].existing
               PROVE  \/ Announced(k) \cap overwritten # {}
                      \/ /\ announcing[e].documents = notices'[k].documents
                         /\ announcing[e].count = notices'[k].count
    BY <1>2, <1>6 DEF Known
  <2>1. k \in DOMAIN notices
    BY <1>3 DEF Found
  <2> QED BY <1>4, <2>1 DEF Known
<1> QED BY <1>5, <1>7, <1>8

LEMMA NoticeFailsHolds ==
    ASSUME NoticesInv, NEW d \in Invoices, AnnouncingFails(d)
    PROVE  NoticesInv'
<1> USE NoticeBounds DEF NoticesInv
<1> DEFINE a == [NoAnnouncement EXCEPT !.at = "failed"]
<1>1. /\ announcing[d].at = "found" /\ UNCHANGED <<notices, overwritten>>
      /\ announcing' = [announcing EXCEPT ![d] = a] /\ noticeFailures' \in Nat
  BY DEF AnnouncingFails, NoticeFailure, NoticesTypeOK
<1>2. a \in Announcement /\ a.at = "failed" /\ a.existing = 0 /\ a.documents = {}
  BY DEF NoAnnouncement, Announcement
<1> HIDE DEF a
<1>3. announcing'[d] = a /\ \A e \in Invoices \ {d} : announcing'[e] = announcing[e]
  BY <1>1 DEF NoticesTypeOK
<1>4. NoticesTypeOK'
  BY <1>1, <1>2 DEF NoticesTypeOK
<1>5. \A k : Announced(k)' = Announced(k)
  BY <1>1, <1>2, <1>3 DEF Announced
<1>6. Listing' /\ NoticeCountsDocuments'
  BY <1>1, <1>5 DEF Listing, NoticeCountsDocuments
<1>7. IsFiniteSet({}) /\ Cardinality({}) <= MaxListed
  BY FS_EmptySet
<1>8. 0 \in 0 .. Len(notices)
  BY DEF NoticesTypeOK
<1>9. Found'
  BY <1>1, <1>2, <1>3, <1>7, <1>8 DEF Found
<1>10. Known'
  <2> SUFFICES ASSUME NEW e \in Invoices, announcing'[e].at = "found", announcing'[e].existing # 0,
                      NEW k, k = announcing'[e].existing
               PROVE  \/ Announced(k) \cap overwritten # {}
                      \/ /\ announcing'[e].documents = notices[k].documents
                         /\ announcing'[e].count = notices[k].count
    BY <1>1, <1>5 DEF Known
  <2>1. announcing'[e] = announcing[e]
    BY <1>2, <1>3
  <2> QED BY <2>1 DEF Known
<1> QED BY <1>4, <1>6, <1>9, <1>10

LEMMA NoticesHold == NoticesInv /\ [NoticesNext]_noticesVars => NoticesInv'
<1> SUFFICES ASSUME NoticesInv, [NoticesNext]_noticesVars PROVE NoticesInv'
  OBVIOUS
<1>1. CASE NoticesNext
  BY <1>1, FindsNoticeHolds, OpensNoticeHolds, AddsToNoticeHolds, NoticeClosesHolds, NoticeFailsHolds
     DEF NoticesNext
<1>2. CASE UNCHANGED noticesVars
  <2>1. UNCHANGED <<notices, announcing, noticeFailures, overwritten>>
    BY <1>2 DEF noticesVars
  <2>2. \A i : Announced(i)' = Announced(i)
    BY <2>1 DEF Announced
  <2> QED BY <2>1, <2>2 DEF NoticesInv, NoticesTypeOK, Found, Listing, Known, NoticeCountsDocuments
<1> QED BY <1>1, <1>2

-----------------------------------------------------------------------------
(* CertAlerts: the alert of the certificate.                               *)

\* While no two jobs looked for the alert at once there is one unread alert at most, and
\* the job between its look-up and its write knows it.
AlertKnown ==
    ~twin =>
        /\ \A j, k \in CertJobs : certJob[j].at = "found" /\ certJob[k].at = "found" => j = k
        /\ \A a, b \in Unread : a = b
        /\ \A j \in CertJobs : certJob[j].at = "found" => Unread \subseteq certJob[j].existing

\* And while nothing else moved, what it found is so.
AlertFresh ==
    fresh => /\ \A j \in CertJobs : certJob[j].at # "read"
             /\ ~twin => \A j \in CertJobs : certJob[j].at = "found" => certJob[j].existing = Unread

CertInv == CertTypeOK /\ AlertKnown /\ AlertFresh /\ AlertTellsCertificate

LEMMA CertStart == CertInit => CertInv
<1> SUFFICES ASSUME CertInit PROVE CertInv
  OBVIOUS
<1>1. CertTypeOK
  BY DEF CertInit, CertTypeOK, NoCertJob, CertStates
<1>2. Unread = {} /\ \A j \in CertJobs : certJob[j].at = "idle"
  BY DEF CertInit, Unread, CertStates, NoCertJob
<1>3. AlertKnown /\ AlertFresh /\ AlertTellsCertificate
  BY <1>2 DEF CertInit, AlertKnown, AlertFresh, AlertTellsCertificate
<1> QED BY <1>1, <1>3 DEF CertInv

\* A look-up finds one of the unread alerts, or that there is none.
LEMMA FindsAlertHolds ==
    ASSUME CertInv, NEW j \in CertJobs, FindsAlert(j)
    PROVE  CertInv'
<1> USE CertBounds DEF CertInv
<1>1. PICK found \in SUBSET Unread :
          /\ Cardinality(found) = IF Unread = {} THEN 0 ELSE 1
          /\ certJob' = [certJob EXCEPT ![j].at = "found", ![j].existing = found]
  BY DEF FindsAlert
<1>2. IsFiniteSet(found)
  BY FS_Subset DEF Unread
<1>3. (Unread = {} /\ found = {}) \/ \E a \in Unread : found = {a}
  <2>1. CASE Unread = {}
    BY <1>1, <2>1
  <2>2. CASE Unread # {}
    BY <1>1, <1>2, <2>2, FS_Singleton
  <2> QED BY <2>1, <2>2
<1>4. /\ certJob'[j] = [certJob[j] EXCEPT !.at = "found", !.existing = found]
      /\ \A k \in CertJobs \ {j} : certJob'[k] = certJob[k]
      /\ certJob[j].at = "read"
  BY <1>1 DEF FindsAlert, CertTypeOK
<1>5. certJob'[j].at = "found" /\ certJob'[j].existing = found
  BY <1>4 DEF CertTypeOK
<1>6. /\ UNCHANGED <<cert, alert, certFailures>>
      /\ twin' = (twin \/ \E k \in CertJobs \ {j} : certJob[k].at = "found")
      /\ fresh' = \A k \in CertJobs \ {j} : certJob[k].at = "idle"
      /\ Unread' = Unread
  BY DEF FindsAlert, Unread
<1>7. CertTypeOK'
  <2>1. certJob' \in [CertJobs -> [at : {"idle", "read", "found"}, cert : CertStates,
                                   existing : SUBSET Alerts]]
    BY <1>1 DEF CertTypeOK, Unread
  <2>2. twin' \in BOOLEAN
    BY <1>6 DEF CertTypeOK
  <2>3. fresh' \in BOOLEAN
    BY <1>6
  <2> QED BY <1>6, <2>1, <2>2, <2>3 DEF CertTypeOK
<1>8. AlertKnown'
  <2> SUFFICES ASSUME ~twin' PROVE AlertKnown'
    BY DEF AlertKnown
  <2>1. ~twin /\ \A k \in CertJobs \ {j} : certJob'[k].at # "found"
    BY <1>4, <1>6
  <2>2. \A a, b \in Unread : a = b
    BY <2>1 DEF AlertKnown
  <2>3. Unread \subseteq found
    BY <1>3, <2>2
  <2> QED BY <1>5, <1>6, <2>1, <2>2, <2>3 DEF AlertKnown
<1>9. AlertFresh'
  BY <1>3, <1>4, <1>5, <1>6 DEF AlertFresh, AlertKnown
<1>10. AlertTellsCertificate'
  BY <1>5 DEF AlertTellsCertificate
<1> QED BY <1>7, <1>8, <1>9, <1>10

\* The job writes what it found, and nobody else writes then.
LEMMA ChecksCertHolds ==
    ASSUME CertInv, NEW j \in CertJobs, ChecksCert(j)
    PROVE  CertInv'
<1> USE DEF CertInv
<1> DEFINE mine == certJob[j]
<1>1. /\ mine.at = "found" /\ mine.cert \in CertStates /\ UNCHANGED <<cert, certFailures, twin>>
      /\ certJob' = [certJob EXCEPT ![j] = NoCertJob]
      /\ fresh' = (fresh /\ mine.cert = cert)
  BY DEF ChecksCert, CertTypeOK
<1>2. certJob'[j].at = "idle" /\ \A k \in CertJobs \ {j} : certJob'[k] = certJob[k]
  BY <1>1 DEF CertTypeOK, NoCertJob
<1>3. /\ alert' \in [Alerts -> {"absent", "read"} \cup CertStates]
      /\ ~twin => /\ \A a, b \in Unread' : a = b
                  /\ fresh => IF mine.cert = "valid" THEN Unread' = {}
                              ELSE \E a \in Alerts : Unread' = {a} /\ alert'[a] = mine.cert
  <2>1. CASE mine.cert = "valid" /\ mine.existing = {}
    <3>1. alert' = alert
      BY <2>1 DEF ChecksCert, DismissesAlerts
    <3>2. Unread' = Unread
      BY <3>1 DEF Unread
    <3> QED BY <1>1, <2>1, <3>1, <3>2 DEF AlertKnown, AlertFresh, CertTypeOK
  <2>2. CASE mine.cert = "valid" /\ mine.existing # {}
    <3>1. alert' = [a \in Alerts |-> IF a \in Unread THEN "read" ELSE alert[a]]
      BY <2>2 DEF ChecksCert, DismissesAlerts
    <3>2. Unread' = {}
      BY <3>1 DEF Unread, CertStates
    <3> QED BY <2>2, <3>1, <3>2 DEF CertTypeOK
  <2>3. CASE mine.cert # "valid" /\ mine.existing # {}
    <3>1. alert' = [a \in Alerts |-> IF a \in mine.existing \cap Unread THEN mine.cert ELSE alert[a]]
      BY <2>3 DEF ChecksCert, RaisesAlert
    <3>2. Unread' = Unread
      BY <1>1, <3>1 DEF Unread
    <3>3. alert' \in [Alerts -> {"absent", "read"} \cup CertStates]
      BY <1>1, <3>1 DEF CertTypeOK
    <3>4. ASSUME ~twin, fresh PROVE \E a \in Alerts : Unread' = {a} /\ alert'[a] = mine.cert
      <4>1. mine.existing = Unread /\ \A a, b \in Unread : a = b
        BY <1>1, <3>4 DEF AlertKnown, AlertFresh
      <4>2. PICK a \in Unread : Unread = {a}
        BY <2>3, <4>1
      <4>3. a \in Alerts /\ alert'[a] = mine.cert
        BY <3>1, <4>1, <4>2 DEF Unread
      <4> QED BY <3>2, <4>2, <4>3
    <3> QED BY <2>3, <3>2, <3>3, <3>4 DEF AlertKnown
  <2>4. CASE mine.cert # "valid" /\ mine.existing = {}
    <3>1. PICK a \in Alerts : alert[a] = "absent" /\ alert' = [alert EXCEPT ![a] = mine.cert]
      BY <2>4 DEF ChecksCert, RaisesAlert
    <3>2. Unread' = Unread \cup {a} /\ alert'[a] = mine.cert
      BY <1>1, <3>1 DEF Unread, CertTypeOK
    <3>3. alert' \in [Alerts -> {"absent", "read"} \cup CertStates]
      BY <1>1, <3>1 DEF CertTypeOK
    <3>4. ~twin => Unread = {}
      BY <1>1, <2>4 DEF AlertKnown
    <3> QED BY <2>4, <3>2, <3>3, <3>4
  <2> QED BY <2>1, <2>2, <2>3, <2>4
<1>4. CertTypeOK'
  <2>1. certJob' \in [CertJobs -> [at : {"idle", "read", "found"}, cert : CertStates,
                                   existing : SUBSET Alerts]]
    BY <1>1 DEF CertTypeOK, NoCertJob, CertStates
  <2>2. fresh' \in BOOLEAN
    BY <1>1
  <2> QED BY <1>1, <1>3, <2>1, <2>2 DEF CertTypeOK
<1>5. AlertKnown'
  BY <1>1, <1>2, <1>3 DEF AlertKnown
<1>6. AlertFresh'
  BY <1>1, <1>2 DEF AlertFresh, AlertKnown
<1>7. AlertTellsCertificate'
  BY <1>1, <1>3 DEF AlertTellsCertificate
<1> QED BY <1>4, <1>5, <1>6, <1>7

LEMMA CertHold == CertInv /\ [CertNext]_certVars => CertInv'
<1> SUFFICES ASSUME CertInv, [CertNext]_certVars PROVE CertInv'
  OBVIOUS
<1> USE CertBounds DEF CertInv
<1>1. ASSUME NEW j \in CertJobs, ReadsCert(j) \/ CertJobFails(j) PROVE CertInv'
  <2>1. /\ UNCHANGED <<cert, alert, twin>> /\ ~fresh' /\ fresh' \in BOOLEAN /\ Unread' = Unread
        /\ \A k \in CertJobs \ {j} : certJob'[k] = certJob[k]
    BY <1>1 DEF ReadsCert, CertJobFails, Unread, CertTypeOK
  <2>5. PICK job \in [at : {"idle", "read", "found"}, cert : CertStates, existing : SUBSET Alerts] :
            job.at # "found" /\ certJob' = [certJob EXCEPT ![j] = job]
    <3> DEFINE reading == [NoCertJob EXCEPT !.at = "read", !.cert = cert]
    <3>1. certJob' = [certJob EXCEPT ![j] = reading] \/ certJob' = [certJob EXCEPT ![j] = NoCertJob]
      BY <1>1 DEF ReadsCert, CertJobFails
    <3>2. /\ reading \in [at : {"idle", "read", "found"}, cert : CertStates, existing : SUBSET Alerts]
          /\ NoCertJob \in [at : {"idle", "read", "found"}, cert : CertStates, existing : SUBSET Alerts]
          /\ reading.at # "found" /\ NoCertJob.at # "found"
      BY DEF NoCertJob, CertTypeOK, CertStates
    <3> HIDE DEF reading
    <3> QED BY <3>1, <3>2
  <2>2. certJob'[j].at # "found"
    BY <2>5 DEF CertTypeOK
  <2>3. CertTypeOK'
    <3>1. certJob' \in [CertJobs -> [at : {"idle", "read", "found"}, cert : CertStates,
                                     existing : SUBSET Alerts]]
      BY <2>5 DEF CertTypeOK
    <3>2. certFailures' \in Nat
      BY <1>1 DEF ReadsCert, CertJobFails, CertFailure, CertTypeOK
    <3> QED BY <2>1, <3>1, <3>2 DEF CertTypeOK
  <2>4. AlertKnown' /\ AlertFresh' /\ AlertTellsCertificate'
    BY <2>1, <2>2 DEF AlertKnown, AlertFresh, AlertTellsCertificate
  <2> QED BY <2>3, <2>4
<1>2. ASSUME NEW a \in Alerts, ReadsAlert(a) PROVE CertInv'
  <2>1. UNCHANGED <<cert, certJob, certFailures, twin>> /\ ~fresh' /\ fresh' \in BOOLEAN
        /\ alert' = [alert EXCEPT ![a] = "read"]
    BY <1>2 DEF ReadsAlert
  <2>2. Unread' \subseteq Unread /\ CertTypeOK'
    BY <2>1 DEF Unread, CertTypeOK, CertStates
  <2>3. AlertKnown' /\ AlertFresh' /\ AlertTellsCertificate'
    BY <2>1, <2>2 DEF AlertKnown, AlertFresh, AlertTellsCertificate
  <2> QED BY <2>2, <2>3
<1>3. CASE CertChanges
  <2>1. UNCHANGED <<alert, certJob, certFailures, twin>> /\ ~fresh' /\ fresh' \in BOOLEAN
        /\ cert' \in CertStates /\ Unread' = Unread
    BY <1>3 DEF CertChanges, CertStates, Unread
  <2>2. CertTypeOK'
    BY <2>1 DEF CertTypeOK
  <2>3. AlertKnown' /\ AlertFresh' /\ AlertTellsCertificate'
    BY <2>1 DEF AlertKnown, AlertFresh, AlertTellsCertificate
  <2> QED BY <2>2, <2>3
<1>4. CASE UNCHANGED certVars
  <2>1. UNCHANGED <<cert, alert, certJob, certFailures, fresh, twin>> /\ Unread' = Unread
    BY <1>4 DEF certVars, certHistory, Unread
  <2> QED BY <2>1 DEF CertTypeOK, AlertKnown, AlertFresh, AlertTellsCertificate
<1>5. ASSUME NEW j \in CertJobs, FindsAlert(j) PROVE CertInv'
  BY <1>5, FindsAlertHolds
<1>6. ASSUME NEW j \in CertJobs, ChecksCert(j) PROVE CertInv'
  BY <1>6, ChecksCertHolds
<1> QED BY <1>1, <1>2, <1>3, <1>4, <1>5, <1>6 DEF CertNext

-----------------------------------------------------------------------------
(* MCTenants: each module beside the others.                               *)

ToldInv == PricesInv /\ NoticesInv /\ CertInv

\* Prices, notices and alerts keep their invariants, while they move and while they do not.
LEMMA ToldHolds ==
    ToldInv /\ [TenantsNext]_<<part, attemptsVars, agreementsVars, billingVars, pricesVars,
                               noticesVars, certVars>>
        => ToldInv' /\ [PricesNext]_pricesVars
<1> SUFFICES ASSUME ToldInv,
                    [TenantsNext]_<<part, attemptsVars, agreementsVars, billingVars, pricesVars,
                                    noticesVars, certVars>>
             PROVE  ToldInv' /\ [PricesNext]_pricesVars
  OBVIOUS
<1>1. [PricesNext]_pricesVars /\ [NoticesNext]_noticesVars /\ [CertNext]_certVars
  BY DEF TenantsNext
<1> QED BY <1>1, PricesHold, NoticesHold, CertHold DEF ToldInv

\* A tenant is told of a price once, a notification counts the documents announced with
\* it, and the certificate's alert says how long it is valid; unless what each property
\* names has happened, for any prices, documents, alerts and calls that overlap and fail.
THEOREM NoticesTellTheState == TenantsSpec => []NoticesTellState
<1>1. TenantsInit => ToldInv
  BY PricesStart, NoticesStart, CertStart DEF TenantsInit, ToldInv
<1>2. ToldInv => NoticesTellState
  BY DEF ToldInv, PricesInv, NoticesInv, CertInv, NoticesTellState
<1> QED BY <1>1, <1>2, ToldHolds, PTL DEF TenantsSpec

\* No step changes what a period that begins within the notice is charged.
THEOREM PriceIsSettledAhead == TenantsSpec => PriceIsSettled
<1>1. TenantsInit => ToldInv
  BY PricesStart, NoticesStart, CertStart DEF TenantsInit, ToldInv
<1>2. ToldInv /\ [PricesNext]_pricesVars =>
          [price' # price =>
               \A table \in PriceTables, start \in today .. today + NoticeDays - 1 :
                   Charged(table, start)' = Charged(table, start)]_pricesVars
  BY SettledStep DEF ToldInv, pricesVars
<1> QED BY <1>1, <1>2, ToldHolds, PTL DEF TenantsSpec, PriceIsSettled

\* Each module does beside the others what it does by itself.
LEMMA PartsMove == TenantsSpec => AttemptsSpec /\ AgreementsSpec /\ BillingSpec
<1>1. TenantsInit => AttemptsInit /\ AgreementsInit /\ BillingInit
  BY DEF TenantsInit
<1>2. [TenantsNext]_<<part, attemptsVars, agreementsVars, billingVars, pricesVars, noticesVars,
                      certVars>>
          => [AttemptsNext]_attemptsVars /\ [AgreementsNext]_agreementsVars /\ [BillingNext]_billingVars
  BY DEF TenantsNext
<1> QED BY <1>1, <1>2, PTL DEF TenantsSpec, AttemptsSpec, AgreementsSpec, BillingSpec

\* Every variable of the module that moves has its type, for any values of the constants: what
\* callers hold of rows, windows, versions and payments is of rows that are there.
THEOREM TenantTypes == TenantsSpec => []TenantsTypeOK
<1>1. TenantsInit => ToldInv
  BY PricesStart, NoticesStart, CertStart DEF TenantsInit, ToldInv
<1>2. TenantsSpec => []ToldInv
  BY <1>1, ToldHolds, PTL DEF TenantsSpec
<1>3. TenantsInit => part \in {"attempts", "agreements", "billing", "prices", "notices", "certificates"}
  BY DEF TenantsInit
<1>4. [TenantsNext]_<<part, attemptsVars, agreementsVars, billingVars, pricesVars, noticesVars,
                      certVars>> => part' = part
  BY DEF TenantsNext
<1>5. TenantsSpec =>
          [](part \in {"attempts", "agreements", "billing", "prices", "notices", "certificates"})
  <2> DEFINE P == part \in {"attempts", "agreements", "billing", "prices", "notices", "certificates"}
  <2>1. P /\ part' = part => P'
    OBVIOUS
  <2> HIDE DEF P
  <2>2. TenantsInit => P
    BY <1>3 DEF P
  <2>3. TenantsSpec => []P
    BY <1>4, <2>1, <2>2, PTL DEF TenantsSpec
  <2> QED BY <2>3 DEF P
<1>6. /\ part \in {"attempts", "agreements", "billing", "prices", "notices", "certificates"}
      /\ AttemptsInv /\ AgreementsInv /\ BillingTypeOK /\ ToldInv
      => TenantsTypeOK
  BY DEF AttemptsInv, AgreementsInv, ToldInv, PricesInv, NoticesInv, CertInv, TenantsTypeOK
<1> QED BY <1>2, <1>5, <1>6, PartsMove, AttemptsHold, AgreementsStay, BillingTypes, PTL

\* The same of what each module promises: one alert of a window, agreements as they were named,
\* access as the subscription has it, one subscription and one change of it at a time, and
\* expiry of what was not paid for.
THEOREM TenantsKeepPromises ==
    TenantsSpec => [](/\ AlertedOnce /\ AgreementsHold
                      /\ AccessMatchesSubscription /\ OneAtATime /\ ExpiresOnlyUnpaid)
<1> QED BY PartsMove, OneAlertPerWindow, AgreementsAreKept, AccessFollowsSubscription, OneOfEach,
           ExpiryIsOfUnpaid, PTL
=============================================================================
