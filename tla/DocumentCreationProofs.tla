----------------------- MODULE DocumentCreationProofs -----------------------
(***************************************************************************)
(* Proofs about DocumentCreation, for any requests, counters, keys, jobs   *)
(* and promotions.  What concerns the numbers is proved from three facts:  *)
(* a counter's lock has one holder, the holder's number is the counter's   *)
(* next, and the numbers up to the counter are used or skipped.            *)
(***************************************************************************)
EXTENDS DocumentCreation, FiniteSetTheorems, TLAPS

USE CreationAssumption

-----------------------------------------------------------------------------
\* Type correctness: every transaction leaves rows and requests well formed.
THEOREM Typing == Spec => []TypeOK
<1> USE DEF TypeOK, creation, history
<1>1. Init => TypeOK
  BY DEF Init, Places, Ended
<1>2. TypeOK /\ [Next]_vars => TypeOK'
  <2> SUFFICES ASSUME TypeOK, [Next]_vars PROVE TypeOK'
    OBVIOUS
  <2>1. ASSUME NEW r \in Requests, RequestStep(r) \/ RollsBack(r) PROVE TypeOK'
    <3> USE DEF Goes, Places, Ended, Counter
    <3>1. CASE Lookup(r)
      BY <3>1 DEF Lookup
    <3>2. CASE SeesPeriod(r)
      <4> PICK p \in Periods : period' = [period EXCEPT ![r] = p]
        BY <3>2 DEF SeesPeriod
      <4> QED BY <3>2 DEF SeesPeriod
    <3>3. CASE Charges(r)
      BY <3>3 DEF Charges
    <3>4. CASE Numbers(r)
      <4>1. counter[Counter(r)] + 1 \in Nat
        OBVIOUS
      <4>2. CASE Takes(r, counter[Counter(r)] + 1)
        BY <3>4, <4>1, <4>2 DEF Numbers, Takes
      <4>3. CASE Goes(r, "first") /\ UNCHANGED seq
        BY <3>4, <4>3 DEF Numbers
      <4> QED BY <3>4, <4>2, <4>3 DEF Numbers
    <3>5. CASE NumbersFirst(r)
      BY <3>5, SMTT(30) DEF NumbersFirst, Takes, Violates
    <3>6. CASE InsertsDocument(r)
      BY <3>6 DEF InsertsDocument, Violates
    <3>7. CASE Commits(r)
      <4>1. counter' \in [Counters -> Nat] /\ seeded' \in SUBSET Counters
        BY <3>7 DEF Commits
      <4>2. quota' \in [Periods -> [state : {"unused", "current", "past"}, cycle : Nat, count : Nat]]
        <5> DEFINE q == [quota[period[r]] EXCEPT !.count = @ + 1]
        <5>1. q \in [state : {"unused", "current", "past"}, cycle : Nat, count : Nat]
          <6>1. quota[period[r]] \in [state : {"unused", "current", "past"}, cycle : Nat, count : Nat]
            OBVIOUS
          <6>2. quota[period[r]].count + 1 \in Nat
            BY <6>1
          <6> QED BY <6>1, <6>2
        <5>2. CASE quota' = [quota EXCEPT ![period[r]] = q]
          BY <5>1, <5>2
        <5> QED BY <3>7, <5>2 DEF Commits
      <4>3. at' \in [Requests -> Places]
        BY <3>7 DEF Commits
      <4> QED BY <3>7, <4>1, <4>2, <4>3 DEF Commits
    <3>8. CASE FindsWinner(r)
      BY <3>8 DEF FindsWinner
    <3>9. CASE RollsBack(r)
      BY <3>9 DEF RollsBack
    <3> QED BY <2>1, <3>1, <3>2, <3>3, <3>4, <3>5, <3>6, <3>7, <3>8, <3>9 DEF RequestStep
  <2>2. ASSUME NEW c \in Counters, NEW n \in Edits \cup Starts, StartsAt(c, n)
        PROVE  /\ counter' \in [Counters -> Nat] /\ seeded' \in SUBSET Counters
               /\ skipped' \in [Counters -> SUBSET Nat] /\ reseeded' \in SUBSET Counters
    <3>1. n - 1 \in Nat /\ (counter[c] + 1) .. (n - 1) \in SUBSET Nat
      OBVIOUS
    <3> QED BY <2>2, <3>1 DEF StartsAt
  <2>3. ASSUME NEW c \in Counters, NEW n \in Edits, SetNext(c, n) PROVE TypeOK'
    BY <2>2, <2>3 DEF SetNext
  <2>4. ASSUME NEW x \in Promotions, PromotionStep(x) PROVE TypeOK'
    <3>1. CASE PromoteReads(x)
      BY <3>1 DEF PromoteReads
    <3>3. CASE Promotes(x)
      BY <3>3 DEF Promotes
    <3>2. ASSUME NEW c \in Counters, Initialize(x, c) PROVE TypeOK'
      BY <2>2, <3>2 DEF Initialize
    <3> QED BY <2>4, <3>1, <3>2, <3>3 DEF PromotionStep
  <2>5. ASSUME NEW j \in Jobs, JobStep(j) \/ JobDies(j) PROVE TypeOK'
    <3>1. CASE JobReads(j)
      <4> PICK p \in Periods : job' = [job EXCEPT ![j].at = "due", ![j].cycle = quota[p].cycle + 1]
        BY <3>1 DEF JobReads
      <4> DEFINE k == [job[j] EXCEPT !.at = "due", !.cycle = quota[p].cycle + 1]
      <4>1. k \in [at : {"idle", "due", "waiting", "closing", "done", "failed"},
                   cycle : Nat, period : Periods]
        <5>1. job[j] \in [at : {"idle", "due", "waiting", "closing", "done", "failed"},
                          cycle : Nat, period : Periods]
          OBVIOUS
        <5>2. quota[p] \in [state : {"unused", "current", "past"}, cycle : Nat, count : Nat]
          OBVIOUS
        <5>3. quota[p].cycle + 1 \in Nat
          BY <5>2
        <5> QED BY <5>1, <5>3
      <4>3. job' = [job EXCEPT ![j] = k]
        OBVIOUS
      <4> HIDE DEF k
      <4>2. job' \in [Jobs -> [at : {"idle", "due", "waiting", "closing", "done", "failed"},
                               cycle : Nat, period : Periods]]
        BY <4>1, <4>3
      <4> QED BY <3>1, <4>2 DEF JobReads, JobUnchanged
    <3>2. CASE JobSeesPeriod(j) \/ ClosesPeriod(j) \/ JobDies(j)
      BY <3>2 DEF JobSeesPeriod, ClosesPeriod, JobDies, JobUnchanged
    <3>3. CASE OpensPeriod(j)
      <4>1. job[j].period \in Periods /\ job[j].cycle \in Nat
        OBVIOUS
      <4>2. PICK p \in Periods :
               quota' = [quota EXCEPT ![job[j].period].state = "past",
                                      ![p] = [state |-> "current", cycle |-> job[j].cycle, count |-> 0]]
        BY <3>3 DEF OpensPeriod
      <4>3. quota' \in [Periods -> [state : {"unused", "current", "past"}, cycle : Nat, count : Nat]]
        <5> DEFINE old == [quota[job[j].period] EXCEPT !.state = "past"]
                   new == [state |-> "current", cycle |-> job[j].cycle, count |-> 0]
                   mid == [quota EXCEPT ![job[j].period] = old]
        <5>1. /\ old \in [state : {"unused", "current", "past"}, cycle : Nat, count : Nat]
              /\ new \in [state : {"unused", "current", "past"}, cycle : Nat, count : Nat]
          BY <4>1
        <5>2. quota' = [mid EXCEPT ![p] = new]
          BY <4>2
        <5> HIDE DEF old, new
        <5> QED BY <4>1, <5>1, <5>2
      <4>4. job' \in [Jobs -> [at : {"idle", "due", "waiting", "closing", "done", "failed"},
                               cycle : Nat, period : Periods]]
        BY <3>3 DEF OpensPeriod
      <4> QED BY <3>3, <4>3, <4>4 DEF OpensPeriod, JobUnchanged
    <3> QED BY <2>5, <3>1, <3>2, <3>3 DEF JobStep
  <2>6. CASE CycleEnds
    BY <2>6 DEF CycleEnds
  <2>7. CASE UNCHANGED vars
    BY <2>7 DEF vars
  <2> QED BY <2>1, <2>3, <2>4, <2>5, <2>6, <2>7 DEF Next
<1> QED BY <1>1, <1>2, PTL DEF Spec

-----------------------------------------------------------------------------
(* The numbers.  A step takes a number, commits one, moves a counter, or    *)
(* leaves them all as they are.                                             *)

numbers == <<want, seq, counter, seeded, history>>

TakesNumber(r) ==
    /\ at[r] \in {"begun", "charged", "first"}
    /\ ~CounterLocked(Counter(r))
    /\ at' = [at EXCEPT ![r] = "numbered"]
    /\ seq' = [seq EXCEPT ![r] = counter[Counter(r)] + 1]
    /\ UNCHANGED <<want, counter, seeded, history>>

MovesCounter(c, n) == StartsAt(c, n) /\ UNCHANGED creation

KeepsNumbers ==
    /\ UNCHANGED numbers
    /\ \A r \in Requests : /\ HasNumber(r)' => HasNumber(r)
                           /\ Created(r)' = Created(r)

\* An absent row counts as zero.
AbsentIsZero == \A c \in Counters \ seeded : counter[c] = 0

LEMMA NumberStep ==
    ASSUME TypeOK, AbsentIsZero, [Next]_vars
    PROVE  \/ \E r \in Requests : TakesNumber(r) \/ Commits(r)
           \/ \E c \in Counters, n \in Edits \cup Starts : MovesCounter(c, n)
           \/ KeepsNumbers
<1> USE DEF numbers, creation, history
<1>1. ASSUME NEW r \in Requests, RequestStep(r) \/ RollsBack(r)
      PROVE  TakesNumber(r) \/ Commits(r) \/ KeepsNumbers
  <2> USE DEF TypeOK, Goes, KeepsNumbers, HasNumber, Created
  <2>1. CASE Lookup(r)
    BY <2>1 DEF Lookup
  <2>2. CASE SeesPeriod(r) \/ Charges(r) \/ FindsWinner(r) \/ RollsBack(r)
    BY <2>2 DEF SeesPeriod, Charges, FindsWinner, RollsBack
  <2>3. CASE Numbers(r)
    BY <2>3 DEF Numbers, MayNumber, Takes, TakesNumber
  <2>4. CASE NumbersFirst(r)
    <3>1. CASE Counter(r) \in seeded
      BY <2>4, <3>1 DEF NumbersFirst, Violates
    <3>2. CASE Counter(r) \notin seeded
      <4>1. Counter(r) \in Counters
        BY DEF Counter
      <4>2. counter[Counter(r)] + 1 = 1
        BY <3>2, <4>1 DEF AbsentIsZero
      <4> QED BY <2>4, <3>2, <4>2 DEF NumbersFirst, Takes, TakesNumber
    <3> QED BY <3>1, <3>2
  <2>5. CASE InsertsDocument(r)
    BY <2>5 DEF InsertsDocument, Violates
  <2> QED BY <1>1, <2>1, <2>2, <2>3, <2>4, <2>5 DEF RequestStep
<1>2. ASSUME NEW c \in Counters, NEW n \in Edits, SetNext(c, n) PROVE MovesCounter(c, n)
  BY <1>2 DEF SetNext, MovesCounter
<1>3. ASSUME NEW x \in Promotions, NEW c \in Counters, Initialize(x, c)
      PROVE  \E n \in Starts : MovesCounter(c, n)
  BY <1>3 DEF Initialize, MovesCounter
<1>4. ASSUME UNCHANGED <<creation, counter, seeded, history>> PROVE KeepsNumbers
  BY <1>4 DEF KeepsNumbers, HasNumber, Created
<1>5. ASSUME NEW x \in Promotions, PromoteReads(x) \/ Promotes(x) PROVE KeepsNumbers
  BY <1>4, <1>5 DEF PromoteReads, Promotes
<1>6. ASSUME NEW j \in Jobs, JobStep(j) \/ JobDies(j) PROVE KeepsNumbers
  BY <1>4, <1>6 DEF JobStep, JobReads, JobSeesPeriod, ClosesPeriod, OpensPeriod, JobDies, JobUnchanged
<1>7. CASE CycleEnds \/ UNCHANGED vars
  BY <1>4, <1>7 DEF CycleEnds, vars
<1> QED BY <1>1, <1>2, <1>3, <1>5, <1>6, <1>7 DEF Next, PromotionStep

\* A counter is locked by one request, whose number is the counter's next.
LockInv ==
    /\ \A r, s \in Requests : HasNumber(r) /\ HasNumber(s) /\ Counter(r) = Counter(s) => r = s
    /\ \A r \in Requests : HasNumber(r) => seq[r] = counter[Counter(r)] + 1
    /\ AbsentIsZero

\* The books of the counters no upsert has lowered.
CounterBooks(c) ==
    /\ skipped[c] \subseteq 1 .. counter[c]
    /\ \A r \in Requests :
          Created(r) /\ Counter(r) = c => seq[r] \in (1 .. counter[c]) \ skipped[c]
    /\ \A n \in (1 .. counter[c]) \ skipped[c] :
          \E r \in Requests : Created(r) /\ Counter(r) = c /\ seq[r] = n
    /\ \A r, s \in Requests :
          /\ Created(r) /\ Created(s) /\ Counter(r) = c /\ Counter(s) = c /\ seq[r] = seq[s]
          => r = s

Books == \A c \in Counters \ reseeded : CounterBooks(c)

LEMMA LockStep == TypeOK /\ LockInv /\ [Next]_vars => LockInv'
<1> SUFFICES ASSUME TypeOK, LockInv, [Next]_vars PROVE LockInv'
  OBVIOUS
<1> USE DEF TypeOK, LockInv, AbsentIsZero, HasNumber, Counter, creation, history
<1>1. ASSUME NEW r \in Requests, TakesNumber(r) PROVE LockInv'
  BY <1>1 DEF TakesNumber, CounterLocked
<1>2. ASSUME NEW r \in Requests, Commits(r) PROVE LockInv'
  BY <1>2 DEF Commits, Goes
<1>3. ASSUME NEW c \in Counters, NEW n \in Edits \cup Starts, MovesCounter(c, n) PROVE LockInv'
  BY <1>3 DEF MovesCounter, StartsAt, CounterLocked
<1>4. CASE KeepsNumbers
  BY <1>4 DEF KeepsNumbers, numbers
<1> QED BY <1>1, <1>2, <1>3, <1>4, NumberStep

LEMMA BooksStep == TypeOK /\ LockInv /\ Books /\ [Next]_vars => Books'
<1> SUFFICES ASSUME TypeOK, LockInv, Books, [Next]_vars,
                    NEW c \in Counters, c \notin reseeded'
             PROVE  CounterBooks(c)'
  BY DEF Books
<1> USE DEF Counter, creation, history
<1>1. ASSUME UNCHANGED <<want, seq, counter, skipped, reseeded>>,
             \A r \in Requests : Created(r)' = Created(r)
      PROVE  CounterBooks(c)'
  BY <1>1 DEF Books, CounterBooks
<1>2. ASSUME NEW r \in Requests, TakesNumber(r) PROVE CounterBooks(c)'
  <2>1. ~Created(r) /\ ~Created(r)' /\ \A s \in Requests \ {r} : Created(s)' = Created(s) /\ seq'[s] = seq[s]
    BY <1>2 DEF TakesNumber, Created, TypeOK
  <2>2. UNCHANGED <<want, counter, skipped, reseeded>>
    BY <1>2 DEF TakesNumber
  <2> QED BY <2>1, <2>2 DEF Books, CounterBooks
<1>3. ASSUME NEW r \in Requests, Commits(r) PROVE CounterBooks(c)'
  <2>1. /\ Created(r)' /\ ~Created(r)
        /\ \A s \in Requests \ {r} : Created(s)' = Created(s)
        /\ UNCHANGED <<want, seq, skipped, reseeded>>
    BY <1>3 DEF Commits, Created, Goes, TypeOK
  <2>2. seq[r] = counter[Counter(r)] + 1
    BY <1>3 DEF Commits, LockInv, HasNumber
  <2>3. CASE c # Counter(r)
    <3>1. counter'[c] = counter[c]
      BY <1>3, <2>3 DEF Commits, TypeOK
    <3> QED BY <2>1, <2>3, <3>1 DEF Books, CounterBooks
  <2>4. CASE c = Counter(r)
    <3>1. counter'[c] = counter[c] + 1 /\ seq[r] = counter[c] + 1 /\ counter[c] \in Nat
      BY <1>3, <2>2, <2>4 DEF Commits, TypeOK
    <3>2. CounterBooks(c) /\ skipped[c] \subseteq Nat
      BY <2>1 DEF Books, TypeOK
    <3>3. (skipped[c] \subseteq 1 .. counter[c])'
      BY <2>1, <3>1, <3>2 DEF CounterBooks
    <3>4. \A s \in Requests :
             Created(s)' /\ Counter(s) = c => seq[s] \in (1 .. counter'[c]) \ skipped[c]
      BY <2>1, <3>1, <3>2 DEF CounterBooks
    <3>5. \A n \in (1 .. counter'[c]) \ skipped[c] :
             \E s \in Requests : Created(s)' /\ Counter(s) = c /\ seq[s] = n
      <4> TAKE n \in (1 .. counter'[c]) \ skipped[c]
      <4>1. CASE n = counter[c] + 1
        BY <2>1, <2>4, <3>1, <4>1
      <4>2. CASE n \in 1 .. counter[c]
        <5>1. PICK s \in Requests : Created(s) /\ Counter(s) = c /\ seq[s] = n
          BY <3>2, <4>2 DEF CounterBooks
        <5> QED BY <2>1, <5>1
      <4> QED BY <3>1, <4>1, <4>2
    <3>6. \A s, t \in Requests :
             Created(s)' /\ Created(t)' /\ Counter(s) = c /\ Counter(t) = c /\ seq[s] = seq[t] => s = t
      <4>1. \A s \in Requests : Created(s) /\ Counter(s) = c => seq[s] # counter[c] + 1
        BY <3>1, <3>2 DEF CounterBooks
      <4> QED BY <2>1, <3>1, <3>2, <4>1 DEF CounterBooks
    <3> QED BY <2>1, <3>3, <3>4, <3>5, <3>6 DEF CounterBooks
  <2> QED BY <2>3, <2>4
<1>4. ASSUME NEW d \in Counters, NEW n \in Edits \cup Starts, MovesCounter(d, n)
      PROVE  CounterBooks(c)'
  <2>1. UNCHANGED <<want, seq>> /\ \A r \in Requests : Created(r)' = Created(r)
    BY <1>4 DEF MovesCounter, Created
  <2>2. c \notin reseeded /\ CounterBooks(c)
    BY <1>4 DEF MovesCounter, StartsAt, Books
  <2>3. CASE c # d
    <3>1. counter'[c] = counter[c] /\ skipped'[c] = skipped[c]
      BY <1>4, <2>3 DEF MovesCounter, StartsAt, TypeOK
    <3> QED BY <2>1, <2>2, <3>1 DEF CounterBooks
  <2>4. CASE c = d
    <3>1. /\ counter'[c] = n - 1 /\ counter[c] \in Nat /\ n \in Nat \ {0} /\ n - 1 >= counter[c]
          /\ skipped'[c] = skipped[c] \cup ((counter[c] + 1) .. (n - 1))
      BY <1>4, <2>4 DEF MovesCounter, StartsAt, TypeOK
    <3>2. (1 .. counter'[c]) \ skipped'[c] = (1 .. counter[c]) \ skipped[c]
      BY <2>2, <3>1 DEF CounterBooks
    <3>3. skipped'[c] \subseteq 1 .. counter'[c]
      BY <2>2, <3>1 DEF CounterBooks
    <3> QED BY <2>1, <2>2, <3>2, <3>3 DEF CounterBooks
  <2> QED BY <2>3, <2>4
<1>5. CASE KeepsNumbers
  BY <1>1, <1>5 DEF KeepsNumbers, numbers
<1> QED BY <1>2, <1>3, <1>4, <1>5, NumberStep DEF LockInv

LEMMA NumbersHold == Spec => [](LockInv /\ Books)
<1>1. Init => LockInv /\ Books
  BY DEF Init, LockInv, AbsentIsZero, HasNumber, Books, CounterBooks, Created
<1> QED BY <1>1, LockStep, BooksStep, Typing, PTL DEF Spec

\* Sequentials are never used twice, for any number of concurrent requests,
\* edits and promotions.
THEOREM SequentialsAreUnique == Spec => []NumbersUsedOnce
<1>1. TypeOK /\ Books => NumbersUsedOnce
  BY DEF TypeOK, Books, CounterBooks, NumbersUsedOnce, Counter
<1> QED BY <1>1, NumbersHold, Typing, PTL

\* The numbers up to a counter are the documents' and the skipped ones.
THEOREM SequentialsHaveNoGaps == Spec => []NoNumberLost
<1>1. TypeOK /\ Books => NoNumberLost
  BY DEF TypeOK, Books, CounterBooks, NoNumberLost, Used
<1> QED BY <1>1, NumbersHold, Typing, PTL

-----------------------------------------------------------------------------
\* The keys: an inserted row, committed or not, is the only one with its key.
KeyInv ==
    \A r, s \in Requests :
        /\ at[r] \in {"inserted", "created"} /\ at[s] \in {"inserted", "created"} /\ SameKey(r, s)
        => r = s

\* Concurrent requests with one Idempotency-Key create one document.
THEOREM OneDocumentPerKey == Spec => []KeyCreatesOne
<1>1. Init => KeyInv
  BY DEF Init, KeyInv
<1>2. TypeOK /\ KeyInv /\ [Next]_vars => KeyInv'
  <2> SUFFICES ASSUME TypeOK, KeyInv, [Next]_vars PROVE KeyInv'
    OBVIOUS
  <2>1. ASSUME UNCHANGED want,
               \A r \in Requests : at'[r] \in {"inserted", "created"} => at[r] \in {"inserted", "created"}
        PROVE  KeyInv'
    BY <2>1 DEF KeyInv, SameKey
  <2>2. ASSUME NEW r \in Requests, InsertsDocument(r), at'[r] = "inserted" PROVE KeyInv'
    <3>1. /\ UNCHANGED want /\ at[r] = "numbered"
          /\ \A s \in Requests \ {r} : at'[s] = at[s]
          /\ \A s \in Requests : at[s] \in {"inserted", "created"} => ~SameKey(r, s)
      BY <2>2 DEF InsertsDocument, Violates, Goes, Created, TypeOK
    <3>2. \A s \in Requests : SameKey(s, r) => SameKey(r, s)
      BY DEF SameKey
    <3> QED BY <3>1, <3>2 DEF KeyInv, SameKey
  <2>3. ASSUME NEW r \in Requests, RequestStep(r) \/ RollsBack(r) PROVE KeyInv'
    <3> USE DEF TypeOK, Goes
    <3>1. CASE Lookup(r)
      BY <2>1, <3>1 DEF Lookup
    <3>2. CASE SeesPeriod(r) \/ Charges(r) \/ FindsWinner(r) \/ RollsBack(r) \/ Commits(r)
      BY <2>1, <3>2 DEF SeesPeriod, Charges, FindsWinner, RollsBack, Commits
    <3>3. CASE Numbers(r) \/ NumbersFirst(r)
      BY <2>1, <3>3 DEF Numbers, NumbersFirst, Takes, Violates
    <3>4. CASE InsertsDocument(r)
      <4>1. CASE at'[r] # "inserted"
        BY <2>1, <3>4, <4>1 DEF InsertsDocument, Violates
      <4> QED BY <2>2, <3>4, <4>1
    <3> QED BY <2>3, <3>1, <3>2, <3>3, <3>4 DEF RequestStep
  <2>4. ASSUME UNCHANGED creation PROVE KeyInv'
    BY <2>1, <2>4 DEF creation
  <2>5. ASSUME NEW c \in Counters, NEW n \in Edits, SetNext(c, n) PROVE KeyInv'
    BY <2>4, <2>5 DEF SetNext
  <2>6. ASSUME NEW x \in Promotions, PromotionStep(x) PROVE KeyInv'
    BY <2>4, <2>6 DEF PromotionStep, PromoteReads, Promotes, Initialize
  <2>7. ASSUME NEW j \in Jobs, JobStep(j) \/ JobDies(j) PROVE KeyInv'
    BY <2>4, <2>7 DEF JobStep, JobReads, JobSeesPeriod, ClosesPeriod, OpensPeriod, JobDies, JobUnchanged
  <2>8. CASE CycleEnds \/ UNCHANGED vars
    BY <2>4, <2>8 DEF CycleEnds, vars
  <2> QED BY <2>3, <2>5, <2>6, <2>7, <2>8 DEF Next
<1>3. KeyInv => KeyCreatesOne
  BY DEF KeyInv, KeyCreatesOne, Created
<1> QED BY <1>1, <1>2, <1>3, Typing, PTL DEF Spec

-----------------------------------------------------------------------------
(* The quota.  A step charges the current row, commits a charge, closes     *)
(* the row, replaces it, or leaves rows and charges as they are.            *)

TakesQuota(r) ==
    /\ ~Sandbox /\ at[r] = "waiting" /\ ~PeriodLocked(period[r]) /\ WithinCap(period[r])
    /\ at' = [at EXCEPT ![r] = "charged"]
    /\ UNCHANGED <<period, quota, job>>

TakesPeriod(j) ==
    /\ ~PeriodLocked(job[j].period) /\ Current(job[j].period)
    /\ job' = [job EXCEPT ![j].at = "closing"]
    /\ UNCHANGED <<at, period, quota>>

KeepsQuota ==
    /\ UNCHANGED quota
    /\ \A r \in Requests : /\ Charging(r)' => Charging(r) /\ period'[r] = period[r]
                           /\ Created(r)' = Created(r)
                           /\ Created(r) => period'[r] = period[r]
    /\ \A j \in Jobs : Closing(j)' => Closing(j) /\ job'[j].period = job[j].period

\* Only production requests charge.
WaitInv == Sandbox => \A r \in Requests : at[r] \notin {"waiting", "charged"}

LEMMA WaitStep == TypeOK /\ WaitInv /\ [Next]_vars => WaitInv'
<1> SUFFICES ASSUME TypeOK, WaitInv, [Next]_vars, Sandbox, NEW s \in Requests
             PROVE  at'[s] \notin {"waiting", "charged"}
  BY DEF WaitInv
<1>1. ASSUME NEW r \in Requests, RequestStep(r) \/ RollsBack(r) PROVE at'[s] \notin {"waiting", "charged"}
  <2> USE DEF TypeOK, WaitInv, Goes
  <2>1. CASE Lookup(r)
    BY <2>1 DEF Lookup
  <2>2. CASE SeesPeriod(r) \/ Charges(r) \/ FindsWinner(r) \/ RollsBack(r) \/ Commits(r)
    BY <2>2 DEF SeesPeriod, Charges, FindsWinner, RollsBack, Commits
  <2>3. CASE Numbers(r) \/ NumbersFirst(r) \/ InsertsDocument(r)
    BY <2>3 DEF Numbers, NumbersFirst, InsertsDocument, Takes, Violates
  <2> QED BY <1>1, <2>1, <2>2, <2>3 DEF RequestStep
<1>2. CASE UNCHANGED at
  BY <1>2 DEF WaitInv
<1> QED BY <1>1, <1>2 DEF Next, SetNext, PromotionStep, PromoteReads, Promotes, Initialize, JobStep,
          JobReads, JobSeesPeriod, ClosesPeriod, OpensPeriod, JobDies, JobUnchanged, CycleEnds,
          vars, creation

LEMMA QuotaStep ==
    ASSUME TypeOK, WaitInv, [Next]_vars
    PROVE  \/ \E r \in Requests : TakesQuota(r) \/ Commits(r)
           \/ \E j \in Jobs : TakesPeriod(j) \/ OpensPeriod(j)
           \/ KeepsQuota
<1>1. ASSUME NEW r \in Requests, RequestStep(r) \/ RollsBack(r)
      PROVE  TakesQuota(r) \/ Commits(r) \/ KeepsQuota
  <2> USE DEF TypeOK, Goes, KeepsQuota, Charging, Created, Closing
  <2>1. CASE Lookup(r)
    BY <2>1 DEF Lookup
  <2>2. CASE SeesPeriod(r)
    BY <2>2 DEF SeesPeriod
  <2>3. CASE Charges(r)
    BY <2>3 DEF Charges, TakesQuota, WaitInv
  <2>4. CASE FindsWinner(r) \/ RollsBack(r)
    BY <2>4 DEF FindsWinner, RollsBack
  <2>5. CASE Numbers(r) \/ NumbersFirst(r) \/ InsertsDocument(r)
    BY <2>5 DEF Numbers, MayNumber, NumbersFirst, InsertsDocument, Takes, Violates
  <2> QED BY <1>1, <2>1, <2>2, <2>3, <2>4, <2>5 DEF RequestStep
<1>2. ASSUME UNCHANGED <<creation, quota, job>> PROVE KeepsQuota
  BY <1>2 DEF KeepsQuota, Charging, Created, Closing, creation
<1>3. ASSUME NEW c \in Counters, NEW n \in Edits, SetNext(c, n) PROVE KeepsQuota
  BY <1>2, <1>3 DEF SetNext
<1>4. ASSUME NEW x \in Promotions, PromotionStep(x) PROVE KeepsQuota
  BY <1>2, <1>4 DEF PromotionStep, PromoteReads, Promotes, Initialize, creation
<1>5. ASSUME NEW j \in Jobs, JobStep(j) \/ JobDies(j)
      PROVE  TakesPeriod(j) \/ OpensPeriod(j) \/ KeepsQuota
  <2> USE DEF TypeOK, KeepsQuota, Charging, Created, Closing, JobUnchanged, creation
  <2>1. CASE JobReads(j)
    BY <1>5, <2>1 DEF JobReads
  <2>2. CASE JobSeesPeriod(j)
    BY <2>2 DEF JobSeesPeriod
  <2>3. CASE ClosesPeriod(j)
    BY <2>3 DEF ClosesPeriod, TakesPeriod
  <2>4. CASE JobDies(j)
    BY <2>4 DEF JobDies
  <2> QED BY <1>5, <2>1, <2>2, <2>3, <2>4 DEF JobStep
<1>6. CASE CycleEnds \/ UNCHANGED vars
  BY <1>2, <1>6 DEF CycleEnds, vars
<1> QED BY <1>1, <1>3, <1>4, <1>5, <1>6 DEF Next

\* The current row is held by one request or one job.
QuotaLocks ==
    /\ OneCurrentPeriod
    /\ \A r \in Requests : Charging(r) => Current(period[r]) /\ quota[period[r]].count < Cap
    /\ \A j \in Jobs : Closing(j) => Current(job[j].period)
    /\ \A r, s \in Requests : Charging(r) /\ Charging(s) => r = s
    /\ \A j, k \in Jobs : Closing(j) /\ Closing(k) => j = k
    /\ \A r \in Requests, j \in Jobs : ~(Charging(r) /\ Closing(j))

QuotaBooks ==
    /\ \A r \in Requests : Created(r) => quota[period[r]].state # "unused"
    /\ QuotaIsExact

LEMMA QuotaLocksStep == TypeOK /\ WaitInv /\ QuotaLocks /\ [Next]_vars => QuotaLocks'
<1> SUFFICES ASSUME TypeOK, WaitInv, QuotaLocks, [Next]_vars PROVE QuotaLocks'
  OBVIOUS
<1> USE DEF QuotaLocks, OneCurrentPeriod
<1>1. ASSUME NEW r \in Requests, TakesQuota(r) PROVE QuotaLocks'
  <2>1. \A s \in Requests : ~Charging(s)
    BY <1>1 DEF TakesQuota, PeriodLocked, WithinCap, TypeOK
  <2>2. \A j \in Jobs : ~Closing(j)
    BY <1>1 DEF TakesQuota, PeriodLocked, WithinCap, TypeOK, Closing
  <2>3. \A s \in Requests : Charging(s)' => s = r
    BY <1>1, <2>1 DEF TakesQuota, Charging, TypeOK
  <2>4. \A j \in Jobs : ~Closing(j)'
    BY <1>1, <2>2 DEF TakesQuota, Closing
  <2> QED BY <1>1, <2>3, <2>4 DEF TakesQuota, Current, WithinCap
<1>2. ASSUME NEW r \in Requests, Commits(r) PROVE QuotaLocks'
  <2>1. \A p \in Periods : Current(p)' = Current(p)
    BY <1>2 DEF Commits, Current, TypeOK
  <2>2. \A s \in Requests : Charging(s)' => Charging(s) /\ s # r /\ period'[s] = period[s]
    BY <1>2 DEF Commits, Charging, Goes, TypeOK
  <2>3. ~Sandbox => Charging(r)
    BY <1>2 DEF Commits, Charging
  <2>4. \A s \in Requests : ~Charging(s)'
    BY <2>2, <2>3 DEF Charging
  <2>5. \A j \in Jobs : Closing(j)' = Closing(j) /\ job'[j].period = job[j].period
    BY <1>2 DEF Commits, Closing
  <2> QED BY <2>1, <2>4, <2>5 DEF TypeOK
<1>3. ASSUME NEW j \in Jobs, TakesPeriod(j) PROVE QuotaLocks'
  <2>1. \A s \in Requests : ~Charging(s)
    BY <1>3 DEF TakesPeriod, PeriodLocked, TypeOK
  <2>2. \A k \in Jobs : ~Closing(k)
    BY <1>3 DEF TakesPeriod, PeriodLocked, TypeOK
  <2>3. \A s \in Requests : ~Charging(s)'
    BY <1>3, <2>1 DEF TakesPeriod, Charging
  <2>4. \A k \in Jobs : Closing(k)' => k = j
    BY <1>3, <2>2 DEF TakesPeriod, Closing, TypeOK
  <2>5. job'[j].period = job[j].period
    BY <1>3 DEF TakesPeriod, TypeOK
  <2> QED BY <1>3, <2>3, <2>4, <2>5 DEF TakesPeriod, Current
<1>4. ASSUME NEW j \in Jobs, OpensPeriod(j) PROVE QuotaLocks'
  <2> PICK q \in Periods :
         /\ quota[q].state = "unused"
         /\ quota' = [quota EXCEPT ![job[j].period].state = "past",
                                   ![q] = [state |-> "current", cycle |-> job[j].cycle, count |-> 0]]
    BY <1>4 DEF OpensPeriod
  <2>1. Current(job[j].period) /\ job[j].period \in Periods /\ job[j].period # q
    BY <1>4 DEF OpensPeriod, TypeOK, Current
  <2>2. \A p \in Periods : Current(p)' => p = q
    BY <2>1 DEF Current, TypeOK
  <2>3. \A s \in Requests : ~Charging(s) /\ ~Charging(s)'
    BY <1>4 DEF OpensPeriod, JobUnchanged, creation, Charging
  <2>4. \A k \in Jobs : ~Closing(k)'
    BY <1>4 DEF OpensPeriod, Closing, TypeOK
  <2> QED BY <2>2, <2>3, <2>4
<1>5. CASE KeepsQuota
  BY <1>5 DEF KeepsQuota, Current
<1> QED BY <1>1, <1>2, <1>3, <1>4, <1>5, QuotaStep

LEMMA ChargedFinite == \A p : IsFiniteSet(Charged(p)) /\ Cardinality(Charged(p)) \in Nat
  BY FS_Subset, FS_CardinalityType DEF Charged

\* QuotaIsExact, row by row.
RowIsExact(p) == quota[p].count = Cardinality(Charged(p)) /\ quota[p].count <= Cap

LEMMA ExactRows == ~Sandbox => (QuotaIsExact <=> \A p \in Periods : RowIsExact(p))
  BY DEF QuotaIsExact, RowIsExact

LEMMA QuotaBooksStep ==
    TypeOK /\ QuotaLocks /\ WaitInv /\ QuotaBooks /\ [Next]_vars /\ ~Sandbox => QuotaBooks'
<1> SUFFICES ASSUME TypeOK, QuotaLocks, WaitInv, QuotaBooks, [Next]_vars, ~Sandbox PROVE QuotaBooks'
  OBVIOUS
<1>1. ASSUME \A r \in Requests : Created(r)' = Created(r) /\ (Created(r) => period'[r] = period[r])
      PROVE  \A p : Charged(p)' = Charged(p)
  BY <1>1 DEF Charged
<1>2. ASSUME UNCHANGED quota,
             \A r \in Requests : Created(r)' = Created(r) /\ (Created(r) => period'[r] = period[r])
      PROVE  QuotaBooks'
  BY <1>1, <1>2 DEF QuotaBooks, QuotaIsExact
<1>3. ASSUME NEW r \in Requests, TakesQuota(r) PROVE QuotaBooks'
  <2>1. \A s \in Requests : Created(s)' = Created(s)
    BY <1>3 DEF TakesQuota, Created, TypeOK
  <2> QED BY <1>2, <1>3, <2>1 DEF TakesQuota
<1>4. ASSUME NEW r \in Requests, Commits(r) PROVE QuotaBooks'
  <2> PICK p \in Periods : p = period[r]
    BY DEF TypeOK
  <2>1. /\ ~Created(r) /\ Created(r)' /\ UNCHANGED period /\ p \in Periods
        /\ \A s \in Requests \ {r} : Created(s)' = Created(s)
    BY <1>4 DEF Commits, Created, Goes, TypeOK
  <2>2. /\ quota'[p].count = quota[p].count + 1 /\ \A q \in Periods : quota'[q].state = quota[q].state
        /\ \A q \in Periods \ {p} : quota'[q].count = quota[q].count
    BY <1>4, <2>1 DEF Commits, TypeOK
  <2>3. Current(p) /\ quota[p].count < Cap /\ quota[p].count \in Nat
    BY <1>4 DEF Commits, Charging, QuotaLocks, TypeOK
  <2>4. Cardinality(Charged(p))' = Cardinality(Charged(p)) + 1
    <3>1. Charged(p)' = Charged(p) \cup {r} /\ r \notin Charged(p)
      BY <2>1 DEF Charged
    <3> QED BY <3>1, ChargedFinite, FS_AddElement
  <2>5. \A q \in Periods \ {p} : Charged(q)' = Charged(q)
    BY <2>1 DEF Charged
  <2>6. QuotaIsExact'
    <3>1. ASSUME NEW q \in Periods PROVE RowIsExact(q)'
      <4>1. RowIsExact(q)
        BY ExactRows DEF QuotaBooks
      <4>2. CASE q = p
        BY <2>2, <2>3, <2>4, <4>1, <4>2 DEF RowIsExact
      <4>3. CASE q # p
        <5>1. quota'[q].count = quota[q].count /\ Charged(q)' = Charged(q)
          BY <2>2, <2>5, <4>3
        <5> QED BY <4>1, <5>1 DEF RowIsExact
      <4> QED BY <4>2, <4>3
    <3> QED BY <3>1 DEF QuotaIsExact, RowIsExact
  <2>7. \A s \in Requests : Created(s)' => quota'[period'[s]].state # "unused"
    BY <2>1, <2>2, <2>3 DEF QuotaBooks, Current, TypeOK
  <2> QED BY <2>6, <2>7 DEF QuotaBooks
<1>5. ASSUME NEW j \in Jobs, TakesPeriod(j) PROVE QuotaBooks'
  BY <1>2, <1>5 DEF TakesPeriod, Created
<1>6. ASSUME NEW j \in Jobs, OpensPeriod(j) PROVE QuotaBooks'
  <2> DEFINE old == job[j].period
  <2> PICK new \in Periods :
         /\ quota[new].state = "unused"
         /\ quota' = [quota EXCEPT ![old].state = "past",
                                   ![new] = [state |-> "current", cycle |-> job[j].cycle, count |-> 0]]
    BY <1>6 DEF OpensPeriod
  <2>1. \A p : Charged(p)' = Charged(p)
    BY <1>1, <1>6 DEF OpensPeriod, JobUnchanged, creation, Created
  <2>2. UNCHANGED <<at, period>> /\ old \in Periods
    BY <1>6 DEF OpensPeriod, JobUnchanged, creation, TypeOK
  <2>3. /\ quota'[new].count = 0 /\ quota'[new].state = "current"
        /\ \A p \in Periods \ {new} : quota'[p].count = quota[p].count
        /\ \A p \in Periods \ {new} : quota'[p].state \in {quota[p].state, "past"}
    <3> DEFINE past == [quota[old] EXCEPT !.state = "past"]
               mid  == [quota EXCEPT ![old] = past]
               row  == [state |-> "current", cycle |-> job[j].cycle, count |-> 0]
    <3>1. past.state = "past" /\ past.count = quota[old].count
      BY <2>2 DEF TypeOK
    <3>2. mid[old] = past /\ \A p \in Periods \ {old} : mid[p] = quota[p]
      BY <2>2 DEF TypeOK
    <3>3. quota'[new] = row /\ \A p \in Periods \ {new} : quota'[p] = mid[p]
      BY <2>2 DEF TypeOK
    <3>4. row.state = "current" /\ row.count = 0
      OBVIOUS
    <3> HIDE DEF past, mid, row
    <3> QED BY <3>1, <3>2, <3>3, <3>4
  <2>4. Charged(new) = {}
    BY DEF Charged, QuotaBooks
  <2>5. \A s \in Requests : Created(s)' => quota'[period'[s]].state # "unused"
    BY <2>2, <2>3 DEF QuotaBooks, Created, TypeOK
  <2>6. QuotaIsExact'
    <3>1. ASSUME NEW q \in Periods PROVE RowIsExact(q)'
      <4>1. RowIsExact(q)
        BY ExactRows DEF QuotaBooks
      <4>2. Charged(q)' = Charged(q)
        BY <2>1
      <4>3. CASE q = new
        <5>1. Charged(q)' = {} /\ quota'[q].count = 0
          BY <2>3, <2>4, <4>2, <4>3
        <5> QED BY <5>1, FS_EmptySet DEF RowIsExact
      <4>4. CASE q # new
        <5>1. quota'[q].count = quota[q].count
          BY <2>3, <4>4
        <5> QED BY <4>1, <4>2, <5>1 DEF RowIsExact
      <4> QED BY <4>3, <4>4
    <3> QED BY <3>1 DEF QuotaIsExact, RowIsExact
  <2> QED BY <2>5, <2>6 DEF QuotaBooks
<1>7. CASE KeepsQuota
  BY <1>2, <1>7 DEF KeepsQuota
<1> QED BY <1>3, <1>4, <1>5, <1>6, <1>7, QuotaStep

\* A quota row counts exactly the documents charged to it, never above the cap.
THEOREM QuotaCountsDocuments == Spec => []QuotaIsExact
<1>1. Init => WaitInv /\ QuotaLocks /\ (~Sandbox => QuotaBooks)
  <2> SUFFICES ASSUME Init PROVE WaitInv /\ QuotaLocks /\ (~Sandbox => QuotaBooks)
    OBVIOUS
  <2>1. \A p \in Periods : Charged(p) = {} /\ quota[p].count = 0
    BY DEF Init, Charged, Created
  <2>2. WaitInv /\ QuotaLocks
    BY DEF Init, WaitInv, QuotaLocks, OneCurrentPeriod, Current, Charging, Closing
  <2>3. QuotaBooks
    <3>1. ASSUME NEW p \in Periods PROVE RowIsExact(p)
      BY <2>1, FS_EmptySet DEF RowIsExact
    <3>2. QuotaIsExact
      BY <3>1 DEF QuotaIsExact, RowIsExact
    <3> QED BY <3>2 DEF Init, QuotaBooks, Created
  <2> QED BY <2>2, <2>3
<1>2. (~Sandbox => QuotaBooks) /\ ~Sandbox => QuotaBooks
  OBVIOUS
<1>3. (~Sandbox => QuotaBooks) => QuotaIsExact
  BY DEF QuotaBooks, QuotaIsExact
<1>4. TypeOK /\ QuotaLocks /\ WaitInv /\ (~Sandbox => QuotaBooks) /\ [Next]_vars
      => (~Sandbox => QuotaBooks)'
  BY QuotaBooksStep
<1> QED BY <1>1, <1>3, <1>4, WaitStep, QuotaLocksStep, Typing, PTL DEF Spec

\* The reset, however many jobs run it, leaves one current period.
THEOREM OnePeriodIsCurrent == Spec => []OneCurrentPeriod
<1>1. Init => WaitInv /\ QuotaLocks
  BY DEF Init, WaitInv, QuotaLocks, OneCurrentPeriod, Current, Charging, Closing
<1>2. QuotaLocks => OneCurrentPeriod
  BY DEF QuotaLocks
<1> QED BY <1>1, <1>2, WaitStep, QuotaLocksStep, Typing, PTL DEF Spec
=============================================================================
