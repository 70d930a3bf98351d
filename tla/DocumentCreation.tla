-------------------------- MODULE DocumentCreation --------------------------
(***************************************************************************)
(* POST /v1/documents for one tenant and one schema (public or sandbox):   *)
(* the transaction that charges the quota, takes the next sequential of    *)
(* the issue point and inserts the document under its Idempotency-Key,     *)
(* against what else writes those rows: the operator's edit of a counter,  *)
(* the promotion that seeds the counters, the job that resets the quota.   *)
(*                                                                         *)
(* PostgreSQL runs the transactions in READ COMMITTED: an UPDATE or a      *)
(* SELECT ... FOR UPDATE waits for the row's lock and then looks at the    *)
(* row again, a unique index makes the second INSERT wait for the first.   *)
(* What a transaction wrote stays with it (seq, period) until it commits.  *)
(***************************************************************************)
EXTENDS Naturals, FiniteSets

CONSTANTS
    Requests,      \* create() calls
    Counters,      \* rows of sequential_numbers: issue point and document type
    InitialTypes,  \* the counters of the types enabled before the promotion
    IssuerOf,      \* the issuer of each counter
    Keys, NoKey,   \* Idempotency-Key values, and a request without one
    Bodies,        \* request payloads, by their hash
    Sandbox,       \* the schema: no quota, and nothing to promote
    Cap,           \* document_quota of the tenant's tier
    Periods,       \* ids of tenant_quotas rows
    Promotions,    \* promote() calls
    Jobs,          \* resetDuePeriods() calls
    Starts,        \* initialSequentials a promotion may carry
    Edits,         \* nextSequential values an operator may set
    MaxCycle       \* bound: billing cycles that pass

ASSUME CreationAssumption ==
    /\ IsFiniteSet(Requests)
    /\ InitialTypes \subseteq Counters
    /\ NoKey \notin Keys
    /\ Sandbox \in BOOLEAN
    /\ Cap \in Nat /\ MaxCycle \in Nat
    /\ Starts \subseteq Nat \ {0} /\ Edits \subseteq Nat \ {0}

VARIABLES
    want,      \* what each request asks for
    at,        \* how far it is
    seq,       \* the sequential it took
    period,    \* the quota row it charges
    counter,   \* sequential_numbers.current_value
    seeded,    \* the counters that have a row
    live,      \* the tenant creates documents in this schema
    quota,     \* tenant_quotas
    now,       \* the billing cycle of today
    job,       \* the reset jobs
    promo,     \* the promotions
    skipped,   \* history: numbers an edit or a promotion passed over
    reseeded   \* history: counters an upsert lowered

creation == <<want, at, seq, period>>
history  == <<skipped, reseeded>>
vars == <<creation, counter, seeded, live, quota, now, job, promo, history>>

Ended == {"created", "replayed", "conflict", "refused", "failed"}
Places == {"idle", "begun", "waiting", "charged", "first", "numbered",
           "inserted", "raced"} \cup Ended

TypeOK ==
    /\ want \in [Requests -> [counter : Counters, key : Keys \cup {NoKey}, body : Bodies]]
    /\ at \in [Requests -> Places]
    /\ seq \in [Requests -> Nat]
    /\ period \in [Requests -> Periods]
    /\ counter \in [Counters -> Nat] /\ seeded \in SUBSET Counters
    /\ live \in BOOLEAN
    /\ quota \in [Periods -> [state : {"unused", "current", "past"}, cycle : Nat, count : Nat]]
    /\ now \in Nat
    /\ job \in [Jobs -> [at : {"idle", "due", "waiting", "closing", "done", "failed"},
                         cycle : Nat, period : Periods]]
    /\ promo \in [Promotions -> [at : {"idle", "seeding", "done"}, left : SUBSET InitialTypes]]
    /\ skipped \in [Counters -> SUBSET Nat] /\ reseeded \in SUBSET Counters

Init ==
    \E p \in Periods :
        /\ want \in [Requests -> [counter : Counters, key : Keys \cup {NoKey}, body : Bodies]]
        /\ at = [r \in Requests |-> "idle"]
        /\ seq = [r \in Requests |-> 0]
        /\ period = [r \in Requests |-> p]
        /\ counter = [c \in Counters |-> 0]
        /\ seeded = IF Sandbox THEN InitialTypes ELSE {}
        /\ live = Sandbox
        /\ quota = [q \in Periods |-> [state |-> IF q = p THEN "current" ELSE "unused",
                                       cycle |-> 0, count |-> 0]]
        /\ now = 0
        /\ job = [j \in Jobs |-> [at |-> "idle", cycle |-> 0, period |-> p]]
        /\ promo = [x \in Promotions |-> [at |-> "idle", left |-> {}]]
        /\ skipped = [c \in Counters |-> {}] /\ reseeded = {}

-----------------------------------------------------------------------------
(* Locks, and what the unique indexes see.                                 *)

Counter(r) == want[r].counter

Created(r) == at[r] = "created"

\* The row of the counter is locked, or its first INSERT not committed.
HasNumber(r) == at[r] \in {"numbered", "inserted"}
CounterLocked(c) == \E r \in Requests : HasNumber(r) /\ Counter(r) = c

Charging(r) == ~Sandbox /\ at[r] \in {"charged", "first", "numbered", "inserted"}
Closing(j) == job[j].at = "closing"

\* Mutant: a failed creation is not rolled back.
LockedForGood(p) ==
    \/ \E r \in Requests : (Charging(r) \/ at[r] = "failed") /\ period[r] = p
    \/ \E j \in Jobs : Closing(j) /\ job[j].period = p

PeriodLocked(p) == \/ \E r \in Requests : Charging(r) /\ period[r] = p
                   \/ \E j \in Jobs : Closing(j) /\ job[j].period = p

Current(p) == quota[p].state = "current"

SameKey(r, s) == want[r].key # NoKey /\ want[r].key = want[s].key

\* findByIdempotencyKey: the row-level policy shows the issuer's documents only.
Finds(r, s) == /\ Created(s) /\ SameKey(r, s)
               /\ IssuerOf[Counter(r)] = IssuerOf[Counter(s)]

-----------------------------------------------------------------------------
(* create(): one request.                                                  *)

Goes(r, place) == at' = [at EXCEPT ![r] = place]

Lookup(r) ==
    /\ at[r] = "idle" /\ live
    /\ \/ \E s \in Requests :
              /\ Finds(r, s)
              /\ Goes(r, IF want[r].body = want[s].body THEN "replayed" ELSE "conflict")
       \/ ~(\E s \in Requests : Finds(r, s)) /\ Goes(r, "begun")
    /\ UNCHANGED <<want, seq, period, counter, seeded, live, quota, now, job, promo, history>>

\* The UPDATE of the quota finds the current row ...
SeesPeriod(r) ==
    /\ at[r] = "begun" /\ ~Sandbox /\ Goes(r, "waiting")
    /\ \E p \in Periods : Current(p) /\ period' = [period EXCEPT ![r] = p]
    /\ UNCHANGED <<want, seq, counter, seeded, live, quota, now, job, promo, history>>

WithinCap(p) == Current(p) /\ quota[p].count < Cap

\* Mutant: the cap is read before the row is locked.
ChargesUnlocked(r) ==
    /\ at[r] = "waiting" /\ Goes(r, IF WithinCap(period[r]) THEN "charged" ELSE "refused")
    /\ UNCHANGED <<want, seq, period, counter, seeded, live, quota, now, job, promo, history>>

\* ... and, once it has the row's lock, looks at it again.
Charges(r) ==
    /\ at[r] = "waiting" /\ ~PeriodLocked(period[r])
    /\ Goes(r, IF WithinCap(period[r]) THEN "charged" ELSE "refused")
    /\ UNCHANGED <<want, seq, period, counter, seeded, live, quota, now, job, promo, history>>

Takes(r, n) == Goes(r, "numbered") /\ seq' = [seq EXCEPT ![r] = n]

MayNumber(r) == at[r] = IF Sandbox THEN "begun" ELSE "charged"

\* Mutant: the SELECT is not FOR UPDATE.
NumbersUnlocked(r) ==
    /\ MayNumber(r)
    /\ \/ Counter(r) \in seeded /\ Takes(r, counter[Counter(r)] + 1)
       \/ Counter(r) \notin seeded /\ Goes(r, "first") /\ UNCHANGED seq
    /\ UNCHANGED <<want, period, counter, seeded, live, quota, now, job, promo, history>>

\* getNext: SELECT ... FOR UPDATE; an INSERT follows when there is no row.
Numbers(r) ==
    /\ MayNumber(r)
    /\ \/ /\ Counter(r) \in seeded /\ ~CounterLocked(Counter(r))
          /\ Takes(r, counter[Counter(r)] + 1)
       \/ Counter(r) \notin seeded /\ Goes(r, "first") /\ UNCHANGED seq
    /\ UNCHANGED <<want, period, counter, seeded, live, quota, now, job, promo, history>>

\* 23505: rolled back; with a key, its winner is looked up.
Violates(r) == Goes(r, IF want[r].key = NoKey THEN "failed" ELSE "raced") /\ UNCHANGED seq

NumbersFirst(r) ==
    /\ at[r] = "first" /\ ~CounterLocked(Counter(r))
    /\ IF Counter(r) \in seeded THEN Violates(r) ELSE Takes(r, 1)
    /\ UNCHANGED <<want, period, counter, seeded, live, quota, now, job, promo, history>>

\* Mutant: the key's index is not unique.
InsertsAlways(r) ==
    /\ at[r] = "numbered" /\ Goes(r, "inserted") /\ UNCHANGED seq
    /\ UNCHANGED <<want, period, counter, seeded, live, quota, now, job, promo, history>>

InsertsDocument(r) ==
    /\ at[r] = "numbered"
    /\ ~\E s \in Requests : at[s] = "inserted" /\ SameKey(r, s)
    /\ IF \E s \in Requests : Created(s) /\ SameKey(r, s)
       THEN Violates(r)
       ELSE Goes(r, "inserted") /\ UNCHANGED seq
    /\ UNCHANGED <<want, period, counter, seeded, live, quota, now, job, promo, history>>

\* A check fails, the document cannot be built or signed, the process dies.
RollsBack(r) ==
    /\ at[r] \in {"begun", "waiting", "charged", "first", "numbered", "inserted"}
    /\ Goes(r, "failed")
    /\ UNCHANGED <<want, seq, period, counter, seeded, live, quota, now, job, promo, history>>

Commits(r) ==
    /\ at[r] = "inserted" /\ Goes(r, "created")
    /\ counter' = [counter EXCEPT ![Counter(r)] = seq[r]]
    /\ seeded' = seeded \cup {Counter(r)}
    /\ quota' = IF Sandbox THEN quota ELSE [quota EXCEPT ![period[r]].count = @ + 1]
    /\ UNCHANGED <<want, seq, period, live, now, job, promo, history>>

FindsWinner(r) ==
    /\ at[r] = "raced"
    /\ Goes(r, IF \E s \in Requests : Finds(r, s) THEN "replayed" ELSE "failed")
    /\ UNCHANGED <<want, seq, period, counter, seeded, live, quota, now, job, promo, history>>

-----------------------------------------------------------------------------
(* Counters: the operator's edit, and the seeding of a promotion.          *)

\* Mutant: the row is read without FOR UPDATE.
StartsUnlocked(c, n) ==
    /\ counter' = [counter EXCEPT ![c] = n - 1]
    /\ seeded' = seeded \cup {c}
    /\ skipped' = [skipped EXCEPT ![c] = @ \cup ((counter[c] + 1) .. (n - 1))]
    /\ reseeded' = IF n - 1 < counter[c] THEN reseeded \cup {c} ELSE reseeded

\* Mutant: the starting value is taken for the last one used, and stepped back twice.
StartsTooLow(c, n) ==
    /\ ~CounterLocked(c)
    /\ counter' = [counter EXCEPT ![c] = n - 2]
    /\ seeded' = seeded \cup {c}
    /\ UNCHANGED history

\* The row of c now stands at n - 1.
StartsAt(c, n) ==
    /\ ~CounterLocked(c)
    /\ counter' = [counter EXCEPT ![c] = n - 1]
    /\ seeded' = seeded \cup {c}
    /\ skipped' = [skipped EXCEPT ![c] = @ \cup ((counter[c] + 1) .. (n - 1))]
    /\ reseeded' = IF n - 1 < counter[c] THEN reseeded \cup {c} ELSE reseeded

SetNext(c, n) ==
    /\ n > counter[c] /\ StartsAt(c, n)
    /\ UNCHANGED <<creation, live, quota, now, job, promo>>

PromoteReads(x) ==
    /\ promo[x].at = "idle" /\ ~live
    /\ promo' = [promo EXCEPT ![x] = [at |-> "seeding", left |-> InitialTypes]]
    /\ UNCHANGED <<creation, counter, seeded, live, quota, now, job, history>>

\* initialize: an upsert, whatever the row's value.
Initialize(x, c) ==
    /\ promo[x].at = "seeding" /\ c \in promo[x].left
    /\ \E n \in Starts : StartsAt(c, n)
    /\ promo' = [promo EXCEPT ![x].left = @ \ {c}]
    /\ UNCHANGED <<creation, live, quota, now, job>>

Promotes(x) ==
    /\ promo[x].at = "seeding" /\ promo[x].left = {}
    /\ promo' = [promo EXCEPT ![x].at = "done"] /\ live' = TRUE
    /\ UNCHANGED <<creation, counter, seeded, quota, now, job, history>>

-----------------------------------------------------------------------------
(* resetDuePeriods: reads the due periods, then rolls each over in a       *)
(* transaction of its own.                                                 *)

JobUnchanged == UNCHANGED <<creation, counter, seeded, live, now, promo, history>>

JobReads(j) ==
    /\ job[j].at = "idle"
    /\ \E p \in Periods :
          /\ Current(p) /\ quota[p].cycle < now
          /\ job' = [job EXCEPT ![j].at = "due", ![j].cycle = quota[p].cycle + 1]
    /\ UNCHANGED quota /\ JobUnchanged

JobSeesPeriod(j) ==
    /\ job[j].at = "due"
    /\ \E p \in Periods :
          Current(p) /\ job' = [job EXCEPT ![j].at = "waiting", ![j].period = p]
    /\ UNCHANGED quota /\ JobUnchanged

\* Mutant: no index on the current period.
ClosesAnyway(j) ==
    /\ job[j].at = "waiting" /\ ~PeriodLocked(job[j].period)
    /\ job' = [job EXCEPT ![j].at = "closing"]
    /\ UNCHANGED quota /\ JobUnchanged

\* When somebody else closed the row, the INSERT hits the one that replaced it.
ClosesPeriod(j) ==
    /\ job[j].at = "waiting" /\ ~PeriodLocked(job[j].period)
    /\ job' = [job EXCEPT ![j].at = IF Current(job[j].period) THEN "closing" ELSE "failed"]
    /\ UNCHANGED quota /\ JobUnchanged

OpensPeriod(j) ==
    /\ Closing(j)
    /\ \E p \in Periods :
          /\ quota[p].state = "unused"
          /\ quota' = [quota EXCEPT ![job[j].period].state = "past",
                                    ![p] = [state |-> "current", cycle |-> job[j].cycle, count |-> 0]]
    /\ job' = [job EXCEPT ![j].at = "done"]
    /\ JobUnchanged

JobDies(j) ==
    /\ job[j].at \in {"due", "waiting", "closing"}
    /\ job' = [job EXCEPT ![j].at = "failed"]
    /\ UNCHANGED quota /\ JobUnchanged

CycleEnds == /\ now < MaxCycle /\ now' = now + 1
             /\ UNCHANGED <<creation, counter, seeded, live, quota, job, promo, history>>

-----------------------------------------------------------------------------
RequestStep(r) == \/ Lookup(r) \/ SeesPeriod(r) \/ Charges(r) \/ Numbers(r)
                  \/ NumbersFirst(r) \/ InsertsDocument(r) \/ Commits(r)
                  \/ FindsWinner(r)

PromotionStep(x) == \/ PromoteReads(x) \/ Promotes(x)
                    \/ \E c \in Counters : Initialize(x, c)

JobStep(j) == \/ JobReads(j) \/ JobSeesPeriod(j) \/ ClosesPeriod(j) \/ OpensPeriod(j)

Next == \/ \E r \in Requests : RequestStep(r) \/ RollsBack(r)
        \/ \E c \in Counters, n \in Edits : SetNext(c, n)
        \/ \E x \in Promotions : PromotionStep(x)
        \/ \E j \in Jobs : JobStep(j) \/ JobDies(j)
        \/ CycleEnds

Spec == Init /\ [][Next]_vars

\* A transaction's next statement runs once its lock is free: PostgreSQL queues
\* the waiters of a row, and a connection that dies is rolled back.
Fairness == /\ \A r \in Requests : SF_vars(RequestStep(r))
            /\ \A j \in Jobs : WF_vars(JobStep(j))

FairSpec == Spec /\ Fairness

-----------------------------------------------------------------------------
(* Properties.                                                             *)

\* Two documents never carry the same sequential of an issue point and document
\* type, whatever runs at once, as long as no promotion lowered its counter.
NumbersUsedOnce ==
    \A r, s \in Requests :
        /\ Created(r) /\ Created(s) /\ Counter(r) = Counter(s) /\ seq[r] = seq[s]
        /\ Counter(r) \notin reseeded
        => r = s

Used(c) == {seq[r] : r \in {s \in Requests : Created(s) /\ Counter(s) = c}}

\* No sequential is lost by a creation that fails: every number up to the
\* counter is a document's or was skipped by an edit, never both.
NoNumberLost ==
    \A c \in Counters \ reseeded :
        /\ Used(c) \cup skipped[c] = 1 .. counter[c]
        /\ Used(c) \cap skipped[c] = {}

\* An Idempotency-Key creates one document, however many requests carry it.
KeyCreatesOne ==
    \A r, s \in Requests : Created(r) /\ Created(s) /\ SameKey(r, s) => r = s

\* A quota row counts the documents charged to it that were committed, no more
\* than the cap, whoever failed, waited or was overtaken by the reset.
Charged(p) == {r \in Requests : Created(r) /\ period[r] = p}

QuotaIsExact ==
    ~Sandbox => \A p \in Periods : /\ quota[p].count = Cardinality(Charged(p))
                                   /\ quota[p].count <= Cap

\* A tenant always has one current period, while jobs overlap or die.
OneCurrentPeriod == \A p, q \in Periods : Current(p) /\ Current(q) => p = q

\* A creation that opened its transaction ends: nobody waits for ever on the
\* quota row, the counter or the key of another.
CreationsEnd == \A r \in Requests : at[r] = "begun" ~> at[r] \in Ended
=============================================================================
