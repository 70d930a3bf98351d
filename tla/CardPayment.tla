---------------------------- MODULE CardPayment -----------------------------
(***************************************************************************)
(* The card payments of one RENEWAL payment: sessions, the confirmation of *)
(* a charge with Payphone, the application of an approved one, and the     *)
(* reconciliation job, statement by statement.                             *)
(*                                                                         *)
(* Payphone is external: the payer completes the widget of a session, the  *)
(* charge is held, the confirm call captures it, and one that is not       *)
(* confirmed within five minutes is reversed.  Asked about a charge it has *)
(* captured it answers with the same outcome again.                        *)
(***************************************************************************)
EXTENDS Naturals, FiniteSets

CONSTANTS
    Attempts,     \* rows of payphone_transactions, one for each session
    Confirms,     \* confirmTransaction() calls
    Jobs,         \* reconcileStaleTransactions(), run by cron again and again
    MaxPending,   \* MAX_PENDING_ATTEMPTS_PER_PAYMENT
    MaxFailures   \* bound: unreachable vendor, failed statements, crashes

ASSUME CardAssumption ==
    /\ IsFiniteSet(Attempts)
    /\ Confirms \cap Jobs = {}
    /\ MaxPending \in Nat /\ MaxFailures \in Nat

VARIABLES
    payment,      \* payments: status, and applied_from's periodEnd
    ends,         \* subscriptions.current_period_end, in billing periods
    session,      \* the createSession() calls
    attempt,      \* payphone_transactions
    charge,       \* Payphone's side of each attempt
    task,         \* what each confirm and each job is doing
    failures,     \* failures so far
    unrecorded,   \* history: attempts whose outcome nobody wrote down, or nobody read
    misexpired,   \* history: attempts the job expired, which it knew as they had been
    half          \* history: an application ended between VERIFIED and the renewal

history == <<unrecorded, misexpired, half>>
vars == <<payment, ends, session, attempt, charge, task, failures, history>>

Callers == Confirms \cup Jobs

Decided == {"APPROVED", "CANCELLED", "EXPIRED", "DUPLICATE", "ERROR"}
Answers == {"none", "approved", "mismatch", "declined", "unreadable", "unreachable"}

Inside   == {"claimed", "asking", "answered"}      \* the transaction of resolveOutcome
HalfWay  == {"reading", "snapshotting", "renewing"}
Applying == {"approved", "verifying", "dating", "stamping"} \cup HalfWay
Sweeping == {"sweeping", "inquired", "applying"}
Places   == {"idle", "recovering", "done"} \cup Inside \cup Applying \cup Sweeping

Idle == [at |-> "idle"]
ConfirmTask == [at : Inside \cup {"recovering"}, attempt : Attempts,
                paid : BOOLEAN, answer : Answers]
ApplyTask == [at : Applying, attempt : Attempts, base : Nat, todo : SUBSET Attempts]
LoopTask == [at : {"sweeping", "applying"}, todo : SUBSET Attempts, ids : SUBSET Attempts]
AskTask == [at : {"inquired"}, todo : SUBSET Attempts, ids : SUBSET Attempts,
            attempt : Attempts, answer : Answers]

Task == [at : {"idle", "done"}] \cup ConfirmTask \cup ApplyTask \cup LoopTask \cup AskTask

TypeOK ==
    /\ payment \in [status : {"PENDING", "VERIFIED"}, from : Nat]
    /\ ends \in Nat
    /\ session \in [Attempts -> {"none", "checked", "open"}]
    /\ attempt \in [Attempts -> [status : {"ABSENT", "PENDING"} \cup Decided,
                                 id : BOOLEAN, applied : BOOLEAN, old : BOOLEAN]]
    /\ charge \in [Attempts -> [state : {"none", "held", "declined", "reversed", "captured"},
                                exact : BOOLEAN]]
    /\ task \in [Callers -> Task] /\ failures \in Nat
    /\ \A c \in Confirms : task[c].at \notin Sweeping
    /\ \A j \in Jobs : task[j].at \notin Inside \cup {"recovering", "done"}
    /\ unrecorded \cup misexpired \subseteq Attempts /\ half \in BOOLEAN

Init ==
    /\ payment = [status |-> "PENDING", from |-> 0]
    /\ ends = 0
    /\ session = [a \in Attempts |-> "none"]
    /\ attempt = [a \in Attempts |-> [status |-> "ABSENT", id |-> FALSE,
                                      applied |-> FALSE, old |-> FALSE]]
    /\ charge = [a \in Attempts |-> [state |-> "none", exact |-> TRUE]]
    /\ task = [c \in Callers |-> Idle]
    /\ failures = 0
    /\ unrecorded = {} /\ misexpired = {} /\ half = FALSE

-----------------------------------------------------------------------------
(* Payphone, as payphone.service.js uses it.                               *)

Charge(a, st) == charge' = [charge EXCEPT ![a].state = st]

Captured(a) == charge[a].state = "captured"

\* What confirm() returns for a, and what it does to the charge.
Confirmed(a, answer) ==
    \/ /\ charge[a].state \in {"held", "captured"} /\ Charge(a, "captured")
       /\ answer = IF charge[a].exact THEN "approved" ELSE "mismatch"
    \/ /\ charge[a].state \notin {"held", "captured"} /\ answer = "declined"
       /\ UNCHANGED charge

\* The call does not get through, its reply does not come back, or an error page
\* comes back, which is not a transport failure.
Unreachable(a, answer) ==
    /\ answer \in {"unreachable", "unreadable"}
    /\ failures < MaxFailures /\ failures' = failures + 1
    /\ \/ UNCHANGED charge
       \/ charge[a].state = "held" /\ Charge(a, "captured")

AsksPayphone(a, answer) == \/ Confirmed(a, answer) /\ UNCHANGED failures
                           \/ Unreachable(a, answer)

\* The payer completes the widget while it lives.
Pays(a) ==
    /\ session[a] = "open" /\ ~attempt[a].old /\ charge[a].state = "none"
    /\ \E st \in {"held", "declined"}, exact \in BOOLEAN :
          charge' = [charge EXCEPT ![a] = [state |-> st, exact |-> exact]]
    /\ UNCHANGED <<payment, ends, session, attempt, task, failures, history>>

Reverses(a) ==
    /\ charge[a].state = "held" /\ Charge(a, "reversed")
    /\ UNCHANGED <<payment, ends, session, attempt, task, failures, history>>

-----------------------------------------------------------------------------
(* Rows of payphone_transactions: an UPDATE waits for the confirm that     *)
(* holds the row, and then writes without looking at the status.           *)

At(c, place) == task[c].at = place
Holds(c, a) == task[c].at \in Inside /\ task[c].attempt = a
Locked(a) == \E c \in Confirms : Holds(c, a)

Sets(a, st, id) == attempt' = [attempt EXCEPT ![a].status = st, ![a].id = id]

Misreads(a, answer) ==
    unrecorded' = IF answer = "unreadable" THEN unrecorded \cup {a} ELSE unrecorded

Goes(c, place) == task' = [task EXCEPT ![c].at = place]
Ends(c) == task' = [task EXCEPT ![c] = [at |-> "done"]]
Returns(j) == task' = [task EXCEPT ![j] = [at |-> "applying", todo |-> @.todo, ids |-> {}]]

Counts == failures < MaxFailures /\ failures' = failures + 1

\* The transaction fails: ROLLBACK, and the catch block.
Loses(c) == Goes(c, "recovering") /\ Counts

\* Payphone's answer is in a confirm's hands.
Answered(c) == At(c, "recovering") \/ At(c, "answered")

-----------------------------------------------------------------------------
(* createSession().                                                        *)

Pending == {a \in Attempts : attempt[a].status = "PENDING"}

ChecksPayment(a) ==
    /\ session[a] = "none" /\ payment.status # "VERIFIED"
    /\ Cardinality(Pending) < MaxPending
    /\ session' = [session EXCEPT ![a] = "checked"]
    /\ UNCHANGED <<payment, ends, attempt, charge, task, failures, history>>

OpensSession(a) ==
    /\ session[a] = "checked"
    /\ session' = [session EXCEPT ![a] = "open"]
    /\ attempt' = [attempt EXCEPT ![a].status = "PENDING"]
    /\ UNCHANGED <<payment, ends, charge, task, failures, history>>

\* Ten minutes after the session was opened.
Age(a) ==
    /\ attempt[a].status = "PENDING" /\ ~attempt[a].old
    /\ attempt' = [attempt EXCEPT ![a].old = TRUE]
    /\ UNCHANGED <<payment, ends, session, charge, task, failures, history>>

-----------------------------------------------------------------------------
(* resolveOutcome(): one confirm.                                          *)

Takes(c, a) ==
    task' = [task EXCEPT ![c] = [at |-> "claimed", attempt |-> a, paid |-> FALSE, answer |-> "none"]]

\* Mutant: the SELECT does not lock the row.
ClaimsUnlocked(c, a) ==
    /\ At(c, "idle") /\ charge[a].state # "none" /\ Takes(c, a)
    /\ UNCHANGED <<payment, ends, session, attempt, charge, failures, history>>

\* The payer comes back from the widget, with Payphone's id.
Claims(c, a) ==
    /\ At(c, "idle") /\ charge[a].state # "none" /\ ~Locked(a) /\ Takes(c, a)
    /\ UNCHANGED <<payment, ends, session, attempt, charge, failures, history>>

\* The payment is read outside the transaction; a decided attempt is answered
\* from its row, and an approved one applied.
Starting(a, todo) == [at |-> "approved", attempt |-> a, base |-> 0, todo |-> todo]

ReadsPayment(c) ==
    /\ At(c, "claimed")
    /\ task' = [task EXCEPT ![c] =
                    CASE attempt[@.attempt].status = "PENDING" ->
                             [@ EXCEPT !.at = "asking", !.paid = payment.status = "VERIFIED"]
                      [] attempt[@.attempt].status = "APPROVED" -> Starting(@.attempt, {})
                      [] OTHER -> [at |-> "done"]]
    /\ UNCHANGED <<payment, ends, session, attempt, charge, failures, history>>

Asks(c) ==
    /\ At(c, "asking")
    /\ \E answer \in Answers :
          /\ AsksPayphone(task[c].attempt, answer)
          /\ task' = [task EXCEPT ![c].at = "answered", ![c].answer = answer]
    /\ UNCHANGED <<payment, ends, session, attempt, history>>

\* Mutant: the amount Payphone echoes is trusted.
TrustsAmount(answer, paid) ==
    CASE answer = "unreachable" -> "PENDING"
      [] answer \in {"declined", "unreadable"} -> "CANCELLED"
      [] OTHER -> IF paid THEN "DUPLICATE" ELSE "APPROVED"

\* The status written for Payphone's answer, paid being whether the payment had
\* been VERIFIED when it was read.
Outcome(answer, paid) ==
    CASE answer = "unreachable" -> "PENDING"
      [] answer \in {"declined", "unreadable"} -> "CANCELLED"
      [] answer = "mismatch"    -> "ERROR"
      [] answer = "approved"    -> IF paid THEN "DUPLICATE" ELSE "APPROVED"

Writes(c) ==
    LET a  == task[c].attempt
        st == Outcome(task[c].answer, task[c].paid)
    IN  /\ At(c, "answered") /\ Sets(a, st, TRUE)
        /\ Misreads(a, task[c].answer)
        /\ \/ /\ task' = [task EXCEPT ![c] =
                              CASE st = "PENDING"  -> [@ EXCEPT !.at = "recovering"]
                                [] st = "APPROVED" -> Starting(a, {})
                                [] OTHER           -> [at |-> "done"]]
              /\ UNCHANGED failures
           \/ Loses(c)
        /\ UNCHANGED <<payment, ends, session, charge, misexpired, half>>

\* A statement of the transaction fails and it is rolled back.
Fails(c) ==
    /\ task[c].at \in Inside /\ Loses(c)
    /\ UNCHANGED <<payment, ends, session, attempt, charge, history>>

\* Mutant: the catch block only rolls back.
RethrowsOnly(c) ==
    /\ At(c, "recovering") /\ Ends(c)
    /\ UNCHANGED <<payment, ends, session, attempt, charge, failures, history>>

\* The catch block, outside the transaction: PENDING with Payphone's id, over
\* whatever the row says by now.
Recovers(c) ==
    LET a == task[c].attempt
    IN  /\ At(c, "recovering") /\ ~Locked(a)
        /\ Sets(a, "PENDING", TRUE) /\ Ends(c)
        /\ UNCHANGED <<payment, ends, session, charge, failures, unrecorded, misexpired, half>>

\* Confirms that will not write down what Payphone told them, nor its id.
Forgets(cs) ==
    LET told == {c \in cs : Answered(c) /\ ~attempt[task[c].attempt].id}
    IN  unrecorded' = unrecorded \cup {task[c].attempt : c \in told}

RecoverFails(c) ==
    /\ At(c, "recovering") /\ Counts /\ Forgets({c}) /\ Ends(c)
    /\ UNCHANGED <<payment, ends, session, attempt, charge, misexpired, half>>

-----------------------------------------------------------------------------
(* applyApprovedTransaction(), of a confirm or a job, with what it runs of *)
(* applyVerifiedPayment() and applyRenewalPayment().                       *)

ReadsToApply(c) ==
    /\ At(c, "approved")
    /\ Goes(c, IF payment.status = "VERIFIED" THEN "stamping" ELSE "verifying")
    /\ UNCHANGED <<payment, ends, session, attempt, charge, failures, history>>

Verifies(c) ==
    /\ At(c, "verifying") /\ Goes(c, "reading")
    /\ payment' = [payment EXCEPT !.status = "VERIFIED"]
    /\ UNCHANGED <<ends, session, attempt, charge, failures, history>>

ReadsSubscription(c) ==
    /\ At(c, "reading")
    /\ task' = [task EXCEPT ![c].at = "snapshotting", ![c].base = ends]
    /\ UNCHANGED <<payment, ends, session, attempt, charge, failures, history>>

Snapshots(c) ==
    /\ At(c, "snapshotting") /\ Goes(c, "renewing")
    /\ payment' = [status |-> "VERIFIED", from |-> task[c].base]
    /\ UNCHANGED <<ends, session, attempt, charge, failures, history>>

Renews(c) ==
    /\ At(c, "renewing") /\ Goes(c, "dating")
    /\ ends' = task[c].base + 1
    /\ UNCHANGED <<payment, session, attempt, charge, failures, history>>

\* The period's dates on the payment, the quota's new period, the events.
Dates(c) ==
    /\ At(c, "dating") /\ Goes(c, "stamping")
    /\ payment' = [payment EXCEPT !.status = "VERIFIED"]
    /\ UNCHANGED <<ends, session, attempt, charge, failures, history>>

\* Mutant: an application that ends ends the job with it.
LeavesAlways(c) == Ends(c)

\* A confirm returns; a job goes on with its next attempt.
Leaves(c) == IF c \in Jobs THEN Returns(c) ELSE Ends(c)

Stamps(c) ==
    LET a == task[c].attempt
    IN  /\ At(c, "stamping") /\ ~Locked(a)
        /\ attempt' = [attempt EXCEPT ![a].status = "APPROVED", ![a].applied = TRUE]
        /\ Leaves(c)
        /\ UNCHANGED <<payment, ends, session, charge, failures, unrecorded, misexpired, half>>

Halves(cs) == half' = (half \/ \E c \in cs : task[c].at \in HalfWay)

ApplyFails(c) ==
    /\ task[c].at \in Applying /\ Counts /\ Halves({c}) /\ Leaves(c)
    /\ UNCHANGED <<payment, ends, session, attempt, charge, unrecorded, misexpired>>

-----------------------------------------------------------------------------
(* reconcileStaleTransactions().                                           *)

\* Mutant: the job asks for outcomes only.
NoneUnapplied == {}

Stale == {a \in Pending : attempt[a].old}
Unapplied == {a \in Attempts : attempt[a].status = "APPROVED" /\ ~attempt[a].applied}

Sweeps(j, todo) ==
    task' = [task EXCEPT ![j] = [at |-> "sweeping", todo |-> todo, ids |-> @.ids]]

Starts(j) ==
    /\ At(j, "idle") /\ Stale \cup Unapplied # {}
    /\ task' = [task EXCEPT ![j] = [at |-> "sweeping", todo |-> Stale,
                                    ids |-> {a \in Stale : attempt[a].id}]]
    /\ UNCHANGED <<payment, ends, session, attempt, charge, failures, history>>

\* Without Payphone's id when the row was read.
Expires(j, a) ==
    /\ At(j, "sweeping") /\ a \in task[j].todo \ task[j].ids /\ ~Locked(a)
    /\ attempt' = [attempt EXCEPT ![a].status = "EXPIRED"]
    /\ Sweeps(j, task[j].todo \ {a})
   
    /\ misexpired' = IF attempt[a].id \/ attempt[a].status # "PENDING"
                     THEN misexpired \cup {a} ELSE misexpired
    /\ UNCHANGED <<payment, ends, session, charge, failures, unrecorded, half>>

\* With it: confirm again; while Payphone cannot be reached, leave the row.
Inquires(j, a) ==
    /\ At(j, "sweeping") /\ a \in task[j].todo \cap task[j].ids
    /\ \E answer \in Answers :
          /\ AsksPayphone(a, answer)
          /\ IF answer = "unreachable" THEN Sweeps(j, task[j].todo \ {a})
             ELSE task' = [task EXCEPT ![j] = [at |-> "inquired", todo |-> @.todo \ {a},
                                               ids |-> @.ids, attempt |-> a, answer |-> answer]]
    /\ UNCHANGED <<payment, ends, session, attempt, history>>

\* Its answer is written without a look at the row, a mismatch as EXPIRED.
Settles(j) ==
    LET a  == task[j].attempt
        st == IF task[j].answer = "approved" THEN "APPROVED" ELSE "EXPIRED"
    IN  /\ At(j, "inquired") /\ ~Locked(a)
        /\ Sets(a, st, TRUE) /\ Sweeps(j, task[j].todo)
        /\ Misreads(a, task[j].answer)
        /\ UNCHANGED <<payment, ends, session, charge, failures, misexpired, half>>

FindsUnapplied(j) ==
    /\ At(j, "sweeping") /\ task[j].todo = {}
    /\ task' = [task EXCEPT ![j] = [at |-> "applying", todo |-> Unapplied, ids |-> {}]]
    /\ UNCHANGED <<payment, ends, session, attempt, charge, failures, history>>

Applies(j, a) ==
    /\ At(j, "applying") /\ a \in task[j].todo
    /\ task' = [task EXCEPT ![j] = Starting(a, @.todo \ {a})]
    /\ UNCHANGED <<payment, ends, session, attempt, charge, failures, history>>

JobEnds(j) ==
    /\ At(j, "applying") /\ task[j].todo = {}
    /\ task' = [task EXCEPT ![j] = Idle]
    /\ UNCHANGED <<payment, ends, session, attempt, charge, failures, history>>

\* A statement outside the loop's try fails: the job's request ends.
JobFails(j) ==
    /\ task[j].at \in Sweeping /\ Counts
    /\ task' = [task EXCEPT ![j] = Idle]
    /\ UNCHANGED <<payment, ends, session, attempt, charge, history>>

\* The API process dies, with every request and job in it.
Crash ==
    /\ Counts /\ Forgets(Confirms) /\ Halves(Callers)
    /\ task' = [c \in Callers |-> IF c \in Jobs \/ At(c, "idle") THEN Idle ELSE [at |-> "done"]]
    /\ UNCHANGED <<payment, ends, session, attempt, charge, misexpired>>

-----------------------------------------------------------------------------
ConfirmStep(c) == \/ \E a \in Attempts : Claims(c, a)
                  \/ ReadsPayment(c) \/ Asks(c) \/ Writes(c) \/ Recovers(c)

ApplyStep(c) == \/ ReadsToApply(c) \/ Verifies(c) \/ ReadsSubscription(c)
                \/ Snapshots(c) \/ Renews(c) \/ Dates(c) \/ Stamps(c)

JobStep(j) == \/ \E a \in Attempts : Expires(j, a) \/ Inquires(j, a) \/ Applies(j, a)
              \/ Starts(j) \/ Settles(j) \/ FindsUnapplied(j) \/ JobEnds(j)

Next == \/ \E a \in Attempts : ChecksPayment(a) \/ OpensSession(a) \/ Age(a)
                               \/ Pays(a) \/ Reverses(a)
        \/ \E c \in Confirms : ConfirmStep(c) \/ Fails(c) \/ RecoverFails(c)
        \/ \E c \in Callers : ApplyStep(c) \/ ApplyFails(c)
        \/ \E j \in Jobs : JobStep(j) \/ JobFails(j)
        \/ Crash

Spec == Init /\ [][Next]_vars

(***************************************************************************)
(* Fairness.  Requests and jobs that run go on; a session grows old; cron  *)
(* starts the job again and again.  Nobody must pay or come back.          *)
(***************************************************************************)
Fairness == /\ \A c \in Confirms : WF_vars(task[c].at # "idle" /\ ConfirmStep(c))
            /\ \A c \in Callers : WF_vars(ApplyStep(c))
            /\ \A j \in Jobs : WF_vars(JobStep(j))
            /\ \A a \in Attempts : WF_vars(Age(a))

FairSpec == Spec /\ Fairness

-----------------------------------------------------------------------------
(* Properties.                                                             *)

\* Money that was captured, as it was asked for, is not forgotten: the attempt
\* says so, or a confirm in progress will, or the job can still ask, unless
\* nobody wrote the answer down, an error page was taken for a refusal, or the
\* job expired the row it had read before.
Tracked(a) == \/ attempt[a].status \in {"APPROVED", "DUPLICATE"}
              \/ attempt[a].status = "PENDING" /\ attempt[a].id
              \/ \E c \in Confirms : Answered(c) /\ task[c].attempt = a

MoneyIsTracked ==
    \A a \in Attempts \ (unrecorded \cup misexpired) :
        Captured(a) /\ charge[a].exact => Tracked(a)

\* No period is granted and no payment VERIFIED without a charge that was
\* captured for the amount that was asked.
CreditIsBacked ==
    payment.status = "VERIFIED" \/ ends > 0 =>
        \E a \in Attempts : Captured(a) /\ charge[a].exact

\* A page submitted twice never changes an outcome: it changes only where the
\* catch block, the job or a stamp wrote over it without looking.
OutcomeKept ==
    [][\A a \in Attempts :
          attempt[a].status \in Decided /\ attempt'[a].status # attempt[a].status
              => \A c \in Confirms : ~(Holds(c, a) /\ At(c, "answered"))]_vars

\* A captured charge is credited in the end, through failures and crashes, but
\* for the three holes below.
CapturedIsCredited ==
    \A a \in Attempts :
        Captured(a) /\ charge[a].exact ~> \/ ends > 0
                                          \/ a \in unrecorded \cup misexpired
                                          \/ half

\* ADR-028: a second charge is not applied, "because applying twice would
\* double-extend a period".
AppliedOnce == ends <= 1
=============================================================================
