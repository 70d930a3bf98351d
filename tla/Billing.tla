------------------------------ MODULE Billing ------------------------------
(***************************************************************************)
(* The subscriptions of one tenant and their payments, from the request to *)
(* the review by the operator, the refund, and the daily job.              *)
(*                                                                         *)
(* A call reads the rows it decides on and then writes statement by        *)
(* statement what it decided, without a transaction, whatever has become   *)
(* of the rows.  Its statements are kept as data, in the order of the      *)
(* code.  Calls overlap, and each may die between two statements; none     *)
(* lasts for a day.  Rows are numbered in the order of their creation.     *)
(*                                                                         *)
(* Amounts, proof files, events and notifications are left out, and of the *)
(* quota only the cap is kept: the tier and interval it was computed from. *)
(***************************************************************************)
EXTENDS Naturals, FiniteSets, Sequences

CONSTANTS
    PaidTiers,       \* numbers, dearer as they grow; FREE is 0
    Callers,         \* requests, and runs of the job, that overlap
    Month, Year,     \* addBillingPeriod(), in days
    ReminderDays,    \* RENEWAL_REMINDER_DAYS
    GraceDays,       \* RENEWAL_GRACE_DAYS
    MaxSeats,        \* bound: extra seats
    LastDay,         \* bound: days
    MaxCalls         \* bound: calls, and mishaps: calls that begin during another, die
                     \* half-way, or stray

ASSUME BillingBounds ==
    /\ PaidTiers \subseteq Nat \ {0} /\ Month \in Nat /\ Year \in Nat
    /\ ReminderDays \in Nat /\ GraceDays \in Nat /\ MaxSeats \in Nat

VARIABLES
    day,             \* NOW()
    tenant,          \* tenants: tier, cap, past due or not, sandbox
    subscription,    \* subscriptions
    payment,         \* payments
    call,            \* what each call has still to write; the job's phase, and what it
                     \* writes of the rows it comes to later
    calls,           \* calls so far
    mishaps,         \* mishaps so far
    strayed          \* history: what may have set the rows against each other

billingVars == <<day, tenant, subscription, payment, call, calls, mishaps, strayed>>

Free == 0
Tiers == PaidTiers \cup {Free}
Intervals == {"MONTHLY", "YEARLY"}

Purposes == {"INITIAL", "TIER_CHANGE", "SEAT_CHANGE", "RENEWAL"}
Unsettled == {"PENDING", "REPORTED", "VERIFIED"}

Standings == {"PENDING_PAYMENT", "ACTIVE", "CANCELLED", "EXPIRED"}
PaymentStatuses == Unsettled \cup {"REJECTED", "CANCELLED", "REFUNDED"}

Plan == [tier : Tiers, interval : Intervals \cup {"same"}]
Tenant == [tier : Tiers, cap : Plan, pastDue : BOOLEAN, sandbox : BOOLEAN]
Subscription == [status : Standings, tier : Tiers, interval : Intervals, pending : SUBSET Plan,
                 seats : Nat, pendingSeats : SUBSET Nat, end : Nat]
Snapshot == [tier : Tiers, interval : Intervals, seats : Nat, end : Nat, tenantTier : Tiers,
             status : Standings]
Payment == [of : Nat, purpose : Purposes, target : Plan, seats : Nat, immediate : BOOLEAN,
            status : PaymentStatuses, from : SUBSET Snapshot, stamped : BOOLEAN,
            invoice : {"none", "sandbox", "linked"}]

\* A statement of a call, with what it decided to write.
Statement ==
    [do : {"subscribe"}, tier : Tiers, interval : Intervals]
    \cup [do : {"charge"}, row : Payment]
    \cup [do : {"plan"}, s : Nat, tier : Tiers, interval : Intervals \cup {"same"}]
    \cup [do : {"seats", "scheduleSeats"}, s : Nat, seats : Nat]
    \cup [do : {"status"}, s : Nat, status : Standings, end : SUBSET Nat]
    \cup [do : {"schedule"}, s : Nat, plan : Plan]
    \cup [do : {"tier"}, tier : Tiers] \cup [do : {"cap"}, cap : Plan]
    \cup [do : {"pastDue"}, to : BOOLEAN] \cup [do : {"promote"}]
    \cup [do : {"payment", "cancel"}, p : Nat, status : PaymentStatuses]
    \cup [do : {"snapshot"}, p : Nat, from : Snapshot] \cup [do : {"stamp"}, p : Nat]
    \cup [do : {"invoice"}, p : Nat, kind : {"sandbox", "linked"}]

Phases == {"none", "seats", "tiers", "reminders", "expiry"}

BillingTypeOK ==
    /\ day \in Nat /\ calls \in Nat /\ mishaps \in Nat /\ tenant \in Tenant
    /\ subscription \in Seq(Subscription) /\ payment \in Seq(Payment)
    /\ \A p \in DOMAIN payment : payment[p].of \in DOMAIN subscription
    /\ \A c \in Callers :
          /\ call[c].phase \in Phases /\ call[c].todo \in Seq(Statement)
          /\ DOMAIN call[c].later \subseteq DOMAIN subscription
          /\ \A s \in DOMAIN call[c].later : call[c].later[s] \in Seq(Statement)
    /\ strayed \subseteq {"interrupted", "crossed", "ended", "again", "met", "override", "asked"}

-----------------------------------------------------------------------------
(* The periods and the caps.                                               *)

PeriodEnd(start, interval) == start + (IF interval = "YEARLY" THEN Year ELSE Month)

\* FREE never pools a year's documents.
CapOf(tier, interval) == [tier |-> tier, interval |-> IF tier = Free THEN "MONTHLY" ELSE interval]

Or(interval, other) == IF interval = "same" THEN other ELSE interval

\* The order of the prices: a year costs ten months.
Price(tier, interval) == tier * (IF interval = "YEARLY" THEN 10 ELSE 1)

Live(s) == subscription[s].status \in {"PENDING_PAYMENT", "ACTIVE"}
Active == {s \in DOMAIN subscription : subscription[s].status = "ACTIVE"}

\* In flight: not rejected, cancelled or refunded, and its period not stamped.
InFlight(s, purpose) ==
    {p \in DOMAIN payment : /\ payment[p].of = s /\ payment[p].purpose = purpose
                            /\ ~payment[p].stamped /\ payment[p].status \in Unsettled}

Newest(P) == CHOOSE p \in P : \A q \in P : q <= p
Oldest(P) == CHOOSE p \in P : \A q \in P : p <= q

Same == [tier |-> Free, interval |-> "same"]

NewPayment(s, purpose, target, seats, immediate) ==
    [of |-> s, purpose |-> purpose, target |-> target, seats |-> seats, immediate |-> immediate,
     status |-> "PENDING", from |-> {}, stamped |-> FALSE, invoice |-> "none"]

NewSubscription(tier, interval) ==
    [status |-> "PENDING_PAYMENT", tier |-> tier, interval |-> interval, pending |-> {},
     seats |-> 0, pendingSeats |-> {}, end |-> 0]

NoRows == [s \in {} |-> <<>>]
NoCall == [phase |-> "none", todo |-> <<>>, later |-> NoRows]

\* A new tenant, or one in the first period of what it paid for.
BillingInit ==
    /\ day = 0 /\ calls = 0 /\ mishaps = 0 /\ strayed = {}
    /\ call = [c \in Callers |-> NoCall]
    /\ \/ /\ subscription = <<>> /\ payment = <<>>
          /\ \E sandbox \in BOOLEAN :
                tenant = [tier |-> Free, cap |-> CapOf(Free, "MONTHLY"), pastDue |-> FALSE,
                          sandbox |-> sandbox]
       \/ \E tier \in PaidTiers, interval \in Intervals :
             LET new == NewSubscription(tier, interval) IN
             /\ subscription = <<[new EXCEPT !.status = "ACTIVE", !.end = PeriodEnd(0, interval)]>>
             /\ payment = <<[NewPayment(1, "INITIAL", Same, 0, FALSE) EXCEPT
                               !.status = "VERIFIED", !.stamped = TRUE,
                               !.from = {[tier |-> tier, interval |-> interval, seats |-> 0,
                                          end |-> 0, tenantTier |-> Free,
                                          status |-> "PENDING_PAYMENT"]}]>>
             /\ tenant = [tier |-> tier, cap |-> CapOf(tier, interval), pastDue |-> FALSE,
                          sandbox |-> FALSE]

-----------------------------------------------------------------------------
(* Statements.                                                             *)

Inserts(s, purpose, target, seats, immediate) ==
    [do |-> "charge", row |-> NewPayment(s, purpose, target, seats, immediate)]
SetsPlan(s, tier, interval) == [do |-> "plan", s |-> s, tier |-> tier, interval |-> interval]
SetsSeats(s, seats) == [do |-> "seats", s |-> s, seats |-> seats]
SetsStatus(s, status, end) == [do |-> "status", s |-> s, status |-> status, end |-> end]
Schedules(s, tier, interval) ==
    [do |-> "schedule", s |-> s, plan |-> [tier |-> tier, interval |-> interval]]
SchedulesSeats(s, seats) == [do |-> "scheduleSeats", s |-> s, seats |-> seats]
SetsTier(tier) == [do |-> "tier", tier |-> tier]
SetsCap(tier, interval) == [do |-> "cap", cap |-> CapOf(tier, interval)]
SetsPastDue(b) == [do |-> "pastDue", to |-> b]
SetsPayment(p, status) == [do |-> "payment", p |-> p, status |-> status]
Snapshots(p, from) == [do |-> "snapshot", p |-> p, from |-> from]
Stamps(p) == [do |-> "stamp", p |-> p]

\* Mutant: the tier is granted, and not the cap.
GrantsTierOnly(tier, interval) == <<SetsTier(tier)>>

\* updateTier(), then setCap() or syncPeriod().
Grants(tier, interval) == <<SetsTier(tier), SetsCap(tier, interval)>>

PutsTenant(t) == tenant' = t /\ UNCHANGED <<subscription, payment>>
PutsRow(s, row) == subscription' = [subscription EXCEPT ![s] = row] /\ UNCHANGED <<tenant, payment>>
PutsPayment(p, row) == payment' = [payment EXCEPT ![p] = row] /\ UNCHANGED <<tenant, subscription>>

\* What one statement does.  A payment's other columns are written with the status it
\* was read with, VERIFIED.
WritesRow(st) ==
    LET now == subscription[st.s] IN
    \/ /\ st.do = "plan"
       /\ PutsRow(st.s, [now EXCEPT !.tier = st.tier, !.interval = Or(st.interval, now.interval),
                                    !.pending = {}])
    \/ st.do = "seats" /\ PutsRow(st.s, [now EXCEPT !.seats = st.seats, !.pendingSeats = {}])
    \/ /\ st.do = "status"
       /\ PutsRow(st.s, [now EXCEPT !.status = st.status,
                                    !.end = IF st.end = {} THEN now.end ELSE Oldest(st.end)])
    \/ st.do = "schedule" /\ PutsRow(st.s, [now EXCEPT !.pending = {st.plan}])
    \/ st.do = "scheduleSeats" /\ PutsRow(st.s, [now EXCEPT !.pendingSeats = {st.seats}])

WritesPayment(st) ==
    LET now == payment[st.p] IN
    \/ st.do \in {"payment", "cancel"} /\ PutsPayment(st.p, [now EXCEPT !.status = st.status])
    \/ st.do = "snapshot" /\ PutsPayment(st.p, [now EXCEPT !.status = "VERIFIED", !.from = {st.from}])
    \/ st.do = "stamp" /\ PutsPayment(st.p, [now EXCEPT !.status = "VERIFIED", !.stamped = TRUE])
    \/ st.do = "invoice" /\ PutsPayment(st.p, [now EXCEPT !.status = "VERIFIED", !.invoice = st.kind])

Writes(st) ==
    \/ /\ st.do = "subscribe" /\ UNCHANGED <<tenant, payment>>
       /\ subscription' = Append(subscription, NewSubscription(st.tier, st.interval))
    \/ /\ st.do = "charge" /\ UNCHANGED <<tenant, subscription>>
       /\ payment' = Append(payment, st.row)
    \/ st.do = "tier" /\ PutsTenant([tenant EXCEPT !.tier = st.tier])
    \/ st.do = "cap" /\ PutsTenant([tenant EXCEPT !.cap = st.cap])
    \/ st.do = "pastDue" /\ PutsTenant([tenant EXCEPT !.pastDue = st.to])
    \/ st.do = "promote" /\ PutsTenant([tenant EXCEPT !.sandbox = FALSE])
    \/ WritesRow(st) \/ WritesPayment(st)

\* What a call reads after a statement, and writes because of it: the first payment of
\* the row it inserted, the subscription of the INITIAL payment it cancelled, and the
\* period of the subscription it promoted.
Then(st) ==
    CASE st.do = "subscribe" -> <<Inserts(Len(subscription'), "INITIAL", Same, 0, FALSE)>>
      [] st.do = "cancel" /\ payment[st.p].purpose = "INITIAL"
            /\ subscription[payment[st.p].of].status = "PENDING_PAYMENT"
         -> <<SetsStatus(payment[st.p].of, "CANCELLED", {})>>
      [] st.do = "promote" /\ Active # {}
         -> LET s == Oldest(Active)
                funding == {p \in DOMAIN payment : payment[p].of = s /\ payment[p].stamped
                                                   /\ payment[p].status = "VERIFIED"} IN
            <<SetsStatus(s, "ACTIVE", {PeriodEnd(day, subscription[s].interval)})>>
            \o (IF funding = {} THEN <<>> ELSE <<Stamps(Newest(funding))>>)
            \o <<SetsCap(subscription[s].tier, subscription[s].interval)>>
      [] OTHER -> <<>>

\* A call that decides still: it has more to write than payments, or is the job's.
Deciding(now) == \/ now.phase # "none"
                 \/ \E i \in DOMAIN now.todo :
                       now.todo[i].do \notin {"charge", "snapshot", "stamp", "invoice"}

\* A call that has a payment, or a subscription and its payment, still to insert.
Asking(now) == \E i \in DOMAIN now.todo : now.todo[i].do \in {"charge", "subscribe"}

Crosses(c, now) ==
    (IF Deciding(now) /\ \E d \in Callers \ {c} : Deciding(call[d]) THEN {"crossed"} ELSE {})
    \cup (IF Asking(now) /\ \E d \in Callers \ {c} : Asking(call[d]) THEN {"asked"} ELSE {})

Idle(c) == call[c] = NoCall

Begins(c, how) ==
    /\ Idle(c) /\ calls' = calls + 1
    /\ mishaps' = mishaps + (IF how = {} /\ \A d \in Callers : Idle(d) THEN 0 ELSE 1)
    /\ calls' + mishaps' <= MaxCalls

\* A call reads, and has decided what to write.
Decides(c, todo, how) ==
    /\ Begins(c, how) /\ UNCHANGED day
    /\ call' = [call EXCEPT ![c].todo = todo]
    /\ strayed' = strayed \cup how \cup Crosses(c, call'[c])

Reads(c, todo) == Decides(c, todo, {}) /\ UNCHANGED <<tenant, subscription, payment>>

\* The first of the rows that the job has still to come to.
NextRow(phase, rows) ==
    LET s == Oldest(DOMAIN rows) IN
    IF DOMAIN rows = {} THEN [phase |-> phase, todo |-> <<>>, later |-> NoRows]
    ELSE [phase |-> phase, todo |-> rows[s], later |-> [r \in DOMAIN rows \ {s} |-> rows[r]]]

Continues(c) ==
    /\ call[c].todo # <<>> /\ Writes(Head(call[c].todo))
    /\ LET rest == Then(Head(call[c].todo)) \o Tail(call[c].todo) IN
       call' = [call EXCEPT ![c] = IF rest = <<>> THEN NextRow(@.phase, @.later)
                                   ELSE [@ EXCEPT !.todo = rest]]
    /\ UNCHANGED <<day, calls, mishaps, strayed>>

Dies(c) ==
    /\ ~Idle(c) /\ calls + mishaps < MaxCalls /\ mishaps' = mishaps + 1
    /\ call' = [call EXCEPT ![c] = NoCall] /\ strayed' = strayed \cup {"interrupted"}
    /\ UNCHANGED <<day, tenant, subscription, payment, calls>>

NextDay ==
    /\ day < LastDay /\ day' = day + 1 /\ \A c \in Callers : Idle(c)
    /\ UNCHANGED <<tenant, subscription, payment, call, calls, mishaps, strayed>>

-----------------------------------------------------------------------------
(* The tenant's requests.                                                  *)

\* createSubscription().
Subscribes(c, tier, interval) ==
    /\ \A s \in DOMAIN subscription : ~Live(s)
    /\ Reads(c, <<[do |-> "subscribe", tier |-> tier, interval |-> interval]>>)

\* Mutant: a change is refused while one is scheduled, and not while one awaits its
\* payment.
UnchangingUnpaid(s) == subscription[s].pending = {}

\* No change of the plan is scheduled or in flight, nor one of the seats in flight.
Unchanging(s) == /\ subscription[s].pending = {}
                 /\ InFlight(s, "TIER_CHANGE") = {} /\ InFlight(s, "SEAT_CHANGE") = {}

Changes(s, tier, interval) == <<SetsPlan(s, tier, interval)>> \o Grants(tier, interval)

Charges(s, tier, interval, immediate) ==
    <<Inserts(s, "TIER_CHANGE", [tier |-> tier, interval |-> interval], 0, immediate)>>

\* requestTierChange(): what becomes of the request.
SandboxChange(s, tier, interval) ==
    LET now == subscription[s] IN
    IF tier < now.tier \/ Price(tier, interval) <= Price(now.tier, now.interval)
    THEN Changes(s, tier, interval)
    ELSE Charges(s, tier, interval, FALSE)

ProductionChange(s, tier, interval) ==
    LET now == subscription[s] IN
    IF interval = now.interval
    THEN IF tier < now.tier THEN <<Schedules(s, tier, "same")>>
         ELSE IF now.end <= day THEN Changes(s, tier, interval)
         ELSE Charges(s, tier, "same", FALSE)
    ELSE Charges(s, tier, interval, interval = "YEARLY" /\ tier > now.tier)

RequestsTierChange(c, s, tier, interval) ==
    /\ s \in Active /\ Unchanging(s)
    /\ <<tier, interval>> # <<subscription[s].tier, subscription[s].interval>>
    /\ Reads(c, IF tenant.sandbox THEN SandboxChange(s, tier, interval)
                ELSE ProductionChange(s, tier, interval))

\* requestSeatChange().
RepricesSeats(s) ==
    \/ \E plan \in subscription[s].pending : plan.tier = Free \/ plan.interval # "same"
    \/ LET P == InFlight(s, "TIER_CHANGE")
       IN  P # {} /\ payment[Newest(P)].target.interval # "same"

SeatChange(s, seats) ==
    LET now == subscription[s] IN
    IF seats < now.seats
    THEN IF tenant.sandbox THEN <<SetsSeats(s, seats)>> ELSE <<SchedulesSeats(s, seats)>>
    ELSE IF ~tenant.sandbox /\ now.end <= day THEN <<SetsSeats(s, seats)>>
    ELSE <<Inserts(s, "SEAT_CHANGE", Same, seats, FALSE)>>

RequestsSeatChange(c, s, seats) ==
    /\ s \in Active /\ seats # subscription[s].seats
    /\ subscription[s].pendingSeats = {} /\ InFlight(s, "SEAT_CHANGE") = {} /\ ~RepricesSeats(s)
    /\ Reads(c, SeatChange(s, seats))

\* scheduleCancellation().
SchedulesCancellation(c, s) ==
    /\ ~tenant.sandbox /\ s \in Active /\ Unchanging(s)
    /\ Reads(c, <<Schedules(s, Free, "same")>>)

\* A payment that was decided on comes back.
Again(p) == IF payment[p].status \in {"PENDING", "REPORTED"} /\ payment[p].from = {} THEN {}
            ELSE {"again"}

\* Another call has decided on the payment, and not written it yet.
Meets(p) ==
    IF \E c \in Callers : \E i \in DOMAIN call[c].todo : LET st == call[c].todo[i] IN
          st.do \in {"payment", "cancel", "snapshot", "invoice"} /\ st.p = p
    THEN {"met"} ELSE {}

\* submitPaymentProof(), whatever the status but VERIFIED.
SubmitsProof(c, p) ==
    /\ payment[p].status # "VERIFIED"
    /\ Decides(c, <<SetsPayment(p, "REPORTED")>>, Again(p) \cup Meets(p))
    /\ UNCHANGED <<tenant, subscription, payment>>

\* cancelPayment().
CancelsPayment(c, p) ==
    /\ payment[p].status = "PENDING" /\ payment[p].purpose # "RENEWAL"
    /\ Decides(c, <<[do |-> "cancel", p |-> p, status |-> "CANCELLED"]>>, Meets(p))
    /\ UNCHANGED <<tenant, subscription, payment>>

\* promote(), as far as it concerns the subscription.
PromotesTenant(c) ==
    /\ tenant.sandbox /\ Reads(c, <<[do |-> "promote"]>>)

-----------------------------------------------------------------------------
(* The operator.                                                           *)

SnapshotOf(s) == LET now == subscription[s] IN
    [tier |-> now.tier, interval |-> now.interval, seats |-> now.seats, end |-> now.end,
     tenantTier |-> tenant.tier, status |-> now.status]

AppliesInitial(p, s) ==
    LET now == subscription[s] IN
    <<SetsStatus(s, "ACTIVE", {PeriodEnd(day, now.interval)}), Stamps(p)>>
    \o Grants(now.tier, now.interval)
    \o (IF tenant.pastDue THEN <<SetsPastDue(FALSE)>> ELSE <<>>)

AppliesRenewal(p, s) ==
    LET now == subscription[s] IN
    <<SetsStatus(s, "ACTIVE", {PeriodEnd(now.end, now.interval)}), Stamps(p),
      SetsCap(now.tier, now.interval)>>

AppliesSeats(p, s) == <<SetsSeats(s, payment[p].seats), Stamps(p)>>

AppliesTier(p, s) ==
    LET now == subscription[s]
        to  == payment[p].target IN
    IF payment[p].immediate
    THEN <<SetsPlan(s, to.tier, to.interval),
           SetsStatus(s, "ACTIVE", {PeriodEnd(day, to.interval)})>>
         \o Grants(to.tier, to.interval) \o <<Stamps(p)>>
    ELSE IF to.interval # "same" /\ ~tenant.sandbox
    THEN <<Schedules(s, to.tier, to.interval)>>
    ELSE Changes(s, to.tier, Or(to.interval, now.interval)) \o <<Stamps(p)>>

Applies(p, s) == CASE payment[p].purpose = "SEAT_CHANGE" -> AppliesSeats(p, s)
                   [] payment[p].purpose = "TIER_CHANGE" -> AppliesTier(p, s)
                   [] payment[p].purpose = "RENEWAL" -> AppliesRenewal(p, s)
                   [] OTHER -> AppliesInitial(p, s)

Ended(p) == IF Live(payment[p].of) THEN {} ELSE {"ended"}

\* reviewPayment(): the payment's status is written whatever it was, and then the
\* subscription and the tenant are read.
Verifies(c, p) ==
    LET s == payment[p].of IN
    /\ Decides(c, <<Snapshots(p, SnapshotOf(s))>> \o Applies(p, s), Ended(p) \cup Again(p) \cup Meets(p))
    /\ payment' = [payment EXCEPT ![p].status = "VERIFIED"]
    /\ UNCHANGED <<tenant, subscription>>

Rejects(c, p) ==
    /\ Decides(c, <<>>, Again(p) \cup Meets(p))
    /\ payment' = [payment EXCEPT ![p].status = "REJECTED"]
    /\ UNCHANGED <<tenant, subscription>>

\* linkInvoice().
LinksInvoice(c, s, kind) ==
    LET owed == {p \in DOMAIN payment : payment[p].of = s /\ payment[p].status = "VERIFIED"
                                        /\ payment[p].invoice = "none"} IN
    /\ owed # {}
    /\ Decides(c, <<[do |-> "invoice", p |-> Oldest(owed), kind |-> kind]>>, Meets(Oldest(owed)))
    /\ UNCHANGED <<tenant, subscription, payment>>

\* refundPayment().
Refunds(c, p) ==
    LET s == payment[p].of
        snap == CHOOSE from \in payment[p].from : TRUE IN
    /\ payment[p].status = "VERIFIED" /\ payment[p].from # {}
    /\ Decides(c,
          <<SetsPlan(s, snap.tier, snap.interval)>>
          \o (IF payment[p].purpose = "SEAT_CHANGE" THEN <<SetsSeats(s, snap.seats)>> ELSE <<>>)
          \o <<SetsStatus(s, IF payment[p].purpose = "INITIAL" THEN "CANCELLED" ELSE snap.status,
                          {snap.end})>>
          \o Grants(snap.tenantTier, snap.interval) \o <<SetsPayment(p, "REFUNDED")>>,
          Ended(p) \cup Meets(p))
    /\ UNCHANGED <<tenant, subscription, payment>>

\* findMisalignedWithSubscription(): ACTIVE ones whose quota has another period.  The
\* periods of the quotas are left out, so that it may be any of them.
Misaligned == Active

\* resyncFromSubscriptions().
Resyncs(c, s) == Reads(c, <<SetsCap(subscription[s].tier, subscription[s].interval)>>)

\* cancelSubscription() and updateTenantTier(), each without regard to the other's rows.
OverridesSubscription(c, s) ==
    /\ Decides(c, <<SetsStatus(s, "CANCELLED", {})>>, {"override"})
    /\ UNCHANGED <<tenant, subscription, payment>>

OverridesTier(c, tier) ==
    /\ Decides(c, Grants(tier, "MONTHLY"), {"override"})
    /\ UNCHANGED <<tenant, subscription, payment>>

-----------------------------------------------------------------------------
(* The job: scheduled seat changes, scheduled tier changes, reminders and  *)
(* expiry, each on the rows it reads when it begins.                       *)

ForEach(due, Statements(_)) == [s \in due |-> Statements(s)]

Over(s) == s \in Active /\ subscription[s].end <= day

\* applyScheduledSeatChanges().
LandsSeats(s) == <<SetsSeats(s, Oldest(subscription[s].pendingSeats))>>
DueSeats == ForEach({s \in Active : Over(s) /\ subscription[s].pendingSeats # {}}, LandsSeats)

ClearsSeats(s) == IF subscription[s].seats > 0 THEN <<SetsSeats(s, 0)>> ELSE <<>>

\* applyScheduledTierChanges().  Only a payment whose production invoice is linked is
\* found and stamped; its period is the one that begins.
LandsPlan(s) ==
    LET now == subscription[s]
        to  == CHOOSE plan \in now.pending : TRUE
        interval == Or(to.interval, now.interval)
        funding == {p \in InFlight(s, "TIER_CHANGE") : payment[p].status = "VERIFIED"
                                                       /\ payment[p].invoice = "linked"} IN
    IF to.tier = Free
    THEN <<SetsPlan(s, Free, "same"), SetsStatus(s, "CANCELLED", {})>>
         \o Grants(Free, "MONTHLY") \o ClearsSeats(s)
    ELSE <<SetsPlan(s, to.tier, to.interval), SetsStatus(s, "ACTIVE", {PeriodEnd(now.end, interval)})>>
         \o Grants(to.tier, interval)
         \o (IF to.interval # "same" /\ funding # {} THEN <<Stamps(Newest(funding))>> ELSE <<>>)

DueTiers == ForEach({s \in Active : Over(s) /\ subscription[s].pending # {}}, LandsPlan)

\* createRenewalReminder(), for a subscription with no renewal in flight.
OpensRenewal(s) == <<Inserts(s, "RENEWAL", Same, 0, FALSE)>>

DueReminders ==
    ForEach({s \in Active : /\ subscription[s].pending = {} /\ day < subscription[s].end
                            /\ subscription[s].end <= day + ReminderDays
                            /\ InFlight(s, "RENEWAL") = {}}, OpensRenewal)

\* expireSubscription().
Expires(s) == Grants(Free, "MONTHLY") \o ClearsSeats(s)
              \o <<SetsStatus(s, "EXPIRED", {}), SetsPastDue(TRUE)>>

DueExpiries == ForEach({s \in Active : subscription[s].end + GraceDays <= day}, Expires)

Enters(c, phase, rows) ==
    /\ call' = [call EXCEPT ![c] = NextRow(phase, rows)]
    /\ strayed' = strayed \cup Crosses(c, call'[c])
    /\ UNCHANGED <<day, tenant, subscription, payment>>

RunsJob(c) == Begins(c, {}) /\ Enters(c, "seats", DueSeats)

\* Mutant: expiry before the scheduled changes.
GoesOnJobExpiringFirst(c) ==
    /\ call[c].todo = <<>> /\ UNCHANGED <<calls, mishaps>>
    /\ \/ call[c].phase = "seats" /\ Enters(c, "reminders", DueReminders)
       \/ call[c].phase = "reminders" /\ Enters(c, "expiry", DueExpiries)
       \/ call[c].phase = "expiry" /\ Enters(c, "tiers", DueTiers)
       \/ call[c].phase = "tiers" /\ Enters(c, "none", NoRows)

GoesOnJob(c) ==
    /\ call[c].todo = <<>> /\ UNCHANGED <<calls, mishaps>>
    /\ \/ call[c].phase = "seats" /\ Enters(c, "tiers", DueTiers)
       \/ call[c].phase = "tiers" /\ Enters(c, "reminders", DueReminders)
       \/ call[c].phase = "reminders" /\ Enters(c, "expiry", DueExpiries)
       \/ call[c].phase = "expiry" /\ Enters(c, "none", NoRows)

-----------------------------------------------------------------------------
Requests(c) ==
    \/ \E tier \in PaidTiers, interval \in Intervals :
          \/ Subscribes(c, tier, interval)
          \/ \E s \in Active : RequestsTierChange(c, s, tier, interval)
    \/ \E s \in Active : \/ SchedulesCancellation(c, s)
                         \/ \E seats \in 0 .. MaxSeats : RequestsSeatChange(c, s, seats)
    \/ \E p \in DOMAIN payment : SubmitsProof(c, p) \/ CancelsPayment(c, p)
    \/ PromotesTenant(c)

Operates(c) ==
    \/ \E p \in DOMAIN payment : Verifies(c, p) \/ Rejects(c, p) \/ Refunds(c, p)
    \/ \E s \in DOMAIN subscription, kind \in {"sandbox", "linked"} : LinksInvoice(c, s, kind)
    \/ \E s \in Misaligned : Resyncs(c, s)
    \/ \E s \in DOMAIN subscription : OverridesSubscription(c, s)
    \/ \E tier \in Tiers : OverridesTier(c, tier)

BillingNext ==
    \/ NextDay
    \/ \E c \in Callers : \/ Requests(c) \/ Operates(c) \/ RunsJob(c) \/ GoesOnJob(c)
                          \/ Continues(c) \/ Dies(c)

BillingSpec == BillingInit /\ [][BillingNext]_billingVars

-----------------------------------------------------------------------------
(* Properties.  Each one names the strayings that the code does not survive *)
(* and the rows may disagree after.                                        *)

Unless(excuses) == strayed \cap excuses # {}

\* No call has the plan, the access or a status still to write.
Settled == \A c \in Callers : ~Deciding(call[c])

Agrees(s) == /\ tenant.tier = subscription[s].tier
             /\ tenant.cap = CapOf(subscription[s].tier, subscription[s].interval)
             /\ ~tenant.pastDue

\* The tenant's tier, the cap of its documents and its standing are those of its ACTIVE
\* subscription, and without one it is FREE: after any order of requests, reviews,
\* refunds and runs of the job, unless a call died half-way, two calls decided at once,
\* a payment of an ended subscription or one decided on before was acted on, or the
\* operator overrode the rows (docs/guides/billing-operations.md section 7, 3 and 4).
AccessMatchesSubscription ==
    Unless({"interrupted", "crossed", "ended", "again", "override"}) \/ (Settled =>
        /\ \A s \in Active : Agrees(s)
        /\ Active = {} => tenant.tier = Free /\ tenant.cap = CapOf(Free, "MONTHLY"))

\* A tenant has one subscription that is not over, unless two decisions overlapped, or a
\* payment was acted on after its subscription's end (createSubscription() refuses a second
\* one on what it read).
OneLiveSubscription ==
    Unless({"crossed", "ended"}) \/
    Cardinality({s \in DOMAIN subscription : Live(s)}) <= 1

\* At most one change of the plan, one of the seats and one renewal of a subscription
\* await payment or effect, unless two requests overlapped, or a decided payment came back
\* or was written twice at once.
OneChangeInFlight ==
    Unless({"asked", "again", "met"}) \/
    \A s \in DOMAIN subscription, purpose \in {"TIER_CHANGE", "SEAT_CHANGE", "RENEWAL"} :
        Cardinality(InFlight(s, purpose)) <= 1

\* A tenant has one of each at a time.
OneAtATime == OneLiveSubscription /\ OneChangeInFlight

\* The job expires a subscription only after its grace, and never one with a change
\* scheduled for the end of its period: that lands first, in the same run, whatever dies
\* or is reviewed, unless another call writes the row after the job has read it, or a
\* payment of the expired subscription schedules one.
ExpiresOnlyUnpaid ==
    Unless({"crossed", "ended"}) \/ \A s \in DOMAIN subscription : subscription[s].status = "EXPIRED" =>
        subscription[s].end + GraceDays <= day /\ subscription[s].pending = {}

\* What docs/guides/billing-operations.md:13 says: a verified payment is the grant of
\* access.  Stated for the payments of a subscription that is ACTIVE, with none refunded.
RenewalGrantsAccess ==
    \A s \in Active :
        /\ Settled /\ strayed \subseteq {"ended"}
        /\ \A p \in DOMAIN payment : payment[p].status # "REFUNDED"
        => tenant.tier = subscription[s].tier
=============================================================================
