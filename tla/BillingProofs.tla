--------------------------- MODULE BillingProofs ---------------------------
(***************************************************************************)
(* Proofs about a tenant's subscription and its payments, for any calls,   *)
(* tiers, periods and mishaps.                                             *)
(***************************************************************************)
EXTENDS Billing, FiniteSetTheorems, SequenceTheorems, WellFoundedInduction, TLAPS

USE BillingBounds

-----------------------------------------------------------------------------
(* Numbers and sequences.                                                  *)

\* Numbers that there are have a least: what CHOOSE takes for an oldest exists.
LEMMA HasLeast ==
    ASSUME NEW S \in SUBSET Nat, S # {}
    PROVE  \E i \in S : \A k \in S : i <= k
<1> DEFINE Less == {ss \in Nat \X Nat : ss[1] < ss[2]}
<1>1. \A i, k \in Nat : <<k, i>> \in Less <=> k < i
  OBVIOUS
<1>2. IsWellFoundedOn(Less, Nat)
  BY NatLessThanWellFounded DEF OpToRel
<1> HIDE DEF Less
<1>3. PICK i \in S : \A k \in S : <<k, i>> \notin Less
  BY <1>2, WFMin
<1>4. ASSUME NEW k \in S PROVE i <= k
  <2>1. i \in Nat /\ k \in Nat /\ <<k, i>> \notin Less
    BY <1>3
  <2> QED BY <1>1, <2>1
<1> QED BY <1>4

\* And those up to a bound a greatest: likewise for a newest.
LEMMA HasGreatest ==
    ASSUME NEW n \in Nat, NEW S \in SUBSET (0 .. n), S # {}
    PROVE  \E i \in S : \A k \in S : k <= i
<1> DEFINE T == {n - i : i \in S}
<1>1. \A i \in S : n - i \in Nat
  OBVIOUS
<1>2. T \in SUBSET Nat /\ T # {}
  BY <1>1
<1>3. PICK t \in T : \A u \in T : t <= u
  BY <1>2, HasLeast
<1>4. PICK i \in S : t = n - i
  BY <1>3
<1>5. \A k \in S : t <= n - k
  BY <1>3
<1>6. \A k \in S : k <= i
  BY <1>4, <1>5
<1> QED BY <1>6

\* The oldest of some rows is one of them, and so is the newest.
LEMMA OldestIsOne ==
    ASSUME NEW S \in SUBSET Nat, S # {}
    PROVE  Oldest(S) \in S
  BY HasLeast DEF Oldest

LEMMA NewestIsOne ==
    ASSUME NEW n \in Nat, NEW S \in SUBSET (0 .. n), S # {}
    PROVE  Newest(S) \in S
  BY HasGreatest DEF Newest

LEMMA OldestOfOne == ASSUME NEW n \in Nat PROVE Oldest({n}) = n
<1>1. Oldest({n}) \in {n}
  BY OldestIsOne
<1> QED BY <1>1

\* What a sequence of statements holds.
Has(todo) == {todo[i] : i \in DOMAIN todo}

LEMMA HasNone == Has(<<>>) = {}
  BY DEF Has

LEMMA HasOne == ASSUME NEW a PROVE Has(<<a>>) = {a}
  BY DEF Has

LEMMA HasTwo == ASSUME NEW a, NEW b PROVE Has(<<a, b>>) = {a, b}
<1>1. DOMAIN <<a, b>> = 1 .. 2 /\ <<a, b>>[1] = a /\ <<a, b>>[2] = b
  OBVIOUS
<1>2. 1 .. 2 = {1, 2}
  OBVIOUS
<1> QED BY <1>1, <1>2 DEF Has

LEMMA HasThree == ASSUME NEW a, NEW b, NEW d PROVE Has(<<a, b, d>>) = {a, b, d}
<1>1. DOMAIN <<a, b, d>> = 1 .. 3 /\ <<a, b, d>>[1] = a /\ <<a, b, d>>[2] = b /\ <<a, b, d>>[3] = d
  OBVIOUS
<1>2. 1 .. 3 = {1, 2, 3}
  OBVIOUS
<1> QED BY <1>1, <1>2 DEF Has

LEMMA HasBoth ==
    ASSUME NEW S, NEW a \in Seq(S), NEW b \in Seq(S)
    PROVE  a \o b \in Seq(S) /\ Has(a \o b) = Has(a) \cup Has(b)
<1>1. a \o b \in Seq(S) /\ Len(a \o b) = Len(a) + Len(b)
  OBVIOUS
<1>2. \A i \in 1 .. Len(a) : (a \o b)[i] = a[i]
  OBVIOUS
<1>3. \A i \in 1 .. Len(b) : (a \o b)[Len(a) + i] = b[i]
  OBVIOUS
<1>4. \A i \in 1 .. Len(a) + Len(b) :
          i \in 1 .. Len(a) \/ \E k \in 1 .. Len(b) : i = Len(a) + k
  <2> TAKE i \in 1 .. Len(a) + Len(b)
  <2>1. CASE i <= Len(a)
    BY <2>1
  <2>2. CASE i > Len(a)
    <3>1. i - Len(a) \in 1 .. Len(b) /\ i = Len(a) + (i - Len(a))
      BY <2>2
    <3> QED BY <3>1
  <2> QED BY <2>1, <2>2
<1>5. Has(a \o b) \subseteq Has(a) \cup Has(b)
  BY <1>1, <1>2, <1>3, <1>4 DEF Has
<1>6. Has(a) \subseteq Has(a \o b)
  BY <1>1, <1>2 DEF Has
<1>7. ASSUME NEW x \in Has(b) PROVE x \in Has(a \o b)
  <2>1. PICK i \in 1 .. Len(b) : x = b[i]
    BY <1>7 DEF Has
  <2>2. Len(a) + i \in 1 .. Len(a \o b)
    BY <1>1
  <2> QED BY <1>1, <1>3, <2>1, <2>2 DEF Has
<1> QED BY <1>1, <1>5, <1>6, <1>7

LEMMA HasRest ==
    ASSUME NEW S, NEW todo \in Seq(S), todo # <<>>
    PROVE  /\ Head(todo) \in S /\ Tail(todo) \in Seq(S)
           /\ Has(todo) = {Head(todo)} \cup Has(Tail(todo))
<1>1. /\ Head(todo) \in S /\ Tail(todo) \in Seq(S) /\ Head(todo) = todo[1]
      /\ Len(Tail(todo)) = Len(todo) - 1 /\ Len(todo) \in Nat \ {0}
  OBVIOUS
<1>2. \A i \in 1 .. Len(todo) - 1 : Tail(todo)[i] = todo[i + 1]
  OBVIOUS
<1>3. \A i \in 1 .. Len(todo) : i = 1 \/ \E k \in 1 .. Len(todo) - 1 : i = k + 1
  <2> TAKE i \in 1 .. Len(todo)
  <2>1. CASE i = 1
    BY <2>1
  <2>2. CASE i > 1
    <3>1. i - 1 \in 1 .. Len(todo) - 1 /\ i = (i - 1) + 1
      BY <2>2, <1>1
    <3> QED BY <3>1
  <2> QED BY <2>1, <2>2
<1>4. ASSUME NEW x \in Has(todo) PROVE x \in {Head(todo)} \cup Has(Tail(todo))
  <2>1. PICK i \in 1 .. Len(todo) : x = todo[i]
    BY <1>4 DEF Has
  <2>2. CASE i = 1
    BY <1>1, <2>1, <2>2
  <2>3. CASE i # 1
    <3>1. PICK k \in 1 .. Len(todo) - 1 : i = k + 1
      BY <1>3, <2>3
    <3>2. x = Tail(todo)[k] /\ k \in DOMAIN Tail(todo)
      BY <1>1, <1>2, <2>1, <3>1
    <3> QED BY <3>2 DEF Has
  <2> QED BY <2>2, <2>3
<1>5. Head(todo) \in Has(todo)
  BY <1>1 DEF Has
<1>6. ASSUME NEW x \in Has(Tail(todo)) PROVE x \in Has(todo)
  <2>1. PICK i \in 1 .. Len(todo) - 1 : x = Tail(todo)[i]
    BY <1>1, <1>6 DEF Has
  <2>2. i + 1 \in 1 .. Len(todo)
    BY <1>1
  <2> QED BY <1>2, <2>1, <2>2 DEF Has
<1> QED BY <1>1, <1>4, <1>5, <1>6

LEMMA HasOf ==
    ASSUME NEW S, NEW todo \in Seq(S)
    PROVE  Has(todo) \subseteq S
  BY DEF Has

LEMMA SeqFrom ==
    ASSUME NEW S, NEW T, NEW todo \in Seq(S), Has(todo) \subseteq T
    PROVE  todo \in Seq(T)
<1>1. \A i \in 1 .. Len(todo) : todo[i] \in T
  BY DEF Has
<1> QED BY <1>1, IsASeq

-----------------------------------------------------------------------------
(* Types.                                                                  *)

\* What a statement is about is there.
RowOf == {"plan", "seats", "scheduleSeats", "status", "schedule"}
PaymentOf == {"payment", "cancel", "snapshot", "stamp", "invoice"}
Kinds == RowOf \cup PaymentOf \cup {"subscribe", "charge", "tier", "cap", "pastDue", "promote"}

Refers(st, rows, payments) ==
    /\ st.do \in RowOf => st.s \in rows
    /\ st.do \in PaymentOf => st.p \in payments
    /\ st.do = "charge" => st.row.of \in rows

\* The parts of a statement, by its kind.
LEMMA StatementParts ==
    ASSUME NEW st \in Statement
    PROVE  /\ st.do \in Kinds
           /\ st.do = "subscribe" => st.tier \in Tiers /\ st.interval \in Intervals
           /\ st.do = "charge" => st.row \in Payment
           /\ st.do = "plan" => st.tier \in Tiers /\ st.interval \in Intervals \cup {"same"}
           /\ st.do \in {"seats", "scheduleSeats"} => st.seats \in Nat
           /\ st.do = "status" => st.status \in Standings /\ st.end \in SUBSET Nat
           /\ st.do = "schedule" => st.plan \in Plan
           /\ st.do = "tier" => st.tier \in Tiers
           /\ st.do = "cap" => st.cap \in Plan
           /\ st.do = "pastDue" => st.to \in BOOLEAN
           /\ st.do \in {"payment", "cancel"} => st.status \in PaymentStatuses
           /\ st.do = "snapshot" => st.from \in Snapshot
           /\ st.do = "invoice" => st.kind \in {"sandbox", "linked"}
           /\ st.do \in RowOf => st.s \in Nat
           /\ st.do \in PaymentOf => st.p \in Nat
<1> USE DEF Kinds, RowOf, PaymentOf
<1>1. CASE st \in [do : {"subscribe"}, tier : Tiers, interval : Intervals]
  BY <1>1
<1>2. CASE st \in [do : {"charge"}, row : Payment]
  BY <1>2
<1>3. CASE st \in [do : {"plan"}, s : Nat, tier : Tiers, interval : Intervals \cup {"same"}]
  BY <1>3
<1>4. CASE st \in [do : {"seats", "scheduleSeats"}, s : Nat, seats : Nat]
  BY <1>4
<1>5. CASE st \in [do : {"status"}, s : Nat, status : Standings, end : SUBSET Nat]
  BY <1>5
<1>6. CASE st \in [do : {"schedule"}, s : Nat, plan : Plan]
  BY <1>6
<1>7. CASE st \in [do : {"tier"}, tier : Tiers]
  BY <1>7
<1>8. CASE st \in [do : {"cap"}, cap : Plan]
  BY <1>8
<1>9. CASE st \in [do : {"pastDue"}, to : BOOLEAN]
  BY <1>9
<1>10. CASE st \in [do : {"promote"}]
  BY <1>10
<1>11. CASE st \in [do : {"payment", "cancel"}, p : Nat, status : PaymentStatuses]
  BY <1>11
<1>12. CASE st \in [do : {"snapshot"}, p : Nat, from : Snapshot]
  BY <1>12
<1>13. CASE st \in [do : {"stamp"}, p : Nat]
  BY <1>13
<1>14. CASE st \in [do : {"invoice"}, p : Nat, kind : {"sandbox", "linked"}]
  BY <1>14
<1> HIDE DEF Kinds, RowOf, PaymentOf
<1> QED BY <1>1, <1>2, <1>3, <1>4, <1>5, <1>6, <1>7, <1>8, <1>9, <1>10, <1>11, <1>12, <1>13, <1>14
        DEF Statement

\* Statements that the calls decide on are statements.
LEMMA MakesPlan ==
    ASSUME NEW s \in Nat, NEW tier \in Tiers, NEW interval \in Intervals \cup {"same"}
    PROVE  SetsPlan(s, tier, interval) \in Statement
  BY DEF SetsPlan, Statement

LEMMA MakesSeats ==
    ASSUME NEW s \in Nat, NEW seats \in Nat
    PROVE  SetsSeats(s, seats) \in Statement /\ SchedulesSeats(s, seats) \in Statement
  BY DEF SetsSeats, SchedulesSeats, Statement

LEMMA MakesStatus ==
    ASSUME NEW s \in Nat, NEW status \in Standings, NEW end \in SUBSET Nat
    PROVE  SetsStatus(s, status, end) \in Statement
  BY DEF SetsStatus, Statement

LEMMA MakesSchedule ==
    ASSUME NEW s \in Nat, NEW tier \in Tiers, NEW interval \in Intervals \cup {"same"}
    PROVE  Schedules(s, tier, interval) \in Statement
  BY DEF Schedules, Statement, Plan

LEMMA MakesCap ==
    ASSUME NEW tier \in Tiers, NEW interval \in Intervals \cup {"same"}
    PROVE  CapOf(tier, interval) \in Plan /\ SetsCap(tier, interval) \in Statement
<1>1. CapOf(tier, interval) \in Plan
  BY DEF CapOf, Plan, Intervals
<1> QED BY <1>1 DEF SetsCap, Statement

LEMMA MakesTier == ASSUME NEW tier \in Tiers PROVE SetsTier(tier) \in Statement
  BY DEF SetsTier, Statement

LEMMA MakesPastDue == ASSUME NEW b \in BOOLEAN PROVE SetsPastDue(b) \in Statement
  BY DEF SetsPastDue, Statement

LEMMA MakesPayment ==
    ASSUME NEW p \in Nat, NEW status \in PaymentStatuses
    PROVE  /\ SetsPayment(p, status) \in Statement
           /\ [do |-> "cancel", p |-> p, status |-> status] \in Statement
           /\ Stamps(p) \in Statement
  BY DEF SetsPayment, Stamps, Statement

LEMMA MakesInvoice ==
    ASSUME NEW p \in Nat, NEW kind \in {"sandbox", "linked"}
    PROVE  [do |-> "invoice", p |-> p, kind |-> kind] \in Statement
  BY DEF Statement

LEMMA MakesSnapshot ==
    ASSUME NEW p \in Nat, NEW from \in Snapshot
    PROVE  Snapshots(p, from) \in Statement
  BY DEF Snapshots, Statement

LEMMA MakesCharge ==
    ASSUME NEW s \in Nat, NEW purpose \in Purposes, NEW target \in Plan, NEW seats \in Nat,
           NEW immediate \in BOOLEAN
    PROVE  /\ NewPayment(s, purpose, target, seats, immediate) \in Payment
           /\ Inserts(s, purpose, target, seats, immediate) \in Statement
<1>1. NewPayment(s, purpose, target, seats, immediate) \in Payment
  BY DEF NewPayment, Payment, PaymentStatuses, Unsettled
<1> QED BY <1>1 DEF Inserts, Statement

LEMMA MakesRequest ==
    /\ \A tier \in Tiers, interval \in Intervals :
          [do |-> "subscribe", tier |-> tier, interval |-> interval] \in Statement
    /\ [do |-> "promote"] \in Statement
  BY DEF Statement

-----------------------------------------------------------------------------
(* What a statement does to the rows.                                      *)

\* One entry of a sequence replaced.
LEMMA PutsOne ==
    ASSUME NEW S, NEW seq \in Seq(S), NEW i \in DOMAIN seq, NEW v \in S
    PROVE  /\ [seq EXCEPT ![i] = v] \in Seq(S)
           /\ DOMAIN [seq EXCEPT ![i] = v] = DOMAIN seq
           /\ [seq EXCEPT ![i] = v][i] = v
           /\ \A k \in DOMAIN seq \ {i} : [seq EXCEPT ![i] = v][k] = seq[k]
  BY ExceptSeq

\* One entry more.
LEMMA PutsLast ==
    ASSUME NEW S, NEW seq \in Seq(S), NEW v \in S
    PROVE  /\ Append(seq, v) \in Seq(S) /\ Len(seq) + 1 \in Nat
           /\ DOMAIN Append(seq, v) = DOMAIN seq \cup {Len(seq) + 1}
           /\ Len(seq) + 1 \notin DOMAIN seq /\ Len(Append(seq, v)) = Len(seq) + 1
           /\ Append(seq, v)[Len(seq) + 1] = v
           /\ \A k \in DOMAIN seq : Append(seq, v)[k] = seq[k]
<1>1. /\ Append(seq, v) \in Seq(S) /\ Len(Append(seq, v)) = Len(seq) + 1 /\ Len(seq) \in Nat
      /\ Append(seq, v)[Len(seq) + 1] = v
      /\ \A k \in 1 .. Len(seq) : Append(seq, v)[k] = seq[k]
  BY AppendProperties
<1>2. DOMAIN seq = 1 .. Len(seq) /\ DOMAIN Append(seq, v) = 1 .. Len(seq) + 1
  BY <1>1
<1> QED BY <1>1, <1>2

\* What a statement leaves of the tenant and the rows, by its kind.
LEMMA WritesPlan ==
    ASSUME subscription \in Seq(Subscription), NEW st \in Statement, st.do = "plan",
           st.s \in DOMAIN subscription, Writes(st)
    PROVE  /\ subscription' \in Seq(Subscription) /\ DOMAIN subscription' = DOMAIN subscription
           /\ UNCHANGED <<tenant, payment>>
           /\ \A k \in DOMAIN subscription \ {st.s} : subscription'[k] = subscription[k]
           /\ subscription'[st.s].tier = st.tier
           /\ subscription'[st.s].interval = Or(st.interval, subscription[st.s].interval)
           /\ subscription'[st.s].pending = {}
           /\ subscription'[st.s].status = subscription[st.s].status
           /\ subscription'[st.s].end = subscription[st.s].end
           /\ subscription'[st.s].seats = subscription[st.s].seats
           /\ subscription'[st.s].pendingSeats = subscription[st.s].pendingSeats
<1> DEFINE now == subscription[st.s]
           new == [now EXCEPT !.tier = st.tier, !.interval = Or(st.interval, now.interval), !.pending = {}]
<1>1. PutsRow(st.s, new)
  BY DEF Writes, WritesRow, WritesPayment
<1>2. now \in Subscription /\ st.tier \in Tiers /\ st.interval \in Intervals \cup {"same"}
  BY StatementParts, ElementOfSeq
<1>3. Or(st.interval, now.interval) \in Intervals
  BY <1>2 DEF Or, Subscription
<1>4. /\ new \in Subscription /\ new.tier = st.tier /\ new.interval = Or(st.interval, now.interval)
      /\ new.pending = {} /\ new.status = now.status /\ new.end = now.end /\ new.seats = now.seats
      /\ new.pendingSeats = now.pendingSeats
  BY <1>2, <1>3 DEF Subscription
<1> HIDE DEF new
<1> QED BY <1>1, <1>4, PutsOne DEF PutsRow

LEMMA WritesSeats ==
    ASSUME subscription \in Seq(Subscription), NEW st \in Statement, st.do \in {"seats", "scheduleSeats"},
           st.s \in DOMAIN subscription, Writes(st)
    PROVE  /\ subscription' \in Seq(Subscription) /\ DOMAIN subscription' = DOMAIN subscription
           /\ UNCHANGED <<tenant, payment>>
           /\ \A k \in DOMAIN subscription \ {st.s} : subscription'[k] = subscription[k]
           /\ subscription'[st.s].tier = subscription[st.s].tier
           /\ subscription'[st.s].interval = subscription[st.s].interval
           /\ subscription'[st.s].pending = subscription[st.s].pending
           /\ subscription'[st.s].status = subscription[st.s].status
           /\ subscription'[st.s].end = subscription[st.s].end
<1> DEFINE now == subscription[st.s]
           new == IF st.do = "seats" THEN [now EXCEPT !.seats = st.seats, !.pendingSeats = {}]
                  ELSE [now EXCEPT !.pendingSeats = {st.seats}]
<1>1. PutsRow(st.s, new)
  BY DEF Writes, WritesRow, WritesPayment
<1>2. now \in Subscription /\ st.seats \in Nat
  BY StatementParts, ElementOfSeq
<1>4. /\ new \in Subscription /\ new.tier = now.tier /\ new.interval = now.interval
      /\ new.pending = now.pending /\ new.status = now.status /\ new.end = now.end
  BY <1>2 DEF Subscription
<1> HIDE DEF new
<1> QED BY <1>1, <1>4, PutsOne DEF PutsRow

LEMMA WritesStatus ==
    ASSUME subscription \in Seq(Subscription), NEW st \in Statement, st.do = "status",
           st.s \in DOMAIN subscription, Writes(st)
    PROVE  /\ subscription' \in Seq(Subscription) /\ DOMAIN subscription' = DOMAIN subscription
           /\ UNCHANGED <<tenant, payment>>
           /\ \A k \in DOMAIN subscription \ {st.s} : subscription'[k] = subscription[k]
           /\ subscription'[st.s].status = st.status
           /\ subscription'[st.s].end = IF st.end = {} THEN subscription[st.s].end ELSE Oldest(st.end)
           /\ subscription'[st.s].tier = subscription[st.s].tier
           /\ subscription'[st.s].interval = subscription[st.s].interval
           /\ subscription'[st.s].pending = subscription[st.s].pending
           /\ subscription'[st.s].seats = subscription[st.s].seats
           /\ subscription'[st.s].pendingSeats = subscription[st.s].pendingSeats
<1> DEFINE now == subscription[st.s]
           end == IF st.end = {} THEN now.end ELSE Oldest(st.end)
           new == [now EXCEPT !.status = st.status, !.end = end]
<1>1. PutsRow(st.s, new)
  BY DEF Writes, WritesRow, WritesPayment
<1>2. now \in Subscription /\ st.status \in Standings /\ st.end \in SUBSET Nat
  BY StatementParts, ElementOfSeq
<1>3. end \in Nat
  BY <1>2, OldestIsOne DEF Subscription
<1> HIDE DEF end
<1>4. /\ new \in Subscription /\ new.tier = now.tier /\ new.interval = now.interval
      /\ new.pending = now.pending /\ new.status = st.status /\ new.end = end /\ new.seats = now.seats
      /\ new.pendingSeats = now.pendingSeats
  BY <1>2, <1>3 DEF Subscription
<1> HIDE DEF new
<1> QED BY <1>1, <1>4, PutsOne DEF PutsRow, end

LEMMA WritesSchedule ==
    ASSUME subscription \in Seq(Subscription), NEW st \in Statement, st.do = "schedule",
           st.s \in DOMAIN subscription, Writes(st)
    PROVE  /\ subscription' \in Seq(Subscription) /\ DOMAIN subscription' = DOMAIN subscription
           /\ UNCHANGED <<tenant, payment>>
           /\ \A k \in DOMAIN subscription \ {st.s} : subscription'[k] = subscription[k]
           /\ subscription'[st.s].tier = subscription[st.s].tier
           /\ subscription'[st.s].interval = subscription[st.s].interval
           /\ subscription'[st.s].pending = {st.plan}
           /\ subscription'[st.s].status = subscription[st.s].status
           /\ subscription'[st.s].end = subscription[st.s].end
<1> DEFINE now == subscription[st.s]
           new == [now EXCEPT !.pending = {st.plan}]
<1>1. PutsRow(st.s, new)
  BY DEF Writes, WritesRow, WritesPayment
<1>2. now \in Subscription /\ st.plan \in Plan
  BY StatementParts, ElementOfSeq
<1>4. /\ new \in Subscription /\ new.tier = now.tier /\ new.interval = now.interval
      /\ new.pending = {st.plan} /\ new.status = now.status /\ new.end = now.end
  BY <1>2 DEF Subscription
<1> HIDE DEF new
<1> QED BY <1>1, <1>4, PutsOne DEF PutsRow

LEMMA WritesOfPayment ==
    ASSUME payment \in Seq(Payment), NEW st \in Statement, st.do \in PaymentOf,
           st.p \in DOMAIN payment, Writes(st)
    PROVE  /\ payment' \in Seq(Payment) /\ DOMAIN payment' = DOMAIN payment
           /\ UNCHANGED <<tenant, subscription>>
           /\ \A k \in DOMAIN payment \ {st.p} : payment'[k] = payment[k]
           /\ payment'[st.p].of = payment[st.p].of /\ payment'[st.p].purpose = payment[st.p].purpose
           /\ payment'[st.p].target = payment[st.p].target
           /\ payment'[st.p].seats = payment[st.p].seats
           /\ payment'[st.p].immediate = payment[st.p].immediate
           /\ payment'[st.p].status = IF st.do \in {"payment", "cancel"} THEN st.status ELSE "VERIFIED"
           /\ payment'[st.p].stamped = (payment[st.p].stamped \/ st.do = "stamp")
           /\ payment'[st.p].from = IF st.do = "snapshot" THEN {st.from} ELSE payment[st.p].from
<1> DEFINE now == payment[st.p]
           new == IF st.do \in {"payment", "cancel"} THEN [now EXCEPT !.status = st.status]
                  ELSE IF st.do = "snapshot" THEN [now EXCEPT !.status = "VERIFIED", !.from = {st.from}]
                  ELSE IF st.do = "stamp" THEN [now EXCEPT !.status = "VERIFIED", !.stamped = TRUE]
                  ELSE [now EXCEPT !.status = "VERIFIED", !.invoice = st.kind]
<1>1. PutsPayment(st.p, new)
  BY DEF Writes, WritesRow, WritesPayment, PaymentOf
<1>2. now \in Payment
  BY ElementOfSeq
<1>3. /\ st.do \in {"payment", "cancel"} => st.status \in PaymentStatuses
      /\ st.do = "snapshot" => st.from \in Snapshot
      /\ st.do = "invoice" => st.kind \in {"sandbox", "linked"}
  BY StatementParts
<1>4. /\ new \in Payment /\ new.of = now.of /\ new.purpose = now.purpose /\ new.target = now.target
      /\ new.seats = now.seats /\ new.immediate = now.immediate
      /\ new.status = IF st.do \in {"payment", "cancel"} THEN st.status ELSE "VERIFIED"
      /\ new.stamped = (now.stamped \/ st.do = "stamp")
      /\ new.from = IF st.do = "snapshot" THEN {st.from} ELSE now.from
  BY <1>2, <1>3 DEF Payment, PaymentStatuses, Unsettled, PaymentOf
<1> HIDE DEF new
<1> QED BY <1>1, <1>4, PutsOne DEF PutsPayment

LEMMA WritesCharge ==
    ASSUME payment \in Seq(Payment), NEW st \in Statement, st.do = "charge", Writes(st)
    PROVE  /\ payment' = Append(payment, st.row) /\ UNCHANGED <<tenant, subscription>>
           /\ st.row \in Payment
<1>1. st.row \in Payment
  BY StatementParts
<1> QED BY <1>1 DEF Writes, WritesRow, WritesPayment

LEMMA WritesSubscribe ==
    ASSUME subscription \in Seq(Subscription), NEW st \in Statement, st.do = "subscribe", Writes(st)
    PROVE  /\ subscription' = Append(subscription, NewSubscription(st.tier, st.interval))
           /\ NewSubscription(st.tier, st.interval) \in Subscription
           /\ UNCHANGED <<tenant, payment>>
<1>1. st.tier \in Tiers /\ st.interval \in Intervals
  BY StatementParts
<1> QED BY <1>1 DEF Writes, WritesRow, WritesPayment, NewSubscription, Subscription, Standings

LEMMA WritesTenant ==
    ASSUME tenant \in Tenant, NEW st \in Statement, st.do \in {"tier", "cap", "pastDue", "promote"},
           Writes(st)
    PROVE  /\ tenant' \in Tenant /\ UNCHANGED <<subscription, payment>>
           /\ tenant'.tier = IF st.do = "tier" THEN st.tier ELSE tenant.tier
           /\ tenant'.cap = IF st.do = "cap" THEN st.cap ELSE tenant.cap
           /\ tenant'.pastDue = IF st.do = "pastDue" THEN st.to ELSE tenant.pastDue
           /\ tenant'.sandbox = IF st.do = "promote" THEN FALSE ELSE tenant.sandbox
<1>1. /\ st.do = "tier" => st.tier \in Tiers
      /\ st.do = "cap" => st.cap \in Plan
      /\ st.do = "pastDue" => st.to \in BOOLEAN
  BY StatementParts
<1> QED BY <1>1 DEF Writes, WritesRow, WritesPayment, PutsTenant, Tenant

-----------------------------------------------------------------------------
(* Types are kept.                                                         *)

\* All that a call has still to write.
All(now) == Has(now.todo) \cup UNION {Has(now.later[s]) : s \in DOMAIN now.later}

\* A sequence of statements about rows that are there.
Sound(todo) == /\ todo \in Seq(Statement)
               /\ \A st \in Has(todo) : Refers(st, DOMAIN subscription, DOMAIN payment)

\* What a call has to write is about rows that are there, and of the rows that the job
\* comes to later there is something to write.
Referring ==
    \A c \in Callers :
        /\ \A st \in All(call[c]) : Refers(st, DOMAIN subscription, DOMAIN payment)
        /\ \A s \in DOMAIN call[c].later : call[c].later[s] # <<>>
        /\ call[c].todo = <<>> => DOMAIN call[c].later = {}

TypesInv == BillingTypeOK /\ Referring /\ DOMAIN call = Callers

LEMMA SoundNone == Sound(<<>>)
  BY HasNone DEF Sound

LEMMA SoundOne ==
    ASSUME NEW st \in Statement, Refers(st, DOMAIN subscription, DOMAIN payment)
    PROVE  Sound(<<st>>)
  BY HasOne DEF Sound

LEMMA SoundBoth ==
    ASSUME NEW a, NEW b, Sound(a), Sound(b)
    PROVE  Sound(a \o b) /\ Has(a \o b) = Has(a) \cup Has(b)
  BY HasBoth DEF Sound

\* Whether rows are there does not change, as rows are never removed.
LEMMA RefersOn ==
    ASSUME NEW st, NEW A, NEW B, NEW C, NEW D, Refers(st, A, B), A \subseteq C, B \subseteq D
    PROVE  Refers(st, C, D)
  BY DEF Refers

\* A call that has decided, and nothing else.
LEMMA DecidesMoves ==
    ASSUME TypesInv, NEW c \in Callers, NEW todo, NEW how, Decides(c, todo, how)
    PROVE  /\ DOMAIN call' = Callers /\ \A d \in Callers \ {c} : call'[d] = call[d]
           /\ call'[c].phase = "none" /\ call'[c].todo = todo /\ call'[c].later = NoRows
           /\ call[c] = NoCall /\ calls' \in Nat /\ mishaps' \in Nat /\ day' = day
           /\ strayed' = strayed \cup how \cup Crosses(c, call'[c])
<1>1. call[c] = NoCall /\ call' = [call EXCEPT ![c].todo = todo]
  BY DEF Decides, Begins, Idle
<1>2. calls' \in Nat /\ mishaps' \in Nat
  BY DEF Decides, Begins, TypesInv, BillingTypeOK
<1> QED BY <1>1, <1>2 DEF Decides, NoCall, TypesInv

LEMMA CrossesIs == ASSUME NEW c, NEW now PROVE Crosses(c, now) \subseteq {"crossed", "asked"}
  BY DEF Crosses

LEMMA NoRowsIs == DOMAIN NoRows = {}
  BY DEF NoRows

Strayings == {"interrupted", "crossed", "ended", "again", "met", "override", "asked"}

LEMMA DecidesTypes ==
    ASSUME TypesInv, NEW c \in Callers, NEW todo, NEW how \in SUBSET Strayings,
           Decides(c, todo, how), Sound(todo), UNCHANGED <<tenant, subscription>>,
           payment' \in Seq(Payment), DOMAIN payment' = DOMAIN payment,
           \A p \in DOMAIN payment : payment'[p].of = payment[p].of
    PROVE  TypesInv'
<1>1. /\ DOMAIN call' = Callers /\ \A d \in Callers \ {c} : call'[d] = call[d]
      /\ call'[c].phase = "none" /\ call'[c].todo = todo /\ call'[c].later = NoRows
      /\ calls' \in Nat /\ mishaps' \in Nat /\ day' = day
      /\ strayed' = strayed \cup how \cup Crosses(c, call'[c])
  BY DecidesMoves
<1>2. strayed' \subseteq Strayings
  BY <1>1, CrossesIs DEF TypesInv, BillingTypeOK, Strayings
<1>3. \A d \in Callers :
          /\ call'[d].phase \in Phases /\ call'[d].todo \in Seq(Statement)
          /\ DOMAIN call'[d].later \subseteq DOMAIN subscription
          /\ \A s \in DOMAIN call'[d].later : call'[d].later[s] \in Seq(Statement)
  BY <1>1, NoRowsIs DEF TypesInv, BillingTypeOK, Phases, Sound
<1>4. BillingTypeOK'
  BY <1>1, <1>2, <1>3 DEF TypesInv, BillingTypeOK, Strayings
<1>5. All(call'[c]) = Has(todo)
  BY <1>1, NoRowsIs DEF All
<1>6. Referring'
  BY <1>1, <1>5, NoRowsIs DEF TypesInv, Referring, Sound
<1> QED BY <1>1, <1>4, <1>6 DEF TypesInv

\* The next row of the job.
LEMMA NextRowIs ==
    ASSUME NEW phase, NEW rows, DOMAIN rows \subseteq Nat
    PROVE  /\ NextRow(phase, rows).phase = phase
           /\ DOMAIN rows = {} => /\ NextRow(phase, rows).todo = <<>>
                                  /\ NextRow(phase, rows).later = NoRows
           /\ DOMAIN rows # {} =>
                 \E s \in DOMAIN rows :
                    /\ NextRow(phase, rows).todo = rows[s]
                    /\ DOMAIN NextRow(phase, rows).later = DOMAIN rows \ {s}
                    /\ \A r \in DOMAIN rows \ {s} : NextRow(phase, rows).later[r] = rows[r]
           /\ All(NextRow(phase, rows)) = UNION {Has(rows[s]) : s \in DOMAIN rows}
<1>1. CASE DOMAIN rows = {}
  <2>1. NextRow(phase, rows) = [phase |-> phase, todo |-> <<>>, later |-> NoRows]
    BY <1>1 DEF NextRow
  <2> QED BY <1>1, <2>1, HasNone, NoRowsIs DEF All
<1>2. CASE DOMAIN rows # {}
  <2>1. PICK s \in DOMAIN rows : s = Oldest(DOMAIN rows)
    BY <1>2, OldestIsOne
  <2>2. NextRow(phase, rows) =
            [phase |-> phase, todo |-> rows[s], later |-> [r \in DOMAIN rows \ {s} |-> rows[r]]]
    BY <1>2, <2>1 DEF NextRow
  <2>3. /\ NextRow(phase, rows).phase = phase /\ NextRow(phase, rows).todo = rows[s]
        /\ DOMAIN NextRow(phase, rows).later = DOMAIN rows \ {s}
        /\ \A r \in DOMAIN rows \ {s} : NextRow(phase, rows).later[r] = rows[r]
    BY <2>2
  <2>4. UNION {Has(NextRow(phase, rows).later[r]) : r \in DOMAIN rows \ {s}}
            = UNION {Has(rows[r]) : r \in DOMAIN rows \ {s}}
    BY <2>3
  <2>5. UNION {Has(rows[r]) : r \in DOMAIN rows}
            = Has(rows[s]) \cup UNION {Has(rows[r]) : r \in DOMAIN rows \ {s}}
    BY <2>1
  <2>6. All(NextRow(phase, rows)) = UNION {Has(rows[r]) : r \in DOMAIN rows}
    BY <2>3, <2>4, <2>5 DEF All
  <2> QED BY <1>2, <2>3, <2>6
<1> QED BY <1>1, <1>2

\* What a statement leaves has its types, and no row is removed.
LEMMA WritesTypes ==
    ASSUME TypesInv, NEW st \in Statement, Refers(st, DOMAIN subscription, DOMAIN payment), Writes(st)
    PROVE  /\ tenant' \in Tenant /\ subscription' \in Seq(Subscription) /\ payment' \in Seq(Payment)
           /\ DOMAIN subscription \subseteq DOMAIN subscription'
           /\ DOMAIN payment \subseteq DOMAIN payment'
           /\ \A p \in DOMAIN payment' : payment'[p].of \in DOMAIN subscription'
           /\ st.do # "subscribe" => DOMAIN subscription' = DOMAIN subscription
           /\ st.do # "charge" => DOMAIN payment' = DOMAIN payment
<1> USE DEF TypesInv, BillingTypeOK
<1>0. st.do \in Kinds
  BY StatementParts
<1>1. CASE st.do \in RowOf
  BY <1>1, WritesPlan, WritesSeats, WritesStatus, WritesSchedule DEF RowOf, Refers
<1>2. CASE st.do \in PaymentOf
  <2>1. st.p \in DOMAIN payment /\ st.do # "subscribe" /\ st.do # "charge"
    BY <1>2 DEF Refers, PaymentOf
  <2>2. /\ payment' \in Seq(Payment) /\ DOMAIN payment' = DOMAIN payment
        /\ UNCHANGED <<tenant, subscription>>
        /\ \A k \in DOMAIN payment \ {st.p} : payment'[k] = payment[k]
        /\ payment'[st.p].of = payment[st.p].of
    BY <1>2, <2>1, WritesOfPayment
  <2> QED BY <2>1, <2>2
<1>3. CASE st.do \in {"tier", "cap", "pastDue", "promote"}
  BY <1>3, WritesTenant
<1>4. CASE st.do = "subscribe"
  <2> DEFINE new == NewSubscription(st.tier, st.interval)
  <2>1. /\ subscription' = Append(subscription, new) /\ new \in Subscription
        /\ UNCHANGED <<tenant, payment>>
    BY <1>4, WritesSubscribe
  <2> HIDE DEF new
  <2>2. /\ Append(subscription, new) \in Seq(Subscription)
        /\ DOMAIN Append(subscription, new) = DOMAIN subscription \cup {Len(subscription) + 1}
    BY <2>1, PutsLast
  <2> QED BY <1>4, <2>1, <2>2
<1>5. CASE st.do = "charge"
  <2>1. payment' = Append(payment, st.row) /\ UNCHANGED <<tenant, subscription>> /\ st.row \in Payment
    BY <1>5, WritesCharge
  <2>2. st.row.of \in DOMAIN subscription
    BY <1>5 DEF Refers
  <2>3. /\ payment' \in Seq(Payment) /\ DOMAIN payment' = DOMAIN payment \cup {Len(payment) + 1}
        /\ payment'[Len(payment) + 1] = st.row
        /\ \A k \in DOMAIN payment : payment'[k] = payment[k]
    BY <2>1, PutsLast
  <2> QED BY <1>5, <2>1, <2>2, <2>3
<1> QED BY <1>0, <1>1, <1>2, <1>3, <1>4, <1>5 DEF Kinds

\* What a statement makes its call write next.
LEMMA ThenSubscribe ==
    ASSUME NEW st, st.do = "subscribe"
    PROVE  Then(st) = <<Inserts(Len(subscription'), "INITIAL", Same, 0, FALSE)>>
  BY DEF Then

LEMMA ThenCancel ==
    ASSUME NEW st, st.do = "cancel"
    PROVE  \/ Then(st) = <<>>
           \/ /\ Then(st) = <<SetsStatus(payment[st.p].of, "CANCELLED", {})>>
              /\ subscription[payment[st.p].of].status = "PENDING_PAYMENT"
<1>1. CASE payment[st.p].purpose = "INITIAL" /\ subscription[payment[st.p].of].status = "PENDING_PAYMENT"
  BY <1>1 DEF Then
<1>2. CASE ~(payment[st.p].purpose = "INITIAL" /\ subscription[payment[st.p].of].status = "PENDING_PAYMENT")
  <2>1. st.do # "subscribe" /\ st.do # "promote"
    OBVIOUS
  <2> QED BY <1>2, <2>1 DEF Then
<1> QED BY <1>1, <1>2

\* The stamp that a promotion writes, if there is a payment to stamp.
StampsFunding(funding) == IF funding = {} THEN <<>> ELSE <<Stamps(Newest(funding))>>

LEMMA ThenPromote ==
    ASSUME BillingTypeOK, NEW st, st.do = "promote"
    PROVE  \/ Then(st) = <<>>
           \/ \E s \in Active, P \in SUBSET (DOMAIN payment) :
                 Then(st) = <<SetsStatus(s, "ACTIVE", {PeriodEnd(day, subscription[s].interval)})>>
                            \o StampsFunding(P)
                            \o <<SetsCap(subscription[s].tier, subscription[s].interval)>>
<1>1. CASE Active = {}
  <2>1. st.do # "subscribe" /\ st.do # "cancel"
    OBVIOUS
  <2> QED BY <1>1, <2>1 DEF Then
<1>2. CASE Active # {}
  <2> DEFINE s == Oldest(Active)
             P == {p \in DOMAIN payment : payment[p].of = s /\ payment[p].stamped
                                                /\ payment[p].status = "VERIFIED"}
  <2>1. Active \in SUBSET Nat
    BY DEF Active, BillingTypeOK
  <2>2. s \in Active
    BY <1>2, <2>1, OldestIsOne
  <2>3. Then(st) = <<SetsStatus(s, "ACTIVE", {PeriodEnd(day, subscription[s].interval)})>>
                   \o StampsFunding(P)
                   \o <<SetsCap(subscription[s].tier, subscription[s].interval)>>
    BY <1>2 DEF Then, StampsFunding
  <2>4. P \in SUBSET (DOMAIN payment)
    OBVIOUS
  <2> HIDE DEF s, P
  <2> QED BY <2>2, <2>3, <2>4
<1> QED BY <1>1, <1>2

LEMMA ThenNothing ==
    ASSUME NEW st, st.do \notin {"subscribe", "cancel", "promote"}
    PROVE  Then(st) = <<>>
  BY DEF Then

\* A period ends some day.
LEMMA PeriodEndIs == ASSUME NEW start \in Nat, NEW interval PROVE PeriodEnd(start, interval) \in Nat
  BY DEF PeriodEnd

LEMMA StampsSound ==
    ASSUME TypesInv, NEW P \in SUBSET (DOMAIN payment)
    PROVE  /\ Sound(StampsFunding(P))
           /\ \A st \in Has(StampsFunding(P)) : st.do = "stamp" /\ st.p \in P
<1>1. CASE P = {}
  BY <1>1, SoundNone, HasNone DEF StampsFunding
<1>2. CASE P # {}
  <2>1. Newest(P) \in P /\ Newest(P) \in Nat
    <3>1. Len(payment) \in Nat /\ DOMAIN payment = 1 .. Len(payment)
      BY DEF TypesInv, BillingTypeOK
    <3>2. P \in SUBSET (0 .. Len(payment)) /\ P \subseteq Nat
      BY <3>1
    <3>3. Newest(P) \in P
      BY <1>2, <3>1, <3>2, NewestIsOne
    <3> QED BY <3>2, <3>3
  <2>2. Stamps(Newest(P)).do = "stamp" /\ Stamps(Newest(P)).p = Newest(P)
    BY DEF Stamps
  <2>3. Stamps(Newest(P)) \in Statement
    BY <2>1 DEF Stamps, Statement
  <2> QED BY <1>2, <2>1, <2>2, <2>3, SoundOne, HasOne DEF StampsFunding, Refers, PaymentOf, RowOf
<1> QED BY <1>1, <1>2

LEMMA PromoteSound ==
    ASSUME TypesInv, NEW s \in Active, NEW P \in SUBSET (DOMAIN payment),
           NEW todo, todo = <<SetsStatus(s, "ACTIVE", {PeriodEnd(day, subscription[s].interval)})>>
                            \o StampsFunding(P)
                            \o <<SetsCap(subscription[s].tier, subscription[s].interval)>>
    PROVE  /\ Sound(todo)
           /\ Has(todo) = {SetsStatus(s, "ACTIVE", {PeriodEnd(day, subscription[s].interval)}),
                           SetsCap(subscription[s].tier, subscription[s].interval)}
                          \cup Has(StampsFunding(P))
<1> DEFINE a == SetsStatus(s, "ACTIVE", {PeriodEnd(day, subscription[s].interval)})
           b == SetsCap(subscription[s].tier, subscription[s].interval)
<1>1. s \in DOMAIN subscription /\ s \in Nat /\ subscription[s] \in Subscription
  BY ElementOfSeq DEF Active, TypesInv, BillingTypeOK
<1>2. a \in Statement /\ a.do = "status" /\ a.s = s
  BY <1>1, PeriodEndIs, MakesStatus DEF SetsStatus, Standings, TypesInv, BillingTypeOK
<1>3. b \in Statement /\ b.do = "cap"
  BY <1>1, MakesCap DEF SetsCap, Subscription
<1>4. Sound(<<a>>) /\ Sound(<<b>>)
  BY <1>1, <1>2, <1>3, SoundOne DEF Refers, RowOf, PaymentOf
<1> HIDE DEF a, b
<1>5. Sound(StampsFunding(P))
  BY StampsSound
<1>6. Sound(<<a>> \o StampsFunding(P)) /\ Has(<<a>> \o StampsFunding(P)) = {a} \cup Has(StampsFunding(P))
  BY <1>4, <1>5, SoundBoth, HasOne
<1>7. /\ Sound((<<a>> \o StampsFunding(P)) \o <<b>>)
      /\ Has((<<a>> \o StampsFunding(P)) \o <<b>>) = {a} \cup Has(StampsFunding(P)) \cup {b}
  <2> DEFINE x == <<a>> \o StampsFunding(P)
             y == <<b>>
  <2>1. Sound(x) /\ Sound(y) /\ Has(y) = {b} /\ Has(x) = {a} \cup Has(StampsFunding(P))
    BY <1>4, <1>6, HasOne
  <2> HIDE DEF x, y
  <2>2. Sound(x \o y) /\ Has(x \o y) = Has(x) \cup Has(y)
    BY <2>1, SoundBoth
  <2> QED BY <2>1, <2>2 DEF x, y
<1> QED BY <1>7 DEF a, b

LEMMA ThenTypes ==
    ASSUME TypesInv, NEW st \in Statement, Refers(st, DOMAIN subscription, DOMAIN payment), Writes(st)
    PROVE  /\ Then(st) \in Seq(Statement)
           /\ \A x \in Has(Then(st)) : Refers(x, DOMAIN subscription', DOMAIN payment')
<1>1. /\ DOMAIN subscription \subseteq DOMAIN subscription' /\ DOMAIN payment \subseteq DOMAIN payment'
  BY WritesTypes
<1>2. ASSUME Sound(Then(st))
      PROVE  /\ Then(st) \in Seq(Statement)
             /\ \A x \in Has(Then(st)) : Refers(x, DOMAIN subscription', DOMAIN payment')
  BY <1>1, <1>2, RefersOn DEF Sound
<1>3. CASE st.do = "subscribe"
  <2>1. /\ subscription \in Seq(Subscription)
        /\ subscription' = Append(subscription, NewSubscription(st.tier, st.interval))
        /\ NewSubscription(st.tier, st.interval) \in Subscription
    BY <1>3, WritesSubscribe DEF TypesInv, BillingTypeOK
  <2>2. Len(subscription') \in Nat /\ Len(subscription') \in DOMAIN subscription'
    BY <2>1, PutsLast
  <2> DEFINE x == Inserts(Len(subscription'), "INITIAL", Same, 0, FALSE)
  <2>3. x \in Statement
    BY <2>2, MakesCharge DEF Purposes, Same, Plan, Tiers
  <2>4. Refers(x, DOMAIN subscription', DOMAIN payment')
    BY <2>2 DEF Refers, Inserts, NewPayment, RowOf, PaymentOf
  <2>5. Then(st) = <<x>>
    BY <1>3, ThenSubscribe
  <2> HIDE DEF x
  <2> QED BY <2>3, <2>4, <2>5, HasOne
<1>4. CASE st.do = "cancel"
  <2>1. st.p \in DOMAIN payment
    BY <1>4 DEF Refers, PaymentOf
  <2>2. payment[st.p].of \in DOMAIN subscription /\ payment[st.p].of \in Nat
    BY <2>1 DEF TypesInv, BillingTypeOK
  <2>3. PICK s \in Nat : s = payment[st.p].of
    BY <2>2
  <2>4. SetsStatus(s, "CANCELLED", {}) \in Statement
    BY MakesStatus DEF Standings
  <2>5. Refers(SetsStatus(s, "CANCELLED", {}), DOMAIN subscription, DOMAIN payment)
    BY <2>2, <2>3 DEF Refers, SetsStatus, RowOf, PaymentOf
  <2>6. Then(st) = <<>> \/ Then(st) = <<SetsStatus(s, "CANCELLED", {})>>
    BY <1>4, <2>3, ThenCancel
  <2> QED BY <1>2, <2>4, <2>5, <2>6, SoundNone, SoundOne
<1>5. CASE st.do = "promote"
  BY <1>2, <1>5, ThenPromote, PromoteSound, SoundNone DEF TypesInv
<1>6. CASE st.do \notin {"subscribe", "cancel", "promote"}
  BY <1>2, <1>6, ThenNothing, SoundNone
<1> QED BY <1>3, <1>4, <1>5, <1>6

\* A call that writes a statement.
LEMMA ContinuesMoves ==
    ASSUME TypesInv, NEW c \in Callers, Continues(c), NEW st, st = Head(call[c].todo)
    PROVE  /\ st \in Statement /\ st \in All(call[c]) /\ st \in Has(call[c].todo)
           /\ Refers(st, DOMAIN subscription, DOMAIN payment)
           /\ Writes(st) /\ UNCHANGED <<day, calls, mishaps, strayed>>
           /\ DOMAIN call' = Callers /\ \A d \in Callers \ {c} : call'[d] = call[d]
           /\ Then(st) \in Seq(Statement) /\ Tail(call[c].todo) \in Seq(Statement)
           /\ Then(st) \o Tail(call[c].todo) \in Seq(Statement)
           /\ Has(call[c].todo) = {st} \cup Has(Tail(call[c].todo))
           /\ Has(Then(st) \o Tail(call[c].todo)) = Has(Then(st)) \cup Has(Tail(call[c].todo))
           /\ call'[c].phase = call[c].phase
           /\ Then(st) \o Tail(call[c].todo) # <<>> =>
                  /\ call'[c].todo = Then(st) \o Tail(call[c].todo)
                  /\ call'[c].later = call[c].later
           /\ Then(st) \o Tail(call[c].todo) = <<>> => call'[c] = NextRow(call[c].phase, call[c].later)
           /\ All(call'[c]) = Has(Then(st)) \cup Has(Tail(call[c].todo))
                              \cup UNION {Has(call[c].later[s]) : s \in DOMAIN call[c].later}
<1> DEFINE todo == call[c].todo
           rest == Then(st) \o Tail(todo)
<1>1. todo \in Seq(Statement) /\ todo # <<>> /\ Writes(st) /\ UNCHANGED <<day, calls, mishaps, strayed>>
  BY DEF Continues, TypesInv, BillingTypeOK
<1>2. st \in Statement /\ Tail(todo) \in Seq(Statement) /\ Has(todo) = {st} \cup Has(Tail(todo))
  BY <1>1, HasRest
<1>3. st \in All(call[c]) /\ Refers(st, DOMAIN subscription, DOMAIN payment)
  BY <1>2 DEF All, TypesInv, Referring
<1>4. Then(st) \in Seq(Statement)
  BY <1>1, <1>2, <1>3, ThenTypes
<1>5. rest \in Seq(Statement) /\ Has(rest) = Has(Then(st)) \cup Has(Tail(todo))
  <2> DEFINE a == Then(st)
             b == Tail(todo)
  <2>1. a \in Seq(Statement) /\ b \in Seq(Statement)
    BY <1>2, <1>4
  <2> HIDE DEF a, b
  <2>2. a \o b \in Seq(Statement) /\ Has(a \o b) = Has(a) \cup Has(b)
    BY <2>1, HasBoth
  <2> QED BY <2>2 DEF a, b
<1>6. call' = [call EXCEPT ![c] = IF rest = <<>> THEN NextRow(call[c].phase, call[c].later)
                                  ELSE [call[c] EXCEPT !.todo = rest]]
  BY DEF Continues
<1>7. /\ DOMAIN call' = Callers /\ \A d \in Callers \ {c} : call'[d] = call[d]
      /\ call'[c] = IF rest = <<>> THEN NextRow(call[c].phase, call[c].later)
                    ELSE [call[c] EXCEPT !.todo = rest]
  BY <1>6 DEF TypesInv
<1>8. DOMAIN call[c].later \subseteq Nat
  BY DEF TypesInv, BillingTypeOK
<1> HIDE DEF rest
<1>9. CASE rest = <<>>
  <2>1. call'[c] = NextRow(call[c].phase, call[c].later)
    BY <1>7, <1>9
  <2>2. Has(rest) = {}
    BY <1>9, HasNone
  <2> DEFINE phase == call[c].phase
             rows == call[c].later
             next == NextRow(phase, rows)
  <2>3. next.phase = phase /\ All(next) = UNION {Has(rows[s]) : s \in DOMAIN rows}
    BY <1>8, NextRowIs
  <2>4. call'[c].phase = phase /\ All(call'[c]) = UNION {Has(rows[s]) : s \in DOMAIN rows}
    BY <2>1, <2>3
  <2>5. Has(Then(st)) \cup Has(Tail(todo)) = {}
    BY <1>5, <2>2
  <2>6. All(call'[c]) = Has(Then(st)) \cup Has(Tail(todo)) \cup UNION {Has(rows[s]) : s \in DOMAIN rows}
    BY <2>4, <2>5
  <2> HIDE DEF next
  <2> QED BY <1>1, <1>2, <1>3, <1>4, <1>5, <1>7, <1>9, <2>1, <2>4, <2>6 DEF rest
<1>10. CASE rest # <<>>
  <2>1. call'[c] = [call[c] EXCEPT !.todo = rest]
    BY <1>7, <1>10
  <2>2. call'[c].phase = call[c].phase /\ call'[c].todo = rest /\ call'[c].later = call[c].later
    BY <2>1 DEF NextRow
  <2>3. All(call'[c]) = Has(rest) \cup UNION {Has(call[c].later[s]) : s \in DOMAIN call[c].later}
    BY <2>2 DEF All
  <2>4. All(call'[c]) = Has(Then(st)) \cup Has(Tail(todo))
                        \cup UNION {Has(call[c].later[s]) : s \in DOMAIN call[c].later}
    BY <1>5, <2>3
  <2> QED BY <1>1, <1>2, <1>3, <1>4, <1>5, <1>7, <1>10, <2>2, <2>4 DEF rest
<1> QED BY <1>9, <1>10

-----------------------------------------------------------------------------
(* What the calls decide on.                                               *)

\* The columns of a row have their types.
LEMMA RowIs ==
    ASSUME TypesInv, NEW s \in DOMAIN subscription
    PROVE  /\ s \in Nat /\ subscription[s] \in Subscription
           /\ subscription[s].status \in Standings /\ subscription[s].tier \in Tiers
           /\ subscription[s].interval \in Intervals /\ subscription[s].pending \in SUBSET Plan
           /\ subscription[s].seats \in Nat /\ subscription[s].pendingSeats \in SUBSET Nat
           /\ subscription[s].end \in Nat
<1>1. subscription[s] \in Subscription /\ s \in Nat
  BY ElementOfSeq DEF TypesInv, BillingTypeOK
<1> QED BY <1>1 DEF Subscription

LEMMA PaymentIs ==
    ASSUME TypesInv, NEW p \in DOMAIN payment
    PROVE  /\ p \in Nat /\ payment[p] \in Payment /\ payment[p].of \in DOMAIN subscription
           /\ payment[p].purpose \in Purposes /\ payment[p].target \in Plan
           /\ payment[p].target.tier \in Tiers
           /\ payment[p].target.interval \in Intervals \cup {"same"}
           /\ payment[p].seats \in Nat /\ payment[p].immediate \in BOOLEAN
           /\ payment[p].status \in PaymentStatuses /\ payment[p].from \in SUBSET Snapshot
           /\ payment[p].stamped \in BOOLEAN
<1>1. payment[p] \in Payment /\ p \in Nat /\ payment[p].of \in DOMAIN subscription
  BY ElementOfSeq DEF TypesInv, BillingTypeOK
<1>2. payment[p].target \in Plan
  BY <1>1 DEF Payment
<1> QED BY <1>1, <1>2 DEF Payment, Plan

LEMMA OrIs ==
    ASSUME NEW interval \in Intervals \cup {"same"}, NEW other \in Intervals
    PROVE  Or(interval, other) \in Intervals
  BY DEF Or

LEMMA ActiveIs == Active \subseteq DOMAIN subscription
  BY DEF Active

\* Statements by themselves.
LEMMA SoundOnRow ==
    ASSUME TypesInv, NEW s \in DOMAIN subscription
    PROVE  /\ \A tier \in Tiers, interval \in Intervals \cup {"same"} :
                 Sound(<<SetsPlan(s, tier, interval)>>) /\ Sound(<<Schedules(s, tier, interval)>>)
           /\ \A seats \in Nat : Sound(<<SetsSeats(s, seats)>>) /\ Sound(<<SchedulesSeats(s, seats)>>)
           /\ \A status \in Standings, end \in SUBSET Nat : Sound(<<SetsStatus(s, status, end)>>)
<1>0. s \in Nat
  BY RowIs
<1>1. ASSUME NEW tier \in Tiers, NEW interval \in Intervals \cup {"same"}
      PROVE  Sound(<<SetsPlan(s, tier, interval)>>) /\ Sound(<<Schedules(s, tier, interval)>>)
  <2>1. SetsPlan(s, tier, interval).do = "plan" /\ SetsPlan(s, tier, interval).s = s
    BY DEF SetsPlan
  <2>2. Schedules(s, tier, interval).do = "schedule" /\ Schedules(s, tier, interval).s = s
    BY DEF Schedules
  <2> QED BY <1>0, <2>1, <2>2, MakesPlan, MakesSchedule, SoundOne DEF Refers, RowOf, PaymentOf
<1>2. ASSUME NEW seats \in Nat
      PROVE  Sound(<<SetsSeats(s, seats)>>) /\ Sound(<<SchedulesSeats(s, seats)>>)
  <2>1. SetsSeats(s, seats).do = "seats" /\ SetsSeats(s, seats).s = s
    BY DEF SetsSeats
  <2>2. SchedulesSeats(s, seats).do = "scheduleSeats" /\ SchedulesSeats(s, seats).s = s
    BY DEF SchedulesSeats
  <2> QED BY <1>0, <2>1, <2>2, MakesSeats, SoundOne DEF Refers, RowOf, PaymentOf
<1>3. ASSUME NEW status \in Standings, NEW end \in SUBSET Nat PROVE Sound(<<SetsStatus(s, status, end)>>)
  <2>1. SetsStatus(s, status, end).do = "status" /\ SetsStatus(s, status, end).s = s
    BY DEF SetsStatus
  <2> QED BY <1>0, <2>1, MakesStatus, SoundOne DEF Refers, RowOf, PaymentOf
<1> QED BY <1>1, <1>2, <1>3

LEMMA SoundOfPayment ==
    ASSUME TypesInv, NEW p \in DOMAIN payment
    PROVE  /\ \A status \in PaymentStatuses :
                 /\ Sound(<<SetsPayment(p, status)>>)
                 /\ Sound(<<[do |-> "cancel", p |-> p, status |-> status]>>)
           /\ Sound(<<Stamps(p)>>)
           /\ \A kind \in {"sandbox", "linked"} : Sound(<<[do |-> "invoice", p |-> p, kind |-> kind]>>)
           /\ \A from \in Snapshot : Sound(<<Snapshots(p, from)>>)
<1>0. p \in Nat
  BY PaymentIs
<1>1. ASSUME NEW status \in PaymentStatuses
      PROVE  /\ Sound(<<SetsPayment(p, status)>>)
             /\ Sound(<<[do |-> "cancel", p |-> p, status |-> status]>>)
  <2>1. SetsPayment(p, status).do = "payment" /\ SetsPayment(p, status).p = p
    BY DEF SetsPayment
  <2> QED BY <1>0, <2>1, MakesPayment, SoundOne DEF Refers, RowOf, PaymentOf
<1>2. Sound(<<Stamps(p)>>)
  <2>1. Stamps(p).do = "stamp" /\ Stamps(p).p = p /\ Stamps(p) \in Statement
    BY <1>0 DEF Stamps, Statement
  <2> QED BY <2>1, SoundOne DEF Refers, RowOf, PaymentOf
<1>3. ASSUME NEW kind \in {"sandbox", "linked"}
      PROVE  Sound(<<[do |-> "invoice", p |-> p, kind |-> kind]>>)
  BY <1>0, MakesInvoice, SoundOne DEF Refers, RowOf, PaymentOf
<1>4. ASSUME NEW from \in Snapshot PROVE Sound(<<Snapshots(p, from)>>)
  <2>1. Snapshots(p, from).do = "snapshot" /\ Snapshots(p, from).p = p
    BY DEF Snapshots
  <2> QED BY <1>0, <2>1, MakesSnapshot, SoundOne DEF Refers, RowOf, PaymentOf
<1> QED BY <1>1, <1>2, <1>3, <1>4

LEMMA SoundOnTenant ==
    ASSUME NEW tier \in Tiers, NEW interval \in Intervals \cup {"same"}
    PROVE  /\ Sound(<<SetsCap(tier, interval)>>)
           /\ Sound(Grants(tier, interval))
           /\ Has(Grants(tier, interval)) = {SetsTier(tier), SetsCap(tier, interval)}
           /\ \A b \in BOOLEAN : Sound(<<SetsPastDue(b)>>)
<1>1. SetsTier(tier) \in Statement /\ SetsTier(tier).do = "tier"
  BY MakesTier DEF SetsTier
<1>2. SetsCap(tier, interval) \in Statement /\ SetsCap(tier, interval).do = "cap"
  BY MakesCap DEF SetsCap
<1>3. \A b \in BOOLEAN : SetsPastDue(b) \in Statement /\ SetsPastDue(b).do = "pastDue"
  BY MakesPastDue DEF SetsPastDue
<1> DEFINE a == SetsTier(tier)
           b == SetsCap(tier, interval)
<1>4. a \in Statement /\ b \in Statement /\ Refers(a, DOMAIN subscription, DOMAIN payment)
      /\ Refers(b, DOMAIN subscription, DOMAIN payment) /\ Grants(tier, interval) = <<a, b>>
  BY <1>1, <1>2 DEF Refers, RowOf, PaymentOf, Grants
<1> HIDE DEF a, b
<1>5. <<a, b>> \in Seq(Statement) /\ Has(<<a, b>>) = {a, b}
  BY <1>4, HasTwo
<1>6. Sound(<<a, b>>) /\ Sound(<<b>>)
  BY <1>4, <1>5, SoundOne DEF Sound
<1>7. \A x \in BOOLEAN : Sound(<<SetsPastDue(x)>>)
  BY <1>3, SoundOne DEF Refers, RowOf, PaymentOf
<1> QED BY <1>4, <1>5, <1>6, <1>7 DEF a, b

LEMMA SoundCharge ==
    ASSUME TypesInv, NEW s \in DOMAIN subscription, NEW purpose \in Purposes, NEW target \in Plan,
           NEW seats \in Nat, NEW immediate \in BOOLEAN
    PROVE  Sound(<<Inserts(s, purpose, target, seats, immediate)>>)
<1>1. s \in Nat
  BY RowIs
<1>2. Inserts(s, purpose, target, seats, immediate) \in Statement
  BY <1>1, MakesCharge
<1>3. Refers(Inserts(s, purpose, target, seats, immediate), DOMAIN subscription, DOMAIN payment)
  BY DEF Inserts, NewPayment, Refers, RowOf, PaymentOf
<1> QED BY <1>2, <1>3, SoundOne

\* A change of the plan that takes effect, and one that is charged for.
LEMMA ChangesHas ==
    ASSUME TypesInv, NEW s \in DOMAIN subscription, NEW tier \in Tiers,
           NEW interval \in Intervals \cup {"same"}
    PROVE  /\ Sound(Changes(s, tier, interval))
           /\ Has(Changes(s, tier, interval)) =
                 {SetsPlan(s, tier, interval), SetsTier(tier), SetsCap(tier, interval)}
<1> DEFINE a == <<SetsPlan(s, tier, interval)>>
           b == Grants(tier, interval)
<1>1. Sound(a) /\ Sound(b) /\ Has(a) = {SetsPlan(s, tier, interval)}
      /\ Has(b) = {SetsTier(tier), SetsCap(tier, interval)} /\ Changes(s, tier, interval) = a \o b
  BY SoundOnRow, SoundOnTenant, HasOne DEF Changes
<1> HIDE DEF a, b
<1> QED BY <1>1, SoundBoth

LEMMA ChargesHas ==
    ASSUME TypesInv, NEW s \in DOMAIN subscription, NEW tier \in Tiers,
           NEW interval \in Intervals \cup {"same"}, NEW immediate \in BOOLEAN
    PROVE  Sound(Charges(s, tier, interval, immediate))
<1>1. [tier |-> tier, interval |-> interval] \in Plan
  BY DEF Plan
<1> QED BY <1>1, SoundCharge DEF Charges, Purposes

LEMMA SoundTwo ==
    ASSUME NEW x, NEW y, Sound(<<x>>), Sound(<<y>>)
    PROVE  Sound(<<x, y>>) /\ Has(<<x, y>>) = {x, y}
<1>1. x \in Statement /\ y \in Statement
  BY DEF Sound
<1>2. <<x, y>> \in Seq(Statement) /\ Has(<<x, y>>) = {x, y}
  BY <1>1, HasTwo
<1> QED BY <1>2, HasOne DEF Sound

LEMMA SoundThree ==
    ASSUME NEW x, NEW y, NEW z, Sound(<<x>>), Sound(<<y>>), Sound(<<z>>)
    PROVE  Sound(<<x, y, z>>) /\ Has(<<x, y, z>>) = {x, y, z}
<1>1. x \in Statement /\ y \in Statement /\ z \in Statement
  BY DEF Sound
<1>2. <<x, y, z>> \in Seq(Statement) /\ Has(<<x, y, z>>) = {x, y, z}
  BY <1>1, HasThree
<1> QED BY <1>2, HasOne DEF Sound

\* The snapshot of a row.
LEMMA SnapshotIs ==
    ASSUME TypesInv, NEW s \in DOMAIN subscription
    PROVE  /\ SnapshotOf(s) \in Snapshot
           /\ SnapshotOf(s).status = subscription[s].status /\ SnapshotOf(s).tier = subscription[s].tier
           /\ SnapshotOf(s).interval = subscription[s].interval
           /\ SnapshotOf(s).tenantTier = tenant.tier
<1>1. tenant.tier \in Tiers
  BY DEF TypesInv, BillingTypeOK, Tenant
<1> QED BY <1>1, RowIs DEF SnapshotOf, Snapshot

\* What a review of each purpose writes.
LEMMA InitialHas ==
    ASSUME TypesInv, NEW p \in DOMAIN payment, NEW s \in DOMAIN subscription
    PROVE  /\ Sound(AppliesInitial(p, s))
           /\ Has(AppliesInitial(p, s)) =
                 {SetsStatus(s, "ACTIVE", {PeriodEnd(day, subscription[s].interval)}), Stamps(p),
                  SetsTier(subscription[s].tier), SetsCap(subscription[s].tier, subscription[s].interval)}
                 \cup (IF tenant.pastDue THEN {SetsPastDue(FALSE)} ELSE {})
<1> DEFINE x == SetsStatus(s, "ACTIVE", {PeriodEnd(day, subscription[s].interval)})
           y == Stamps(p)
           b == Grants(subscription[s].tier, subscription[s].interval)
           d == IF tenant.pastDue THEN <<SetsPastDue(FALSE)>> ELSE <<>>
<1>1. PeriodEnd(day, subscription[s].interval) \in Nat
  BY PeriodEndIs DEF TypesInv, BillingTypeOK
<1>2. Sound(<<x>>) /\ Sound(<<y>>)
  BY <1>1, SoundOnRow, SoundOfPayment DEF Standings
<1>3. /\ Sound(b)
      /\ Has(b) = {SetsTier(subscription[s].tier), SetsCap(subscription[s].tier, subscription[s].interval)}
  BY RowIs, SoundOnTenant
<1>4. /\ Sound(d) /\ Has(d) = IF tenant.pastDue THEN {SetsPastDue(FALSE)} ELSE {}
  <2>1. Sound(<<SetsPastDue(FALSE)>>)
    <3>1. Free \in Tiers
      BY DEF Tiers
    <3> QED BY <3>1, SoundOnTenant
  <2> QED BY <2>1, SoundNone, HasNone, HasOne
<1>5. AppliesInitial(p, s) = (<<x, y>> \o b) \o d
  BY DEF AppliesInitial
<1> HIDE DEF x, y, b, d
<1>7. Sound(<<x, y>>) /\ Has(<<x, y>>) = {x, y}
  BY <1>2, SoundTwo
<1>8. Sound(<<x, y>> \o b) /\ Has(<<x, y>> \o b) = {x, y} \cup Has(b)
  BY <1>3, <1>7, SoundBoth
<1> DEFINE e == <<x, y>> \o b
<1>9. Sound(e) /\ Has(e) = {x, y} \cup Has(b) /\ AppliesInitial(p, s) = e \o d
  BY <1>5, <1>8
<1> HIDE DEF e
<1>10. Sound(e \o d) /\ Has(e \o d) = Has(e) \cup Has(d)
  BY <1>4, <1>9, SoundBoth
<1> QED BY <1>3, <1>4, <1>9, <1>10 DEF x, y

LEMMA RenewalHas ==
    ASSUME TypesInv, NEW p \in DOMAIN payment, NEW s \in DOMAIN subscription
    PROVE  /\ Sound(AppliesRenewal(p, s))
           /\ Has(AppliesRenewal(p, s)) =
                 {SetsStatus(s, "ACTIVE", {PeriodEnd(subscription[s].end, subscription[s].interval)}),
                  Stamps(p), SetsCap(subscription[s].tier, subscription[s].interval)}
<1> DEFINE x == SetsStatus(s, "ACTIVE", {PeriodEnd(subscription[s].end, subscription[s].interval)})
           y == Stamps(p)
           z == SetsCap(subscription[s].tier, subscription[s].interval)
<1>1. PeriodEnd(subscription[s].end, subscription[s].interval) \in Nat
  BY PeriodEndIs, RowIs
<1>2. Sound(<<x>>) /\ Sound(<<y>>) /\ Sound(<<z>>)
  BY <1>1, RowIs, SoundOnRow, SoundOfPayment, SoundOnTenant DEF Standings
<1>3. AppliesRenewal(p, s) = <<x, y, z>>
  BY DEF AppliesRenewal
<1> HIDE DEF x, y, z
<1>4. Sound(<<x, y, z>>) /\ Has(<<x, y, z>>) = {x, y, z}
  BY <1>2, SoundThree
<1> QED BY <1>3, <1>4 DEF x, y, z

LEMMA SeatsHas ==
    ASSUME TypesInv, NEW p \in DOMAIN payment, NEW s \in DOMAIN subscription
    PROVE  /\ Sound(AppliesSeats(p, s))
           /\ Has(AppliesSeats(p, s)) = {SetsSeats(s, payment[p].seats), Stamps(p)}
<1> DEFINE x == SetsSeats(s, payment[p].seats)
           y == Stamps(p)
<1>1. Sound(<<x>>) /\ Sound(<<y>>)
  BY PaymentIs, SoundOnRow, SoundOfPayment
<1>2. AppliesSeats(p, s) = <<x>> \o <<y>>
  BY DEF AppliesSeats
<1> HIDE DEF x, y
<1>3. Sound(<<x>> \o <<y>>) /\ Has(<<x>> \o <<y>>) = {x} \cup {y}
  BY <1>1, SoundBoth, HasOne
<1> QED BY <1>2, <1>3 DEF x, y

\* A change of the plan takes effect at once with a new period, is put off, or takes effect.
LEMMA TierHas ==
    ASSUME TypesInv, NEW p \in DOMAIN payment, NEW s \in DOMAIN subscription,
           NEW to, to = payment[p].target
    PROVE  /\ Sound(AppliesTier(p, s))
           /\ \/ /\ payment[p].immediate
                 /\ Has(AppliesTier(p, s)) =
                       {SetsPlan(s, to.tier, to.interval),
                        SetsStatus(s, "ACTIVE", {PeriodEnd(day, to.interval)}),
                        SetsTier(to.tier), SetsCap(to.tier, to.interval), Stamps(p)}
              \/ Has(AppliesTier(p, s)) = {Schedules(s, to.tier, to.interval)}
              \/ \E interval \in Intervals : Has(AppliesTier(p, s)) =
                       {SetsPlan(s, to.tier, interval), SetsTier(to.tier), SetsCap(to.tier, interval),
                        Stamps(p)}
<1>1. to.tier \in Tiers /\ to.interval \in Intervals \cup {"same"}
  BY PaymentIs
<1>2. CASE payment[p].immediate
  <2> DEFINE x == SetsPlan(s, to.tier, to.interval)
             y == SetsStatus(s, "ACTIVE", {PeriodEnd(day, to.interval)})
             b == Grants(to.tier, to.interval)
             z == Stamps(p)
  <2>1. PeriodEnd(day, to.interval) \in Nat
    BY PeriodEndIs DEF TypesInv, BillingTypeOK
  <2>2. Sound(<<x>>) /\ Sound(<<y>>) /\ Sound(<<z>>)
    BY <1>1, <2>1, SoundOnRow, SoundOfPayment DEF Standings
  <2>3. Sound(b) /\ Has(b) = {SetsTier(to.tier), SetsCap(to.tier, to.interval)}
    BY <1>1, SoundOnTenant
  <2>4. AppliesTier(p, s) = (<<x, y>> \o b) \o <<z>>
    BY <1>2 DEF AppliesTier
  <2> HIDE DEF x, y, b, z
  <2>6. Sound(<<x, y>>) /\ Has(<<x, y>>) = {x, y}
    BY <2>2, SoundTwo
  <2> DEFINE e == <<x, y>> \o b
             f == <<z>>
  <2>7. Sound(e) /\ Has(e) = {x, y} \cup Has(b) /\ Sound(f) /\ Has(f) = {z} /\ AppliesTier(p, s) = e \o f
    BY <2>2, <2>3, <2>4, <2>6, SoundBoth, HasOne
  <2> HIDE DEF e, f
  <2>8. Sound(e \o f) /\ Has(e \o f) = Has(e) \cup Has(f)
    BY <2>7, SoundBoth
  <2>9. Sound(AppliesTier(p, s)) /\ Has(AppliesTier(p, s)) = {x, y} \cup Has(b) \cup {z}
    BY <2>7, <2>8
  <2> QED BY <1>2, <2>3, <2>9 DEF x, y, z
<1>3. CASE ~payment[p].immediate /\ to.interval # "same" /\ ~tenant.sandbox
  <2>1. AppliesTier(p, s) = <<Schedules(s, to.tier, to.interval)>>
    BY <1>3 DEF AppliesTier
  <2>2. Sound(<<Schedules(s, to.tier, to.interval)>>)
    BY <1>1, SoundOnRow
  <2>3. Has(AppliesTier(p, s)) = {Schedules(s, to.tier, to.interval)}
    BY <2>1, HasOne
  <2> QED BY <2>1, <2>2, <2>3
<1>4. CASE ~payment[p].immediate /\ ~(to.interval # "same" /\ ~tenant.sandbox)
  <2>1. PICK interval \in Intervals : interval = Or(to.interval, subscription[s].interval)
    BY <1>1, RowIs, OrIs
  <2> DEFINE a == Changes(s, to.tier, interval)
             b == <<Stamps(p)>>
  <2>2. /\ Sound(a) /\ Sound(b) /\ Has(b) = {Stamps(p)}
        /\ Has(a) = {SetsPlan(s, to.tier, interval), SetsTier(to.tier), SetsCap(to.tier, interval)}
    BY <1>1, ChangesHas, SoundOfPayment, HasOne
  <2>3. AppliesTier(p, s) = a \o b
    BY <1>4, <2>1 DEF AppliesTier
  <2> HIDE DEF a, b
  <2>4. Sound(a \o b) /\ Has(a \o b) = Has(a) \cup Has(b)
    BY <2>2, SoundBoth
  <2>5. Has(AppliesTier(p, s)) = {SetsPlan(s, to.tier, interval), SetsTier(to.tier),
                                  SetsCap(to.tier, interval), Stamps(p)}
    BY <2>2, <2>3, <2>4
  <2> QED BY <2>3, <2>4, <2>5
<1> QED BY <1>2, <1>3, <1>4

\* What a refund writes.
RefundTodo(p, s, snap) ==
    <<SetsPlan(s, snap.tier, snap.interval)>>
    \o (IF payment[p].purpose = "SEAT_CHANGE" THEN <<SetsSeats(s, snap.seats)>> ELSE <<>>)
    \o <<SetsStatus(s, IF payment[p].purpose = "INITIAL" THEN "CANCELLED" ELSE snap.status,
                    {snap.end})>>
    \o Grants(snap.tenantTier, snap.interval) \o <<SetsPayment(p, "REFUNDED")>>

LEMMA RefundHas ==
    ASSUME TypesInv, NEW p \in DOMAIN payment, NEW s \in DOMAIN subscription, NEW snap \in Snapshot
    PROVE  /\ Sound(RefundTodo(p, s, snap))
           /\ Has(RefundTodo(p, s, snap)) =
                 {SetsPlan(s, snap.tier, snap.interval),
                  SetsStatus(s, IF payment[p].purpose = "INITIAL" THEN "CANCELLED" ELSE snap.status,
                             {snap.end}),
                  SetsTier(snap.tenantTier), SetsCap(snap.tenantTier, snap.interval),
                  SetsPayment(p, "REFUNDED")}
                 \cup (IF payment[p].purpose = "SEAT_CHANGE" THEN {SetsSeats(s, snap.seats)} ELSE {})
<1> DEFINE status == IF payment[p].purpose = "INITIAL" THEN "CANCELLED" ELSE snap.status
           x == SetsPlan(s, snap.tier, snap.interval)
           a == IF payment[p].purpose = "SEAT_CHANGE" THEN <<SetsSeats(s, snap.seats)>> ELSE <<>>
           y == SetsStatus(s, status, {snap.end})
           b == Grants(snap.tenantTier, snap.interval)
           z == SetsPayment(p, "REFUNDED")
<1>1. /\ snap.tier \in Tiers /\ snap.interval \in Intervals /\ snap.seats \in Nat /\ snap.end \in Nat
      /\ snap.tenantTier \in Tiers /\ snap.status \in Standings
  BY DEF Snapshot
<1>2. status \in Standings /\ "REFUNDED" \in PaymentStatuses
  BY <1>1 DEF Standings, PaymentStatuses
<1> HIDE DEF status
<1>3. Sound(<<x>>)
  BY <1>1, SoundOnRow
<1>4. /\ Sound(a)
      /\ Has(a) = IF payment[p].purpose = "SEAT_CHANGE" THEN {SetsSeats(s, snap.seats)} ELSE {}
  <2>1. Sound(<<SetsSeats(s, snap.seats)>>)
    BY <1>1, SoundOnRow
  <2> QED BY <2>1, SoundNone, HasNone, HasOne
<1>5. Sound(<<y>>)
  BY <1>1, <1>2, SoundOnRow
<1>6. Sound(b) /\ Has(b) = {SetsTier(snap.tenantTier), SetsCap(snap.tenantTier, snap.interval)}
  BY <1>1, SoundOnTenant
<1>7. Sound(<<z>>)
  BY <1>2, SoundOfPayment
<1>8. RefundTodo(p, s, snap) = (((<<x>> \o a) \o <<y>>) \o b) \o <<z>>
  BY DEF RefundTodo, status
<1> HIDE DEF x, a, y, b, z
<1> DEFINE f == <<x>>
           g == <<y>>
           h == <<z>>
<1>9. Sound(f) /\ Sound(g) /\ Sound(h) /\ Has(f) = {x} /\ Has(g) = {y} /\ Has(h) = {z}
  BY <1>3, <1>5, <1>7, HasOne
<1>10. RefundTodo(p, s, snap) = (((f \o a) \o g) \o b) \o h
  BY <1>8
<1> HIDE DEF f, g, h
<1> DEFINE i == f \o a
<1>11. Sound(i) /\ Has(i) = {x} \cup Has(a)
  BY <1>4, <1>9, SoundBoth
<1>12. RefundTodo(p, s, snap) = ((i \o g) \o b) \o h
  BY <1>10
<1> HIDE DEF i
<1> DEFINE j == i \o g
<1>13. Sound(j) /\ Has(j) = Has(i) \cup {y}
  BY <1>9, <1>11, SoundBoth
<1>14. RefundTodo(p, s, snap) = (j \o b) \o h
  BY <1>12
<1> HIDE DEF j
<1> DEFINE k == j \o b
<1>15. Sound(k) /\ Has(k) = Has(j) \cup Has(b) /\ RefundTodo(p, s, snap) = k \o h
  BY <1>6, <1>13, <1>14, SoundBoth
<1> HIDE DEF k
<1>16. Sound(k \o h) /\ Has(k \o h) = Has(k) \cup Has(h)
  BY <1>9, <1>15, SoundBoth
<1>17. /\ Sound(RefundTodo(p, s, snap))
       /\ Has(RefundTodo(p, s, snap)) = {x} \cup Has(a) \cup {y} \cup Has(b) \cup {z}
  BY <1>9, <1>11, <1>13, <1>15, <1>16
<1> QED BY <1>4, <1>6, <1>17 DEF x, y, z, status

\* What the job writes of a row.
LEMMA ClearsHas ==
    ASSUME TypesInv, NEW s \in DOMAIN subscription
    PROVE  /\ Sound(ClearsSeats(s))
           /\ Has(ClearsSeats(s)) = IF subscription[s].seats > 0 THEN {SetsSeats(s, 0)} ELSE {}
<1>1. Sound(<<SetsSeats(s, 0)>>)
  BY SoundOnRow
<1> QED BY <1>1, SoundNone, HasNone, HasOne DEF ClearsSeats

LEMMA SeatsLandedHas ==
    ASSUME TypesInv, NEW s \in DOMAIN subscription, subscription[s].pendingSeats # {}
    PROVE  /\ Sound(LandsSeats(s))
           /\ \E seats \in Nat : LandsSeats(s) = <<SetsSeats(s, seats)>>
                                 /\ Has(LandsSeats(s)) = {SetsSeats(s, seats)}
<1>1. subscription[s].pendingSeats \in SUBSET Nat
  BY RowIs
<1>2. PICK seats \in Nat : seats = Oldest(subscription[s].pendingSeats)
  BY <1>1, OldestIsOne
<1>3. LandsSeats(s) = <<SetsSeats(s, seats)>>
  BY <1>2 DEF LandsSeats
<1> QED BY <1>3, SoundOnRow, HasOne

LEMMA RenewalOpensHas ==
    ASSUME TypesInv, NEW s \in DOMAIN subscription
    PROVE  /\ Sound(OpensRenewal(s))
           /\ Has(OpensRenewal(s)) = {Inserts(s, "RENEWAL", Same, 0, FALSE)}
<1>1. Same \in Plan /\ "RENEWAL" \in Purposes
  BY DEF Same, Plan, Tiers, Purposes
<1> QED BY <1>1, SoundCharge, HasOne DEF OpensRenewal

LEMMA ExpiresHas ==
    ASSUME TypesInv, NEW s \in DOMAIN subscription
    PROVE  /\ Sound(Expires(s)) /\ Expires(s) # <<>>
           /\ Has(Expires(s)) =
                 {SetsTier(Free), SetsCap(Free, "MONTHLY"), SetsStatus(s, "EXPIRED", {}),
                  SetsPastDue(TRUE)}
                 \cup (IF subscription[s].seats > 0 THEN {SetsSeats(s, 0)} ELSE {})
<1> DEFINE b == Grants(Free, "MONTHLY")
           a == ClearsSeats(s)
           x == SetsStatus(s, "EXPIRED", {})
           y == SetsPastDue(TRUE)
<1>0. Free \in Tiers /\ "MONTHLY" \in Intervals
  BY DEF Tiers, Intervals
<1>1. Sound(b) /\ Has(b) = {SetsTier(Free), SetsCap(Free, "MONTHLY")}
  BY <1>0, SoundOnTenant
<1>2. Sound(a) /\ Has(a) = IF subscription[s].seats > 0 THEN {SetsSeats(s, 0)} ELSE {}
  BY ClearsHas
<1>3. Sound(<<x>>) /\ Sound(<<y>>)
  BY <1>0, SoundOnRow, SoundOnTenant DEF Standings
<1>4. Expires(s) = (b \o a) \o <<x, y>>
  BY DEF Expires
<1> HIDE DEF a, b, x, y
<1> DEFINE d == b \o a
           e == <<x, y>>
<1>5. Sound(d) /\ Has(d) = Has(b) \cup Has(a)
  BY <1>1, <1>2, SoundBoth
<1>6. Sound(e) /\ Has(e) = {x, y} /\ Expires(s) = d \o e
  BY <1>3, <1>4, SoundTwo
<1> HIDE DEF d, e
<1>7. Sound(d \o e) /\ Has(d \o e) = Has(d) \cup Has(e)
  BY <1>5, <1>6, SoundBoth
<1>8. Expires(s) # <<>>
  BY <1>6, <1>7, HasNone
<1> QED BY <1>1, <1>2, <1>5, <1>6, <1>7, <1>8 DEF x, y

\* A scheduled cancellation, or change of the plan, that lands.
LEMMA PlanLandedHas ==
    ASSUME TypesInv, NEW s \in DOMAIN subscription, subscription[s].pending # {}
    PROVE  /\ Sound(LandsPlan(s)) /\ LandsPlan(s) # <<>>
           /\ \/ Has(LandsPlan(s)) =
                    {SetsPlan(s, Free, "same"), SetsStatus(s, "CANCELLED", {}), SetsTier(Free),
                     SetsCap(Free, "MONTHLY")}
                    \cup (IF subscription[s].seats > 0 THEN {SetsSeats(s, 0)} ELSE {})
              \/ \E to \in Plan, interval \in Intervals, P \in SUBSET (DOMAIN payment) :
                    /\ interval = Or(to.interval, subscription[s].interval)
                    /\ Has(LandsPlan(s)) =
                          {SetsPlan(s, to.tier, to.interval),
                           SetsStatus(s, "ACTIVE", {PeriodEnd(subscription[s].end, interval)}),
                           SetsTier(to.tier), SetsCap(to.tier, interval)}
                          \cup Has(StampsFunding(P))
<1> DEFINE to == CHOOSE plan \in subscription[s].pending : TRUE
           interval == Or(to.interval, subscription[s].interval)
           funding == {p \in InFlight(s, "TIER_CHANGE") : payment[p].status = "VERIFIED"
                                                          /\ payment[p].invoice = "linked"}
<1>1. to \in Plan
  BY RowIs
<1>2. to.tier \in Tiers /\ to.interval \in Intervals \cup {"same"}
  BY <1>1 DEF Plan
<1>3. interval \in Intervals
  BY <1>2, RowIs, OrIs
<1>4. LandsPlan(s) =
          IF to.tier = Free
          THEN <<SetsPlan(s, Free, "same"), SetsStatus(s, "CANCELLED", {})>>
               \o Grants(Free, "MONTHLY") \o ClearsSeats(s)
          ELSE <<SetsPlan(s, to.tier, to.interval),
                 SetsStatus(s, "ACTIVE", {PeriodEnd(subscription[s].end, interval)})>>
               \o Grants(to.tier, interval)
               \o (IF to.interval # "same" /\ funding # {} THEN <<Stamps(Newest(funding))>> ELSE <<>>)
  BY DEF LandsPlan
<1>5. funding \in SUBSET (DOMAIN payment)
  BY DEF InFlight
<1> HIDE DEF to, interval, funding
<1>6. CASE to.tier = Free
  <2> DEFINE x == SetsPlan(s, Free, "same")
             y == SetsStatus(s, "CANCELLED", {})
             b == Grants(Free, "MONTHLY")
             a == ClearsSeats(s)
  <2>0. Free \in Tiers /\ "MONTHLY" \in Intervals
    BY DEF Tiers, Intervals
  <2>1. Sound(b) /\ Has(b) = {SetsTier(Free), SetsCap(Free, "MONTHLY")}
    BY <2>0, SoundOnTenant
  <2>2. Sound(a) /\ Has(a) = IF subscription[s].seats > 0 THEN {SetsSeats(s, 0)} ELSE {}
    BY ClearsHas
  <2>3. Sound(<<x>>) /\ Sound(<<y>>)
    BY <2>0, SoundOnRow DEF Standings
  <2>4. LandsPlan(s) = (<<x, y>> \o b) \o a
    BY <1>4, <1>6
  <2> HIDE DEF x, y, a, b
  <2> DEFINE e == <<x, y>>
  <2>5. Sound(e) /\ Has(e) = {x, y} /\ LandsPlan(s) = (e \o b) \o a
    BY <2>3, <2>4, SoundTwo
  <2> HIDE DEF e
  <2> DEFINE d == e \o b
  <2>6. Sound(d) /\ Has(d) = Has(e) \cup Has(b) /\ LandsPlan(s) = d \o a
    BY <2>1, <2>5, SoundBoth
  <2> HIDE DEF d
  <2>7. Sound(d \o a) /\ Has(d \o a) = Has(d) \cup Has(a)
    BY <2>2, <2>6, SoundBoth
  <2>8. Has(LandsPlan(s)) = {x, y} \cup Has(b) \cup Has(a) /\ Sound(LandsPlan(s))
    BY <2>5, <2>6, <2>7
  <2>9. LandsPlan(s) # <<>>
    BY <2>8, HasNone
  <2>10. Has(LandsPlan(s)) =
            {SetsPlan(s, Free, "same"), SetsStatus(s, "CANCELLED", {}), SetsTier(Free),
             SetsCap(Free, "MONTHLY")}
            \cup (IF subscription[s].seats > 0 THEN {SetsSeats(s, 0)} ELSE {})
    BY <2>1, <2>2, <2>8 DEF x, y
  <2> QED BY <2>8, <2>9, <2>10
<1>7. CASE to.tier # Free
  <2> DEFINE x == SetsPlan(s, to.tier, to.interval)
             y == SetsStatus(s, "ACTIVE", {PeriodEnd(subscription[s].end, interval)})
             b == Grants(to.tier, interval)
  <2>0. PeriodEnd(subscription[s].end, interval) \in Nat
    BY RowIs, PeriodEndIs
  <2>1. Sound(b) /\ Has(b) = {SetsTier(to.tier), SetsCap(to.tier, interval)}
    BY <1>2, <1>3, SoundOnTenant
  <2>2. PICK P \in SUBSET (DOMAIN payment) :
            StampsFunding(P) = IF to.interval # "same" /\ funding # {} THEN <<Stamps(Newest(funding))>>
                               ELSE <<>>
    <3>1. CASE to.interval # "same"
      BY <1>5, <3>1 DEF StampsFunding
    <3>2. CASE to.interval = "same"
      <4>1. {} \in SUBSET (DOMAIN payment)
        OBVIOUS
      <4> QED BY <3>2, <4>1 DEF StampsFunding
    <3> QED BY <3>1, <3>2
  <2>3. Sound(<<x>>) /\ Sound(<<y>>)
    BY <1>2, <2>0, SoundOnRow DEF Standings
  <2> DEFINE a == StampsFunding(P)
  <2>4. LandsPlan(s) = (<<x, y>> \o b) \o a /\ Sound(a)
    BY <1>4, <1>7, <2>2, StampsSound
  <2> HIDE DEF x, y, a, b
  <2> DEFINE e == <<x, y>>
  <2>5. Sound(e) /\ Has(e) = {x, y} /\ LandsPlan(s) = (e \o b) \o a
    BY <2>3, <2>4, SoundTwo
  <2> HIDE DEF e
  <2> DEFINE d == e \o b
  <2>6. Sound(d) /\ Has(d) = Has(e) \cup Has(b) /\ LandsPlan(s) = d \o a
    BY <2>1, <2>5, SoundBoth
  <2> HIDE DEF d
  <2>7. Sound(d \o a) /\ Has(d \o a) = Has(d) \cup Has(a)
    BY <2>4, <2>6, SoundBoth
  <2>8. Has(LandsPlan(s)) = {x, y} \cup Has(b) \cup Has(a) /\ Sound(LandsPlan(s))
    BY <2>5, <2>6, <2>7
  <2>9. LandsPlan(s) # <<>>
    BY <2>8, HasNone
  <2>10. Has(LandsPlan(s)) =
            {SetsPlan(s, to.tier, to.interval),
             SetsStatus(s, "ACTIVE", {PeriodEnd(subscription[s].end, interval)}),
             SetsTier(to.tier), SetsCap(to.tier, interval)} \cup Has(StampsFunding(P))
    BY <2>1, <2>8 DEF x, y, a
  <2>11. interval = Or(to.interval, subscription[s].interval)
    BY DEF interval
  <2> QED BY <1>1, <1>3, <2>8, <2>9, <2>10, <2>11
<1> QED BY <1>6, <1>7

-----------------------------------------------------------------------------
(* The decisions: what a call has read, and is about to write of it.       *)

GrantsOf(s, tier, interval) == {SetsPlan(s, tier, interval), SetsTier(tier), SetsCap(tier, interval)}

Subscribing(todo) ==
    /\ \A s \in DOMAIN subscription : ~Live(s)
    /\ \E tier \in PaidTiers, interval \in Intervals :
          todo = <<[do |-> "subscribe", tier |-> tier, interval |-> interval]>>

Changing(todo) ==
    \E s \in Active, tier \in Tiers, interval \in Intervals : Has(todo) = GrantsOf(s, tier, interval)

Charging(todo) ==
    \E s \in Active, purpose \in {"TIER_CHANGE", "SEAT_CHANGE"}, target \in Plan, seats \in Nat,
       immediate \in BOOLEAN :
        /\ InFlight(s, purpose) = {} /\ (immediate => target.interval = "YEARLY")
        /\ todo = <<Inserts(s, purpose, target, seats, immediate)>>

Scheduling(todo) ==
    \E s \in Active, tier \in Tiers : todo = <<Schedules(s, tier, "same")>>

Seating(todo) ==
    \E s \in Active, seats \in Nat : todo \in {<<SetsSeats(s, seats)>>, <<SchedulesSeats(s, seats)>>}

Promoting(todo) == todo = <<[do |-> "promote"]>>

Resyncing(todo) ==
    \E s \in Active : todo = <<SetsCap(subscription[s].tier, subscription[s].interval)>>

\* What a tenant or the job decides on its own rows.
Plain(todo) == \/ Subscribing(todo) \/ Changing(todo) \/ Charging(todo) \/ Scheduling(todo)
               \/ Seating(todo) \/ Promoting(todo) \/ Resyncing(todo)

Overriding(todo) ==
    \/ \E s \in DOMAIN subscription : todo = <<SetsStatus(s, "CANCELLED", {})>>
    \/ \E tier \in Tiers : Has(todo) = {SetsTier(tier), SetsCap(tier, "MONTHLY")}

\* A decision about a payment that is written when it is decided on, or later.
Reporting(p, todo, how) == todo = <<SetsPayment(p, "REPORTED")>> /\ how = Again(p) \cup Meets(p)

Cancelling(p, todo, how) ==
    /\ payment[p].status = "PENDING" /\ how = Meets(p)
    /\ todo = <<[do |-> "cancel", p |-> p, status |-> "CANCELLED"]>>

Linking(p, todo, how) ==
    /\ payment[p].status = "VERIFIED" /\ how = Meets(p)
    /\ \E kind \in {"sandbox", "linked"} : todo = <<[do |-> "invoice", p |-> p, kind |-> kind]>>

Refunding(p, todo, how) ==
    /\ payment[p].status = "VERIFIED" /\ how = Ended(p) \cup Meets(p)
    /\ \E snap \in payment[p].from : todo = RefundTodo(p, payment[p].of, snap)

Verifying(p, todo, how) ==
    /\ how = Ended(p) \cup Again(p) \cup Meets(p)
    /\ Sound(Applies(p, payment[p].of))
    /\ Has(todo) = {Snapshots(p, SnapshotOf(payment[p].of))} \cup Has(Applies(p, payment[p].of))

Rejecting(p, todo, how) == how = Again(p) \cup Meets(p) /\ todo = <<>>

\* What a decision is about, and what of it is written at once: a review's outcome.
Decision(todo, how) ==
    \/ how = {} /\ payment' = payment /\ Plain(todo)
    \/ how = {"override"} /\ payment' = payment /\ Overriding(todo)
    \/ \E p \in DOMAIN payment :
          \/ /\ payment' = payment
             /\ \/ Reporting(p, todo, how) \/ Cancelling(p, todo, how)
                \/ Linking(p, todo, how) \/ Refunding(p, todo, how)
          \/ Verifying(p, todo, how) /\ payment' = [payment EXCEPT ![p].status = "VERIFIED"]
          \/ Rejecting(p, todo, how) /\ payment' = [payment EXCEPT ![p].status = "REJECTED"]

\* What every decision leaves.
Decided(c, todo, how) ==
    /\ Decides(c, todo, how) /\ Sound(todo) /\ how \in SUBSET Strayings
    /\ UNCHANGED <<tenant, subscription>> /\ Decision(todo, how)

LEMMA HowIs ==
    ASSUME NEW p
    PROVE  /\ Again(p) \in SUBSET {"again"} /\ Meets(p) \in SUBSET {"met"}
           /\ Ended(p) \in SUBSET {"ended"}
  BY DEF Again, Meets, Ended

\* A reading with a plain decision.
LEMMA PlainDecided ==
    ASSUME NEW c \in Callers, NEW todo, Reads(c, todo), Sound(todo), Plain(todo)
    PROVE  Decided(c, todo, {})
  BY DEF Reads, Decided, Decision

LEMMA TierChangeDecided ==
    ASSUME TypesInv, NEW c \in Callers, NEW s \in Active, NEW tier \in PaidTiers,
           NEW interval \in Intervals, RequestsTierChange(c, s, tier, interval)
    PROVE  \E todo : Decided(c, todo, {})
<1> DEFINE todo == IF tenant.sandbox THEN SandboxChange(s, tier, interval)
                   ELSE ProductionChange(s, tier, interval)
<1>1. Reads(c, todo) /\ InFlight(s, "TIER_CHANGE") = {}
  BY DEF RequestsTierChange, Unchanging
<1>2. s \in DOMAIN subscription /\ tier \in Tiers /\ interval \in Intervals \cup {"same"}
  BY ActiveIs DEF Tiers
<1>3. CASE todo = Changes(s, tier, interval)
  BY <1>1, <1>2, <1>3, ChangesHas, PlainDecided DEF Plain, Changing, GrantsOf
<1>4. ASSUME NEW to \in Intervals \cup {"same"}, NEW immediate \in BOOLEAN,
             immediate => to = "YEARLY", todo = Charges(s, tier, to, immediate)
      PROVE  \E x : Decided(c, x, {})
  <2>1. Sound(todo)
    BY <1>2, <1>4, ChargesHas
  <2>2. Charging(todo)
    <3>1. PICK target \in Plan : target = [tier |-> tier, interval |-> to]
      BY <1>2, <1>4 DEF Plan
    <3>2. todo = <<Inserts(s, "TIER_CHANGE", target, 0, immediate)>> /\ target.interval = to
      BY <1>4, <3>1 DEF Charges
    <3> HIDE DEF todo
    <3> QED BY <1>1, <1>4, <3>2 DEF Charging
  <2> QED BY <1>1, <2>1, <2>2, PlainDecided DEF Plain
<1>5. CASE todo = <<Schedules(s, tier, "same")>>
  <2>1. Sound(todo)
    BY <1>2, <1>5, SoundOnRow
  <2>2. Scheduling(todo)
    BY <1>2, <1>5 DEF Scheduling
  <2> QED BY <1>1, <2>1, <2>2, PlainDecided DEF Plain
<1>6. \/ todo = Changes(s, tier, interval) \/ todo = <<Schedules(s, tier, "same")>>
      \/ \E to \in Intervals \cup {"same"}, immediate \in BOOLEAN :
            (immediate => to = "YEARLY") /\ todo = Charges(s, tier, to, immediate)
  <2>1. CASE tenant.sandbox
    BY <2>1 DEF SandboxChange
  <2>2. CASE ~tenant.sandbox /\ interval = subscription[s].interval
    BY <2>2 DEF ProductionChange
  <2>3. CASE ~tenant.sandbox /\ interval # subscription[s].interval
    <3>1. PICK immediate \in BOOLEAN : immediate = (interval = "YEARLY" /\ tier > subscription[s].tier)
      OBVIOUS
    <3>2. todo = Charges(s, tier, interval, immediate)
      BY <2>3, <3>1 DEF ProductionChange
    <3> HIDE DEF todo
    <3> QED BY <1>2, <3>1, <3>2
  <2> QED BY <2>1, <2>2, <2>3
<1> HIDE DEF todo
<1> QED BY <1>3, <1>4, <1>5, <1>6

LEMMA SeatChangeDecided ==
    ASSUME TypesInv, NEW c \in Callers, NEW s \in Active, NEW seats \in 0 .. MaxSeats,
           RequestsSeatChange(c, s, seats)
    PROVE  \E todo : Decided(c, todo, {})
<1> DEFINE todo == SeatChange(s, seats)
<1>1. Reads(c, todo) /\ InFlight(s, "SEAT_CHANGE") = {} /\ s \in DOMAIN subscription /\ seats \in Nat
  BY ActiveIs DEF RequestsSeatChange
<1>2. \/ todo = <<SetsSeats(s, seats)>> \/ todo = <<SchedulesSeats(s, seats)>>
      \/ todo = <<Inserts(s, "SEAT_CHANGE", Same, seats, FALSE)>>
  BY DEF SeatChange
<1> HIDE DEF todo
<1>3. CASE todo = <<SetsSeats(s, seats)>> \/ todo = <<SchedulesSeats(s, seats)>>
  <2>1. Sound(todo)
    BY <1>1, <1>3, SoundOnRow
  <2>2. Seating(todo)
    BY <1>1, <1>3 DEF Seating
  <2> QED BY <1>1, <2>1, <2>2, PlainDecided DEF Plain
<1>4. CASE todo = <<Inserts(s, "SEAT_CHANGE", Same, seats, FALSE)>>
  <2>0. Same \in Plan
    BY DEF Same, Plan, Tiers
  <2>1. Sound(todo)
    BY <1>1, <1>4, <2>0, SoundCharge DEF Purposes
  <2>2. Charging(todo)
    BY <1>1, <1>4, <2>0 DEF Charging
  <2> QED BY <1>1, <2>1, <2>2, PlainDecided DEF Plain
<1> QED BY <1>2, <1>3, <1>4

\* A request of the tenant.
LEMMA RequestDecides ==
    ASSUME TypesInv, NEW c \in Callers, Requests(c)
    PROVE  \E todo, how : Decided(c, todo, how)
<1>0. payment' = payment => (payment' \in Seq(Payment))
  BY DEF TypesInv, BillingTypeOK
<1>1. ASSUME NEW tier \in PaidTiers, NEW interval \in Intervals, Subscribes(c, tier, interval)
      PROVE  \E todo, how : Decided(c, todo, how)
  <2> DEFINE x == [do |-> "subscribe", tier |-> tier, interval |-> interval]
  <2>1. x \in Statement /\ Refers(x, DOMAIN subscription, DOMAIN payment)
    BY MakesRequest DEF Tiers, Refers, RowOf, PaymentOf
  <2>2. Reads(c, <<x>>) /\ Subscribing(<<x>>)
    BY <1>1 DEF Subscribes, Subscribing
  <2> HIDE DEF x
  <2>3. Sound(<<x>>)
    BY <2>1, SoundOne
  <2> QED BY <2>2, <2>3, PlainDecided DEF Plain
<1>2. ASSUME NEW tier \in PaidTiers, NEW interval \in Intervals, NEW s \in Active,
             RequestsTierChange(c, s, tier, interval)
      PROVE  \E todo, how : Decided(c, todo, how)
  BY <1>2, TierChangeDecided
<1>3. ASSUME NEW s \in Active, SchedulesCancellation(c, s)
      PROVE  \E todo, how : Decided(c, todo, how)
  <2>1. Free \in Tiers /\ s \in DOMAIN subscription
    BY ActiveIs DEF Tiers
  <2> DEFINE todo == <<Schedules(s, Free, "same")>>
  <2>2. Sound(todo)
    BY <2>1, SoundOnRow
  <2>3. Reads(c, todo) /\ Scheduling(todo)
    BY <1>3, <2>1 DEF SchedulesCancellation, Scheduling
  <2> HIDE DEF todo
  <2> QED BY <2>2, <2>3, PlainDecided DEF Plain
<1>4. ASSUME NEW s \in Active, NEW seats \in 0 .. MaxSeats, RequestsSeatChange(c, s, seats)
      PROVE  \E todo, how : Decided(c, todo, how)
  BY <1>4, SeatChangeDecided
<1>5. ASSUME NEW p \in DOMAIN payment, SubmitsProof(c, p)
      PROVE  \E todo, how : Decided(c, todo, how)
  <2> DEFINE todo == <<SetsPayment(p, "REPORTED")>>
             how == Again(p) \cup Meets(p)
  <2>1. Sound(todo)
    BY SoundOfPayment DEF PaymentStatuses, Unsettled
  <2>2. how \in SUBSET Strayings
    BY HowIs DEF Strayings
  <2>3. Decides(c, todo, how) /\ UNCHANGED <<tenant, subscription, payment>> /\ Reporting(p, todo, how)
    BY <1>5 DEF SubmitsProof, Reporting
  <2> HIDE DEF todo, how
  <2>4. Decision(todo, how)
    BY <2>3 DEF Decision
  <2> QED BY <2>1, <2>2, <2>3, <2>4 DEF Decided
<1>6. ASSUME NEW p \in DOMAIN payment, CancelsPayment(c, p)
      PROVE  \E todo, how : Decided(c, todo, how)
  <2> DEFINE todo == <<[do |-> "cancel", p |-> p, status |-> "CANCELLED"]>>
             how == Meets(p)
  <2>1. Sound(todo)
    BY SoundOfPayment DEF PaymentStatuses, Unsettled
  <2>2. how \in SUBSET Strayings
    BY HowIs DEF Strayings
  <2>3. Decides(c, todo, how) /\ UNCHANGED <<tenant, subscription, payment>> /\ Cancelling(p, todo, how)
    BY <1>6 DEF CancelsPayment, Cancelling
  <2> HIDE DEF todo, how
  <2>4. Decision(todo, how)
    BY <2>3 DEF Decision
  <2> QED BY <2>1, <2>2, <2>3, <2>4 DEF Decided
<1>7. ASSUME PromotesTenant(c) PROVE \E todo, how : Decided(c, todo, how)
  <2> DEFINE x == [do |-> "promote"]
  <2>1. x \in Statement /\ Refers(x, DOMAIN subscription, DOMAIN payment)
    BY MakesRequest DEF Refers, RowOf, PaymentOf
  <2>2. Reads(c, <<x>>) /\ Promoting(<<x>>)
    BY <1>7 DEF PromotesTenant, Promoting
  <2> HIDE DEF x
  <2>3. Sound(<<x>>)
    BY <2>1, SoundOne
  <2> QED BY <2>2, <2>3, PlainDecided DEF Plain
<1> QED BY <1>1, <1>2, <1>3, <1>4, <1>5, <1>6, <1>7 DEF Requests

\* What a review writes, whatever its payment is for.
LEMMA AppliesSound ==
    ASSUME TypesInv, NEW p \in DOMAIN payment
    PROVE  Sound(Applies(p, payment[p].of))
<1> DEFINE s == payment[p].of
<1>1. s \in DOMAIN subscription
  BY PaymentIs
<1> HIDE DEF s
<1>2. /\ Sound(AppliesSeats(p, s)) /\ Sound(AppliesTier(p, s))
      /\ Sound(AppliesRenewal(p, s)) /\ Sound(AppliesInitial(p, s))
  BY <1>1, SeatsHas, TierHas, RenewalHas, InitialHas
<1>3. /\ payment[p].purpose = "SEAT_CHANGE" => Applies(p, s) = AppliesSeats(p, s)
      /\ payment[p].purpose = "TIER_CHANGE" => Applies(p, s) = AppliesTier(p, s)
      /\ payment[p].purpose = "RENEWAL" => Applies(p, s) = AppliesRenewal(p, s)
      /\ payment[p].purpose \notin {"SEAT_CHANGE", "TIER_CHANGE", "RENEWAL"} =>
            Applies(p, s) = AppliesInitial(p, s)
  BY DEF Applies
<1>4. Sound(Applies(p, s))
  BY <1>2, <1>3
<1> QED BY <1>4 DEF s

\* A request of the operator.
LEMMA OperationDecides ==
    ASSUME TypesInv, NEW c \in Callers, Operates(c)
    PROVE  \E todo, how : Decided(c, todo, how)
<1>1. ASSUME NEW p \in DOMAIN payment, Verifies(c, p) PROVE \E todo, how : Decided(c, todo, how)
  <2> DEFINE s == payment[p].of
             a == <<Snapshots(p, SnapshotOf(s))>>
             b == Applies(p, s)
             how == Ended(p) \cup Again(p) \cup Meets(p)
  <2>1. Sound(a) /\ Has(a) = {Snapshots(p, SnapshotOf(s))}
    BY PaymentIs, SnapshotIs, SoundOfPayment, HasOne
  <2>2. Sound(b)
    BY AppliesSound
  <2>3. /\ Decides(c, a \o b, how) /\ UNCHANGED <<tenant, subscription>>
        /\ payment' = [payment EXCEPT ![p].status = "VERIFIED"]
    BY <1>1 DEF Verifies
  <2>4. how \in SUBSET Strayings
    BY HowIs DEF Strayings
  <2> HIDE DEF a, b
  <2>5. Sound(a \o b) /\ Has(a \o b) = Has(a) \cup Has(b)
    BY <2>1, <2>2, SoundBoth
  <2> DEFINE todo == a \o b
  <2>6. Sound(todo) /\ Has(todo) = Has(a) \cup Has(b) /\ Decides(c, todo, how)
    BY <2>3, <2>5
  <2> HIDE DEF todo
  <2>7. Verifying(p, todo, how)
    BY <2>1, <2>2, <2>6 DEF Verifying, b
  <2> HIDE DEF how
  <2>8. Decision(todo, how)
    BY <2>3, <2>7 DEF Decision
  <2> QED BY <2>3, <2>4, <2>6, <2>8 DEF Decided
<1>2. ASSUME NEW p \in DOMAIN payment, Rejects(c, p) PROVE \E todo, how : Decided(c, todo, how)
  <2> DEFINE how == Again(p) \cup Meets(p)
  <2>1. how \in SUBSET Strayings
    BY HowIs DEF Strayings
  <2>2. /\ Decides(c, <<>>, how) /\ UNCHANGED <<tenant, subscription>> /\ Rejecting(p, <<>>, how)
        /\ payment' = [payment EXCEPT ![p].status = "REJECTED"]
    BY <1>2 DEF Rejects, Rejecting
  <2> HIDE DEF how
  <2>3. Decision(<<>>, how)
    BY <2>2 DEF Decision
  <2> QED BY <2>1, <2>2, <2>3, SoundNone DEF Decided
<1>3. ASSUME NEW p \in DOMAIN payment, Refunds(c, p) PROVE \E todo, how : Decided(c, todo, how)
  <2> DEFINE how == Ended(p) \cup Meets(p)
  <2>1. PICK snap \in payment[p].from : snap = CHOOSE from \in payment[p].from : TRUE
    BY <1>3 DEF Refunds
  <2> DEFINE todo == RefundTodo(p, payment[p].of, snap)
  <2>2. snap \in Snapshot
    BY <2>1, PaymentIs
  <2>3. Sound(todo)
    BY <2>2, PaymentIs, RefundHas
  <2>4. Decides(c, todo, how) /\ UNCHANGED <<tenant, subscription, payment>>
    BY <1>3, <2>1 DEF Refunds, RefundTodo
  <2>5. Refunding(p, todo, how)
    BY <1>3, <2>1 DEF Refunds, Refunding
  <2>6. how \in SUBSET Strayings
    BY HowIs DEF Strayings
  <2> HIDE DEF todo, how
  <2>7. Decision(todo, how)
    BY <2>4, <2>5 DEF Decision
  <2> QED BY <2>3, <2>4, <2>6, <2>7 DEF Decided
<1>4. ASSUME NEW s \in DOMAIN subscription, NEW kind \in {"sandbox", "linked"}, LinksInvoice(c, s, kind)
      PROVE  \E todo, how : Decided(c, todo, how)
  <2> DEFINE owed == {p \in DOMAIN payment : payment[p].of = s /\ payment[p].status = "VERIFIED"
                                            /\ payment[p].invoice = "none"}
  <2>1. owed \in SUBSET Nat /\ owed # {}
    BY <1>4 DEF LinksInvoice, TypesInv, BillingTypeOK
  <2>2. PICK p \in owed : p = Oldest(owed)
    BY <2>1, OldestIsOne
  <2> DEFINE todo == <<[do |-> "invoice", p |-> p, kind |-> kind]>>
             how == Meets(p)
  <2>3. Decides(c, todo, how) /\ UNCHANGED <<tenant, subscription, payment>>
    BY <1>4, <2>2 DEF LinksInvoice
  <2>4. p \in DOMAIN payment /\ payment[p].status = "VERIFIED"
    BY <2>2
  <2>5. Linking(p, todo, how)
    BY <2>4 DEF Linking
  <2>6. Sound(todo)
    BY <2>4, SoundOfPayment
  <2>7. how \in SUBSET Strayings
    BY HowIs DEF Strayings
  <2> HIDE DEF owed, todo, how
  <2>8. Decision(todo, how)
    BY <2>3, <2>4, <2>5 DEF Decision
  <2> QED BY <2>3, <2>6, <2>7, <2>8 DEF Decided
<1>5. ASSUME NEW s \in Misaligned, Resyncs(c, s) PROVE \E todo, how : Decided(c, todo, how)
  <2> DEFINE todo == <<SetsCap(subscription[s].tier, subscription[s].interval)>>
  <2>1. s \in Active /\ s \in DOMAIN subscription
    BY ActiveIs DEF Misaligned
  <2>2. Sound(todo)
    BY <2>1, RowIs, SoundOnTenant
  <2>3. Reads(c, todo) /\ Resyncing(todo)
    BY <1>5, <2>1 DEF Resyncs, Resyncing
  <2> HIDE DEF todo
  <2> QED BY <2>2, <2>3, PlainDecided DEF Plain
<1>6. ASSUME NEW s \in DOMAIN subscription, OverridesSubscription(c, s)
      PROVE  \E todo, how : Decided(c, todo, how)
  <2> DEFINE todo == <<SetsStatus(s, "CANCELLED", {})>>
  <2>1. Sound(todo)
    BY SoundOnRow DEF Standings
  <2>2. Decides(c, todo, {"override"}) /\ UNCHANGED <<tenant, subscription, payment>> /\ Overriding(todo)
    BY <1>6 DEF OverridesSubscription, Overriding
  <2> HIDE DEF todo
  <2>3. Decision(todo, {"override"})
    BY <2>2 DEF Decision
  <2> QED BY <2>1, <2>2, <2>3 DEF Decided, Strayings
<1>7. ASSUME NEW tier \in Tiers, OverridesTier(c, tier) PROVE \E todo, how : Decided(c, todo, how)
  <2> DEFINE todo == Grants(tier, "MONTHLY")
  <2>1. Sound(todo) /\ Has(todo) = {SetsTier(tier), SetsCap(tier, "MONTHLY")}
    BY SoundOnTenant DEF Intervals
  <2>2. Decides(c, todo, {"override"}) /\ UNCHANGED <<tenant, subscription, payment>>
    BY <1>7 DEF OverridesTier
  <2> HIDE DEF todo
  <2>3. Overriding(todo)
    BY <2>1 DEF Overriding
  <2>4. Decision(todo, {"override"})
    BY <2>2, <2>3 DEF Decision
  <2> QED BY <2>1, <2>2, <2>4 DEF Decided, Strayings
<1> QED BY <1>1, <1>2, <1>3, <1>4, <1>5, <1>6, <1>7 DEF Operates

\* What becomes of the payments when a call decides.
LEMMA DecisionPayments ==
    ASSUME TypesInv, NEW todo, NEW how, Decision(todo, how)
    PROVE  /\ payment' \in Seq(Payment) /\ DOMAIN payment' = DOMAIN payment
           /\ \A p \in DOMAIN payment : /\ payment'[p].of = payment[p].of
                                        /\ payment'[p].purpose = payment[p].purpose
                                        /\ payment'[p].target = payment[p].target
                                        /\ payment'[p].immediate = payment[p].immediate
                                        /\ payment'[p].from = payment[p].from
                                        /\ payment'[p].stamped = payment[p].stamped
<1>0. payment \in Seq(Payment)
  BY DEF TypesInv, BillingTypeOK
<1>1. CASE payment' = payment
  BY <1>0, <1>1
<1>2. ASSUME NEW p \in DOMAIN payment, NEW status \in PaymentStatuses,
             payment' = [payment EXCEPT ![p].status = status]
      PROVE  /\ payment' \in Seq(Payment) /\ DOMAIN payment' = DOMAIN payment
             /\ \A q \in DOMAIN payment : /\ payment'[q].of = payment[q].of
                                          /\ payment'[q].purpose = payment[q].purpose
                                          /\ payment'[q].target = payment[q].target
                                          /\ payment'[q].immediate = payment[q].immediate
                                          /\ payment'[q].from = payment[q].from
                                          /\ payment'[q].stamped = payment[q].stamped
  <2> DEFINE new == [payment[p] EXCEPT !.status = status]
  <2>1. payment[p] \in Payment
    BY PaymentIs
  <2>2. /\ new \in Payment /\ new.of = payment[p].of /\ new.purpose = payment[p].purpose
        /\ new.target = payment[p].target /\ new.immediate = payment[p].immediate
        /\ new.from = payment[p].from /\ new.stamped = payment[p].stamped
    BY <2>1 DEF Payment
  <2>3. payment' = [payment EXCEPT ![p] = new]
    BY <1>2
  <2> HIDE DEF new
  <2>4. /\ payment' \in Seq(Payment) /\ DOMAIN payment' = DOMAIN payment /\ payment'[p] = new
        /\ \A q \in DOMAIN payment \ {p} : payment'[q] = payment[q]
    BY <1>0, <2>2, <2>3, PutsOne
  <2> QED BY <2>2, <2>4
<1>3. "VERIFIED" \in PaymentStatuses /\ "REJECTED" \in PaymentStatuses
  BY DEF PaymentStatuses, Unsettled
<1> QED BY <1>1, <1>2, <1>3 DEF Decision

LEMMA DecidedTypes ==
    ASSUME TypesInv, NEW c \in Callers, Requests(c) \/ Operates(c)
    PROVE  TypesInv'
<1>1. PICK todo, how : Decided(c, todo, how)
  BY RequestDecides, OperationDecides
<1> QED BY <1>1, DecisionPayments, DecidesTypes DEF Decided

-----------------------------------------------------------------------------
(* The job, and the other steps.                                           *)

\* The job enters a phase with something to write of each of its rows.
LEMMA EntersMoves ==
    ASSUME TypesInv, NEW c \in Callers, NEW phase, NEW rows, Enters(c, phase, rows),
           DOMAIN rows \subseteq Nat
    PROVE  /\ DOMAIN call' = Callers /\ \A d \in Callers \ {c} : call'[d] = call[d]
           /\ call'[c] = NextRow(phase, rows) /\ call'[c].phase = phase
           /\ All(call'[c]) = UNION {Has(rows[s]) : s \in DOMAIN rows}
           /\ UNCHANGED <<day, tenant, subscription, payment>>
           /\ strayed' = strayed \cup Crosses(c, call'[c])
<1>1. call' = [call EXCEPT ![c] = NextRow(phase, rows)]
  BY DEF Enters
<1>2. /\ DOMAIN call' = Callers /\ \A d \in Callers \ {c} : call'[d] = call[d]
      /\ call'[c] = NextRow(phase, rows)
  BY <1>1 DEF TypesInv
<1> DEFINE next == NextRow(phase, rows)
<1>3. next.phase = phase /\ All(next) = UNION {Has(rows[s]) : s \in DOMAIN rows}
  BY NextRowIs
<1>4. call'[c] = next
  BY <1>2
<1> HIDE DEF next
<1>5. call'[c].phase = phase /\ All(call'[c]) = UNION {Has(rows[s]) : s \in DOMAIN rows}
  BY <1>3, <1>4
<1> QED BY <1>2, <1>5 DEF Enters

LEMMA EntersTypes ==
    ASSUME TypesInv, NEW c \in Callers, NEW phase \in Phases, NEW rows, Enters(c, phase, rows),
           DOMAIN rows \subseteq DOMAIN subscription,
           \A s \in DOMAIN rows : Sound(rows[s]) /\ rows[s] # <<>>,
           calls' \in Nat, mishaps' \in Nat
    PROVE  TypesInv'
<1>0. DOMAIN rows \subseteq Nat
  BY DEF TypesInv, BillingTypeOK
<1>1. /\ DOMAIN call' = Callers /\ \A d \in Callers \ {c} : call'[d] = call[d]
      /\ call'[c] = NextRow(phase, rows) /\ call'[c].phase = phase
      /\ All(call'[c]) = UNION {Has(rows[s]) : s \in DOMAIN rows}
      /\ UNCHANGED <<day, tenant, subscription, payment>>
      /\ strayed' = strayed \cup Crosses(c, call'[c])
  BY <1>0, EntersMoves
<1>2. strayed' \subseteq Strayings
  BY <1>1, CrossesIs DEF TypesInv, BillingTypeOK, Strayings
<1>3. /\ call'[c].todo \in Seq(Statement) /\ DOMAIN call'[c].later \subseteq DOMAIN rows
      /\ \A s \in DOMAIN call'[c].later : call'[c].later[s] = rows[s]
      /\ call'[c].todo = <<>> => DOMAIN call'[c].later = {}
  <2>1. CASE DOMAIN rows = {}
    <3>1. call'[c].todo = <<>> /\ call'[c].later = NoRows
      BY <1>0, <1>1, <2>1, NextRowIs
    <3> QED BY <3>1, NoRowsIs
  <2>2. CASE DOMAIN rows # {}
    <3>1. PICK s \in DOMAIN rows :
              /\ NextRow(phase, rows).todo = rows[s]
              /\ DOMAIN NextRow(phase, rows).later = DOMAIN rows \ {s}
              /\ \A r \in DOMAIN rows \ {s} : NextRow(phase, rows).later[r] = rows[r]
      BY <1>0, <2>2, NextRowIs
    <3>2. /\ call'[c].todo = rows[s] /\ DOMAIN call'[c].later = DOMAIN rows \ {s}
          /\ \A r \in DOMAIN rows \ {s} : call'[c].later[r] = rows[r]
      BY <1>1, <3>1
    <3> QED BY <3>2 DEF Sound
  <2> QED BY <2>1, <2>2
<1>4. \A d \in Callers :
          /\ call'[d].phase \in Phases /\ call'[d].todo \in Seq(Statement)
          /\ DOMAIN call'[d].later \subseteq DOMAIN subscription
          /\ \A s \in DOMAIN call'[d].later : call'[d].later[s] \in Seq(Statement)
  BY <1>1, <1>3 DEF TypesInv, BillingTypeOK, Sound
<1>5. BillingTypeOK'
  BY <1>1, <1>2, <1>4 DEF TypesInv, BillingTypeOK, Strayings
<1>6. \A st \in All(call'[c]) : Refers(st, DOMAIN subscription, DOMAIN payment)
  BY <1>1 DEF Sound
<1>7. Referring'
  BY <1>1, <1>3, <1>6 DEF TypesInv, Referring
<1> QED BY <1>1, <1>5, <1>7 DEF TypesInv

\* What each phase of the job has to write of the rows that are due.
LEMMA DueSound ==
    ASSUME TypesInv
    PROVE  /\ \A s \in DOMAIN DueSeats : Sound(DueSeats[s]) /\ DueSeats[s] # <<>>
           /\ \A s \in DOMAIN DueTiers : Sound(DueTiers[s]) /\ DueTiers[s] # <<>>
           /\ \A s \in DOMAIN DueReminders : Sound(DueReminders[s]) /\ DueReminders[s] # <<>>
           /\ \A s \in DOMAIN DueExpiries : Sound(DueExpiries[s]) /\ DueExpiries[s] # <<>>
           /\ DOMAIN DueSeats \subseteq DOMAIN subscription
           /\ DOMAIN DueTiers \subseteq DOMAIN subscription
           /\ DOMAIN DueReminders \subseteq DOMAIN subscription
           /\ DOMAIN DueExpiries \subseteq DOMAIN subscription
<1>1. ASSUME NEW s \in DOMAIN DueSeats PROVE Sound(DueSeats[s]) /\ DueSeats[s] # <<>>
  <2>1. s \in DOMAIN subscription /\ subscription[s].pendingSeats # {} /\ DueSeats[s] = LandsSeats(s)
    BY <1>1, ActiveIs DEF DueSeats, ForEach
  <2>2. Sound(LandsSeats(s)) /\ \E seats \in Nat : Has(LandsSeats(s)) = {SetsSeats(s, seats)}
    BY <2>1, SeatsLandedHas
  <2>3. LandsSeats(s) # <<>>
    BY <2>2, HasNone
  <2> QED BY <2>1, <2>2, <2>3
<1>2. ASSUME NEW s \in DOMAIN DueTiers PROVE Sound(DueTiers[s]) /\ DueTiers[s] # <<>>
  <2>1. s \in DOMAIN subscription /\ subscription[s].pending # {} /\ DueTiers[s] = LandsPlan(s)
    BY <1>2, ActiveIs DEF DueTiers, ForEach
  <2>2. Sound(LandsPlan(s)) /\ LandsPlan(s) # <<>>
    BY <2>1, PlanLandedHas
  <2> QED BY <2>1, <2>2
<1>3. ASSUME NEW s \in DOMAIN DueReminders PROVE Sound(DueReminders[s]) /\ DueReminders[s] # <<>>
  <2>1. s \in DOMAIN subscription /\ DueReminders[s] = OpensRenewal(s)
    BY <1>3, ActiveIs DEF DueReminders, ForEach
  <2>2. /\ Sound(OpensRenewal(s))
        /\ Has(OpensRenewal(s)) = {Inserts(s, "RENEWAL", Same, 0, FALSE)}
    BY <2>1, RenewalOpensHas
  <2>3. OpensRenewal(s) # <<>>
    BY <2>2, HasNone
  <2> QED BY <2>1, <2>2, <2>3
<1>4. ASSUME NEW s \in DOMAIN DueExpiries PROVE Sound(DueExpiries[s]) /\ DueExpiries[s] # <<>>
  <2>1. s \in DOMAIN subscription /\ DueExpiries[s] = Expires(s)
    BY <1>4, ActiveIs DEF DueExpiries, ForEach
  <2>2. Sound(Expires(s)) /\ Expires(s) # <<>>
    BY <2>1, ExpiresHas
  <2> QED BY <2>1, <2>2
<1>5. /\ DOMAIN DueSeats \subseteq Active /\ DOMAIN DueTiers \subseteq Active
      /\ DOMAIN DueReminders \subseteq Active /\ DOMAIN DueExpiries \subseteq Active
  BY DEF DueSeats, DueTiers, DueReminders, DueExpiries, ForEach
<1> QED BY <1>1, <1>2, <1>3, <1>4, <1>5, ActiveIs

\* A step of the job from one phase to the next.
JobEnters(c, phase, rows) ==
    /\ phase \in Phases /\ Enters(c, phase, rows) /\ calls' \in Nat /\ mishaps' \in Nat
    /\ call[c].todo = <<>>
    /\ \/ call[c] = NoCall /\ phase = "seats" /\ rows = DueSeats
       \/ call[c].phase = "seats" /\ phase = "tiers" /\ rows = DueTiers
       \/ call[c].phase = "tiers" /\ phase = "reminders" /\ rows = DueReminders
       \/ call[c].phase = "reminders" /\ phase = "expiry" /\ rows = DueExpiries
       \/ call[c].phase = "expiry" /\ phase = "none" /\ rows = NoRows

LEMMA JobStep ==
    ASSUME TypesInv, NEW c \in Callers, RunsJob(c) \/ GoesOnJob(c)
    PROVE  \E phase, rows : JobEnters(c, phase, rows)
<1>1. CASE RunsJob(c)
  <2>1. calls' \in Nat /\ mishaps' \in Nat /\ call[c] = NoCall
    BY <1>1 DEF RunsJob, Begins, Idle, TypesInv, BillingTypeOK
  <2>2. call[c].todo = <<>> /\ Enters(c, "seats", DueSeats)
    BY <1>1, <2>1 DEF NoCall, RunsJob
  <2>3. JobEnters(c, "seats", DueSeats)
    BY <2>1, <2>2 DEF JobEnters, Phases
  <2> QED BY <2>3
<1>2. CASE GoesOnJob(c)
  <2>1. calls' \in Nat /\ mishaps' \in Nat /\ call[c].todo = <<>>
    BY <1>2 DEF GoesOnJob, TypesInv, BillingTypeOK
  <2>2. CASE call[c].phase = "seats" /\ Enters(c, "tiers", DueTiers)
    <3>1. JobEnters(c, "tiers", DueTiers)
      BY <2>1, <2>2 DEF JobEnters, Phases
    <3> QED BY <3>1
  <2>3. CASE call[c].phase = "tiers" /\ Enters(c, "reminders", DueReminders)
    <3>1. JobEnters(c, "reminders", DueReminders)
      BY <2>1, <2>3 DEF JobEnters, Phases
    <3> QED BY <3>1
  <2>4. CASE call[c].phase = "reminders" /\ Enters(c, "expiry", DueExpiries)
    <3>1. JobEnters(c, "expiry", DueExpiries)
      BY <2>1, <2>4 DEF JobEnters, Phases
    <3> QED BY <3>1
  <2>5. CASE call[c].phase = "expiry" /\ Enters(c, "none", NoRows)
    <3>1. JobEnters(c, "none", NoRows)
      BY <2>1, <2>5 DEF JobEnters, Phases
    <3> QED BY <3>1
  <2> QED BY <1>2, <2>2, <2>3, <2>4, <2>5 DEF GoesOnJob
<1> QED BY <1>1, <1>2

\* The rows of a phase are rows, with something to write of each.
LEMMA JobRows ==
    ASSUME TypesInv, NEW c \in Callers, NEW phase, NEW rows, JobEnters(c, phase, rows)
    PROVE  /\ DOMAIN rows \subseteq DOMAIN subscription /\ DOMAIN rows \subseteq Nat
           /\ \A s \in DOMAIN rows : Sound(rows[s]) /\ rows[s] # <<>>
<1>1. DOMAIN subscription \subseteq Nat
  BY DEF TypesInv, BillingTypeOK
<1>2. CASE rows = NoRows
  BY <1>2, NoRowsIs
<1>3. CASE rows \in {DueSeats, DueTiers, DueReminders, DueExpiries}
  BY <1>1, <1>3, DueSound
<1> QED BY <1>2, <1>3 DEF JobEnters

LEMMA JobTypes ==
    ASSUME TypesInv, NEW c \in Callers, RunsJob(c) \/ GoesOnJob(c)
    PROVE  TypesInv'
<1>1. PICK phase, rows : JobEnters(c, phase, rows)
  BY JobStep
<1> QED BY <1>1, JobRows, EntersTypes DEF JobEnters

\* A statement written.
LEMMA ContinuesTypes ==
    ASSUME TypesInv, NEW c \in Callers, Continues(c)
    PROVE  TypesInv'
<1>1. PICK st : st = Head(call[c].todo)
  OBVIOUS
<1> DEFINE todo == call[c].todo
           later == call[c].later
           rest == Then(st) \o Tail(todo)
<1>2. /\ st \in Statement /\ Refers(st, DOMAIN subscription, DOMAIN payment)
      /\ Writes(st) /\ UNCHANGED <<day, calls, mishaps, strayed>>
      /\ DOMAIN call' = Callers /\ \A d \in Callers \ {c} : call'[d] = call[d]
      /\ rest \in Seq(Statement) /\ Has(todo) = {st} \cup Has(Tail(todo))
      /\ call'[c].phase = call[c].phase
      /\ rest # <<>> => call'[c].todo = rest /\ call'[c].later = later
      /\ rest = <<>> => call'[c] = NextRow(call[c].phase, later)
      /\ All(call'[c]) = Has(Then(st)) \cup Has(Tail(todo))
                         \cup UNION {Has(later[s]) : s \in DOMAIN later}
  BY <1>1, ContinuesMoves
<1>3. /\ tenant' \in Tenant /\ subscription' \in Seq(Subscription) /\ payment' \in Seq(Payment)
      /\ DOMAIN subscription \subseteq DOMAIN subscription'
      /\ DOMAIN payment \subseteq DOMAIN payment'
      /\ \A p \in DOMAIN payment' : payment'[p].of \in DOMAIN subscription'
  BY <1>2, WritesTypes
<1>4. \A x \in Has(Then(st)) : Refers(x, DOMAIN subscription', DOMAIN payment')
  BY <1>2, ThenTypes
<1>5. /\ DOMAIN later \subseteq DOMAIN subscription /\ DOMAIN later \subseteq Nat
      /\ \A s \in DOMAIN later : later[s] \in Seq(Statement) /\ later[s] # <<>>
  BY DEF TypesInv, BillingTypeOK, Referring
<1> HIDE DEF rest
<1>6. /\ call'[c].todo \in Seq(Statement) /\ DOMAIN call'[c].later \subseteq DOMAIN later
      /\ \A s \in DOMAIN call'[c].later : call'[c].later[s] = later[s]
      /\ call'[c].todo = <<>> => DOMAIN call'[c].later = {}
  <2>1. CASE rest # <<>>
    BY <1>2, <2>1
  <2>2. CASE rest = <<>> /\ DOMAIN later = {}
    <3>1. call'[c].todo = <<>> /\ call'[c].later = NoRows
      BY <1>2, <1>5, <2>2, NextRowIs
    <3> QED BY <3>1, NoRowsIs
  <2>3. CASE rest = <<>> /\ DOMAIN later # {}
    <3>0. PICK phase, rows : phase = call[c].phase /\ rows = later
      OBVIOUS
    <3>1. PICK s \in DOMAIN rows :
              /\ NextRow(phase, rows).todo = rows[s]
              /\ DOMAIN NextRow(phase, rows).later = DOMAIN rows \ {s}
              /\ \A r \in DOMAIN rows \ {s} : NextRow(phase, rows).later[r] = rows[r]
      BY <1>5, <2>3, <3>0, NextRowIs
    <3>2. /\ call'[c].todo = later[s] /\ DOMAIN call'[c].later = DOMAIN later \ {s}
          /\ \A r \in DOMAIN later \ {s} : call'[c].later[r] = later[r]
      BY <1>2, <2>3, <3>0, <3>1
    <3> QED BY <1>5, <3>0, <3>2
  <2> QED BY <2>1, <2>2, <2>3
<1>7. \A d \in Callers :
          /\ call'[d].phase \in Phases /\ call'[d].todo \in Seq(Statement)
          /\ DOMAIN call'[d].later \subseteq DOMAIN subscription'
          /\ \A s \in DOMAIN call'[d].later : call'[d].later[s] \in Seq(Statement)
  BY <1>2, <1>3, <1>5, <1>6 DEF TypesInv, BillingTypeOK
<1>8. BillingTypeOK'
  BY <1>2, <1>3, <1>7 DEF TypesInv, BillingTypeOK
<1>9. \A x \in All(call'[c]) : Refers(x, DOMAIN subscription', DOMAIN payment')
  <2> TAKE x \in All(call'[c])
  <2>1. CASE x \in Has(Then(st))
    BY <1>4, <2>1
  <2>2. CASE x \notin Has(Then(st))
    <3>1. x \in All(call[c])
      BY <1>2, <2>2 DEF All
    <3>2. Refers(x, DOMAIN subscription, DOMAIN payment)
      BY <3>1 DEF TypesInv, Referring
    <3> QED BY <1>3, <3>2, RefersOn
  <2> QED BY <2>1, <2>2
<1>10. \A d \in Callers \ {c} : \A x \in All(call[d]) : Refers(x, DOMAIN subscription', DOMAIN payment')
  <2> TAKE d \in Callers \ {c}
  <2> TAKE x \in All(call[d])
  <2>1. Refers(x, DOMAIN subscription, DOMAIN payment)
    BY DEF TypesInv, Referring
  <2> QED BY <1>3, <2>1, RefersOn
<1>11. Referring'
  <2>1. \A d \in Callers : \A x \in All(call'[d]) : Refers(x, DOMAIN subscription', DOMAIN payment')
    BY <1>2, <1>9, <1>10
  <2>2. \A d \in Callers : /\ \A s \in DOMAIN call'[d].later : call'[d].later[s] # <<>>
                           /\ call'[d].todo = <<>> => DOMAIN call'[d].later = {}
    BY <1>2, <1>5, <1>6 DEF TypesInv, Referring
  <2> QED BY <2>1, <2>2 DEF Referring
<1> QED BY <1>2, <1>8, <1>11 DEF TypesInv

LEMMA DiesTypes ==
    ASSUME TypesInv, NEW c \in Callers, Dies(c)
    PROVE  TypesInv'
<1>1. /\ DOMAIN call' = Callers /\ call'[c] = NoCall /\ \A d \in Callers \ {c} : call'[d] = call[d]
      /\ UNCHANGED <<day, tenant, subscription, payment, calls>> /\ mishaps' = mishaps + 1
      /\ strayed' = strayed \cup {"interrupted"}
  BY DEF Dies, TypesInv
<1>2. /\ NoCall.phase = "none" /\ NoCall.todo = <<>> /\ NoCall.later = NoRows
  BY DEF NoCall
<1>3. BillingTypeOK'
  <2>1. /\ day' \in Nat /\ calls' \in Nat /\ mishaps' \in Nat /\ tenant' \in Tenant
        /\ subscription' \in Seq(Subscription) /\ payment' \in Seq(Payment)
        /\ \A p \in DOMAIN payment' : payment'[p].of \in DOMAIN subscription'
        /\ strayed' \subseteq Strayings
    BY <1>1 DEF TypesInv, BillingTypeOK, Strayings
  <2>2. ASSUME NEW d \in Callers
        PROVE  /\ call'[d].phase \in Phases /\ call'[d].todo \in Seq(Statement)
               /\ DOMAIN call'[d].later \subseteq DOMAIN subscription'
               /\ \A s \in DOMAIN call'[d].later : call'[d].later[s] \in Seq(Statement)
    <3>1. CASE d = c
      <4>1. <<>> \in Seq(Statement)
        OBVIOUS
      <4> QED BY <1>1, <1>2, <3>1, <4>1, NoRowsIs DEF Phases
    <3>2. CASE d # c
      BY <1>1, <3>2 DEF TypesInv, BillingTypeOK
    <3> QED BY <3>1, <3>2
  <2> QED BY <2>1, <2>2 DEF BillingTypeOK, Strayings
<1>4. All(NoCall) = {}
  BY <1>2, HasNone, NoRowsIs DEF All
<1>5. Referring'
  BY <1>1, <1>2, <1>4, NoRowsIs DEF TypesInv, Referring
<1> QED BY <1>1, <1>3, <1>5 DEF TypesInv

LEMMA NextDayTypes == TypesInv /\ NextDay => TypesInv'
<1> SUFFICES ASSUME TypesInv, NextDay PROVE TypesInv'
  OBVIOUS
<1>1. /\ day' \in Nat
      /\ UNCHANGED <<tenant, subscription, payment, call, calls, mishaps, strayed>>
  BY DEF NextDay, TypesInv, BillingTypeOK
<1> QED BY <1>1 DEF TypesInv, BillingTypeOK, Referring

LEMMA TypesBegin == BillingInit => TypesInv
<1> SUFFICES ASSUME BillingInit PROVE TypesInv
  OBVIOUS
<1>1. /\ NoCall.phase = "none" /\ NoCall.todo = <<>> /\ NoCall.later = NoRows
  BY DEF NoCall
<1>2. All(NoCall) = {}
  BY <1>1, HasNone, NoRowsIs DEF All
<1>3. call = [c \in Callers |-> NoCall] /\ day = 0 /\ calls = 0 /\ mishaps = 0 /\ strayed = {}
  BY DEF BillingInit
<1>4. Referring /\ DOMAIN call = Callers
  BY <1>1, <1>2, <1>3, NoRowsIs DEF Referring
<1>5. \A c \in Callers :
          /\ call[c].phase \in Phases /\ call[c].todo \in Seq(Statement)
          /\ DOMAIN call[c].later \subseteq DOMAIN subscription
          /\ \A s \in DOMAIN call[c].later : call[c].later[s] \in Seq(Statement)
  <2>1. <<>> \in Seq(Statement)
    OBVIOUS
  <2> QED BY <1>1, <1>3, <2>1, NoRowsIs DEF Phases
<1>6. /\ tenant \in Tenant /\ subscription \in Seq(Subscription) /\ payment \in Seq(Payment)
      /\ \A p \in DOMAIN payment : payment[p].of \in DOMAIN subscription
  <2>1. ASSUME subscription = <<>>, payment = <<>>,
               NEW sandbox \in BOOLEAN,
               tenant = [tier |-> Free, cap |-> CapOf(Free, "MONTHLY"), pastDue |-> FALSE,
                         sandbox |-> sandbox]
        PROVE  <1>6!:
    <3>1. CapOf(Free, "MONTHLY") \in Plan /\ Free \in Tiers
      BY MakesCap DEF Tiers, Intervals
    <3> QED BY <2>1, <3>1 DEF Tenant
  <2>2. ASSUME NEW tier \in PaidTiers, NEW interval \in Intervals,
               NEW row, row = [NewSubscription(tier, interval) EXCEPT
                                   !.status = "ACTIVE", !.end = PeriodEnd(0, interval)],
               NEW from, from = [tier |-> tier, interval |-> interval, seats |-> 0, end |-> 0,
                                 tenantTier |-> Free, status |-> "PENDING_PAYMENT"],
               NEW paid, paid = [NewPayment(1, "INITIAL", Same, 0, FALSE) EXCEPT
                                   !.status = "VERIFIED", !.stamped = TRUE, !.from = {from}],
               subscription = <<row>>, payment = <<paid>>,
               tenant = [tier |-> tier, cap |-> CapOf(tier, interval), pastDue |-> FALSE,
                         sandbox |-> FALSE]
        PROVE  <1>6!:
    <3>1. tier \in Tiers /\ Free \in Tiers /\ CapOf(tier, interval) \in Plan /\ Same \in Plan
      BY MakesCap DEF Tiers, Same, Plan
    <3>2. PeriodEnd(0, interval) \in Nat
      BY PeriodEndIs
    <3>3. row \in Subscription
      BY <2>2, <3>1, <3>2 DEF NewSubscription, Subscription, Standings
    <3>4. from \in Snapshot
      BY <2>2, <3>1 DEF Snapshot, Standings
    <3>5. NewPayment(1, "INITIAL", Same, 0, FALSE) \in Payment
      BY <3>1, MakesCharge DEF Purposes
    <3>6. paid \in Payment /\ paid.of = 1
      <4>1. /\ paid = [NewPayment(1, "INITIAL", Same, 0, FALSE) EXCEPT
                         !.status = "VERIFIED", !.stamped = TRUE, !.from = {from}]
            /\ {from} \in SUBSET Snapshot
        BY <2>2, <3>4
      <4> HIDE DEF Payment
      <4>2. NewPayment(1, "INITIAL", Same, 0, FALSE).of = 1
        BY DEF NewPayment
      <4> QED BY <3>5, <4>1, <4>2 DEF Payment, PaymentStatuses, Unsettled
    <3>7. tenant \in Tenant
      BY <2>2, <3>1 DEF Tenant
    <3>8. <<row>> \in Seq(Subscription) /\ <<paid>> \in Seq(Payment)
      BY <3>3, <3>6
    <3>9. DOMAIN <<row>> = 1 .. 1 /\ DOMAIN <<paid>> = 1 .. 1 /\ <<paid>>[1] = paid
      OBVIOUS
    <3>10. \A p \in DOMAIN <<paid>> : <<paid>>[p].of \in DOMAIN <<row>>
      <4>1. \A p \in DOMAIN <<paid>> : p = 1
        BY <3>9
      <4>2. <<paid>>[1].of = 1 /\ 1 \in DOMAIN <<row>>
        BY <3>6, <3>9
      <4> QED BY <4>1, <4>2
    <3>11. subscription = <<row>> /\ payment = <<paid>>
      BY <2>2
    <3> HIDE <2>2
    <3> QED BY <3>7, <3>8, <3>10, <3>11
  <2> QED BY <2>1, <2>2 DEF BillingInit
<1>7. BillingTypeOK
  BY <1>3, <1>5, <1>6 DEF BillingTypeOK
<1> QED BY <1>4, <1>7 DEF TypesInv

LEMMA TypesKeep == TypesInv /\ [BillingNext]_billingVars => TypesInv'
<1> SUFFICES ASSUME TypesInv, [BillingNext]_billingVars PROVE TypesInv'
  OBVIOUS
<1>1. CASE NextDay
  BY <1>1, NextDayTypes
<1>2. ASSUME NEW c \in Callers, Requests(c) \/ Operates(c) PROVE TypesInv'
  BY <1>2, DecidedTypes
<1>3. ASSUME NEW c \in Callers, RunsJob(c) \/ GoesOnJob(c) PROVE TypesInv'
  BY <1>3, JobTypes
<1>4. ASSUME NEW c \in Callers, Continues(c) PROVE TypesInv'
  BY <1>4, ContinuesTypes
<1>5. ASSUME NEW c \in Callers, Dies(c) PROVE TypesInv'
  BY <1>5, DiesTypes
<1>6. CASE UNCHANGED billingVars
  BY <1>6 DEF billingVars, TypesInv, BillingTypeOK, Referring
<1> QED BY <1>1, <1>2, <1>3, <1>4, <1>5, <1>6 DEF BillingNext

LEMMA TypesHold == BillingSpec => []TypesInv
<1> QED BY TypesBegin, TypesKeep, PTL DEF BillingSpec

\* A tenant's rows and what the calls have still to write are what they are declared to
\* be, and what is written is written about rows that are there.
THEOREM BillingTypes == BillingSpec => []BillingTypeOK
<1>1. TypesInv => BillingTypeOK
  BY DEF TypesInv
<1> QED BY <1>1, TypesHold, PTL

-----------------------------------------------------------------------------
(* One subscription that is not over, and expiry only of what was not paid *)
(* for.  Straight is the case where no two decisions overlapped and no     *)
(* payment of a subscription that was over was acted on.                   *)

Lives == {"PENDING_PAYMENT", "ACTIVE"}
QuietKinds == {"charge", "snapshot", "stamp", "invoice"}
Alone == {"subscribe", "cancel", "promote"}
Straight == strayed \cap {"crossed", "ended"} = {}

\* What a phase of the job may have to write; a request to subscribe, cancel or promote is
\* all that its call writes at first.
PhaseOK(now) ==
    /\ now.phase = "none" =>
          /\ DOMAIN now.later = {}
          /\ \A st \in Has(now.todo) : st.do \in Alone => now.todo = <<st>>
    /\ now.phase = "seats" => \A st \in All(now) : st.do = "seats"
    /\ now.phase = "tiers" =>
          \A st \in All(now) : /\ st.do \in {"plan", "status", "tier", "cap", "seats", "stamp"}
                               /\ st.do = "status" => st.status \in {"ACTIVE", "CANCELLED"}
    /\ now.phase = "reminders" => \A st \in All(now) : st.do = "charge"
    /\ now.phase = "expiry" =>
          \A st \in All(now) : /\ st.do \in {"tier", "cap", "seats", "status", "pastDue"}
                               /\ st.do = "status" => st.status = "EXPIRED" /\ st.end = {}

OneDecider ==
    "crossed" \notin strayed =>
        \A c, d \in Callers : Deciding(call[c]) /\ Deciding(call[d]) => c = d

\* A statement about the status of a row leaves it as it is, or ends it; an expiry is of a
\* row that is past its grace with nothing scheduled.
Stands(st, phase, rows, today) ==
    /\ st.do = "schedule" => rows[st.s].status \in Lives
    /\ st.do = "subscribe" => \A s \in DOMAIN rows : rows[s].status \notin Lives
    /\ st.do = "snapshot" => st.from.status \in Lives
    /\ st.do = "charge" => st.row.from = {}
    /\ st.do = "status" =>
          /\ st.status \in Lives => rows[st.s].status \in Lives
          /\ phase # "expiry" => st.status # "EXPIRED"
          /\ phase = "expiry" => rows[st.s].end + GraceDays <= today /\ rows[st.s].pending = {}

\* A call writes the status of a row once, and schedules nothing beside it.
OneStatus(now) ==
    \A st, su \in All(now) :
        st.do \in {"schedule", "status"} /\ su.do = "status" /\ st.s = su.s => st = su

\* What is scheduled for the end of a period that is over is about to land, or has landed
\* before the reminders.
LandsFirst(now, rows, today) ==
    now.phase = "tiers" =>
        /\ \A s \in DOMAIN rows :
              rows[s].status = "ACTIVE" /\ rows[s].end <= today /\ rows[s].pending # {} =>
                  \E st \in All(now) : st.do = "plan" /\ st.s = s
        /\ \A su \in All(now) : su.do = "status" =>
              \/ rows[su.s].pending = {}
              \/ \E st \in All(now) : st.do = "plan" /\ st.s = su.s

Landed(now, rows, today) ==
    now.phase = "reminders" =>
        \A s \in DOMAIN rows : rows[s].status = "ACTIVE" /\ rows[s].end <= today => rows[s].pending = {}

CallStands(now, rows, today) ==
    /\ \A st \in All(now) : Stands(st, now.phase, rows, today)
    /\ OneStatus(now) /\ LandsFirst(now, rows, today) /\ Landed(now, rows, today)

RowsStand ==
    /\ \A s, t \in DOMAIN subscription : Live(s) /\ Live(t) => s = t
    /\ \A p \in DOMAIN payment : \A from \in payment[p].from : from.status \in Lives
    /\ \A s \in DOMAIN subscription : subscription[s].status = "EXPIRED" =>
          subscription[s].end + GraceDays <= day /\ subscription[s].pending = {}

StandingInv ==
    /\ TypesInv /\ OneDecider
    /\ \A c \in Callers : PhaseOK(call[c])
    /\ Straight => RowsStand /\ \A c \in Callers : CallStands(call[c], subscription, day)

\* What makes a call one that decides.
LEMMA DecidingIs ==
    ASSUME NEW now
    PROVE  Deciding(now) <=> now.phase # "none" \/ \E st \in Has(now.todo) : st.do \notin QuietKinds
  BY DEF Deciding, Has, QuietKinds

\* A call that decides nothing writes quiet statements, and stands whatever the rows.
LEMMA QuietCall ==
    ASSUME NEW now, PhaseOK(now), ~Deciding(now)
    PROVE  now.phase = "none" /\ \A st \in All(now) : st.do \in QuietKinds
<1>1. now.phase = "none" /\ \A st \in Has(now.todo) : st.do \in QuietKinds
  BY DecidingIs
<1>2. DOMAIN now.later = {}
  BY <1>1 DEF PhaseOK
<1> QED BY <1>1, <1>2 DEF All

LEMMA QuietStands ==
    ASSUME NEW now, PhaseOK(now), ~Deciding(now), NEW rows, NEW today, NEW rows1, NEW today1,
           CallStands(now, rows, today)
    PROVE  CallStands(now, rows1, today1)
<1>1. now.phase = "none" /\ \A st \in All(now) : st.do \in QuietKinds
  BY QuietCall
<1>2. \A st \in All(now) : Stands(st, now.phase, rows, today)
  BY DEF CallStands
<1>3. \A st \in All(now) : Stands(st, now.phase, rows1, today1)
  BY <1>1, <1>2 DEF Stands, QuietKinds
<1> QED BY <1>1, <1>3 DEF CallStands, LandsFirst, Landed

LEMMA NoCallStands ==
    /\ PhaseOK(NoCall) /\ ~Deciding(NoCall) /\ All(NoCall) = {}
    /\ \A rows, today : CallStands(NoCall, rows, today)
<1>1. NoCall.phase = "none" /\ NoCall.todo = <<>> /\ NoCall.later = NoRows
  BY DEF NoCall
<1>2. All(NoCall) = {} /\ Has(NoCall.todo) = {}
  BY <1>1, HasNone, NoRowsIs DEF All
<1>3. PhaseOK(NoCall)
  BY <1>1, <1>2, NoRowsIs DEF PhaseOK
<1>4. ~Deciding(NoCall)
  BY <1>1, <1>2, DecidingIs
<1> QED BY <1>1, <1>2, <1>3, <1>4 DEF CallStands, OneStatus, LandsFirst, Landed

\* An overlap of two calls that decide is a straying.
LEMMA CrossesDecider ==
    ASSUME NEW c \in Callers, NEW now, "crossed" \notin Crosses(c, now), Deciding(now)
    PROVE  \A d \in Callers \ {c} : ~Deciding(call[d])
  BY DEF Crosses

LEMMA OneDeciderStays ==
    ASSUME OneDecider, NEW c \in Callers, \A d \in Callers \ {c} : call'[d] = call[d],
           strayed \subseteq strayed', "crossed" \notin Crosses(c, call'[c]) \/ "crossed" \in strayed'
    PROVE  OneDecider'
<1>1. CASE "crossed" \in strayed'
  BY <1>1 DEF OneDecider
<1>2. CASE "crossed" \notin strayed'
  <2>1. PICK now : now = call'[c]
    OBVIOUS
  <2>2. "crossed" \notin Crosses(c, now) /\ "crossed" \notin strayed
    BY <1>2, <2>1
  <2>3. Deciding(now) => \A d \in Callers \ {c} : ~Deciding(call[d])
    BY <2>2, CrossesDecider
  <2>4. \A d, e \in Callers : Deciding(call'[d]) /\ Deciding(call'[e]) => d = e
    <3> SUFFICES ASSUME NEW d \in Callers, NEW e \in Callers, Deciding(call'[d]), Deciding(call'[e])
                 PROVE  d = e
      OBVIOUS
    <3>1. CASE d # c /\ e # c
      BY <2>2, <3>1 DEF OneDecider
    <3>2. CASE d = c \/ e = c
      BY <2>1, <2>3, <3>2
    <3> QED BY <3>1, <3>2
  <2> QED BY <2>4 DEF OneDecider
<1> QED BY <1>1, <1>2

\* What each decision writes stands as it is decided.
Fine(todo) ==
    /\ \A st \in Has(todo) : Stands(st, "none", subscription, day)
    /\ \E x : \A st \in Has(todo) : st.do \in {"schedule", "status"} => st = x
    /\ \A st \in Has(todo) : st.do \in Alone => todo = <<st>>

LEMMA FineOne ==
    ASSUME NEW st, Stands(st, "none", subscription, day)
    PROVE  Fine(<<st>>)
  BY HasOne DEF Fine

LEMMA LiveIs ==
    /\ \A s : Live(s) <=> subscription[s].status \in Lives
    /\ \A s \in Active : subscription[s].status = "ACTIVE" /\ Live(s)
  BY DEF Live, Lives, Active

LEMMA PlainFine ==
    ASSUME TypesInv, NEW todo, Plain(todo)
    PROVE  Fine(todo)
<1>1. CASE Subscribing(todo)
  <2>1. PICK tier \in PaidTiers, interval \in Intervals :
            todo = <<[do |-> "subscribe", tier |-> tier, interval |-> interval]>>
    BY <1>1 DEF Subscribing
  <2>2. \A s \in DOMAIN subscription : ~Live(s)
    BY <1>1 DEF Subscribing
  <2>3. Stands([do |-> "subscribe", tier |-> tier, interval |-> interval], "none", subscription, day)
    BY <2>2, LiveIs DEF Stands
  <2> QED BY <2>1, <2>3, FineOne
<1>2. CASE Changing(todo)
  <2>1. PICK s \in Active, tier \in Tiers, interval \in Intervals : Has(todo) = GrantsOf(s, tier, interval)
    BY <1>2 DEF Changing
  <2>2. \A st \in Has(todo) : st.do \in {"plan", "tier", "cap"}
    BY <2>1 DEF GrantsOf, SetsPlan, SetsTier, SetsCap
  <2> QED BY <2>2 DEF Fine, Stands, Alone
<1>3. CASE Charging(todo)
  <2>1. PICK s \in Active, purpose \in {"TIER_CHANGE", "SEAT_CHANGE"}, target \in Plan, seats \in Nat,
             immediate \in BOOLEAN : todo = <<Inserts(s, purpose, target, seats, immediate)>>
    BY <1>3 DEF Charging
  <2>2. Stands(Inserts(s, purpose, target, seats, immediate), "none", subscription, day)
    BY DEF Stands, Inserts, NewPayment
  <2> QED BY <2>1, <2>2, FineOne
<1>4. CASE Scheduling(todo)
  <2>1. PICK s \in Active, tier \in Tiers : todo = <<Schedules(s, tier, "same")>>
    BY <1>4 DEF Scheduling
  <2>2. Stands(Schedules(s, tier, "same"), "none", subscription, day)
    BY LiveIs DEF Stands, Schedules
  <2> QED BY <2>1, <2>2, FineOne
<1>5. CASE Seating(todo)
  <2>1. PICK s \in Active, seats \in Nat :
            todo \in {<<SetsSeats(s, seats)>>, <<SchedulesSeats(s, seats)>>}
    BY <1>5 DEF Seating
  <2>2. /\ Stands(SetsSeats(s, seats), "none", subscription, day)
        /\ Stands(SchedulesSeats(s, seats), "none", subscription, day)
    BY DEF Stands, SetsSeats, SchedulesSeats
  <2> QED BY <2>1, <2>2, FineOne
<1>6. CASE Promoting(todo)
  <2>1. Stands([do |-> "promote"], "none", subscription, day)
    BY DEF Stands
  <2> QED BY <1>6, <2>1, FineOne DEF Promoting
<1>7. CASE Resyncing(todo)
  <2>1. PICK s \in Active : todo = <<SetsCap(subscription[s].tier, subscription[s].interval)>>
    BY <1>7 DEF Resyncing
  <2>2. Stands(SetsCap(subscription[s].tier, subscription[s].interval), "none", subscription, day)
    BY DEF Stands, SetsCap
  <2> QED BY <2>1, <2>2, FineOne
<1> QED BY <1>1, <1>2, <1>3, <1>4, <1>5, <1>6, <1>7 DEF Plain

LEMMA OverrideFine ==
    ASSUME TypesInv, NEW todo, Overriding(todo)
    PROVE  Fine(todo)
<1>1. ASSUME NEW s \in DOMAIN subscription, todo = <<SetsStatus(s, "CANCELLED", {})>>
      PROVE  Fine(todo)
  <2>1. Stands(SetsStatus(s, "CANCELLED", {}), "none", subscription, day)
    BY DEF Stands, SetsStatus, Lives
  <2> QED BY <1>1, <2>1, FineOne
<1>2. ASSUME NEW tier \in Tiers, Has(todo) = {SetsTier(tier), SetsCap(tier, "MONTHLY")}
      PROVE  Fine(todo)
  <2>1. \A st \in Has(todo) : st.do \in {"tier", "cap"}
    BY <1>2 DEF SetsTier, SetsCap
  <2> QED BY <2>1 DEF Fine, Stands, Alone
<1> QED BY <1>1, <1>2 DEF Overriding

\* A refund of a payment whose subscription is not over restores a status that was not over.
LEMMA RefundFine ==
    ASSUME TypesInv, RowsStand, NEW p \in DOMAIN payment, NEW todo, NEW how, Refunding(p, todo, how),
           "ended" \notin how
    PROVE  Fine(todo)
<1> DEFINE s == payment[p].of
<1>1. PICK snap \in payment[p].from : todo = RefundTodo(p, s, snap)
  BY DEF Refunding
<1>2. s \in DOMAIN subscription /\ snap \in Snapshot /\ snap.status \in Lives
  BY PaymentIs DEF RowsStand
<1>3. Live(s)
  BY DEF Refunding, Ended
<1>4. PICK status \in Standings :
          status = IF payment[p].purpose = "INITIAL" THEN "CANCELLED" ELSE snap.status
  BY <1>2 DEF Lives, Standings
<1> HIDE DEF s
<1> DEFINE x == SetsStatus(s, status, {snap.end})
<1>5. Has(todo) = {SetsPlan(s, snap.tier, snap.interval), x, SetsTier(snap.tenantTier),
                   SetsCap(snap.tenantTier, snap.interval), SetsPayment(p, "REFUNDED")}
                  \cup (IF payment[p].purpose = "SEAT_CHANGE" THEN {SetsSeats(s, snap.seats)} ELSE {})
  BY <1>1, <1>2, <1>4, RefundHas
<1>6. \A st \in Has(todo) : st = x \/ st.do \in {"plan", "tier", "cap", "payment", "seats"}
  BY <1>5 DEF SetsPlan, SetsTier, SetsCap, SetsPayment, SetsSeats
<1>7. x.do = "status" /\ Stands(x, "none", subscription, day)
  BY <1>2, <1>3, <1>4, LiveIs DEF SetsStatus, Stands, Lives
<1> HIDE DEF x
<1>8. \A st \in Has(todo) : Stands(st, "none", subscription, day)
  BY <1>6, <1>7 DEF Stands, Alone
<1> QED BY <1>6, <1>7, <1>8 DEF Fine, Alone

\* A review of a payment whose subscription is not over activates or schedules.
LEMMA AppliesFine ==
    ASSUME TypesInv, NEW p \in DOMAIN payment, NEW s \in DOMAIN subscription, Live(s)
    PROVE  /\ \E x : \A st \in Has(Applies(p, s)) : st.do \in {"schedule", "status"} => st = x
           /\ \A st \in Has(Applies(p, s)) :
                 /\ Stands(st, "none", subscription, day)
                 /\ st.do \notin Alone \cup {"snapshot"}
<1>1. CASE payment[p].purpose = "SEAT_CHANGE"
  <2>1. Has(Applies(p, s)) = {SetsSeats(s, payment[p].seats), Stamps(p)}
    BY <1>1, SeatsHas DEF Applies
  <2>2. \A st \in Has(Applies(p, s)) : st.do \in {"seats", "stamp"}
    BY <2>1 DEF SetsSeats, Stamps
  <2> QED BY <2>2 DEF Stands, Alone
<1>2. CASE payment[p].purpose = "TIER_CHANGE"
  <2>1. PICK to : to = payment[p].target
    OBVIOUS
  <2>2. Applies(p, s) = AppliesTier(p, s)
    BY <1>2 DEF Applies
  <2>3. CASE Has(AppliesTier(p, s)) =
                 {SetsPlan(s, to.tier, to.interval), SetsStatus(s, "ACTIVE", {PeriodEnd(day, to.interval)}),
                  SetsTier(to.tier), SetsCap(to.tier, to.interval), Stamps(p)}
    <3> DEFINE x == SetsStatus(s, "ACTIVE", {PeriodEnd(day, to.interval)})
    <3>1. \A st \in Has(Applies(p, s)) : st = x \/ st.do \in {"plan", "tier", "cap", "stamp"}
      BY <2>2, <2>3 DEF SetsPlan, SetsTier, SetsCap, Stamps
    <3>2. x.do = "status" /\ Stands(x, "none", subscription, day)
      BY LiveIs DEF SetsStatus, Stands, Lives
    <3> HIDE DEF x
    <3>3. \A st \in Has(Applies(p, s)) : /\ Stands(st, "none", subscription, day)
                                         /\ st.do \notin Alone \cup {"snapshot"}
      BY <3>1, <3>2 DEF Stands, Alone
    <3> QED BY <3>1, <3>3
  <2>4. CASE Has(AppliesTier(p, s)) = {Schedules(s, to.tier, to.interval)}
    <3> DEFINE x == Schedules(s, to.tier, to.interval)
    <3>1. x.do = "schedule" /\ Stands(x, "none", subscription, day)
      BY LiveIs DEF Schedules, Stands
    <3>2. Has(Applies(p, s)) = {x}
      BY <2>2, <2>4
    <3> HIDE DEF x
    <3> QED BY <3>1, <3>2 DEF Alone
  <2>5. ASSUME NEW interval \in Intervals,
               Has(AppliesTier(p, s)) = {SetsPlan(s, to.tier, interval), SetsTier(to.tier),
                                         SetsCap(to.tier, interval), Stamps(p)}
        PROVE  /\ \E x : \A st \in Has(Applies(p, s)) : st.do \in {"schedule", "status"} => st = x
               /\ \A st \in Has(Applies(p, s)) :
                     /\ Stands(st, "none", subscription, day)
                     /\ st.do \notin Alone \cup {"snapshot"}
    <3>1. \A st \in Has(Applies(p, s)) : st.do \in {"plan", "tier", "cap", "stamp"}
      BY <2>2, <2>5 DEF SetsPlan, SetsTier, SetsCap, Stamps
    <3> QED BY <3>1 DEF Stands, Alone
  <2> QED BY <2>1, <2>3, <2>4, <2>5, TierHas
<1>3. CASE payment[p].purpose = "RENEWAL"
  <2> DEFINE x == SetsStatus(s, "ACTIVE", {PeriodEnd(subscription[s].end, subscription[s].interval)})
  <2>1. Has(Applies(p, s)) = {x, Stamps(p), SetsCap(subscription[s].tier, subscription[s].interval)}
    BY <1>3, RenewalHas DEF Applies
  <2>2. \A st \in Has(Applies(p, s)) : st = x \/ st.do \in {"cap", "stamp"}
    BY <2>1 DEF SetsCap, Stamps
  <2>3. x.do = "status" /\ Stands(x, "none", subscription, day)
    BY LiveIs DEF SetsStatus, Stands, Lives
  <2> HIDE DEF x
  <2>4. \A st \in Has(Applies(p, s)) : /\ Stands(st, "none", subscription, day)
                                       /\ st.do \notin Alone \cup {"snapshot"}
    BY <2>2, <2>3 DEF Stands, Alone
  <2> QED BY <2>2, <2>4
<1>4. CASE payment[p].purpose \notin {"SEAT_CHANGE", "TIER_CHANGE", "RENEWAL"}
  <2> DEFINE x == SetsStatus(s, "ACTIVE", {PeriodEnd(day, subscription[s].interval)})
  <2>0. Applies(p, s) = AppliesInitial(p, s)
    BY <1>4 DEF Applies
  <2>1. Has(Applies(p, s)) = {x, Stamps(p), SetsTier(subscription[s].tier),
                              SetsCap(subscription[s].tier, subscription[s].interval)}
                             \cup (IF tenant.pastDue THEN {SetsPastDue(FALSE)} ELSE {})
    BY <2>0, InitialHas
  <2>2. \A st \in Has(Applies(p, s)) : st = x \/ st.do \in {"tier", "cap", "stamp", "pastDue"}
    BY <2>1 DEF SetsTier, SetsCap, Stamps, SetsPastDue
  <2>3. x.do = "status" /\ Stands(x, "none", subscription, day)
    BY LiveIs DEF SetsStatus, Stands, Lives
  <2> HIDE DEF x
  <2>4. \A st \in Has(Applies(p, s)) : /\ Stands(st, "none", subscription, day)
                                       /\ st.do \notin Alone \cup {"snapshot"}
    BY <2>2, <2>3 DEF Stands, Alone
  <2> QED BY <2>2, <2>4
<1> QED BY <1>1, <1>2, <1>3, <1>4

LEMMA VerifyFine ==
    ASSUME TypesInv, NEW p \in DOMAIN payment, NEW todo, NEW how, Verifying(p, todo, how),
           "ended" \notin how
    PROVE  Fine(todo)
<1>1. PICK s \in DOMAIN subscription : s = payment[p].of
  BY PaymentIs
<1>2. Live(s)
  BY <1>1 DEF Verifying, Ended
<1> DEFINE snapshot == Snapshots(p, SnapshotOf(s))
<1>3. Has(todo) = {snapshot} \cup Has(Applies(p, s))
  BY <1>1 DEF Verifying
<1>4. snapshot.do = "snapshot" /\ snapshot.from.status = subscription[s].status
  BY SnapshotIs DEF Snapshots
<1>5. Stands(snapshot, "none", subscription, day)
  BY <1>2, <1>4, LiveIs DEF Stands
<1> HIDE DEF snapshot
<1>6. PICK x : \A st \in Has(Applies(p, s)) : st.do \in {"schedule", "status"} => st = x
  BY <1>2, AppliesFine
<1>7. \A st \in Has(Applies(p, s)) :
          /\ Stands(st, "none", subscription, day)
          /\ st.do \notin Alone \cup {"snapshot"}
  BY <1>2, AppliesFine
<1> QED BY <1>3, <1>4, <1>5, <1>6, <1>7 DEF Fine, Alone

LEMMA DecisionFine ==
    ASSUME TypesInv, RowsStand, NEW todo, NEW how, Decision(todo, how), "ended" \notin how
    PROVE  Fine(todo)
<1>1. CASE Plain(todo) \/ Overriding(todo)
  BY <1>1, PlainFine, OverrideFine
<1>2. ASSUME NEW p \in DOMAIN payment, Reporting(p, todo, how) PROVE Fine(todo)
  <2>1. Stands(SetsPayment(p, "REPORTED"), "none", subscription, day)
    BY DEF SetsPayment, Stands
  <2> QED BY <1>2, <2>1, FineOne DEF Reporting
<1>3. ASSUME NEW p \in DOMAIN payment, Cancelling(p, todo, how) PROVE Fine(todo)
  <2>1. Stands([do |-> "cancel", p |-> p, status |-> "CANCELLED"], "none", subscription, day)
    BY DEF Stands
  <2> QED BY <1>3, <2>1, FineOne DEF Cancelling
<1>4. ASSUME NEW p \in DOMAIN payment, Linking(p, todo, how) PROVE Fine(todo)
  <2>1. PICK kind \in {"sandbox", "linked"} : todo = <<[do |-> "invoice", p |-> p, kind |-> kind]>>
    BY <1>4 DEF Linking
  <2>2. Stands([do |-> "invoice", p |-> p, kind |-> kind], "none", subscription, day)
    BY DEF Stands
  <2> QED BY <2>1, <2>2, FineOne
<1>5. ASSUME NEW p \in DOMAIN payment, Refunding(p, todo, how) PROVE Fine(todo)
  BY <1>5, RefundFine
<1>6. ASSUME NEW p \in DOMAIN payment, Verifying(p, todo, how) PROVE Fine(todo)
  BY <1>6, VerifyFine
<1>7. ASSUME NEW p \in DOMAIN payment, Rejecting(p, todo, how) PROVE Fine(todo)
  BY <1>7, HasNone DEF Rejecting, Fine
<1> QED BY <1>1, <1>2, <1>3, <1>4, <1>5, <1>6, <1>7 DEF Decision

\* What a decision has that its call writes alone.
LEMMA AppliesKinds ==
    ASSUME TypesInv, NEW p \in DOMAIN payment, NEW s \in DOMAIN subscription
    PROVE  \A st \in Has(Applies(p, s)) :
              st.do \in {"seats", "stamp", "plan", "status", "tier", "cap", "schedule", "pastDue"}
<1>1. CASE payment[p].purpose = "SEAT_CHANGE"
  <2>1. Has(Applies(p, s)) = {SetsSeats(s, payment[p].seats), Stamps(p)}
    BY <1>1, SeatsHas DEF Applies
  <2> QED BY <2>1 DEF SetsSeats, Stamps
<1>2. CASE payment[p].purpose = "TIER_CHANGE"
  <2>1. PICK to : to = payment[p].target
    OBVIOUS
  <2>2. Applies(p, s) = AppliesTier(p, s)
    BY <1>2 DEF Applies
  <2>3. CASE Has(AppliesTier(p, s)) =
                 {SetsPlan(s, to.tier, to.interval), SetsStatus(s, "ACTIVE", {PeriodEnd(day, to.interval)}),
                  SetsTier(to.tier), SetsCap(to.tier, to.interval), Stamps(p)}
    BY <2>2, <2>3 DEF SetsPlan, SetsStatus, SetsTier, SetsCap, Stamps
  <2>4. CASE Has(AppliesTier(p, s)) = {Schedules(s, to.tier, to.interval)}
    BY <2>2, <2>4 DEF Schedules
  <2>5. ASSUME NEW interval \in Intervals,
               Has(AppliesTier(p, s)) = {SetsPlan(s, to.tier, interval), SetsTier(to.tier),
                                         SetsCap(to.tier, interval), Stamps(p)}
        PROVE  \A st \in Has(Applies(p, s)) : st.do \in {"plan", "tier", "cap", "stamp"}
    BY <2>2, <2>5 DEF SetsPlan, SetsTier, SetsCap, Stamps
  <2> QED BY <2>1, <2>3, <2>4, <2>5, TierHas
<1>3. CASE payment[p].purpose = "RENEWAL"
  <2>1. Has(Applies(p, s)) =
            {SetsStatus(s, "ACTIVE", {PeriodEnd(subscription[s].end, subscription[s].interval)}),
             Stamps(p), SetsCap(subscription[s].tier, subscription[s].interval)}
    BY <1>3, RenewalHas DEF Applies
  <2> QED BY <2>1 DEF SetsStatus, Stamps, SetsCap
<1>4. CASE payment[p].purpose \notin {"SEAT_CHANGE", "TIER_CHANGE", "RENEWAL"}
  <2>1. Applies(p, s) = AppliesInitial(p, s)
    BY <1>4 DEF Applies
  <2>2. Has(Applies(p, s)) = {SetsStatus(s, "ACTIVE", {PeriodEnd(day, subscription[s].interval)}),
                              Stamps(p), SetsTier(subscription[s].tier),
                              SetsCap(subscription[s].tier, subscription[s].interval)}
                             \cup (IF tenant.pastDue THEN {SetsPastDue(FALSE)} ELSE {})
    BY <2>1, InitialHas
  <2> QED BY <2>2 DEF SetsStatus, Stamps, SetsTier, SetsCap, SetsPastDue
<1> QED BY <1>1, <1>2, <1>3, <1>4

LEMMA DecisionAlone ==
    ASSUME TypesInv, NEW todo, NEW how, Decision(todo, how)
    PROVE  \A st \in Has(todo) : st.do \in Alone => todo = <<st>>
<1>1. CASE Plain(todo) \/ Overriding(todo)
  BY <1>1, PlainFine, OverrideFine DEF Fine
<1>2. ASSUME NEW x, todo = <<x>> PROVE \A st \in Has(todo) : todo = <<st>>
  BY <1>2, HasOne
<1>3. ASSUME NEW p \in DOMAIN payment, Reporting(p, todo, how) \/ Cancelling(p, todo, how)
                                       \/ Linking(p, todo, how)
      PROVE  \A st \in Has(todo) : todo = <<st>>
  BY <1>2, <1>3 DEF Reporting, Cancelling, Linking
<1>4. ASSUME NEW p \in DOMAIN payment, Refunding(p, todo, how)
      PROVE  \A st \in Has(todo) : st.do \notin Alone
  <2> DEFINE s == payment[p].of
  <2>1. PICK snap \in payment[p].from : todo = RefundTodo(p, s, snap)
    BY <1>4 DEF Refunding
  <2>2. s \in DOMAIN subscription /\ snap \in Snapshot
    BY PaymentIs
  <2> HIDE DEF s
  <2>3. Has(todo) =
            {SetsPlan(s, snap.tier, snap.interval),
             SetsStatus(s, IF payment[p].purpose = "INITIAL" THEN "CANCELLED" ELSE snap.status,
                        {snap.end}),
             SetsTier(snap.tenantTier), SetsCap(snap.tenantTier, snap.interval),
             SetsPayment(p, "REFUNDED")}
            \cup (IF payment[p].purpose = "SEAT_CHANGE" THEN {SetsSeats(s, snap.seats)} ELSE {})
    BY <2>1, <2>2, RefundHas
  <2>4. \A st \in Has(todo) : st.do \in {"plan", "status", "tier", "cap", "payment", "seats"}
    BY <2>3 DEF SetsPlan, SetsStatus, SetsTier, SetsCap, SetsPayment, SetsSeats
  <2> QED BY <2>4 DEF Alone
<1>5. ASSUME NEW p \in DOMAIN payment, Verifying(p, todo, how)
      PROVE  \A st \in Has(todo) : st.do \notin Alone
  <2>1. PICK s \in DOMAIN subscription : s = payment[p].of
    BY PaymentIs
  <2>2. Has(todo) = {Snapshots(p, SnapshotOf(s))} \cup Has(Applies(p, s))
    BY <1>5, <2>1 DEF Verifying
  <2>3. \A st \in Has(Applies(p, s)) :
            st.do \in {"seats", "stamp", "plan", "status", "tier", "cap", "schedule", "pastDue"}
    BY AppliesKinds
  <2>4. Snapshots(p, SnapshotOf(s)).do = "snapshot"
    BY DEF Snapshots
  <2> QED BY <2>2, <2>3, <2>4 DEF Alone
<1>6. ASSUME NEW p \in DOMAIN payment, Rejecting(p, todo, how)
      PROVE  \A st \in Has(todo) : st.do \notin Alone
  BY <1>6, HasNone DEF Rejecting
<1> QED BY <1>1, <1>3, <1>4, <1>5, <1>6 DEF Decision

\* A decision keeps the standing of the rows.
LEMMA StandingDecided ==
    ASSUME StandingInv, TypesInv', NEW c \in Callers, NEW todo, NEW how, Decided(c, todo, how)
    PROVE  StandingInv'
<1>0. TypesInv
  BY DEF StandingInv
<1>1. /\ \A d \in Callers \ {c} : call'[d] = call[d]
      /\ call'[c].phase = "none" /\ call'[c].todo = todo /\ call'[c].later = NoRows
      /\ day' = day /\ strayed' = strayed \cup how \cup Crosses(c, call'[c])
  BY <1>0, DecidesMoves DEF Decided
<1>2. OneDecider'
  BY <1>1, OneDeciderStays DEF StandingInv
<1>3. Decision(todo, how) /\ UNCHANGED <<tenant, subscription>>
  BY DEF Decided
<1>4. PhaseOK(call'[c])
  BY <1>0, <1>1, <1>3, NoRowsIs, DecisionAlone DEF PhaseOK
<1>5. \A d \in Callers : PhaseOK(call'[d])
  BY <1>1, <1>4 DEF StandingInv
<1>6. ASSUME Straight' PROVE RowsStand' /\ \A d \in Callers : CallStands(call'[d], subscription', day')
  <2>1. Straight /\ "ended" \notin how
    BY <1>1, <1>6 DEF Straight
  <2>2. RowsStand /\ \A d \in Callers : CallStands(call[d], subscription, day)
    BY <2>1 DEF StandingInv
  <2>3. Fine(todo)
    BY <1>0, <1>3, <2>1, <2>2, DecisionFine
  <2>4. All(call'[c]) = Has(todo)
    BY <1>1, NoRowsIs DEF All
  <2>5. CallStands(call'[c], subscription, day)
    BY <1>1, <2>3, <2>4 DEF Fine, CallStands, OneStatus, LandsFirst, Landed
  <2>6. DOMAIN payment' = DOMAIN payment /\ \A p \in DOMAIN payment : payment'[p].from = payment[p].from
    BY <1>0, <1>3, DecisionPayments
  <2>7. RowsStand'
    BY <1>1, <1>3, <2>2, <2>6 DEF RowsStand, Live
  <2> QED BY <1>1, <1>3, <2>2, <2>5, <2>7
<1> QED BY <1>2, <1>5, <1>6 DEF StandingInv

\* What the job has to write of the rows that are due, in each phase.
LEMMA SeatsDue ==
    ASSUME TypesInv, NEW s \in DOMAIN DueSeats
    PROVE  \A st \in Has(DueSeats[s]) : st.do = "seats"
<1>1. s \in DOMAIN subscription /\ subscription[s].pendingSeats # {} /\ DueSeats[s] = LandsSeats(s)
  BY ActiveIs DEF DueSeats, ForEach
<1>2. PICK seats \in Nat : Has(LandsSeats(s)) = {SetsSeats(s, seats)}
  BY <1>1, SeatsLandedHas
<1> QED BY <1>1, <1>2 DEF SetsSeats

LEMMA TiersDue ==
    ASSUME TypesInv, NEW s \in DOMAIN DueTiers
    PROVE  /\ s \in Active
           /\ \E x : /\ x \in Has(DueTiers[s]) /\ x.do = "plan" /\ x.s = s
           /\ \E x : /\ x.s = s /\ x.status \in {"ACTIVE", "CANCELLED"}
                     /\ \A st \in Has(DueTiers[s]) :
                           /\ st.do = "status" => st = x
                           /\ st.do \in {"plan", "status", "tier", "cap", "seats", "stamp"}
<1>1. /\ s \in Active /\ s \in DOMAIN subscription /\ subscription[s].pending # {}
      /\ DueTiers[s] = LandsPlan(s)
  BY ActiveIs DEF DueTiers, ForEach
<1>2. CASE Has(LandsPlan(s)) =
                {SetsPlan(s, Free, "same"), SetsStatus(s, "CANCELLED", {}), SetsTier(Free),
                 SetsCap(Free, "MONTHLY")}
                \cup (IF subscription[s].seats > 0 THEN {SetsSeats(s, 0)} ELSE {})
  <2> DEFINE x == SetsStatus(s, "CANCELLED", {})
             y == SetsPlan(s, Free, "same")
  <2>1. x.s = s /\ x.status = "CANCELLED" /\ x.do = "status" /\ y.do = "plan" /\ y.s = s
    BY DEF SetsStatus, SetsPlan
  <2>2. \A st \in Has(DueTiers[s]) : st = x \/ st.do \in {"plan", "tier", "cap", "seats"}
    BY <1>1, <1>2 DEF SetsPlan, SetsTier, SetsCap, SetsSeats
  <2>3. y \in Has(DueTiers[s])
    BY <1>1, <1>2
  <2> HIDE DEF x, y
  <2> QED BY <1>1, <2>1, <2>2, <2>3
<1>3. ASSUME NEW to \in Plan, NEW interval \in Intervals, NEW P \in SUBSET (DOMAIN payment),
             Has(LandsPlan(s)) = {SetsPlan(s, to.tier, to.interval),
                                  SetsStatus(s, "ACTIVE", {PeriodEnd(subscription[s].end, interval)}),
                                  SetsTier(to.tier), SetsCap(to.tier, interval)}
                                 \cup Has(StampsFunding(P))
      PROVE  /\ s \in Active
             /\ \E x : /\ x \in Has(DueTiers[s]) /\ x.do = "plan" /\ x.s = s
             /\ \E x : /\ x.s = s /\ x.status \in {"ACTIVE", "CANCELLED"}
                       /\ \A st \in Has(DueTiers[s]) :
                             /\ st.do = "status" => st = x
                             /\ st.do \in {"plan", "status", "tier", "cap", "seats", "stamp"}
  <2> DEFINE x == SetsStatus(s, "ACTIVE", {PeriodEnd(subscription[s].end, interval)})
             y == SetsPlan(s, to.tier, to.interval)
  <2>1. x.s = s /\ x.status = "ACTIVE" /\ x.do = "status" /\ y.do = "plan" /\ y.s = s
    BY DEF SetsStatus, SetsPlan
  <2>2. \A st \in Has(StampsFunding(P)) : st.do = "stamp"
    BY StampsSound
  <2>3. \A st \in Has(DueTiers[s]) : st = x \/ st.do \in {"plan", "tier", "cap", "stamp"}
    BY <1>1, <1>3, <2>2 DEF SetsPlan, SetsTier, SetsCap
  <2>4. y \in Has(DueTiers[s])
    BY <1>1, <1>3
  <2> HIDE DEF x, y
  <2> QED BY <1>1, <2>1, <2>3, <2>4
<1> QED BY <1>1, <1>2, <1>3, PlanLandedHas

LEMMA RemindersDue ==
    ASSUME TypesInv, NEW s \in DOMAIN DueReminders
    PROVE  \A st \in Has(DueReminders[s]) : st.do = "charge" /\ st.row.from = {}
<1>1. s \in DOMAIN subscription /\ DueReminders[s] = OpensRenewal(s)
  BY ActiveIs DEF DueReminders, ForEach
<1>2. Has(OpensRenewal(s)) = {Inserts(s, "RENEWAL", Same, 0, FALSE)}
  BY <1>1, RenewalOpensHas
<1> QED BY <1>1, <1>2 DEF Inserts, NewPayment

LEMMA ExpiriesDue ==
    ASSUME TypesInv, NEW s \in DOMAIN DueExpiries
    PROVE  /\ s \in Active /\ subscription[s].end + GraceDays <= day
           /\ \E x : /\ x.s = s /\ x.status = "EXPIRED" /\ x.end = {}
                     /\ \A st \in Has(DueExpiries[s]) :
                           /\ st.do = "status" => st = x
                           /\ st.do \in {"tier", "cap", "seats", "status", "pastDue"}
<1>1. /\ s \in Active /\ s \in DOMAIN subscription /\ subscription[s].end + GraceDays <= day
      /\ DueExpiries[s] = Expires(s)
  BY ActiveIs DEF DueExpiries, ForEach
<1> DEFINE x == SetsStatus(s, "EXPIRED", {})
<1>2. Has(Expires(s)) = {SetsTier(Free), SetsCap(Free, "MONTHLY"), x, SetsPastDue(TRUE)}
                        \cup (IF subscription[s].seats > 0 THEN {SetsSeats(s, 0)} ELSE {})
  BY <1>1, ExpiresHas
<1>3. \A st \in Has(DueExpiries[s]) : st = x \/ st.do \in {"tier", "cap", "seats", "pastDue"}
  BY <1>1, <1>2 DEF SetsTier, SetsCap, SetsPastDue, SetsSeats
<1>4. x.s = s /\ x.status = "EXPIRED" /\ x.end = {} /\ x.do = "status"
  BY DEF SetsStatus
<1> HIDE DEF x
<1> QED BY <1>1, <1>3, <1>4

\* The phase that the job enters writes what it may.
LEMMA JobPhaseOK ==
    ASSUME TypesInv, NEW c \in Callers, NEW phase, NEW rows, JobEnters(c, phase, rows)
    PROVE  PhaseOK(call'[c])
<1>1. DOMAIN rows \subseteq Nat /\ Enters(c, phase, rows)
  BY JobRows DEF JobEnters
<1>2. /\ call'[c] = NextRow(phase, rows) /\ call'[c].phase = phase
      /\ All(call'[c]) = UNION {Has(rows[s]) : s \in DOMAIN rows}
  BY <1>1, EntersMoves
<1>3. CASE phase = "seats" /\ rows = DueSeats
  BY <1>2, <1>3, SeatsDue DEF PhaseOK
<1>4. CASE phase = "tiers" /\ rows = DueTiers
  <2>1. ASSUME NEW s \in DOMAIN DueTiers, NEW st \in Has(DueTiers[s])
        PROVE  /\ st.do \in {"plan", "status", "tier", "cap", "seats", "stamp"}
               /\ st.do = "status" => st.status \in {"ACTIVE", "CANCELLED"}
    BY TiersDue
  <2> QED BY <1>2, <1>4, <2>1 DEF PhaseOK
<1>5. CASE phase = "reminders" /\ rows = DueReminders
  BY <1>2, <1>5, RemindersDue DEF PhaseOK
<1>6. CASE phase = "expiry" /\ rows = DueExpiries
  <2>1. ASSUME NEW s \in DOMAIN DueExpiries, NEW st \in Has(DueExpiries[s])
        PROVE  /\ st.do \in {"tier", "cap", "seats", "status", "pastDue"}
               /\ st.do = "status" => st.status = "EXPIRED" /\ st.end = {}
    BY ExpiriesDue
  <2> QED BY <1>2, <1>6, <2>1 DEF PhaseOK
<1>7. CASE phase = "none" /\ rows = NoRows
  <2>1. call'[c].todo = <<>> /\ call'[c].later = NoRows
    BY <1>1, <1>2, <1>7, NextRowIs, NoRowsIs
  <2> QED BY <1>2, <1>7, <2>1, NoRowsIs, HasNone DEF PhaseOK
<1> QED BY <1>3, <1>4, <1>5, <1>6, <1>7 DEF JobEnters

\* A phase writes what stands: scheduled changes land before the reminders, and what is
\* expired has none.
LEMMA JobStands ==
    ASSUME StandingInv, Straight, NEW c \in Callers, NEW phase, NEW rows, JobEnters(c, phase, rows)
    PROVE  CallStands(call'[c], subscription, day)
<1>0. TypesInv /\ CallStands(call[c], subscription, day) /\ RowsStand
  BY DEF StandingInv
<1>1. DOMAIN rows \subseteq Nat /\ Enters(c, phase, rows) /\ call[c].todo = <<>>
  BY <1>0, JobRows DEF JobEnters
<1>2. /\ call'[c] = NextRow(phase, rows) /\ call'[c].phase = phase
      /\ All(call'[c]) = UNION {Has(rows[s]) : s \in DOMAIN rows}
  BY <1>0, <1>1, EntersMoves
<1>3. All(call[c]) = {}
  BY <1>0, <1>1, HasNone DEF All, TypesInv, Referring
<1>4. CASE phase = "seats" /\ rows = DueSeats
  <2>1. \A st \in All(call'[c]) : st.do = "seats"
    BY <1>0, <1>2, <1>4, SeatsDue
  <2> QED BY <1>2, <1>4, <2>1 DEF CallStands, Stands, OneStatus, LandsFirst, Landed
<1>5. CASE phase = "tiers" /\ rows = DueTiers
  <2>1. ASSUME NEW st \in All(call'[c]), st.do = "status"
        PROVE  /\ st.status \in {"ACTIVE", "CANCELLED"} /\ st.s \in DOMAIN DueTiers /\ st.s \in Active
               /\ st \in Has(DueTiers[st.s])
    <3>1. PICK s \in DOMAIN DueTiers : st \in Has(DueTiers[s])
      BY <1>2, <1>5
    <3> QED BY <1>0, <2>1, <3>1, TiersDue
  <2>2. \A st \in All(call'[c]) : st.do \in {"plan", "status", "tier", "cap", "seats", "stamp"}
    <3>1. ASSUME NEW s \in DOMAIN DueTiers, NEW st \in Has(DueTiers[s])
          PROVE  st.do \in {"plan", "status", "tier", "cap", "seats", "stamp"}
      BY <1>0, TiersDue
    <3> QED BY <1>2, <1>5, <3>1
  <2>3. \A st \in All(call'[c]) : Stands(st, "tiers", subscription, day)
    BY <2>1, <2>2, LiveIs DEF Stands, Lives
  <2>4. ASSUME NEW st \in All(call'[c]), NEW su \in All(call'[c]), st.do \in {"schedule", "status"},
               su.do = "status", st.s = su.s
        PROVE  st = su
    <3>1. st.do = "status"
      BY <2>2, <2>4
    <3>2. st.s \in DOMAIN DueTiers /\ st \in Has(DueTiers[st.s]) /\ su \in Has(DueTiers[st.s])
      BY <2>1, <2>4, <3>1
    <3> QED BY <1>0, <2>4, <3>1, <3>2, TiersDue
  <2>5. \A s \in DOMAIN DueTiers : \E st \in All(call'[c]) : st.do = "plan" /\ st.s = s
    <3> TAKE s \in DOMAIN DueTiers
    <3>1. PICK x : x \in Has(DueTiers[s]) /\ x.do = "plan" /\ x.s = s
      BY <1>0, TiersDue
    <3> QED BY <1>2, <1>5, <3>1
  <2>6. \A s \in DOMAIN subscription :
            subscription[s].status = "ACTIVE" /\ subscription[s].end <= day
            /\ subscription[s].pending # {} => s \in DOMAIN DueTiers
    BY DEF DueTiers, ForEach, Over, Active
  <2>7. LandsFirst(call'[c], subscription, day)
    BY <2>1, <2>5, <2>6 DEF LandsFirst
  <2> QED BY <1>2, <1>5, <2>3, <2>4, <2>7 DEF CallStands, OneStatus, Landed
<1>6. CASE phase = "reminders" /\ rows = DueReminders /\ call[c].phase = "tiers"
  <2>1. \A st \in All(call'[c]) : st.do = "charge" /\ st.row.from = {}
    BY <1>0, <1>2, <1>6, RemindersDue
  <2>2. \A s \in DOMAIN subscription :
            subscription[s].status = "ACTIVE" /\ subscription[s].end <= day => subscription[s].pending = {}
    BY <1>0, <1>3, <1>6 DEF CallStands, LandsFirst
  <2> QED BY <1>2, <1>6, <2>1, <2>2 DEF CallStands, Stands, OneStatus, LandsFirst, Landed
<1>7. CASE phase = "expiry" /\ rows = DueExpiries /\ call[c].phase = "reminders"
  <2>1. ASSUME NEW st \in All(call'[c]), st.do = "status"
        PROVE  /\ st.status = "EXPIRED" /\ st.s \in DOMAIN DueExpiries
               /\ subscription[st.s].end + GraceDays <= day /\ st.s \in Active
               /\ st \in Has(DueExpiries[st.s])
    <3>1. PICK s \in DOMAIN DueExpiries : st \in Has(DueExpiries[s])
      BY <1>2, <1>7
    <3> QED BY <1>0, <2>1, <3>1, ExpiriesDue
  <2>2. \A st \in All(call'[c]) : st.do \in {"tier", "cap", "seats", "status", "pastDue"}
    <3>1. ASSUME NEW s \in DOMAIN DueExpiries, NEW st \in Has(DueExpiries[s])
          PROVE  st.do \in {"tier", "cap", "seats", "status", "pastDue"}
      BY <1>0, ExpiriesDue
    <3> QED BY <1>2, <1>7, <3>1
  <2>3. ASSUME NEW st \in All(call'[c]), st.do = "status" PROVE subscription[st.s].pending = {}
    <3>1. /\ st.s \in Active /\ st.s \in DOMAIN subscription
          /\ subscription[st.s].end + GraceDays <= day /\ subscription[st.s].status = "ACTIVE"
      BY <2>1, <2>3, LiveIs, ActiveIs
    <3>2. subscription[st.s].end \in Nat /\ day \in Nat
      BY <1>0, <3>1, RowIs DEF TypesInv, BillingTypeOK
    <3>3. subscription[st.s].end <= day
      BY <3>1, <3>2
    <3> QED BY <1>0, <1>7, <3>1, <3>3 DEF CallStands, Landed
  <2>4. \A st \in All(call'[c]) : Stands(st, "expiry", subscription, day)
    BY <2>1, <2>2, <2>3 DEF Stands, Lives
  <2>5. ASSUME NEW st \in All(call'[c]), NEW su \in All(call'[c]), st.do \in {"schedule", "status"},
               su.do = "status", st.s = su.s
        PROVE  st = su
    <3>1. st.do = "status"
      BY <2>2, <2>5
    <3>2. st.s \in DOMAIN DueExpiries /\ st \in Has(DueExpiries[st.s]) /\ su \in Has(DueExpiries[st.s])
      BY <2>1, <2>5, <3>1
    <3> QED BY <1>0, <2>5, <3>1, <3>2, ExpiriesDue
  <2> QED BY <1>2, <1>7, <2>4, <2>5 DEF CallStands, OneStatus, LandsFirst, Landed
<1>8. CASE phase = "none" /\ rows = NoRows
  <2>1. All(call'[c]) = {}
    BY <1>2, <1>8, NoRowsIs
  <2> QED BY <1>2, <1>8, <2>1 DEF CallStands, OneStatus, LandsFirst, Landed
<1> QED BY <1>4, <1>5, <1>6, <1>7, <1>8 DEF JobEnters

LEMMA StandingJob ==
    ASSUME StandingInv, TypesInv', NEW c \in Callers, RunsJob(c) \/ GoesOnJob(c)
    PROVE  StandingInv'
<1>0. TypesInv
  BY DEF StandingInv
<1>1. PICK phase, rows : JobEnters(c, phase, rows)
  BY <1>0, JobStep
<1>2. /\ \A d \in Callers \ {c} : call'[d] = call[d]
      /\ UNCHANGED <<day, tenant, subscription, payment>>
      /\ strayed' = strayed \cup Crosses(c, call'[c])
  <2>1. DOMAIN rows \subseteq Nat /\ Enters(c, phase, rows)
    BY <1>0, <1>1, JobRows DEF JobEnters
  <2> QED BY <1>0, <2>1, EntersMoves
<1>3. OneDecider'
  BY <1>2, OneDeciderStays DEF StandingInv
<1>4. \A d \in Callers : PhaseOK(call'[d])
  BY <1>0, <1>1, <1>2, JobPhaseOK DEF StandingInv
<1>5. ASSUME Straight' PROVE RowsStand' /\ \A d \in Callers : CallStands(call'[d], subscription', day')
  <2>1. Straight
    BY <1>2, <1>5 DEF Straight
  <2>2. RowsStand /\ \A d \in Callers : CallStands(call[d], subscription, day)
    BY <2>1 DEF StandingInv
  <2>3. CallStands(call'[c], subscription, day)
    BY <1>1, <2>1, JobStands
  <2>4. RowsStand'
    BY <1>2, <2>2 DEF RowsStand, Live
  <2> QED BY <1>2, <2>2, <2>3, <2>4
<1> QED BY <1>3, <1>4, <1>5 DEF StandingInv

\* A statement that is not written alone leaves the rest of what its call has to write; one
\* that is, what it makes its call write next.
LEMMA ContinuesAll ==
    ASSUME TypesInv, NEW c \in Callers, PhaseOK(call[c]), Continues(c), NEW st, st = Head(call[c].todo)
    PROVE  /\ st \in Statement /\ st \in All(call[c]) /\ Writes(st)
           /\ Refers(st, DOMAIN subscription, DOMAIN payment)
           /\ UNCHANGED <<day, calls, mishaps, strayed>>
           /\ \A d \in Callers \ {c} : call'[d] = call[d]
           /\ call'[c].phase = call[c].phase
           /\ st.do \notin Alone => /\ All(call'[c]) \subseteq All(call[c])
                                    /\ All(call[c]) \ {st} \subseteq All(call'[c])
                                    /\ \A su \in All(call[c]) : su.do \notin Alone
           /\ st.do \in Alone => /\ All(call'[c]) = Has(Then(st)) /\ call[c].phase = "none"
                                 /\ call'[c].todo = Then(st)
<1>1. /\ st \in Statement /\ st \in All(call[c]) /\ st \in Has(call[c].todo) /\ Writes(st)
      /\ Refers(st, DOMAIN subscription, DOMAIN payment)
      /\ UNCHANGED <<day, calls, mishaps, strayed>>
      /\ \A d \in Callers \ {c} : call'[d] = call[d]
      /\ call'[c].phase = call[c].phase
      /\ Has(call[c].todo) = {st} \cup Has(Tail(call[c].todo))
      /\ Then(st) \in Seq(Statement) /\ Tail(call[c].todo) \in Seq(Statement)
      /\ Then(st) \o Tail(call[c].todo) # <<>> => call'[c].todo = Then(st) \o Tail(call[c].todo)
      /\ Then(st) \o Tail(call[c].todo) = <<>> => call'[c] = NextRow(call[c].phase, call[c].later)
      /\ All(call'[c]) = Has(Then(st)) \cup Has(Tail(call[c].todo))
                         \cup UNION {Has(call[c].later[s]) : s \in DOMAIN call[c].later}
  BY ContinuesMoves
<1>2. CASE st.do \notin Alone
  <2>1. Has(Then(st)) = {}
    BY <1>2, ThenNothing, HasNone DEF Alone
  <2>2. All(call'[c]) \subseteq All(call[c]) /\ All(call[c]) \ {st} \subseteq All(call'[c])
    BY <1>1, <2>1 DEF All
  <2>3. ASSUME NEW su \in All(call[c]), su.do \in Alone PROVE FALSE
    <3>0. call[c].phase \in Phases
      BY DEF TypesInv, BillingTypeOK
    <3>1. call[c].phase = "none"
      BY <2>3, <3>0 DEF PhaseOK, Phases, Alone
    <3>2. su \in Has(call[c].todo)
      BY <2>3, <3>1 DEF PhaseOK, All
    <3>3. call[c].todo = <<su>>
      BY <2>3, <3>1, <3>2 DEF PhaseOK
    <3>4. st = su
      BY <3>3
    <3> QED BY <1>2, <2>3, <3>4
  <2> QED BY <1>1, <1>2, <2>2, <2>3
<1>3. CASE st.do \in Alone
  <2>1. call[c].phase = "none"
    <3>1. call[c].phase \in Phases /\ st \in All(call[c])
      BY <1>1 DEF TypesInv, BillingTypeOK
    <3> QED BY <1>3, <3>1 DEF PhaseOK, Phases, Alone
  <2>2. call[c].todo = <<st>> /\ DOMAIN call[c].later = {}
    BY <1>1, <1>3, <2>1 DEF PhaseOK
  <2>3. Tail(call[c].todo) = <<>>
    BY <2>2
  <2>4. Then(st) \o Tail(call[c].todo) = Then(st)
    <3>1. PICK a : a = Then(st)
      OBVIOUS
    <3>2. a \o <<>> = a
      BY <1>1, <3>1
    <3> QED BY <2>3, <3>1, <3>2
  <2>5. call'[c].todo = Then(st)
    <3>1. CASE Then(st) # <<>>
      BY <1>1, <2>4, <3>1
    <3>2. CASE Then(st) = <<>>
      <4>0. PICK phase, rows : phase = call[c].phase /\ rows = call[c].later
        OBVIOUS
      <4>1. call'[c] = NextRow(phase, rows) /\ DOMAIN rows = {}
        BY <1>1, <2>2, <2>4, <3>2, <4>0
      <4>2. call'[c].todo = <<>>
        BY <4>1, NextRowIs
      <4> QED BY <3>2, <4>2
    <3> QED BY <3>1, <3>2
  <2>6. All(call'[c]) = Has(Then(st))
    BY <1>1, <2>2, <2>3, HasNone
  <2> QED BY <1>1, <1>3, <2>1, <2>5, <2>6
<1> QED BY <1>2, <1>3

\* What it is that a call writes next.
LEMMA ThenHas ==
    ASSUME TypesInv, NEW st \in Statement, Refers(st, DOMAIN subscription, DOMAIN payment), Writes(st)
    PROVE  /\ st.do = "subscribe" =>
                  Has(Then(st)) = {Inserts(Len(subscription'), "INITIAL", Same, 0, FALSE)}
           /\ st.do = "cancel" =>
                 \/ Has(Then(st)) = {}
                 \/ /\ Has(Then(st)) = {SetsStatus(payment[st.p].of, "CANCELLED", {})}
                    /\ subscription[payment[st.p].of].status = "PENDING_PAYMENT"
           /\ st.do = "promote" =>
                 \/ Has(Then(st)) = {}
                 \/ \E s \in Active, P \in SUBSET (DOMAIN payment) : Has(Then(st)) =
                       {SetsStatus(s, "ACTIVE", {PeriodEnd(day, subscription[s].interval)}),
                        SetsCap(subscription[s].tier, subscription[s].interval)}
                       \cup Has(StampsFunding(P))
<1>1. CASE st.do = "subscribe"
  BY <1>1, ThenSubscribe, HasOne
<1>2. CASE st.do = "cancel"
  <2>1. CASE Then(st) = <<>>
    BY <1>2, <2>1, HasNone
  <2>2. CASE Then(st) = <<SetsStatus(payment[st.p].of, "CANCELLED", {})>>
             /\ subscription[payment[st.p].of].status = "PENDING_PAYMENT"
    <3>1. PICK x : x = SetsStatus(payment[st.p].of, "CANCELLED", {})
      OBVIOUS
    <3>2. Has(<<x>>) = {x}
      BY HasOne
    <3>3. Has(Then(st)) = {SetsStatus(payment[st.p].of, "CANCELLED", {})}
      BY <2>2, <3>1, <3>2
    <3> QED BY <1>2, <2>2, <3>3
  <2> QED BY <1>2, <2>1, <2>2, ThenCancel
<1>3. CASE st.do = "promote"
  <2>1. Then(st) = <<>> => Has(Then(st)) = {}
    BY HasNone
  <2>2. ASSUME NEW s \in Active, NEW P \in SUBSET (DOMAIN payment),
               Then(st) = <<SetsStatus(s, "ACTIVE", {PeriodEnd(day, subscription[s].interval)})>>
                          \o StampsFunding(P)
                          \o <<SetsCap(subscription[s].tier, subscription[s].interval)>>
        PROVE  Has(Then(st)) = {SetsStatus(s, "ACTIVE", {PeriodEnd(day, subscription[s].interval)}),
                                SetsCap(subscription[s].tier, subscription[s].interval)}
                               \cup Has(StampsFunding(P))
    BY <2>2, PromoteSound
  <2>3. \/ Then(st) = <<>>
        \/ \E s \in Active, P \in SUBSET (DOMAIN payment) :
              Then(st) = <<SetsStatus(s, "ACTIVE", {PeriodEnd(day, subscription[s].interval)})>>
                         \o StampsFunding(P)
                         \o <<SetsCap(subscription[s].tier, subscription[s].interval)>>
    <3>1. BillingTypeOK
      BY DEF TypesInv
    <3> QED BY <1>3, <3>1, ThenPromote
  <2>4. \/ Has(Then(st)) = {}
        \/ \E s \in Active, P \in SUBSET (DOMAIN payment) : Has(Then(st)) =
              {SetsStatus(s, "ACTIVE", {PeriodEnd(day, subscription[s].interval)}),
               SetsCap(subscription[s].tier, subscription[s].interval)}
              \cup Has(StampsFunding(P))
    <3>1. ASSUME Then(st) # <<>>
          PROVE  \E s \in Active, P \in SUBSET (DOMAIN payment) : Has(Then(st)) =
                    {SetsStatus(s, "ACTIVE", {PeriodEnd(day, subscription[s].interval)}),
                     SetsCap(subscription[s].tier, subscription[s].interval)}
                    \cup Has(StampsFunding(P))
      <4>1. PICK s \in Active, P \in SUBSET (DOMAIN payment) :
                Then(st) = <<SetsStatus(s, "ACTIVE", {PeriodEnd(day, subscription[s].interval)})>>
                           \o StampsFunding(P)
                           \o <<SetsCap(subscription[s].tier, subscription[s].interval)>>
        BY <2>3, <3>1
      <4> QED BY <2>2, <4>1
    <3> QED BY <2>1, <3>1
  <2>5. st.do # "subscribe" /\ st.do # "cancel"
    BY <1>3
  <2> QED BY <2>4, <2>5
<1>4. CASE st.do # "subscribe" /\ st.do # "cancel" /\ st.do # "promote"
  BY <1>4
<1> QED BY <1>1, <1>2, <1>3, <1>4

\* A call that decides still has decided.
LEMMA ContinuesDecider ==
    ASSUME TypesInv, NEW c \in Callers, PhaseOK(call[c]), Continues(c), Deciding(call'[c])
    PROVE  Deciding(call[c])
<1>1. PICK st : st = Head(call[c].todo)
  OBVIOUS
<1>2. /\ st \in All(call[c]) /\ call'[c].phase = call[c].phase
      /\ st.do \notin Alone => All(call'[c]) \subseteq All(call[c])
  BY <1>1, ContinuesAll
<1>3. SUFFICES ASSUME ~Deciding(call[c]) PROVE FALSE
  OBVIOUS
<1>4. call[c].phase = "none" /\ \A su \in All(call[c]) : su.do \in QuietKinds
  BY <1>3, QuietCall
<1>5. \A su \in All(call'[c]) : su.do \in QuietKinds
  BY <1>2, <1>4 DEF Alone, QuietKinds
<1>6. \A su \in Has(call'[c].todo) : su.do \in QuietKinds
  BY <1>5 DEF All
<1> QED BY <1>2, <1>4, <1>6, DecidingIs

\* What has been written of the rows, and what the call that wrote it has left.
Left(now, next, st) ==
    /\ next.phase = now.phase /\ All(next) \subseteq All(now) /\ All(now) \ {st} \subseteq All(next)
    /\ \A su \in All(now) : su.do # "subscribe"

RowsReferred(now, rows) == \A su \in All(now) : su.do \in RowOf => su.s \in DOMAIN rows

\* Statements that change neither the standing, the end nor the plans of a row.
LEMMA StandsAfterOther ==
    ASSUME NEW now, NEW next, NEW st, NEW rows, NEW rows1, NEW today,
           Left(now, next, st), RowsReferred(now, rows), CallStands(now, rows, today),
           st.do # "plan", DOMAIN rows1 = DOMAIN rows,
           \A k \in DOMAIN rows : /\ rows1[k].status = rows[k].status /\ rows1[k].end = rows[k].end
                                  /\ rows1[k].pending = rows[k].pending
    PROVE  CallStands(next, rows1, today)
<1>1. ASSUME NEW su \in All(next) PROVE Stands(su, next.phase, rows1, today)
  <2>1. Stands(su, now.phase, rows, today) /\ su.do # "subscribe" /\ next.phase = now.phase
    BY DEF CallStands, Left
  <2>2. su.do \in RowOf => su.s \in DOMAIN rows
    BY DEF RowsReferred, Left
  <2> QED BY <2>1, <2>2 DEF Stands, RowOf
<1>2. OneStatus(next)
  BY DEF Left, CallStands, OneStatus
<1>3. LandsFirst(next, rows1, today)
  <2>1. CASE now.phase = "tiers"
    <3>1. \A x \in All(now) : x.do = "plan" => x \in All(next)
      BY DEF Left
    <3>2. \A su \in All(next) : su.do = "status" => su \in All(now) /\ su.s \in DOMAIN rows
      BY DEF Left, RowsReferred, RowOf
    <3>3. \A s \in DOMAIN rows :
             rows[s].status = "ACTIVE" /\ rows[s].end <= today /\ rows[s].pending # {} =>
                 \E x \in All(now) : x.do = "plan" /\ x.s = s
      BY <2>1 DEF CallStands, LandsFirst
    <3>4. \A su \in All(now) : su.do = "status" =>
              rows[su.s].pending = {} \/ \E x \in All(now) : x.do = "plan" /\ x.s = su.s
      BY <2>1 DEF CallStands, LandsFirst
    <3> QED BY <3>1, <3>2, <3>3, <3>4 DEF LandsFirst
  <2>2. CASE now.phase # "tiers"
    BY <2>2 DEF Left, LandsFirst
  <2> QED BY <2>1, <2>2
<1>4. Landed(next, rows1, today)
  BY DEF CallStands, Landed, Left
<1> QED BY <1>1, <1>2, <1>3, <1>4 DEF CallStands

\* A plan that is written clears what was scheduled.
LEMMA StandsAfterPlan ==
    ASSUME NEW now, NEW next, NEW st, NEW rows, NEW rows1, NEW today,
           Left(now, next, st), RowsReferred(now, rows), CallStands(now, rows, today),
           DOMAIN rows1 = DOMAIN rows, rows1[st.s].pending = {},
           \A k \in DOMAIN rows : rows1[k].status = rows[k].status /\ rows1[k].end = rows[k].end,
           \A k \in DOMAIN rows \ {st.s} : rows1[k].pending = rows[k].pending
    PROVE  CallStands(next, rows1, today)
<1>1. ASSUME NEW su \in All(next) PROVE Stands(su, next.phase, rows1, today)
  <2>1. Stands(su, now.phase, rows, today) /\ su.do # "subscribe" /\ next.phase = now.phase
    BY DEF CallStands, Left
  <2>2. su.do \in RowOf => su.s \in DOMAIN rows
    BY DEF RowsReferred, Left
  <2> QED BY <2>1, <2>2 DEF Stands, RowOf
<1>2. OneStatus(next)
  BY DEF Left, CallStands, OneStatus
<1>3. LandsFirst(next, rows1, today)
  <2>1. CASE now.phase = "tiers"
    <3>1. \A x \in All(now) : x.do = "plan" /\ x.s # st.s => x \in All(next)
      BY DEF Left
    <3>2. \A su \in All(next) : su.do = "status" => su \in All(now) /\ su.s \in DOMAIN rows
      BY DEF Left, RowsReferred, RowOf
    <3>3. \A s \in DOMAIN rows :
             rows[s].status = "ACTIVE" /\ rows[s].end <= today /\ rows[s].pending # {} =>
                 \E x \in All(now) : x.do = "plan" /\ x.s = s
      BY <2>1 DEF CallStands, LandsFirst
    <3>4. \A su \in All(now) : su.do = "status" =>
              rows[su.s].pending = {} \/ \E x \in All(now) : x.do = "plan" /\ x.s = su.s
      BY <2>1 DEF CallStands, LandsFirst
    <3>5. \A s \in DOMAIN rows1 :
             rows1[s].status = "ACTIVE" /\ rows1[s].end <= today /\ rows1[s].pending # {} =>
                 \E x \in All(next) : x.do = "plan" /\ x.s = s
      BY <3>1, <3>3
    <3>6. \A su \in All(next) : su.do = "status" =>
              rows1[su.s].pending = {} \/ \E x \in All(next) : x.do = "plan" /\ x.s = su.s
      BY <3>1, <3>2, <3>4
    <3> QED BY <3>5, <3>6 DEF LandsFirst
  <2>2. CASE now.phase # "tiers"
    BY <2>2 DEF Left, LandsFirst
  <2> QED BY <2>1, <2>2
<1>4. Landed(next, rows1, today)
  BY DEF CallStands, Landed, Left
<1> QED BY <1>1, <1>2, <1>3, <1>4 DEF CallStands

\* A change is scheduled in a call of its own, and outside the job.
LEMMA StandsAfterSchedule ==
    ASSUME NEW now, NEW next, NEW st, NEW rows, NEW rows1, NEW today,
           Left(now, next, st), RowsReferred(now, rows), CallStands(now, rows, today),
           now.phase = "none", DOMAIN rows1 = DOMAIN rows,
           \A k \in DOMAIN rows : rows1[k].status = rows[k].status
    PROVE  CallStands(next, rows1, today)
<1>1. ASSUME NEW su \in All(next) PROVE Stands(su, next.phase, rows1, today)
  <2>1. Stands(su, now.phase, rows, today) /\ su.do # "subscribe" /\ next.phase = now.phase
    BY DEF CallStands, Left
  <2>2. su.do \in RowOf => su.s \in DOMAIN rows
    BY DEF RowsReferred, Left
  <2> QED BY <2>1, <2>2 DEF Stands, RowOf
<1> QED BY <1>1 DEF Left, CallStands, OneStatus, LandsFirst, Landed

\* A status is written once of a row, and where a change lands, beside the plan.
LEMMA StandsAfterStatus ==
    ASSUME NEW now, NEW next, NEW st, NEW rows, NEW rows1, NEW today,
           Left(now, next, st), RowsReferred(now, rows), CallStands(now, rows, today),
           st \in All(now), st.do = "status", now.phase # "reminders",
           now.phase = "expiry" => rows1[st.s].end = rows[st.s].end,
           DOMAIN rows1 = DOMAIN rows, rows1[st.s].status = st.status,
           \A k \in DOMAIN rows : rows1[k].pending = rows[k].pending,
           \A k \in DOMAIN rows \ {st.s} :
              rows1[k].status = rows[k].status /\ rows1[k].end = rows[k].end
    PROVE  CallStands(next, rows1, today)
<1>1. ASSUME NEW su \in All(next) PROVE Stands(su, next.phase, rows1, today)
  <2>1. /\ Stands(su, now.phase, rows, today) /\ su.do # "subscribe" /\ next.phase = now.phase
        /\ su \in All(now)
    BY DEF CallStands, Left
  <2>2. su.do \in RowOf => su.s \in DOMAIN rows
    BY <2>1 DEF RowsReferred
  <2>3. su.do \in {"schedule", "status"} /\ su.s = st.s => su = st
    BY <2>1 DEF CallStands, OneStatus
  <2>4. CASE su = st
    BY <2>1, <2>2, <2>4 DEF Stands, RowOf
  <2>5. CASE su # st
    BY <2>1, <2>2, <2>3, <2>5 DEF Stands, RowOf
  <2> QED BY <2>4, <2>5
<1>2. OneStatus(next)
  BY DEF Left, CallStands, OneStatus
<1>3. LandsFirst(next, rows1, today)
  <2>1. CASE now.phase = "tiers"
    <3>1. \A x \in All(now) : x.do = "plan" => x \in All(next)
      BY DEF Left
    <3>2. \A su \in All(next) : su.do = "status" => su \in All(now) /\ su.s \in DOMAIN rows
      BY DEF Left, RowsReferred, RowOf
    <3>3. \A s \in DOMAIN rows :
             rows[s].status = "ACTIVE" /\ rows[s].end <= today /\ rows[s].pending # {} =>
                 \E x \in All(now) : x.do = "plan" /\ x.s = s
      BY <2>1 DEF CallStands, LandsFirst
    <3>4. \A su \in All(now) : su.do = "status" =>
              rows[su.s].pending = {} \/ \E x \in All(now) : x.do = "plan" /\ x.s = su.s
      BY <2>1 DEF CallStands, LandsFirst
    <3>5. ASSUME NEW s \in DOMAIN rows1, rows1[s].status = "ACTIVE", rows1[s].end <= today,
                 rows1[s].pending # {}
          PROVE  \E x \in All(next) : x.do = "plan" /\ x.s = s
      <4>1. CASE s = st.s
        BY <3>1, <3>4, <3>5, <4>1
      <4>2. CASE s # st.s
        BY <3>1, <3>3, <3>5, <4>2
      <4> QED BY <4>1, <4>2
    <3>6. \A su \in All(next) : su.do = "status" =>
              rows1[su.s].pending = {} \/ \E x \in All(next) : x.do = "plan" /\ x.s = su.s
      BY <3>1, <3>2, <3>4
    <3> QED BY <3>5, <3>6 DEF LandsFirst
  <2>2. CASE now.phase # "tiers"
    BY <2>2 DEF Left, LandsFirst
  <2> QED BY <2>1, <2>2
<1>4. Landed(next, rows1, today)
  BY DEF Landed, Left
<1> QED BY <1>1, <1>2, <1>3, <1>4 DEF CallStands

\* The rows stand after a statement that is not written alone.
LEMMA OtherContinues ==
    ASSUME StandingInv, Straight, NEW c \in Callers, Continues(c), NEW st, st = Head(call[c].todo),
           st.do \notin Alone
    PROVE  RowsStand' /\ CallStands(call'[c], subscription', day)
<1>0. /\ TypesInv /\ PhaseOK(call[c]) /\ RowsStand /\ CallStands(call[c], subscription, day)
      /\ subscription \in Seq(Subscription) /\ payment \in Seq(Payment) /\ tenant \in Tenant
  BY DEF StandingInv, TypesInv, BillingTypeOK
<1>1. /\ st \in Statement /\ st \in All(call[c]) /\ Writes(st)
      /\ Refers(st, DOMAIN subscription, DOMAIN payment) /\ day' = day
      /\ Left(call[c], call'[c], st)
  BY <1>0, ContinuesAll DEF Left, Alone
<1>2. RowsReferred(call[c], subscription)
  BY <1>0 DEF RowsReferred, TypesInv, Referring, Refers
<1>3. Stands(st, call[c].phase, subscription, day) /\ st.do \in Kinds
  BY <1>0, <1>1, StatementParts DEF CallStands
<1>4. ASSUME subscription' = subscription, st.do # "plan"
      PROVE  CallStands(call'[c], subscription', day)
  BY <1>0, <1>1, <1>2, <1>4, StandsAfterOther
<1>5. CASE st.do \in PaymentOf
  <2>1. /\ DOMAIN payment' = DOMAIN payment /\ UNCHANGED <<tenant, subscription>>
        /\ \A k \in DOMAIN payment \ {st.p} : payment'[k] = payment[k]
        /\ payment'[st.p].from = IF st.do = "snapshot" THEN {st.from} ELSE payment[st.p].from
    BY <1>0, <1>1, <1>5, WritesOfPayment DEF Refers
  <2>2. st.do # "plan"
    BY <1>5 DEF PaymentOf
  <2>3. \A p \in DOMAIN payment' : \A from \in payment'[p].from : from.status \in Lives
    BY <1>0, <1>3, <2>1 DEF RowsStand, Stands
  <2> QED BY <1>0, <1>1, <1>4, <2>1, <2>2, <2>3 DEF RowsStand, Live
<1>6. CASE st.do = "charge"
  <2>1. payment' = Append(payment, st.row) /\ UNCHANGED <<tenant, subscription>> /\ st.row \in Payment
    BY <1>0, <1>1, <1>6, WritesCharge
  <2>2. /\ DOMAIN payment' = DOMAIN payment \cup {Len(payment) + 1}
        /\ payment'[Len(payment) + 1] = st.row
        /\ \A k \in DOMAIN payment : payment'[k] = payment[k]
    BY <1>0, <2>1, PutsLast
  <2>3. \A p \in DOMAIN payment' : \A from \in payment'[p].from : from.status \in Lives
    BY <1>0, <1>3, <1>6, <2>2 DEF RowsStand, Stands
  <2> QED BY <1>0, <1>1, <1>4, <1>6, <2>1, <2>3 DEF RowsStand, Live
<1>7. CASE st.do \in {"tier", "cap", "pastDue"}
  <2>1. UNCHANGED <<subscription, payment>>
    BY <1>0, <1>1, <1>7, WritesTenant
  <2> QED BY <1>0, <1>1, <1>4, <1>7, <2>1 DEF RowsStand, Live
<1>8. CASE st.do = "plan"
  <2>1. /\ st.s \in DOMAIN subscription /\ DOMAIN subscription' = DOMAIN subscription
        /\ UNCHANGED <<tenant, payment>>
        /\ \A k \in DOMAIN subscription \ {st.s} : subscription'[k] = subscription[k]
        /\ subscription'[st.s].pending = {}
        /\ subscription'[st.s].status = subscription[st.s].status
        /\ subscription'[st.s].end = subscription[st.s].end
    BY <1>0, <1>1, <1>8, WritesPlan DEF Refers, RowOf
  <2>2. CallStands(call'[c], subscription', day)
    BY <1>0, <1>1, <1>2, <2>1, StandsAfterPlan
  <2> QED BY <1>0, <1>1, <2>1, <2>2 DEF RowsStand, Live
<1>9. CASE st.do \in {"seats", "scheduleSeats"}
  <2>1. /\ st.s \in DOMAIN subscription /\ DOMAIN subscription' = DOMAIN subscription
        /\ UNCHANGED <<tenant, payment>>
        /\ \A k \in DOMAIN subscription \ {st.s} : subscription'[k] = subscription[k]
        /\ subscription'[st.s].pending = subscription[st.s].pending
        /\ subscription'[st.s].status = subscription[st.s].status
        /\ subscription'[st.s].end = subscription[st.s].end
    BY <1>0, <1>1, <1>9, WritesSeats DEF Refers, RowOf
  <2>2. CallStands(call'[c], subscription', day)
    BY <1>0, <1>1, <1>2, <1>9, <2>1, StandsAfterOther
  <2> QED BY <1>0, <1>1, <2>1, <2>2 DEF RowsStand, Live
<1>10. CASE st.do = "schedule"
  <2>1. /\ st.s \in DOMAIN subscription /\ DOMAIN subscription' = DOMAIN subscription
        /\ UNCHANGED <<tenant, payment>>
        /\ \A k \in DOMAIN subscription \ {st.s} : subscription'[k] = subscription[k]
        /\ subscription'[st.s].status = subscription[st.s].status
        /\ subscription'[st.s].end = subscription[st.s].end
    BY <1>0, <1>1, <1>10, WritesSchedule DEF Refers, RowOf
  <2>2. call[c].phase = "none"
    <3>1. call[c].phase \in Phases
      BY <1>0 DEF TypesInv, BillingTypeOK
    <3> QED BY <1>0, <1>1, <1>10, <3>1 DEF PhaseOK, Phases
  <2>3. CallStands(call'[c], subscription', day)
    BY <1>0, <1>1, <1>2, <2>1, <2>2, StandsAfterSchedule
  <2>4. subscription[st.s].status \in Lives
    BY <1>3, <1>10 DEF Stands
  <2> QED BY <1>0, <1>1, <2>1, <2>3, <2>4 DEF RowsStand, Live, Lives
<1>11. CASE st.do = "status"
  <2>1. /\ st.s \in DOMAIN subscription /\ DOMAIN subscription' = DOMAIN subscription
        /\ UNCHANGED <<tenant, payment>>
        /\ \A k \in DOMAIN subscription \ {st.s} : subscription'[k] = subscription[k]
        /\ subscription'[st.s].status = st.status
        /\ subscription'[st.s].end = IF st.end = {} THEN subscription[st.s].end ELSE Oldest(st.end)
        /\ subscription'[st.s].pending = subscription[st.s].pending
    BY <1>0, <1>1, <1>11, WritesStatus DEF Refers, RowOf
  <2>2. /\ call[c].phase # "reminders"
        /\ call[c].phase = "expiry" => st.status = "EXPIRED" /\ st.end = {}
    BY <1>0, <1>1, <1>11 DEF PhaseOK
  <2>3. CallStands(call'[c], subscription', day)
    BY <1>0, <1>1, <1>2, <1>11, <2>1, <2>2, StandsAfterStatus
  <2>4. /\ st.status \in Lives => subscription[st.s].status \in Lives
        /\ call[c].phase # "expiry" => st.status # "EXPIRED"
        /\ call[c].phase = "expiry" => /\ subscription[st.s].end + GraceDays <= day
                                       /\ subscription[st.s].pending = {}
    BY <1>3, <1>11 DEF Stands
  <2>5. \A s, t \in DOMAIN subscription' : subscription'[s].status \in Lives
                                           /\ subscription'[t].status \in Lives => s = t
    <3>1. \A s \in DOMAIN subscription : subscription'[s].status \in Lives
                                         => subscription[s].status \in Lives
      BY <2>1, <2>4
    <3> QED BY <1>0, <2>1, <3>1, LiveIs DEF RowsStand
  <2>6. \A s \in DOMAIN subscription' : subscription'[s].status = "EXPIRED" =>
            subscription'[s].end + GraceDays <= day /\ subscription'[s].pending = {}
    BY <1>0, <2>1, <2>2, <2>4 DEF RowsStand
  <2> QED BY <1>0, <1>1, <2>1, <2>3, <2>5, <2>6 DEF RowsStand, Live, Lives
<1> QED BY <1>3, <1>5, <1>6, <1>7, <1>8, <1>9, <1>10, <1>11 DEF Kinds, RowOf, Alone

\* The rows stand after a statement that is written alone, and what its call writes because
\* of it stands.
LEMMA AloneContinues ==
    ASSUME StandingInv, Straight, NEW c \in Callers, Continues(c), NEW st, st = Head(call[c].todo),
           st.do \in Alone
    PROVE  RowsStand' /\ CallStands(call'[c], subscription', day)
<1>0. /\ TypesInv /\ PhaseOK(call[c]) /\ RowsStand /\ CallStands(call[c], subscription, day)
      /\ subscription \in Seq(Subscription) /\ payment \in Seq(Payment) /\ tenant \in Tenant
  BY DEF StandingInv, TypesInv, BillingTypeOK
<1>1. /\ st \in Statement /\ st \in All(call[c]) /\ Writes(st)
      /\ Refers(st, DOMAIN subscription, DOMAIN payment) /\ day' = day
      /\ call'[c].phase = "none" /\ All(call'[c]) = Has(Then(st))
  BY <1>0, ContinuesAll
<1>2. Stands(st, call[c].phase, subscription, day)
  BY <1>0, <1>1 DEF CallStands
<1>3. ASSUME NEW rows, \A su \in Has(Then(st)) : Stands(su, "none", rows, day),
             \A su, sv \in Has(Then(st)) :
                su.do \in {"schedule", "status"} /\ sv.do \in {"schedule", "status"} => su = sv
      PROVE  CallStands(call'[c], rows, day)
  BY <1>1, <1>3 DEF CallStands, OneStatus, LandsFirst, Landed
<1>4. CASE st.do = "subscribe"
  <2> DEFINE new == NewSubscription(st.tier, st.interval)
             x == Inserts(Len(subscription'), "INITIAL", Same, 0, FALSE)
  <2>1. /\ subscription' = Append(subscription, new) /\ new \in Subscription
        /\ UNCHANGED <<tenant, payment>>
    BY <1>0, <1>1, <1>4, WritesSubscribe
  <2>2. new.status = "PENDING_PAYMENT" /\ x.do = "charge" /\ x.row.from = {}
    BY DEF NewSubscription, Inserts, NewPayment
  <2>3. Has(Then(st)) = {x}
    BY <1>0, <1>1, <1>4, ThenHas
  <2> HIDE DEF new, x
  <2>4. /\ DOMAIN subscription' = DOMAIN subscription \cup {Len(subscription) + 1}
        /\ subscription'[Len(subscription) + 1] = new
        /\ \A k \in DOMAIN subscription : subscription'[k] = subscription[k]
    BY <1>0, <2>1, PutsLast
  <2>5. \A k \in DOMAIN subscription : subscription[k].status \notin Lives
    BY <1>2, <1>4 DEF Stands
  <2>6. RowsStand'
    <3>1. \A s, t \in DOMAIN subscription' : subscription'[s].status \in Lives
                                             /\ subscription'[t].status \in Lives => s = t
      BY <2>4, <2>5
    <3>2. \A s \in DOMAIN subscription' : subscription'[s].status = "EXPIRED" =>
              subscription'[s].end + GraceDays <= day /\ subscription'[s].pending = {}
      BY <1>0, <2>2, <2>4 DEF RowsStand
    <3> QED BY <1>0, <1>1, <2>1, <3>1, <3>2 DEF RowsStand, Live, Lives
  <2>7. Stands(x, "none", subscription', day)
    BY <2>2 DEF Stands
  <2> QED BY <1>3, <2>2, <2>3, <2>6, <2>7
<1>5. CASE st.do = "cancel"
  <2>1. /\ DOMAIN payment' = DOMAIN payment /\ UNCHANGED <<tenant, subscription>>
        /\ \A k \in DOMAIN payment \ {st.p} : payment'[k] = payment[k]
        /\ payment'[st.p].from = payment[st.p].from
    BY <1>0, <1>1, <1>5, WritesOfPayment DEF Refers, PaymentOf
  <2>2. RowsStand'
    BY <1>0, <1>1, <2>1 DEF RowsStand, Live
  <2>3. PICK x : x.do = "status" /\ x.status = "CANCELLED" /\ Has(Then(st)) \subseteq {x}
    <3> DEFINE y == SetsStatus(payment[st.p].of, "CANCELLED", {})
    <3>1. Has(Then(st)) \subseteq {y}
      BY <1>0, <1>1, <1>5, ThenHas
    <3>2. y.do = "status" /\ y.status = "CANCELLED"
      BY DEF SetsStatus
    <3> HIDE DEF y
    <3> QED BY <3>1, <3>2
  <2>4. Stands(x, "none", subscription, day)
    BY <2>3 DEF Stands, Lives
  <2> QED BY <1>3, <2>1, <2>2, <2>3, <2>4
<1>6. CASE st.do = "promote"
  <2>1. UNCHANGED <<subscription, payment>>
    BY <1>0, <1>1, <1>6, WritesTenant
  <2>2. RowsStand'
    BY <1>0, <1>1, <2>1 DEF RowsStand, Live
  <2>3. CASE Has(Then(st)) = {}
    BY <1>3, <2>1, <2>2, <2>3
  <2>4. ASSUME NEW s \in Active, NEW P \in SUBSET (DOMAIN payment),
               Has(Then(st)) = {SetsStatus(s, "ACTIVE", {PeriodEnd(day, subscription[s].interval)}),
                                SetsCap(subscription[s].tier, subscription[s].interval)}
                               \cup Has(StampsFunding(P))
        PROVE  CallStands(call'[c], subscription, day)
    <3> DEFINE x == SetsStatus(s, "ACTIVE", {PeriodEnd(day, subscription[s].interval)})
    <3>1. x.do = "status" /\ x.status = "ACTIVE" /\ x.s = s
      BY DEF SetsStatus
    <3>2. \A su \in Has(StampsFunding(P)) : su.do = "stamp"
      BY <1>0, StampsSound
    <3>3. \A su \in Has(Then(st)) : su = x \/ su.do \in {"cap", "stamp"}
      BY <2>4, <3>2 DEF SetsCap
    <3> HIDE DEF x
    <3>4. Stands(x, "none", subscription, day)
      BY <3>1, LiveIs DEF Stands, Lives
    <3>5. \A su \in Has(Then(st)) : Stands(su, "none", subscription, day)
      BY <3>3, <3>4 DEF Stands
    <3> QED BY <1>3, <3>1, <3>3, <3>5
  <2>5. \/ Has(Then(st)) = {}
        \/ \E s \in Active, P \in SUBSET (DOMAIN payment) : Has(Then(st)) =
              {SetsStatus(s, "ACTIVE", {PeriodEnd(day, subscription[s].interval)}),
               SetsCap(subscription[s].tier, subscription[s].interval)}
              \cup Has(StampsFunding(P))
    BY <1>0, <1>1, <1>6, ThenHas
  <2> QED BY <2>1, <2>2, <2>3, <2>4, <2>5
<1> QED BY <1>4, <1>5, <1>6 DEF Alone

\* What the calls beside the one that decides have to write stands by itself.
LEMMA StandingContinues ==
    ASSUME StandingInv, TypesInv', NEW c \in Callers, Continues(c)
    PROVE  StandingInv'
<1>0. TypesInv /\ \A d \in Callers : PhaseOK(call[d])
  BY DEF StandingInv
<1>1. PICK st : st = Head(call[c].todo)
  OBVIOUS
<1>2. /\ st \in Statement /\ st \in All(call[c]) /\ Writes(st)
      /\ Refers(st, DOMAIN subscription, DOMAIN payment)
      /\ UNCHANGED <<day, calls, mishaps, strayed>>
      /\ \A d \in Callers \ {c} : call'[d] = call[d]
      /\ call'[c].phase = call[c].phase
      /\ st.do \notin Alone => All(call'[c]) \subseteq All(call[c])
                               /\ \A su \in All(call[c]) : su.do \notin Alone
      /\ st.do \in Alone => /\ All(call'[c]) = Has(Then(st)) /\ call[c].phase = "none"
                            /\ call'[c].todo = Then(st)
  BY <1>0, <1>1, ContinuesAll
<1>3. Deciding(call'[c]) => Deciding(call[c])
  BY <1>0, ContinuesDecider
<1>4. OneDecider'
  BY <1>2, <1>3 DEF StandingInv, OneDecider
<1>5. PhaseOK(call'[c])
  <2>0. call[c].phase = "none" => DOMAIN call'[c].later = {}
    <3>1. CASE Then(st) \o Tail(call[c].todo) # <<>>
      BY <1>0, <1>1, <3>1, ContinuesMoves DEF PhaseOK
    <3>2. CASE Then(st) \o Tail(call[c].todo) = <<>> /\ call[c].phase = "none"
      <4>1. PICK phase, rows : phase = call[c].phase /\ rows = call[c].later
        OBVIOUS
      <4>2. call'[c] = NextRow(phase, rows) /\ DOMAIN rows = {}
        BY <1>0, <1>1, <3>2, <4>1, ContinuesMoves DEF PhaseOK
      <4>3. call'[c].later = NoRows
        BY <4>2, NextRowIs
      <4> QED BY <4>3, NoRowsIs
    <3> QED BY <3>1, <3>2
  <2>1. CASE st.do \notin Alone
    <3>1. All(call'[c]) \subseteq All(call[c]) /\ call'[c].phase = call[c].phase
          /\ \A su \in All(call'[c]) : su.do \notin Alone
      BY <1>2, <2>1
    <3>2. \A su \in Has(call'[c].todo) : su \in All(call'[c])
      BY DEF All
    <3> QED BY <1>0, <2>0, <3>1, <3>2 DEF PhaseOK
  <2>2. CASE st.do \in Alone
    <3>1. call'[c].phase = "none" /\ DOMAIN call'[c].later = {} /\ call'[c].todo = Then(st)
      BY <1>2, <2>0, <2>2
    <3>2. \A su \in Has(Then(st)) : su.do \notin Alone
      <4>1. CASE st.do = "subscribe"
        <5>1. Has(Then(st)) = {Inserts(Len(subscription'), "INITIAL", Same, 0, FALSE)}
          BY <1>0, <1>2, <4>1, ThenHas
        <5> QED BY <5>1 DEF Inserts, Alone
      <4>2. CASE st.do = "cancel"
        <5>1. Has(Then(st)) \subseteq {SetsStatus(payment[st.p].of, "CANCELLED", {})}
          BY <1>0, <1>2, <4>2, ThenHas
        <5> QED BY <5>1 DEF SetsStatus, Alone
      <4>3. CASE st.do = "promote"
        <5>1. ASSUME NEW s \in Active, NEW P \in SUBSET (DOMAIN payment), NEW su,
                     su \in {SetsStatus(s, "ACTIVE", {PeriodEnd(day, subscription[s].interval)}),
                             SetsCap(subscription[s].tier, subscription[s].interval)}
                            \cup Has(StampsFunding(P))
              PROVE  su.do \in {"status", "cap", "stamp"}
          <6>1. \A sv \in Has(StampsFunding(P)) : sv.do = "stamp"
            BY <1>0, StampsSound
          <6> QED BY <5>1, <6>1 DEF SetsStatus, SetsCap
        <5>2. \/ Has(Then(st)) = {}
              \/ \E s \in Active, P \in SUBSET (DOMAIN payment) : Has(Then(st)) =
                    {SetsStatus(s, "ACTIVE", {PeriodEnd(day, subscription[s].interval)}),
                     SetsCap(subscription[s].tier, subscription[s].interval)}
                    \cup Has(StampsFunding(P))
          BY <1>0, <1>2, <4>3, ThenHas
        <5>3. \A su \in Has(Then(st)) : su.do \in {"status", "cap", "stamp"}
          BY <5>1, <5>2
        <5> QED BY <5>3 DEF Alone
      <4> QED BY <2>2, <4>1, <4>2, <4>3 DEF Alone
    <3> QED BY <3>1, <3>2 DEF PhaseOK
  <2> QED BY <2>1, <2>2
<1>6. \A d \in Callers : PhaseOK(call'[d])
  BY <1>0, <1>2, <1>5
<1>7. ASSUME Straight' PROVE RowsStand' /\ \A d \in Callers : CallStands(call'[d], subscription', day')
  <2>1. Straight
    BY <1>2, <1>7 DEF Straight
  <2>2. RowsStand /\ \A d \in Callers : CallStands(call[d], subscription, day)
    BY <2>1 DEF StandingInv
  <2>3. RowsStand' /\ CallStands(call'[c], subscription', day)
    BY <1>1, <2>1, OtherContinues, AloneContinues
  <2>4. ASSUME NEW d \in Callers \ {c} PROVE CallStands(call[d], subscription', day)
    <3>1. CASE Deciding(call[c])
      <4>1. ~Deciding(call[d])
        BY <2>1, <3>1 DEF Straight, StandingInv, OneDecider
      <4> QED BY <1>0, <2>2, <4>1, QuietStands
    <3>2. CASE ~Deciding(call[c])
      <4>1. st.do \in QuietKinds
        BY <1>0, <1>2, <3>2, QuietCall
      <4>2. subscription' = subscription
        BY <1>2, <4>1, WritesOfPayment, WritesCharge, <1>0
        DEF QuietKinds, PaymentOf, Refers, TypesInv, BillingTypeOK
      <4> QED BY <2>2, <4>2
    <3> QED BY <3>1, <3>2
  <2> QED BY <1>2, <2>3, <2>4
<1> QED BY <1>4, <1>6, <1>7 DEF StandingInv

LEMMA StandingDies ==
    ASSUME StandingInv, TypesInv', NEW c \in Callers, Dies(c)
    PROVE  StandingInv'
<1>1. /\ call'[c] = NoCall /\ \A d \in Callers \ {c} : call'[d] = call[d]
      /\ UNCHANGED <<day, tenant, subscription, payment>>
      /\ strayed' = strayed \cup {"interrupted"}
  BY DEF Dies, StandingInv, TypesInv
<1>2. Straight' => Straight
  BY <1>1 DEF Straight
<1>3. OneDecider'
  BY <1>1, NoCallStands DEF StandingInv, OneDecider
<1>4. \A d \in Callers : PhaseOK(call'[d])
  BY <1>1, NoCallStands DEF StandingInv
<1>5. Straight' => \A d \in Callers : CallStands(call'[d], subscription', day')
  BY <1>1, <1>2, NoCallStands DEF StandingInv
<1>6. Straight' => RowsStand'
  BY <1>1, <1>2 DEF StandingInv, RowsStand, Live
<1> QED BY <1>3, <1>4, <1>5, <1>6 DEF StandingInv

LEMMA StandingNextDay == StandingInv /\ TypesInv' /\ NextDay => StandingInv'
<1> SUFFICES ASSUME StandingInv, TypesInv', NextDay PROVE StandingInv'
  OBVIOUS
<1>1. /\ UNCHANGED <<tenant, subscription, payment, call, strayed>> /\ day' = day + 1
      /\ \A c \in Callers : call[c] = NoCall
  BY DEF NextDay, Idle
<1>2. OneDecider' /\ \A c \in Callers : PhaseOK(call'[c])
  BY <1>1 DEF StandingInv, OneDecider
<1>3. \A c \in Callers : CallStands(call'[c], subscription', day')
  BY <1>1, NoCallStands
<1>4. Straight' => RowsStand'
  <2>1. ASSUME Straight' PROVE RowsStand
    BY <1>1, <2>1 DEF Straight, StandingInv
  <2>2. \A s \in DOMAIN subscription : subscription[s].end \in Nat
    BY RowIs DEF StandingInv
  <2>3. day \in Nat
    BY DEF StandingInv, TypesInv, BillingTypeOK
  <2> QED BY <1>1, <2>1, <2>2, <2>3 DEF RowsStand, Live
<1> QED BY <1>2, <1>3, <1>4 DEF StandingInv

LEMMA StandingBegins == BillingInit => StandingInv
<1> SUFFICES ASSUME BillingInit PROVE StandingInv
  OBVIOUS
<1>0. TypesInv
  BY TypesBegin
<1>1. \A c \in Callers : call[c] = NoCall
  BY DEF BillingInit
<1>2. OneDecider /\ \A c \in Callers : PhaseOK(call[c]) /\ CallStands(call[c], subscription, day)
  BY <1>1, NoCallStands DEF OneDecider
<1>3. RowsStand
  <2>1. CASE subscription = <<>> /\ payment = <<>>
    BY <2>1 DEF RowsStand
  <2>2. ASSUME NEW tier \in PaidTiers, NEW interval \in Intervals,
               NEW row, row = [NewSubscription(tier, interval) EXCEPT
                                   !.status = "ACTIVE", !.end = PeriodEnd(0, interval)],
               NEW from, from = [tier |-> tier, interval |-> interval, seats |-> 0, end |-> 0,
                                 tenantTier |-> Free, status |-> "PENDING_PAYMENT"],
               NEW paid, paid = [NewPayment(1, "INITIAL", Same, 0, FALSE) EXCEPT
                                   !.status = "VERIFIED", !.stamped = TRUE, !.from = {from}],
               subscription = <<row>>, payment = <<paid>>
        PROVE  RowsStand
    <3>1. row.status = "ACTIVE"
      BY <2>2 DEF NewSubscription
    <3>2. paid.from = {from} /\ from.status \in Lives
      BY <2>2 DEF NewPayment, Lives
    <3>3. DOMAIN subscription = 1 .. 1 /\ subscription[1] = row
          /\ DOMAIN payment = 1 .. 1 /\ payment[1] = paid
      BY <2>2
    <3> HIDE <2>2
    <3>4. \A s \in DOMAIN subscription : s = 1
      BY <3>3
    <3>5. \A p \in DOMAIN payment : p = 1
      BY <3>3
    <3> QED BY <3>1, <3>2, <3>3, <3>4, <3>5 DEF RowsStand
  <2> QED BY <2>1, <2>2 DEF BillingInit
<1> QED BY <1>0, <1>2, <1>3 DEF StandingInv

LEMMA StandingKeeps == StandingInv /\ [BillingNext]_billingVars => StandingInv'
<1> SUFFICES ASSUME StandingInv, [BillingNext]_billingVars PROVE StandingInv'
  OBVIOUS
<1>0. TypesInv /\ TypesInv'
  BY TypesKeep DEF StandingInv
<1>1. CASE NextDay
  BY <1>0, <1>1, StandingNextDay
<1>2. ASSUME NEW c \in Callers, Requests(c) \/ Operates(c) PROVE StandingInv'
  BY <1>0, <1>2, RequestDecides, OperationDecides, StandingDecided
<1>3. ASSUME NEW c \in Callers, RunsJob(c) \/ GoesOnJob(c) PROVE StandingInv'
  BY <1>0, <1>3, StandingJob
<1>4. ASSUME NEW c \in Callers, Continues(c) PROVE StandingInv'
  BY <1>0, <1>4, StandingContinues
<1>5. ASSUME NEW c \in Callers, Dies(c) PROVE StandingInv'
  BY <1>0, <1>5, StandingDies
<1>6. CASE UNCHANGED billingVars
  BY <1>0, <1>6 DEF billingVars, StandingInv, OneDecider, Straight, RowsStand, Live
<1> QED BY <1>1, <1>2, <1>3, <1>4, <1>5, <1>6 DEF BillingNext

LEMMA StandingHolds == BillingSpec => []StandingInv
<1> QED BY StandingBegins, StandingKeeps, PTL DEF BillingSpec

\* The job expires a subscription only after its grace, and never one with a change scheduled
\* for the end of its period, unless another decision overlapped or a payment of a
\* subscription that is over was acted on.
THEOREM ExpiryIsOfUnpaid == BillingSpec => []ExpiresOnlyUnpaid
<1>1. StandingInv => ExpiresOnlyUnpaid
  BY DEF StandingInv, Straight, RowsStand, ExpiresOnlyUnpaid, Unless
<1> QED BY <1>1, StandingHolds, PTL

\* At any time a tenant has one subscription that is not over, with the same exceptions.
LEMMA LiveIsOne == BillingSpec => []OneLiveSubscription
<1>1. ASSUME StandingInv PROVE OneLiveSubscription
  <2>1. CASE ~Straight
    BY <2>1 DEF Straight, OneLiveSubscription, Unless
  <2>2. CASE Straight
    <3> DEFINE L == {s \in DOMAIN subscription : Live(s)}
    <3>1. \A s, t \in L : s = t
      BY <1>1, <2>2 DEF StandingInv, RowsStand
    <3>2. L = {} \/ \E s : L = {s}
      BY <3>1
    <3> HIDE DEF L
    <3>3. Cardinality(L) <= 1
      <4>1. CASE L = {}
        <5>1. Cardinality({}) = 0
          BY FS_EmptySet, Zenon
        <5> QED BY <4>1, <5>1
      <4>2. ASSUME NEW s, L = {s} PROVE Cardinality(L) <= 1
        <5>1. Cardinality({s}) = 1
          BY FS_Singleton, Zenon
        <5> QED BY <4>2, <5>1
      <4> QED BY <3>2, <4>1, <4>2
    <3> QED BY <3>3 DEF L, OneLiveSubscription
  <2> QED BY <2>1, <2>2
<1> QED BY <1>1, StandingHolds, PTL

-----------------------------------------------------------------------------
(* One change, and one renewal, in flight.  Calm is the case where no two  *)
(* requests overlapped, and no payment was decided on twice.               *)

Changing3 == {"TIER_CHANGE", "SEAT_CHANGE", "RENEWAL"}
Calm == strayed \cap {"asked", "again", "met"} = {}

\* Statements about the status of a payment, and those that leave it in flight.
Settling == {"payment", "cancel", "snapshot", "invoice"}
Raises(st) == \/ st.do \in {"snapshot", "invoice"}
              \/ st.do \in {"payment", "cancel"} /\ st.status \in Unsettled

\* A call has one payment to insert at a time, and the job one of each of its rows.
ChargesOne(now) ==
    /\ now.phase = "none" => \A st \in Has(now.todo) : st.do = "charge" => now.todo = <<st>>
    /\ now.phase = "reminders" =>
          /\ now.todo = <<>> \/ \E t : t \notin DOMAIN now.later /\ now.todo = OpensRenewal(t)
          /\ \A s \in DOMAIN now.later : now.later[s] = OpensRenewal(s)

OneAsker ==
    "asked" \notin strayed => \A c, d \in Callers : Asking(call[c]) /\ Asking(call[d]) => c = d

OneFlight == \A s, purpose : purpose \in Changing3 =>
                 \A p, q \in InFlight(s, purpose) : p = q

\* What is about to be inserted has none before it.
NoneBefore ==
    \A c \in Callers : \A st \in All(call[c]) :
        st.do = "charge" /\ st.row.purpose \in Changing3 => InFlight(st.row.of, st.row.purpose) = {}

\* What is about to be written of a payment is written by one call, of one in flight.
OneSettles ==
    /\ \A c, d \in Callers : \A st \in All(call[c]), su \in All(call[d]) :
          st.do \in Settling /\ su.do \in Settling /\ st.p = su.p => c = d /\ st = su
    /\ \A c \in Callers : \A st \in All(call[c]) : Raises(st) => payment[st.p].status \in Unsettled

FlightInv ==
    /\ StandingInv /\ OneAsker /\ \A c \in Callers : ChargesOne(call[c])
    /\ Calm => OneFlight /\ NoneBefore /\ OneSettles

LEMMA AskingIs ==
    ASSUME NEW now
    PROVE  Asking(now) <=> \E st \in Has(now.todo) : st.do \in {"charge", "subscribe"}
  BY DEF Asking, Has

\* Payments that are not in flight do not come to be.
LEMMA FlightsShrink ==
    ASSUME DOMAIN payment' = DOMAIN payment,
           \A p \in DOMAIN payment :
              /\ payment'[p].of = payment[p].of /\ payment'[p].purpose = payment[p].purpose
              /\ payment'[p].status \in Unsettled /\ ~payment'[p].stamped =>
                     payment[p].status \in Unsettled /\ ~payment[p].stamped
    PROVE  \A s, purpose : InFlight(s, purpose)' \subseteq InFlight(s, purpose)
  BY DEF InFlight

\* What a plain decision, or the operator's own, has to write.
LEMMA PlainKinds ==
    ASSUME NEW todo, Plain(todo) \/ Overriding(todo)
    PROVE  \A st \in Has(todo) :
              /\ st.do \notin Settling
              /\ st.do = "charge" => /\ todo = <<st>> /\ InFlight(st.row.of, st.row.purpose) = {}
                                     /\ Charging(todo)
<1>1. ASSUME NEW x, todo = <<x>> PROVE Has(todo) = {x}
  BY <1>1, HasOne
<1>2. CASE Charging(todo)
  <2>1. PICK s \in Active, purpose \in {"TIER_CHANGE", "SEAT_CHANGE"}, target \in Plan, seats \in Nat,
             immediate \in BOOLEAN : /\ InFlight(s, purpose) = {}
                                     /\ todo = <<Inserts(s, purpose, target, seats, immediate)>>
    BY <1>2 DEF Charging
  <2> DEFINE x == Inserts(s, purpose, target, seats, immediate)
  <2>2. x.do = "charge" /\ x.row.of = s /\ x.row.purpose = purpose
    BY DEF Inserts, NewPayment
  <2> HIDE DEF x
  <2>3. Has(todo) = {x} /\ todo = <<x>>
    BY <1>1, <2>1 DEF x
  <2> QED BY <1>2, <2>1, <2>2, <2>3 DEF Settling
<1>3. ASSUME NEW x, todo = <<x>>, x.do \notin Settling \cup {"charge"}
      PROVE  \A st \in Has(todo) : st.do \notin Settling \cup {"charge"}
  BY <1>1, <1>3
<1>4. CASE Subscribing(todo)
  <2>1. PICK tier, interval : todo = <<[do |-> "subscribe", tier |-> tier, interval |-> interval]>>
    BY <1>4 DEF Subscribing
  <2> QED BY <1>3, <2>1 DEF Settling
<1>5. CASE Changing(todo)
  <2>1. PICK s, tier, interval : Has(todo) = GrantsOf(s, tier, interval)
    BY <1>5 DEF Changing
  <2> QED BY <2>1 DEF GrantsOf, SetsPlan, SetsTier, SetsCap, Settling
<1>6. CASE Scheduling(todo)
  <2>1. PICK s, tier : todo = <<Schedules(s, tier, "same")>>
    BY <1>6 DEF Scheduling
  <2>2. Schedules(s, tier, "same").do = "schedule"
    BY DEF Schedules
  <2> QED BY <1>3, <2>1, <2>2 DEF Settling
<1>7. CASE Seating(todo)
  <2>1. PICK s, seats : todo \in {<<SetsSeats(s, seats)>>, <<SchedulesSeats(s, seats)>>}
    BY <1>7 DEF Seating
  <2>2. SetsSeats(s, seats).do = "seats" /\ SchedulesSeats(s, seats).do = "scheduleSeats"
    BY DEF SetsSeats, SchedulesSeats
  <2> QED BY <1>3, <2>1, <2>2 DEF Settling
<1>8. CASE Promoting(todo)
  BY <1>3, <1>8 DEF Promoting, Settling
<1>9. CASE Resyncing(todo)
  <2>1. PICK s : todo = <<SetsCap(subscription[s].tier, subscription[s].interval)>>
    BY <1>9 DEF Resyncing
  <2>2. SetsCap(subscription[s].tier, subscription[s].interval).do = "cap"
    BY DEF SetsCap
  <2> QED BY <1>3, <2>1, <2>2 DEF Settling
<1>10. ASSUME NEW s, todo = <<SetsStatus(s, "CANCELLED", {})>>
       PROVE  \A st \in Has(todo) : st.do \notin Settling \cup {"charge"}
  <2>1. SetsStatus(s, "CANCELLED", {}).do = "status"
    BY DEF SetsStatus
  <2> QED BY <1>3, <1>10, <2>1 DEF Settling
<1>11. ASSUME NEW tier, Has(todo) = {SetsTier(tier), SetsCap(tier, "MONTHLY")}
       PROVE  \A st \in Has(todo) : st.do \notin Settling \cup {"charge"}
  BY <1>11 DEF SetsTier, SetsCap, Settling
<1>12. CASE Overriding(todo)
  <2>1. \A st \in Has(todo) : st.do \notin Settling \cup {"charge"}
    BY <1>10, <1>11, <1>12 DEF Overriding
  <2> QED BY <2>1
<1>13. CASE Plain(todo)
  BY <1>2, <1>4, <1>5, <1>6, <1>7, <1>8, <1>9, <1>13 DEF Plain
<1> QED BY <1>12, <1>13

\* What a decision about a payment has to write, of the payment.
Concerning(p, todo, how) ==
    \/ /\ payment' = payment
       /\ \/ Reporting(p, todo, how) \/ Cancelling(p, todo, how)
          \/ Linking(p, todo, how) \/ Refunding(p, todo, how)
    \/ Verifying(p, todo, how) /\ payment' = [payment EXCEPT ![p].status = "VERIFIED"]
    \/ Rejecting(p, todo, how) /\ payment' = [payment EXCEPT ![p].status = "REJECTED"]

LEMMA ReviewIs ==
    ASSUME TypesInv, NEW p \in DOMAIN payment, NEW status,
           payment' = [payment EXCEPT ![p].status = status]
    PROVE  /\ payment'[p].status = status
           /\ \A q \in DOMAIN payment \ {p} : payment'[q] = payment[q]
<1>1. payment[p] \in Payment
  BY PaymentIs
<1>2. [payment[p] EXCEPT !.status = status].status = status
  BY <1>1 DEF Payment
<1> QED BY <1>2

LEMMA ConcerningKinds ==
    ASSUME TypesInv, NEW p \in DOMAIN payment, NEW todo, NEW how, Concerning(p, todo, how)
    PROVE  /\ Meets(p) \subseteq how
           /\ "again" \notin how => (payment'[p].status \in Unsettled => payment[p].status \in Unsettled)
           /\ \A q \in DOMAIN payment \ {p} : payment'[q] = payment[q]
           /\ \E x : /\ "again" \notin how => (Raises(x) => payment'[p].status \in Unsettled)
                     /\ \A st \in Has(todo) : /\ st.do # "charge"
                                              /\ st.do \in Settling => st = x /\ st.p = p
<1>1. ASSUME NEW x, todo = <<x>> PROVE Has(todo) = {x}
  BY <1>1, HasOne
<1>2. "again" \notin how /\ Again(p) \subseteq how => payment[p].status \in {"PENDING", "REPORTED"}
  BY DEF Again
<1>3. CASE payment' = payment /\ Reporting(p, todo, how)
  <2> DEFINE x == SetsPayment(p, "REPORTED")
  <2>1. x.do = "payment" /\ x.p = p
    BY DEF SetsPayment
  <2>2. todo = <<x>> /\ how = Again(p) \cup Meets(p)
    BY <1>3 DEF Reporting
  <2> HIDE DEF x
  <2> QED BY <1>1, <1>2, <1>3, <2>1, <2>2 DEF Unsettled
<1>4. CASE payment' = payment /\ Cancelling(p, todo, how)
  <2> DEFINE x == [do |-> "cancel", p |-> p, status |-> "CANCELLED"]
  <2>1. x.do = "cancel" /\ x.p = p /\ ~Raises(x)
    BY DEF Raises, Unsettled
  <2>2. todo = <<x>> /\ how = Meets(p)
    BY <1>4 DEF Cancelling
  <2> HIDE DEF x
  <2> QED BY <1>1, <1>4, <2>1, <2>2
<1>5. CASE payment' = payment /\ Linking(p, todo, how)
  <2>1. PICK kind : todo = <<[do |-> "invoice", p |-> p, kind |-> kind]>>
    BY <1>5 DEF Linking
  <2> DEFINE x == [do |-> "invoice", p |-> p, kind |-> kind]
  <2>2. x.do = "invoice" /\ x.p = p
    OBVIOUS
  <2>3. todo = <<x>> /\ how = Meets(p) /\ payment[p].status = "VERIFIED"
    BY <1>5, <2>1 DEF Linking
  <2> HIDE DEF x
  <2> QED BY <1>1, <1>5, <2>2, <2>3 DEF Unsettled
<1>6. CASE payment' = payment /\ Refunding(p, todo, how)
  <2> DEFINE s == payment[p].of
             x == SetsPayment(p, "REFUNDED")
  <2>1. PICK snap \in payment[p].from : todo = RefundTodo(p, s, snap)
    BY <1>6 DEF Refunding
  <2>2. s \in DOMAIN subscription /\ snap \in Snapshot
    BY PaymentIs
  <2> HIDE DEF s
  <2>3. Has(todo) =
            {SetsPlan(s, snap.tier, snap.interval),
             SetsStatus(s, IF payment[p].purpose = "INITIAL" THEN "CANCELLED" ELSE snap.status,
                        {snap.end}),
             SetsTier(snap.tenantTier), SetsCap(snap.tenantTier, snap.interval), x}
            \cup (IF payment[p].purpose = "SEAT_CHANGE" THEN {SetsSeats(s, snap.seats)} ELSE {})
    BY <2>1, <2>2, RefundHas
  <2>4. \A st \in Has(todo) : st = x \/ st.do \in {"plan", "status", "tier", "cap", "seats"}
    BY <2>3 DEF SetsPlan, SetsStatus, SetsTier, SetsCap, SetsSeats
  <2>5. x.do = "payment" /\ x.p = p /\ ~Raises(x)
    BY DEF SetsPayment, Raises, Unsettled
  <2>6. Meets(p) \subseteq how
    BY <1>6 DEF Refunding
  <2> HIDE DEF x
  <2> QED BY <1>6, <2>4, <2>5, <2>6 DEF Settling
<1>7. CASE Verifying(p, todo, how) /\ payment' = [payment EXCEPT ![p].status = "VERIFIED"]
  <2>1. PICK s \in DOMAIN subscription : s = payment[p].of
    BY PaymentIs
  <2> DEFINE x == Snapshots(p, SnapshotOf(s))
  <2>2. Has(todo) = {x} \cup Has(Applies(p, s)) /\ how = Ended(p) \cup Again(p) \cup Meets(p)
    BY <1>7, <2>1 DEF Verifying
  <2>3. \A st \in Has(Applies(p, s)) :
            st.do \in {"seats", "stamp", "plan", "status", "tier", "cap", "schedule", "pastDue"}
    BY AppliesKinds
  <2>4. x.do = "snapshot" /\ x.p = p
    BY DEF Snapshots
  <2>5. /\ payment'[p].status = "VERIFIED"
        /\ \A q \in DOMAIN payment \ {p} : payment'[q] = payment[q]
    BY <1>7, ReviewIs
  <2> HIDE DEF x
  <2>6. \A st \in Has(todo) : /\ st.do # "charge"
                              /\ st.do \in Settling => st = x /\ st.p = p
    BY <2>2, <2>3, <2>4 DEF Settling
  <2> QED BY <1>2, <2>2, <2>5, <2>6 DEF Unsettled
<1>8. CASE Rejecting(p, todo, how) /\ payment' = [payment EXCEPT ![p].status = "REJECTED"]
  <2>1. /\ payment'[p].status = "REJECTED" /\ how = Again(p) \cup Meets(p) /\ Has(todo) = {}
        /\ \A q \in DOMAIN payment \ {p} : payment'[q] = payment[q]
    BY <1>8, HasNone, ReviewIs DEF Rejecting
  <2>2. ~Raises(SetsPayment(p, "REFUNDED"))
    BY DEF SetsPayment, Raises, Unsettled
  <2> QED BY <2>1, <2>2 DEF Unsettled
<1> QED BY <1>3, <1>4, <1>5, <1>6, <1>7, <1>8 DEF Concerning

\* What the job comes to later settles nothing, so that who has decided on a payment is met.
LEMMA MeetsIs ==
    ASSUME StandingInv, NEW p, Meets(p) = {}
    PROVE  \A c \in Callers : \A st \in All(call[c]) : st.do \in Settling => st.p # p
<1> SUFFICES ASSUME NEW c \in Callers, NEW st \in All(call[c]), st.do \in Settling, st.p = p
             PROVE  FALSE
  OBVIOUS
<1>1. call[c].phase \in Phases /\ PhaseOK(call[c])
  BY DEF StandingInv, TypesInv, BillingTypeOK
<1>2. call[c].phase = "none"
  BY <1>1 DEF PhaseOK, Phases, Settling
<1>3. st \in Has(call[c].todo)
  BY <1>1, <1>2 DEF PhaseOK, All
<1>4. PICK i \in DOMAIN call[c].todo : st = call[c].todo[i]
  BY <1>3 DEF Has
<1> QED BY <1>4 DEF Meets, Settling

LEMMA CrossesAsker ==
    ASSUME NEW c \in Callers, NEW now, "asked" \notin Crosses(c, now), Asking(now)
    PROVE  \A d \in Callers \ {c} : ~Asking(call[d])
  BY DEF Crosses

LEMMA OneAskerStays ==
    ASSUME OneAsker, NEW c \in Callers, \A d \in Callers \ {c} : call'[d] = call[d],
           strayed \subseteq strayed', Crosses(c, call'[c]) \subseteq strayed'
    PROVE  OneAsker'
<1>1. CASE "asked" \in strayed'
  BY <1>1 DEF OneAsker
<1>2. CASE "asked" \notin strayed'
  <2>1. PICK now : now = call'[c]
    OBVIOUS
  <2>2. "asked" \notin Crosses(c, now) /\ "asked" \notin strayed
    BY <1>2, <2>1
  <2>3. Asking(now) => \A d \in Callers \ {c} : ~Asking(call[d])
    BY <2>2, CrossesAsker
  <2>4. \A d, e \in Callers : Asking(call'[d]) /\ Asking(call'[e]) => d = e
    <3> SUFFICES ASSUME NEW d \in Callers, NEW e \in Callers, Asking(call'[d]), Asking(call'[e])
                 PROVE  d = e
      OBVIOUS
    <3>1. CASE d # c /\ e # c
      BY <2>2, <3>1 DEF OneAsker
    <3>2. CASE d = c \/ e = c
      BY <2>1, <2>3, <3>2
    <3> QED BY <3>1, <3>2
  <2> QED BY <2>4 DEF OneAsker
<1> QED BY <1>1, <1>2

LEMMA FlightDecided ==
    ASSUME FlightInv, StandingInv', NEW c \in Callers, NEW todo, NEW how, Decided(c, todo, how)
    PROVE  FlightInv'
<1>0. TypesInv /\ StandingInv
  BY DEF FlightInv, StandingInv
<1>1. /\ \A d \in Callers \ {c} : call'[d] = call[d]
      /\ call'[c].phase = "none" /\ call'[c].todo = todo /\ call'[c].later = NoRows
      /\ strayed' = strayed \cup how \cup Crosses(c, call'[c])
  BY <1>0, DecidesMoves DEF Decided
<1>2. OneAsker'
  BY <1>1, OneAskerStays DEF FlightInv
<1>3. Decision(todo, how)
  BY DEF Decided
<1>4. /\ DOMAIN payment' = DOMAIN payment
      /\ \A p \in DOMAIN payment : /\ payment'[p].of = payment[p].of
                                   /\ payment'[p].purpose = payment[p].purpose
                                   /\ payment'[p].stamped = payment[p].stamped
  BY <1>0, <1>3, DecisionPayments
<1>5. \/ payment' = payment /\ (Plain(todo) \/ Overriding(todo))
      \/ \E p \in DOMAIN payment : Concerning(p, todo, how)
  BY <1>3 DEF Decision, Concerning
<1>6. All(call'[c]) = Has(todo)
  BY <1>1, NoRowsIs DEF All
<1>7. ChargesOne(call'[c])
  <2>1. \A st \in Has(todo) : st.do = "charge" => todo = <<st>>
    BY <1>0, <1>5, PlainKinds, ConcerningKinds
  <2> QED BY <1>1, <2>1 DEF ChargesOne
<1>8. \A d \in Callers : ChargesOne(call'[d])
  BY <1>1, <1>7 DEF FlightInv
<1>9. ASSUME Calm' PROVE OneFlight' /\ NoneBefore' /\ OneSettles'
  <2>1. Calm /\ "again" \notin how /\ "met" \notin how
    BY <1>1, <1>9 DEF Calm
  <2>2. OneFlight /\ NoneBefore /\ OneSettles
    BY <2>1 DEF FlightInv
  <2>3. CASE payment' = payment /\ (Plain(todo) \/ Overriding(todo))
    <3>1. \A s, purpose : InFlight(s, purpose)' = InFlight(s, purpose)
      BY <2>3 DEF InFlight
    <3>2. \A st \in All(call'[c]) :
              /\ st.do \notin Settling
              /\ st.do = "charge" => InFlight(st.row.of, st.row.purpose) = {}
      BY <1>6, <2>3, PlainKinds
    <3>3. \A st \in All(call'[c]) : ~Raises(st)
      BY <3>2 DEF Raises, Settling
    <3>4. OneFlight'
      BY <2>2, <3>1 DEF OneFlight
    <3>5. NoneBefore'
      BY <1>1, <2>2, <3>1, <3>2 DEF NoneBefore
    <3>6. OneSettles'
      BY <1>1, <2>2, <2>3, <3>2, <3>3 DEF OneSettles
    <3> QED BY <3>4, <3>5, <3>6
  <2>4. ASSUME NEW p \in DOMAIN payment, Concerning(p, todo, how)
        PROVE  OneFlight' /\ NoneBefore' /\ OneSettles'
    <3>1. /\ Meets(p) \subseteq how
          /\ payment'[p].status \in Unsettled => payment[p].status \in Unsettled
          /\ \A q \in DOMAIN payment \ {p} : payment'[q] = payment[q]
      BY <1>0, <2>1, <2>4, ConcerningKinds
    <3>2. PICK x : /\ Raises(x) => payment'[p].status \in Unsettled
                   /\ \A st \in Has(todo) : /\ st.do # "charge"
                                            /\ st.do \in Settling => st = x /\ st.p = p
      BY <1>0, <2>1, <2>4, ConcerningKinds
    <3>3. Meets(p) = {}
      BY <2>1, <3>1, HowIs
    <3>4. \A d \in Callers : \A st \in All(call[d]) : st.do \in Settling => st.p # p
      BY <1>0, <3>3, MeetsIs
    <3>5. \A s, purpose : InFlight(s, purpose)' \subseteq InFlight(s, purpose)
      BY <1>4, <3>1, FlightsShrink
    <3>6. OneFlight'
      BY <2>2, <3>5 DEF OneFlight
    <3>7. NoneBefore'
      BY <1>1, <1>6, <2>2, <3>2, <3>5 DEF NoneBefore
    <3>8. ASSUME NEW d \in Callers, NEW e \in Callers, NEW st \in All(call'[d]), NEW su \in All(call'[e]),
                 st.do \in Settling, su.do \in Settling, st.p = su.p
          PROVE  d = e /\ st = su
      <4>1. CASE d = c /\ e = c
        BY <1>6, <3>2, <3>8, <4>1
      <4>2. CASE d = c /\ e # c
        BY <1>1, <1>6, <3>2, <3>4, <3>8, <4>2
      <4>3. CASE d # c /\ e = c
        BY <1>1, <1>6, <3>2, <3>4, <3>8, <4>3
      <4>4. CASE d # c /\ e # c
        BY <1>1, <2>2, <3>8, <4>4 DEF OneSettles
      <4> QED BY <4>1, <4>2, <4>3, <4>4
    <3>9. ASSUME NEW d \in Callers, NEW st \in All(call'[d]), Raises(st)
          PROVE  payment'[st.p].status \in Unsettled
      <4>0. st.do \in Settling
        BY <3>9 DEF Raises, Settling
      <4>1. CASE d = c
        BY <1>6, <3>2, <3>9, <4>0, <4>1
      <4>2. CASE d # c
        <5>1. st \in All(call[d]) /\ st.p # p /\ payment[st.p].status \in Unsettled
          BY <1>1, <2>2, <3>4, <3>9, <4>0, <4>2 DEF OneSettles
        <5>2. st.p \in DOMAIN payment
          BY <1>0, <4>0, <5>1 DEF TypesInv, Referring, Refers, Settling, PaymentOf
        <5> QED BY <3>1, <5>1, <5>2
      <4> QED BY <4>1, <4>2
    <3> QED BY <3>6, <3>7, <3>8, <3>9 DEF OneSettles
  <2> QED BY <1>5, <2>3, <2>4
<1> QED BY <1>2, <1>8, <1>9 DEF FlightInv

LEMMA FlightJob ==
    ASSUME FlightInv, StandingInv', NEW c \in Callers, RunsJob(c) \/ GoesOnJob(c)
    PROVE  FlightInv'
<1>0. TypesInv /\ StandingInv
  BY DEF FlightInv, StandingInv
<1>1. PICK phase, rows : JobEnters(c, phase, rows)
  BY <1>0, JobStep
<1>2. DOMAIN rows \subseteq Nat /\ Enters(c, phase, rows)
  BY <1>0, <1>1, JobRows DEF JobEnters
<1>3. /\ \A d \in Callers \ {c} : call'[d] = call[d]
      /\ call'[c] = NextRow(phase, rows) /\ call'[c].phase = phase
      /\ All(call'[c]) = UNION {Has(rows[s]) : s \in DOMAIN rows}
      /\ UNCHANGED <<day, tenant, subscription, payment>>
      /\ strayed' = strayed \cup Crosses(c, call'[c])
  BY <1>0, <1>2, EntersMoves
<1>4. OneAsker'
  BY <1>3, OneAskerStays DEF FlightInv
<1>5. CASE phase = "reminders" /\ rows = DueReminders
  <2>1. ASSUME NEW s \in DOMAIN DueReminders
        PROVE  /\ DueReminders[s] = OpensRenewal(s)
               /\ InFlight(s, "RENEWAL") = {}
               /\ \A st \in Has(DueReminders[s]) :
                     st.do = "charge" /\ st.row.of = s /\ st.row.purpose = "RENEWAL"
    <3>1. s \in DOMAIN subscription /\ DueReminders[s] = OpensRenewal(s) /\ InFlight(s, "RENEWAL") = {}
      BY ActiveIs DEF DueReminders, ForEach
    <3>2. Has(OpensRenewal(s)) = {Inserts(s, "RENEWAL", Same, 0, FALSE)}
      BY <1>0, <3>1, RenewalOpensHas
    <3> QED BY <3>1, <3>2 DEF Inserts, NewPayment
  <2>2. ChargesOne(call'[c])
    <3>1. CASE DOMAIN rows = {}
      <4>1. call'[c].todo = <<>> /\ call'[c].later = NoRows
        BY <1>2, <1>3, <3>1, NextRowIs
      <4> QED BY <1>3, <1>5, <4>1, NoRowsIs DEF ChargesOne
    <3>2. CASE DOMAIN rows # {}
      <4>1. PICK s \in DOMAIN rows :
                /\ NextRow(phase, rows).todo = rows[s]
                /\ DOMAIN NextRow(phase, rows).later = DOMAIN rows \ {s}
                /\ \A r \in DOMAIN rows \ {s} : NextRow(phase, rows).later[r] = rows[r]
        BY <1>2, <3>2, NextRowIs
      <4>2. /\ call'[c].todo = OpensRenewal(s) /\ s \notin DOMAIN call'[c].later
            /\ \A r \in DOMAIN call'[c].later : call'[c].later[r] = OpensRenewal(r)
        BY <1>3, <1>5, <2>1, <4>1
      <4> QED BY <1>3, <1>5, <4>2 DEF ChargesOne
    <3> QED BY <3>1, <3>2
  <2>3. \A st \in All(call'[c]) :
            st.do = "charge" /\ InFlight(st.row.of, st.row.purpose) = {}
    BY <1>3, <1>5, <2>1
  <2>4. ASSUME Calm' PROVE OneFlight' /\ NoneBefore' /\ OneSettles'
    <3>1. OneFlight /\ NoneBefore /\ OneSettles
      BY <1>3, <2>4 DEF Calm, FlightInv
    <3>2. \A s, purpose : InFlight(s, purpose)' = InFlight(s, purpose)
      BY <1>3 DEF InFlight
    <3>3. OneFlight'
      BY <3>1, <3>2 DEF OneFlight
    <3>4. NoneBefore'
      BY <1>3, <2>3, <3>1, <3>2 DEF NoneBefore
    <3>5. \A st \in All(call'[c]) : st.do \notin Settling /\ ~Raises(st)
      BY <2>3 DEF Settling, Raises
    <3>6. OneSettles'
      BY <1>3, <3>1, <3>5 DEF OneSettles
    <3> QED BY <3>3, <3>4, <3>6
  <2> QED BY <1>3, <1>4, <2>2, <2>4 DEF FlightInv
<1>6. CASE phase # "reminders"
  <2>1. \A st \in All(call'[c]) : st.do \notin Settling \cup {"charge"}
    <3>1. phase = "none" => All(call'[c]) = {}
      BY <1>1, <1>3, NoRowsIs DEF JobEnters
    <3>2. phase \in Phases /\ PhaseOK(call'[c])
      BY <1>0, <1>1, JobPhaseOK DEF JobEnters
    <3> QED BY <1>3, <1>6, <3>1, <3>2 DEF PhaseOK, Phases, Settling
  <2>2. ChargesOne(call'[c])
    BY <1>3, <1>6, <2>1 DEF ChargesOne, All
  <2>3. ASSUME Calm' PROVE OneFlight' /\ NoneBefore' /\ OneSettles'
    <3>1. OneFlight /\ NoneBefore /\ OneSettles
      BY <1>3, <2>3 DEF Calm, FlightInv
    <3>2. \A s, purpose : InFlight(s, purpose)' = InFlight(s, purpose)
      BY <1>3 DEF InFlight
    <3>3. OneFlight'
      BY <3>1, <3>2 DEF OneFlight
    <3>4. NoneBefore'
      BY <1>3, <2>1, <3>1, <3>2 DEF NoneBefore
    <3>5. \A st \in All(call'[c]) : st.do \notin Settling /\ ~Raises(st)
      BY <2>1 DEF Settling, Raises
    <3>6. OneSettles'
      BY <1>3, <3>1, <3>5 DEF OneSettles
    <3> QED BY <3>3, <3>4, <3>6
  <2> QED BY <1>3, <1>4, <2>2, <2>3 DEF FlightInv
<1> QED BY <1>1, <1>5, <1>6 DEF JobEnters

\* What a statement adds to what its call has to write settles nothing, and no change.
LEMMA ThenKinds ==
    ASSUME TypesInv, NEW st \in Statement, Refers(st, DOMAIN subscription, DOMAIN payment), Writes(st)
    PROVE  \A x \in Has(Then(st)) :
              /\ x.do \in {"charge", "status", "cap", "stamp"}
              /\ x.do = "charge" => st.do = "subscribe" /\ Then(st) = <<x>> /\ x.row.purpose = "INITIAL"
<1>1. CASE st.do = "subscribe"
  <2> DEFINE y == Inserts(Len(subscription'), "INITIAL", Same, 0, FALSE)
  <2>1. Then(st) = <<y>>
    BY <1>1, ThenSubscribe
  <2>2. y.do = "charge" /\ y.row.purpose = "INITIAL"
    BY DEF Inserts, NewPayment
  <2> HIDE DEF y
  <2>3. Has(Then(st)) = {y}
    BY <2>1, HasOne
  <2> QED BY <1>1, <2>1, <2>2, <2>3
<1>2. CASE st.do = "cancel"
  <2>1. Has(Then(st)) \subseteq {SetsStatus(payment[st.p].of, "CANCELLED", {})}
    BY <1>2, ThenHas
  <2> QED BY <2>1 DEF SetsStatus
<1>3. CASE st.do = "promote"
  <2>1. ASSUME NEW s \in Active, NEW P \in SUBSET (DOMAIN payment), NEW su,
               su \in {SetsStatus(s, "ACTIVE", {PeriodEnd(day, subscription[s].interval)}),
                       SetsCap(subscription[s].tier, subscription[s].interval)}
                      \cup Has(StampsFunding(P))
        PROVE  su.do \in {"status", "cap", "stamp"}
    <3>1. \A sv \in Has(StampsFunding(P)) : sv.do = "stamp"
      BY StampsSound
    <3> QED BY <2>1, <3>1 DEF SetsStatus, SetsCap
  <2>2. \/ Has(Then(st)) = {}
        \/ \E s \in Active, P \in SUBSET (DOMAIN payment) : Has(Then(st)) =
              {SetsStatus(s, "ACTIVE", {PeriodEnd(day, subscription[s].interval)}),
               SetsCap(subscription[s].tier, subscription[s].interval)}
              \cup Has(StampsFunding(P))
    BY <1>3, ThenHas
  <2>3. \A su \in Has(Then(st)) : su.do \in {"status", "cap", "stamp"}
    BY <2>1, <2>2
  <2> QED BY <2>3
<1>4. CASE st.do \notin Alone
  <2>1. Has(Then(st)) = {}
    BY <1>4, ThenNothing, HasNone DEF Alone
  <2> QED BY <2>1
<1> QED BY <1>1, <1>2, <1>3, <1>4 DEF Alone

\* Who has a payment to insert is asking, and inserts it next.
LEMMA ChargesAsk ==
    ASSUME FlightInv, NEW c \in Callers, NEW x \in All(call[c]), x.do = "charge"
    PROVE  /\ Asking(call[c]) /\ call[c].todo # <<>> /\ Head(call[c].todo).do = "charge"
           /\ Tail(call[c].todo) = <<>>
           /\ \/ call[c].phase = "none" /\ call[c].todo = <<x>> /\ DOMAIN call[c].later = {}
              \/ /\ call[c].phase = "reminders"
                 /\ \E t : t \notin DOMAIN call[c].later /\ call[c].todo = OpensRenewal(t)
                 /\ \A s \in DOMAIN call[c].later : call[c].later[s] = OpensRenewal(s)
<1>0. /\ TypesInv /\ PhaseOK(call[c]) /\ ChargesOne(call[c]) /\ call[c].phase \in Phases
      /\ call[c].todo = <<>> => DOMAIN call[c].later = {}
  BY DEF FlightInv, StandingInv, TypesInv, BillingTypeOK, Referring
<1>1. CASE call[c].phase = "none"
  <2>1. DOMAIN call[c].later = {} /\ x \in Has(call[c].todo)
    BY <1>0, <1>1 DEF PhaseOK, All
  <2>2. call[c].todo = <<x>>
    BY <1>0, <1>1, <2>1 DEF ChargesOne
  <2>3. <<x>> # <<>> /\ Head(<<x>>) = x /\ Tail(<<x>>) = <<>>
    OBVIOUS
  <2> QED BY <1>1, <2>1, <2>2, <2>3, AskingIs
<1>2. CASE call[c].phase = "reminders"
  <2>1. call[c].todo # <<>>
    BY <1>0, HasNone DEF All
  <2>2. PICK t : t \notin DOMAIN call[c].later /\ call[c].todo = OpensRenewal(t)
    BY <1>0, <1>2, <2>1 DEF ChargesOne
  <2> DEFINE y == Inserts(t, "RENEWAL", Same, 0, FALSE)
  <2>3. y.do = "charge" /\ call[c].todo = <<y>>
    BY <2>2 DEF Inserts, OpensRenewal
  <2> HIDE DEF y
  <2>4. Has(<<y>>) = {y} /\ <<y>> # <<>> /\ Head(<<y>>) = y /\ Tail(<<y>>) = <<>>
    BY HasOne
  <2> QED BY <1>0, <1>2, <2>2, <2>3, <2>4, AskingIs DEF ChargesOne
<1>3. call[c].phase \in {"none", "reminders"}
  BY <1>0 DEF PhaseOK, Phases
<1> QED BY <1>1, <1>2, <1>3

\* A renewal that the job opens is of its row.
LEMMA OpensIs ==
    ASSUME NEW s
    PROVE  \A x \in Has(OpensRenewal(s)) : x.do = "charge" /\ x.row.of = s /\ x.row.purpose = "RENEWAL"
<1>1. Has(OpensRenewal(s)) = {Inserts(s, "RENEWAL", Same, 0, FALSE)}
  BY HasOne DEF OpensRenewal
<1> QED BY <1>1 DEF Inserts, NewPayment

\* What a call that inserts a payment has left: nothing, or the renewals of other rows.
LEMMA ChargeLeaves ==
    ASSUME FlightInv, NEW c \in Callers, Continues(c), NEW st, st = Head(call[c].todo), st.do = "charge"
    PROVE  /\ ChargesOne(call'[c])
           /\ \A x \in All(call'[c]) :
                 x.do = "charge" /\ <<x.row.of, x.row.purpose>> # <<st.row.of, st.row.purpose>>
<1>0. TypesInv /\ PhaseOK(call[c])
  BY DEF FlightInv, StandingInv
<1>1. /\ st \in All(call[c]) /\ st \in Has(call[c].todo) /\ call'[c].phase = call[c].phase
      /\ Then(st) \o Tail(call[c].todo) = <<>> => call'[c] = NextRow(call[c].phase, call[c].later)
      /\ All(call'[c]) = Has(Then(st)) \cup Has(Tail(call[c].todo))
                         \cup UNION {Has(call[c].later[s]) : s \in DOMAIN call[c].later}
  BY <1>0, ContinuesMoves
<1>2. Then(st) = <<>> /\ Tail(call[c].todo) = <<>>
  BY <1>1, ThenNothing, ChargesAsk
<1>3. call'[c] = NextRow(call[c].phase, call[c].later)
  <2>1. <<>> \o <<>> = <<>>
    OBVIOUS
  <2> QED BY <1>1, <1>2, <2>1
<1>4. All(call'[c]) = UNION {Has(call[c].later[s]) : s \in DOMAIN call[c].later}
  BY <1>1, <1>2, HasNone
<1> PICK phase, rows : phase = call[c].phase /\ rows = call[c].later
  OBVIOUS
<1>5. DOMAIN rows \subseteq Nat
  BY <1>0 DEF TypesInv, BillingTypeOK
<1>6. CASE DOMAIN rows = {}
  <2>1. NextRow(phase, rows).todo = <<>> /\ NextRow(phase, rows).later = NoRows
    BY <1>6 DEF NextRow
  <2>2. call'[c].todo = <<>> /\ DOMAIN call'[c].later = {}
    <3>1. call'[c] = NextRow(phase, rows)
      BY <1>3
    <3>2. call'[c].todo = NextRow(phase, rows).todo /\ call'[c].later = NextRow(phase, rows).later
      BY <3>1
    <3>3. call'[c].later = NoRows
      BY <2>1, <3>2
    <3>4. DOMAIN call'[c].later = DOMAIN NoRows
      BY <3>3
    <3> QED BY <2>1, <3>2, <3>4, NoRowsIs
  <2>3. ChargesOne(call'[c])
    BY <2>2, HasNone DEF ChargesOne
  <2> QED BY <1>4, <1>6, <2>3
<1>7. CASE DOMAIN rows # {}
  <2>1. /\ phase = "reminders" /\ \A s \in DOMAIN rows : rows[s] = OpensRenewal(s)
        /\ \E t : t \notin DOMAIN rows /\ call[c].todo = OpensRenewal(t)
    BY <1>1, <1>7, ChargesAsk
  <2>2. PICK t : t \notin DOMAIN rows /\ call[c].todo = OpensRenewal(t)
    BY <2>1
  <2>3. st.row.of = t
    BY <1>1, <2>2, OpensIs
  <2>4. PICK s \in DOMAIN rows :
            /\ NextRow(phase, rows).todo = rows[s]
            /\ DOMAIN NextRow(phase, rows).later = DOMAIN rows \ {s}
            /\ \A r \in DOMAIN rows \ {s} : NextRow(phase, rows).later[r] = rows[r]
    BY <1>5, <1>7, NextRowIs
  <2>5. /\ call'[c].todo = OpensRenewal(s) /\ s \notin DOMAIN call'[c].later
        /\ \A r \in DOMAIN call'[c].later : call'[c].later[r] = OpensRenewal(r)
    BY <1>3, <2>1, <2>4
  <2>6. ChargesOne(call'[c])
    BY <1>1, <2>1, <2>5 DEF ChargesOne
  <2>7. \A x \in All(call'[c]) : x.do = "charge" /\ x.row.of \in DOMAIN rows
    BY <1>4, <2>1, OpensIs
  <2> QED BY <2>2, <2>3, <2>6, <2>7
<1> QED BY <1>6, <1>7

\* What a call that writes anything else has left to insert is the first payment of a row.
LEMMA OtherLeaves ==
    ASSUME FlightInv, NEW c \in Callers, Continues(c), NEW st, st = Head(call[c].todo), st.do # "charge"
    PROVE  /\ ChargesOne(call'[c])
           /\ \A x \in All(call'[c]) :
                 /\ x.do \in Settling => x \in All(call[c])
                 /\ x.do = "charge" => x.row.purpose = "INITIAL"
           /\ Asking(call'[c]) => Asking(call[c])
<1>0. TypesInv /\ PhaseOK(call[c])
  BY DEF FlightInv, StandingInv
<1>1. /\ st \in Statement /\ st \in All(call[c]) /\ Writes(st)
      /\ Refers(st, DOMAIN subscription, DOMAIN payment)
      /\ call'[c].phase = call[c].phase
      /\ st.do \notin Alone => /\ All(call'[c]) \subseteq All(call[c])
                               /\ \A su \in All(call[c]) : su.do \notin Alone
      /\ st.do \in Alone => /\ All(call'[c]) = Has(Then(st)) /\ call[c].phase = "none"
                            /\ call'[c].todo = Then(st)
  BY <1>0, ContinuesAll
<1>2. \A x \in Has(call'[c].todo) : x \in All(call'[c])
  BY DEF All
<1>3. CASE st.do \notin Alone
  <2>1. \A x \in All(call[c]) : x.do \notin {"charge", "subscribe"}
    BY <1>1, <1>3, ChargesAsk DEF Alone
  <2>2. \A x \in All(call'[c]) : x \in All(call[c]) /\ x.do \notin {"charge", "subscribe"}
    BY <1>1, <1>3, <2>1
  <2>3. call[c].phase # "reminders"
    BY <1>0, <1>1 DEF PhaseOK
  <2>4. ChargesOne(call'[c])
    BY <1>1, <1>2, <2>2, <2>3 DEF ChargesOne
  <2>5. ~Asking(call'[c])
    BY <1>2, <2>2, AskingIs
  <2> QED BY <2>2, <2>4, <2>5
<1>4. CASE st.do \in Alone
  <2>1. \A x \in Has(Then(st)) :
            /\ x.do \in {"charge", "status", "cap", "stamp"}
            /\ x.do = "charge" => st.do = "subscribe" /\ Then(st) = <<x>> /\ x.row.purpose = "INITIAL"
    BY <1>0, <1>1, ThenKinds
  <2>2. ChargesOne(call'[c])
    BY <1>1, <1>4, <2>1 DEF ChargesOne
  <2>3. ASSUME Asking(call'[c]) PROVE Asking(call[c])
    <3>1. st.do = "subscribe"
      BY <1>1, <1>4, <2>1, <2>3, AskingIs
    <3>2. st \in Has(call[c].todo)
      BY <1>0, ContinuesMoves
    <3> QED BY <3>1, <3>2, AskingIs
  <2> QED BY <1>1, <1>4, <2>1, <2>2, <2>3 DEF Settling
<1> QED BY <1>3, <1>4

LEMMA FlightContinues ==
    ASSUME FlightInv, StandingInv', NEW c \in Callers, Continues(c)
    PROVE  FlightInv'
<1>0. TypesInv /\ PhaseOK(call[c]) /\ payment \in Seq(Payment) /\ tenant \in Tenant
  BY DEF FlightInv, StandingInv, TypesInv, BillingTypeOK
<1>1. PICK st : st = Head(call[c].todo)
  OBVIOUS
<1>2. /\ st \in Statement /\ st \in All(call[c]) /\ Writes(st)
      /\ Refers(st, DOMAIN subscription, DOMAIN payment)
      /\ UNCHANGED strayed /\ \A d \in Callers \ {c} : call'[d] = call[d]
  BY <1>0, <1>1, ContinuesAll
<1>3. st.do \in Kinds
  BY <1>2, StatementParts
<1>4. CASE st.do = "charge"
  <2>1. /\ ChargesOne(call'[c])
        /\ \A x \in All(call'[c]) :
              x.do = "charge" /\ <<x.row.of, x.row.purpose>> # <<st.row.of, st.row.purpose>>
    BY <1>1, <1>4, ChargeLeaves
  <2>2. Asking(call[c])
    BY <1>2, <1>4, ChargesAsk
  <2>3. OneAsker'
    BY <1>2, <2>2 DEF FlightInv, OneAsker
  <2>4. payment' = Append(payment, st.row) /\ st.row \in Payment
    BY <1>0, <1>2, <1>4, WritesCharge
  <2>5. /\ DOMAIN payment' = DOMAIN payment \cup {Len(payment) + 1}
        /\ payment'[Len(payment) + 1] = st.row /\ Len(payment) + 1 \notin DOMAIN payment
        /\ \A k \in DOMAIN payment : payment'[k] = payment[k]
    BY <1>0, <2>4, PutsLast
  <2>6. ASSUME Calm' PROVE OneFlight' /\ NoneBefore' /\ OneSettles'
    <3>1. OneFlight /\ NoneBefore /\ OneSettles /\ "asked" \notin strayed
      BY <1>2, <2>6 DEF Calm, FlightInv
    <3>2. \A s, purpose : InFlight(s, purpose)' \subseteq InFlight(s, purpose) \cup {Len(payment) + 1}
      BY <2>5 DEF InFlight
    <3>3. \A s, purpose : <<s, purpose>> # <<st.row.of, st.row.purpose>> =>
              InFlight(s, purpose)' \subseteq InFlight(s, purpose)
      BY <2>5 DEF InFlight
    <3>4. st.row.purpose \in Changing3 => InFlight(st.row.of, st.row.purpose) = {}
      BY <1>2, <1>4, <3>1 DEF NoneBefore
    <3>5. OneFlight'
      BY <3>1, <3>2, <3>3, <3>4 DEF OneFlight
    <3>6. \A d \in Callers \ {c} : ~Asking(call[d])
      BY <2>2, <3>1 DEF FlightInv, OneAsker
    <3>7. \A d \in Callers \ {c} : \A x \in All(call[d]) : x.do # "charge"
      BY <3>6, ChargesAsk
    <3>8. NoneBefore'
      <4> SUFFICES ASSUME NEW d \in Callers, NEW x \in All(call'[d]), x.do = "charge",
                          x.row.purpose \in Changing3
                   PROVE  InFlight(x.row.of, x.row.purpose)' = {}
        BY DEF NoneBefore
      <4>1. d = c
        BY <1>2, <3>7
      <4>2. <<x.row.of, x.row.purpose>> # <<st.row.of, st.row.purpose>>
        BY <2>1, <4>1
      <4>3. x \in All(call[c])
        BY <1>0, <1>1, <1>4, <4>1, ContinuesAll DEF Alone
      <4>4. InFlight(x.row.of, x.row.purpose) = {}
        BY <3>1, <4>3 DEF NoneBefore
      <4> QED BY <3>3, <4>2, <4>4
    <3>9. \A x \in All(call'[c]) : x.do \notin Settling /\ ~Raises(x)
      BY <2>1 DEF Settling, Raises
    <3>10. ASSUME NEW d \in Callers, NEW x \in All(call'[d]), Raises(x)
           PROVE  payment'[x.p].status \in Unsettled
      <4>1. d # c /\ x \in All(call[d])
        BY <1>2, <3>9, <3>10
      <4>2. payment[x.p].status \in Unsettled /\ x.do \in PaymentOf
        BY <3>1, <3>10, <4>1 DEF OneSettles, Raises, PaymentOf
      <4>3. x.p \in DOMAIN payment
        BY <1>0, <4>1, <4>2 DEF TypesInv, Referring, Refers
      <4> QED BY <2>5, <4>2, <4>3
    <3>11. OneSettles'
      BY <1>2, <3>1, <3>9, <3>10 DEF OneSettles
    <3> QED BY <3>5, <3>8, <3>11
  <2> QED BY <1>2, <2>1, <2>3, <2>6 DEF FlightInv
<1>5. CASE st.do # "charge"
  <2>1. /\ ChargesOne(call'[c])
        /\ \A x \in All(call'[c]) :
              /\ x.do \in Settling => x \in All(call[c])
              /\ x.do = "charge" => x.row.purpose = "INITIAL"
        /\ Asking(call'[c]) => Asking(call[c])
    BY <1>1, <1>5, OtherLeaves
  <2>2. OneAsker'
    BY <1>2, <2>1 DEF FlightInv, OneAsker
  <2>3. ASSUME Calm' PROVE OneFlight' /\ NoneBefore' /\ OneSettles'
    <3>1. OneFlight /\ NoneBefore /\ OneSettles
      BY <1>2, <2>3 DEF Calm, FlightInv
    <3>2. /\ DOMAIN payment' = DOMAIN payment
          /\ \A p \in DOMAIN payment :
                /\ payment'[p].of = payment[p].of /\ payment'[p].purpose = payment[p].purpose
                /\ payment'[p].status \in Unsettled /\ ~payment'[p].stamped =>
                       payment[p].status \in Unsettled /\ ~payment[p].stamped
          /\ \A d \in Callers : \A x \in All(call[d]) :
                Raises(x) /\ payment[x.p].status \in Unsettled => payment'[x.p].status \in Unsettled
      <4>1. CASE st.do \in PaymentOf
        <5>1. /\ st.p \in DOMAIN payment /\ DOMAIN payment' = DOMAIN payment
              /\ \A k \in DOMAIN payment \ {st.p} : payment'[k] = payment[k]
              /\ payment'[st.p].of = payment[st.p].of /\ payment'[st.p].purpose = payment[st.p].purpose
              /\ payment'[st.p].status = IF st.do \in {"payment", "cancel"} THEN st.status ELSE "VERIFIED"
              /\ payment'[st.p].stamped = (payment[st.p].stamped \/ st.do = "stamp")
          BY <1>0, <1>2, <4>1, WritesOfPayment DEF Refers
        <5>2. Raises(st) => payment[st.p].status \in Unsettled
          BY <1>2, <3>1 DEF OneSettles
        <5>3. payment'[st.p].status \in Unsettled => Raises(st) \/ st.do = "stamp"
          BY <4>1, <5>1 DEF Raises, PaymentOf
        <5>4. ASSUME NEW d \in Callers, NEW x \in All(call[d]), Raises(x),
                     payment[x.p].status \in Unsettled
              PROVE  payment'[x.p].status \in Unsettled
          <6>0. x.do \in Settling /\ x.p \in DOMAIN payment
            <7>1. x.do \in Settling /\ x.do \in PaymentOf
              BY <5>4 DEF Raises, Settling, PaymentOf
            <7> QED BY <1>0, <7>1 DEF TypesInv, Referring, Refers
          <6>1. CASE x.p # st.p
            BY <5>1, <5>4, <6>0, <6>1
          <6>2. CASE x.p = st.p /\ st.do = "stamp"
            BY <5>1, <6>2 DEF Unsettled
          <6>3. CASE x.p = st.p /\ st.do # "stamp"
            <7>1. st.do \in Settling
              BY <4>1, <6>3 DEF Settling, PaymentOf
            <7>2. x = st
              BY <1>2, <3>1, <6>0, <6>3, <7>1 DEF OneSettles
            <7> QED BY <5>1, <5>4, <7>2 DEF Raises, Unsettled
          <6> QED BY <6>1, <6>2, <6>3
        <5> QED BY <5>1, <5>2, <5>3, <5>4
      <4>2. CASE st.do \notin PaymentOf
        <5>1. payment' = payment
          <6>1. CASE st.do \in RowOf
            BY <1>2, <4>2, <6>1 DEF Writes, WritesRow, WritesPayment, PutsRow, RowOf, PaymentOf
          <6>2. CASE st.do \in {"tier", "cap", "pastDue", "promote"}
            BY <1>0, <1>2, <6>2, WritesTenant
          <6>3. CASE st.do = "subscribe"
            BY <1>2, <6>3 DEF Writes, WritesRow, WritesPayment
          <6> QED BY <1>3, <1>5, <4>2, <6>1, <6>2, <6>3 DEF Kinds
        <5> QED BY <5>1
      <4> QED BY <4>1, <4>2
    <3>3. \A s, purpose : InFlight(s, purpose)' \subseteq InFlight(s, purpose)
      BY <3>2, FlightsShrink
    <3>4. OneFlight'
      BY <3>1, <3>3 DEF OneFlight
    <3>5. NoneBefore'
      BY <1>2, <2>1, <3>1, <3>3 DEF NoneBefore, Changing3
    <3>6. \A d \in Callers : \A x \in All(call'[d]) : x.do \in Settling => x \in All(call[d])
      BY <1>2, <2>1
    <3>7. \A x : Raises(x) => x.do \in Settling
      BY DEF Raises, Settling
    <3>8. OneSettles'
      BY <3>1, <3>2, <3>6, <3>7 DEF OneSettles
    <3> QED BY <3>4, <3>5, <3>8
  <2> QED BY <1>2, <2>1, <2>2, <2>3 DEF FlightInv
<1> QED BY <1>4, <1>5

\* A call with nothing to write asks for nothing.
LEMMA NoCallQuiet == All(NoCall) = {} /\ ~Asking(NoCall) /\ ChargesOne(NoCall)
<1>1. NoCall.phase = "none" /\ NoCall.todo = <<>>
  BY DEF NoCall
<1>2. Has(NoCall.todo) = {}
  BY <1>1, HasNone
<1>3. ~Asking(NoCall)
  BY <1>2, AskingIs
<1>4. ChargesOne(NoCall)
  BY <1>1, <1>2 DEF ChargesOne
<1> QED BY <1>3, <1>4, NoCallStands

LEMMA FlightDies ==
    ASSUME FlightInv, StandingInv', NEW c \in Callers, Dies(c)
    PROVE  FlightInv'
<1>1. /\ call'[c] = NoCall /\ \A d \in Callers \ {c} : call'[d] = call[d]
      /\ UNCHANGED <<day, tenant, subscription, payment>>
      /\ strayed' = strayed \cup {"interrupted"}
  BY DEF Dies, FlightInv, StandingInv, TypesInv
<1>2. All(NoCall) = {} /\ ~Asking(NoCall) /\ ChargesOne(NoCall)
  BY NoCallQuiet
<1>3. OneAsker'
  BY <1>1, <1>2 DEF FlightInv, OneAsker
<1>4. \A d \in Callers : ChargesOne(call'[d])
  BY <1>1, <1>2 DEF FlightInv
<1>5. ASSUME Calm' PROVE OneFlight' /\ NoneBefore' /\ OneSettles'
  <2>1. OneFlight /\ NoneBefore /\ OneSettles
    BY <1>1, <1>5 DEF Calm, FlightInv
  <2>2. \A s, purpose : InFlight(s, purpose)' = InFlight(s, purpose)
    BY <1>1 DEF InFlight
  <2>3. \A d \in Callers : \A st \in All(call'[d]) : st \in All(call[d])
    BY <1>1, <1>2
  <2>4. OneFlight'
    BY <2>1, <2>2 DEF OneFlight
  <2>5. NoneBefore'
    BY <2>1, <2>2, <2>3 DEF NoneBefore
  <2>6. OneSettles'
    BY <1>1, <2>1, <2>3 DEF OneSettles
  <2> QED BY <2>4, <2>5, <2>6
<1> QED BY <1>3, <1>4, <1>5 DEF FlightInv

LEMMA FlightStands ==
    ASSUME FlightInv, StandingInv', UNCHANGED <<payment, call, strayed>>
    PROVE  FlightInv'
<1>1. OneAsker' /\ \A c \in Callers : ChargesOne(call'[c])
  BY DEF FlightInv, OneAsker
<1>2. ASSUME Calm' PROVE OneFlight' /\ NoneBefore' /\ OneSettles'
  <2>1. OneFlight /\ NoneBefore /\ OneSettles
    BY <1>2 DEF Calm, FlightInv
  <2>2. \A s, purpose : InFlight(s, purpose)' = InFlight(s, purpose)
    BY DEF InFlight
  <2> QED BY <2>1, <2>2 DEF OneFlight, NoneBefore, OneSettles
<1> QED BY <1>1, <1>2 DEF FlightInv

LEMMA FlightBegins == BillingInit => FlightInv
<1> SUFFICES ASSUME BillingInit PROVE FlightInv
  OBVIOUS
<1>1. \A c \in Callers : call[c] = NoCall
  BY DEF BillingInit
<1>2. OneAsker /\ (\A c \in Callers : ChargesOne(call[c])) /\ NoneBefore /\ OneSettles
  BY <1>1, NoCallQuiet DEF OneAsker, NoneBefore, OneSettles
<1>3. \A p \in DOMAIN payment : payment[p].purpose = "INITIAL"
  <2>1. CASE payment = <<>>
    BY <2>1
  <2>2. ASSUME NEW from, NEW paid,
               paid = [NewPayment(1, "INITIAL", Same, 0, FALSE) EXCEPT
                          !.status = "VERIFIED", !.stamped = TRUE, !.from = {from}],
               payment = <<paid>>
        PROVE  \A p \in DOMAIN payment : payment[p].purpose = "INITIAL"
    <3>1. paid.purpose = "INITIAL"
      BY <2>2 DEF NewPayment
    <3>2. DOMAIN payment = 1 .. 1 /\ payment[1] = paid
      BY <2>2
    <3> HIDE <2>2
    <3>3. \A p \in DOMAIN payment : p = 1
      BY <3>2
    <3> QED BY <3>1, <3>2, <3>3
  <2> QED BY <2>1, <2>2 DEF BillingInit
<1>4. OneFlight
  BY <1>3 DEF OneFlight, InFlight, Changing3
<1> QED BY <1>2, <1>4, StandingBegins DEF FlightInv

LEMMA FlightKeeps == FlightInv /\ [BillingNext]_billingVars => FlightInv'
<1> SUFFICES ASSUME FlightInv, [BillingNext]_billingVars PROVE FlightInv'
  OBVIOUS
<1>0. StandingInv' /\ TypesInv
  BY StandingKeeps DEF FlightInv, StandingInv
<1>1. CASE NextDay
  <2>1. UNCHANGED <<payment, call, strayed>>
    BY <1>1 DEF NextDay
  <2> QED BY <1>0, <2>1, FlightStands
<1>2. ASSUME NEW c \in Callers, Requests(c) \/ Operates(c) PROVE FlightInv'
  BY <1>0, <1>2, RequestDecides, OperationDecides, FlightDecided
<1>3. ASSUME NEW c \in Callers, RunsJob(c) \/ GoesOnJob(c) PROVE FlightInv'
  BY <1>0, <1>3, FlightJob
<1>4. ASSUME NEW c \in Callers, Continues(c) PROVE FlightInv'
  BY <1>0, <1>4, FlightContinues
<1>5. ASSUME NEW c \in Callers, Dies(c) PROVE FlightInv'
  BY <1>0, <1>5, FlightDies
<1>6. CASE UNCHANGED billingVars
  <2>1. UNCHANGED <<payment, call, strayed>>
    BY <1>6 DEF billingVars
  <2> QED BY <1>0, <2>1, FlightStands
<1> QED BY <1>1, <1>2, <1>3, <1>4, <1>5, <1>6 DEF BillingNext

LEMMA FlightHolds == BillingSpec => []FlightInv
<1> QED BY FlightBegins, FlightKeeps, PTL DEF BillingSpec

\* A tenant has one subscription that is not over, and each of its subscriptions one change
\* of the plan, one of the seats and one renewal that await payment or effect: the first
\* unless two decisions overlapped or a payment of a subscription that is over was acted on,
\* the rest unless two requests overlapped or a decided payment came back or was written twice
\* at once.
THEOREM OneOfEach == BillingSpec => []OneAtATime
<1>1. ASSUME FlightInv PROVE OneChangeInFlight
  <2>1. CASE ~Calm
    BY <2>1 DEF Calm, OneChangeInFlight, Unless
  <2>2. CASE Calm
    <3>1. ASSUME NEW s, NEW purpose \in Changing3 PROVE Cardinality(InFlight(s, purpose)) <= 1
      <4> DEFINE P == InFlight(s, purpose)
      <4>1. \A p, q \in P : p = q
        BY <1>1, <2>2 DEF FlightInv, OneFlight
      <4> HIDE DEF P
      <4>2. P = {} \/ \E p : P = {p}
        BY <4>1
      <4>3. CASE P = {}
        <5>1. Cardinality({}) = 0
          BY FS_EmptySet, Zenon
        <5> QED BY <4>3, <5>1 DEF P
      <4>4. ASSUME NEW p, P = {p} PROVE Cardinality(P) <= 1
        <5>1. Cardinality({p}) = 1
          BY FS_Singleton, Zenon
        <5> QED BY <4>4, <5>1
      <4> QED BY <4>2, <4>3, <4>4 DEF P
    <3> QED BY <3>1 DEF OneChangeInFlight, Changing3
  <2> QED BY <2>1, <2>2
<1>2. BillingSpec => []OneChangeInFlight
  BY <1>1, FlightHolds, PTL
<1> QED BY <1>2, LiveIsOne, PTL DEF OneAtATime

-----------------------------------------------------------------------------
(* The tenant's access: what will be of it when the statements in hand are *)
(* written.  W is the set of those statements, t the tenant, rows the      *)
(* subscriptions and pays the payments.                                    *)

Orderly == strayed \cap {"interrupted", "crossed", "ended", "again", "override"} = {}

AllInHand == UNION {All(call[c]) : c \in Callers}

\* Statements about access: the only ones that tell it.
Granting == {"plan", "status", "tier", "cap", "pastDue"}

StatusOf(st, s) == st.do = "status" /\ st.s = s
PlanOf(st, s) == st.do = "plan" /\ st.s = s

\* The row will be ACTIVE; it will not be.
BecomesActive(W, rows, s) ==
    /\ \A st \in W : StatusOf(st, s) => st.status = "ACTIVE"
    /\ (\E st \in W : StatusOf(st, s)) \/ rows[s].status = "ACTIVE"

NotActive(W, rows, s) ==
    /\ \A st \in W : StatusOf(st, s) => st.status # "ACTIVE"
    /\ (\E st \in W : StatusOf(st, s)) \/ rows[s].status # "ACTIVE"

\* The row will have the tier and the interval.
PlanTo(W, rows, s, tier, interval) ==
    /\ \A st \in W : PlanOf(st, s) => st.tier = tier /\ Or(st.interval, rows[s].interval) = interval
    /\ (\E st \in W : PlanOf(st, s)) \/ (rows[s].tier = tier /\ rows[s].interval = interval)

\* The tenant will have the tier, the cap, and be past due or not.
TierTo(W, t, tier) == /\ \A st \in W : st.do = "tier" => st.tier = tier
                      /\ (\E st \in W : st.do = "tier") \/ t.tier = tier
CapTo(W, t, cap) == /\ \A st \in W : st.do = "cap" => st.cap = cap
                    /\ (\E st \in W : st.do = "cap") \/ t.cap = cap
DueTo(W, t, b) == /\ \A st \in W : st.do = "pastDue" => st.to = b
                  /\ (\E st \in W : st.do = "pastDue") \/ t.pastDue = b

Granted(W, t, rows, s, tier, interval) ==
    /\ BecomesActive(W, rows, s) /\ \A r \in DOMAIN rows \ {s} : NotActive(W, rows, r)
    /\ PlanTo(W, rows, s, tier, interval) /\ TierTo(W, t, tier)
    /\ CapTo(W, t, CapOf(tier, interval)) /\ DueTo(W, t, FALSE)

Ungranted(W, t, rows) ==
    /\ \A r \in DOMAIN rows : NotActive(W, rows, r)
    /\ TierTo(W, t, Free) /\ CapTo(W, t, CapOf(Free, "MONTHLY"))

Access(W, t, rows) ==
    \/ Ungranted(W, t, rows)
    \/ \E s \in DOMAIN rows : \E tier, interval : Granted(W, t, rows, s, tier, interval)

\* A payment that nobody decided on, and what a refund gives back.
Undecided(pay) == pay.status \in {"PENDING", "REPORTED"} /\ pay.from = {}
GivesBack(from, purpose) ==
    IF purpose = "INITIAL" THEN from.tenantTier = Free
    ELSE from.tenantTier = from.tier /\ from.status = "ACTIVE"

\* A row that was never paid for has its first payment only, and one whose first payment
\* nobody decided on does not become ACTIVE.
Unpaid(W, rows, pays) ==
    /\ \A p \in DOMAIN pays :
          /\ pays[p].purpose # "INITIAL" => rows[pays[p].of].status # "PENDING_PAYMENT"
          /\ pays[p].purpose = "INITIAL" /\ Undecided(pays[p]) => NotActive(W, rows, pays[p].of)
          /\ \A from \in pays[p].from : GivesBack(from, pays[p].purpose)
    /\ \A st \in W :
          /\ st.do = "charge" =>
                IF st.row.purpose = "INITIAL" THEN NotActive(W, rows, st.row.of)
                ELSE rows[st.row.of].status # "PENDING_PAYMENT"
          /\ st.do = "status" => st.status # "PENDING_PAYMENT"
          /\ st.do \in {"payment", "cancel"} /\ st.status \in {"PENDING", "REPORTED"}
                /\ pays[st.p].purpose = "INITIAL" /\ pays[st.p].from = {}
             => NotActive(W, rows, pays[st.p].of)
          /\ st.do = "snapshot" => GivesBack(st.from, pays[st.p].purpose)

\* A row has one first payment, in the table or about to be inserted.
OneInitial ==
    /\ \A p, q \in DOMAIN payment :
          payment[p].purpose = "INITIAL" /\ payment[q].purpose = "INITIAL" /\ payment[p].of = payment[q].of
          => p = q
    /\ \A c \in Callers : \A st \in All(call[c]) : st.do = "charge" /\ st.row.purpose = "INITIAL" =>
          /\ \A p \in DOMAIN payment : payment[p].purpose = "INITIAL" => payment[p].of # st.row.of
          /\ \A d \in Callers : \A su \in All(call[d]) :
                su.do = "charge" /\ su.row.purpose = "INITIAL" /\ su.row.of = st.row.of => c = d

\* A change that takes effect at once is to a year.
Yearly ==
    /\ \A p \in DOMAIN payment : payment[p].immediate => payment[p].target.interval = "YEARLY"
    /\ \A c \in Callers : \A st \in All(call[c]) :
          st.do = "charge" /\ st.row.immediate => st.row.target.interval = "YEARLY"

AccessInv ==
    /\ FlightInv /\ OneInitial /\ Yearly
    /\ Orderly => Access(AllInHand, tenant, subscription) /\ Unpaid(AllInHand, subscription, payment)

LEMMA SameActive ==
    ASSUME NEW W, NEW V, NEW rows, NEW rows1, NEW s,
           \A st \in W : st.do = "status" => st \in V, \A st \in V : st.do = "status" => st \in W,
           rows1[s].status = rows[s].status, NotActive(W, rows, s)
    PROVE  NotActive(V, rows1, s)
  BY DEF NotActive, StatusOf

\* Access depends on the statements about it only.
LEMMA SameAccess ==
    ASSUME NEW W, NEW V, NEW t, NEW t1, NEW rows,
           \A st \in W : st.do \in Granting => st \in V,
           \A st \in V : st.do \in Granting => st \in W,
           t1.tier = t.tier, t1.cap = t.cap, t1.pastDue = t.pastDue, Access(W, t, rows)
    PROVE  Access(V, t1, rows)
<1>0. \A s : NotActive(W, rows, s) => NotActive(V, rows, s)
  BY SameActive DEF Granting
<1>1. \A tier : TierTo(W, t, tier) => TierTo(V, t1, tier)
  BY DEF TierTo, Granting
<1>2. \A cap : CapTo(W, t, cap) => CapTo(V, t1, cap)
  BY DEF CapTo, Granting
<1>3. \A b : DueTo(W, t, b) => DueTo(V, t1, b)
  BY DEF DueTo, Granting
<1>4. \A s : BecomesActive(W, rows, s) => BecomesActive(V, rows, s)
  BY DEF BecomesActive, StatusOf, Granting
<1>5. \A s, tier, interval : PlanTo(W, rows, s, tier, interval) => PlanTo(V, rows, s, tier, interval)
  BY DEF PlanTo, PlanOf, Granting
<1>6. CASE Ungranted(W, t, rows)
  BY <1>0, <1>1, <1>2, <1>6 DEF Ungranted, Access
<1>7. ASSUME NEW s \in DOMAIN rows, NEW tier, NEW interval, Granted(W, t, rows, s, tier, interval)
      PROVE  Access(V, t1, rows)
  <2>1. Granted(V, t1, rows, s, tier, interval)
    BY <1>0, <1>1, <1>2, <1>3, <1>4, <1>5, <1>7 DEF Granted
  <2> QED BY <2>1 DEF Access
<1> QED BY <1>6, <1>7 DEF Access

\* A statement that is written is no longer needed to tell what will be.
WritesTo(st, t, t1, rows, rows1) ==
    /\ DOMAIN rows1 = DOMAIN rows
    /\ \A k \in DOMAIN rows :
          /\ rows1[k].status = IF StatusOf(st, k) THEN st.status ELSE rows[k].status
          /\ rows1[k].tier = IF PlanOf(st, k) THEN st.tier ELSE rows[k].tier
          /\ rows1[k].interval = IF PlanOf(st, k) THEN Or(st.interval, rows[k].interval)
                                 ELSE rows[k].interval
    /\ t1.tier = IF st.do = "tier" THEN st.tier ELSE t.tier
    /\ t1.cap = IF st.do = "cap" THEN st.cap ELSE t.cap
    /\ t1.pastDue = IF st.do = "pastDue" THEN st.to ELSE t.pastDue

LEMMA ActiveWritten ==
    ASSUME NEW st, NEW W, st \in W, NEW V \in SUBSET W, W \ {st} \subseteq V,
           NEW t, NEW t1, NEW rows, NEW rows1, WritesTo(st, t, t1, rows, rows1),
           NEW s \in DOMAIN rows
    PROVE  /\ NotActive(W, rows, s) => NotActive(V, rows1, s)
           /\ BecomesActive(W, rows, s) => BecomesActive(V, rows1, s)
<1>1. rows1[s].status = IF StatusOf(st, s) THEN st.status ELSE rows[s].status
  BY DEF WritesTo
<1>2. NotActive(W, rows, s) => NotActive(V, rows1, s)
  BY <1>1 DEF NotActive
<1>3. BecomesActive(W, rows, s) => BecomesActive(V, rows1, s)
  BY <1>1 DEF BecomesActive
<1> QED BY <1>2, <1>3

LEMMA AccessWritten ==
    ASSUME NEW st, NEW W, st \in W, NEW V \in SUBSET W, W \ {st} \subseteq V,
           NEW t, NEW t1, NEW rows, NEW rows1, WritesTo(st, t, t1, rows, rows1), Access(W, t, rows)
    PROVE  Access(V, t1, rows1)
<1>0. DOMAIN rows1 = DOMAIN rows
  BY DEF WritesTo
<1>1. \A tier : TierTo(W, t, tier) => TierTo(V, t1, tier)
  <2>1. t1.tier = IF st.do = "tier" THEN st.tier ELSE t.tier
    BY DEF WritesTo
  <2> QED BY <2>1 DEF TierTo
<1>2. \A cap : CapTo(W, t, cap) => CapTo(V, t1, cap)
  <2>1. t1.cap = IF st.do = "cap" THEN st.cap ELSE t.cap
    BY DEF WritesTo
  <2> QED BY <2>1 DEF CapTo
<1>3. \A b : DueTo(W, t, b) => DueTo(V, t1, b)
  <2>1. t1.pastDue = IF st.do = "pastDue" THEN st.to ELSE t.pastDue
    BY DEF WritesTo
  <2> QED BY <2>1 DEF DueTo
<1>4. ASSUME NEW s \in DOMAIN rows, NEW tier, NEW interval, PlanTo(W, rows, s, tier, interval)
      PROVE  PlanTo(V, rows1, s, tier, interval)
  <2>1. /\ rows1[s].tier = IF PlanOf(st, s) THEN st.tier ELSE rows[s].tier
        /\ rows1[s].interval = IF PlanOf(st, s) THEN Or(st.interval, rows[s].interval)
                               ELSE rows[s].interval
    BY DEF WritesTo
  <2>2. CASE PlanOf(st, s)
    <3>1. rows1[s].tier = tier /\ rows1[s].interval = interval
      BY <1>4, <2>1, <2>2 DEF PlanTo
    <3>2. \A su \in V : PlanOf(su, s) => su.tier = tier /\ Or(su.interval, interval) = interval
      BY <1>4 DEF PlanTo, Or
    <3> QED BY <3>1, <3>2 DEF PlanTo
  <2>3. CASE ~PlanOf(st, s)
    BY <1>4, <2>1, <2>3 DEF PlanTo
  <2> QED BY <2>2, <2>3
<1>5. CASE Ungranted(W, t, rows)
  <2>1. \A r \in DOMAIN rows : NotActive(V, rows1, r)
    BY <1>5, ActiveWritten DEF Ungranted
  <2> QED BY <1>0, <1>1, <1>2, <1>5, <2>1 DEF Ungranted, Access
<1>6. ASSUME NEW s \in DOMAIN rows, NEW tier, NEW interval, Granted(W, t, rows, s, tier, interval)
      PROVE  Access(V, t1, rows1)
  <2>1. BecomesActive(V, rows1, s) /\ \A r \in DOMAIN rows \ {s} : NotActive(V, rows1, r)
    BY <1>6, ActiveWritten DEF Granted
  <2>2. PlanTo(V, rows1, s, tier, interval)
    BY <1>4, <1>6 DEF Granted
  <2>3. Granted(V, t1, rows1, s, tier, interval)
    BY <1>0, <1>1, <1>2, <1>3, <1>6, <2>1, <2>2 DEF Granted
  <2> QED BY <1>0, <2>3 DEF Access
<1> QED BY <1>5, <1>6 DEF Access

LEMMA WritesEffect ==
    ASSUME TypesInv, NEW st \in Statement, Refers(st, DOMAIN subscription, DOMAIN payment), Writes(st),
           st.do # "subscribe"
    PROVE  WritesTo(st, tenant, tenant', subscription, subscription')
<1>0. /\ subscription \in Seq(Subscription) /\ payment \in Seq(Payment) /\ tenant \in Tenant
      /\ st.do \in Kinds
  BY StatementParts DEF TypesInv, BillingTypeOK
<1>1. CASE st.do = "plan"
  BY <1>0, <1>1, WritesPlan DEF WritesTo, StatusOf, PlanOf, Refers, RowOf
<1>2. CASE st.do = "status"
  BY <1>0, <1>2, WritesStatus DEF WritesTo, StatusOf, PlanOf, Refers, RowOf
<1>3. CASE st.do \in {"seats", "scheduleSeats"}
  BY <1>0, <1>3, WritesSeats DEF WritesTo, StatusOf, PlanOf, Refers, RowOf
<1>4. CASE st.do = "schedule"
  BY <1>0, <1>4, WritesSchedule DEF WritesTo, StatusOf, PlanOf, Refers, RowOf
<1>5. CASE st.do \in PaymentOf
  BY <1>0, <1>5, WritesOfPayment DEF WritesTo, StatusOf, PlanOf, Refers, PaymentOf
<1>6. CASE st.do = "charge"
  BY <1>0, <1>6, WritesCharge DEF WritesTo, StatusOf, PlanOf
<1>7. CASE st.do \in {"tier", "cap", "pastDue", "promote"}
  BY <1>0, <1>7, WritesTenant DEF WritesTo, StatusOf, PlanOf
<1> QED BY <1>0, <1>1, <1>2, <1>3, <1>4, <1>5, <1>6, <1>7 DEF Kinds, RowOf

\* What a statement leaves of the payments.
PaysTo(st, pays, pays1) ==
    /\ DOMAIN pays1 = DOMAIN pays
    /\ \A p \in DOMAIN pays :
          /\ pays1[p].of = pays[p].of /\ pays1[p].purpose = pays[p].purpose
          /\ pays1[p].target = pays[p].target /\ pays1[p].immediate = pays[p].immediate
          /\ pays1[p].status = IF st.do \in PaymentOf /\ st.p = p
                               THEN IF st.do \in {"payment", "cancel"} THEN st.status ELSE "VERIFIED"
                               ELSE pays[p].status
          /\ pays1[p].from = IF st.do = "snapshot" /\ st.p = p THEN {st.from} ELSE pays[p].from

LEMMA PaysWritten ==
    ASSUME TypesInv, NEW st \in Statement, Refers(st, DOMAIN subscription, DOMAIN payment), Writes(st),
           st.do # "charge"
    PROVE  PaysTo(st, payment, payment')
<1>0. /\ subscription \in Seq(Subscription) /\ payment \in Seq(Payment) /\ tenant \in Tenant
      /\ st.do \in Kinds
  BY StatementParts DEF TypesInv, BillingTypeOK
<1>1. CASE st.do \in PaymentOf
  BY <1>0, <1>1, WritesOfPayment DEF PaysTo, Refers, PaymentOf
<1>2. CASE st.do \notin PaymentOf
  <2>1. payment' = payment
    <3>1. CASE st.do \in RowOf
      BY <1>2, <3>1 DEF Writes, WritesRow, WritesPayment, PutsRow, RowOf, PaymentOf
    <3>2. CASE st.do \in {"tier", "cap", "pastDue", "promote"}
      BY <1>0, <3>2, WritesTenant
    <3>3. CASE st.do = "subscribe"
      BY <3>3 DEF Writes, WritesRow, WritesPayment
    <3> QED BY <1>0, <1>2, <3>1, <3>2, <3>3 DEF Kinds
  <2> QED BY <1>2, <2>1 DEF PaysTo, PaymentOf
<1> QED BY <1>1, <1>2

\* What holds of unpaid rows holds when a statement is written.
LEMMA UnpaidWritten ==
    ASSUME NEW st, NEW W, st \in W, NEW V \in SUBSET W, W \ {st} \subseteq V,
           NEW t, NEW t1, NEW rows, NEW rows1, WritesTo(st, t, t1, rows, rows1),
           NEW pays, NEW pays1, PaysTo(st, pays, pays1), Unpaid(W, rows, pays),
           \A p \in DOMAIN pays : pays[p].of \in DOMAIN rows,
           \A su \in W : Refers(su, DOMAIN rows, DOMAIN pays)
    PROVE  Unpaid(V, rows1, pays1)
<1>1. \A k \in DOMAIN rows : NotActive(W, rows, k) => NotActive(V, rows1, k)
  BY ActiveWritten
<1>2. \A k \in DOMAIN rows : rows[k].status # "PENDING_PAYMENT" => rows1[k].status # "PENDING_PAYMENT"
  <2>1. \A k \in DOMAIN rows : rows1[k].status = IF StatusOf(st, k) THEN st.status ELSE rows[k].status
    BY DEF WritesTo
  <2>2. st.do = "status" => st.status # "PENDING_PAYMENT"
    BY DEF Unpaid
  <2> QED BY <2>1, <2>2 DEF StatusOf
<1>3. /\ DOMAIN pays1 = DOMAIN pays
      /\ \A p \in DOMAIN pays : /\ pays1[p].of = pays[p].of /\ pays1[p].purpose = pays[p].purpose
                                /\ pays1[p].from = {} => pays[p].from = {}
  BY DEF PaysTo
<1>4. ASSUME NEW p \in DOMAIN pays
      PROVE  /\ pays1[p].purpose # "INITIAL" => rows1[pays1[p].of].status # "PENDING_PAYMENT"
             /\ pays1[p].purpose = "INITIAL" /\ Undecided(pays1[p]) => NotActive(V, rows1, pays1[p].of)
             /\ \A from \in pays1[p].from : GivesBack(from, pays1[p].purpose)
  <2>1. pays1[p].purpose # "INITIAL" => rows1[pays1[p].of].status # "PENDING_PAYMENT"
    BY <1>2, <1>3 DEF Unpaid
  <2>2. ASSUME pays1[p].purpose = "INITIAL", Undecided(pays1[p]) PROVE NotActive(V, rows1, pays1[p].of)
    <3>1. pays[p].purpose = "INITIAL" /\ pays[p].from = {} /\ pays1[p].status \in {"PENDING", "REPORTED"}
      BY <1>3, <2>2 DEF Undecided
    <3>2. CASE st.do \in PaymentOf /\ st.p = p
      <4>1. pays1[p].status = IF st.do \in {"payment", "cancel"} THEN st.status ELSE "VERIFIED"
        BY <3>2 DEF PaysTo
      <4>2. st.do \in {"payment", "cancel"} /\ st.status \in {"PENDING", "REPORTED"}
        BY <3>1, <4>1
      <4>3. NotActive(W, rows, pays[p].of)
        BY <3>1, <3>2, <4>2 DEF Unpaid
      <4> QED BY <1>1, <1>3, <4>3
    <3>3. CASE ~(st.do \in PaymentOf /\ st.p = p)
      <4>1. pays1[p].status = pays[p].status
        BY <3>3 DEF PaysTo
      <4>2. Undecided(pays[p])
        BY <3>1, <4>1 DEF Undecided
      <4>3. NotActive(W, rows, pays[p].of)
        BY <3>1, <4>2 DEF Unpaid
      <4> QED BY <1>1, <1>3, <4>3
    <3> QED BY <3>2, <3>3
  <2>3. \A from \in pays1[p].from : GivesBack(from, pays1[p].purpose)
    <3>1. CASE st.do = "snapshot" /\ st.p = p
      <4>1. pays1[p].from = {st.from}
        BY <3>1 DEF PaysTo
      <4>2. GivesBack(st.from, pays[p].purpose)
        BY <3>1 DEF Unpaid
      <4> QED BY <1>3, <4>1, <4>2
    <3>2. CASE ~(st.do = "snapshot" /\ st.p = p)
      <4>1. pays1[p].from = pays[p].from
        BY <3>2 DEF PaysTo
      <4> QED BY <1>3, <4>1 DEF Unpaid
    <3> QED BY <3>1, <3>2
  <2> QED BY <2>1, <2>2, <2>3
<1>5. ASSUME NEW su \in V
      PROVE  /\ su.do = "charge" =>
                   IF su.row.purpose = "INITIAL" THEN NotActive(V, rows1, su.row.of)
                   ELSE rows1[su.row.of].status # "PENDING_PAYMENT"
             /\ su.do = "status" => su.status # "PENDING_PAYMENT"
             /\ su.do \in {"payment", "cancel"} /\ su.status \in {"PENDING", "REPORTED"}
                   /\ pays1[su.p].purpose = "INITIAL" /\ pays1[su.p].from = {}
                => NotActive(V, rows1, pays1[su.p].of)
             /\ su.do = "snapshot" => GivesBack(su.from, pays1[su.p].purpose)
  <2>1. su \in W /\ Refers(su, DOMAIN rows, DOMAIN pays)
    OBVIOUS
  <2>2. /\ su.do = "charge" => su.row.of \in DOMAIN rows
        /\ su.do \in {"payment", "cancel", "snapshot"} => su.p \in DOMAIN pays
    BY <2>1 DEF Refers, PaymentOf
  <2>3. su.do = "charge" =>
            IF su.row.purpose = "INITIAL" THEN NotActive(V, rows1, su.row.of)
            ELSE rows1[su.row.of].status # "PENDING_PAYMENT"
    BY <1>1, <1>2, <2>1, <2>2 DEF Unpaid
  <2>4. su.do = "status" => su.status # "PENDING_PAYMENT"
    BY <2>1 DEF Unpaid
  <2>5. su.do \in {"payment", "cancel"} /\ su.status \in {"PENDING", "REPORTED"}
           /\ pays1[su.p].purpose = "INITIAL" /\ pays1[su.p].from = {}
        => NotActive(V, rows1, pays1[su.p].of)
    BY <1>1, <1>3, <2>1, <2>2 DEF Unpaid
  <2>6. su.do = "snapshot" => GivesBack(su.from, pays1[su.p].purpose)
    BY <1>3, <2>1, <2>2 DEF Unpaid
  <2> QED BY <2>3, <2>4, <2>5, <2>6
<1> QED BY <1>3, <1>4, <1>5 DEF Unpaid

\* A payment is inserted.
LEMMA UnpaidInserted ==
    ASSUME NEW st, NEW W, st \in W, NEW V \in SUBSET W, W \ {st} \subseteq V, st.do = "charge",
           NEW rows, NEW pays, NEW pays1, NEW n, Unpaid(W, rows, pays),
           \A su \in W : Refers(su, DOMAIN rows, DOMAIN pays),
           DOMAIN pays1 = DOMAIN pays \cup {n}, n \notin DOMAIN pays, pays1[n] = st.row,
           \A p \in DOMAIN pays : pays1[p] = pays[p], st.row.from = {}
    PROVE  Unpaid(V, rows, pays1)
<1>1. \A k : NotActive(W, rows, k) => NotActive(V, rows, k)
  BY SameActive
<1>2. ASSUME NEW p \in DOMAIN pays
      PROVE  /\ pays1[p].purpose # "INITIAL" => rows[pays1[p].of].status # "PENDING_PAYMENT"
             /\ pays1[p].purpose = "INITIAL" /\ Undecided(pays1[p]) => NotActive(V, rows, pays1[p].of)
             /\ \A from \in pays1[p].from : GivesBack(from, pays1[p].purpose)
  BY <1>1 DEF Unpaid
<1>3. /\ pays1[n].purpose # "INITIAL" => rows[pays1[n].of].status # "PENDING_PAYMENT"
      /\ pays1[n].purpose = "INITIAL" => NotActive(V, rows, pays1[n].of)
      /\ pays1[n].from = {}
  BY <1>1 DEF Unpaid
<1>4. ASSUME NEW su \in V
      PROVE  /\ su.do = "charge" =>
                   IF su.row.purpose = "INITIAL" THEN NotActive(V, rows, su.row.of)
                   ELSE rows[su.row.of].status # "PENDING_PAYMENT"
             /\ su.do = "status" => su.status # "PENDING_PAYMENT"
             /\ su.do \in {"payment", "cancel"} /\ su.status \in {"PENDING", "REPORTED"}
                   /\ pays1[su.p].purpose = "INITIAL" /\ pays1[su.p].from = {}
                => NotActive(V, rows, pays1[su.p].of)
             /\ su.do = "snapshot" => GivesBack(su.from, pays1[su.p].purpose)
  <2>1. su \in W /\ (su.do \in {"payment", "cancel", "snapshot"} => su.p \in DOMAIN pays)
    BY DEF Refers, PaymentOf
  <2>2. su.do = "charge" =>
            IF su.row.purpose = "INITIAL" THEN NotActive(V, rows, su.row.of)
            ELSE rows[su.row.of].status # "PENDING_PAYMENT"
    BY <1>1, <2>1 DEF Unpaid
  <2>3. su.do = "status" => su.status # "PENDING_PAYMENT"
    BY <2>1 DEF Unpaid
  <2>4. su.do \in {"payment", "cancel"} /\ su.status \in {"PENDING", "REPORTED"}
           /\ pays1[su.p].purpose = "INITIAL" /\ pays1[su.p].from = {}
        => NotActive(V, rows, pays1[su.p].of)
    BY <1>1, <2>1 DEF Unpaid
  <2>5. su.do = "snapshot" => GivesBack(su.from, pays1[su.p].purpose)
    BY <2>1 DEF Unpaid
  <2> QED BY <2>2, <2>3, <2>4, <2>5
<1>5. \A p \in DOMAIN pays1 : p \in DOMAIN pays \/ p = n
  OBVIOUS
<1> QED BY <1>2, <1>3, <1>4, <1>5 DEF Unpaid

\* The payments have changed in nothing but being decided on.
Alike(pays, pays1) ==
    /\ DOMAIN pays1 = DOMAIN pays
    /\ \A p \in DOMAIN pays : /\ pays1[p].of = pays[p].of /\ pays1[p].purpose = pays[p].purpose
                              /\ pays1[p].from = pays[p].from
                              /\ Undecided(pays1[p]) => Undecided(pays[p])

\* Nothing that the row's first payment has still to become can be at odds with its being ACTIVE.
Paid(W, pays, s) ==
    /\ \A p \in DOMAIN pays : pays[p].purpose = "INITIAL" /\ pays[p].of = s => ~Undecided(pays[p])
    /\ \A su \in W :
          /\ su.do = "charge" /\ su.row.purpose = "INITIAL" => su.row.of # s
          /\ su.do \in {"payment", "cancel"} => pays[su.p].of # s

LEMMA PaidActive ==
    ASSUME NEW W, \A st \in W : st.do \in QuietKinds, NEW rows, NEW pays, NEW pays1, Alike(pays, pays1),
           Unpaid(W, rows, pays), NEW s, rows[s].status = "ACTIVE"
    PROVE  Paid(W, pays1, s)
<1>1. ~NotActive(W, rows, s)
  BY DEF NotActive, StatusOf, QuietKinds
<1>2. \A p \in DOMAIN pays1 : pays1[p].purpose = "INITIAL" /\ pays1[p].of = s => ~Undecided(pays1[p])
  BY <1>1 DEF Alike, Unpaid
<1>3. \A su \in W : su.do = "charge" /\ su.row.purpose = "INITIAL" => su.row.of # s
  BY <1>1 DEF Unpaid
<1>4. \A su \in W : su.do \notin {"payment", "cancel"}
  BY DEF QuietKinds
<1> QED BY <1>2, <1>3, <1>4 DEF Paid

\* More is in hand than before.
LEMMA UnpaidAdded ==
    ASSUME NEW A, NEW W, NEW rows, NEW pays, NEW pays1, Unpaid(W, rows, pays), Alike(pays, pays1),
           \A st \in W : st.do \in {"payment", "cancel", "snapshot"} => st.p \in DOMAIN pays,
           \A st \in A : /\ st.do = "status" =>
                               /\ st.status # "PENDING_PAYMENT"
                               /\ st.status = "ACTIVE" => Paid(W, pays1, st.s)
                         /\ st.do = "charge" =>
                               /\ st.row.purpose # "INITIAL"
                               /\ rows[st.row.of].status # "PENDING_PAYMENT"
                         /\ st.do \in {"payment", "cancel"} /\ st.status \in {"PENDING", "REPORTED"}
                               /\ pays1[st.p].purpose = "INITIAL" /\ pays1[st.p].from = {}
                            => NotActive(A \cup W, rows, pays1[st.p].of)
                         /\ st.do = "snapshot" => GivesBack(st.from, pays1[st.p].purpose)
    PROVE  Unpaid(A \cup W, rows, pays1)
<1> DEFINE V == A \cup W
<1>1. ASSUME NEW s, NotActive(W, rows, s), \A st \in A : StatusOf(st, s) => st.status # "ACTIVE"
      PROVE  NotActive(V, rows, s)
  BY <1>1 DEF NotActive
<1>2. ASSUME NEW s, ~Paid(W, pays1, s) PROVE \A st \in A : StatusOf(st, s) => st.status # "ACTIVE"
  BY <1>2 DEF StatusOf
<1>3. ASSUME NEW p \in DOMAIN pays1
      PROVE  /\ pays1[p].purpose # "INITIAL" => rows[pays1[p].of].status # "PENDING_PAYMENT"
             /\ pays1[p].purpose = "INITIAL" /\ Undecided(pays1[p]) => NotActive(V, rows, pays1[p].of)
             /\ \A from \in pays1[p].from : GivesBack(from, pays1[p].purpose)
  <2>1. ASSUME pays1[p].purpose = "INITIAL", Undecided(pays1[p]) PROVE NotActive(V, rows, pays1[p].of)
    <3>1. NotActive(W, rows, pays1[p].of)
      BY <2>1 DEF Alike, Unpaid
    <3>2. ~Paid(W, pays1, pays1[p].of)
      BY <2>1 DEF Paid
    <3> QED BY <1>1, <1>2, <3>1, <3>2
  <2> QED BY <2>1 DEF Alike, Unpaid
<1>4. ASSUME NEW su \in W
      PROVE  /\ su.do = "charge" =>
                   IF su.row.purpose = "INITIAL" THEN NotActive(V, rows, su.row.of)
                   ELSE rows[su.row.of].status # "PENDING_PAYMENT"
             /\ su.do = "status" => su.status # "PENDING_PAYMENT"
             /\ su.do \in {"payment", "cancel"} /\ su.status \in {"PENDING", "REPORTED"}
                   /\ pays1[su.p].purpose = "INITIAL" /\ pays1[su.p].from = {}
                => NotActive(V, rows, pays1[su.p].of)
             /\ su.do = "snapshot" => GivesBack(su.from, pays1[su.p].purpose)
  <2>1. ASSUME su.do = "charge"
        PROVE  IF su.row.purpose = "INITIAL" THEN NotActive(V, rows, su.row.of)
               ELSE rows[su.row.of].status # "PENDING_PAYMENT"
    <3>1. su.row.purpose = "INITIAL" => ~Paid(W, pays1, su.row.of)
      BY <2>1 DEF Paid
    <3>2. IF su.row.purpose = "INITIAL" THEN NotActive(W, rows, su.row.of)
          ELSE rows[su.row.of].status # "PENDING_PAYMENT"
      BY <2>1 DEF Unpaid
    <3> QED BY <1>1, <1>2, <3>1, <3>2
  <2>2. su.do = "status" => su.status # "PENDING_PAYMENT"
    BY DEF Unpaid
  <2>3. ASSUME su.do \in {"payment", "cancel"}, su.status \in {"PENDING", "REPORTED"},
               pays1[su.p].purpose = "INITIAL", pays1[su.p].from = {}
        PROVE  NotActive(V, rows, pays1[su.p].of)
    <3>1. ~Paid(W, pays1, pays1[su.p].of)
      BY <2>3 DEF Paid
    <3>2. NotActive(W, rows, pays1[su.p].of)
      <4>1. su.p \in DOMAIN pays
        BY <2>3
      <4> QED BY <2>3, <4>1 DEF Unpaid, Alike
    <3> QED BY <1>1, <1>2, <3>1, <3>2
  <2>4. su.do = "snapshot" => GivesBack(su.from, pays1[su.p].purpose)
    BY DEF Unpaid, Alike
  <2> QED BY <2>1, <2>2, <2>3, <2>4
<1>5. ASSUME NEW su \in A
      PROVE  /\ su.do = "charge" =>
                   IF su.row.purpose = "INITIAL" THEN NotActive(V, rows, su.row.of)
                   ELSE rows[su.row.of].status # "PENDING_PAYMENT"
             /\ su.do = "status" => su.status # "PENDING_PAYMENT"
             /\ su.do \in {"payment", "cancel"} /\ su.status \in {"PENDING", "REPORTED"}
                   /\ pays1[su.p].purpose = "INITIAL" /\ pays1[su.p].from = {}
                => NotActive(V, rows, pays1[su.p].of)
             /\ su.do = "snapshot" => GivesBack(su.from, pays1[su.p].purpose)
  OBVIOUS
<1> QED BY <1>3, <1>4, <1>5 DEF Unpaid

\* What the access is when nothing in hand tells it.
LEMMA AccessNow ==
    ASSUME TypesInv, NEW W, \A st \in W : st.do \in QuietKinds, Access(W, tenant, subscription)
    PROVE  /\ Active = {} => tenant.tier = Free /\ tenant.cap = CapOf(Free, "MONTHLY")
           /\ \A s \in Active :
                 /\ tenant.tier = subscription[s].tier /\ tenant.pastDue = FALSE
                 /\ tenant.cap = CapOf(subscription[s].tier, subscription[s].interval)
                 /\ \A r \in DOMAIN subscription \ {s} : subscription[r].status # "ACTIVE"
<1>1. \A r : NotActive(W, subscription, r) <=> subscription[r].status # "ACTIVE"
  BY DEF NotActive, StatusOf, QuietKinds
<1>2. \A r : BecomesActive(W, subscription, r) <=> subscription[r].status = "ACTIVE"
  BY DEF BecomesActive, StatusOf, QuietKinds
<1>3. /\ \A tier : TierTo(W, tenant, tier) => tenant.tier = tier
      /\ \A cap : CapTo(W, tenant, cap) => tenant.cap = cap
      /\ \A b : DueTo(W, tenant, b) => tenant.pastDue = b
  BY DEF TierTo, CapTo, DueTo, QuietKinds
<1>4. \A s, tier, interval : PlanTo(W, subscription, s, tier, interval) =>
          subscription[s].tier = tier /\ subscription[s].interval = interval
  BY DEF PlanTo, PlanOf, QuietKinds
<1>5. CASE Ungranted(W, tenant, subscription)
  BY <1>1, <1>3, <1>5 DEF Ungranted, Active
<1>6. ASSUME NEW s \in DOMAIN subscription, NEW tier, NEW interval,
             Granted(W, tenant, subscription, s, tier, interval)
      PROVE  /\ Active = {s} /\ tenant.tier = subscription[s].tier /\ tenant.pastDue = FALSE
             /\ tenant.cap = CapOf(subscription[s].tier, subscription[s].interval)
             /\ \A r \in DOMAIN subscription \ {s} : subscription[r].status # "ACTIVE"
  BY <1>1, <1>2, <1>3, <1>4, <1>6 DEF Granted, Active
<1> QED BY <1>5, <1>6 DEF Access

\* What is in hand grants access to a row, or takes it from all.
Granted1(V, s, tier, interval) ==
    /\ \A r \in DOMAIN subscription \ {s} : subscription[r].status # "ACTIVE"
    /\ \A st \in V : /\ st.do = "status" => st.s = s /\ st.status = "ACTIVE"
                     /\ st.do = "plan" => /\ st.s = s /\ st.tier = tier
                                          /\ Or(st.interval, subscription[s].interval) = interval
                     /\ st.do = "tier" => st.tier = tier
                     /\ st.do = "cap" => st.cap = CapOf(tier, interval)
                     /\ st.do = "pastDue" => st.to = FALSE
    /\ subscription[s].status = "ACTIVE" \/ \E st \in V : st.do = "status"
    /\ \/ subscription[s].tier = tier /\ subscription[s].interval = interval
       \/ \E st \in V : st.do = "plan"
    /\ tenant.tier = tier \/ \E st \in V : st.do = "tier"
    /\ tenant.cap = CapOf(tier, interval) \/ \E st \in V : st.do = "cap"
    /\ tenant.pastDue = FALSE \/ \E st \in V : st.do = "pastDue"

LEMMA Grants1 ==
    ASSUME NEW s \in DOMAIN subscription, NEW tier, NEW interval, NEW V, Granted1(V, s, tier, interval)
    PROVE  Access(V, tenant, subscription)
<1>1. BecomesActive(V, subscription, s)
  BY DEF Granted1, BecomesActive, StatusOf
<1>2. \A r \in DOMAIN subscription \ {s} : NotActive(V, subscription, r)
  BY DEF Granted1, NotActive, StatusOf
<1>3. PlanTo(V, subscription, s, tier, interval)
  BY DEF Granted1, PlanTo, PlanOf
<1>4. TierTo(V, tenant, tier)
  BY DEF Granted1, TierTo
<1>5. CapTo(V, tenant, CapOf(tier, interval))
  BY DEF Granted1, CapTo
<1>6. DueTo(V, tenant, FALSE)
  BY DEF Granted1, DueTo
<1>7. Granted(V, tenant, subscription, s, tier, interval)
  BY <1>1, <1>2, <1>3, <1>4, <1>5, <1>6 DEF Granted
<1> QED BY <1>7 DEF Access

Ended1(V, s) ==
    /\ \A r \in DOMAIN subscription \ {s} : subscription[r].status # "ACTIVE"
    /\ \A st \in V : /\ st.do = "status" => st.s = s /\ st.status # "ACTIVE"
                     /\ st.do = "tier" => st.tier = Free
                     /\ st.do = "cap" => st.cap = CapOf(Free, "MONTHLY")
    /\ \E st \in V : st.do = "status"
    /\ \E st \in V : st.do = "tier"
    /\ \E st \in V : st.do = "cap"

LEMMA Ends1 ==
    ASSUME NEW s \in DOMAIN subscription, NEW V, Ended1(V, s)
    PROVE  Access(V, tenant, subscription)
<1>1. \A r \in DOMAIN subscription : NotActive(V, subscription, r)
  BY DEF Ended1, NotActive, StatusOf
<1>2. TierTo(V, tenant, Free) /\ CapTo(V, tenant, CapOf(Free, "MONTHLY"))
  BY DEF Ended1, TierTo, CapTo
<1> QED BY <1>1, <1>2 DEF Ungranted, Access

\* What is in hand when a call has decided: what it is to write, and what the others are.
Kept(A, W, pays1) == /\ Access(A \cup W, tenant, subscription)
                     /\ Unpaid(A \cup W, subscription, pays1)

Fair(W) == /\ Access(W, tenant, subscription) /\ Unpaid(W, subscription, payment)
           /\ \A st \in W : st.do \in {"payment", "cancel", "snapshot"} => st.p \in DOMAIN payment

AllQuiet(W) == \A st \in W : st.do \in QuietKinds

\* A decision about anything but access.
LEMMA KeptApart ==
    ASSUME NEW A, NEW W, Fair(W), NEW pays1, Alike(payment, pays1),
           \A st \in A : /\ st.do \notin Granting
                         /\ st.do = "charge" =>
                               /\ st.row.purpose # "INITIAL"
                               /\ subscription[st.row.of].status # "PENDING_PAYMENT"
                         /\ st.do \in {"payment", "cancel"} /\ st.status \in {"PENDING", "REPORTED"}
                               /\ pays1[st.p].purpose = "INITIAL" /\ pays1[st.p].from = {}
                            => NotActive(W, subscription, pays1[st.p].of)
                         /\ st.do = "snapshot" => GivesBack(st.from, pays1[st.p].purpose)
    PROVE  Kept(A, W, pays1)
<1> DEFINE V == A \cup W
<1>1. \A st \in A : st.do \notin Granting /\ st.do # "status"
  BY DEF Granting
<1>2. Access(V, tenant, subscription)
  <2>1. /\ \A st \in W : st.do \in Granting => st \in V
        /\ \A st \in V : st.do \in Granting => st \in W
    BY <1>1
  <2>2. Access(W, tenant, subscription)
    BY DEF Fair
  <2> HIDE DEF V
  <2> QED BY <2>1, <2>2, SameAccess
<1>3. \A s : NotActive(W, subscription, s) => NotActive(V, subscription, s)
  <2>1. /\ \A st \in W : st.do = "status" => st \in V
        /\ \A st \in V : st.do = "status" => st \in W
    BY <1>1
  <2> HIDE DEF V
  <2> QED BY <2>1, SameActive
<1>4. Unpaid(V, subscription, pays1)
  BY <1>1, <1>3, UnpaidAdded DEF Fair
<1> QED BY <1>2, <1>4 DEF Kept

LEMMA AlikeSame == Alike(payment, payment)
  BY DEF Alike

\* A decision that grants or ends access.
LEMMA KeptGranting ==
    ASSUME NEW A, NEW W, Fair(W), NEW pays1, Alike(payment, pays1),
           Access(A \cup W, tenant, subscription),
           \A st \in A : /\ st.do = "status" =>
                               /\ st.status # "PENDING_PAYMENT"
                               /\ st.status = "ACTIVE" => Paid(W, pays1, st.s)
                         /\ st.do # "charge"
                         /\ st.do \in {"payment", "cancel"} => st.status \notin {"PENDING", "REPORTED"}
                         /\ st.do = "snapshot" => GivesBack(st.from, pays1[st.p].purpose)
    PROVE  Kept(A, W, pays1)
<1>1. Unpaid(A \cup W, subscription, pays1)
  BY UnpaidAdded DEF Fair
<1> QED BY <1>1 DEF Kept

\* The cases of a decision of the tenant or the job on its own rows.
LEMMA PlainKept ==
    ASSUME TypesInv, NEW W, Fair(W), NEW todo, Plain(todo),
           (\E st \in Has(todo) : st.do \notin QuietKinds) => AllQuiet(W)
    PROVE  Kept(Has(todo), W, payment)
<1>1. ASSUME NEW x, todo = <<x>> PROVE Has(todo) = {x}
  BY <1>1, HasOne
<1>2. ASSUME NEW x, todo = <<x>>,
             x.do \notin Granting \cup {"charge", "payment", "cancel", "snapshot"}
      PROVE  Kept(Has(todo), W, payment)
  <2>1. Has(todo) = {x}
    BY <1>1, <1>2
  <2> QED BY <1>2, <2>1, KeptApart, AlikeSame
<1>3. CASE Subscribing(todo)
  <2>1. PICK tier, interval : todo = <<[do |-> "subscribe", tier |-> tier, interval |-> interval]>>
    BY <1>3 DEF Subscribing
  <2> QED BY <1>2, <2>1 DEF Granting
<1>4. CASE Charging(todo)
  <2>1. PICK s \in Active, purpose \in {"TIER_CHANGE", "SEAT_CHANGE"}, target \in Plan, seats \in Nat,
             immediate \in BOOLEAN : todo = <<Inserts(s, purpose, target, seats, immediate)>>
    BY <1>4 DEF Charging
  <2> DEFINE x == Inserts(s, purpose, target, seats, immediate)
  <2>2. x.do = "charge" /\ x.row.of = s /\ x.row.purpose = purpose
    BY DEF Inserts, NewPayment
  <2>3. subscription[s].status = "ACTIVE"
    BY LiveIs
  <2> HIDE DEF x
  <2>4. Has(todo) = {x}
    BY <1>1, <2>1 DEF x
  <2> QED BY <2>2, <2>3, <2>4, KeptApart, AlikeSame DEF Granting
<1>5. CASE Scheduling(todo)
  <2>1. PICK s, tier : todo = <<Schedules(s, tier, "same")>>
    BY <1>5 DEF Scheduling
  <2>2. Schedules(s, tier, "same").do = "schedule"
    BY DEF Schedules
  <2> QED BY <1>2, <2>1, <2>2 DEF Granting
<1>6. CASE Seating(todo)
  <2>1. PICK s, seats : todo \in {<<SetsSeats(s, seats)>>, <<SchedulesSeats(s, seats)>>}
    BY <1>6 DEF Seating
  <2>2. SetsSeats(s, seats).do = "seats" /\ SchedulesSeats(s, seats).do = "scheduleSeats"
    BY DEF SetsSeats, SchedulesSeats
  <2> QED BY <1>2, <2>1, <2>2 DEF Granting
<1>7. CASE Promoting(todo)
  BY <1>2, <1>7 DEF Promoting, Granting
<1>8. CASE Changing(todo)
  <2>1. PICK s \in Active, tier \in Tiers, interval \in Intervals : Has(todo) = GrantsOf(s, tier, interval)
    BY <1>8 DEF Changing
  <2> DEFINE x == SetsPlan(s, tier, interval)
             y == SetsTier(tier)
             z == SetsCap(tier, interval)
  <2>2. /\ x.do = "plan" /\ x.s = s /\ x.tier = tier /\ x.interval = interval
        /\ y.do = "tier" /\ y.tier = tier /\ z.do = "cap" /\ z.cap = CapOf(tier, interval)
    BY DEF SetsPlan, SetsTier, SetsCap
  <2>3. Or(interval, subscription[s].interval) = interval
    BY DEF Or, Intervals
  <2> HIDE DEF x, y, z
  <2>4. Has(todo) = {x, y, z}
    BY <2>1 DEF GrantsOf, x, y, z
  <2>5. AllQuiet(W)
    BY <2>2, <2>4 DEF QuietKinds
  <2>6. /\ subscription[s].status = "ACTIVE" /\ tenant.pastDue = FALSE /\ s \in DOMAIN subscription
        /\ \A r \in DOMAIN subscription \ {s} : subscription[r].status # "ACTIVE"
    <3>1. (\A st \in W : st.do \in QuietKinds) /\ Access(W, tenant, subscription)
      BY <2>5 DEF Fair, AllQuiet
    <3>2. /\ tenant.pastDue = FALSE
          /\ \A r \in DOMAIN subscription \ {s} : subscription[r].status # "ACTIVE"
      BY <3>1, AccessNow
    <3> QED BY <3>2, LiveIs, ActiveIs
  <2> DEFINE V == Has(todo) \cup W
  <2>7. \A st \in V : st.do \in QuietKinds \/ st = x \/ st = y \/ st = z
    BY <2>4, <2>5 DEF AllQuiet
  <2>8. x \in V /\ y \in V /\ z \in V
    BY <2>4
  <2> HIDE DEF V
  <2>9. \A st \in V : /\ st.do # "status" /\ st.do # "pastDue"
                      /\ st.do = "plan" => st = x
                      /\ st.do = "tier" => st = y
                      /\ st.do = "cap" => st = z
    BY <2>2, <2>7 DEF QuietKinds
  <2>10. Access(V, tenant, subscription)
    <3>1. \A st \in V : /\ st.do = "status" => st.s = s /\ st.status = "ACTIVE"
                        /\ st.do = "plan" => /\ st.s = s /\ st.tier = tier
                                             /\ Or(st.interval, subscription[s].interval) = interval
                        /\ st.do = "tier" => st.tier = tier
                        /\ st.do = "cap" => st.cap = CapOf(tier, interval)
                        /\ st.do = "pastDue" => st.to = FALSE
      BY <2>2, <2>3, <2>9
    <3>2. /\ \E st \in V : st.do = "plan"
          /\ \E st \in V : st.do = "tier"
          /\ \E st \in V : st.do = "cap"
      BY <2>2, <2>8
    <3>3. Granted1(V, s, tier, interval)
      BY <2>6, <3>1, <3>2 DEF Granted1
    <3> QED BY <2>6, <3>3, Grants1
  <2>11. \A st \in Has(todo) : st.do \in {"plan", "tier", "cap"}
    BY <2>2, <2>4
  <2> QED BY <2>10, <2>11, KeptGranting, AlikeSame DEF V
<1>9. CASE Resyncing(todo)
  <2>1. PICK s \in Active : todo = <<SetsCap(subscription[s].tier, subscription[s].interval)>>
    BY <1>9 DEF Resyncing
  <2> DEFINE z == SetsCap(subscription[s].tier, subscription[s].interval)
  <2>2. z.do = "cap" /\ z.cap = CapOf(subscription[s].tier, subscription[s].interval)
    BY DEF SetsCap
  <2> HIDE DEF z
  <2>3. Has(todo) = {z}
    BY <1>1, <2>1 DEF z
  <2>4. AllQuiet(W)
    BY <2>2, <2>3 DEF QuietKinds
  <2>5. /\ subscription[s].status = "ACTIVE" /\ tenant.pastDue = FALSE /\ s \in DOMAIN subscription
        /\ tenant.tier = subscription[s].tier
        /\ \A r \in DOMAIN subscription \ {s} : subscription[r].status # "ACTIVE"
    <3>1. (\A st \in W : st.do \in QuietKinds) /\ Access(W, tenant, subscription)
      BY <2>4 DEF Fair, AllQuiet
    <3>2. /\ tenant.pastDue = FALSE /\ tenant.tier = subscription[s].tier
          /\ \A r \in DOMAIN subscription \ {s} : subscription[r].status # "ACTIVE"
      BY <3>1, AccessNow
    <3> QED BY <3>2, LiveIs, ActiveIs
  <2> DEFINE V == Has(todo) \cup W
  <2>6. z \in V /\ \A st \in V : st.do \in QuietKinds \/ st = z
    BY <2>3, <2>4 DEF AllQuiet
  <2> HIDE DEF V
  <2>7. \A st \in V : st.do \notin {"status", "pastDue", "plan", "tier"} /\ (st.do = "cap" => st = z)
    BY <2>2, <2>6 DEF QuietKinds
  <2>8. Access(V, tenant, subscription)
    <3> DEFINE tier == subscription[s].tier
               interval == subscription[s].interval
    <3>1. \A st \in V : /\ st.do = "status" => st.s = s /\ st.status = "ACTIVE"
                        /\ st.do = "plan" => /\ st.s = s /\ st.tier = tier
                                             /\ Or(st.interval, subscription[s].interval) = interval
                        /\ st.do = "tier" => st.tier = tier
                        /\ st.do = "cap" => st.cap = CapOf(tier, interval)
                        /\ st.do = "pastDue" => st.to = FALSE
      BY <2>2, <2>7
    <3>2. /\ subscription[s].status = "ACTIVE" /\ tenant.pastDue = FALSE /\ s \in DOMAIN subscription
          /\ tenant.tier = tier /\ subscription[s].tier = tier /\ subscription[s].interval = interval
          /\ \A r \in DOMAIN subscription \ {s} : subscription[r].status # "ACTIVE"
      BY <2>5
    <3>3. \E st \in V : st.do = "cap"
      BY <2>2, <2>6
    <3> HIDE DEF tier, interval
    <3>4. Granted1(V, s, tier, interval)
      BY <3>1, <3>2, <3>3 DEF Granted1
    <3> QED BY <3>2, <3>4, Grants1
  <2>9. \A st \in Has(todo) : st.do = "cap"
    BY <2>2, <2>3
  <2> QED BY <2>8, <2>9, KeptGranting, AlikeSame DEF V
<1> QED BY <1>3, <1>4, <1>5, <1>6, <1>7, <1>8, <1>9 DEF Plain

\* A review changes a payment in nothing but its status.
LEMMA ReviewAlike ==
    ASSUME TypesInv, NEW p \in DOMAIN payment, NEW status \in {"VERIFIED", "REJECTED"},
           payment' = [payment EXCEPT ![p].status = status]
    PROVE  Alike(payment, payment')
<1> DEFINE new == [payment[p] EXCEPT !.status = status]
<1>1. payment[p] \in Payment
  BY PaymentIs
<1>2. /\ new.of = payment[p].of /\ new.purpose = payment[p].purpose /\ new.from = payment[p].from
      /\ new.status = status
  BY <1>1 DEF Payment
<1>3. payment' = [payment EXCEPT ![p] = new]
  OBVIOUS
<1> HIDE DEF new
<1>4. DOMAIN payment' = DOMAIN payment /\ payment'[p] = new
      /\ \A q \in DOMAIN payment \ {p} : payment'[q] = payment[q]
  BY <1>3
<1>5. ~Undecided(payment'[p])
  BY <1>2, <1>4 DEF Undecided
<1> QED BY <1>2, <1>4, <1>5 DEF Alike

\* Decisions about a payment and not about access.
LEMMA ReportKept ==
    ASSUME NEW W, Fair(W), NEW p \in DOMAIN payment, NEW todo, NEW how,
           Reporting(p, todo, how), "again" \notin how
    PROVE  Kept(Has(todo), W, payment)
<1> DEFINE x == SetsPayment(p, "REPORTED")
<1>1. x.do = "payment" /\ x.p = p
  BY DEF SetsPayment
<1>2. todo = <<x>> /\ Again(p) \subseteq how
  BY DEF Reporting
<1> HIDE DEF x
<1>3. Has(todo) = {x}
  BY <1>2, HasOne
<1>4. Undecided(payment[p])
  BY <1>2 DEF Again, Undecided
<1>5. payment[p].purpose = "INITIAL" => NotActive(W, subscription, payment[p].of)
  BY <1>4 DEF Fair, Unpaid
<1> QED BY <1>1, <1>3, <1>5, KeptApart, AlikeSame DEF Granting

LEMMA CancelKept ==
    ASSUME NEW W, Fair(W), NEW p \in DOMAIN payment, NEW todo, NEW how, Cancelling(p, todo, how)
    PROVE  Kept(Has(todo), W, payment)
<1> DEFINE x == [do |-> "cancel", p |-> p, status |-> "CANCELLED"]
<1>1. x.do = "cancel" /\ x.p = p /\ x.status = "CANCELLED"
  OBVIOUS
<1>2. todo = <<x>>
  BY DEF Cancelling
<1> HIDE DEF x
<1>3. Has(todo) = {x}
  BY <1>2, HasOne
<1> QED BY <1>1, <1>3, KeptApart, AlikeSame DEF Granting

LEMMA LinkKept ==
    ASSUME NEW W, Fair(W), NEW p \in DOMAIN payment, NEW todo, NEW how, Linking(p, todo, how)
    PROVE  Kept(Has(todo), W, payment)
<1>1. PICK kind : todo = <<[do |-> "invoice", p |-> p, kind |-> kind]>>
  BY DEF Linking
<1> DEFINE x == [do |-> "invoice", p |-> p, kind |-> kind]
<1>2. x.do = "invoice" /\ todo = <<x>>
  BY <1>1
<1> HIDE DEF x
<1>3. Has(todo) = {x}
  BY <1>2, HasOne
<1> QED BY <1>2, <1>3, KeptApart, AlikeSame DEF Granting

LEMMA RejectKept ==
    ASSUME TypesInv, NEW W, Fair(W), NEW p \in DOMAIN payment, NEW todo, NEW how,
           Rejecting(p, todo, how), payment' = [payment EXCEPT ![p].status = "REJECTED"]
    PROVE  Kept(Has(todo), W, payment')
<1>1. Has(todo) = {}
  BY HasNone DEF Rejecting
<1>2. Alike(payment, payment')
  BY ReviewAlike
<1> QED BY <1>1, <1>2, KeptApart

\* Decisions about access, while nobody else decides.
Clean(A, pays1) ==
    \A st \in A : /\ st.do # "charge"
                  /\ st.do = "status" => st.status # "PENDING_PAYMENT"
                  /\ st.do \in {"payment", "cancel"} => st.status \notin {"PENDING", "REPORTED"}
                  /\ st.do = "snapshot" => GivesBack(st.from, pays1[st.p].purpose)

LEMMA GrantKept ==
    ASSUME NEW W, Fair(W), AllQuiet(W), NEW A, NEW pays1, Alike(payment, pays1), Clean(A, pays1),
           NEW s \in DOMAIN subscription, NEW tier, NEW interval, Granted1(A, s, tier, interval),
           Paid(W, pays1, s)
    PROVE  Kept(A, W, pays1)
<1> DEFINE V == A \cup W
<1>1. \A st \in V : st \in A \/ st.do \in QuietKinds
  BY DEF AllQuiet
<1>2. \A st \in A : st \in V
  OBVIOUS
<1> HIDE DEF V
<1>3. \A st \in V : st.do \in Granting => st \in A
  BY <1>1 DEF QuietKinds, Granting
<1>4. Granted1(V, s, tier, interval)
  BY <1>2, <1>3 DEF Granted1, Granting
<1>5. Access(V, tenant, subscription)
  BY <1>4, Grants1
<1>6. \A st \in A : st.do = "status" => st.s = s
  BY DEF Granted1
<1> QED BY <1>5, <1>6, KeptGranting DEF V, Clean

LEMMA EndKept ==
    ASSUME NEW W, Fair(W), AllQuiet(W), NEW A, NEW pays1, Alike(payment, pays1), Clean(A, pays1),
           NEW s \in DOMAIN subscription, Ended1(A, s)
    PROVE  Kept(A, W, pays1)
<1> DEFINE V == A \cup W
<1>1. \A st \in V : st \in A \/ st.do \in QuietKinds
  BY DEF AllQuiet
<1>2. \A st \in A : st \in V
  OBVIOUS
<1> HIDE DEF V
<1>3. \A st \in V : st.do \in Granting => st \in A
  BY <1>1 DEF QuietKinds, Granting
<1>4. Ended1(V, s)
  BY <1>2, <1>3 DEF Ended1, Granting
<1>5. Access(V, tenant, subscription)
  BY <1>4, Ends1
<1>6. \A st \in A : st.do = "status" => st.status # "ACTIVE"
  BY DEF Ended1
<1> QED BY <1>5, <1>6, KeptGranting DEF V, Clean

\* A row that is not over is alone.
LEMMA AloneLives ==
    ASSUME RowsStand, NEW s \in DOMAIN subscription, Live(s)
    PROVE  \A r \in DOMAIN subscription \ {s} : subscription[r].status # "ACTIVE"
  BY DEF RowsStand, Live

\* A refund gives back what the review took.
LEMMA RefundKept ==
    ASSUME TypesInv, RowsStand, NEW W, Fair(W), AllQuiet(W), NEW p \in DOMAIN payment, NEW todo, NEW how,
           Refunding(p, todo, how), "ended" \notin how
    PROVE  Kept(Has(todo), W, payment)
<1>1. PICK s \in DOMAIN subscription : s = payment[p].of
  BY PaymentIs
<1>2. PICK snap \in payment[p].from : todo = RefundTodo(p, s, snap)
  BY <1>1 DEF Refunding
<1>3. Live(s)
  BY <1>1 DEF Refunding, Ended
<1>4. \A r \in DOMAIN subscription \ {s} : subscription[r].status # "ACTIVE"
  BY <1>3, AloneLives
<1>5. snap \in Snapshot
  BY PaymentIs
<1>6. /\ snap.interval \in Intervals /\ snap.status \in Standings
      /\ GivesBack(snap, payment[p].purpose)
  BY <1>5 DEF Snapshot, Fair, Unpaid
<1>7. (\A st \in W : st.do \in QuietKinds) /\ Access(W, tenant, subscription)
  BY DEF Fair, AllQuiet
<1> DEFINE status == IF payment[p].purpose = "INITIAL" THEN "CANCELLED" ELSE snap.status
           a == SetsPlan(s, snap.tier, snap.interval)
           b == SetsStatus(s, status, {snap.end})
           d == SetsTier(snap.tenantTier)
           e == SetsCap(snap.tenantTier, snap.interval)
           f == SetsPayment(p, "REFUNDED")
<1>8. /\ a.do = "plan" /\ a.s = s /\ a.tier = snap.tier /\ a.interval = snap.interval
      /\ b.do = "status" /\ b.s = s /\ b.status = status
      /\ d.do = "tier" /\ d.tier = snap.tenantTier
      /\ e.do = "cap" /\ e.cap = CapOf(snap.tenantTier, snap.interval)
      /\ f.do = "payment" /\ f.status = "REFUNDED"
      /\ SetsSeats(s, snap.seats).do = "seats"
  BY DEF SetsPlan, SetsStatus, SetsTier, SetsCap, SetsPayment, SetsSeats
<1>9. Has(todo) = {a, b, d, e, f}
          \cup (IF payment[p].purpose = "SEAT_CHANGE" THEN {SetsSeats(s, snap.seats)} ELSE {})
  BY <1>2, <1>5, RefundHas
<1> DEFINE A == Has(todo)
<1> HIDE DEF a, b, d, e, f, status
<1>10. /\ \A st \in A : st = a \/ st = b \/ st = d \/ st = e \/ st = f \/ st.do = "seats"
       /\ a \in A /\ b \in A /\ d \in A /\ e \in A
  BY <1>8, <1>9
<1> HIDE DEF A
<1>11. \A st \in A : /\ st.do \notin {"charge", "pastDue", "snapshot", "cancel"}
                     /\ st.do = "status" => st = b
                     /\ st.do = "plan" => st = a
                     /\ st.do = "tier" => st = d
                     /\ st.do = "cap" => st = e
                     /\ st.do = "payment" => st = f
  BY <1>8, <1>10
<1>12. CASE payment[p].purpose = "INITIAL"
  <2>1. status = "CANCELLED" /\ snap.tenantTier = Free
    BY <1>6, <1>12 DEF status, GivesBack
  <2>2. CapOf(Free, snap.interval) = CapOf(Free, "MONTHLY")
    BY DEF CapOf
  <2>3. Ended1(A, s)
    BY <1>4, <1>8, <1>10, <1>11, <2>1, <2>2 DEF Ended1
  <2>4. Clean(A, payment)
    BY <1>8, <1>11, <2>1 DEF Clean
  <2> QED BY <2>3, <2>4, EndKept, AlikeSame DEF A
<1>13. CASE payment[p].purpose # "INITIAL"
  <2>1. status = "ACTIVE" /\ snap.tenantTier = snap.tier
    BY <1>6, <1>13 DEF status, GivesBack
  <2>2. subscription[s].status = "ACTIVE"
    BY <1>1, <1>3, <1>13 DEF Fair, Unpaid, Live
  <2>3. s \in Active
    BY <2>2 DEF Active
  <2>4. tenant.pastDue = FALSE
    BY <1>7, <2>3, AccessNow
  <2>5. Or(snap.interval, subscription[s].interval) = snap.interval
    BY <1>6 DEF Or, Intervals
  <2>6. Granted1(A, s, snap.tier, snap.interval)
    BY <1>4, <1>8, <1>10, <1>11, <2>1, <2>2, <2>4, <2>5 DEF Granted1
  <2>7. Clean(A, payment)
    BY <1>8, <1>11, <2>1 DEF Clean
  <2>8. Paid(W, payment, s)
    BY <1>7, <2>2, PaidActive, AlikeSame DEF Fair
  <2> QED BY <2>6, <2>7, <2>8, GrantKept, AlikeSame DEF A
<1> QED BY <1>12, <1>13

\* What a review of a change or a renewal grants, to the row that is ACTIVE.
LEMMA ApplyGrants ==
    ASSUME TypesInv, NEW p \in DOMAIN payment, NEW s \in DOMAIN subscription,
           payment[p].purpose \in {"SEAT_CHANGE", "TIER_CHANGE", "RENEWAL"},
           subscription[s].status = "ACTIVE",
           \A r \in DOMAIN subscription \ {s} : subscription[r].status # "ACTIVE",
           tenant.pastDue = FALSE, tenant.tier = subscription[s].tier,
           payment[p].immediate => payment[p].target.interval = "YEARLY"
    PROVE  \/ \A st \in Has(Applies(p, s)) : st.do \notin Granting
           \/ \E tier, interval : Granted1(Has(Applies(p, s)), s, tier, interval)
<1>1. CASE payment[p].purpose = "SEAT_CHANGE"
  <2>1. Has(Applies(p, s)) = {SetsSeats(s, payment[p].seats), Stamps(p)}
    BY <1>1, SeatsHas DEF Applies
  <2> QED BY <2>1 DEF SetsSeats, Stamps, Granting
<1>2. CASE payment[p].purpose = "RENEWAL"
  <2> DEFINE a == SetsStatus(s, "ACTIVE", {PeriodEnd(subscription[s].end, subscription[s].interval)})
             b == Stamps(p)
             d == SetsCap(subscription[s].tier, subscription[s].interval)
             A == Has(Applies(p, s))
  <2>1. A = {a, b, d}
    BY <1>2, RenewalHas DEF Applies
  <2>2. /\ a.do = "status" /\ a.s = s /\ a.status = "ACTIVE" /\ b.do = "stamp"
        /\ d.do = "cap" /\ d.cap = CapOf(subscription[s].tier, subscription[s].interval)
    BY DEF SetsStatus, Stamps, SetsCap
  <2> HIDE DEF a, b, d, A
  <2>3. Granted1(A, s, subscription[s].tier, subscription[s].interval)
    BY <2>1, <2>2 DEF Granted1
  <2> QED BY <2>3 DEF A
<1>3. CASE payment[p].purpose = "TIER_CHANGE"
  <2>1. PICK to : to = payment[p].target
    OBVIOUS
  <2>2. Applies(p, s) = AppliesTier(p, s)
    BY <1>3 DEF Applies
  <2>3. ASSUME payment[p].immediate,
               Has(AppliesTier(p, s)) =
                  {SetsPlan(s, to.tier, to.interval), SetsStatus(s, "ACTIVE", {PeriodEnd(day, to.interval)}),
                   SetsTier(to.tier), SetsCap(to.tier, to.interval), Stamps(p)}
        PROVE  \E tier, interval : Granted1(Has(Applies(p, s)), s, tier, interval)
    <3> DEFINE a == SetsPlan(s, to.tier, to.interval)
               b == SetsStatus(s, "ACTIVE", {PeriodEnd(day, to.interval)})
               d == SetsTier(to.tier)
               e == SetsCap(to.tier, to.interval)
               f == Stamps(p)
               A == Has(Applies(p, s))
    <3>1. A = {a, b, d, e, f}
      BY <2>2, <2>3
    <3>2. /\ a.do = "plan" /\ a.s = s /\ a.tier = to.tier /\ a.interval = to.interval
          /\ b.do = "status" /\ b.s = s /\ b.status = "ACTIVE"
          /\ d.do = "tier" /\ d.tier = to.tier
          /\ e.do = "cap" /\ e.cap = CapOf(to.tier, to.interval) /\ f.do = "stamp"
      BY DEF SetsPlan, SetsStatus, SetsTier, SetsCap, Stamps
    <3>3. Or(to.interval, subscription[s].interval) = to.interval
      BY <2>1, <2>3 DEF Or
    <3> HIDE DEF a, b, d, e, f, A
    <3>4. /\ \A st \in A : st = a \/ st = b \/ st = d \/ st = e \/ st = f
          /\ a \in A /\ b \in A /\ d \in A /\ e \in A
      BY <3>1
    <3>5. Granted1(A, s, to.tier, to.interval)
      BY <3>2, <3>3, <3>4 DEF Granted1
    <3> QED BY <3>5 DEF A
  <2>4. CASE Has(AppliesTier(p, s)) = {Schedules(s, to.tier, to.interval)}
    BY <2>2, <2>4 DEF Schedules, Granting
  <2>5. ASSUME NEW interval \in Intervals,
               Has(AppliesTier(p, s)) = {SetsPlan(s, to.tier, interval), SetsTier(to.tier),
                                         SetsCap(to.tier, interval), Stamps(p)}
        PROVE  \E tier, n : Granted1(Has(Applies(p, s)), s, tier, n)
    <3> DEFINE a == SetsPlan(s, to.tier, interval)
               d == SetsTier(to.tier)
               e == SetsCap(to.tier, interval)
               f == Stamps(p)
               A == Has(Applies(p, s))
    <3>1. A = {a, d, e, f}
      BY <2>2, <2>5
    <3>2. /\ a.do = "plan" /\ a.s = s /\ a.tier = to.tier /\ a.interval = interval
          /\ d.do = "tier" /\ d.tier = to.tier
          /\ e.do = "cap" /\ e.cap = CapOf(to.tier, interval) /\ f.do = "stamp"
      BY DEF SetsPlan, SetsTier, SetsCap, Stamps
    <3>3. Or(interval, subscription[s].interval) = interval
      BY DEF Or, Intervals
    <3> HIDE DEF a, d, e, f, A
    <3>4. /\ \A st \in A : st = a \/ st = d \/ st = e \/ st = f
          /\ a \in A /\ d \in A /\ e \in A
      BY <3>1
    <3>5. Granted1(A, s, to.tier, interval)
      BY <3>2, <3>3, <3>4 DEF Granted1
    <3> QED BY <3>5 DEF A
  <2> QED BY <2>1, <2>3, <2>4, <2>5, TierHas
<1> QED BY <1>1, <1>2, <1>3

\* And a review of a first payment, to its row.
LEMMA InitialGrants ==
    ASSUME TypesInv, NEW p \in DOMAIN payment, NEW s \in DOMAIN subscription,
           payment[p].purpose = "INITIAL",
           \A r \in DOMAIN subscription \ {s} : subscription[r].status # "ACTIVE"
    PROVE  \E tier, interval : Granted1(Has(Applies(p, s)), s, tier, interval)
<1> DEFINE a == SetsStatus(s, "ACTIVE", {PeriodEnd(day, subscription[s].interval)})
           b == Stamps(p)
           d == SetsTier(subscription[s].tier)
           e == SetsCap(subscription[s].tier, subscription[s].interval)
           f == SetsPastDue(FALSE)
           A == Has(Applies(p, s))
<1>1. A = {a, b, d, e} \cup (IF tenant.pastDue THEN {f} ELSE {})
  BY InitialHas DEF Applies
<1>2. /\ a.do = "status" /\ a.s = s /\ a.status = "ACTIVE" /\ b.do = "stamp"
      /\ d.do = "tier" /\ d.tier = subscription[s].tier
      /\ e.do = "cap" /\ e.cap = CapOf(subscription[s].tier, subscription[s].interval)
      /\ f.do = "pastDue" /\ f.to = FALSE
  BY DEF SetsStatus, Stamps, SetsTier, SetsCap, SetsPastDue
<1>3. tenant.pastDue \in BOOLEAN
  BY DEF TypesInv, BillingTypeOK, Tenant
<1> HIDE DEF a, b, d, e, f, A
<1>4. /\ \A st \in A : st = a \/ st = b \/ st = d \/ st = e \/ st = f
      /\ a \in A /\ d \in A /\ e \in A /\ (tenant.pastDue = FALSE \/ f \in A)
  BY <1>1, <1>3
<1>5. Granted1(A, s, subscription[s].tier, subscription[s].interval)
  BY <1>2, <1>4 DEF Granted1
<1> QED BY <1>5 DEF A

\* A review grants what was paid for, and its snapshot is of what was granted before.
LEMMA VerifyKept ==
    ASSUME TypesInv, RowsStand, OneInitial, Yearly, NEW W, W \subseteq AllInHand, Fair(W), AllQuiet(W),
           NEW p \in DOMAIN payment, NEW todo, NEW how, Verifying(p, todo, how),
           "ended" \notin how, "again" \notin how, payment' = [payment EXCEPT ![p].status = "VERIFIED"]
    PROVE  Kept(Has(todo), W, payment')
<1>1. PICK s \in DOMAIN subscription : s = payment[p].of
  BY PaymentIs
<1> DEFINE x == Snapshots(p, SnapshotOf(s))
           B == Has(Applies(p, s))
           A == {x} \cup B
<1>2. Has(todo) = A /\ Ended(p) \subseteq how /\ Again(p) \subseteq how
  BY <1>1 DEF Verifying
<1>3. Live(s) /\ Undecided(payment[p])
  BY <1>1, <1>2 DEF Ended, Again, Undecided
<1>4. \A r \in DOMAIN subscription \ {s} : subscription[r].status # "ACTIVE"
  BY <1>3, AloneLives
<1>5. (\A st \in W : st.do \in QuietKinds) /\ Access(W, tenant, subscription)
  BY DEF Fair, AllQuiet
<1>6. /\ x.do = "snapshot" /\ x.p = p /\ x.from.tenantTier = tenant.tier
      /\ x.from.tier = subscription[s].tier /\ x.from.status = subscription[s].status
  BY SnapshotIs DEF Snapshots
<1>7. Alike(payment, payment')
  BY ReviewAlike
<1>8. /\ payment'[p].status = "VERIFIED" /\ payment'[p].purpose = payment[p].purpose
      /\ \A q \in DOMAIN payment \ {p} : payment'[q] = payment[q]
      /\ DOMAIN payment' = DOMAIN payment
  BY <1>7, ReviewIs DEF Alike
<1>9. \A st \in B : st.do \in {"seats", "stamp", "plan", "status", "tier", "cap", "schedule", "pastDue"}
  BY AppliesKinds
<1> HIDE DEF x, B
<1>10. ASSUME NEW tier, NEW interval, Granted1(B, s, tier, interval)
       PROVE  Granted1(A, s, tier, interval)
  BY <1>6, <1>10 DEF Granted1
<1>11. ASSUME GivesBack(x.from, payment[p].purpose), Paid(W, payment', s),
              NEW tier, NEW interval, Granted1(B, s, tier, interval)
       PROVE  Kept(A, W, payment')
  <2>1. Granted1(A, s, tier, interval)
    BY <1>10, <1>11
  <2>2. \A st \in B : st.do = "status" => st.status = "ACTIVE"
    BY <1>11 DEF Granted1
  <2>3. Clean(A, payment')
    BY <1>6, <1>8, <1>9, <1>11, <2>2 DEF Clean
  <2> HIDE DEF A
  <2> QED BY <1>7, <1>11, <2>1, <2>3, GrantKept
<1>12. CASE payment[p].purpose = "INITIAL"
  <2>1. NotActive(W, subscription, s)
    BY <1>1, <1>3, <1>12 DEF Fair, Unpaid
  <2>2. subscription[s].status # "ACTIVE"
    BY <1>5, <2>1 DEF NotActive, StatusOf, QuietKinds
  <2>3. Active = {}
    BY <1>4, <2>2 DEF Active
  <2>4. tenant.tier = Free
    BY <1>5, <2>3, AccessNow
  <2>5. GivesBack(x.from, payment[p].purpose)
    BY <1>6, <1>12, <2>4 DEF GivesBack
  <2>6. \A q \in DOMAIN payment' : payment'[q].purpose = "INITIAL" /\ payment'[q].of = s => ~Undecided(payment'[q])
    <3> SUFFICES ASSUME NEW q \in DOMAIN payment', payment'[q].purpose = "INITIAL", payment'[q].of = s
                 PROVE  ~Undecided(payment'[q])
      OBVIOUS
    <3>1. q \in DOMAIN payment /\ payment[q].purpose = "INITIAL" /\ payment[q].of = s
      BY <1>7 DEF Alike
    <3>2. q = p
      BY <1>1, <1>12, <3>1 DEF OneInitial
    <3> QED BY <1>8, <3>2 DEF Undecided
  <2>7. \A su \in W : su.do = "charge" /\ su.row.purpose = "INITIAL" => su.row.of # s
    <3> SUFFICES ASSUME NEW su \in W, su.do = "charge", su.row.purpose = "INITIAL" PROVE su.row.of # s
      OBVIOUS
    <3>1. PICK c \in Callers : su \in All(call[c])
      BY DEF AllInHand
    <3> QED BY <1>1, <1>12, <3>1 DEF OneInitial
  <2>8. Paid(W, payment', s)
    BY <1>5, <2>6, <2>7 DEF Paid, QuietKinds
  <2>9. \E tier, interval : Granted1(B, s, tier, interval)
    BY <1>4, <1>12, InitialGrants DEF B
  <2> QED BY <1>2, <1>11, <2>5, <2>8, <2>9
<1>13. CASE payment[p].purpose # "INITIAL"
  <2>1. subscription[s].status = "ACTIVE"
    BY <1>1, <1>3, <1>13 DEF Fair, Unpaid, Live
  <2>2. s \in Active
    BY <2>1 DEF Active
  <2>3. tenant.pastDue = FALSE /\ tenant.tier = subscription[s].tier
    BY <1>5, <2>2, AccessNow
  <2>4. GivesBack(x.from, payment[p].purpose)
    BY <1>6, <1>13, <2>1, <2>3 DEF GivesBack
  <2>5. Paid(W, payment', s)
    BY <1>5, <1>7, <2>1, PaidActive DEF Fair
  <2>6. payment[p].purpose \in {"SEAT_CHANGE", "TIER_CHANGE", "RENEWAL"}
    BY <1>13, PaymentIs DEF Purposes
  <2>7. payment[p].immediate => payment[p].target.interval = "YEARLY"
    BY DEF Yearly
  <2>8. \/ \A st \in B : st.do \notin Granting
        \/ \E tier, interval : Granted1(B, s, tier, interval)
    BY <1>4, <2>1, <2>3, <2>6, <2>7, ApplyGrants DEF B
  <2>9. CASE \A st \in B : st.do \notin Granting
    <3>1. \A st \in A : /\ st.do \notin Granting \cup {"charge", "payment", "cancel"}
                        /\ st.do = "snapshot" => st = x
      BY <1>6, <1>9, <2>9 DEF Granting
    <3>2. \A st \in A : st.do = "snapshot" => GivesBack(st.from, payment'[st.p].purpose)
      BY <1>6, <1>8, <2>4, <3>1
    <3> HIDE DEF A
    <3>3. Kept(A, W, payment')
      BY <1>7, <3>1, <3>2, KeptApart
    <3> QED BY <1>2, <3>3
  <2> QED BY <1>2, <1>11, <2>4, <2>5, <2>8, <2>9
<1> QED BY <1>12, <1>13

\* What is given of a first payment, and of changes at once, when the payments keep what they
\* are for, and a call comes to have other payments to insert only.
LEMMA FirstsKept ==
    ASSUME OneInitial, Yearly, NEW c \in Callers, \A d \in Callers \ {c} : call'[d] = call[d],
           DOMAIN payment' = DOMAIN payment,
           \A p \in DOMAIN payment : /\ payment'[p].of = payment[p].of
                                     /\ payment'[p].purpose = payment[p].purpose
                                     /\ payment'[p].target = payment[p].target
                                     /\ payment'[p].immediate = payment[p].immediate,
           \A x \in All(call'[c]) : x.do = "charge" =>
               \/ x \in All(call[c])
               \/ /\ x.row.purpose # "INITIAL"
                  /\ x.row.immediate => x.row.target.interval = "YEARLY"
    PROVE  OneInitial' /\ Yearly'
<1>1. \A d \in Callers : \A x \in All(call'[d]) : x.do = "charge" =>
          /\ x.row.purpose = "INITIAL" => x \in All(call[d])
          /\ x \in All(call[d]) \/ (x.row.immediate => x.row.target.interval = "YEARLY")
  OBVIOUS
<1>2. OneInitial'
  BY <1>1 DEF OneInitial
<1>3. Yearly'
  BY <1>1 DEF Yearly
<1> QED BY <1>2, <1>3

\* A decision inserts changes of the plan and of the seats only.
LEMMA DecisionCharges ==
    ASSUME TypesInv, NEW todo, NEW how, Decision(todo, how)
    PROVE  \A x \in Has(todo) : x.do = "charge" =>
               /\ x.row.purpose # "INITIAL"
               /\ x.row.immediate => x.row.target.interval = "YEARLY"
<1>1. CASE Plain(todo) \/ Overriding(todo)
  <2> SUFFICES ASSUME NEW x \in Has(todo), x.do = "charge"
               PROVE  /\ x.row.purpose # "INITIAL"
                      /\ x.row.immediate => x.row.target.interval = "YEARLY"
    OBVIOUS
  <2>1. todo = <<x>> /\ Charging(todo)
    BY <1>1, PlainKinds
  <2>2. PICK s \in Active, purpose \in {"TIER_CHANGE", "SEAT_CHANGE"}, target \in Plan, seats \in Nat,
             immediate \in BOOLEAN : /\ immediate => target.interval = "YEARLY"
                                     /\ todo = <<Inserts(s, purpose, target, seats, immediate)>>
    BY <2>1 DEF Charging
  <2>3. x = Inserts(s, purpose, target, seats, immediate)
    BY <2>1, <2>2
  <2>4. x.row.purpose = purpose /\ x.row.target = target /\ x.row.immediate = immediate
    BY <2>3 DEF Inserts, NewPayment
  <2> QED BY <2>2, <2>4
<1>2. ASSUME NEW p \in DOMAIN payment, Concerning(p, todo, how)
      PROVE  \A x \in Has(todo) : x.do # "charge"
  BY <1>2, ConcerningKinds
<1> QED BY <1>1, <1>2 DEF Decision, Concerning

\* A review has something to write that is not quiet, and so has a refund.
LEMMA ReviewDecides ==
    ASSUME TypesInv, NEW p \in DOMAIN payment, NEW todo, NEW how,
           Verifying(p, todo, how) \/ Refunding(p, todo, how)
    PROVE  \E st \in Has(todo) : st.do \notin QuietKinds
<1>1. PICK s \in DOMAIN subscription : s = payment[p].of
  BY PaymentIs
<1>2. CASE Refunding(p, todo, how)
  <2>1. PICK snap \in payment[p].from : todo = RefundTodo(p, s, snap)
    BY <1>1, <1>2 DEF Refunding
  <2>2. snap \in Snapshot
    BY PaymentIs
  <2> DEFINE a == SetsTier(snap.tenantTier)
  <2>3. a \in Has(todo)
    <3>1. Has(RefundTodo(p, s, snap)) =
              {SetsPlan(s, snap.tier, snap.interval),
               SetsStatus(s, IF payment[p].purpose = "INITIAL" THEN "CANCELLED" ELSE snap.status,
                          {snap.end}),
               SetsTier(snap.tenantTier), SetsCap(snap.tenantTier, snap.interval),
               SetsPayment(p, "REFUNDED")}
              \cup (IF payment[p].purpose = "SEAT_CHANGE" THEN {SetsSeats(s, snap.seats)} ELSE {})
      BY <2>2, RefundHas
    <3> QED BY <2>1, <3>1
  <2>4. a.do = "tier"
    BY DEF SetsTier
  <2> QED BY <2>3, <2>4 DEF QuietKinds
<1>3. CASE Verifying(p, todo, how)
  <2>1. Has(Applies(p, s)) \subseteq Has(todo)
    BY <1>1, <1>3 DEF Verifying
  <2>2. CASE payment[p].purpose = "SEAT_CHANGE"
    <3>1. SetsSeats(s, payment[p].seats) \in Has(Applies(p, s))
      BY <2>2, SeatsHas DEF Applies
    <3>2. SetsSeats(s, payment[p].seats).do = "seats"
      BY DEF SetsSeats
    <3> QED BY <2>1, <3>1, <3>2 DEF QuietKinds
  <2>3. CASE payment[p].purpose = "TIER_CHANGE"
    <3>1. PICK to : to = payment[p].target
      OBVIOUS
    <3>2. \/ SetsTier(to.tier) \in Has(Applies(p, s))
          \/ Schedules(s, to.tier, to.interval) \in Has(Applies(p, s))
      <4>1. Applies(p, s) = AppliesTier(p, s)
        BY <2>3 DEF Applies
      <4>2. \/ SetsTier(to.tier) \in Has(AppliesTier(p, s))
            \/ Schedules(s, to.tier, to.interval) \in Has(AppliesTier(p, s))
        <5>1. CASE Has(AppliesTier(p, s)) =
                       {SetsPlan(s, to.tier, to.interval), SetsStatus(s, "ACTIVE", {PeriodEnd(day, to.interval)}),
                        SetsTier(to.tier), SetsCap(to.tier, to.interval), Stamps(p)}
          BY <5>1
        <5>2. CASE Has(AppliesTier(p, s)) = {Schedules(s, to.tier, to.interval)}
          BY <5>2
        <5>3. ASSUME NEW interval \in Intervals,
                     Has(AppliesTier(p, s)) = {SetsPlan(s, to.tier, interval), SetsTier(to.tier),
                                               SetsCap(to.tier, interval), Stamps(p)}
              PROVE  SetsTier(to.tier) \in Has(AppliesTier(p, s))
          BY <5>3
        <5> QED BY <3>1, <5>1, <5>2, <5>3, TierHas
      <4> QED BY <4>1, <4>2
    <3>3. SetsTier(to.tier).do = "tier" /\ Schedules(s, to.tier, to.interval).do = "schedule"
      BY DEF SetsTier, Schedules
    <3> QED BY <2>1, <3>2, <3>3 DEF QuietKinds
  <2>4. CASE payment[p].purpose = "RENEWAL"
    <3> DEFINE a == SetsCap(subscription[s].tier, subscription[s].interval)
    <3>1. a \in Has(Applies(p, s))
      BY <2>4, RenewalHas DEF Applies
    <3>2. a.do = "cap"
      BY DEF SetsCap
    <3> QED BY <2>1, <3>1, <3>2 DEF QuietKinds
  <2>5. CASE payment[p].purpose \notin {"SEAT_CHANGE", "TIER_CHANGE", "RENEWAL"}
    <3>1. SetsTier(subscription[s].tier) \in Has(Applies(p, s))
      BY <2>5, InitialHas DEF Applies
    <3>2. SetsTier(subscription[s].tier).do = "tier"
      BY DEF SetsTier
    <3> QED BY <2>1, <3>1, <3>2 DEF QuietKinds
  <2> QED BY <2>2, <2>3, <2>4, <2>5
<1> QED BY <1>2, <1>3

\* What a decision leaves, unless it is a straying.
LEMMA DecisionKept ==
    ASSUME TypesInv, RowsStand, OneInitial, Yearly, NEW W, W \subseteq AllInHand, Fair(W), NEW todo, NEW how,
           Decision(todo, how), how \cap {"ended", "again", "override"} = {},
           (\E st \in Has(todo) : st.do \notin QuietKinds) => AllQuiet(W)
    PROVE  Kept(Has(todo), W, payment')
<1>1. CASE payment' = payment /\ Plain(todo)
  BY <1>1, PlainKept
<1>2. ASSUME NEW p \in DOMAIN payment, payment' = payment, Reporting(p, todo, how)
      PROVE  Kept(Has(todo), W, payment')
  BY <1>2, ReportKept
<1>3. ASSUME NEW p \in DOMAIN payment, payment' = payment, Cancelling(p, todo, how)
      PROVE  Kept(Has(todo), W, payment')
  BY <1>3, CancelKept
<1>4. ASSUME NEW p \in DOMAIN payment, payment' = payment, Linking(p, todo, how)
      PROVE  Kept(Has(todo), W, payment')
  BY <1>4, LinkKept
<1>5. ASSUME NEW p \in DOMAIN payment, payment' = payment, Refunding(p, todo, how)
      PROVE  Kept(Has(todo), W, payment')
  <2>1. AllQuiet(W) /\ "ended" \notin how
    BY <1>5, ReviewDecides
  <2>2. Kept(Has(todo), W, payment)
    BY <1>5, <2>1, RefundKept
  <2> QED BY <1>5, <2>2
<1>6. ASSUME NEW p \in DOMAIN payment, Verifying(p, todo, how),
             payment' = [payment EXCEPT ![p].status = "VERIFIED"]
      PROVE  Kept(Has(todo), W, payment')
  <2>1. AllQuiet(W) /\ "ended" \notin how /\ "again" \notin how
    BY <1>6, ReviewDecides
  <2> QED BY <1>6, <2>1, VerifyKept
<1>7. ASSUME NEW p \in DOMAIN payment, Rejecting(p, todo, how),
             payment' = [payment EXCEPT ![p].status = "REJECTED"]
      PROVE  Kept(Has(todo), W, payment')
  BY <1>7, RejectKept
<1>8. how # {"override"}
  OBVIOUS
<1> QED BY <1>1, <1>2, <1>3, <1>4, <1>5, <1>6, <1>7, <1>8 DEF Decision

\* What is in hand is about payments that are there.
LEMMA HandIsFair ==
    ASSUME TypesInv, Access(AllInHand, tenant, subscription), Unpaid(AllInHand, subscription, payment)
    PROVE  Fair(AllInHand)
<1>1. ASSUME NEW st \in AllInHand, st.do \in {"payment", "cancel", "snapshot"} PROVE st.p \in DOMAIN payment
  <2>1. PICK c \in Callers : st \in All(call[c])
    BY DEF AllInHand
  <2> QED BY <1>1, <2>1 DEF TypesInv, Referring, Refers, PaymentOf
<1> QED BY <1>1 DEF Fair

\* While one call decides, what the others have in hand is quiet.
LEMMA OthersQuiet ==
    ASSUME NEW c \in Callers, \A d \in Callers : PhaseOK(call[d]),
           \A d \in Callers \ {c} : ~Deciding(call[d])
    PROVE  \A d \in Callers \ {c} : \A st \in All(call[d]) : st.do \in QuietKinds
  BY QuietCall

LEMMA AccessDecided ==
    ASSUME AccessInv, FlightInv', NEW c \in Callers, NEW todo, NEW how, Decided(c, todo, how)
    PROVE  AccessInv'
<1>0. TypesInv /\ StandingInv /\ OneInitial /\ Yearly
  BY DEF AccessInv, FlightInv, StandingInv
<1>1. /\ \A d \in Callers \ {c} : call'[d] = call[d]
      /\ call'[c].phase = "none" /\ call'[c].todo = todo /\ call'[c].later = NoRows
      /\ call[c] = NoCall /\ strayed' = strayed \cup how \cup Crosses(c, call'[c])
  BY <1>0, DecidesMoves DEF Decided
<1>2. Decision(todo, how) /\ UNCHANGED <<tenant, subscription>>
  BY DEF Decided
<1>3. All(call'[c]) = Has(todo) /\ All(call[c]) = {}
  BY <1>1, NoRowsIs, NoCallStands DEF All
<1>4. OneInitial' /\ Yearly'
  <2>1. /\ DOMAIN payment' = DOMAIN payment
        /\ \A p \in DOMAIN payment : /\ payment'[p].of = payment[p].of
                                     /\ payment'[p].purpose = payment[p].purpose
                                     /\ payment'[p].target = payment[p].target
                                     /\ payment'[p].immediate = payment[p].immediate
    BY <1>0, <1>2, DecisionPayments
  <2>2. \A x \in All(call'[c]) : x.do = "charge" =>
            x.row.purpose # "INITIAL" /\ (x.row.immediate => x.row.target.interval = "YEARLY")
    BY <1>0, <1>2, <1>3, DecisionCharges
  <2> QED BY <1>0, <1>1, <2>1, <2>2, FirstsKept
<1>5. AllInHand' = Has(todo) \cup AllInHand
  BY <1>1, <1>3 DEF AllInHand
<1>6. ASSUME Orderly'
      PROVE  Access(AllInHand', tenant', subscription') /\ Unpaid(AllInHand', subscription', payment')
  <2>1. Orderly /\ how \cap {"ended", "again", "override"} = {} /\ Straight
    BY <1>1, <1>6 DEF Orderly, Straight
  <2>2. RowsStand /\ Fair(AllInHand)
    BY <1>0, <2>1, HandIsFair DEF AccessInv, StandingInv
  <2>3. ASSUME \E st \in Has(todo) : st.do \notin QuietKinds PROVE AllQuiet(AllInHand)
    <3>1. PICK now : now = call'[c]
      OBVIOUS
    <3>2. Deciding(now)
      BY <1>1, <2>3, <3>1, DecidingIs
    <3>3. "crossed" \notin Crosses(c, now)
      BY <1>1, <1>6, <3>1 DEF Orderly
    <3>4. \A d \in Callers \ {c} : ~Deciding(call[d])
      BY <3>2, <3>3, CrossesDecider
    <3>5. \A d \in Callers \ {c} : \A st \in All(call[d]) : st.do \in QuietKinds
      BY <1>0, <3>4, OthersQuiet DEF StandingInv
    <3> QED BY <1>3, <3>5 DEF AllQuiet, AllInHand
  <2>4. PICK W : W = AllInHand
    OBVIOUS
  <2>5. Kept(Has(todo), W, payment')
    BY <1>0, <1>2, <2>1, <2>2, <2>3, <2>4, DecisionKept
  <2> QED BY <1>2, <1>5, <2>4, <2>5 DEF Kept
<1> QED BY <1>4, <1>6 DEF AccessInv

\* A scheduled change of the plan that lands grants the plan, or ends access.
LEMMA LandKept ==
    ASSUME TypesInv, NEW W, Fair(W), AllQuiet(W), NEW s \in Active, subscription[s].pending # {}
    PROVE  Kept(Has(LandsPlan(s)), W, payment)
<1>1. (\A st \in W : st.do \in QuietKinds) /\ Access(W, tenant, subscription)
  BY DEF Fair, AllQuiet
<1>2. /\ tenant.pastDue = FALSE
      /\ \A r \in DOMAIN subscription \ {s} : subscription[r].status # "ACTIVE"
  BY <1>1, AccessNow
<1>3. s \in DOMAIN subscription /\ subscription[s].status = "ACTIVE"
  BY LiveIs, ActiveIs
<1> DEFINE A == Has(LandsPlan(s))
<1>4. ASSUME A = {SetsPlan(s, Free, "same"), SetsStatus(s, "CANCELLED", {}), SetsTier(Free),
                  SetsCap(Free, "MONTHLY")}
                 \cup (IF subscription[s].seats > 0 THEN {SetsSeats(s, 0)} ELSE {})
      PROVE  Kept(A, W, payment)
  <2> DEFINE a == SetsPlan(s, Free, "same")
             b == SetsStatus(s, "CANCELLED", {})
             d == SetsTier(Free)
             e == SetsCap(Free, "MONTHLY")
  <2>1. /\ a.do = "plan" /\ b.do = "status" /\ b.s = s /\ b.status = "CANCELLED"
        /\ d.do = "tier" /\ d.tier = Free /\ e.do = "cap" /\ e.cap = CapOf(Free, "MONTHLY")
        /\ SetsSeats(s, 0).do = "seats"
    BY DEF SetsPlan, SetsStatus, SetsTier, SetsCap, SetsSeats
  <2> HIDE DEF a, b, d, e, A
  <2>2. /\ \A st \in A : st = a \/ st = b \/ st = d \/ st = e \/ st.do = "seats"
        /\ b \in A /\ d \in A /\ e \in A
    BY <1>4, <2>1 DEF a, b, d, e
  <2>3. Ended1(A, s)
    BY <1>2, <2>1, <2>2 DEF Ended1
  <2>4. Clean(A, payment)
    BY <2>1, <2>2 DEF Clean
  <2> QED BY <1>3, <2>3, <2>4, EndKept, AlikeSame
<1>5. ASSUME NEW to \in Plan, NEW interval \in Intervals, NEW P \in SUBSET (DOMAIN payment),
             interval = Or(to.interval, subscription[s].interval),
             A = {SetsPlan(s, to.tier, to.interval),
                  SetsStatus(s, "ACTIVE", {PeriodEnd(subscription[s].end, interval)}),
                  SetsTier(to.tier), SetsCap(to.tier, interval)}
                 \cup Has(StampsFunding(P))
      PROVE  Kept(A, W, payment)
  <2> DEFINE a == SetsPlan(s, to.tier, to.interval)
             b == SetsStatus(s, "ACTIVE", {PeriodEnd(subscription[s].end, interval)})
             d == SetsTier(to.tier)
             e == SetsCap(to.tier, interval)
  <2>1. /\ a.do = "plan" /\ a.s = s /\ a.tier = to.tier /\ a.interval = to.interval
        /\ b.do = "status" /\ b.s = s /\ b.status = "ACTIVE"
        /\ d.do = "tier" /\ d.tier = to.tier /\ e.do = "cap" /\ e.cap = CapOf(to.tier, interval)
    BY DEF SetsPlan, SetsStatus, SetsTier, SetsCap
  <2>2. \A st \in Has(StampsFunding(P)) : st.do = "stamp"
    BY StampsSound
  <2> HIDE DEF a, b, d, e, A
  <2>3. /\ \A st \in A : st = a \/ st = b \/ st = d \/ st = e \/ st.do = "stamp"
        /\ a \in A /\ b \in A /\ d \in A /\ e \in A
    BY <1>5, <2>2 DEF a, b, d, e
  <2>4. Granted1(A, s, to.tier, interval)
    BY <1>2, <1>3, <1>5, <2>1, <2>3 DEF Granted1
  <2>5. Clean(A, payment)
    BY <2>1, <2>3 DEF Clean
  <2>6. Paid(W, payment, s)
    BY <1>1, <1>3, PaidActive, AlikeSame DEF Fair
  <2> QED BY <1>3, <2>4, <2>5, <2>6, GrantKept, AlikeSame
<1> QED BY <1>3, <1>4, <1>5, PlanLandedHas

\* An expiry ends access.
LEMMA ExpireKept ==
    ASSUME TypesInv, NEW W, Fair(W), AllQuiet(W), NEW s \in Active
    PROVE  Kept(Has(Expires(s)), W, payment)
<1>1. (\A st \in W : st.do \in QuietKinds) /\ Access(W, tenant, subscription)
  BY DEF Fair, AllQuiet
<1>2. \A r \in DOMAIN subscription \ {s} : subscription[r].status # "ACTIVE"
  BY <1>1, AccessNow
<1>3. s \in DOMAIN subscription
  BY ActiveIs
<1> DEFINE A == Has(Expires(s))
           b == SetsStatus(s, "EXPIRED", {})
           d == SetsTier(Free)
           e == SetsCap(Free, "MONTHLY")
           f == SetsPastDue(TRUE)
<1>4. A = {d, e, b, f} \cup (IF subscription[s].seats > 0 THEN {SetsSeats(s, 0)} ELSE {})
  BY <1>3, ExpiresHas
<1>5. /\ b.do = "status" /\ b.s = s /\ b.status = "EXPIRED" /\ d.do = "tier" /\ d.tier = Free
      /\ e.do = "cap" /\ e.cap = CapOf(Free, "MONTHLY") /\ f.do = "pastDue"
      /\ SetsSeats(s, 0).do = "seats"
  BY DEF SetsStatus, SetsTier, SetsCap, SetsPastDue, SetsSeats
<1> HIDE DEF A, b, d, e, f
<1>6. /\ \A st \in A : st = b \/ st = d \/ st = e \/ st = f \/ st.do = "seats"
      /\ b \in A /\ d \in A /\ e \in A
  BY <1>4, <1>5
<1>7. Ended1(A, s)
  BY <1>2, <1>5, <1>6 DEF Ended1
<1>8. Clean(A, payment)
  BY <1>5, <1>6 DEF Clean
<1>9. Kept(A, W, payment)
  BY <1>3, <1>7, <1>8, EndKept, AlikeSame
<1> QED BY <1>9 DEF A

\* What the job writes of one row of a phase.
LEMMA RowKept ==
    ASSUME TypesInv, NEW W, Fair(W), AllQuiet(W), NEW rows,
           rows \in {DueSeats, DueTiers, DueReminders, DueExpiries}, NEW s \in DOMAIN rows
    PROVE  s \in Active /\ Kept(Has(rows[s]), W, payment)
<1>1. CASE rows = DueSeats
  <2>1. s \in Active /\ \A st \in Has(rows[s]) : st.do = "seats"
    BY <1>1, SeatsDue DEF DueSeats, ForEach
  <2>2. PICK A : A = Has(rows[s])
    OBVIOUS
  <2>3. Kept(A, W, payment)
    BY <2>1, <2>2, KeptApart, AlikeSame DEF Granting
  <2> QED BY <2>1, <2>2, <2>3
<1>2. CASE rows = DueTiers
  <2>1. s \in Active /\ subscription[s].pending # {} /\ rows[s] = LandsPlan(s)
    BY <1>2 DEF DueTiers, ForEach
  <2> QED BY <2>1, LandKept
<1>3. CASE rows = DueReminders
  <2>1. s \in Active /\ rows[s] = OpensRenewal(s)
    BY <1>3 DEF DueReminders, ForEach
  <2>2. PICK A : A = Has(OpensRenewal(s))
    OBVIOUS
  <2>3. \A x \in A : x.do = "charge" /\ x.row.of = s /\ x.row.purpose = "RENEWAL"
    BY <2>2, OpensIs
  <2>4. subscription[s].status = "ACTIVE"
    BY <2>1, LiveIs
  <2>5. Kept(A, W, payment)
    BY <2>3, <2>4, KeptApart, AlikeSame DEF Granting
  <2> QED BY <2>1, <2>2, <2>5
<1>4. CASE rows = DueExpiries
  <2>1. s \in Active /\ rows[s] = Expires(s)
    BY <1>4 DEF DueExpiries, ForEach
  <2> QED BY <2>1, ExpireKept
<1> QED BY <1>1, <1>2, <1>3, <1>4

\* A phase of the job has one row at most, as access is to one.
LEMMA RowsKept ==
    ASSUME TypesInv, NEW W, Fair(W), AllQuiet(W), NEW rows,
           rows \in {DueSeats, DueTiers, DueReminders, DueExpiries}
    PROVE  Kept(UNION {Has(rows[s]) : s \in DOMAIN rows}, W, payment)
<1> DEFINE A == UNION {Has(rows[s]) : s \in DOMAIN rows}
<1>1. (\A st \in W : st.do \in QuietKinds) /\ Access(W, tenant, subscription)
  BY DEF Fair, AllQuiet
<1>2. CASE DOMAIN rows = {}
  <2>1. A = {}
    BY <1>2
  <2> HIDE DEF A
  <2>2. Kept(A, W, payment)
    BY <2>1, KeptApart, AlikeSame
  <2> QED BY <2>2 DEF A
<1>3. CASE DOMAIN rows # {}
  <2>1. PICK s : s \in DOMAIN rows
    BY <1>3
  <2>2. s \in Active /\ Kept(Has(rows[s]), W, payment)
    BY <2>1, RowKept
  <2>3. \A r \in DOMAIN subscription \ {s} : subscription[r].status # "ACTIVE"
    BY <1>1, <2>2, AccessNow
  <2>4. \A r \in DOMAIN rows : r = s
    <3> SUFFICES ASSUME NEW r \in DOMAIN rows PROVE r = s
      OBVIOUS
    <3>1. r \in Active
      BY RowKept
    <3> QED BY <2>3, <3>1 DEF Active
  <2>5. DOMAIN rows = {s}
    BY <2>1, <2>4
  <2>6. A = Has(rows[s])
    BY <2>5
  <2> QED BY <2>2, <2>6
<1> QED BY <1>2, <1>3

LEMMA AccessJob ==
    ASSUME AccessInv, FlightInv', NEW c \in Callers, RunsJob(c) \/ GoesOnJob(c)
    PROVE  AccessInv'
<1>0. TypesInv /\ StandingInv /\ OneInitial /\ Yearly
  BY DEF AccessInv, FlightInv, StandingInv
<1>1. PICK phase, rows : JobEnters(c, phase, rows)
  BY <1>0, JobStep
<1>2. DOMAIN rows \subseteq Nat /\ Enters(c, phase, rows)
  BY <1>0, <1>1, JobRows DEF JobEnters
<1>3. /\ \A d \in Callers \ {c} : call'[d] = call[d]
      /\ call'[c].phase = phase
      /\ All(call'[c]) = UNION {Has(rows[s]) : s \in DOMAIN rows}
      /\ UNCHANGED <<day, tenant, subscription, payment>>
      /\ strayed' = strayed \cup Crosses(c, call'[c])
  BY <1>0, <1>2, EntersMoves
<1>4. All(call[c]) = {}
  <2>1. call[c].todo = <<>> /\ DOMAIN call[c].later = {}
    BY <1>0, <1>1 DEF JobEnters, TypesInv, Referring
  <2> QED BY <2>1, HasNone DEF All
<1>5. \/ rows = NoRows /\ phase = "none"
      \/ rows \in {DueSeats, DueTiers, DueReminders, DueExpiries} /\ phase # "none"
  BY <1>1 DEF JobEnters
<1>6. ASSUME NEW x \in All(call'[c]), x.do = "charge"
      PROVE  x.row.purpose # "INITIAL" /\ x.row.immediate = FALSE
  <2>1. PICK s \in DOMAIN rows : x \in Has(rows[s])
    BY <1>3
  <2>2. rows # NoRows
    BY <2>1, NoRowsIs
  <2>3. CASE rows = DueSeats
    BY <1>0, <1>6, <2>1, <2>3, SeatsDue
  <2>4. CASE rows = DueTiers
    BY <1>0, <1>6, <2>1, <2>4, TiersDue
  <2>5. CASE rows = DueExpiries
    BY <1>0, <1>6, <2>1, <2>5, ExpiriesDue
  <2>6. CASE rows = DueReminders
    <3>1. rows[s] = OpensRenewal(s)
      BY <2>1, <2>6 DEF DueReminders, ForEach
    <3>2. Has(OpensRenewal(s)) = {Inserts(s, "RENEWAL", Same, 0, FALSE)}
      BY HasOne DEF OpensRenewal
    <3> QED BY <2>1, <3>1, <3>2 DEF Inserts, NewPayment
  <2> QED BY <1>5, <2>2, <2>3, <2>4, <2>5, <2>6
<1>7. OneInitial' /\ Yearly'
  <2>1. \A x \in All(call'[c]) : x.do = "charge" =>
            x.row.purpose # "INITIAL" /\ (x.row.immediate => x.row.target.interval = "YEARLY")
    BY <1>6
  <2> QED BY <1>0, <1>3, <2>1, FirstsKept
<1>8. PICK A : A = UNION {Has(rows[s]) : s \in DOMAIN rows}
  OBVIOUS
<1>9. AllInHand' = A \cup AllInHand
  BY <1>3, <1>4, <1>8 DEF AllInHand
<1>10. ASSUME Orderly'
       PROVE  Access(AllInHand', tenant', subscription') /\ Unpaid(AllInHand', subscription', payment')
  <2>1. Orderly
    BY <1>3, <1>10 DEF Orderly
  <2>2. Fair(AllInHand)
    BY <1>0, <2>1, HandIsFair DEF AccessInv
  <2>3. PICK W : W = AllInHand
    OBVIOUS
  <2>4. CASE rows = NoRows
    <3>1. A = {}
      BY <1>8, <2>4, NoRowsIs
    <3>2. Kept(A, W, payment)
      BY <2>2, <2>3, <3>1, KeptApart, AlikeSame
    <3> QED BY <1>3, <1>9, <2>3, <3>2 DEF Kept
  <2>5. CASE rows \in {DueSeats, DueTiers, DueReminders, DueExpiries} /\ phase # "none"
    <3>1. PICK now : now = call'[c]
      OBVIOUS
    <3>2. Deciding(now)
      BY <1>3, <2>5, <3>1, DecidingIs
    <3>3. "crossed" \notin Crosses(c, now)
      BY <1>3, <1>10, <3>1 DEF Orderly
    <3>4. \A d \in Callers \ {c} : ~Deciding(call[d])
      BY <3>2, <3>3, CrossesDecider
    <3>5. \A d \in Callers \ {c} : \A st \in All(call[d]) : st.do \in QuietKinds
      BY <1>0, <3>4, OthersQuiet DEF StandingInv
    <3>6. AllQuiet(W)
      BY <1>4, <2>3, <3>5 DEF AllQuiet, AllInHand
    <3>7. Kept(A, W, payment)
      BY <1>0, <1>8, <2>2, <2>3, <2>5, <3>6, RowsKept
    <3> QED BY <1>3, <1>9, <2>3, <3>7 DEF Kept
  <2> QED BY <1>5, <2>4, <2>5
<1> QED BY <1>7, <1>10 DEF AccessInv

\* What is in hand after a statement that is not written alone.
LEMMA HandAfter ==
    ASSUME TypesInv, NEW c \in Callers, PhaseOK(call[c]), Continues(c), NEW st, st = Head(call[c].todo),
           st.do \notin Alone
    PROVE  st \in AllInHand /\ AllInHand' \subseteq AllInHand /\ AllInHand \ {st} \subseteq AllInHand'
<1>1. /\ st \in All(call[c]) /\ All(call'[c]) \subseteq All(call[c]) /\ All(call[c]) \ {st} \subseteq All(call'[c])
      /\ \A d \in Callers \ {c} : call'[d] = call[d]
  BY ContinuesAll
<1>2. st \in AllInHand
  BY <1>1 DEF AllInHand
<1>3. ASSUME NEW x \in AllInHand' PROVE x \in AllInHand
  <2>1. PICK d \in Callers : x \in All(call'[d])
    BY <1>3 DEF AllInHand
  <2>2. x \in All(call[d])
    BY <1>1, <2>1
  <2> QED BY <2>2 DEF AllInHand
<1>4. ASSUME NEW x \in AllInHand, x # st PROVE x \in AllInHand'
  <2>1. PICK d \in Callers : x \in All(call[d])
    BY <1>4 DEF AllInHand
  <2>2. x \in All(call'[d])
    BY <1>1, <1>4, <2>1
  <2> QED BY <2>2 DEF AllInHand
<1> QED BY <1>2, <1>3, <1>4

LEMMA HandRefers ==
    ASSUME TypesInv
    PROVE  \A x \in AllInHand : Refers(x, DOMAIN subscription, DOMAIN payment)
  BY DEF TypesInv, Referring, AllInHand

\* A first payment that is inserted is the only one of its row.
LEMMA ChargeFirsts ==
    ASSUME FlightInv, OneInitial, Yearly, NEW c \in Callers, Continues(c), NEW st, st = Head(call[c].todo),
           st.do = "charge"
    PROVE  OneInitial' /\ Yearly'
<1>0. TypesInv /\ PhaseOK(call[c]) /\ st.do \notin Alone
  BY DEF FlightInv, StandingInv, Alone
<1>1. /\ st \in Statement /\ st \in All(call[c]) /\ Writes(st)
      /\ \A d \in Callers \ {c} : call'[d] = call[d]
      /\ All(call'[c]) \subseteq All(call[c])
  BY <1>0, ContinuesAll
<1>2. payment \in Seq(Payment)
  BY <1>0 DEF TypesInv, BillingTypeOK
<1>3. payment' = Append(payment, st.row) /\ st.row \in Payment
  BY <1>1, <1>2, WritesCharge
<1>4. PICK n : n = Len(payment) + 1
  OBVIOUS
<1>5. /\ DOMAIN payment' = DOMAIN payment \cup {n} /\ n \notin DOMAIN payment /\ payment'[n] = st.row
      /\ \A k \in DOMAIN payment : payment'[k] = payment[k]
  BY <1>2, <1>3, <1>4, PutsLast
<1>6. \A x \in All(call'[c]) :
          x.do = "charge" => <<x.row.of, x.row.purpose>> # <<st.row.of, st.row.purpose>>
  BY ChargeLeaves
<1>7. \A d \in Callers : All(call'[d]) \subseteq All(call[d])
  BY <1>1
<1>8. ASSUME NEW p \in DOMAIN payment', NEW q \in DOMAIN payment',
             payment'[p].purpose = "INITIAL", payment'[q].purpose = "INITIAL",
             payment'[p].of = payment'[q].of
      PROVE  p = q
  BY <1>1, <1>5, <1>8 DEF OneInitial
<1>9. ASSUME NEW d \in Callers, NEW x \in All(call'[d]), x.do = "charge", x.row.purpose = "INITIAL"
      PROVE  /\ \A p \in DOMAIN payment' : payment'[p].purpose = "INITIAL" => payment'[p].of # x.row.of
             /\ \A e \in Callers : \A su \in All(call'[e]) :
                   su.do = "charge" /\ su.row.purpose = "INITIAL" /\ su.row.of = x.row.of => d = e
  <2>1. x \in All(call[d])
    BY <1>7
  <2>2. \A p \in DOMAIN payment : payment[p].purpose = "INITIAL" => payment[p].of # x.row.of
    BY <1>9, <2>1 DEF OneInitial
  <2>3. ASSUME st.row.purpose = "INITIAL", st.row.of = x.row.of PROVE FALSE
    <3>1. d = c
      BY <1>1, <1>9, <2>1, <2>3 DEF OneInitial
    <3> QED BY <1>6, <1>9, <2>3, <3>1
  <2>4. \A e \in Callers : \A su \in All(call'[e]) :
            su.do = "charge" /\ su.row.purpose = "INITIAL" /\ su.row.of = x.row.of => d = e
    BY <1>7, <1>9, <2>1 DEF OneInitial
  <2> QED BY <1>5, <2>2, <2>3, <2>4
<1>10. OneInitial'
  BY <1>8, <1>9 DEF OneInitial
<1>11. Yearly'
  <2>1. \A p \in DOMAIN payment' : payment'[p].immediate => payment'[p].target.interval = "YEARLY"
    BY <1>1, <1>5 DEF Yearly
  <2>2. \A d \in Callers : \A x \in All(call'[d]) :
            x.do = "charge" /\ x.row.immediate => x.row.target.interval = "YEARLY"
    BY <1>7 DEF Yearly
  <2> QED BY <2>1, <2>2 DEF Yearly
<1> QED BY <1>10, <1>11

\* And the rest of what holds of access, when a payment is inserted.
LEMMA AccessCharges ==
    ASSUME AccessInv, Orderly, NEW c \in Callers, Continues(c), NEW st, st = Head(call[c].todo),
           st.do = "charge"
    PROVE  Access(AllInHand', tenant', subscription') /\ Unpaid(AllInHand', subscription', payment')
<1>0. TypesInv /\ PhaseOK(call[c]) /\ st.do \notin Alone /\ StandingInv /\ Straight
  BY DEF AccessInv, FlightInv, StandingInv, Alone, Orderly, Straight
<1>1. st \in Statement /\ st \in All(call[c]) /\ Writes(st)
  BY <1>0, ContinuesAll
<1>2. PICK W, V : W = AllInHand /\ V = AllInHand'
  OBVIOUS
<1>3. st \in W /\ V \in SUBSET W /\ W \ {st} \subseteq V
  BY <1>0, <1>2, HandAfter
<1>4. \A x \in W : Refers(x, DOMAIN subscription, DOMAIN payment)
  BY <1>0, <1>2, HandRefers
<1>5. payment \in Seq(Payment)
  BY <1>0 DEF TypesInv, BillingTypeOK
<1>6. payment' = Append(payment, st.row) /\ st.row \in Payment /\ UNCHANGED <<tenant, subscription>>
  BY <1>1, <1>5, WritesCharge
<1>7. PICK n : n = Len(payment) + 1
  OBVIOUS
<1>8. /\ DOMAIN payment' = DOMAIN payment \cup {n} /\ n \notin DOMAIN payment /\ payment'[n] = st.row
      /\ \A k \in DOMAIN payment : payment'[k] = payment[k]
  BY <1>5, <1>6, <1>7, PutsLast
<1>9. st.row.from = {}
  BY <1>0, <1>1 DEF StandingInv, CallStands, Stands
<1>10. Access(W, tenant, subscription) /\ Unpaid(W, subscription, payment)
  BY <1>2 DEF AccessInv
<1>11. Access(V, tenant, subscription)
  <2>1. \A x \in W : x.do \in Granting => x \in V
    BY <1>3 DEF Granting
  <2>2. \A x \in V : x.do \in Granting => x \in W
    BY <1>3
  <2> QED BY <1>10, <2>1, <2>2, SameAccess
<1>12. PICK pays1 : pays1 = payment'
  OBVIOUS
<1>13. Unpaid(V, subscription, pays1)
  BY <1>3, <1>4, <1>8, <1>9, <1>10, <1>12, UnpaidInserted
<1> QED BY <1>2, <1>6, <1>11, <1>12, <1>13

\* The calls keep to payments of rows.
LEMMA AccessWrites ==
    ASSUME AccessInv, NEW c \in Callers, Continues(c), NEW st, st = Head(call[c].todo),
           st.do \notin Alone \cup {"charge"}
    PROVE  /\ OneInitial' /\ Yearly'
           /\ Orderly => Access(AllInHand', tenant', subscription') /\ Unpaid(AllInHand', subscription', payment')
<1>0. TypesInv /\ PhaseOK(call[c]) /\ st.do \notin Alone /\ OneInitial /\ Yearly
  BY DEF AccessInv, FlightInv, StandingInv
<1>1. /\ st \in Statement /\ st \in All(call[c]) /\ Writes(st)
      /\ Refers(st, DOMAIN subscription, DOMAIN payment)
      /\ \A d \in Callers \ {c} : call'[d] = call[d]
      /\ All(call'[c]) \subseteq All(call[c])
  BY <1>0, ContinuesAll
<1>2. st.do # "charge" /\ st.do # "subscribe"
  BY DEF Alone
<1>3. PICK t1, rows1, pays1 : t1 = tenant' /\ rows1 = subscription' /\ pays1 = payment'
  OBVIOUS
<1>4. WritesTo(st, tenant, t1, subscription, rows1)
  BY <1>0, <1>1, <1>2, <1>3, WritesEffect
<1>5. PaysTo(st, payment, pays1)
  BY <1>0, <1>1, <1>2, <1>3, PaysWritten
<1>6. OneInitial' /\ Yearly'
  <2>1. /\ DOMAIN payment' = DOMAIN payment
        /\ \A p \in DOMAIN payment : /\ payment'[p].of = payment[p].of
                                     /\ payment'[p].purpose = payment[p].purpose
                                     /\ payment'[p].target = payment[p].target
                                     /\ payment'[p].immediate = payment[p].immediate
    BY <1>3, <1>5 DEF PaysTo
  <2>2. \A x \in All(call'[c]) : x \in All(call[c])
    BY <1>1
  <2> QED BY <1>0, <1>1, <2>1, <2>2, FirstsKept
<1>7. ASSUME Orderly
      PROVE  Access(AllInHand', tenant', subscription') /\ Unpaid(AllInHand', subscription', payment')
  <2>1. PICK W, V : W = AllInHand /\ V = AllInHand'
    OBVIOUS
  <2>2. st \in W /\ V \in SUBSET W /\ W \ {st} \subseteq V
    BY <1>0, <2>1, HandAfter
  <2>3. \A x \in W : Refers(x, DOMAIN subscription, DOMAIN payment)
    BY <1>0, <2>1, HandRefers
  <2>4. \A p \in DOMAIN payment : payment[p].of \in DOMAIN subscription
    BY <1>0 DEF TypesInv, BillingTypeOK
  <2>5. Access(W, tenant, subscription) /\ Unpaid(W, subscription, payment)
    BY <1>7, <2>1 DEF AccessInv
  <2>6. Access(V, t1, rows1)
    BY <1>4, <2>2, <2>5, AccessWritten
  <2>7. Unpaid(V, rows1, pays1)
    BY <1>4, <1>5, <2>2, <2>3, <2>4, <2>5, UnpaidWritten
  <2> QED BY <1>3, <2>1, <2>6, <2>7
<1> QED BY <1>6, <1>7

\* Who writes a statement that is written alone has nothing else in hand, and decides, so that
\* the others have quiet statements only.
LEMMA AloneHand ==
    ASSUME StandingInv, Orderly, NEW c \in Callers, Continues(c), NEW st, st = Head(call[c].todo),
           st.do \in Alone
    PROVE  \E W : /\ AllInHand = {st} \cup W /\ AllInHand' = Has(Then(st)) \cup W /\ AllQuiet(W)
<1>0. TypesInv /\ PhaseOK(call[c]) /\ (\A d \in Callers : PhaseOK(call[d])) /\ "crossed" \notin strayed
  BY DEF StandingInv, Orderly
<1>1. /\ All(call'[c]) = Has(Then(st)) /\ call[c].phase = "none"
      /\ \A d \in Callers \ {c} : call'[d] = call[d]
  BY <1>0, ContinuesAll
<1>2. call[c].todo \in Seq(Statement) /\ call[c].todo # <<>>
  BY <1>0 DEF TypesInv, BillingTypeOK, Continues
<1>3. st \in Has(call[c].todo)
  BY <1>2, HasRest
<1>4. call[c].todo = <<st>> /\ DOMAIN call[c].later = {}
  BY <1>0, <1>1, <1>3 DEF PhaseOK
<1>5. All(call[c]) = {st}
  <2>1. Has(call[c].todo) = {st}
    BY <1>4, HasOne
  <2> QED BY <1>4, <2>1 DEF All
<1>6. Deciding(call[c])
  <2>1. PICK now : now = call[c]
    OBVIOUS
  <2>2. st \in Has(now.todo) /\ st.do \notin QuietKinds
    BY <1>3, <2>1 DEF Alone, QuietKinds
  <2> QED BY <2>1, <2>2, DecidingIs
<1>7. \A d \in Callers \ {c} : ~Deciding(call[d])
  BY <1>0, <1>6 DEF StandingInv, OneDecider
<1>8. \A d \in Callers \ {c} : \A x \in All(call[d]) : x.do \in QuietKinds
  BY <1>0, <1>7, OthersQuiet
<1> DEFINE W == UNION {All(call[d]) : d \in Callers \ {c}}
<1>9. AllInHand = {st} \cup W
  BY <1>5 DEF AllInHand
<1>10. AllInHand' = Has(Then(st)) \cup W
  BY <1>1 DEF AllInHand
<1>11. AllQuiet(W)
  BY <1>8 DEF AllQuiet
<1> QED BY <1>9, <1>10, <1>11

\* Fewer payments to come leave the unpaid as they are.
LEMMA UnpaidFewer ==
    ASSUME NEW W, NEW V \in SUBSET W, \A st \in W : st.do = "status" => st \in V,
           NEW rows, NEW pays, Unpaid(W, rows, pays)
    PROVE  Unpaid(V, rows, pays)
<1>1. \A s : NotActive(W, rows, s) => NotActive(V, rows, s)
  BY SameActive
<1> QED BY <1>1 DEF Unpaid

LEMMA AloneFair ==
    ASSUME TypesInv, Access(AllInHand, tenant, subscription), Unpaid(AllInHand, subscription, payment),
           NEW st, st.do \in Alone, NEW W, AllInHand = {st} \cup W
    PROVE  Fair(W)
<1>1. PICK U : U = AllInHand
  OBVIOUS
<1>2. /\ \A x \in U : x.do \in Granting => x \in W
      /\ \A x \in U : x.do = "status" => x \in W
      /\ \A x \in W : x.do \in Granting => x \in U
      /\ W \in SUBSET U
  BY <1>1 DEF Alone, Granting
<1>3. Access(W, tenant, subscription)
  BY <1>1, <1>2, SameAccess
<1>4. Unpaid(W, subscription, payment)
  BY <1>1, <1>2, UnpaidFewer
<1>5. Fair(AllInHand)
  BY HandIsFair
<1> QED BY <1>1, <1>2, <1>3, <1>4, <1>5 DEF Fair

\* A row that is inserted is not paid for, and has its first payment to come.
LEMMA RowAdded ==
    ASSUME NEW W, AllQuiet(W), NEW t, NEW rows, NEW rows1, NEW n, n \notin DOMAIN rows,
           DOMAIN rows1 = DOMAIN rows \cup {n}, \A k \in DOMAIN rows : rows1[k] = rows[k],
           rows1[n].status = "PENDING_PAYMENT", NEW pays, NEW y, y.do = "charge",
           y.row.purpose = "INITIAL", y.row.of = n,
           \A p \in DOMAIN pays : pays[p].of \in DOMAIN rows,
           \A x \in W : x.do = "charge" => x.row.of \in DOMAIN rows,
           Access(W, t, rows), Unpaid(W, rows, pays)
    PROVE  Access({y} \cup W, t, rows1) /\ Unpaid({y} \cup W, rows1, pays)
<1> DEFINE V == {y} \cup W
<1>1. /\ \A st \in V : st = y \/ st \in W
      /\ \A st \in V : st.do \in QuietKinds
      /\ W \subseteq V
  BY DEF AllQuiet, QuietKinds
<1> HIDE DEF V
<1>2. \A s : NotActive(V, rows1, s) <=> rows1[s].status # "ACTIVE"
  BY <1>1 DEF NotActive, StatusOf, QuietKinds
<1>3. \A s : NotActive(W, rows, s) <=> rows[s].status # "ACTIVE"
  BY DEF NotActive, StatusOf, QuietKinds, AllQuiet
<1>4. Access(W, t, rows1)
  <2>1. \A s \in DOMAIN rows : /\ NotActive(W, rows, s) => NotActive(W, rows1, s)
                               /\ BecomesActive(W, rows, s) => BecomesActive(W, rows1, s)
    BY DEF NotActive, BecomesActive
  <2>2. NotActive(W, rows1, n)
    BY DEF NotActive, StatusOf, QuietKinds, AllQuiet
  <2>3. CASE Ungranted(W, t, rows)
    BY <2>1, <2>2, <2>3 DEF Ungranted, Access
  <2>4. ASSUME NEW s \in DOMAIN rows, NEW tier, NEW interval, Granted(W, t, rows, s, tier, interval)
        PROVE  Access(W, t, rows1)
    <3>1. BecomesActive(W, rows1, s) /\ \A r \in DOMAIN rows1 \ {s} : NotActive(W, rows1, r)
      BY <2>1, <2>2, <2>4 DEF Granted
    <3>2. PlanTo(W, rows1, s, tier, interval)
      BY <2>4 DEF Granted, PlanTo
    <3>3. Granted(W, t, rows1, s, tier, interval)
      BY <2>4, <3>1, <3>2 DEF Granted
    <3> QED BY <3>3 DEF Access
  <2> QED BY <2>3, <2>4 DEF Access
<1>5. Access(V, t, rows1)
  <2>1. /\ \A st \in W : st.do \in Granting => st \in V
        /\ \A st \in V : st.do \in Granting => st \in W
    BY <1>1 DEF Granting
  <2> QED BY <1>4, <2>1, SameAccess
<1>6. ASSUME NEW p \in DOMAIN pays
      PROVE  /\ pays[p].purpose # "INITIAL" => rows1[pays[p].of].status # "PENDING_PAYMENT"
             /\ pays[p].purpose = "INITIAL" /\ Undecided(pays[p]) => NotActive(V, rows1, pays[p].of)
             /\ \A from \in pays[p].from : GivesBack(from, pays[p].purpose)
  BY <1>2, <1>3 DEF Unpaid
<1>7. ASSUME NEW st \in V
      PROVE  /\ st.do = "charge" =>
                   IF st.row.purpose = "INITIAL" THEN NotActive(V, rows1, st.row.of)
                   ELSE rows1[st.row.of].status # "PENDING_PAYMENT"
             /\ st.do \notin {"status", "payment", "cancel"}
             /\ st.do = "snapshot" => GivesBack(st.from, pays[st.p].purpose)
  <2>1. CASE st = y
    BY <1>2, <2>1
  <2>2. CASE st \in W
    BY <1>1, <1>2, <1>3, <2>2 DEF Unpaid, QuietKinds
  <2> QED BY <1>1, <2>1, <2>2, <1>7 DEF QuietKinds
<1>8. Unpaid(V, rows1, pays)
  BY <1>6, <1>7 DEF Unpaid
<1> QED BY <1>5, <1>8 DEF V

\* A subscription is inserted, and its first payment is to come.
LEMMA SubscribeFirsts ==
    ASSUME TypesInv, OneInitial, Yearly, NEW c \in Callers, PhaseOK(call[c]), Continues(c),
           NEW st, st = Head(call[c].todo), st.do = "subscribe"
    PROVE  OneInitial' /\ Yearly'
<1>1. /\ st \in Statement /\ Writes(st) /\ Refers(st, DOMAIN subscription, DOMAIN payment)
      /\ All(call'[c]) = Has(Then(st)) /\ \A d \in Callers \ {c} : call'[d] = call[d]
  BY ContinuesAll DEF Alone
<1>2. subscription \in Seq(Subscription)
  BY DEF TypesInv, BillingTypeOK
<1>3. /\ subscription' = Append(subscription, NewSubscription(st.tier, st.interval))
      /\ NewSubscription(st.tier, st.interval) \in Subscription
      /\ UNCHANGED <<tenant, payment>>
  BY <1>1, <1>2, WritesSubscribe
<1>4. PICK n : n = Len(subscription')
  OBVIOUS
<1>5. n \notin DOMAIN subscription
  BY <1>2, <1>3, <1>4, PutsLast
<1> DEFINE y == Inserts(n, "INITIAL", Same, 0, FALSE)
<1>6. Has(Then(st)) = {y}
  BY <1>1, <1>4, ThenHas
<1>7. y.row.of = n /\ y.row.immediate = FALSE
  BY DEF Inserts, NewPayment
<1> HIDE DEF y
<1>8. All(call'[c]) = {y}
  BY <1>1, <1>6
<1>9. \A d \in Callers : \A x \in All(call[d]) : x.do = "charge" => x.row.of # n
  BY <1>5 DEF TypesInv, Referring, Refers
<1>10. \A p \in DOMAIN payment : payment[p].of # n
  BY <1>5 DEF TypesInv, BillingTypeOK
<1>11. \A d \in Callers : \A x \in All(call'[d]) : (x = y /\ d = c) \/ (x \in All(call[d]) /\ x # y)
  <2>1. \A d \in Callers \ {c} : \A x \in All(call[d]) : x # y
    <3>1. y.do = "charge"
      BY DEF y, Inserts
    <3> QED BY <1>7, <1>9, <3>1
  <2> QED BY <1>1, <1>8, <2>1
<1>12. OneInitial'
  <2>1. ASSUME NEW d \in Callers, NEW x \in All(call'[d]), x.do = "charge", x.row.purpose = "INITIAL"
        PROVE  /\ \A p \in DOMAIN payment : payment[p].purpose = "INITIAL" => payment[p].of # x.row.of
               /\ \A e \in Callers : \A su \in All(call'[e]) :
                     su.do = "charge" /\ su.row.purpose = "INITIAL" /\ su.row.of = x.row.of => d = e
    <3>1. CASE x = y /\ d = c
      BY <1>7, <1>9, <1>10, <1>11, <2>1, <3>1
    <3>2. CASE x \in All(call[d])
      <4>1. \A p \in DOMAIN payment : payment[p].purpose = "INITIAL" => payment[p].of # x.row.of
        BY <2>1, <3>2 DEF OneInitial
      <4>2. x.row.of # n
        BY <1>9, <2>1, <3>2
      <4>3. \A e \in Callers : \A su \in All(call'[e]) :
                su.do = "charge" /\ su.row.purpose = "INITIAL" /\ su.row.of = x.row.of => d = e
        BY <1>7, <1>11, <2>1, <3>2, <4>2 DEF OneInitial
      <4> QED BY <4>1, <4>3
    <3> QED BY <1>11, <3>1, <3>2
  <2>2. \A p, q \in DOMAIN payment :
            payment[p].purpose = "INITIAL" /\ payment[q].purpose = "INITIAL"
            /\ payment[p].of = payment[q].of => p = q
    BY DEF OneInitial
  <2> QED BY <1>3, <2>1, <2>2 DEF OneInitial
<1>13. Yearly'
  <2>1. \A d \in Callers : \A x \in All(call'[d]) :
            x.do = "charge" /\ x.row.immediate => x.row.target.interval = "YEARLY"
    BY <1>7, <1>11 DEF Yearly
  <2>2. \A p \in DOMAIN payment : payment[p].immediate => payment[p].target.interval = "YEARLY"
    BY DEF Yearly
  <2> QED BY <1>3, <2>1, <2>2 DEF Yearly
<1> QED BY <1>12, <1>13

LEMMA AccessSubscribes ==
    ASSUME AccessInv, Orderly, NEW c \in Callers, Continues(c), NEW st, st = Head(call[c].todo),
           st.do = "subscribe"
    PROVE  Access(AllInHand', tenant', subscription') /\ Unpaid(AllInHand', subscription', payment')
<1>0. /\ TypesInv /\ StandingInv /\ PhaseOK(call[c]) /\ st.do \in Alone
      /\ Access(AllInHand, tenant, subscription) /\ Unpaid(AllInHand, subscription, payment)
  BY DEF AccessInv, FlightInv, StandingInv, Alone
<1>1. /\ st \in Statement /\ Writes(st) /\ Refers(st, DOMAIN subscription, DOMAIN payment)
  BY <1>0, ContinuesAll
<1>2. subscription \in Seq(Subscription)
  BY <1>0 DEF TypesInv, BillingTypeOK
<1>3. /\ subscription' = Append(subscription, NewSubscription(st.tier, st.interval))
      /\ NewSubscription(st.tier, st.interval) \in Subscription
      /\ UNCHANGED <<tenant, payment>>
  BY <1>1, <1>2, WritesSubscribe
<1>4. PICK n, rows1 : n = Len(subscription') /\ rows1 = subscription'
  OBVIOUS
<1>5. /\ n \notin DOMAIN subscription /\ DOMAIN rows1 = DOMAIN subscription \cup {n}
      /\ rows1[n] = NewSubscription(st.tier, st.interval)
      /\ \A k \in DOMAIN subscription : rows1[k] = subscription[k]
  BY <1>2, <1>3, <1>4, PutsLast
<1>6. rows1[n].status = "PENDING_PAYMENT"
  BY <1>5 DEF NewSubscription
<1>7. PICK W : AllInHand = {st} \cup W /\ AllInHand' = Has(Then(st)) \cup W /\ AllQuiet(W)
  BY <1>0, AloneHand
<1>8. Access(W, tenant, subscription) /\ Unpaid(W, subscription, payment)
  BY <1>0, <1>7, AloneFair DEF Fair
<1>9. PICK y : y = Inserts(n, "INITIAL", Same, 0, FALSE)
  OBVIOUS
<1>10. AllInHand' = {y} \cup W
  BY <1>0, <1>1, <1>4, <1>7, <1>9, ThenHas
<1>11. y.do = "charge" /\ y.row.purpose = "INITIAL" /\ y.row.of = n
  BY <1>9 DEF Inserts, NewPayment
<1>12. \A p \in DOMAIN payment : payment[p].of \in DOMAIN subscription
  BY <1>0 DEF TypesInv, BillingTypeOK
<1>13. \A x \in W : x.do = "charge" => x.row.of \in DOMAIN subscription
  BY <1>0, <1>7, HandRefers DEF Refers
<1>14. Access({y} \cup W, tenant, rows1) /\ Unpaid({y} \cup W, rows1, payment)
  BY <1>5, <1>6, <1>7, <1>8, <1>11, <1>12, <1>13, RowAdded
<1> QED BY <1>3, <1>4, <1>10, <1>14

\* A payment is cancelled, and its subscription, that was never paid for, is to be.
LEMMA CancelEnds ==
    ASSUME NEW W, AllQuiet(W), NEW t, NEW rows, Access(W, t, rows), NEW x, x.do = "status",
           x.status = "CANCELLED", rows[x.s].status = "PENDING_PAYMENT"
    PROVE  Access({x} \cup W, t, rows)
<1> DEFINE V == {x} \cup W
<1>1. /\ \A st \in V : st = x \/ st.do \in QuietKinds
      /\ W \subseteq V
  BY DEF AllQuiet
<1> HIDE DEF V
<1>2. \A s : /\ NotActive(W, rows, s) => NotActive(V, rows, s)
             /\ BecomesActive(W, rows, s) => BecomesActive(V, rows, s)
  <2> SUFFICES ASSUME NEW s
               PROVE  /\ NotActive(W, rows, s) => NotActive(V, rows, s)
                      /\ BecomesActive(W, rows, s) => BecomesActive(V, rows, s)
    OBVIOUS
  <2>1. ~\E st \in W : StatusOf(st, s)
    BY DEF AllQuiet, QuietKinds, StatusOf
  <2>2. \A st \in V : StatusOf(st, s) => st = x /\ s = x.s
    BY <1>1 DEF StatusOf, QuietKinds
  <2> QED BY <2>1, <2>2 DEF NotActive, BecomesActive
<1>3. /\ \A s, tier, interval : PlanTo(W, rows, s, tier, interval) => PlanTo(V, rows, s, tier, interval)
      /\ \A tier : TierTo(W, t, tier) => TierTo(V, t, tier)
      /\ \A cap : CapTo(W, t, cap) => CapTo(V, t, cap)
      /\ \A b : DueTo(W, t, b) => DueTo(V, t, b)
  <2>1. \A st \in V : st.do \notin {"plan", "tier", "cap", "pastDue"}
    BY <1>1 DEF QuietKinds
  <2>2. \A st \in W : st.do \notin {"plan", "tier", "cap", "pastDue"}
    BY DEF QuietKinds, AllQuiet
  <2>3. \A s, tier, interval : PlanTo(W, rows, s, tier, interval) => PlanTo(V, rows, s, tier, interval)
    BY <2>1, <2>2 DEF PlanTo, PlanOf
  <2>4. \A tier : TierTo(W, t, tier) => TierTo(V, t, tier)
    BY <2>1, <2>2 DEF TierTo
  <2>5. \A cap : CapTo(W, t, cap) => CapTo(V, t, cap)
    BY <2>1, <2>2 DEF CapTo
  <2>6. \A b : DueTo(W, t, b) => DueTo(V, t, b)
    BY <2>1, <2>2 DEF DueTo
  <2> QED BY <2>3, <2>4, <2>5, <2>6
<1>4. CASE Ungranted(W, t, rows)
  <2>1. Ungranted(V, t, rows)
    BY <1>2, <1>3, <1>4 DEF Ungranted
  <2> QED BY <2>1 DEF Access, V
<1>5. ASSUME NEW s \in DOMAIN rows, NEW tier, NEW interval, Granted(W, t, rows, s, tier, interval)
      PROVE  Access(V, t, rows)
  <2>1. Granted(V, t, rows, s, tier, interval)
    BY <1>2, <1>3, <1>5 DEF Granted
  <2> QED BY <2>1 DEF Access
<1> QED BY <1>4, <1>5 DEF Access, V

LEMMA AccessCancels ==
    ASSUME AccessInv, Orderly, NEW c \in Callers, Continues(c), NEW st, st = Head(call[c].todo),
           st.do = "cancel"
    PROVE  Access(AllInHand', tenant', subscription') /\ Unpaid(AllInHand', subscription', payment')
<1>0. /\ TypesInv /\ StandingInv /\ PhaseOK(call[c]) /\ st.do \in Alone
      /\ Access(AllInHand, tenant, subscription) /\ Unpaid(AllInHand, subscription, payment)
  BY DEF AccessInv, FlightInv, StandingInv, Alone
<1>1. /\ st \in Statement /\ Writes(st) /\ Refers(st, DOMAIN subscription, DOMAIN payment)
  BY <1>0, ContinuesAll
<1>2. payment \in Seq(Payment) /\ st.do \in PaymentOf /\ st.p \in DOMAIN payment
  BY <1>0, <1>1 DEF TypesInv, BillingTypeOK, PaymentOf, Refers
<1>3. UNCHANGED <<tenant, subscription>>
  BY <1>1, <1>2, WritesOfPayment
<1>4. PICK t1, rows1, pays1, U : t1 = tenant' /\ rows1 = subscription' /\ pays1 = payment' /\ U = AllInHand
  OBVIOUS
<1>5. WritesTo(st, tenant, t1, subscription, rows1)
  BY <1>0, <1>1, <1>4, WritesEffect
<1>6. PaysTo(st, payment, pays1)
  BY <1>0, <1>1, <1>4, PaysWritten
<1>7. PICK W : AllInHand = {st} \cup W /\ AllInHand' = Has(Then(st)) \cup W /\ AllQuiet(W)
  BY <1>0, AloneHand
<1>8. Access(W, tenant, subscription)
  BY <1>0, <1>7, AloneFair DEF Fair
<1>9. Unpaid(W, rows1, pays1)
  <2>1. st \in U /\ W \in SUBSET U /\ U \ {st} \subseteq W
    BY <1>4, <1>7
  <2>2. \A x \in U : Refers(x, DOMAIN subscription, DOMAIN payment)
    BY <1>0, <1>4, HandRefers
  <2>3. \A p \in DOMAIN payment : payment[p].of \in DOMAIN subscription
    BY <1>0 DEF TypesInv, BillingTypeOK
  <2>4. Unpaid(U, subscription, payment)
    BY <1>0, <1>4
  <2> QED BY <1>5, <1>6, <2>1, <2>2, <2>3, <2>4, UnpaidWritten
<1>10. \A x \in W : x.do \in {"payment", "cancel", "snapshot"} => x.p \in DOMAIN pays1
  BY <1>0, <1>6, <1>7, HandRefers DEF Refers, PaymentOf, PaysTo
<1>11. CASE Has(Then(st)) = {}
  BY <1>3, <1>4, <1>7, <1>8, <1>9, <1>11
<1>12. CASE /\ Has(Then(st)) = {SetsStatus(payment[st.p].of, "CANCELLED", {})}
            /\ subscription[payment[st.p].of].status = "PENDING_PAYMENT"
  <2>1. PICK x : x = SetsStatus(payment[st.p].of, "CANCELLED", {})
    OBVIOUS
  <2>2. x.do = "status" /\ x.status = "CANCELLED" /\ x.s = payment[st.p].of
    BY <2>1 DEF SetsStatus
  <2>3. Access({x} \cup W, tenant, subscription)
    BY <1>7, <1>8, <1>12, <2>2, CancelEnds
  <2>4. Alike(pays1, pays1)
    BY DEF Alike
  <2>5. PICK A : A = {x}
    OBVIOUS
  <2>6. \A su \in A : su.do = "status" /\ su.status = "CANCELLED"
    BY <2>2, <2>5
  <2>7. Unpaid(A \cup W, rows1, pays1)
    BY <1>9, <1>10, <2>4, <2>6, UnpaidAdded
  <2> QED BY <1>3, <1>4, <1>7, <1>12, <2>1, <2>3, <2>5, <2>7
<1> QED BY <1>0, <1>1, <1>11, <1>12, ThenHas

\* A promotion begins the period of the subscription that is ACTIVE, and sets the cap it has.
LEMMA AccessPromotes ==
    ASSUME AccessInv, Orderly, NEW c \in Callers, Continues(c), NEW st, st = Head(call[c].todo),
           st.do = "promote"
    PROVE  Access(AllInHand', tenant', subscription') /\ Unpaid(AllInHand', subscription', payment')
<1>0. /\ TypesInv /\ StandingInv /\ PhaseOK(call[c]) /\ st.do \in Alone
      /\ Access(AllInHand, tenant, subscription) /\ Unpaid(AllInHand, subscription, payment)
  BY DEF AccessInv, FlightInv, StandingInv, Alone
<1>1. /\ st \in Statement /\ Writes(st) /\ Refers(st, DOMAIN subscription, DOMAIN payment)
  BY <1>0, ContinuesAll
<1>2. PICK t1 : t1 = tenant'
  OBVIOUS
<1>3. /\ UNCHANGED <<subscription, payment>>
      /\ t1.tier = tenant.tier /\ t1.cap = tenant.cap /\ t1.pastDue = tenant.pastDue
  <2>1. tenant \in Tenant
    BY <1>0 DEF TypesInv, BillingTypeOK
  <2> QED BY <1>1, <1>2, <2>1, WritesTenant
<1>4. PICK W : AllInHand = {st} \cup W /\ AllInHand' = Has(Then(st)) \cup W /\ AllQuiet(W)
  BY <1>0, AloneHand
<1>5. Fair(W)
  BY <1>0, <1>4, AloneFair
<1>6. PICK A : A = Has(Then(st))
  OBVIOUS
<1>7. Kept(A, W, payment)
  <2>1. CASE A = {}
    BY <1>5, <2>1, KeptApart, AlikeSame
  <2>2. ASSUME NEW s \in Active, NEW P \in SUBSET (DOMAIN payment),
               A = {SetsStatus(s, "ACTIVE", {PeriodEnd(day, subscription[s].interval)}),
                    SetsCap(subscription[s].tier, subscription[s].interval)}
                   \cup Has(StampsFunding(P))
        PROVE  Kept(A, W, payment)
    <3> DEFINE tier == subscription[s].tier
               interval == subscription[s].interval
               b == SetsStatus(s, "ACTIVE", {PeriodEnd(day, interval)})
               e == SetsCap(tier, interval)
    <3>1. b.do = "status" /\ b.s = s /\ b.status = "ACTIVE" /\ e.do = "cap" /\ e.cap = CapOf(tier, interval)
      BY DEF SetsStatus, SetsCap
    <3>2. \A x \in Has(StampsFunding(P)) : x.do = "stamp"
      BY <1>0, StampsSound
    <3> HIDE DEF b, e
    <3>3. (\A x \in A : x = b \/ x = e \/ x.do = "stamp") /\ b \in A /\ e \in A
      BY <2>2, <3>2 DEF b, e
    <3>4. (\A x \in W : x.do \in QuietKinds) /\ Access(W, tenant, subscription)
      BY <1>4, <1>5 DEF Fair, AllQuiet
    <3>5. /\ tenant.tier = tier /\ tenant.pastDue = FALSE
          /\ \A r \in DOMAIN subscription \ {s} : subscription[r].status # "ACTIVE"
      BY <1>0, <3>4, AccessNow
    <3>6. s \in DOMAIN subscription /\ subscription[s].status = "ACTIVE"
      BY LiveIs, ActiveIs
    <3>7. Granted1(A, s, tier, interval)
      BY <3>1, <3>3, <3>5, <3>6 DEF Granted1
    <3>8. Clean(A, payment)
      BY <3>1, <3>3 DEF Clean
    <3>9. Paid(W, payment, s)
      BY <1>5, <3>4, <3>6, PaidActive, AlikeSame DEF Fair
    <3> HIDE DEF tier, interval
    <3> QED BY <1>4, <1>5, <3>6, <3>7, <3>8, <3>9, GrantKept, AlikeSame
  <2> QED BY <1>0, <1>1, <1>6, <2>1, <2>2, ThenHas
<1>8. PICK V : V = A \cup W
  OBVIOUS
<1>9. Access(V, tenant, subscription) /\ Unpaid(V, subscription, payment)
  BY <1>7, <1>8 DEF Kept
<1>10. Access(V, t1, subscription)
  BY <1>3, <1>9, SameAccess
<1> QED BY <1>2, <1>3, <1>4, <1>6, <1>8, <1>9, <1>10

\* A statement is written.
LEMMA AccessContinues ==
    ASSUME AccessInv, FlightInv', NEW c \in Callers, Continues(c)
    PROVE  AccessInv'
<1>0. TypesInv /\ PhaseOK(call[c]) /\ FlightInv /\ OneInitial /\ Yearly
  BY DEF AccessInv, FlightInv, StandingInv
<1>1. PICK st : st = Head(call[c].todo)
  OBVIOUS
<1>2. strayed' = strayed
  BY <1>0, <1>1, ContinuesAll
<1>3. OneInitial' /\ Yearly'
  <2>1. CASE st.do = "charge"
    BY <1>0, <1>1, <2>1, ChargeFirsts
  <2>2. CASE st.do = "subscribe"
    BY <1>0, <1>1, <2>2, SubscribeFirsts
  <2>3. CASE st.do \in {"cancel", "promote"}
    <3>1. /\ st \in Statement /\ Writes(st) /\ Refers(st, DOMAIN subscription, DOMAIN payment)
          /\ All(call'[c]) = Has(Then(st)) /\ \A d \in Callers \ {c} : call'[d] = call[d]
      BY <1>0, <1>1, <2>3, ContinuesAll DEF Alone
    <3>2. \A x \in All(call'[c]) : x.do # "charge"
      BY <1>0, <2>3, <3>1, ThenKinds
    <3>3. PaysTo(st, payment, payment')
      <4>1. PICK pays1 : pays1 = payment'
        OBVIOUS
      <4>2. PaysTo(st, payment, pays1)
        BY <1>0, <2>3, <3>1, <4>1, PaysWritten
      <4> QED BY <4>1, <4>2
    <3>4. /\ DOMAIN payment' = DOMAIN payment
          /\ \A p \in DOMAIN payment : /\ payment'[p].of = payment[p].of
                                       /\ payment'[p].purpose = payment[p].purpose
                                       /\ payment'[p].target = payment[p].target
                                       /\ payment'[p].immediate = payment[p].immediate
      BY <3>3 DEF PaysTo
    <3> QED BY <1>0, <3>1, <3>2, <3>4, FirstsKept
  <2>4. CASE st.do \notin Alone \cup {"charge"}
    BY <1>1, <2>4, AccessWrites
  <2> QED BY <2>1, <2>2, <2>3, <2>4 DEF Alone
<1>4. ASSUME Orderly
      PROVE  Access(AllInHand', tenant', subscription') /\ Unpaid(AllInHand', subscription', payment')
  <2>1. CASE st.do = "charge"
    BY <1>1, <1>4, <2>1, AccessCharges
  <2>2. CASE st.do = "subscribe"
    BY <1>1, <1>4, <2>2, AccessSubscribes
  <2>3. CASE st.do = "cancel"
    BY <1>1, <1>4, <2>3, AccessCancels
  <2>4. CASE st.do = "promote"
    BY <1>1, <1>4, <2>4, AccessPromotes
  <2>5. CASE st.do \notin Alone \cup {"charge"}
    BY <1>1, <1>4, <2>5, AccessWrites
  <2> QED BY <2>1, <2>2, <2>3, <2>4, <2>5 DEF Alone
<1>5. Orderly' => Orderly
  BY <1>2 DEF Orderly
<1> QED BY <1>3, <1>4, <1>5 DEF AccessInv

LEMMA AccessDies ==
    ASSUME AccessInv, FlightInv', NEW c \in Callers, Dies(c)
    PROVE  AccessInv'
<1>1. /\ call'[c] = NoCall /\ \A d \in Callers \ {c} : call'[d] = call[d]
      /\ UNCHANGED payment /\ strayed' = strayed \cup {"interrupted"}
  BY DEF Dies, AccessInv, FlightInv, StandingInv, TypesInv
<1>2. \A x \in All(call'[c]) : x \in All(call[c])
  BY <1>1, NoCallQuiet
<1>3. OneInitial' /\ Yearly'
  BY <1>1, <1>2, FirstsKept DEF AccessInv
<1>4. ~Orderly'
  BY <1>1 DEF Orderly
<1> QED BY <1>3, <1>4 DEF AccessInv

LEMMA AccessStands ==
    ASSUME AccessInv, FlightInv', UNCHANGED <<tenant, subscription, payment, call, strayed>>
    PROVE  AccessInv'
<1>1. OneInitial' /\ Yearly'
  BY DEF AccessInv, OneInitial, Yearly
<1>2. AllInHand' = AllInHand /\ (Orderly' <=> Orderly)
  BY DEF AllInHand, Orderly
<1>3. Orderly' => Access(AllInHand', tenant', subscription') /\ Unpaid(AllInHand', subscription', payment')
  BY <1>2 DEF AccessInv
<1> QED BY <1>1, <1>3 DEF AccessInv

LEMMA AccessBegins == BillingInit => AccessInv
<1> SUFFICES ASSUME BillingInit PROVE AccessInv
  OBVIOUS
<1>1. \A c \in Callers : All(call[c]) = {}
  <2>1. \A c \in Callers : call[c] = NoCall
    BY DEF BillingInit
  <2> QED BY <2>1, NoCallQuiet
<1>2. AllInHand = {}
  BY <1>1 DEF AllInHand
<1>3. /\ OneInitial /\ Yearly
      /\ Access({}, tenant, subscription) /\ Unpaid({}, subscription, payment)
  <2>1. ASSUME subscription = <<>>, payment = <<>>, NEW sandbox \in BOOLEAN,
               tenant = [tier |-> Free, cap |-> CapOf(Free, "MONTHLY"), pastDue |-> FALSE,
                         sandbox |-> sandbox]
        PROVE  <1>3!:
    <3>1. DOMAIN subscription = {} /\ DOMAIN payment = {}
      BY <2>1
    <3>2. tenant.tier = Free /\ tenant.cap = CapOf(Free, "MONTHLY")
      BY <2>1
    <3> HIDE <2>1
    <3>3. OneInitial /\ Yearly
      BY <1>1, <3>1 DEF OneInitial, Yearly
    <3>4. Ungranted({}, tenant, subscription)
      BY <3>1, <3>2 DEF Ungranted, TierTo, CapTo
    <3>5. Unpaid({}, subscription, payment)
      BY <3>1 DEF Unpaid
    <3> QED BY <3>3, <3>4, <3>5 DEF Access
  <2>2. ASSUME NEW tier \in PaidTiers, NEW interval \in Intervals,
               NEW row, row = [NewSubscription(tier, interval) EXCEPT
                                   !.status = "ACTIVE", !.end = PeriodEnd(0, interval)],
               NEW from, from = [tier |-> tier, interval |-> interval, seats |-> 0, end |-> 0,
                                 tenantTier |-> Free, status |-> "PENDING_PAYMENT"],
               NEW paid, paid = [NewPayment(1, "INITIAL", Same, 0, FALSE) EXCEPT
                                   !.status = "VERIFIED", !.stamped = TRUE, !.from = {from}],
               subscription = <<row>>, payment = <<paid>>,
               tenant = [tier |-> tier, cap |-> CapOf(tier, interval), pastDue |-> FALSE,
                         sandbox |-> FALSE]
        PROVE  <1>3!:
    <3>1. row.status = "ACTIVE" /\ row.tier = tier /\ row.interval = interval
      BY <2>2 DEF NewSubscription
    <3>2. /\ paid.from = {from} /\ paid.purpose = "INITIAL" /\ paid.immediate = FALSE
          /\ paid.status = "VERIFIED" /\ paid.of = 1
      BY <2>2 DEF NewPayment
    <3>3. from.tenantTier = Free
      BY <2>2
    <3>4. DOMAIN subscription = 1 .. 1 /\ subscription[1] = row
          /\ DOMAIN payment = 1 .. 1 /\ payment[1] = paid
      BY <2>2
    <3>5. tenant.tier = tier /\ tenant.cap = CapOf(tier, interval) /\ tenant.pastDue = FALSE
      BY <2>2
    <3> HIDE <2>2
    <3>6. (\A s \in DOMAIN subscription : s = 1) /\ 1 \in DOMAIN subscription
      BY <3>4
    <3>7. \A p \in DOMAIN payment : p = 1
      BY <3>4
    <3>8. OneInitial /\ Yearly
      BY <1>1, <3>2, <3>4, <3>7 DEF OneInitial, Yearly
    <3>9. Granted({}, tenant, subscription, 1, tier, interval)
      BY <3>1, <3>4, <3>5, <3>6
         DEF Granted, BecomesActive, NotActive, PlanTo, TierTo, CapTo, DueTo
    <3>10. Unpaid({}, subscription, payment)
      BY <3>2, <3>3, <3>4, <3>7 DEF Unpaid, Undecided, GivesBack
    <3> QED BY <3>6, <3>8, <3>9, <3>10 DEF Access
  <2> QED BY <2>1, <2>2 DEF BillingInit
<1> QED BY <1>2, <1>3, FlightBegins DEF AccessInv

LEMMA AccessKeeps == AccessInv /\ [BillingNext]_billingVars => AccessInv'
<1> SUFFICES ASSUME AccessInv, [BillingNext]_billingVars PROVE AccessInv'
  OBVIOUS
<1>0. FlightInv' /\ TypesInv
  BY FlightKeeps DEF AccessInv, FlightInv, StandingInv
<1>1. CASE NextDay
  <2>1. UNCHANGED <<tenant, subscription, payment, call, strayed>>
    BY <1>1 DEF NextDay
  <2> QED BY <1>0, <2>1, AccessStands
<1>2. ASSUME NEW c \in Callers, Requests(c) \/ Operates(c) PROVE AccessInv'
  BY <1>0, <1>2, RequestDecides, OperationDecides, AccessDecided
<1>3. ASSUME NEW c \in Callers, RunsJob(c) \/ GoesOnJob(c) PROVE AccessInv'
  BY <1>0, <1>3, AccessJob
<1>4. ASSUME NEW c \in Callers, Continues(c) PROVE AccessInv'
  BY <1>0, <1>4, AccessContinues
<1>5. ASSUME NEW c \in Callers, Dies(c) PROVE AccessInv'
  BY <1>0, <1>5, AccessDies
<1>6. CASE UNCHANGED billingVars
  <2>1. UNCHANGED <<tenant, subscription, payment, call, strayed>>
    BY <1>6 DEF billingVars
  <2> QED BY <1>0, <2>1, AccessStands
<1> QED BY <1>1, <1>2, <1>3, <1>4, <1>5, <1>6 DEF BillingNext

LEMMA AccessHolds == BillingSpec => []AccessInv
<1> QED BY AccessBegins, AccessKeeps, PTL DEF BillingSpec

\* When no call has a plan, a status or the access still to write, the tenant's tier, the cap
\* of its documents and its standing are those of its ACTIVE subscription, and without one it is
\* FREE: after any number of requests, reviews, refunds and runs of the job, unless a call died
\* half-way, two calls decided at once, a payment of an ended subscription or one decided on
\* before was acted on, or the operator overrode the rows.
THEOREM AccessFollowsSubscription == BillingSpec => []AccessMatchesSubscription
<1>1. ASSUME AccessInv PROVE AccessMatchesSubscription
  <2>1. CASE ~Orderly
    BY <2>1 DEF Orderly, AccessMatchesSubscription, Unless
  <2>2. ASSUME Orderly, Settled
        PROVE  /\ \A s \in Active : Agrees(s)
               /\ Active = {} => tenant.tier = Free /\ tenant.cap = CapOf(Free, "MONTHLY")
    <3>1. TypesInv /\ (\A c \in Callers : PhaseOK(call[c])) /\ Access(AllInHand, tenant, subscription)
      BY <1>1, <2>2 DEF AccessInv, FlightInv, StandingInv
    <3>2. \A c \in Callers : \A st \in All(call[c]) : st.do \in QuietKinds
      BY <2>2, <3>1, QuietCall DEF Settled
    <3>3. \A st \in AllInHand : st.do \in QuietKinds
      BY <3>2 DEF AllInHand
    <3>4. PICK W : W = AllInHand
      OBVIOUS
    <3>5. /\ Active = {} => tenant.tier = Free /\ tenant.cap = CapOf(Free, "MONTHLY")
          /\ \A s \in Active :
                /\ tenant.tier = subscription[s].tier /\ tenant.pastDue = FALSE
                /\ tenant.cap = CapOf(subscription[s].tier, subscription[s].interval)
      BY <3>1, <3>3, <3>4, AccessNow
    <3> QED BY <3>5 DEF Agrees
  <2> QED BY <2>1, <2>2 DEF AccessMatchesSubscription
<1> QED BY <1>1, AccessHolds, PTL
=============================================================================
