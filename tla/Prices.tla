------------------------------- MODULE Prices -------------------------------
(***************************************************************************)
(* The prices of one plan (tier_prices) and of a seat (seat_prices), for   *)
(* one billing interval, and the notices of their changes that one tenant  *)
(* is given.                                                               *)
(*                                                                         *)
(* The announcement lists the prices the tenant was not told of, and       *)
(* writes one notification for each, without a lock.  It is run for all    *)
(* notifiable tenants when a price is published and by the notification    *)
(* job, and for one tenant when it becomes ACTIVE.  A day is the clock's   *)
(* unit, and no two prices of a table take effect at the same time.        *)
(***************************************************************************)
EXTENDS Naturals, FiniteSets

CONSTANTS
    PriceRows,       \* prices that may be drafted
    Announcers,      \* notifyPendingPriceChangesForTenant() calls, again and again
    NoticeDays,      \* priceChangeMinNoticeDays
    LastPriceDay,    \* bound: the last day
    PriceFailures    \* bound: statements that fail, and crashes

ASSUME PriceBounds ==
    NoticeDays \in Nat /\ LastPriceDay \in Nat /\ PriceFailures \in Nat

VARIABLES
    today,
    price,           \* the rows: table, status, amount, and the day a published one takes effect
    told,            \* how many PRICE_CHANGE_ANNOUNCED notifications each price has
    notifiable,      \* the tenant is among those told of price changes
    announcer,       \* what each call is doing
    priceFailures,   \* failures so far
    doubled          \* history: prices two calls had in hand at once

pricesVars == <<today, price, told, notifiable, announcer, priceFailures, doubled>>

PriceTables == {"tier_prices", "seat_prices"}
Days == 0 .. LastPriceDay + NoticeDays + 1

PricesTypeOK ==
    /\ today \in 0 .. LastPriceDay
    /\ price \in [PriceRows -> [table : PriceTables, status : {"ABSENT", "DRAFT", "PUBLISHED"},
                               raised : BOOLEAN, effective : Days]]
    /\ told \in [PriceRows -> Nat] /\ notifiable \in BOOLEAN
    /\ announcer \in [Announcers -> [at : {"idle", "listed"}, todo : SUBSET PriceRows]]
    /\ priceFailures \in Nat /\ doubled \subseteq PriceRows

NoAnnouncer == [at |-> "idle", todo |-> {}]

NoPrice == [table |-> "tier_prices", status |-> "ABSENT", raised |-> FALSE, effective |-> 0]

\* One price of each table is in effect from the start (the migrations seed them).
PricesInit ==
    /\ today = 0
    /\ \E plan, seat \in PriceRows :
          /\ plan # seat
          /\ price = [p \in PriceRows |->
                 IF p = plan THEN [NoPrice EXCEPT !.status = "PUBLISHED"]
                 ELSE IF p = seat THEN [NoPrice EXCEPT !.status = "PUBLISHED", !.table = "seat_prices"]
                 ELSE NoPrice]
    /\ told = [p \in PriceRows |-> 0] /\ notifiable = FALSE
    /\ announcer = [c \in Announcers |-> NoAnnouncer]
    /\ priceFailures = 0 /\ doubled = {}

PriceFailure == priceFailures < PriceFailures /\ priceFailures' = priceFailures + 1

Published == {p \in PriceRows : price[p].status = "PUBLISHED"}

\* findCurrent(), which getPriceAsOf() charges: the newest published price in effect on
\* that day.
InEffect(table, day) == {p \in Published : price[p].table = table /\ price[p].effective <= day}
Latest(table, day) ==
    {p \in InEffect(table, day) :
         \A q \in InEffect(table, day) : price[q].effective <= price[p].effective}
AsOf(table, day) == CHOOSE p \in Latest(table, day) : TRUE

\* findUnnotifiedPendingForTenant().
Untold == {p \in Published : price[p].effective > today /\ told[p] = 0}

-----------------------------------------------------------------------------
(* Drafts and their publication.                                           *)

DraftsPrice(p) ==
    /\ price[p].status = "ABSENT" /\ price' = [price EXCEPT ![p].status = "DRAFT"]
    /\ UNCHANGED <<today, told, notifiable, announcer, priceFailures, doubled>>

DraftsSeatPrice(p) ==
    /\ price[p].status = "ABSENT"
    /\ price' = [price EXCEPT ![p].status = "DRAFT", ![p].table = "seat_prices"]
    /\ UNCHANGED <<today, told, notifiable, announcer, priceFailures, doubled>>

\* updatePriceUsd(), of either table: only a DRAFT row is written.
EditsDraft(p) ==
    /\ price[p].status = "DRAFT" /\ price' = [price EXCEPT ![p].raised = ~@]
    /\ UNCHANGED <<today, told, notifiable, announcer, priceFailures, doubled>>

\* Mutant: a price can be published with a shorter notice.
AnyNotice == 0 .. NoticeDays + 1

\* The notice asked for, which is at least the floor, or the floor.
Notice == NoticeDays .. NoticeDays + 1

\* publish(): only a DRAFT row.
Publishes(p, days) ==
    /\ price[p].status = "DRAFT"
    /\ InEffect(price[p].table, today + days) = InEffect(price[p].table, today + days - 1)
    /\ price' = [price EXCEPT ![p].status = "PUBLISHED", ![p].effective = today + days]
    /\ UNCHANGED <<today, told, notifiable, announcer, priceFailures, doubled>>

PublishesPrice(p) == price[p].table = "tier_prices" /\ \E days \in Notice : Publishes(p, days)

PublishesSeatPrice(p) == price[p].table = "seat_prices" /\ \E days \in Notice : Publishes(p, days)

\* The tenant is verified, suspended, or demoted without a subscription.
TenantTurns ==
    /\ notifiable' = ~notifiable
    /\ UNCHANGED <<today, price, told, announcer, priceFailures, doubled>>

-----------------------------------------------------------------------------
(* notifyPendingPriceChangesForTenant().                                   *)

\* A later status check is none of this call's: it tells the tenant it was called for.
ListsUntold(c) ==
    /\ announcer[c].at = "idle" /\ notifiable /\ Untold # {}
    /\ announcer' = [announcer EXCEPT ![c] = [at |-> "listed", todo |-> Untold]]
    /\ doubled' = doubled \cup (Untold \cap UNION {announcer[d].todo : d \in Announcers})
    /\ UNCHANGED <<today, price, told, notifiable, priceFailures>>

Tells(c, p) ==
    /\ p \in announcer[c].todo
    /\ told' = [told EXCEPT ![p] = @ + 1]
    /\ announcer' = [announcer EXCEPT ![c].todo = @ \ {p}]
    /\ UNCHANGED <<today, price, notifiable, priceFailures, doubled>>

TellsOfPrice(c, p) == price[p].table = "tier_prices" /\ Tells(c, p)

\* The seats' come after all of the plans'.
TellsOfSeatPrice(c, p) ==
    /\ \A q \in announcer[c].todo : price[q].table = "seat_prices"
    /\ Tells(c, p)

\* The call is through, or a statement of it fails.
EndsAnnouncing(c) ==
    /\ announcer[c].at = "listed"
    /\ \/ announcer[c].todo = {} /\ UNCHANGED priceFailures
       \/ PriceFailure
    /\ announcer' = [announcer EXCEPT ![c] = NoAnnouncer]
    /\ UNCHANGED <<today, price, told, notifiable, doubled>>

DayPasses ==
    /\ today < LastPriceDay /\ today' = today + 1
    /\ UNCHANGED <<price, told, notifiable, announcer, priceFailures, doubled>>

-----------------------------------------------------------------------------
PricesNext ==
    \/ \E p \in PriceRows : \/ DraftsPrice(p) \/ DraftsSeatPrice(p) \/ EditsDraft(p)
                            \/ PublishesPrice(p) \/ PublishesSeatPrice(p)
    \/ \E c \in Announcers : \/ ListsUntold(c) \/ EndsAnnouncing(c)
                             \/ \E p \in PriceRows : TellsOfPrice(c, p) \/ TellsOfSeatPrice(c, p)
    \/ TenantTurns \/ DayPasses

PricesSpec == PricesInit /\ [][PricesNext]_pricesVars

-----------------------------------------------------------------------------
(* Properties.                                                             *)

\* A tenant is told once of each price, and only of a published one, however often the
\* announcement is run and interrupted; unless two runs had the price at once
\* (pricing.service.js:119-136).
ToldOnce == \A p \in PriceRows : /\ told[p] > 0 => p \in Published
                                 /\ told[p] <= 1 \/ p \in doubled

Charged(table, day) == LET p == AsOf(table, day) IN <<p, price[p].raised>>

\* What a period that starts within the notice days from now will cost is settled: a
\* renewal or a deferred change is never charged a price published less than the notice
\* before, and no step changes a price already announced (pricing.service.js:26-42,
\* 62-97, 187-242, tier-price.model.js:13-33, 55-64).
PriceIsSettled ==
    [][price' # price =>
          \A table \in PriceTables, start \in today .. today + NoticeDays - 1 :
              Charged(table, start)' = Charged(table, start)]_pricesVars
=============================================================================
