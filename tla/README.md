# Verification of comprobify

comprobify is an e-invoicing API for Ecuador: tenants create signed XML documents over
HTTP, the service submits them to the tax authority (SRI), asks for the verdict, and tells
the buyer and the tenant. It is Node/Express in front of PostgreSQL, with RabbitMQ between
the API and one worker process. Almost nothing is protected by long transactions: requests,
handlers and jobs read a row, decide, and write later. This directory models that part of
the program in TLA+, checks it with TLC on small instances and proves the main invariants
with TLAPS for all of them.

Paths below are relative to the repository. `PROJECT.json` maps every definition to the
lines it stands for.

## 1. The system

| Component | State it keeps | Operations | Interacts with | Hard because | Correct when | Status |
|---|---|---|---|---|---|---|
| Effects outbox (`pending-effect.*`) | `pending_effects` rows: status, attempt_count, dispatch mark, dedup_key | create, dispatch, markDispatched, claim, markDone, recordFailedAttempt, resetForRetry | everything that must happen later | at-least-once delivery, late writes, crashes | an effect is settled in the end, is not run again once done, gives up only after the configured attempts | modelled |
| Broker and worker (`queue.service`, `workers/worker.js`) | queues, unacknowledged messages, 10 messages in flight per queue | publishConfirmed, handleMessage, ack, nack | outbox | lost confirmations, redelivery | no message is needed: the rows are the truth | modelled |
| Reconciliation sweep (`queue-reconciliation.service`) | none | one transaction: stale rows FOR UPDATE SKIP LOCKED, publish each, mark | outbox, broker | overlapping sweeps, failures half way | every open row is published again | modelled |
| Document creation (`document-creation.service`) | `documents` rows, idempotency keys | create | sequentials, quota, signing | concurrent requests, one transaction of many steps | one document per key, no lost or doubled number | modelled |
| Sequential numbers (`sequential.service`) | `sequential_numbers` | getNext, initialize, setNext | creation, promotion, operator | a row that does not exist yet cannot be locked | numbers unique and without gaps | modelled |
| Tenant quota (`tenant-quota.*`) | `tenant_quotas`, one current row | consumeOne, resetDuePeriods; setCap, syncPeriod, resync | creation, subscriptions | rollover under concurrent charges | the count is exact and within the cap, one row is current | partly |
| Document transmission (`document-transmission.service`) | `documents.status` | queueSend, sendToSri, queueAuthorizationCheck, checkAuthorization, retrySend | outbox, SRI, notifications | each handler is several transactions with calls to the SRI between | the status is the SRI's, no document is stuck | modelled |
| Rebuild and void | status, signed XML | rebuild, voidDocument | transmission | race with handlers | status trigger | modelled |
| SRI client (`sri.service`) | none | sendReceipt, checkAuthorization, fetchWithRetry | the SRI | lost replies | answers are read as the SRI means them | partly |
| Document e-mail, Mailgun events | `documents.email_status`, `email_message_id` | the effect's handler, retrySingleEmail, retryFailedEmails, webhook events | outbox, Mailgun | senders write back a status they read; events late and repeated | the buyer gets it once, and the status is that of the message named | modelled |
| Subscriptions, payments | `subscriptions`, `payments`, the tenant's tier | request, schedule, prove, cancel, review, apply, refund, renew, expire, override | quota, tenants, notifications | no transactions: calls write what they decided on rows read before | tier, cap and standing are those of the subscription; one of each change at a time; expiry only of the unpaid | modelled |
| Card payments (Payphone) | `payphone_transactions` | session, confirm, apply, reconcile | payments | captured money and a crash | captured money is on record and applied | modelled for a RENEWAL |
| Prices | `tier_prices`, `seat_prices` | draft, edit, publish, announce | notifications | overlapping jobs; a notice in days | each tenant is told once; no price within the notice changes | modelled |
| Notifications | `notifications`, preferences, templates | create, aggregate, certificate alerts, dispatch | outbox, webhooks, mail | read-modify-write of the aggregate; row, PENDING and effect are three statements | no document is dropped, one true alert, the mail status is true | modelled |
| Webhook endpoints, deliveries | `webhook_endpoints`, `webhook_deliveries` | create, replace, switch; fanOut, processDueRetries | outbox | row before send, overlapping jobs, redelivered effects | no delivery is forgotten or made twice; the limit holds | modelled |
| Registration, tenants, promotion, API keys | `tenants`, `api_keys` | register, verify, resend, recover, promote, createKey, revokeKey, the administrator's | everything | steps without a transaction | a tenant keeps a working key; a recovery must be verified | modelled, the promotion by parts |
| Issuers | `issuers`, document types | createBranch, activateIssuer, removeIssuer, types, setSequential | creation | check then act | one issuer and one type remain, limits hold | modelled |
| Agreements | `agreements`, `tenant_agreements` | publish, activate, generate, accept | promotion | read, then write later | what is accepted was named, and is not asked for again | modelled |
| Attempt tracking | counters in Redis | recordEvent | authentication | two commands, many processes | one alert per window | modelled |
| Catalogs, reads, middleware, RLS, XML builders, access keys, signing, RIDE | | | | pure or read-only, or checked per request | | not modelled |

How they meet: an API request changes a document and *enqueues* an effect (a row);
`dispatch` publishes the row's id without being waited for; the worker *claims* the row
(`SELECT ... FOR UPDATE`), runs the handler on other connections, and commits DONE or,
after a rollback, records the failed attempt; a sweep publishes whatever is still open.
Creation never waits for any of this: it is one transaction over the quota row, the
counter and the document.

## 2. Modules

| Module | Models | State and actions |
|---|---|---|
| `Outbox.tla` | table, producers, broker, worker, sweeps | `Row` records, producers at `StartDispatch .. MarkDispatched`, messages, `Task` of each handleMessage call, sweeps. One action per statement that another actor can come between. |
| `EffectPromise.tla` | what the outbox promises a producer | an effect is requested, run any number of times, and settled done or given up; `Outbox!KeepsPromise` is the refinement. |
| `EffectRuns.tla` | the outbox as its producers and handlers see it | rows open or settled, runs of their handlers; broker, dispatches and sweeps hidden. `Outbox!ImplementsRuns` is the refinement that lets other modules use it. |
| `DocumentTransmission.tla` | requests, SRI handlers, rebuild, void, the SRI, composed with `EffectRuns` | `doc` (status, version of the XML), `hand` (where a handler is and what it read and was told), `req`, `sri`, and what was emitted. |
| `DocumentCreation.tla` | POST /v1/documents, counters, quota, promotion, reset job | `at` (the place of a request in its transaction), `seq`, `period` (its uncommitted writes), `counter`, `quota`, `job`, `promo`. |
| `CardPayment.tla` | the attempts of one card payment, their confirmation with Payphone, the application, the reconciliation job | `attempt` (rows of payphone_transactions), `charge` (Payphone's side), `payment`, `ends` (the period's end), `task` (where each confirm or job is and what it read). |
| `Billing.tla` | subscriptions, payments, the tenant's tier and cap, the daily job | `subscription`, `payment`, `tenant`; a call decides on what it reads and leaves its statements in `call[c].todo`, those the job has for the rows it comes to later in `call[c].later`; `Continues` executes one at a time and `Dies` cuts. |
| `Accounts.tla` | registration, verification, recovery, promotion, API keys | `account`, `key`; `request` (what each call read and where it is). |
| `Agreements.tla` | published versions, the tenant's copies, acceptance | `version`, `copies`, `accepted`; generations and acceptances by step. |
| `Issuers.tla`, `Endpoints.tla` | what a plan limits: branches, issue points, document types; webhook endpoints | rows, and calls between their check and their write; `issuing`, the creations that have found an issuer active. |
| `Prices.tla` | prices and their announcement to a tenant | `price`, `told`, `today`, `announcer`. |
| `Notices.tla`, `CertAlerts.tla` | aggregation of authorized documents; the certificate alert | `notices` and the checks that read them; `alert` and overlapping jobs. |
| `NotificationMail.tla`, `VerificationMail.tla`, `DocumentEmail.tla` | the mail of a notification, of a verification link, of an authorized document | the status the database shows, the effect and its handling, the messages sent and their fate, the events between look-up and write. |
| `Webhooks.tla` | fan-out of a notification and the retry job | `delivery` (rows), `fanout` and `retry` (where each handler or job is). |
| `AttemptTracker.tla` | failed attempts counted in Redis | `counter`, `recording`. |
| `MCOutbox`, `MCDocumentTransmission`, `MCDocumentCreation`, `MCCardPayment`, `MCBilling`, `MCWebhooks` | instances | model values, symmetry, key maps; in `MCOutbox` the three instances of its run. |
| `MCProgress`, `MCDocuments`, `MCOnboarding`, `MCTenants` | instances of several modules at once | variable `part` says which module moves; see section 3. |
| `OutboxProofs`, `TransmissionProofs`, `DocumentCreationProofs`, `CardPaymentProofs`, `BillingProofs`, `AccountsProofs`, `TenantsProofs`, `DocumentsProofs` | theorems and proofs | section 6. |

### Abstractions

- **Outbox.** A payload is the row's id. `Claim` is the delivery and the wait for the row's
  lock together; the wait without a result is not a step. A timeout or a crash of a request
  in `dispatch` is `DispatchFails` or `MarkFails`. `WorkerCrash` kills every handleMessage
  call at once (one process). A claim's database connection is taken to live as long as its
  handler. Staleness is a flag that `Age` sets at any time: the real windows are minutes,
  so any order of sweeps and deliveries is allowed, which is more than the clock permits.
- **EffectRuns** forgets attempt_count: a failed run may give up or not. `Reopen` is the
  manual retry and the late markDispatched in one. Whatever holds of a module composed with
  it holds with the whole outbox, by theorem `OutboxImplementsRuns`.
- **DocumentTransmission.** A document is its status and the version of its signed XML. The
  SRI (external) keeps one version for each access key until it rejects it, answers 70 while
  it works on it and 43 once it is authorized. Audit rows (`document_events`,
  `sri_responses`) are not state of the model: a failure of their INSERT is `HandlerFails`.
  A 200 answer without `estado`, or with one of no known meaning, is the answer "other",
  of reception and of authorization: it counts as a no. `misread` remembers that it did
  where the SRI had not said no, `unheard` that the SRI took a submission in whose answer
  was lost or not recorded. Documents do not interact, so TLC has one.
- **DocumentCreation.** One tenant and one schema: quota rows of tenants are independent,
  and the schemas have tables of their own. The index on idempotency keys spans issuers
  while row-level security hides the documents of others from the look-up: `IssuerOf`
  keeps that. Early returns that change nothing (issuing paused, type not enabled) are not
  steps. Uncommitted writes stay in `seq` and `period` until `Commits`; locks are derived
  from where requests and jobs are. Building, validation, signing, the payments check and
  a crash are `RollsBack`. READ COMMITTED matters: a statement that waited for a lock looks
  at the row again, `Charges` and `ClosesPeriod`. Number overflow is not modelled.

- **CardPayment.** One payment of purpose RENEWAL and its attempts: payments do not share
  attempts, and two renewals of one subscription are not open at once. The payment method,
  the subscription's status and the quota's new period are written by the same statements
  and are not state; the period's end is counted in billing periods. Payphone (external)
  holds a charge, captures it when confirmed, reverses it unconfirmed, and answers a second
  confirm like the first; the widget of a session lives ten minutes, as its documentation
  says. Its answer is *approved*, *mismatch* (the amount differs), *declined*, *unreadable*
  (an error page: `confirm` reports no transport failure, and the caller writes CANCELLED)
  or *unreachable*. `Age` lets ten minutes pass at any time after the session was opened.
  `Writes` contains the COMMIT whose reply is lost. A confirm's caller owns the payment.
  Operator review, refunds and transfers, which write the same payment, are in `Billing`,
  where a confirmation is one more review; the two are not composed.
- **Billing.** One tenant. Amounts, files, events and notices are left out, and a price
  only as cheaper or dearer, which is the order of the tiers. A call lasts less than a day:
  `NextDay` waits for it. A day is the unit; a month is two days and a year four, so that a
  renewal, its reminder, its grace and the expiry all fall within `LastDay`. `strayed`
  remembers what the code does not survive: a call that died half-way (*interrupted*), two
  that decided at once (*crossed*), two requests at once (*asked*), a payment of a
  subscription that is over (*ended*), a payment decided on before (*again*), one that another
  call decided on and has not written yet (*met*: the operator's review and the tenant's proof
  or cancellation write the status without looking at it again), an operator's override
  (*override*). Each property names the ones after which the rows may disagree,
  and holds through all the others.
- **Accounts.** One tenant; tokens are numbers, a later one greater. Scopes and key limits
  refuse a request and are left out. **Agreements**: the text of a document is its version;
  PRIVACY is handled as the DPA is. **Issuers**, **Endpoints**: reads that follow each other
  are one step, the write is another. A document creation is its look-up of the issuer
  (`AsksToIssue`) and its COMMIT or its rollback, with everything that can happen between
  them; `DocumentCreation` has the transaction itself. **Prices**: a day is the unit; no two prices of a
  table take effect at once.
- **Notices, CertAlerts, NotificationMail, VerificationMail, DocumentEmail, Webhooks**: what
  the outbox promises of an effect is taken from `Outbox`: it is handled at least once,
  again after a failure, by one handler at a time. Where several effects of one object are
  open at once, they are handled at once. `NotificationMail` has one handling of an effect
  at a time: overlapping handlings and the administrator's retry of one that was given up
  are in `Outbox`. A statement of its handler may fail inside the `try`, which writes FAILED,
  or outside it or in the `catch`, which counts the attempt and writes nothing (`unsaid`).
  `provided` and `mailEnabled` are EMAIL_PROVIDER. Mailgun, SMTP and the tenants' servers are
  external and answer anything. Cooldowns and windows end at any time.
- **AttemptTracker**: a Redis command is a step. The window is the life of the counter.

## 3. Runs

Bounds are in the configuration named after each run; times are with two TLC workers.

| Run | Instance | Shows |
|---|---|---|
| `outbox` | 2 handler calls, at most 2 attempts, a batch limit of 1, and in each behaviour one of: one reused row, polled, with 2 messages, 1 sweep, 3 failures, 1 crash, 1 manual retry; two SRI_AUTHORIZE rows of one document with 2 overlapping sweeps, 1 failure, 1 crash; two such rows with 1 sweep, 2 failures and 1 manual retry, which opens one of them again | type, no rerun of a completed effect, attempt_count, one poll at a time, refinement of `EffectPromise` and of `EffectRuns` |
| `transmission_core` | 1 document, 2 requests, 2 handler runs, 1 disturbance | status is the SRI's, each pending status has its row, authorized documents are announced |
| `creation_quota` | production, 2 requests without a key on one counter or with one key on two (the second has no row yet), cap 1, 2 jobs, 1 promotion, 1 edit, one cycle passes | quota exact, one current period, no number lost, every creation ends |
| `onboarding` | 3 API keys, 3 calls of 7 (2 of them recoveries), 1 failure; sandbox, 3 requests, 2 counters, 1 idempotency key, 2 bodies, 1 edit | a tenant is not locked out, recovery is verified; with no quota row in the way numbers are unique and a key creates one document |
| `card_core` | 2 attempts, 2 confirms, 1 job, 2 failures or crashes | captured money is on record, nothing is granted without it, a page submitted twice changes no outcome |
| `progress` | an undispatched effect beside an endless poll, 1 failure, 1 crash; 1 document, 1 request, 1 handler run, 3 checks, a rejection and a rebuild, 1 disturbance; 1 attempt, 2 confirms, 1 job, 1 failure | every effect is settled, documents move on, a captured charge is applied |
| `documents` | 3 issuers in 2 branches, 2 calls at once, a document creation with each issuer; 3 endpoints, 2 calls at once of 4; 1 endpoint, 2 fan-outs, 2 retry jobs; 2 handlings and a retry or retry-all of one document's mail, 2 mails; 2 notifications, 2 attempts, 2 failures; 2 links, 2 attempts; 1 or 2 events in hand; 1 failure where not said | limits and last ones hold, deliveries are kept, the buyer gets one mail, statuses are true |
| `tenants` | 3 calls counting, threshold 2, 2 windows; 3 versions, 2 generations, 1 acceptance; 2 tiers, 2 intervals, 1 seat, 3 days, 4 calls and mishaps; 4 prices, 2 announcers; 4 documents; 2 certificate jobs; 1 failure each | one alert per window, agreements hold, access matches the subscription, one of each at a time, expiry only of the unpaid, notices tell what is so, prices are settled |

`progress`, `documents`, `onboarding` and `tenants` check modules that share no state: in every behaviour
`part` chooses one that moves, and the others keep their initial state, in which nothing of
theirs is enabled in the case of `progress`, so that their fairness asks for nothing. The
state space is then the union of the parts', not their product. `outbox` is the union of three
instances of one module in the same way: `about` chooses one, and `Within` keeps its limits. A property that names
several parts (`HeldWithinPlan`, `DeliveriesAreKept`, `MailStatusIsTrue`, `NoticesTellState`,
`OneAtATime`, `AgreementsHold`) is a conjunction of named properties of the modules, stated
and commented there.

Two handler calls, two requests, two jobs: each race in the code is between two actors over
one row, and a third repeats what the second can do. One disturbance (failure, crash, late
mark) is enough to cut any handler at any step (the card payments of `card_core` and
the notifications have two, since a catch block can itself fail; a mail has two attempts, so
that one fails and one is the last); the counters bound repetition, not placement. `MaxAttempts` is 2 or 1 instead of 5 so that
giving up is reached. In `progress` the batch limit is 2: with a limit of 1, an endless poll
can take each batch, since the sweep's query has no ORDER BY; that is recorded as a hazard.
Two bounds of `progress` are set so that liveness is not lost to the bound: there are rows
for every check a document can ask for with one handler run, and no concurrent dispatches, since a queue that is full
(`MaxQueued`) would make a sweep fail that in the program succeeds. In `tenants` each caller's overlap, death or straying counts against `MaxCalls`
like a call; four reach, for example, a subscription that is requested, verified, changed
and expired, with one of these crossing another. Years that are paid from the start are
over after the last day, so they come by requests instead.

### Divergences between documentation and code

Each of these is a run of its own that TLC must violate, and a finding in `PROJECT.json`.

| Run | What is written | What happens |
|---|---|---|
| `transmission_crash` | a crash no longer loses work | it does between PENDING_SEND and its row |
| `webhook_update` | a payload is fired for each update of an aggregated notification | the dedup guard passes over the endpoint that got the first |
| `billing_renewal` | a verified payment is the grant of access | a renewal verified after the expiry makes the subscription ACTIVE and leaves the tenant FREE |
| `card_twice` | a page submitted twice is safe, a second charge is not applied | two overlapping applications of one payment extend the period twice |

The models reach further disagreements that no run of their own shows.

- Outbox: `pending-effect.model.js:137` says that a duplicate delivery no-ops; a late
  markDispatched overwrites DONE, and the next delivery runs the handler again. It takes a
  row out of FAILED too, without a manual retry.
- Transmission: two overlapping POST /send both pass the status check and each create an
  SRI_SEND row (ADR-022 says the state machine prevents it); a crash between RECEIVED and
  the SRI_AUTHORIZE row, or between AUTHORIZED and the e-mail's row, loses the row, and the
  redelivered message is refused by the state machine and settled. RETURNED is said to mean
  that the SRI rejected the document (`docs/site/en/getting-started.md:201`): a submission whose reply
  was lost is made again, the SRI answers 43 for what it has authorized, and the document is
  RETURNED (`unheard`), and may be rebuilt and sent again (`sri-error-codes.js:5` says not to).
  NOT_AUTHORIZED is said to mean that the SRI processed the document (`getting-started.md:214`):
  an answer 200 without `estado` makes it so while the SRI processes it (`misread`).
- Issuers: removing one is said to be blocked when it has issued documents
  (`docs/site/en/endpoints/index.md:30`): it can be removed while its first document is
  being created, between the look-up and the INSERT (`mingled` remembers it).
- Creation: two overlapping promotions reseed a counter that is in use, and its numbers are
  handed out again (ADR-002); of two simultaneous requests with one key and different
  bodies the loser gets the winner's document instead of an error (ADR-006); a creation
  that waits for the quota row while the reset job replaces it is refused although the new
  period is empty; overlapping reset jobs open two rows for one billing cycle.
- Card payments: a failure between VERIFIED and the renewal is only stamped by the job, so
  `applied_at` does not mean that the tenant got the period; the job counts its ten minutes
  from the creation of the session and writes EXPIRED over an attempt that was confirmed
  after it read it, and EXPIRED for a mismatched amount; of two charges approved at the
  same time neither becomes DUPLICATE, and the job never looks for duplicates; an error
  page in answer to the confirm is stored as CANCELLED and not asked again.

- Billing: a tier change that funds a deferred one is applied and its payment not stamped
  (`payment.model.js:86-87` against `subscription.service.js:1555-1562`), so a further change
  is refused until an invoice is linked; a seat decrease slips by a period when the renewal
  is verified before the period ends (`docs/site/en/paying-your-subscription.md:75`); the
  refund of a RENEWAL after an upgrade rolls the tier back to the snapshot
  (`subscription.service.js:1425-1426`); a payment reviewed again overwrites that snapshot; a
  TIER_CHANGE of an EXPIRED subscription that is verified gives the paid tier back; a
  cancelled payment takes proof again and revives a cancelled subscription; a proof
  submitted while the review writes turns VERIFIED into REPORTED.
- Agreements: after a version is activated again, the copies of the newer one keep the
  document outdated for ever and the tenant out of production (`tenant-agreement.service.js:87-104`
  against `docs/adr/018*:63` and migration 062); a DPA published between view and
  acceptance is accepted unseen.
- Webhooks: a client that polls misses notifications when more than a page of them is new
  (`docs/site/en/endpoints/webhooks.md:291`; not modelled).
- Mail: the effect's handler does not look at `email_status`, so a document mailed by hand
  is mailed again; once a document is voided SENT and FAILED are refused by the trigger, and
  one such document ends a whole retryFailedEmails; a crash after a notification's row
  leaves NULL or PENDING and no effect, and a SENT that is not written mails again; an effect
  whose attempts all fail before or in the write of FAILED leaves PENDING for good; an event
  that found its row before another message was recorded overwrites that message's SENT; an older
  link's effect that is retried overwrites what is shown of the newer one.
- AttemptTracker: a process that ends between INCR and PEXPIRE leaves a counter that never
  expires, and no later window alerts. Endpoints: `update(active: true)` checks no limit.

The passing invariants name the exceptions these leave: `interrupted`, `adopted`,
`overlapped`, `misread`, `unheard`, `overwritten` and `reseeded`, of the card payments `unrecorded`, `misexpired`
and `half`, and in the newer modules `strayed`, `excused`, `overtaken`, `mingled`, `exceeded`,
`shared`, `together`, `untold`, `resent`, `crossed`, `linkCrossed`, `unsaid`, `silenced`, `doubled` and `twin`, are history
variables that record that the hole was used, so that everything else is still checked.

## 4. Fairness

Every assumption is weak fairness of an actor's next step, but for those named.

- Outbox: a statement of a running actor is eventually executed, RabbitMQ delivers what it
  holds, the operator's scheduler runs the sweep again and again, a handler returns (its
  calls have timeouts or fail with the connection). Strong fairness is needed, and kept to
  the rows that are not polled, for a message that meets its row locked (`Claim`,
  `SkipSettled`), for the sweep that publishes it, and for the outcome that waits for the
  row: another actor may hold the lock each time, and PostgreSQL queues those who wait.
  Failures and crashes are bounded by a constant; no fairness is put on failing.
- DocumentTransmission: open rows are claimed, handlers go on, the SRI decides what it took
  in. That a row is claimed is what `EveryEffectSettles` shows of the outbox. Clients need
  not call anything.
- DocumentCreation: strong fairness for a request, because another may take the row it
  waits for first; PostgreSQL queues the waiters of a row, and a dead connection is rolled
  back.
- CardPayment: requests and jobs that run go on, sessions grow old, cron starts the job
  again and again, a confirm does not wait for Payphone longer than its timeout. Nobody
  needs to pay or to come back from the widget.

The other modules state safety only: what they owe in the end is what the outbox owes their
effects.

## 5. Hazards

`PROJECT.json` lists each at its line with the properties that cover it. Two have none: the
publish timeout that starts only with a channel, and the worker's connection pool. What
either does to the rows, a publish that fails or a handler that fails, the outbox allows at
any time.

## 6. Proofs

Each theorem is about the specification of its module without fairness (`Spec`, or the one
named after the module), or about a composition (`DocumentsSpec`, `TenantsSpec`), for every
value of the constants. What is assumed of them are the ASSUMEs of the modules: bounds are
naturals, the limits of attempts and of a list at least one, sets that are counted are
finite, paid tiers are positive, kinds of calls are disjoint, and each effect is of one
document.

- `OutboxProofs`: `Typing`, `RowLocksAreExclusive`, `OnePollPerDocument`,
  `AttemptsAreFailures`, `CompletedRunsOnce`, `OutboxKeepsPromise`. `RowLockExclusive`
  alone is inductive with the type invariant; `OneHandlerPerKey` needs that the row of a
  claim is open while it is held, so that the partial index speaks about it;
  `FailuresCounted` and `CompletedNotRerun` need what a finished handler remembers of the
  row (its status and count at the claim) related to the row now, which only a late write
  or another actor that had the lock may have changed. `OutboxImplementsRuns` is the step
  simulation over the same invariant: each action of `Outbox` is mapped to an action of
  `EffectRuns` or to a stutter.
- `TransmissionProofs`: `TransmissionTyping`, `TheStatusIsTheSris`, `PendingAlwaysHasSend`,
  `ReceivedAlwaysHasCheck`, `AuthorizedAlwaysAnnounced`, `TransmissionUsesTheOutbox`, all from
  `TransmissionInvariant`. None of the four invariants is inductive, and none can be proved
  without the others. `RowsInv`: an open row has one handler, a document one open check.
  `SriInv`: what a handler knows of the document and the SRI between two statements, because
  nobody else moves a document that is being sent, or asked about, by a handler that no second
  send overlaps. A no in a handler's hands is the SRI's unless it was misread, and a send
  that reads a document whose submissions were all heard finds that the SRI does not hold
  it, which is why it is RETURNED only when it was rejected. `QueuesInv`: every waiting document has a row that is not settled and that no
  handler is about to settle without going on, or a caller or handler about to create one.
  `TransmissionUsesTheOutbox` is the simulation by `EffectRuns`; with `OutboxImplementsRuns` it
  composes with the proofs about the outbox, so that the handlers assumed here are those the
  broker, the worker and the sweep provide.
- `DocumentCreationProofs`: `Typing`, `SequentialsAreUnique`, `SequentialsHaveNoGaps`,
  `OneDocumentPerKey`, `QuotaCountsDocuments`, `OnePeriodIsCurrent`. The argument: two
  requests never hold one counter's lock (`CounterLocked` of a place in the transaction);
  the holder's `seq` is the counter plus one, so committing it extends `1 .. counter` by
  exactly that number; and likewise a quota row that is being charged is not charged or
  closed by another, so its count plus one is within the cap when the charge commits, and
  the count is the cardinality of the committed charges.
- `CardPaymentProofs`: `Typing`, `CreditNeedsCapture`, `OutcomesAreKept`, `CapturedIsTracked`.
  `CreditIsBacked` is not inductive: the invariant adds that an APPROVED attempt, an
  "approved" answer in a caller's hands, an application and what a job is about to apply all
  stand for a captured charge of the right amount, and that a captured charge stays captured.
  `OutcomeKept` needs that two confirms are never inside the transaction of one attempt, and
  that one that has read PENDING under the lock still finds it so when it writes.
  `MoneyIsTracked` needs the converse, what everyone who has an answer, or is about to ask,
  knows of the charge and keeps knowing: charges only go forward, an attempt gets the id of
  a charge that was made, and a job's look-up finds no less than the confirm's did.
- `BillingProofs`: `BillingTypes`, `ExpiryIsOfUnpaid`, `OneOfEach`,
  `AccessFollowsSubscription`. The calls hold statements
  that they decided on and have not written, so every invariant is one of the statements in
  hand. Types: each refers to rows and payments that are there, and stay there.
  `StandingInv`: while nothing crossed, one call decides; what its statements say of a row's
  status was true of what it read, stands until it writes it, and each call changes the
  status of one row at a time; the job's scheduled changes land before its reminders and its
  expiry, so that the expiry finds no change scheduled for a row whose period is over.
  `FlightInv`: while no two requests overlapped, one call has a payment to insert, and when
  it comes to insert it none of its kind is in flight; while no payment was decided on twice,
  a payment's status is in the hands of one call, and a call that keeps a payment in flight
  found it there.
  `AccessInv`: `AccessMatchesSubscription` speaks of the moments when nobody has access left to
  write, and says nothing of those between, so the invariant says what the rows, the tier, the
  cap and the standing will be once every statement in hand is written: no row ACTIVE and FREE
  access, or one row ACTIVE and its access (`Access`). A statement that is written is one less
  in hand and the rows that much nearer, so that what will be is the same (`AccessWritten`);
  what has to be shown is that a call, when it decides, decides on a whole: all of a grant to
  one row, or all of its end (`Granted1`, `Ended1`). That takes what a review and a refund rely
  on: a row that was never paid for has its first payment only, and that is one
  (`Unpaid`, `OneInitial`), so that no second review activates it; a snapshot's tier is that
  of the row it is of, and FREE for a first payment, so that a refund restores a whole
  (`GivesBack`); and a change at once is to a year, so that its target names an interval
  (`Yearly`).
- `AccountsProofs`: `AccountsTyping`, `RecoveriesAreVerified`, `NobodyIsLockedOut`.
  `RecoveryIsVerified` speaks of the status only; the invariant adds what makes a click
  harmless: the recovery that is owed is not later than the last token made, nor than the
  token the tenant waits for, nor than the token a click has found, unless the click found
  it before the recovery (`overtaken`). `ClicksAssumption` says that a click is no other
  kind of call. `NotLockedOut` needs, of each environment, a key or a recovery about to
  create one; that a promotion which switches the environment has keys to copy or has copied
  one; and that a revocation holds two different keys, the one it takes and one that stays.
- `DocumentsProofs`: `DocumentMailedOnce`, `StatusIsTrueOfMessage`, `DeliveriesKept`,
  `DocumentTypes`, `PlansAreKept`, `MailsAreAsTheyAreSaid`. Mail: while nobody overlapped, one
  sender is at work, and what it read is what the row says. Deliveries: the row a handler
  writes is PENDING, the rows in jobs' hands are distinct and their counts are the requests
  made. Links and notifications: what is shown is of a message sent, or an effect is there
  that will write it again; while nothing crossed, an event in hand is of the message shown;
  and the attempts that said nothing are no more than the attempts, so that PENDING is left
  with an effect that was given up only when they are all of them. Issuers and endpoints: a
  call that overlapped no other has its place below the limit, or that of the row it
  replaces, and a removal leaves another; an issuer a creation has found active is active
  as long as no removal met a creation, because one that is about to be removed has none. The
  modules share no state, and the composed theorems follow module by module through `part`.
- `TenantsProofs`, of `AttemptTracker`: `OneAlertPerWindow`, because the counts in callers'
  hands are distinct within a window and below what the next one gets. Of `Agreements`:
  `AgreementsAreKept`: a type has one current version, an acceptance under way holds the terms
  it was shown, and what a generation is about to copy is current, and its copy the last of its
  type. Of `Prices`, `Notices` and `CertAlerts`: `NoticesTellTheState`, `PriceIsSettledAhead`.
  An announcer that has a price in hand has it alone, so it tells it once. A check between its
  look-up and its write knows the row it will write, unless a counted document is flagged; the
  newest row is one because indexes are well-founded. One unread alert exists at most, and the
  job that is about to write knows it. A published price never changes and a new one takes
  effect after the notice, so the price of a day within it is settled. Of the composition, which
  `PartsMove` maps to each of its modules: `TenantTypes`, and `TenantsKeepPromises`, that what
  each module keeps by itself, subscriptions included, it keeps beside the others.

Every invariant and action property that a passing run checks is the statement of a theorem.
Only checked by TLC: liveness (`EveryEffectSettles`, `DocumentsMoveOn`, `CreationsEnd`,
`CapturedIsCredited`), which the prover cannot state without ENABLED. No module uses RECURSIVE
operators and no theorem is by induction over data.

## 7. Not modelled, and what comes next

- `promote()` over keys, counters, agreements and subscription at once; each of its parts is
  in the module of what it works on.
- A card payment beside an operator's review of the same payment: `CardPayment` and
  `Billing` are separate. An abstract specification of a payment that is applied at most
  once would be refined by both.
- The worker's connection pool, where every claim needs a second connection.
- The dates of the quota's period when a renewal moves it, beside creations.
- Catalogs, presenters, validators, XML builders, access keys, signing, certificates and
  RIDE: pure functions, tested by the repository. Row-level security, authentication and
  the other middleware are checked per request and appear where they decide what a query
  sees. Configuration and scripts have no behaviour of their own.
