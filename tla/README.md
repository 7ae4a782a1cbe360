# RideIQ: a verification project

RideIQ is a ride-hailing platform: a PostgreSQL schema with most of the business
logic in SQL functions (`src/supabase/schema.sql` and the later migrations), Deno
edge functions that call them (`src/supabase/functions`), a web application for
riders, drivers and merchants (`src/apps/web`) and an admin dashboard
(`src/admin_dashboard`).  This directory holds TLA+ models of its core, the TLC
configurations that check them, and proofs for TLAPS.

## 1. Inventory

| Component | State it keeps | Operations | What is hard | What makes it correct |
|---|---|---|---|---|
| Ride dispatch | `drivers.status`, `ride_requests`, `rides` | create, cancel, match, accept, transition, verify PIN, toggle availability | riders, drivers, administrators and a job change the same rows in separate transactions; clients act on cached rows | a driver is tied to one request at a time; a request follows its life cycle; a reservation always has a reason |
| Matching loop | the attempts of one call | find, conflict, give up, fall back | each attempt has its own snapshot | the preference is kept; the search falls back before it gives up (it does not: section 6) |
| expire-rides job | lists read earlier | cancel stuck rides, sweep lapsed matches, release reservations, mark stale drivers offline | reads first, acts later, skips what fails | never touches a ride that has started; everything stuck ends |
| Ride money | `wallet_accounts`, `wallet_holds`, `settlement_accounts` | hold, capture, release, fee, receipt, payout | funds are checked at matching and spent at acceptance; the limit is checked at acceptance and the fee posted at completion | holds follow rides, money is conserved, exposure is bounded |
| Top-ups and webhooks | `topup_intents`, `provider_events`, `webhook_jobs`, the wallet | create, check, reconcile, webhook, claim, process, retry | deliveries lost, duplicated, reordered; workers overtaken by their lease; three processes poll the same provider | an intent is credited once, and only if it was paid |
| Withdrawals and payout jobs | `wallet_withdraw_requests`, `wallet_holds`, `wallet_accounts`, `payout_provider_jobs` | request, cancel, approve, reject, mark paid; create, cancel, retry, send, confirm a job; the provider's report | user, administrators, senders with a lock that lapses and late reports meet on the same rows | funds are set aside once and spent or returned once; the jobs show what was really sent |
| Settlement payouts | `settlement_accounts`, `settlement_entries`, payment and payout requests | request, approve, reject, post directly | a balance is read without a lock and posted to later | ledger, requests and balance agree; a payout overdraws by no more than what was taken after its own check |
| Orders and deliveries | `merchant_orders`, `merchant_order_deliveries`, status events | place, accept, cancel, ask for a delivery, claim, pick up, deliver | customer, merchant, drivers and administrators; a claim reads the driver's debt without a lock | the first claim stands, no cash for who was in debt when the claim read |
| Notifications | `device_tokens`, `notification_outbox`, `notification_campaigns`, recipients | register, disable, enqueue, claim, push, mark, record; schedule, cancel, run a campaign; set preferences | every call is a series of separate statements, any of which may be the last; dispatchers count together | no push twice, nothing recorded that was not sent, nobody disturbed who asked not to be |
| Scheduled rides and intents | `scheduled_rides`, `ride_intents` | create, cancel, convert | conversion by a runner and by an administrator | converted once |
| SMS authentication | OTP requests, provider health | request, deliver, fall back | provider outage, replay | one code stands at a time |
| Trip safety | trusted-contact outbox, trip shares | enqueue, claim, send, retry | same claim protocol, with a lease | nothing lost, bounded retries |
| Admin access | roles, requests | request, approve, revoke | two administrators | nobody approves their own request |
| Gift codes, referrals | codes, redemptions | redeem, claim | concurrent redemption | redeemed once |
| Fares, maps, KYC, fraud, chat, support, statistics, assistants, user interfaces | various | various | mostly single-row or stateless | see `PROJECT.json`, `components` |

How they meet: clients and edge functions call SQL functions through PostgREST,
one transaction per call.  Rows are shared by all of them, and triggers on
`ride_requests`, `rides`, `drivers`, `merchant_orders` and `user_notifications`
change other rows in the same transaction.  Jobs (`expire-rides`,
`webhook-job-runner`, `topup-reconcile`, `notifications-dispatch`,
`notifications-campaign-runner`, ...) are edge functions that an outside scheduler
calls; they read in one transaction and write in others.

`PROJECT.json` lists every component with its sources and status, and under
`hazards` the places where an order of events nobody tested can bite and what
watches over each; section 6 names further ones that no property is about.

## 2. Plan

Order of the modules, the most important behaviour first.

1. **Dispatch** with its money, the abstract **RideLifecycle**, the refinement
   between them, and the proofs (done).
2. **MatchLoop**, the inside of the matching step (done).
3. **WebhookQueue**, the inbox and the job queue, and **Topup** on top of it, with
   their proofs (done).
4. **Withdraw**: requests, holds, payout provider jobs; the abstract
   **ReservedFunds** and the refinement; proofs (done).
5. **Settlement**, and **Orders** on top of it: merchant orders, couriers, cash on
   delivery; proofs (done).
6. **PushOutbox**, and **Campaigns** on top of it: devices, outbox, dispatchers,
   campaign runs; proofs (done).
7. Left, as smaller modules of their own: **ScheduledRides** (conversion by runner
   and administrator), **Rewards** (gift codes and referrals), **SmsOtp**,
   **AdminRequests**, and in Dispatch the lock of the pickup PIN after wrong attempts.

## 3. Modules

| Module | Models |
|---|---|
| `Dispatch` | drivers, requests, rides, holds, wallets, exposure, the job; properties |
| `RideLifecycle` | what dispatch promises: ask, offer, withdraw, ride, end; a driver has one offer or ride |
| `DispatchRefinement` | the mapping from `Dispatch` to `RideLifecycle` |
| `MCDispatch` and its cfgs | the small instances |
| `MatchLoop`, `MCMatchLoop` | the loop inside `dispatch_match_ride` |
| `WebhookQueue` | the inbox `provider_events`, the queue `webhook_jobs`, endpoints and workers |
| `Topup`, `MCTopup` | top-up intents, the provider, pollers, the wallet's credits; extends `WebhookQueue` |
| `Withdraw`, `MCWithdraw` | withdrawal requests, payout jobs, senders, the provider |
| `ReservedFunds` | what a wallet promises for money set aside: reserved, then spent once or given back once |
| `Settlement` | settlement accounts, their ledger, payment and payout requests |
| `Orders`, `MCOrders` | merchant orders, deliveries, claims; extends `Settlement` |
| `PushOutbox` | device registrations, the push outbox, dispatchers |
| `Campaigns`, `MCCampaigns` | campaigns, their runs and recipients; extends `PushOutbox` |
| `SumLemmas` | facts about sums over finite sets, for every proof about money |
| `DispatchProofs` | types; one commitment per driver; what driver statuses say; `Dispatch` implements `RideLifecycle` |
| `DispatchMoney` | holds, exposure, what accounts hold, conservation of money |
| `MatchLoopProofs` | the matching loop |
| `TopupProofs` | the queue; `Topup` implements it; credits and jobs |
| `WithdrawProofs` | withdrawals, their jobs, the account; `Withdraw` implements `ReservedFunds` |
| `OrdersProofs` | settlement accounts and their ledger, orders, deliveries |
| `NotificationProofs` | the outbox; `Campaigns` implements it; recipients and the counter |

### 3.1 Dispatch

One action is one transaction: a SQL function with every trigger it fires and
every function it calls.  A transaction that raises leaves no step, so what the
code raises on is a guard.  All functions here take the rows they change with
`FOR UPDATE` or `FOR UPDATE SKIP LOCKED` and look at them after the lock, so an
atomic action is what they amount to; `SKIP LOCKED` and `LIMIT` are why sweeps
take *any subset* of the rows that qualify and why matching may find nobody.  Two
exceptions are split into a reading and a writing step:

* `expire-rides` reads the stuck rides and cancels them later, one call each
  (`ReadStuckRides`, `CancelStuckRide`, `SkipStuckRide`; `stuck` is its list with
  the versions it read);
* `admin_mark_stale_drivers_offline` is an `UPDATE ... WHERE id IN (SELECT ...)`
  whose subquery takes no locks; when the update has to wait for a row, only the
  id is looked at again, not the status (`SelectStaleDrivers`, `MarkStaleOffline`;
  `stale` is the set selected).

| Action | Code |
|---|---|
| `CreateRequest` | `ride_request_create_user_v1` |
| `CancelRequest` | `cancel_ride_request`, triggers that clear the match and hand the driver back |
| `ExpireMatched` | `expire_matched_ride_requests_v1` |
| `MatchReturnsEarly`, `MatchRide` | `dispatch_match_ride`: sweep, undo the request's own lapsed match, check funds, pick and reserve a driver |
| `DeadlinePasses` | the clock |
| `AcceptRide` | `dispatch_accept_ride` |
| `UserTransition` | `transition_ride_user_v1`, `transition_ride_v3`, `admin-ride-cancel` |
| `VerifyPin` | `ride_verify_pickup_pin` |
| `ToggleAvailability`, `RefreshApp` | the availability button of `DriverPage` and the row it has cached |
| `AdminTransitionDriver` | `admin-driver-transition` |
| `RecordReceipt`, `RecordPayout` | `admin_settlement_record_receipt_v2`, `admin_settlement_record_payout_v2` and the approved payouts of the same account: any amount of a small set |
| `ReadStuckRides`, `CancelStuckRide`, `SkipStuckRide`, `SelectStaleDrivers`, `MarkStaleOffline`, `ReleaseStuckReserved` | the `expire-rides` job |

A match window is `"open"` or `"passed"`; ages are free choices.  A ride is keyed
by its request (`rides.request_id` is unique).  Geography, freshness, KYC and
vehicle only reduce the candidates, which is within the choice `MatchRide` has.
A cash completion is taken with enough cash handed over.  An intermediate state
inside a transaction is not visible; what a unique index refuses and the code
catches (`unique_violation` in the loop) is part of `Candidates`.

`paidOut` is history: what was paid out to a driver since the driver last accepted a cash
ride.  Payouts debit the account the limit is read of, and nothing relates the two, so
that "no driver owes more than the limit and one fee" is not true of the code;
`CashExposureBounded` says it of the fees and leaves out what `paidOut` explains.

### 3.2 MatchLoop

`dispatch_match_ride` looks for a driver in at most three attempts.  Each attempt
is a query with its own snapshot (read committed), so drivers may be taken in
between (`TakenByOthers`).  The module keeps `v_women_pref_attempts`,
`v_women_pref_fallback`, `tried`, the index of the loop and its outcome.  `GiveUp` has
the loop exit as it is written: `EXIT WHEN candidate IS NULL` follows the counting, so
only the *last* preferred attempt goes on to the fallback, and the first empty one has
ended the search before (section 6, `fallback`).

### 3.3 WebhookQueue

An endpoint makes two statements, each its own transaction: `storeProviderEvent`
(`Receive`) and `enqueueWebhookJob` with the answer (`Enqueue`); between them it may
die (`HandlerDies`).  An event id has one inbox row and one job: `inbox` and `job`
are functions on event ids, and a second delivery changes neither.  Two kinds of delivery
are answered with 2xx and have no job: those that name no intent (`Nameless`,
`AnswerNameless`; `qicard-notify/index.ts:178`), and those an endpoint does not look at
because its provider is disabled or it has no use for them (`Ignorable`, `Ignore`; they
are in `ignored` and nowhere else).  `acked` is therefore not "processed", and not even
"stored" (section 6, `dropped`); `AckedHasJob` is what the answer does mean.

A worker claims a job (`webhook_claim_jobs`, `Claim`), processes it (`Work`), and
reports (`MarkDone`, `MarkFailed`); `MarkDoneThrows` is the catch block of
`processWebhookJob` around a failed `markJobDone`.  A worker remembers the
`attempt_count` it read (`seen`) and its `lock_token`.  Tokens are fresh, so of a
token only whether it is still the row's matters: a claim invalidates the others.
`locked_at` is a lease, `"free"`, `"held"` or `"lapsed"`; `LeaseLapses` is the clock.
`next_attempt_at` delays a claim by a time nobody depends on and is left out: a
claimable job need not be claimed at once.  A batch of jobs claimed by one call is
as many workers.

### 3.4 Topup

| Action | Code |
|---|---|
| `CreateTopup`, `ReplayTopup` | `topup-create`: the insert, or the row found by `idempotency_key` |
| `InitPayment`, `RecordInit`, `CreateDies` | the call of the provider, the update after it, the end of the function in between |
| `PayerPays`, `PaymentRefused` | the provider (external): an opened payment is offered to the payer once its page has been returned, and ends paid or refused |
| `ReportArrives` | a webhook that reports what has happened, any number of times |
| `Process` | a worker's `processTopupWebhook` |
| `AskProvider`, `SettlePoll`, `PollDies` | `topup-check`, `zaincash-return`, `topup-reconcile`: ask, then act on the answer |

`Apply` is what all of them do with an answer: `wallet_finalize_topup`,
`wallet_fail_topup`, or the unconditional update to `pending`, whose error nobody
looks at.  A provider is asked by the `provider_tx_id` of the row (ZainCash, QiCard;
the intents in `NeedsTx`); AsiaPay has no inquiry and the stored reports are read.
A failed inquiry counts as "open" in the code, so "open" is always a possible
answer.  `credited` counts additions to `balance_iqd`; the ledger row has an
idempotency key of its own and is written once.  Amounts do not matter to any
property and are left out.  `ReportArrives` is `Receive` or `Ignore`.

### 3.5 Withdraw and ReservedFunds

| Action | Code |
|---|---|
| `ReadCaps`, `PlaceWithdrawal` | `wallet_request_withdraw`: the daily caps are read before the account is locked, so other requests come in between |
| `CancelWithdrawal` | `wallet_cancel_withdraw` |
| `ApproveWithdrawal`, `RejectWithdrawal`, `MarkPaid` | `admin_withdraw_approve`, `_reject`, `_mark_paid` |
| `SystemMarkPaid` | `system_withdraw_mark_paid` inside a report or a confirmation: it raises for every caller (section 6) |
| `CreateReads`, `InsertJob` | `payout-job-create`: two statements, the partial unique index decides |
| `CancelJob`, `RetryJob`, `ForceReads`, `ForceConfirm`, `CallDies` | `payout-job-action` |
| `LockJob`, `ReadRequest`, `SendPayout`, `RecordSent`, `RecordFailed`, `SenderDies`, `LockLapses` | `payout-job-send`; a lock is good for five minutes, and every later write asks for its token |
| `TransferEnds` | the provider (external) |
| `ReportApplied` | `processWithdrawWebhook` |

The provider takes one transfer per idempotency key, that is, per job, and keeps its
answer when it is asked again.  An answer that is lost is a failure in the code
although the transfer was taken.  A report is applied at any time and any number of
times after the transfer has ended; the queue that brings it is the one of
`WebhookQueue`, whose own properties are checked there.  `payout-job-runner` never
gets a job, since `payout_claim_jobs` raises, and has no action.

`ReservedFunds` is the promise of the wallet: an amount is reserved out of what is
free, then spent once or given back once.  `ImplementsReservation` maps a request's
stage and the account's free money to it.

### 3.6 Settlement and Orders

| Action | Code |
|---|---|
| `RequestPayment`, `RequestPayout` | `driver_settlement_request_*_v1`, `merchant_settlement_request_*_v1` |
| `ApprovePayment`, `Reject` | `admin_settlement_approve_payment_request_v1`, `admin_settlement_reject_*_request_v1` |
| `CheckPayout`, `PostPayout`, `ApprovalDies` | `admin_settlement_approve_payout_request_v1`: the balance it compares is of a row it has not locked |
| `PostDirectly` | `settlement_post_entry` for ride fees, receipts and payouts recorded by hand |
| `CreateOrder`, `SetStatus` | `merchant_order_create`; `merchant_order_set_status`, `merchant_orders_update_status_v1`, `admin_order_set_status_v1` |
| `CustomerReads`, `CustomerCancels` | `merchant_order_set_status` by the customer: read, then written; the guard trigger looks again |
| `RequestDelivery` | `merchant_order_request_delivery` |
| `ClaimReads`, `ClaimWrites` | `driver_claim_order_delivery`: the checks, and the update that asks for the row as it was |
| `PickUp`, `Deliver`, `CancelDelivery` | an update of the delivery through `merchant_order_delivery_guard` |

`Deliver` takes the settlement trigger with it (`CodSettlement`): for a cash order it
names a column the table does not have and the update is rolled back.  What the
trigger would post is therefore left out.  A payout of a party without an account
passes the comparison, which is with NULL (`Covers`), and the account is made by the
posting.  The fee of a cash ride appears in `Dispatch` with its own account and here
as one of the `Postings`.

Two balances are read without a lock and used later: by an approval before it posts
(`CheckPayout`, `PostPayout`) and by a driver's claim (`ClaimReads`, `ClaimWrites`).  `seen`
and `read` are history and note which entries of the ledger lay behind the balance that
was read.  What is true of such a step is that it was covered *then*: `DebitsSince` is
what has been taken since, and nothing that was there to be seen is excused.
`CashEnabled` is `drivers.cash_enabled`.

### 3.7 PushOutbox and Campaigns

| Action | Code |
|---|---|
| `StartRegister`, `FinishRegister`, `DisableDevice` | `device-token-upsert` (two statements), `device-token-disable` |
| `Claim` | `notification_outbox_claim` and the query of the tokens after it |
| `Push`, `DisableToken`, `Mark`, `Dies` | `notifications-dispatch`, item by item |
| `AdminReads`, `AdminWrites` | `admin-notification-campaign-send`, `-schedule`, `-cancel`: the write does not look at the status again |
| `ClaimDue` | `notification_campaign_claim_due` |
| `SetPreference` | `user_notification_preferences_upsert_self` |
| `FindNobody`, `ReadAudience`, `PlanRecipients`, `InsertNotices`, `LinkRecipients`, `Complete`, `RunFails`, `RunnerDies` | `executeCampaign` in the runner, statement by statement; `InsertNotices` includes the trigger that fills the outbox |
| `RecordRecipient`, `ReadCount`, `WriteCount` | `updateCampaignRecipientStatus` |

An answer of the push service is `ok`, `invalid` or `failed`; a call that throws
after the service has taken the message counts as `failed`, as in the code, and may
be repeated: `accepted` holds the pushes whose answer has come back.  The error of
`notification_outbox_mark` is not looked at, so the mark may be missing; nor is that of
the first update of `device-token-upsert`, so the other device may stay enabled.

A run reads the users, their tokens and their preferences once (`ReadAudience`), and
everything after that goes by what it has read.  A user who turns marketing off later is
still sent that campaign; `readBefore` is history and notes, for each user who has turned
something off, the runs that had read by then.  `MutedAreLeftAlone` is what is left: no
other run addresses the user.  It is about whom a notice is *for*.  A device that is
registered by another user keeps its row, and pending items go by the row, so that its
new user is pushed what was due to the last one, muted or not; nothing in the repository
promises otherwise, and no property is about it.
`Notify` and `Reports` describe the outbox by itself, whoever fills it; they are what
the composition is proved to keep to.

`notification_campaign_claim_due` as it stands raises, because `id` is both a column
and a result of the function (`20260321100000_notifications_campaigns_v1.sql:405`; the
outbox claims were repaired for the same reason, `20260209140000_db_lint_fixes.sql:72`).
`ClaimDue` has what the claim is written for.  What the code does today is a part of
that, so every safety property carries over, and they are about the day the claim is
repaired.

## 4. Runs

| Run | Instance | Shows |
|---|---|---|
| `core` | 2 drivers, 2 wallet rides of fares 2 and 1, balance 2, PIN required, console statuses | `TypeOK`, `ReservedHasMatch`, `OneCommitment`, `HoldFollowsRide`, `HeldIsSumOfHolds`, `MoneyConserved`, `OnTripIsKept`, `JobSparesStartedRides` |
| `live` | 1 driver, a wallet ride and a cash ride with a fee of 2, limit 1, receipts of 1, payouts of 2, every status but suspended, fairness | `CashExposureBounded`, `StuckRideEnds`, `LapsedMatchResolved`, `OrphanIsReleased`, `ImplementsLifecycle` |
| `topup` | 1 intent, replayed creation, 3 reports on 2 event ids, one of them without a name and possibly ignored, 2 workers, 2 attempts, 1 poller | `TopupTypeOK`, `AckedHasJob`, `JobStaysEnded`, `CreditOnlyIfPaid`, `SucceededJobCredited` |
| `paid` | 1 intent, final reports, 2 workers, no poller, fairness | `CreditedOnce`, `JobEnds`, `PaidIsCredited` |
| `withdraw` | 1 driver, 2 requests the balance does not cover together, 2 payout jobs for the first, 1 sender | `WithdrawTypeOK`, `HoldFollowsRequest`, `AccountAddsUp`, `CancelledIsNeverSent`, `JobsTellTheTruth`, `ImplementsReservation` |
| `orders` | 1 order, cash or not, 2 drivers; a fee of one, a payment and 2 payouts of the other, who has no account at first | `OrdersTypeOK`, `PostedIfApproved`, `AccountIsItsLedger`, `OverdrawnByOverlapOnly`, `CashCarriersWithinLimit`, `FirstClaimStands` |
| `campaigns` | 1 campaign of up to 2 runs, 2 users, one of whom turns pushes off meanwhile, 2 devices, an app installed anew, 2 dispatchers | `CampaignsTypeOK`, `AcceptedIsNotRetried`, `RecordedSentWasSent`, `CountNeverOverstates`, `MutedAreLeftAlone` |
| `fallback`, `dropped`, `credited`, `unsettled`, `cod` | small | the findings of section 6 |

Bounds.  Two drivers and two requests are the least that let two requests compete
for a driver, a driver pass from one request to another, and a sweep inside a match
hand a driver to a third party.  In `core`, the
balance pays for either ride and not for both, and both may be matched before one is
accepted.  In `live`, the fee of the cash ride is above the limit; a payout
of two (`PayoutAmounts`, up to `MaxPaidOut` in all) may come before the check and have the
ride refused, between the check and the fee, or after, and receipts of one
(`ReceiptAmounts`, up to a balance of `MaxCredit`) bring the driver back to the limit and
above it.  The bound is reached: the account stands at minus three with nothing paid out
since the acceptance, and at minus five with a payout of two.
`MaxPending` (3 in
the code) is set to 2, so that the cap is met.  `StaleLimit` (`p_limit`, 500) is 1.  A
ride's version grows at most four times and needs no bound.  The proofs hold for any
values.

In `topup`, the report of a refusal names no intent, so that it is answered without a job
and yet may take the row of the event id it shares with the report of an open payment;
its processing is left to `paid`.  Two workers let a lease lapse and a second worker overtake the first; two
attempts let a job fail, be tried again and die; two deliveries with one event id and
one with another let them meet and not meet.  Intents do not touch each other, so one
is enough.  `MaxCredits` (2) is one more than the properties allow; a third credit of
one intent is not explored.

In `withdraw`, the balance covers one request at a time, the second only while the
first is neither reserved nor paid; two jobs of one request are the least that can
meet in its slot, and one sender with a lock that lapses may come back to a job that
was canceled, retried or sent by itself before. `DailyCap` is 1, so that the
second request of the day passes only if its call overlaps with the first.

In `orders`, the fee takes the first driver past `CashLimit`, before, during or after his
claim.  What the second one pays in covers either of his payouts and not both, so that
approvals which overlap overdraw him; approved before he has paid in, a payout is posted to
an account that is not there, and takes him past the limit too.

In `campaigns`, two runs let an administrator's stale "send" start a campaign a second
time while the dispatchers still report on the first; two dispatchers count together; the
user's app asks for a new device id with its old token and is refused by
`ux_device_tokens_user_token`.  A user turns pushes off
before, between or after the statements of either run.
`MaxDeciding` (1) is the number of administrators between their reading and their writing.

Symmetry: the drivers in `core`, the workers in `topup`, the jobs in
`withdraw`, the dispatchers and the runs in `campaigns`.  No run checks liveness with it.

Deadlock checking is off where the system may stop: the loop ends; with every job ended
and no poller, no request or report left, an order final and every posting made, or
the campaign's runs used up and the outbox empty, nothing is left to do.  The runs of
`MCDispatch` check it.

Each property of a passing run has a mutant in `PROJECT.json`: an operator next to the
definition it replaces, marked "Mutant", that makes TLC find the property violated.

## 5. Fairness

`FairSpec` of `Dispatch` adds `JobFairness`: deadlines pass; `expire-rides` runs again
and again (the comment on `admin_release_stuck_reserved_drivers` says "Should be run
periodically by expire-rides job"); each lapsed match, each reservation without
match and each ride past its cutoff is reached, since the job takes the oldest
first.  Weak fairness is enough for the sweeps.  `CancelStuckRide` needs strong
fairness: the ride can change between the reading and the call, which makes the
call fail and the job try again with its new version.  Nothing is assumed of
riders, drivers or administrators.

`FairSpec` of `Topup`: the runner is called every minute
(`docs/webhook-processing.md`), so workers go on (weak fairness of `WorkerStep`) and
leases lapse.  Strong fairness says that a job is not passed over for ever
(`ORDER BY next_attempt_at`), and that the worker holding the row does not die for
ever at the same point: the processing of each job and the report on it happen if they
are possible again and again.  The provider repeats a report until it is accepted,
endpoints do not die for ever on it, and the provider stays enabled (`Ignorable` is empty in
`paid`: what is answered and ignored is not repeated, and is lost).  Nothing is assumed of payers, pollers or
of `topup-create`, and a worker may die on any job any finite number of times.

`FairSpec` of `Withdraw` (run `unsettled`): senders that have started go on, locks
lapse, the provider ends what it has accepted and reports it again and again, and a
confirmation that has read its job writes it.  Nothing is assumed of users and
administrators; the run shows that even so a payout that was made does not settle its
request.

`FairSpec` of `Orders` (run `cod`): a driver who has a delivery picks it up and
confirms it.  It is weak fairness, which asks nothing of a confirmation the trigger
rolls back; that is the point of the run.

`Campaigns` states no fairness and has safety properties only: a dispatcher that dies
leaves its items "processing" for ever, so that every item ends is not true of it.

## 6. Findings

* **fallback**: the matching loop leaves at the first attempt that finds no woman driver
  (`20260209140000_db_lint_fixes.sql:1081`), although its comments say "try women-only
  matching twice before fallback" and "retry with fallback" (933, 1077): the fallback
  never happens, and such a rider gets nobody while drivers are free.  The
  other side of it is proved (`WantedIsKeptHolds`): the code never gives the preference up,
  so a repair of the loop is expected to break that and to keep `FallbackBeforeNone`.
* **dropped**: of two deliveries with one event id the second is answered as accepted and
  stored nowhere, whatever it says; the id of a QiCard delivery may name the payment.
  `docs/webhook-processing.md` says that every verified delivery is written.
* **credited**: an answer "pending", given before the payment and acted upon after it,
  takes a succeeded intent back to `pending`; the next report credits it again.
* **unsettled**: `system_withdraw_mark_paid` compares `current_user` with
  `service_role` inside a `SECURITY DEFINER` function and raises for every caller: a
  payout that was made and reported never settles its request, and its funds stay held
  until an administrator marks it paid by hand.
* **cod**: the settlement trigger of a cash delivery names `NEW.driver_profile_id`, which
  the table does not have: a cash delivery can never be confirmed.

Seen while modelling, without a run of their own.  Rides and top-ups:

* `DriverPage` sets `drivers.status` from a cached row, so a driver matched since is taken
  offline while reserved, although the button's title says it cannot
  (`ToggleAvailability`).
* A completed ride adds two to `trips_count`: once in the trigger and once in
  `on_ride_completed_v1` (`schema.sql:11463`).
* The cap of three open requests counts rows and then inserts, without a lock.
* The console sends `available` for a suspended driver (`page.tsx:26` of the driver
  page); `transition_driver` lets one go only `offline` (`schema.sql:15111`), so the
  button that should reinstate a driver always fails.
* A driver suspended during a ride cannot be handed back, so `expire-rides` skips the
  ride at every run.  This is why `live` leaves suspensions out.
* `topup-create` with a known `idempotency_key` opens the payment again and overwrites
  the row, a succeeded one included (`ReplayTopup`, `RecordInit`), although its comment
  says "return existing intent".  After it, a further report credits again, as in
  `credited`; `CreditedOnceHolds` therefore assumes no replay.
* `qicard-notify` answers 200 to a delivery that names no intent, which is stored and has
  no job (`AnswerNameless`).

Money:

* A party without a settlement account passes the balance check of a payout, because
  `NULL < amount` is not true (`20260209140000_db_lint_fixes.sql:714`): the payout is
  posted and the account made, with a debt (`Covers`, `PostPayout`).
* `admin_withdraw_reject` gives the money back although a payout job of the request may
  have been sent (`RejectWithdrawal`).
* `payout_claim_jobs` raises for the same reason as `system_withdraw_mark_paid`, so
  `payout-job-runner` never sends anything.
* `retry_now` leaves `canceled_at`: a canceled job that is retried stays queued, is never
  sendable and keeps the slot of its request until it is canceled again.
* Payouts are not held against `CashLimit`: a driver may be paid out what the fee of the
  ride under way will ask for (`RecordPayout`).
* `AdminSettlementsPage` makes a new idempotency key for every submit (line 428): a
  posting repeated after a lost answer is a second posting.
* A merchant whose page is stale cancels a delivery that has been delivered
  (`CancelDelivery`).
* `merchant_order_create` never sets `payment_method`: every order is a cash order.

Notifications:

* `notification_campaign_claim_due` raises (section 3.7): scheduled campaigns are not sent.
* Items a dead dispatcher has claimed stay `processing`; `trusted_contact_outbox_claim`
  takes such items again after fifteen minutes, this one does not.  A push that fails is
  tried again without a limit.
* The insert trigger calls `notifications-dispatch` with `x-webhook-secret`, while the
  function asks for the cron secret, contrary to `promotion-notify/index.ts:17`.
* `push_sent` is read and written back by dispatchers that run together, and set to 0 by
  a run that completes after the first pushes: it may stay behind (`CountNeverOverstates`
  is the half that holds).
* Without a filter on tokens every recipient is planned as `skipped`, though it is pushed.
* Preferences are read once per run; who turns pushes off afterwards is still sent that
  campaign.  A device registered by another user keeps its row, and is pushed what was
  due to its last user.
* An administrator's send or cancel rewrites a campaign that is running or over; a runner
  that dies leaves its campaign `running`.
* A user whose app gets a new device id with its old token is left without an enabled
  device: the old row is disabled, then the index refuses the new one.  A token the
  service refuses is disabled by the id of its row, whatever token that has by then.

Outside what is modelled: two administrators may convert one ride intent twice; nothing
in the repository calls `scheduled_rides_execute_due`; `first ride` of a referral is asked
before the redemption is locked (`schema.sql:5674`); `promotion-notify` counts and then
inserts, and writes its receipt before its notification.

## 7. Proofs

Every safety property and every action property that a passing run checks is proved,
for all values of the constants that meet the conditions named below, and so are the two
refinements.  Liveness is not (section 7.2).

### 7.1 What is proved, and how

Sums.  `SumLemmas` is what every theorem about money rests on.  The sum of the community
module `Functions` folds a set by choosing one element after the other; that the result
does not depend on the choice needs an induction over finite sets, and the induction
theorems of the library cannot be instantiated.  `SumIsCount` goes around it: the sum of
`f` over a finite `S` is the number of pairs `<<x, k>>` with `1 <= k <= f[x]`, less the
number of pairs with `1 <= k <= -f[x]`.  Both sides satisfy the same recursive equation,
and two solutions of it cannot differ: of the finite sets on which they do, take
one no subset of which does, and the set with one element less contradicts the choice
(that the strict-subset order below a finite set is well-founded is a plain fact of the
library).  The facts about cardinalities of the library then give what
proofs use: an element put in, taken out or changed (`SumAdd`, `SumRemove`,
`SumUpdate`), elements of value 0 (`SumIgnoresZeros`), a sum of naturals covers each
of them (`SumCoversEach`).  Sums only make sense over finite sets.  That holds, requests
and entries are finite sets is not assumed of the tables: it is part of the invariants
(a step adds at most one, `FewHolds`, `AccountInv`, `LedgerInv`).  Only the sum of all
balances ranges over all users, hence `UsersAssumption`.

The `Dispatch` theorems.  All constants are arbitrary, subject to `ConstantsAssumption`
(columns are typed, amounts are non-negative, riders and drivers are different users).

* `TypeCorrect`.  `TypeOK` is inductive as it stands, money included: `PlaceHold`
  checks the funds, `CaptureHold` the balance.  The lemmas follow the operators
  (`SweptType`, `UndoneType`, `PlaceHoldType`, ...), then one lemma per group of
  actions.
* `OneCommitmentHolds`, `RideIffAcceptedHolds`.  `OneCommitment` alone is not inductive: accepting moves the commitment from the request row to
  the ride row, so the invariant also says that rides exist exactly for accepted
  requests, with the same driver, and that a matched request has a driver.  The
  sweep and the undoing of a lapsed match are treated once, as a "loosening" that
  only frees drivers (`LooseningSafe`); a new match then picks a driver free of
  rows (`CandidateFree`).
* `LiveMatchNotAvailableHolds`: the only ways to become available look at live
  matches; the invariant adds that a match window is open only on a matched row.
* `ReservedHasMatchHolds` assumes `"reserved" \notin AdminTargets`: with the
  route's full range of targets it is false, which is why the job has its repair.
* `JobSparesStartedRidesHolds`: the invariant says that what the list holds is not
  newer than the ride, and that a ride at the listed version is still assigned or
  arrived.
* `OnTripIsKeptHolds`: from `OneCommitment`, a driver with a ride has no match, so
  no sweep or cancellation can reach the driver.
* `HoldFollowsRideHolds`, `CashExposureBoundedHolds`.  The second adds that a driver with
  a cash ride under way would be within the limit but for what was paid out since; it needs
  one ride per driver, hence `OneCommitment`, and holds for receipts and payouts of any
  amounts.
* `HeldIsSumOfHoldsHolds`, `MoneyConservedHolds`.  `WalletInv` joins them with
  `HoldFollowsRide`, which says that an accepted request has no hold before.  A release
  stops at zero in the code; that it never has to is `HeldCoversFare`, a consequence of
  the sum.  A capture pays the driver of the ride, who exists (`RideIffAccepted`) and is
  not the rider: two updates of the sum of the balances, which cancel out.
* `DispatchImplementsLifecycle`: initial states map to initial states, every step to
  a step of `RideLifecycle` or a stutter; a sweep with a match is one `Offer`.

* `WantedIsKeptHolds`, for any drivers and any number of passes.  A filter in the query is
  not enough for it: the fallback lifts the filter.  The invariant is that the loop never
  comes to a second counted attempt, so that the fallback stays off.  It therefore assumes
  `MaxPreferred > 1` (`LoopConstants`), as in the code; with one attempt before the
  fallback it is false.

* `QueueTypeOKHolds`, `AckedHasJobHolds`, `DeadIffExhaustedHolds`,
  `JobStaysEndedHolds` (from `QueueAssumption`).  One invariant, `QueueInv`, carries
  them: a token is held by one worker at most, and its holder knows the row
  (`TokenInv`); a busy worker has a stored event and an attempt left (`BusyInv`); what
  has a job is stored and what has ended is not leased (`StoredInv`).  Without
  `TokenInv` a late `markJobFailed` could reopen or revive a job.
* `TopupImplementsQueue`: every step of `Topup` is a step of `WebhookQueue` or leaves
  its variables alone, so all four hold in `Topup`.
* `CreditOnlyIfPaidHolds`, `SucceededJobCreditedHolds` (from `TopupAssumption`).  The
  invariant says that every stored report and every answer not yet settled is true
  (`TruthInv`; payments that have ended stay as they are), that a succeeded intent
  has been credited, and that a worker done with a "paid" report has seen to it
  (`EffectInv`).
* `FinalIntentsCreditedOnce`: without pollers, an intent whose creation is not replayed
  and of which no report says "open" is credited at most once, whatever is reported of
  the other intents.  `OnceInv` says that a credited intent is succeeded and that the
  creation of an offered payment is over.  `CreditedOnceHolds` is the case where all
  intents are such.  Each condition keeps out a way to overwrite a succeeded row (an
  answer "pending", a second `RecordInit`), after which a report credits again: run
  `credited`.

* `WithdrawInvariant` carries the theorems of `WithdrawProofs`: types, one hold per
  request as its status says, a job or a call about it only for a request that was
  approved once (which no step takes back to where the user can cancel), no lock on a
  canceled job, and a transfer at the provider behind every answer and every job that
  shows as sent.  From it `WithdrawTypeOKHolds`, `HoldFollowsRequestHolds`,
  `CancelledIsNeverSentHolds` and `JobsTellTheTruthHolds`, for any number of users,
  requests, jobs and senders.
* `AccountAddsUpHolds`.  `AccountInv` adds that finitely many holds were taken.  A request's
  step moves one hold from one sum to another (`HoldMoves`); the account covers each of
  its active holds (`HeldCoversEach`), so giving back never stops at zero.  Job and sender
  steps leave accounts and holds alone (`PayoutsLeaveWallet`).
* `WithdrawImplementsReservation`: under the mapping of `Withdraw` to `ReservedFunds` a
  request's step reserves, spends or gives back, and every other step is a stutter.
* `OrdersProofs`: `OrdersTypeCorrect`; `PostedIfApprovedHolds`, from the invariant that an
  approval under way holds a requested row, so nobody rejects it;
  `EventsAreLawfulHolds` (a status event names somebody who may have caused it) and
  `FirstClaimStandsHolds` (however many drivers claim a delivery, the first keeps it).
  `AccountIsItsLedgerHolds` and `OverdrawnByOverlapOnlyHolds` come from `LedgerInv`, which
  adds `CoveredSinceChecked`: the account still has the amount of an approval that has read
  it, less what other payouts and charges have taken since.  `FloorIsKept` is the step
  both arguments share: a posting lowers an account by no more than it adds to the debits
  since a given set of entries.  Without the check at the approval the invariant cannot be
  set up, whatever was checked at the request.  `CashCarriersWithinLimitHolds` comes from
  `CarrierInv`, the same for the limit and the entries a claim has read.
* `NotificationProofs`: for the outbox by itself, whoever fills it,
  `OneWorkerPerItemHolds` (an item is in the hands of one dispatcher),
  `AcceptedIsNotRetriedHolds` and `EndedItemStaysHolds`.  The first is what the others
  need: the mark looks at no lock, so only the claim keeps dispatchers apart.
  `CampaignsUseTheOutbox` shows that every step of `Campaigns` is a step of the outbox, so
  these hold of it too.  `CampaignsTypeCorrect`, `RecordedSentWasSentHolds` and
  `MutedAreLeftAloneHolds` need, in addition, that the notices of a run not yet inserted
  have no items, and that whoever is muted and planned for a push is so by a run that read
  before (`PlansRespectMutes`), in whatever state preferences, runs and registrations are.
  `CountNeverOverstatesHolds`: the counter against all accepted pushes is not inductive,
  since a dispatcher about to write adds one.  `CountInv` compares it, and every number
  read of it, with the accepted pushes that no dispatcher is still reporting
  (`Countable`).  Two dispatchers never report the same push (`OneAcknowledgement`), so
  the one that writes frees one push for the one it adds; one that dies only frees it.

`WantedIsKept`, `RideIffAccepted`, `LiveMatchNotAvailable`, `QueueTypeOK`, `DeadIffExhausted`,
`EventsAreLawful`, `OneWorkerPerItem` and `EndedItemStays` are steps of these arguments or
close to what single statements say; they are proved and have no run of their own.

### 7.2 What is only model-checked

The liveness properties: `PaidIsCredited` and `JobEnds` of `Topup`, and `StuckRideEnds`,
`LapsedMatchResolved` and `OrphanIsReleased` of `live`.  They need fairness, hence
`ENABLED`, which the prover does not handle.  The five violations (section 6) are runs
by nature: a counterexample is their proof.

## 8. Not modelled

Listed with reasons in `PROJECT.json`; in short:

* stateless, single-row or floating-point: fares, maps, statistics, KYC documents,
  fraud scores, chat, support, assistants, and the user interfaces beyond the
  availability button and the driver page's next status;
* external: payment, payout, push and SMS providers (only as their callers see them),
  cryptography of passkeys, voice rooms;
* left by the plan of section 2: scheduled rides and intents, gift codes and referrals,
  SMS codes, role requests of administrators, the lock of the pickup PIN after wrong
  attempts, rate limits, the outbox of trusted contacts;
* within what is modelled: the log rows of attempts and status checks, the replay of dead
  webhook jobs by hand, read counts of notifications, who holds a device when a push goes
  out, products and prices of orders, the daily amount of withdrawals (read with the
  daily count).
