# Verification of the ISP billing platform

TLA+ models of the parts of this platform where money, access and addresses
meet, TLC runs that check them on small instances, and TLAPS proofs for every
size.  The platform is a multi-tenant Django application: each ISP company is a
tenant with its own PostgreSQL schema, the platform's own tables live in
`public`.  The ISP's customers pay the platform through PayHero (M-Pesa); the
platform keeps 5% and pays the rest out to the ISP.  FreeRADIUS decides who is
let in to an ISP's network and reads `public` only; OpenVPN connects the ISP's
routers to the platform.

## 1. Inventory

| component | state | operations | hard behaviour | correct means |
|---|---|---|---|---|
| settlement ledger and payouts (`apps/subscriptions`: models, `services/settlement_service.py`, payout views) | `CommissionLedger`, `ISPPayoutConfig.pending_balance`, `ISPSettlement` in `public` | `record_commission` from a callback, `process_company_settlement`, PATCH and verification of the payout account | concurrent read-modify-write, an HTTP payout inside a transaction, lost replies | each row is settled once, by a payout that happened; nothing is sent to an unverified account |
| hotspot sale and device pairing (`apps/billing`: hotspot models, views, portal, tasks, RADIUS service, webhook) | `HotspotSession` per tenant, RADIUS users | purchase, callback, status poll, pairing of a second device, disconnect; two Celery tasks that fail | every writer saves a copy loaded earlier; callbacks come early, late, twice; workers die between saves | no access without payment, no payment without access |
| company subscription (`apps/subscriptions`) | `CompanySubscription`, `SubscriptionPayment` in `public` | trial, payment request, callback, poll, cancellation | the same, with whole-row saves of one shared row | service follows payment; a payment adds what it paid for |
| PayHero client (`billing/services/payhero.py`) | none | STK push, status, B2C and bank payout | timeouts after acceptance, truncation | its caller learns what happened |
| subscriber access (`apps/radius`, `apps/customers`) | `Customer`, `ServiceConnection`, `CustomerRadiusCredentials` per tenant; `radcheck` in the tenant's schema and in `public`; `radacct` | activate, suspend, extend, renew, enable, disable, status changes, plan saves; the task that closes expired sessions | saves call signals that save again; dual write with swallowed failures; copies that overlap | FreeRADIUS admits whom the tenant's rows admit |
| router tunnels (`apps/vpn`, `apps/network` routers) | `Router`, `VPNCertificate` per tenant; the client-config directory and OpenVPN's subnet, shared by all tenants | create, provision, reprovision, revoke, issue by hand, save, delete | files are written inside transactions that may roll back; whole-row saves; addresses chosen without a lock | OpenVPN pushes each router the address its row says, and no two the same |
| invoices, payments, vouchers (`apps/billing/models`, `views`) | invoice balance, payment status, voucher value | generate, pay, refund, redeem, retry, reconcile | saves with side effects | amounts paid and balances agree; see section 6 |
| calculators (`billing/calculators`) | none | proration, tax, commission | rounding | results within bounds |
| IPAM, OLT, TR-069 (`apps/network`) | inventory tables | CRUD, device calls | - | see section 6 |
| notifications, messaging | rules, templates, campaigns | send, retry | retries, channels fail | see section 6 |
| self service | none of its own | reads, forms | - | - |
| tenancy and users (`apps/core`) | tenants, domains, users | sign-up, schema routing | the schema of a worker's connection | a query runs in the schema it is about |
| bandwidth, analytics, inventory, staff, support, utilities | their own tables | CRUD and reports | little | - |
| Celery, Docker, scripts, FreeRADIUS configuration | - | schedule, deployment | - | - |

Interactions: PayHero's callback (`webhook_views.py`) finds a sale by its
checkout id in every tenant schema, activates it, and records the commission in
`public`, where settlement runs pick it up.  The portal polls the sale; the poll
asks PayHero and does the callback's work over again in its own way.  A sale's
RADIUS user is written by the poll through the hotspot's RADIUS service into
both schemas; a subscriber's is written by the signals on credentials, services
and customers through `radius_sync_service.py`.  Creating a router provisions
its tunnel in the same request, and the MikroTik client then connects to the
address its row says (`mikrotik_api.py:26`).  A Celery task closes subscribers'
accounting sessions; the two for hotspot sales fail in the public schema.
`process_company_settlement` has no caller in the repository: its beat entry is
a comment (`settlement_service.py:344`) and its docstring says "scheduled task
(celery beat) or manually triggered"; the model lets any worker start it.

## 2. Modules

| module | models |
|---|---|
| `Settlement` | ledger, payout configuration and settlement runs of one company, one action per SQL statement or HTTP call; at its end the refinement mapping to `IspAccount` |
| `IspAccount` | what that component promises: a payment is owed until one settlement takes it, for ever, and the pending balance is exact until clients overlap and again after a settlement alone |
| `PaidSale` | what every sale for mobile money promises: decided once, by PayHero's word, and only what is sold is given |
| `HotspotPayment` | sales of hotspot sessions and the devices paired with them, one action per load and per save; at its end the mapping to `PaidSale` |
| `CompanySubscription` | one company's subscription and its payments; at its end the mapping to `PaidSale` |
| `SubscriberAccess` | one PPPoE subscriber: status rows, credentials, the two `radcheck` tables, the accounting session; one action per statement or per copy |
| `RouterProvisioning` | routers and certificates of several tenants, and the directory they share |
| `MC...` | constants and symmetry of the instances |
| `SumTheorems` | sums over finite sets, for the amounts of `Settlement` |
| `...Proofs` | theorems; `SettlementAccountProofs` continues `SettlementProofs` |

**Database.** PostgreSQL runs READ COMMITTED.  A view or callback under
`transaction.atomic` becomes visible at its commit; everything else runs in
autocommit, so each `save()` is visible at once and a worker may die between
two of them.  `save()` writes every column of an object loaded earlier: each
handler carries its object (`copy`; `snapshot` in `Settlement`, `obj` in the two
last modules) from its load to its save.  `Settlement` models the one row lock
that is ever contended (`lock`, with `staged` and `marked` for uncommitted
writes).  In `HotspotPayment` a callback's saves are one step, since it holds
the row's lock from its first save to its commit.  In `CompanySubscription` a
payment request holds the lock during its HTTP call (`Unlocked`).
`SubscriberAccess` models the locks of a delete-and-insert copy row by row, and
`RouterProvisioning` those of the rows and of uncommitted unique entries
(`RowFree`, `CertFree`, `AddressFree`).

**PayHero and the customer** are the variable `stk` (`delivered` for payouts)
and the action `Resolve`.  A call is accepted, refused, or accepted with its
reply lost (`"lost_reply"`).  A callback can come any time after the outcome,
as often as `Deliveries` has members about it, or never.  A status query
answers SUCCESS and FAILED as they are; everything else, CANCELLED included,
reads as pending to both polls.

**Settlement.** `pc` is where a client's transaction stands.  A webhook:
`RecordCommission` (INSERT, load of the configuration), `AddToPendingBalance`
(UPDATE, takes the lock), `CommitCommission`.  A run: `BeginSettlement` (the
early returns), `ReadTotals`, `CreateSettlement`, the payout, `MarkCompleted`
(clears the balance), `MarkEntriesSettled` (the lazy queryset is evaluated
again), `CommitSettlement` or `CommitFailure`.  An administrator: `LoadConfig`,
then `VerifyPayout` or `PatchConfig`.  Amounts are cents, rounded half to even
as `Decimal.quantize` does.  A payment recorded before a payout configuration
exists adds to no balance; the model starts with a configuration.
`CriticalFields` is what the serializer compares of a destination.
Abstractly (`Account`): the open rows are `owed`, the others `settled`,
`balance` is the configuration row's, and it is `exact` unless clients have
overlapped since a run last settled with none beside it.  `CommitCommission` is
`Accrue`, `CommitSettlement` is `Settle`, a client that begins beside another is
`Overlap`, an administrator's save of an old row is `Overwrite`; everything else
stutters, the payout and the end of a failed run included.  `met` keeps the
clients a run was at work beside, `drift` that some have overlapped (`Meet`).

**HotspotPayment.** The purchase is a transaction around an HTTP call
(`PushAccepted` ... `CommitPurchase`), the callback one (`ReceiveCallback`,
`ApplySuccess` or `ApplyFailure`), the poll a chain of autocommitted saves
(`LoadPoll`, `ConfirmPayment`, `Activate`, `CreateCredentials`).  A pairing
(`LoadPairing`, `AuthorizeDevice`) looks up an active session and makes the MAC
address of a device a user; the code shown on that device lives in the cache
for five minutes, so any member of `Devices` may have one.  The two Celery
tasks (`billing/tasks.py`) have no action: they run on Celery's own connection,
which nothing in the repository sets to a tenant's schema, the public one has no
such table, and they return the error having changed nothing.  A callback that
carries no result code (`Codeless`) is read as a success
(`webhook_views.py:66`); `Vouched` are the sales none is about.
`RateLimitLength` is the length of the value `int(plan.speed_limit_mbps *
1024)` yields for a string column.  Time is in ticks of ten minutes.

**CompanySubscription.** STK payments, each asking for a monthly or yearly
period.  The request writes the period into the subscription row before it
calls PayHero, as the view does; whatever payment completes next extends by the
period then in the row.  `Extended`, `Converted` and `Cancelled` are the model's
methods.  `added` and `sold` count the days payments added; no guard reads them.
Here a callback is assumed to carry its result code; one without would be taken
for a success, as for hotspot sales.

**PaidSale** is what the two modules above share.  A sale is put on record
(`Open`) or refused; the customer pays or not (`Collect`), at any time; it is
sold or lost by what PayHero then says; access is given (`Give`) and taken back.
`Phases`, `Outcomes` and `Given` read the abstract sale off the rows: a hotspot
session that is confirmed, active or expired is sold, and a commission or a
RADIUS user is something given; of a company's payments, the completed ones are
sold and the time they added is given.  So no stale save ever turns a sold
sale into a lost one or back.

**SubscriberAccess.** A request is a queue of statements (`todo`) and a `stage`:
where its save of the credentials stands.  It begins with what its view loads
(`Activate`, `SaveService`, `Extend`, `SaveCustomer`, `Payment`, `SwitchOn`,
`SwitchOff`, `Renew`, `Resync`), and then runs the saves and the `post_save`
signals they call (`ServiceSignal`, `CustomerSignal`, `AfterService`,
`AfterCustomer`).  `SaveCredentials` writes the row; the signal on it opens the
transaction that copies it: `CreateInTenant` or `RejectInTenant`, then
`WritePublic`, or `FailPublic` (the savepoint is rolled back and a warning
logged), then `Commit`.  `WaitForRows`, `Sees` and `Found` are PostgreSQL's: a
statement sees the rows committed when it starts, waits for those another
transaction changed, and skips the ones that are gone; the
extension's `update_or_create` looks for its row (`StartExpiration`), waits for
it and writes it, or inserts a second one if a copy has replaced it meanwhile
(`SetExpiration`).  `Resync` copies the credentials, enabled or not.
`WaitsFor` is the database's wait graph.  `Skew` is what
`disconnect_expired_users` gets wrong by reading a UTC date as local time.

**RouterProvisioning.** `router`, `certs` and `ccd` are the rows and the
directory; `req` is where a request stands and what it has read.  Provisioning
(`CreateRouter` or `Reprovision`, `AssignAddress`, `FindCertificate`, `Certify`,
`OpenFile`, `WriteFile` or `FailFile`, `SaveTunnel`, `Commit`) is one
transaction; the file is not part of it: `OpenFile` empties it at once, and after
a crash or a full disk (`FailFile`) it stays empty.
`LoadForSave`/`SaveAll`, `RevokeVpn`/`SaveRevoked`, `GenerateCertificate`/
`ForceRevoke`/`Sign`, `AddCertificate`, `RevokeCertificate`,
`DeleteCertificate` and `DeleteRouter` run in autocommit.  A common name is a
router's id and name without its tenant, as in the code.

**History variables** no action's guard reads: `verifiedFor`, `added`, `sold`;
`met` and `drift` of `Settlement`, `solo`, `suspect`, `disturbed`, `writers` of
the two last modules, which say who was at work beside whom, and whether the
state has been repaired since; `torn`, the files emptied and not written.  They
let the properties say in which states the code keeps its promise, with every
behaviour of it left in the model.

`PROJECT.json` maps each definition to its lines.

## 3. Runs

| run | shows | instance |
|---|---|---|
| `settlement_free` | with everything overlapping, crashing and timing out: a settled row belongs to a completed, delivered payout (`SettledRowsBelongToPayouts`) and never changes hands (`SettlementIsFinal`); only overlapping runs and payouts the program lost track of pay a row twice (`NoDoublePayout`), and without them the ISP is never sent more than its share (`PaidWithinShare`); what a settlement settled, paid and counted differs only by overlaps (`DifferencesAreOverlaps`); the balance is exact until clients overlap and again after a settlement alone (`PendingBalanceIsUnsettledAmount`); and `Settlement` implements `IspAccount` (`ImplementsAccount`) | 2 payments, 2 runs, 1 administrator, 2 destinations, lost replies, crashes; 1.9 million states |
| `settlement_admins` | money only goes to verified accounts (`PayoutsGoToVerifiedAccounts`), and every transaction ends (`TransactionsEnd`) | 1 payment, 1 run, 2 administrators, 3 destinations of which two share an account number |
| `settlement_rows_unpaid` | violated: a payment committed during a run is marked settled without being paid | 2 payments, 1 run |
| `hotspot_sale` | `AccessNeedsPayment`, `FailedMeansUnpaid`, `AccessNeverStacks`, `ServedRowsHaveCodes`, and the sale implements `PaidSale` (`ImplementsSale`) | 1 sale, 2 callbacks, 2 polls, 1 disconnect or pairing at a time, 1 device, 1 crash, lost replies; 0.4 million states |
| `hotspot_live` | a confirmed payment never stays half way (`PaidSalesEnd`), and no sale but the one a callback without a result code names is served unpaid (`AccessNeedsPayment`) | 2 sales with one access code, 2 callbacks of which one has no code, 3 polls, 1 disconnect or pairing, 1 device, 1 crash; 0.2 million states |
| `hotspot_tasks_idle` | violated: a session past its expiry stays active for ever | 1 sale |
| `hotspot_callback_no_login` | violated: a session activated by the callback cannot log in | 1 sale |
| `subscription` | `ServiceNeedsPayment`, `FailedMeansUnpaid`, `TimeIsBought`, `PaidPaymentsComplete`, and the payments implement `PaidSale` (`ImplementsSale`) | a monthly and a yearly payment, 1 callback, 2 polls, 1 cancellation, crashes, lost replies; 0.3 million states |
| `subscription_two_periods` | violated: a callback extends the subscription twice for one payment | 2 monthly payments |
| `subscriber` | once quiet, both tables say what the credentials say, unless requests overlapped or a copy failed and nobody repaired it since (`QuietTablesInStep`); no commit ever leaves a table without the user it had (`UserNeverVanishes`); and no group of requests waits for each other's rows (`NoCircularWait`) | 3 requests, 2 at a time, one failing write of the public table; 1.9 million states |
| `subscriber_live` | every request returns, although copies wait for each other and saves call signals that save (`EveryRequestReturns`); the accounting of an expired subscriber is closed (`ExpiredSessionsEnd`) | 2 requests, 1 crash, one tick; 0.3 million states |
| `router` | OpenVPN pushes a provisioned router the address its row says, or nothing if a write of its file was cut off (`OwnAddressPushed`), never one address to two routers of a tenant (`AddressesApart`); a router has one active certificate (`OneActiveCertificate`) | 2 routers of one tenant, 1 of another with the same id, 2 names, 2 addresses; 3 requests, 2 at a time, a crash or a full disk; 1.3 million states |

Why these bounds are enough to be interesting: a lost update takes two writers
of one row, a double payout two runs, a revived verification two
administrators, a duplicated callback two deliveries of one sale, an overwritten
activation a poll beside them, a changed billing period two payments, a copy
overtaken by another two requests and its repair a third, a clash of addresses
two routers provisioned at once, a shared file two routers with the same id.
The instances have these at once.  Rows do not
interact except through the configuration row, equal access codes (two sales
draw the same in `hotspot_live`), and the addresses and names of routers, and
the theorems below cover any number of them.  The clock bounds (`MaxDay`,
`MaxTime`) let each deadline pass at least once, except in `settlement_free`,
`hotspot_live` and `subscriber`, where time stands still; `MaxExpiry` caps
expiration dates; `MaxCrashes`, `MaxFaults` and `MaxRequests` bound crashes,
faults and requests.

Deadlock checking is off: a finished instance stops.  That nobody waits for
ever is `TransactionsEnd` and `EveryRequestReturns`.

**Symmetry** of requests is used in `subscriber` and `router`, and that of
callbacks, polls and codes in `hotspot_sale`; none of the three checks liveness
(a refinement without fairness is safety).

**Fairness.**  `Settlement`: a transaction that began takes its next step (the
HTTP call has a timeout, `DEFAULT_TIMEOUT`), strongly for the steps that wait
for the row lock, which PostgreSQL grants in turn; no client is obliged to
begin.  `HotspotPayment`: the purchase reaches its commit, a disconnect or
pairing request returns, the portal keeps polling while the page is open;
neither the customer nor PayHero's callbacks are obliged to anything, and time
need not pass.
`CompanySubscription`: the page keeps polling; strong fairness of
`ConfirmPayment` says that of infinitely many polls of a collected payment not
every one fails or dies.  `SubscriberAccess`: a gunicorn worker runs its request
on; `src/config/celery.py` starts the disconnect task every five minutes; nobody
has to send a request, to log in or to log out.  `RouterProvisioning` claims no
liveness.

## 4. Proofs

All theorems hold for every value of the constants under the assumptions named
in the modules (`SettlementAssumption`, `HotspotAssumption`,
`SubscriptionAssumption`, `AccessAssumption`, `ProvisioningAssumption`), which
TLC evaluates in every run.

| theorem | statement | argument |
|---|---|---|
| `SettlementProofs!TypeCorrect` | `Spec => []TypeOK` | one step per action |
| `SettledRowsArePaid` | `Spec => []SettledRowsBelongToPayouts` | `Inv`: who is past its UPDATE of the configuration row holds the lock, hence only one run has uncommitted marks, and those rows are still open when it commits |
| `SettlementNeverChanges` | `Spec => SettlementIsFinal` | from `Inv`: only `CommitSettlement` writes `settledBy`, and only for open rows |
| `VerifiedDestinations` | `Spec => []PayoutsGoToVerifiedAccounts` | `VerifiedInv`: each row and copy marked verified names an account in `verifiedFor` |
| `RunsApartNeverPayTwice` | `Spec => []NoDoublePayout` | `PayoutInv`: a run that committed leaves none of the rows it totalled open, so runs that never met total disjoint sets unless the program lost track of one |
| `RunsApartNeverOverpay` | `Spec => []PaidWithinShare` | known payouts of runs apart cover disjoint sets of ledger rows (`PayoutInv`), none exceeds its rows' share since truncation only takes away, and sums over disjoint parts stay within the sum of the whole (`SumOfParts`) |
| `OnlyOverlapsDiffer` | `Spec => []DifferencesAreOverlaps` | `ReadInv`: whatever changed between two evaluations of the filter was committed by a client the run has met |
| `SettlementImplementsAccount` | `Spec => ImplementsAccount` | step simulation, one step of `Settlement` at a time; `OneAtWork`: without drift one client is at work at most, what it has read is still so (`AloneInv`, `BalancesRead`), and a run that meets nobody settles everything open |
| `PendingBalanceIsExact` | `Spec => []PendingBalanceIsUnsettledAmount` | each step of the abstract account keeps an exact balance equal to the sum of what is owed, and every step of `Settlement` is one of those or a stutter |
| `HotspotPaymentProofs!TypeCorrect` | `Spec => []TypeOK` | one step per action |
| `MoneyBeforeAccess` | `Spec => []AccessNeedsPayment` | `PaidInv`: for the sales every callback about which has a result code, a handler past its confirmation, its copy, the rows, the ledger and the RADIUS users all presuppose `stk = "paid"`, which no step takes back; who handles another sale changes none of theirs |
| `RepeatedActivationsNeverStack` | `Spec => []AccessNeverStacks` | no row and no copy ends later than a plan's duration from now |
| `ServedSessionsHaveCodes` | `Spec => []ServedRowsHaveCodes` | every served row and every served copy has a code; no writer takes it away |
| `FailedSalesAreUnpaid` | `Spec => []FailedMeansUnpaid` | a handler fails a sale only after PayHero said so; a copy marked failed presupposes it |
| `HotspotImplementsSale` | `Spec => ImplementsSale` | step simulation: whoever saves a decision acts on PayHero's word, which is final, so two stale copies never decide differently (`PaidInv`, `FailInv`); `SaleInv` adds that nobody handles a sale before it is on record, and that what is given is sold |
| `CompanySubscriptionProofs!TypeCorrect` | `Spec => []TypeOK` | one step per action |
| `TimeIsNeverMade` | `Spec => []TimeIsBought` | the bound holds of each copy too, since every extension adds to `sold` what it adds to the row |
| `MoneyBeforeService` | `Spec => []ServiceNeedsPayment` | an active copy presupposes a collected payment, as does a handler past its confirmation |
| `FailedPaymentsAreUnpaid` | `Spec => []FailedMeansUnpaid` | as for sales |
| `SubscriptionImplementsSale` | `Spec => ImplementsSale` | the same; and time is only added while a payment is, or becomes, completed |
| `AccessTypeOK` | `Spec => []TypeOK` | one step per action |
| `TablesFollowCredentials` | `Spec => []QuietTablesInStep` | `IInv`: a request alone since it began works with the row as it is, waits for nobody, and its open transaction will delete what is there and insert what the credentials say |
| `AccessUserNeverVanishes` | `Spec => UserNeverVanishes` | `UserReplaced`: a transaction that deletes the user of a table inserts one there; the savepoint gives both up together |
| `NobodyWaitsInACircle` | `Spec => []NoCircularWait` | `HoldsInOrder`: a transaction gets the tenant's rows before the public ones and the session last, so each waits for one that is further on; `NobodyElseWaits` says the wait graph leaves out no wait |
| `RouterTypeOK` | `Spec => []TypeOK` | one step per action |
| `FilesPushOwnAddress` | `Spec => []OwnAddressPushed` | a request alone on its router keeps the address the row has, so what a failed one wrote is what the row says or nobody's, and what it only opened is empty and in `torn`; keys of certificates not yet inserted are referred to by nobody |
| `TenantAddressesApart` | `Spec => []AddressesApart` | from the above and the unique index on the column |
| `CertificatesReplaceEachOther` | `Spec => []OneActiveCertificate` | an undisturbed router's one active certificate is the one its request will revoke |

The invariants alone are not inductive: `SettledRowsBelongToPayouts` says
nothing of marks not yet committed, `AccessNeedsPayment` and `TimeIsBought`
nothing of the copies handlers will save, `QuietTablesInStep` nothing while a
request is in flight, `OwnAddressPushed` nothing of what a request has read.
`ImplementsSale` relates two states, and its step needs to know what every copy
in flight will say.  The named parts of the inductive invariants add that.

**Sums.**  The two theorems on amounts need the laws of
`FiniteSetsExt!MapThenSumSet`, which is defined by recursion on sets.
`SumTheorems` proves them without induction theorems (which take an operator
parameter): a set on which a law failed would have a smallest subset on which it
fails (`WFMin` and the well-foundedness of the subset ordering), and there the
recursion takes one element away.  The weights are functions (`Share`,
`Transfer`), so every fact is first-order.  `FiniteInv` supplies the finiteness:
`Entries` and `Runs` may be infinite, the rows and payouts so far are not.

**Hypotheses.**  No theorem restricts the constants beyond the modules' own
assumptions: clients overlap, processes die, replies get lost.  Where the code
breaks a promise then, the property says so in terms of what happened
(`Apart`, `Unconfirmed`, `met`, `drift`, `suspect`, `disturbed`, `torn`): the
model has those behaviours, the property claims nothing of the rows, runs or
routers they touched, and section 5 lists what goes wrong there.

Three hypotheses are about the outside: PayHero's word is final; it gives the
result code for hotspot sales in `Vouched`, and for every payment of a
subscription.  Two of the terms are worth a remark.  A run is `Apart` from
another if neither began while the other was at work, in particular if one
scheduler starts them one after the other.  And `drift` does not stay: the next
run that settles with nobody beside it makes the balance exact, since it clears
the row and settles everything open.

**Only model-checked**: all liveness, which needs fairness and ENABLED
(`TransactionsEnd`, `PaidSalesEnd`, `PaidPaymentsComplete`,
`EveryRequestReturns`, `ExpiredSessionsEnd`), and the four counterexamples.
Every safety property of the passing runs is a theorem, and so are all three
refinements.

## 5. Divergences

Places where the code does not do what its own documentation says, or what the
rest of it relies on.  Four have a run.  Those with a property in
parentheses show as counterexamples of the same models when the property is
stated without the part named; the others were met while reading, and the models
leave the point out or state their properties so that it is excluded.

*Settlement and sales.*

| where | what happens |
|---|---|
| `settlement_service.py:191` | run `settlement_rows_unpaid` |
| `webhook_views.py:216` | run `hotspot_callback_no_login`: the callback draws a code and creates no RADIUS user; the poll then returns early, and the automatic login hands the unknown code out |
| `webhook_views.py:132` | run `subscription_two_periods` |
| `subscriptions/models.py:533-541` | two additions to `pending_balance`, or an addition and the clearing, lose an update, until the next settlement alone (`PendingBalanceIsUnsettledAmount` without `drift`) |
| `settlement_service.py:141` | two overlapping runs pay the same rows (`NoDoublePayout` without `Apart`) |
| `settlement_service.py:255` | a payout whose reply timed out, or whose process died before the commit, is paid again (`NoDoublePayout`, `PaidWithinShare` without `Unconfirmed`) |
| `payhero.py:443,498` | `int(amount)` sends less than the recorded `net_amount` |
| `subscriptions/serializers.py:310` | `bank_code` is not a critical field although the transfer uses it (line 239): a verified account number stays verified at another bank |
| `billing/tasks.py:17-74` | run `hotspot_tasks_idle`: both tasks query the public schema and swallow the error, so "Marks sessions as expired in the database" (line 24) and "This task cleans them up after 10 minutes" (line 50) do not come true |
| `webhook_views.py:66` | a callback without a result code counts as a success (`AccessNeedsPayment` without `Vouched`); the subscription's callback uses the same `parse_payload` |
| `hotspot_radius_service.py:78` | a string repeated 1024 times overflows `radreply.value`: no credentials for a plan with a speed (`ActiveSessionsCanAuthenticate` with `Speed = 5`) |
| `radius_sync_service.py:569` | the expiry of a hotspot user is written to the tenant's table only; with the cleanup task idle, a code or a paired device, once let in, is let in for ever |
| `cloud_portal_views.py:404` | the pairing answers "authorized" although creating the user reported failure; the status endpoint looks for a session of the device's own and never answers "authorized"; closing the buyer's session leaves the device's user; six-digit pairing codes may collide, the later request winning |
| `cloud_portal_views.py:234-256` | a paid session is "ready" before it has an access code |
| `hotspot_admin_views.py:143` | a disconnected session's code still logs in, and cleanup no longer selects it |
| `hotspot_views.py:305`, `webhook_views.py:236` | a sale completed by a poll records no commission; a repeated callback records two |
| `payhero.py:346` | a push whose reply timed out is failed while the customer may pay it |
| `subscriptions/models.py:405-408` | a crash between the two saves leaves a completed payment that extended nothing |
| `subscriptions/views.py:535` | a trial paid through a poll keeps `is_trial`; the next callback then resets its period |
| `subscriptions/models.py:263` | a cancellation that loaded the row before a payment completed saves the old period end; `cancel_at_period_end` is never read |
| `subscriptions/views.py:362-365` | a request changes the period before it is paid: with a yearly request pending, a monthly payment that completes adds a year |

*Subscriber access.*

| where | what happens |
|---|---|
| `radius/signals_auto_sync.py:163` | "RENEWAL when status changes from non-ACTIVE to ACTIVE": any save of an active service with disabled credentials renews them, without payment, and undoes the kill switch |
| `radius/signals_auto_sync.py:107` | of two overlapping requests the one that saves last may copy first: FreeRADIUS follows the other (`QuietTablesInStep` without `suspect`) |
| `radius_sync_service.py:432` | two concurrent disables insert two Reject rows; every later disable raises `MultipleObjectsReturned` |
| `radius_sync_service.py:586` | an extension that waited for an Expiration row another copy replaced inserts a second one |
| `customers/views/service_views.py:419-441` | two overlapping extensions add one; activating or renewing shortens a longer remaining validity |
| `radius/tasks.py:22` | the UTC expiry is read as Nairobi time: accounting is closed three hours early |
| `radius/tasks.py`, `radius_sync_service.py` | `process_expired_subscriptions` runs in the public schema and finds nothing; `sync_all_customers` filters on the property `is_active` (`FieldError`); `update_user_expiration` needs a unique index that is missing; `update_radius_user` rebuilds the public rows without Reject and Expiration, which readmits a disabled user; `regenerate_username` leaves the old user |
| `customers/views` | suspend and terminate answer 500 having done the job (`CustomerNotes.created_by` is null); extending without credentials raises `TypeError`; a login between a kick and the commit stays open; `delete_from_radius` saves and so re-creates the user until `post_delete` removes it |

*Router tunnels.*

| where | what happens |
|---|---|
| `vpn_provisioning_service.py:158-194` | addresses are unique per tenant, while the directory and the subnet are shared: the first router of each tenant gets 10.8.0.10, and two with the same id and name share one file ("Assign a unique VPN IP") |
| `ccd_manager.py:57` | "a router always gets the same VPN IP regardless of when or where it connects" (lines 12-13): opening the file empties it, and a full disk or a crash before the write leaves a provisioned router's file empty, its row as it was (`OwnAddressPushed` without `torn`) |
| `vpn_provisioning_service.py:190` | renaming a router changes the certificate name on the next provisioning, the old file stays |
| `vpn/models.py:107` | deleting a router leaves its file, and its certificate is still accepted (no revocation list), while its address is assigned anew |
| `router_views.py:1736` | `revoke_vpn` calls a method `CCDManager` does not have: it answers 400 and nothing is revoked at OpenVPN; `vpn_status` fails on the missing fields of a dataclass |
| `router_views.py:463` | a whole-row save loaded before another request's provisioning puts the old tunnel back, or re-creates a deleted router (`OwnAddressPushed` without `suspect`) |
| `vpn/views.py:616-681` | forcing a certificate revokes the row's without updating the router; `POST certificates` issues a second active one (`OneActiveCertificate` without `disturbed`) |
| `vpn/tasks.py:120-163` | the daily cleanup of orphaned files compares dicts with a set and raises, in the public schema |
| `certificate_service.py` | an inactive "Netily Cloud CA" blocks provisioning, concurrent first provisionings collide on it |
| `radius/signals_auto_sync.py:389-421` | the NAS row of a router whose address changes cannot be rewritten, and only the tenant's table is, which FreeRADIUS does not read |

## 6. Not modelled, and why

**Tables that hold one row.**  Twenty models (`InvoiceItemPayment`, `Payment`,
`Receipt`, `VoucherBatch`, `Voucher`, `VoucherUsage` of billing; `OLTDevice`,
`OLTPort`, `PONPort`, `ONUDevice`, `OLTConfig`, `ACSConfiguration`, `CPEDevice`,
`TR069Session`, `TR069Parameter`, `Subnet`, `VLAN`, `IPPool`, `IPAddress`,
`DHCPRange` of network) have `schema_name = SlugField(unique=True,
editable=False, default="default_schema")`, and nothing sets it.  A second row
in a tenant's schema violates the constraint, so two payments, vouchers or
addresses never meet: completing a payment fails on the second `Payment` that
`add_payment` creates, and the poll in `customer_payment_views.py:186-200`
calls `invoice.apply_payment`, which does not exist.  `Plan`, `BillingCycle`,
`Invoice` and `InvoiceItem` have lost the constraint in the model ("FIXED:
Removed unique=True", `billing_models.py:75, 267, 365-370, 507-512`), though
`billing/migrations/0001_initial.py` still creates it and no later migration
takes it away.  Without it a tenant has many invoices and still one payment, so
that the places where payments would meet, `payment_models.py:207`,
`billing_models.py:485` and `voucher_models.py:236`, are not reached twice;
should that constraint be lifted too, they are the first to model.  The billing
calculators are pure arithmetic that only these views use.

**Notifications.**  `tasks.py:84` and `send_scheduled_notifications.py:97` use
`models.F` without importing `models`, and `next_retry_at` is only set after a
retry, so nothing is ever retried; `process_alert_rules_task` runs in the public
schema and only stamps `last_checked`; an urgent notification is sent by the
signal on its creation and once more by the caller.  The rest is sending: I/O.

**Within modelled components.**  Hotspot plans, branding, the portal's reading
endpoints.  Payments of a subscription by paybill and bank: a row nobody
completes; its plan, which sets the price only.  Of subscriber access: raw
edits of RADIUS users, customer deletion, `regenerate_username`, services
without a plan, unlimited plans, several services of one customer, bandwidth
attributes, CoA packets.  Of router tunnels: certificate authorities, PATCHes of
certificate rows (which may set anything), `deprovision_router` and
`reprovision_router` (never called), scripts, the MikroTik and OpenVPN sockets.

**The rest**: messaging, self service, staff, support, inventory, bandwidth,
analytics, users and companies are CRUD, forms and reports whose rows do not
interact.  SMS, e-mail, bank, OLT, TR-069 and MikroTik clients are I/O.
Signature checks, phone formatting, logging and response bodies: no property is
about them.  These make up most of the repository, so the modules cover a small
share of its lines: the ones where two actors can disagree about money, access
or addresses.

## 7. Plan

Done, in this order: `Settlement` with `IspAccount`, `HotspotPayment`,
`CompanySubscription`; then `SubscriberAccess`, `RouterProvisioning`, billing
periods, device pairing, the proofs of section 4, the refinements of `PaidSale`
and the sums.

Left:

1. Raw edits of RADIUS users and customer deletion in `SubscriberAccess`, with
   an abstract table that admits or does not, refined when requests do not
   overlap.
2. Rows of certificate authorities in `RouterProvisioning`.
3. Composition of `HotspotPayment`'s callback with `Settlement`'s webhook
   client: the commission of a served sale reaches a payout.

## 8. Running

    tlc -config settlement_free.cfg MCSettlement
    tlc -config hotspot_sale.cfg MCHotspotPayment
    tlc -config subscription.cfg MCCompanySubscription
    tlc -config subscriber.cfg MCSubscriberAccess
    tlc -config router.cfg MCRouterProvisioning
    tlapm SettlementAccountProofs.tla
    tlapm HotspotPaymentProofs.tla

Operators named `X_Something` after an operator `X` are faulty variants of it:
substituted for `X`, each makes the property it was written for fail.
