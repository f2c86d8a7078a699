# Sovereign Agent Cloud in TLA+

Models of the control plane of Sovereign Agent Cloud (`src/src/`), checked with
TLC on small instances, and proofs of its prices, its ledger, credit purchases, job
queue, the tenant's lifecycle, provisioning, checkout and machine for every instance,
checked with TLAPS. Paths below are relative to the repository kept in
`src/`; `PROJECT.json` maps every definition to the lines it models.

## 1. The system

A customer buys hosting (a subscription) and credit for managed models (single
payments) from Stripe. For each paying customer, a *tenant*, the control plane
creates a server at UpCloud, publishes its name in DNS, and suspends, resumes and
deletes it as the subscription goes. The inference gateway meters the requests of
tenants that use credit. Three kinds of processes share one PostgreSQL database:

| process | what it does |
|---|---|
| API (`main.ts`, `app.ts`, `inference.ts`) | portal, webhooks, bootstrap endpoint, inference gateway |
| worker (`worker-main.ts`, `worker.ts`) | maintenance every five minutes, then one job at a time |
| operator (`scripts/*.ts`) | reconciles usage, retries provisioning |

Everything that takes time goes through table `jobs`: a webhook, or maintenance,
inserts a row under a *key* that is unique for ever (`enqueue`), and workers claim
rows with a lease of ten minutes. Handlers call Stripe, UpCloud, Cloudflare and the
tenant's own agent between single writes of the database; any call may fail, or
succeed without being answered, and any process may die between two of them.

### Inventory

| component | state | operations | what is hard | what must hold | status |
|---|---|---|---|---|---|
| prices (`ledger.ts`) | – | `price`, `maximumPrice` | two roundings, two input rates | the hold covers the charge | `Pricing` |
| ledger (`ledger.ts`) | `wallets`, `ledger`, `requests`, `credit_reversals`, `incidents` | `credit`, `reverseCredit`, `reserve`, `settle`, `quarantineStaleUsage` | late and repeated answers, reversals under open holds | books balance, holds match requests, charged once, blocked accounts are visible | `Ledger` |
| gateway (`inference.ts`) | – | reserve, call upstream, settle | dies in between | no request stays reserved | part of `Ledger` |
| credit purchases (`billing.ts`) | `orders`, `stripe_events` | `receive`, `checkoutPaid`, `reversal` | order of notifications, stale answers | ends as Stripe has it | `CreditPurchases` |
| subscriptions (`billing.ts`) | `tenants.paid_until`, `grace_until` | `reconcileSubscription` | races with maintenance | resumed when paid | part of `Lifecycle` |
| job queue (`db.ts`, `worker.ts`, `worker-main.ts`) | `jobs` | `enqueue`, `tick` | lost leases, dying workers, exhausted attempts | no lost or doubled effect, every job ends | `JobQueue` |
| lifecycle (`worker.ts`) | `tenants`, the server | `suspend`, `resume`, `delete` | each a sequence of calls that may stop anywhere | the plan and the deadline survive, no race, nothing destroyed early | `Lifecycle` |
| maintenance (`worker.ts`) | – | the sweep | acts on what it has read | what lapses is taken down | part of `Lifecycle`, `Ledger`, `JobQueue` |
| provisioner (`provision.ts`) | `tenants`, the servers | `provision` | lost answers of a request that costs money | one server, none forgotten, encrypted | `Provisioning` |
| bootstrap (`app.ts`, `deploy/cloud-init.sh`) | `bootstrap_hash`, `bundle_cipher` | `POST /bootstrap/:id` | works once | the right bundle | part of `Provisioning` |
| retry script (`scripts/retry-provision.ts`) | – | adopt or reset, requeue | takes no lock | as the provisioner | part of `Provisioning`, `JobQueue` |
| UpCloud adapter (`providers/upcloud.ts`) | the provider's | `find`, `create`, `stop`, `start`, `park`, `destroy`… | power changes take time | – | actions of `Lifecycle`, `Provisioning` |
| checkout, orders, cohort (`app.ts`, `billing.ts`, `worker.ts`) | `orders`, `tenants` | `POST /api/checkout`, `checkoutFor`, abandoned orders | races of a payment, or a second request, with the clean-up; last places | no more members than places, one open checkout, every order settles | `Checkout` |
| tenant operations (`tenant/main.ts`, `deploy/export.sh`) | lock file, containers, a setting | backup, export, suspend, resume, prepaid | exclusion across processes, calls given up that go on, death in the middle | a suspended agent stays down, a served one comes up | `TenantHost` |
| tenant bootstrap (`tenant/bootstrap.ts`) | restart policy, onboarding | written once | – | – | part of `TenantHost` |
| backups (`backup.ts`) | objects | take, remove | the archive it asks for | – | the archive, in `TenantHost` |
| tenant access (`tenant/*.ts`) | tickets, sessions, device binding | exchange, proxy, approve | one-time use | – | a suspended agent's sessions, in `TenantHost` |
| authentication (`auth.ts`) | `login_tokens`, `sessions` | login, logout | one-time use | – | not modelled |
| configuration, cryptography, pages, reports | – | – | – | – | not modelled |

The hazards of this code, each at its line with the properties that would show it
going wrong, are listed in `PROJECT.json`.

## 2. The modules

```
CreditPurchases --(refines)--> Ledger --(refines)--> PrepaidAccount
      |                        /  |  \
      |                 Pricing   |   Totals
      |                    |      |
      |         PricingProofs --> LedgerProofs
      v
CreditPurchasesProofs

JobQueue ------> JobQueueProofs           Checkout ----> CheckoutProofs
Lifecycle -----> LifecycleProofs          TenantHost --> TenantHostProofs
Provisioning --> ProvisioningProofs
```

`MC*` modules give names and inputs to the instances. Operators whose comment
begins with "Mutant" are variants of a definition with a plausible bug, used only
to confirm that a property notices it.

**Pricing** – `price` and `maximumPrice` on exact integers. A report is a record of
four counters, of which a wrong upstream may send any integers; `ValidUsage` is
the check of the code. It has no state of its own and is checked in `Ledger`.

**Ledger** – one action per transaction: `Credit`, `ReverseCredit`, `Reserve`,
`Settle` (through `GatewayEnds` and `OperatorReconciles`), `QuarantineStale`. The
row locks the transactions take first make each atomic. `wallets` is the set of
accounts with a row; `requests[r]` is its row, with the model's rates as saved by
`reserve`; the ledger's rows are kept as `posted` (the unique `source`s) and their
sums by kind; `stale` are requests older than five minutes; `gateways` are the
requests with a process still working on them, which may answer at any time or
die (`GatewayLost`). Reversals accept any cumulative target, so that refunds and
disputes, won or lost, in any order are covered.

**PrepaidAccount** – what a customer is promised: what they have (balance minus
debt) goes up by deposits and down by what the bank takes back, and by charges
that fit in something held for them before; holds are taken only from what they
have. `Ledger` implements it with `net <- balance - debt`, `held <- reserved`,
`withdrawn <- reversals`.

**JobQueue** – the rows of `jobs` with their lease, token, backoff and attempts,
and workers between the steps of `tick`: claim, handle, mark done; or handle, give
back, report, give up. `LeaseRunsOut` is the ten minutes passing without a
keepalive, which is possible only when the process is dead or was held up
(`LeaseLost`); `Keepalive` of a process that was held up may take the lease back
if no other has claimed it. `stuck` are workers whose `maintenance()` throws in
each cycle. What a job does is a tenant that is installed or failed.

**Lifecycle** – one tenant, from its first service to its deletion: the row, the
server (power and plan), Stripe's subscription, a clock, the keys ever queued,
the sweep of maintenance between its read and its writes, and handlers, a step per
call. Choices made:

- Days are units of the clock; one unit is longer than a day, so that the key of
  the daily parking job (`park:<tenant>:<date>`) is one key that becomes free
  again. All other keys are used once, as in the code.
- The attempts of a job are `JobQueue`'s matter; here a job that fails is tried
  again, without a limit.
- `reconcileSubscription` is one step: its advisory lock keeps others off, and the
  row it writes is locked. It reads Stripe before it writes; what changes at
  Stripe in between comes with a notification of its own.
- Calls to the tenant's agent and the final backup on the way down change nothing
  here and stop nothing, as their failures are caught. `support` may start a
  parked server; a resumption may not wake a server whose agent does not answer.
- A server's power changes take time (`stopping`, `starting`), and the adapter's
  refusals while they do are failures of the handler.

**Provisioning** – one tenant from its payment to its first service. The handler
runs under the tenant's advisory lock, so there is one; another worker that claims
the job, after a lost lease or a requeue, finds the lock held and fails
(`FindsBusy`), and the handler, whose row no longer has its token, can still report
its failure under the number of its own attempt but not mark the job done. The
operator's script takes no lock and interleaves. A request, its bootstrap token, its bundle and its
inference key carry one number. An answer may be lost while the server is made
(`Arrives` after `Fails` or `Crashes`), the provider may refuse explicitly
(`Rejected`), a server may come with plain disks, its bundle's answer may be lost.
The operator passes `--confirmed-no-provider-resource` only as
`docs/OPERATIONS.md` demands, "after proving the original operation did not create
a VM" (`ProvedAbsent`: the attempt is over and came to nothing).

**CreditPurchases** – one purchase: Stripe's checkout, charge and dispute change
and notify; `Receive` turns a notification into one job; handlers ask Stripe again
for the session, the charge and its disputes, a step per call, and write the
ledger. Parts of the purchase can be refunded (`Full` parts). A process that has lost
its lease goes on with the job another has claimed (`Begin`), and only the one whose
token the row has (`holds`) marks it done. What the handlers write is to be the
transactions of `Ledger`: under the mapping at the end of the module (one account, one
order, no requests, the wallet's columns computed from `credited` and `reversed`) every
step is `Ledger`'s `Credit` or `ReverseCredit` or leaves the books alone
(`BooksAsLedger`).

**Checkout** – the rows of `tenants` and `orders` before provisioning, Stripe's
checkout sessions and the subscriptions they start, the owners' requests and the
clean-up. A request is a process (`call[c]`): its transaction holds the row of its
account from `Asks` and the cohort's advisory lock from `Counts` to its end, reads
its tenant without locking it, and inserts a tenant with an order (`Joins`), or looks
for a pending order (`FindsOrder`) and inserts one if it saw none (`MakesOrder`); then
`checkoutFor` looks at the order's session (`LooksUp`) and, if that has expired, looks
for another pending order (`Replaces`) or closes this one and inserts the next
(`Renews`), or asks Stripe for a session (`Creates`) and saves it (`Saves`), a step
each, and may stop after any (`CallFails`). Choices made:

- Transactions are READ COMMITTED, PostgreSQL's default, which `db.ts` leaves as it is.
  The SELECT of a pending order and the INSERT that rests on it are therefore two steps:
  the transaction of `POST /api/checkout` holds the account's row, that of
  `checkoutFor` the row of the expired order (`Held`), and no index on `orders` keeps
  them apart. `Renews` waits for the account's row, to which the new order refers, but
  what it has read may be old by then. A statement and the commit that follows it are one
  step.
- Of several pending orders a request may take any: `created_at` is when a transaction
  began, not when it inserted.
- Transactions that wait for each other are ended by the database, one of them with an
  error: `CallFails` or `SweepFails`.
- A session has its order's number, as the idempotency key `checkout:<order>`
  returns the same one. Stripe forgets keys after a day, so an *old* order whose
  session was not saved and has expired may be given another.
- A subscription is `complete` until it has `ended`. Its reconciliation is one step
  (`Reconciled`): it locks the tenant's row before it writes, and what Stripe tells it
  is monotone here.
- Clean-up reads an order and asks Stripe in one step, and writes in another.
  (What is read first can only be stale in one way, a `checkout_id` saved
  afterwards, and then the order is handled as unsaved, as in the code.)
- Owners pay only for checkouts whose address they were given, which is when they
  are saved.

**TenantHost** – the machine of one tenant: the agent's container, which Docker
restarts *unless it was stopped by hand* (`gateway.byHand`), the access service's
setting `suspended`, its file lock, and calls in their steps: archives (`export.sh`:
inspect, stop, copy, start again), suspensions, resumptions, the prepaid
configuration (which takes no lock), and the owner's onboarding command. `plane` is
the control plane's job that makes the calls: it may stop waiting for one
(`Abandons`), which then goes on at the machine. `down` and `lost` are history
variables: that a suspension was confirmed, and that whoever stopped the container
will not start it again. When jobs run is the matter of `Lifecycle` and
`Provisioning`; here the plane starts any that its state allows.

## 3. What is checked

Deadlock is checked in `ledger`; the other systems really come to rest (all jobs
done, tenant deleted, bounds used up), so that it is not checked there. Every state
machine's type invariant is proved, and takes up no run.

| run | bounds | properties | result |
|---|---|---|---|
| `ledger` | one account, two purchases of 3, two requests, two catalogs' models, valid, zero, excessive and malformed reports | `Conservation`, `ReservedIsHeld`, `ReserveBacked`, `QuarantineVisible`, `HoldCoversUsage`, `ChargedOnce`, `KeepsPromise`, `StaleResolved` | hold |
| `jobqueue` | two workers, two jobs, two attempts, one death or lost lease, one requeue | `OverlapOnlyAfterLoss`, `SupersededIsHarmless`, `StaysInstalled`, `ReportedUnlessCrashing`, `JobsEnd` | hold |
| `lifecycle` | two workers, periods ending at 1 and 3, one failure | `PlanIsSaved`, `ServesOnItsPlan`, `NoRace`, `RetentionKept` | hold |
| `lifecycle_ends` | one worker, one period, one failure | `FirstLapseParks`, `FirstRetentionEnds` | hold |
| `lifecycle_recovers` | one worker, two periods, a longer grace | `FirstRecoveryServes` | hold |
| `provisioning` | three requests, four attempts, two faults, two interventions | `OneServer`, `NoOrphan`, `PublishedIsEncrypted`, `ServedIsWhole`, `AmbiguityReported`, `InstalledServes`, `LapseReported` | hold |
| `credit_purchases` | two workers of which one decides at a time, a purchase of one part, one failure or lost lease | `CreditSettles`, `ReversalSettles`, `BooksAsLedger`, `EndsAsStripeHasIt` | hold |
| `checkout` | two accounts, two requests at a time, one place, two tenants, two orders | `CohortKept`, `OneCheckoutOpen`, `ReservationHasOrder`, `CleanUpSparesPayers`, `OrderSettles` | hold |
| `tenant_host` | three calls at a time, one crash | `SuspendedStaysDown`, `ServedIsUp`, `ArchiveIsQuiet`, `PauseEnds` | hold |
| `lifecycle_unparked` | one worker, one period | `UnpaidIsParked` | violated |
| `lifecycle_half_deleted` | one worker, one failure | `SuspendedKeepsServer` | violated |
| `jobqueue_stuck` | one worker | `JobsEnd` | violated |

**Why the bounds suffice.** Two requests and two purchases on one account are what
the transactions of a wallet can interfere with; the proofs below cover any
number. Two workers are enough for a lease to be lost and taken over, two attempts
for a first and a last one (the code's 5 and 20 are `ReportFrom` and
`MaxAttempts`). In `lifecycle` the clock and the two periods allow a lapse
with grace, a suspension, a deletion, or a recovery and a second lapse by
cancellation, with handlers that stop at any step; a third period repeats the
second. Once the clock has reached `MaxNow`
it stands still: it stands for a customer whose situation does not change any
more, which is what the liveness properties ask about. In `provisioning` three
requests let a refused or lost one be followed by another, and a third would show
a second server; attempts are more than faults (a second worker's claim is one), so
that some try is undisturbed. In `credit_purchases` a refund, a dispute and its end
raise and lower what is due by turns, each with a notification of its own, which is
what an older answer can be confused with; one of two workers may take the job of the
other. With one worker, two parts and two failures, as `compose.yml` has it, the same
properties were checked once (370,000 states).
In `checkout` the second account takes the place the first may lose, the second
request interleaves with the first of the same owner or of the other, and the second
order replaces the first (221,285 states). The safety properties, and the invariants of
their proofs, were also checked once with three orders (7.2 million states), and with
one account, one tenant and four orders (541,108 states), where requests that were
overtaken by a payment insert an order each. In `tenant_host` three calls are the control plane's,
one it has given up, and the owner's.

**Fairness.** Weak fairness of each worker's steps, of maintenance, of the passing
of time (`GrowsStale`, `LeaseRunsOut`, `BackoffEnds`, `Tick`) and of changes a
provider has begun: `worker-main.ts` loops for ever under its container's restart
policy, every call carries a timeout, and maintenance comes round every five
minutes. Stripe delivers a notification until it is answered (`Receive`). In
`Lifecycle` a job of each kind is begun if it can be again and again (strong
fairness: the queue serves the job that waits longest, a job that fails backs off,
and the lock is free between handlers). In `Checkout` sessions expire (Stripe's
default is a day), orders grow old, clean-up comes round for an order that stays
abandoned (strong fairness: other orders come and go in the same pass, and
the row lock is free between transactions), and a clean-up that is begun again and
again does not fail each time; a request's transaction commits or is rolled back
(`Transacting`), so that its locks are not held for ever. In `TenantHost` the steps of a call go on
under their timeouts; the onboarding command, which waits for its owner, need not.
Nothing is assumed of customers and their requests, of what Stripe decides, of
gateways, of operators, or of failures, which are bounded.

**What does not hold**, with the code's lines in `PROJECT.json`:

1. `lifecycle_unparked`: a suspension job that starts just after Stripe moved the
   subscription to `past_due` finds a grace period and returns; its key
   `suspend:<tenant>:<paid_until>` is used up, `paid_until` does not move, and
   when the grace ends nothing suspends the tenant. The code promises less,
   `FirstLapseParks`, which holds.
2. `lifecycle_half_deleted`: `suspend` marks the row `suspended` whatever it was;
   a parking job behind a deletion that stopped half-way marks a tenant without a
   server as suspended. The deletion is tried again, unless a payment
   arrives first: then a resumption is tried, and can only fail.
3. `jobqueue_stuck`: with one worker, an exception in `maintenance()` (Stripe not
   finding an abandoned order's checkout is one) keeps all jobs from being tried,
   and the heartbeat goes on. With two workers, only one of them stuck, `JobsEnd`
   holds (run `jobqueue`).

**What the properties leave out**, because the code does not provide it:

- `ReversalSettles` and `EndsAsStripeHasIt` hold while no two handlers are between
  their read of a charge and their reversal at once (`OneDecides`), so with the one
  worker of `compose.yml`. With two that are, a reversal decided from an older answer
  of Stripe may overwrite a newer one; `reverseCredit` locks the wallet, but its target
  was read before. The run's specification, `OneDecidesSpec`, leaves such pairs out.
  `CreditSettles` and `BooksAsLedger` hold with them, too.
- `LapseReported`: a tenant that lapses while it is being provisioned keeps its
  server. No suspension or deletion starts from `provisioning`, so the job's
  failures, reported from the fifth on, are all that ends it.
- `CohortKept` excludes accounts that paid after their reservation was cleaned up,
  whose place may be taken; their tenant is `deleted`, and neither provisioned nor
  reported. `CleanUpSparesPayers` says who is safe from that: whoever had a checkout
  that clean-up knew of. (It reads `checkout_id` before it locks the row, and a request
  that began before may offer a checkout for the tenant afterwards.)
- `OrderSettles` excludes a subscription that ended before it was first reconciled: its
  tenant holds its place in `pending_payment` for good, since a complete checkout is
  neither shown again nor cleaned up. It counts as settled an order that is reported as
  a second subscription, which a request that read its tenant just before the
  payment was reconciled can make.
- `OneCheckoutOpen` speaks of tenants that wait for payment; for them every request sees
  some pending order. Requests that began before the payment was reconciled may do worse
  together than one alone: one is about to replace an order whose session expired, another
  has read the tenant as `pending_payment`; the order that a third made is paid; each of
  the two sees nothing pending, and each inserts an order. The provisioning tenant then
  has two pending orders and may have two open checkouts. (With one account, one tenant and
  four orders TLC finds this in 28 states when the condition is dropped.) No check in the
  code prevents it; a payment for one of them is a second subscription, reported as
  `duplicate_subscription`.
- `ServedIsUp` and `PauseEnds` exclude what was `lost`: an archive that dies with the
  container stopped, by a crash of the service or of the machine, or a suspension that
  was given up and carried out later. Nothing starts that agent again before the
  next resumption, archive or restart; maintenance reads only the disk and the
  configuration from the machine's status.
- `ArchiveIsQuiet` excludes the prepaid call, which restarts the agent without
  the lock, and `SuspendedStaysDown` a suspension confirmed while such a call, or a
  resumption that was given up, is still under way.

## 4. What is proved

`tlapm` checks these theorems for every value of the constants.

**Prices** (`PricingProofs`). `HoldCovers`: for all rates, limits and reports within
the limits, `UsagePrice <= MaximumPrice`. `RoundsUpOnce`: what is paid is the cost
with its margin, rounded up by less than a micro-euro. The cost is monotone in each counter and
rate (`ProductMonotone`); replacing both input rates by the dearer one can only
raise it, and makes the split between fresh and cached input irrelevant; rounding
up is monotone (`CeilMonotone`).

**Sums** (the first lemmas of `LedgerProofs`). A wallet's `reserved` is a sum over its requests. `Total`
writes a sum of natural values as the size of a finite set of units, so that the
library's theorems on cardinality give what is needed: `TotalChange`, changing one
value changes the sum by as much.

**Ledger** (`LedgerProofs`), from `LedgerAssumption` alone: finite sets of orders and
requests, each order with an owner, a positive top-up, models and reports of the
right types. The inductive invariant `Invariants` is the conjunction of the checked
invariants and three more:

- `PostedIsSettled`: the row `request:<id>` is in the ledger only for settled
  requests. Without it `Settle`'s `ON CONFLICT DO NOTHING` could skip the row of
  usage the wallet was charged for, and `Conservation` would not be inductive.
- `HoldsPriced`: a hold is `maximumPrice` of the request's own model and limit, which
  with `HoldCovers` gives `HoldCoversUsage`.
- `ResolvedIsSettled`: only a settled request has resolved incidents. Without it
  quarantining could meet a key that was used and resolved, and raise nothing.

`StepKinds` sorts the actions by what they do to the money (charge, quarantine,
credit, reverse, reserve, nothing), and the lemmas `StepMoney`, `StepReserved`,
`StepReversals`, `StepVisible` show each part of the invariant for each kind.
From `LedgerInvariants` follow `LedgerTypeOK`, `LedgerConservation`,
`LedgerBalanceOrDebt`, `LedgerReservedIsHeld`, `LedgerReversalsMatch`,
`LedgerReserveBacked`, `LedgerQuarantineVisible` and `LedgerHoldCoversUsage`; `LedgerChargedOnce`, an action
property; and `LedgerKeepsPromise`, that every step of the ledger is a step of
`PrepaidAccount` or leaves it alone.

**Credit purchases** (`CreditPurchasesProofs`), for any number of workers, parts,
failures and lost leases. `CreditPurchasesCreditSettles` needs more than it says: that a
payment not yet credited has, among the notifications not done, one whose handler, if
it has one, has not found the checkout unpaid (`CreditOwed`); that a job is held by one
process at most, and by none once it is done (`BusyHasJob`); and that no step comes before
the credit it relies on (`StepKnows`, `LedgerKnows`). `ReversalInvariant` and
`CreditPurchasesReversalSettles` are proved of behaviours in which `OneDecides` always
holds: a handler about to write an older answer has behind it a notification whose
handler has yet to ask (`StaleCovered`), and a purchase that is not reversed as is due
has one left that is not at its end (`ReversalOwed`). `StaleCovered` is not inductive
without `OneDecides`: of two handlers past their read one can be overtaken by the very
notification that was to cover it. `OneWorkerReversalSettles` replaces the condition by
`compose.yml`'s one worker; for two, nothing in the code provides it.
`CreditPurchasesBooks` is the refinement of `Ledger`, step by step and without that
condition: the first credit is `Ledger`'s `Credit`, as nothing is reversed before it, a
reversal to another target its `ReverseCredit`, as only a credited purchase is
reversed, and everything else leaves the books alone.

The other components' constants are any natural numbers and finite sets, as each
module's assumption says; every invariant is proved by one step per action, and
under it one per conjunct that the action can disturb.

**Job queue** (`JobQueueProofs`), for any workers, jobs, attempts and faults.
`JobQueueTypeOK`, `JobQueueOverlap`, `JobQueueReported`, `JobQueueSuperseded` and
`JobQueueInstalled` rest on `IInv`: a worker that is not idle has a job
(`BusyHasJob`); no two workers at work share a token (`TokensDistinct`); a worker that
has not lost its lease holds its job's row (`LiveHolds`), so that two can work on one
job only if one of them lost it; and each attempt that went unreported, of those
since the job was last queued, cost a fault (`Accounted`), which
`ReportedUnlessCrashing` needs because a row does not say which attempts reported.

**Tenant's machine** (`TenantHostProofs`), for any number of calls and crashes.
`TenantHostSuspended` and `TenantHostArchive` follow from `IInv`: turns at the file lock are
exclusive (`TurnsHeld`); the control plane waits for the call of its job's step
(`WaitsForItsCall`), and that step fits the tenant's state (`StepsInOrder`); nothing runs on
a machine that is off (`OffIsQuiet`); and while a suspension is confirmed, no call that
would start the gateway again is under way (`DownHolds`). `TenantHostServed` adds
`UpHolds`: the setting is cleared before the tenant is served, and from the resumption's
start of the gateway on it runs, or is stopped by an archive in its turn, or is lost.

**Lifecycle** (`LifecycleProofs`), for any workers, periods and retention, with the
assumption that the tenant has been paid for once when it begins to serve.
`LifecycleNoRace`, `LifecyclePlanIsSaved`, `LifecycleServesOnItsPlan` and
`LifecycleRetentionKept` rest on the advisory lock (`Locked`: at most one handler is past
it), on what a handler between two steps may rely on, though the row, the clock and the
sweep move on (`HandlerKnows`), and on the order of its stamps (`StampsKnown`).

**Provisioning** (`ProvisioningProofs`), for any number of requests, tries and faults.
`ProvisioningOneServer`, `ProvisioningNoOrphan`, `ProvisioningPublished` and
`ProvisioningServedIsWhole` rest on: of all requests ever sent one at most is still alive
(`OneLive`); a request is sent only by a handler that saved its attempt first (`Asking`), and
an attempt is dropped only once nothing can come of it (`SureOfNothing`); what was
created is recorded or can be found (`Recorded`); and bundle, key, DNS record and row
belong to one request at each step of the handler (`BundlesMatch`, `DoneFor`, `Served`).
Two more say what the other modules take from this one: a job that is done has served
its tenant (`ProvisioningDoneServes`, `JobQueue`'s `HandlerReturns`), and a tenant that is
served stays so, through late attempts and the operator's script
(`ProvisioningStaysServed`, where `Lifecycle` begins): the one step that would set it back,
a new attempt, is taken only where no request is alive.

**Checkout** (`CheckoutProofs`), for any accounts, requests, tenants, orders and places.
`CheckoutReservationHasOrder` follows from the links between the rows (`Linked`) and what
requests and clean-up remember (`CallsKnow`, `SweepKnows`). `CheckoutCohortKept` needs
more, as a request counts the places in one step and takes one in another: the holder of
the cohort's lock is alone (`Exclusive`), and the accounts that hold a place, or are about
to take the one they counted, less those that paid late, are never more than the places
(`PlacesKept`). A payment adds no one: its tenant held the place, or was cleaned up
and its order is `Late` (`PaidFor`). `CheckoutOneOpen` and `CheckoutSparesPayers` follow
from `Offers`: a tenant that waits for payment has one order pending at a time
(`SinglePending`), an order that is closed cannot be paid for while its tenant is there
(`ClosedAt`), and what clean-up has read of an order holds for as long as that is pending
(`SweepSure`). That a request inserts what an older read told it to is the hard case:
`ReadsHold` says that while the tenant waits for payment the read still holds. A request
that inserts for such a tenant has seen no pending order, which cannot be
(`ReservationHasOrder`), and one that replaces an order has seen no other, which stays
true because whoever else inserts replaces that same order, whose row it holds. When
the tenant is paid for, this ends, and with it the claim.

Only model-checked: liveness (`StaleResolved`, `JobsEnd`, `FirstLapseParks`,
`FirstRetentionEnds`, `FirstRecoveryServes`, `AmbiguityReported`, `InstalledServes`,
`LapseReported`, `EndsAsStripeHasIt`, `OrderSettles`, `PauseEnds`), as the prover has no
rules for fairness that would serve, nor for ENABLED. Every invariant and action
property of a passing run, and both refinements, are proved.
Facts by induction over data are out of the prover's reach too; no definition here is
recursive.

## 5. What is not modelled

- Authentication (`auth.ts`), access tickets and device bindings (`tenant/tickets.ts`,
  `session.ts`): each use is one statement that deletes or reads a row, so that
  there is nothing to interleave.
- The objects of backups and of the control plane's dump: calls in sequence, whose
  retention (the last seven) is a slice of a list.
- Orders of credit in `checkoutFor`, the statements inside a transaction that
  holds its row locks from the start, and the tenant's files and firewall.
- The backoff's length, the 20 attempts, the days of grace and retention are constants.
- `scripts/tenant-update.sh`, which an operator runs on a tenant's machine: it stops and
  starts the agent under the operation lock that archives, suspensions and resumptions
  take, and restores the previous image if the new one fails.
- Configuration, cryptography, migrations, reports, static pages and the scripts that
  build a tenant's machine keep no state that changes under concurrency.
- Provisioning, lifecycle and the machine are separate modules, which meet in the
  tenant's state: `Checkout` ends where `Provisioning` begins, `Provisioning` ends with
  the service `Lifecycle` begins with, and `TenantHost` lets its control plane do what
  any of them may. A product of them would add interleavings of steps that a tenant's
  advisory lock keeps apart.

## 6. What could come next

1. `LedgerTx` – the statements of the ledger's transactions with their row locks,
   shown to implement `Ledger`; deadlock of the lock orders.
2. An abstract life of a tenant (its states, and whether it has a server) of which
   `Checkout`, `Provisioning` and `Lifecycle` implement their parts.

## 7. Running it

```
tlc -config MCLedger.cfg MCLedger
tlapm LedgerProofs.tla        # and each other *Proofs module
```

Each configuration names the module of the same prefix (`MCLifecycleEnds.cfg`
belongs to `MCLifecycle`, `MCProvisioning.cfg` to `Provisioning`). The longest
runs, `credit_purchases`, `ledger`, `checkout`, `lifecycle_ends` and `provisioning`,
take about two minutes with two threads.
