-------------------------------- MODULE Ledger --------------------------------
(***************************************************************************)
(* The prepaid wallets of src/src/ledger.ts with the gateway processes     *)
(* that reserve and settle requests (inference.ts), the operator's         *)
(* reconciliation (scripts/reconcile-usage.ts), the maintenance pass that  *)
(* quarantines stale requests (worker.ts) and the bank's reversals.        *)
(*                                                                         *)
(* Every action is one database transaction. Each of them locks the        *)
(* account's wallet row before it reads it, so transactions on an account  *)
(* are serial.                                                             *)
(***************************************************************************)
EXTENDS Pricing, Totals

CONSTANTS
  Accounts, Orders, Requests,
  Owner,    \* the account an order belongs to
  TopUp,    \* what a credit purchase is worth (10_000_000 in billing.ts)
  Models,   \* the catalog
  Reports,  \* the usage counters an upstream or an operator may send
  NoUsage   \* settle() called with null

ASSUME LedgerAssumption ==
  /\ Owner \in [Orders -> Accounts]
  /\ TopUp \in Nat \ {0}
  /\ Models \subseteq ModelType
  /\ Reports \subseteq UsageType
  /\ NoUsage \notin Reports
  /\ IsFiniteSet(Orders) /\ IsFiniteSet(Requests)

Unused == [state |-> "unused"]   \* a request id not inserted yet

Held == {"reserved", "unknown"}   \* the states that keep their hold

VARIABLES
  wallets,    \* accounts with a row in table wallets
  balance, reserved, debt,      \* the columns of that row
  requests,   \* table requests
  stale,      \* requests created more than five minutes ago
  incidents,  \* "usage" and "stale-usage" incidents of each request
  reversed,   \* table credit_reversals, per order
  posted,     \* the unique sources of table ledger
  topups, usage, reversals,     \* sums of the ledger's rows by kind
  gateways    \* requests whose gateway handler is still running

wallet == <<wallets, balance, reserved, debt>>
book == <<posted, topups, usage, reversals>>
vars == <<wallet, requests, stale, incidents, reversed, book, gateways>>

ReservedRequest ==
  [state : {"reserved", "unknown", "settled"}, account : Accounts,
   model : Models, maxOutput : Nat, hold : Nat]

Source == ({"checkout"} \X Orders) \cup ({"request"} \X Requests)

TypeOK ==
  /\ wallets \subseteq Accounts
  /\ balance \in [Accounts -> Nat]
  /\ reserved \in [Accounts -> Nat]
  /\ debt \in [Accounts -> Nat]
  /\ requests \in [Requests -> ReservedRequest \cup {Unused}]
  /\ stale \subseteq Requests
  /\ incidents \in [Requests -> [{"usage", "stale-usage"}
                                   -> {"none", "open", "resolved"}]]
  /\ reversed \in [Orders -> 0 .. TopUp]
  /\ posted \subseteq Source
  /\ topups \in [Accounts -> Nat]
  /\ usage \in [Accounts -> Nat]
  /\ reversals \in [Accounts -> Int]
  /\ gateways \subseteq Requests

Init ==
  /\ wallets = {}
  /\ balance = [a \in Accounts |-> 0]
  /\ reserved = [a \in Accounts |-> 0]
  /\ debt = [a \in Accounts |-> 0]
  /\ requests = [r \in Requests |-> Unused]
  /\ stale = {}
  /\ incidents = [r \in Requests |-> [k \in {"usage", "stale-usage"} |-> "none"]]
  /\ reversed = [o \in Orders |-> 0]
  /\ posted = {}
  /\ topups = [a \in Accounts |-> 0]
  /\ usage = [a \in Accounts |-> 0]
  /\ reversals = [a \in Accounts |-> 0]
  /\ gateways = {}

-----------------------------------------------------------------------------
Least(m, n) == IF m < n THEN m ELSE n

\* Mutant: only the settlement raises an incident.
RaiseUsage(kind, r) ==
  incidents' = IF kind = "usage"
               THEN [incidents EXCEPT ![r][kind] = IF @ = "none" THEN "open" ELSE @]
               ELSE incidents

\* incident(): an incident whose key exists is left as it is, resolved or not.
Raise(kind, r) ==
  incidents' = [incidents EXCEPT ![r][kind] = IF @ = "none" THEN "open" ELSE @]

\* Money coming in repays the debt first.
Add(a, amount) ==
  LET repaid == Least(amount, debt[a])
  IN  /\ balance' = [balance EXCEPT ![a] = @ + amount - repaid]
      /\ debt' = [debt EXCEPT ![a] = @ - repaid]

\* Mutant: what is missing is forgiven.
Forgive(a, amount) ==
  balance' = [balance EXCEPT ![a] = @ - Least(amount, @)] /\ debt' = debt

\* Money going out is taken from the balance, and what is missing is a debt.
Take(a, amount) ==
  LET paid == Least(amount, balance[a])
  IN  /\ balance' = [balance EXCEPT ![a] = @ - paid]
      /\ debt' = [debt EXCEPT ![a] = @ + amount - paid]

\* credit(), as checkoutPaid calls it for a paid checkout; a second delivery
\* of the same checkout conflicts on the ledger's source and changes nothing.
Credit(o) ==
  LET a == Owner[o] IN
  /\ <<"checkout", o>> \notin posted
  /\ wallets' = wallets \cup {a}
  /\ posted' = posted \cup {<<"checkout", o>>}
  /\ Add(a, TopUp)
  /\ topups' = [topups EXCEPT ![a] = @ + TopUp]
  /\ UNCHANGED <<reserved, requests, stale, incidents, reversed, usage,
                 reversals, gateways>>

\* reverseCredit(): the target is the total the bank has taken back of an
\* order, and only an order that was credited is ever reversed.
ReverseCredit(o, target) ==
  LET a == Owner[o]
      delta == target - reversed[o]
  IN
  /\ <<"checkout", o>> \in posted
  /\ delta # 0
  /\ IF delta > 0 THEN Take(a, delta) ELSE Add(a, -delta)
  /\ reversed' = [reversed EXCEPT ![o] = target]
  /\ reversals' = [reversals EXCEPT ![a] = @ + delta]
  /\ UNCHANGED <<wallets, reserved, requests, stale, incidents, posted, topups,
                 usage, gateways>>

\* No request of the account waits for reconciliation.
Reconciled(a) ==
  \A r \in Requests : requests[r] # Unused /\ requests[r].account = a =>
    /\ requests[r].state # "unknown"
    /\ ~ (requests[r].state = "reserved" /\ r \in stale)

\* Mutant: the balance is checked without what is already reserved.
ReserveTwice(r, a, m, maxOutput) ==
  LET amount == MaximumPrice(m, maxOutput) IN
  /\ requests[r] = Unused
  /\ maxOutput \in 1 .. m.maxOutput
  /\ Reconciled(a)
  /\ a \in wallets /\ debt[a] = 0 /\ balance[a] >= amount
  /\ reserved' = [reserved EXCEPT ![a] = @ + amount]
  /\ requests' = [requests EXCEPT ![r] =
       [state |-> "reserved", account |-> a, model |-> m,
        maxOutput |-> maxOutput, hold |-> amount]]
  /\ gateways' = gateways \cup {r}
  /\ UNCHANGED <<wallets, balance, debt, stale, incidents, reversed, book>>

\* reserve(): the handler goes on to dispatch the request.
Reserve(r, a, m, maxOutput) ==
  LET amount == MaximumPrice(m, maxOutput) IN
  /\ requests[r] = Unused
  /\ maxOutput \in 1 .. m.maxOutput
  /\ Reconciled(a)
  /\ a \in wallets /\ debt[a] = 0 /\ balance[a] - reserved[a] >= amount
  /\ reserved' = [reserved EXCEPT ![a] = @ + amount]
  /\ requests' = [requests EXCEPT ![r] =
       [state |-> "reserved", account |-> a, model |-> m,
        maxOutput |-> maxOutput, hold |-> amount]]
  /\ gateways' = gateways \cup {r}
  /\ UNCHANGED <<wallets, balance, debt, stale, incidents, reversed, book>>

\* Mutant: the charge is not compared with the hold.
BillableUnbounded(r, u) ==
  /\ u # NoUsage
  /\ u.reasoning \in Nat
  /\ ValidUsage(u)
  /\ u.reasoning <= u.completion

\* The counters are usable: well formed, reasoning within the completion, and
\* at the rates of the reservation not above its hold.
Billable(r, u) ==
  /\ u # NoUsage
  /\ u.reasoning \in Nat
  /\ ValidUsage(u)
  /\ u.reasoning <= u.completion
  /\ UsagePrice(requests[r].model, u) <= requests[r].hold

\* Mutant: the hold is released.
QuarantineReleases(r, kind) ==
  /\ requests' = [requests EXCEPT ![r].state = "unknown"]
  /\ reserved' = [reserved EXCEPT ![requests[r].account] = @ - requests[r].hold]
  /\ Raise(kind, r)
  /\ UNCHANGED <<wallets, balance, debt, stale, reversed, book>>

\* Unusable usage keeps the hold until someone supplies better evidence.
Quarantine(r, kind) ==
  /\ requests' = [requests EXCEPT ![r].state = "unknown"]
  /\ Raise(kind, r)
  /\ UNCHANGED <<wallet, stale, reversed, book>>

\* The column constraint reserved >= 0 would abort the transaction.
Settled(r, u) ==
  LET a == requests[r].account
      charged == UsagePrice(requests[r].model, u)
  IN
  /\ requests[r].hold <= reserved[a]
  /\ Take(a, charged)
  /\ reserved' = [reserved EXCEPT ![a] = @ - requests[r].hold]
  /\ posted' = posted \cup {<<"request", r>>}
  /\ usage' = [usage EXCEPT ![a] =
       IF <<"request", r>> \in posted THEN @ ELSE @ + charged]
  /\ requests' = [requests EXCEPT ![r].state = "settled"]
  /\ incidents' = [incidents EXCEPT ![r] =
       [k \in DOMAIN @ |-> IF @[k] = "open" THEN "resolved" ELSE @[k]]]
  /\ UNCHANGED <<wallets, stale, reversed, topups, reversals>>

\* Mutant: a late answer settles again.
SettleAgain(r, u) ==
  /\ requests[r] # Unused
  /\ IF Billable(r, u) THEN Settled(r, u) ELSE Quarantine(r, "usage")

\* settle() on a request that is not final.
Settle(r, u) ==
  /\ requests[r].state \in Held
  /\ IF Billable(r, u) THEN Settled(r, u) ELSE Quarantine(r, "usage")

\* The gateway's handler ends: its finally block settles what it has.
GatewayEnds(r, u) ==
  /\ r \in gateways
  /\ gateways' = gateways \ {r}
  /\ \/ Settle(r, u)
     \/ /\ requests[r].state \notin Held
        /\ UNCHANGED <<wallet, requests, stale, incidents, reversed, book>>

\* The gateway process dies, or its settlement's transaction fails.
GatewayLost(r) ==
  /\ r \in gateways
  /\ gateways' = gateways \ {r}
  /\ UNCHANGED <<wallet, requests, stale, incidents, reversed, book>>

\* reconcile-usage.ts: the operator always has usage, and may be wrong.
OperatorReconciles(r, u) ==
  /\ u # NoUsage
  /\ Settle(r, u)
  /\ UNCHANGED gateways

\* Mutant: a request whose gateway may still answer is left alone.
QuarantineLost(r) ==
  /\ r \in stale \ gateways
  /\ requests[r].state = "reserved"
  /\ Quarantine(r, "stale-usage")
  /\ UNCHANGED gateways

\* quarantineStaleUsage(), for one of the stale reserved rows it selected.
QuarantineStale(r) ==
  /\ r \in stale
  /\ requests[r].state = "reserved"
  /\ Quarantine(r, "stale-usage")
  /\ UNCHANGED gateways

\* Five minutes pass for a request.
GrowsStale(r) ==
  /\ requests[r] # Unused
  /\ r \notin stale
  /\ stale' = stale \cup {r}
  /\ UNCHANGED <<wallet, requests, incidents, reversed, book, gateways>>

Next ==
  \/ \E o \in Orders : Credit(o)
  \/ \E o \in Orders, target \in 0 .. TopUp : ReverseCredit(o, target)
  \/ \E r \in Requests, a \in Accounts, m \in Models :
       \E maxOutput \in 1 .. m.maxOutput : Reserve(r, a, m, maxOutput)
  \/ \E r \in Requests, u \in Reports \cup {NoUsage} :
       GatewayEnds(r, u) \/ OperatorReconciles(r, u)
  \/ \E r \in Requests : GatewayLost(r) \/ QuarantineStale(r) \/ GrowsStale(r)

\* The maintenance pass runs every five minutes and time passes; nothing
\* obliges a gateway, an operator or a bank to act.
Fairness ==
  \A r \in Requests : WF_vars(QuarantineStale(r)) /\ WF_vars(GrowsStale(r))

Spec == Init /\ [][Next]_vars /\ Fairness

-----------------------------------------------------------------------------
\* Every wallet agrees with the ledger's rows, through settlements with
\* uncollectable remainders, reversals, and reversals taken back.
Conservation ==
  \A a \in Accounts : balance[a] - debt[a] = topups[a] - reversals[a] - usage[a]

\* An account never has a balance to spend and a debt at once.
BalanceOrDebt == \A a \in Accounts : balance[a] = 0 \/ debt[a] = 0

\* The holds of an account's unsettled requests.
Holds(a) ==
  [r \in {q \in Requests : requests[q].state \in Held
                          /\ requests[q].account = a} |-> requests[r].hold]

\* What a wallet reserves is what its unsettled requests hold: crashes, late
\* answers and quarantines neither leak a hold nor release one twice.
ReservedIsHeld ==
  \A a \in Accounts : reserved[a] = Total(Holds(a))

\* What was taken back of each of an account's orders.
ReversedOf(a) == [o \in {p \in Orders : Owner[p] = a} |-> reversed[o]]

\* The reversal rows of the ledger sum up to the cumulative targets, however
\* often and in whatever order refunds and disputes are delivered.
ReversalsMatch ==
  \A a \in Accounts : reversals[a] = Total(ReversedOf(a))

\* A debt comes from the bank's reversals alone: usage never exceeds what
\* was paid in, even for requests held when their money was taken back.
ReserveBacked ==
  \A a \in Accounts : debt[a] + reserved[a] <= balance[a] + reversals[a]

\* A request that blocks its account is on the operator's list, and a
\* settled one is off it, whichever of the two incidents came first.
QuarantineVisible ==
  \A r \in Requests :
    /\ requests[r].state = "unknown" =>
         \E k \in DOMAIN incidents[r] : incidents[r][k] = "open"
    /\ requests[r].state = "settled" =>
         \A k \in DOMAIN incidents[r] : incidents[r][k] # "open"

\* The hold taken when a request is dispatched covers every report of an
\* upstream that kept to the context and to the output limit it was sent
\* with, however its input splits into fresh and cached tokens: such a report
\* is billed, and blocks nobody's account.
HoldCoversUsage ==
  \A r \in Requests, u \in Reports :
    /\ requests[r].state \in Held
    /\ ValidUsage(u) /\ u.reasoning \in 0 .. u.completion
    /\ u.prompt <= requests[r].model.maxContext
    /\ u.completion <= requests[r].maxOutput
    => Billable(r, u)

\* Usage is charged by the one settlement of one request, which releases that
\* request's hold and charges no more than it; a settled request never
\* changes again, whoever answers late.
ChargedOnce ==
  [][/\ \A r \in Requests : requests[r].state = "settled" =>
            requests'[r] = requests[r]
     /\ \A a \in Accounts : usage'[a] # usage[a] =>
          \E r \in Requests :
            /\ requests[r].state \in Held /\ requests[r].account = a
            /\ requests'[r].state = "settled"
            /\ usage'[a] - usage[a] <= requests[r].hold
            /\ reserved'[a] = reserved[a] - requests[r].hold]_vars

\* A request whose gateway died does not stay reserved: it is settled or put
\* on the operator's list.
StaleResolved ==
  \A r \in Requests :
    requests[r].state = "reserved" ~> requests[r].state \in {"unknown", "settled"}

\* The promise made to the customer, with the wallet's columns read as it.
Net == [a \in Accounts |-> balance[a] - debt[a]]

Promise == INSTANCE PrepaidAccount WITH
  net <- Net,
  held <- reserved,
  withdrawn <- reversals

KeepsPromise == Promise!Spec
=============================================================================
