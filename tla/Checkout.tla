------------------------------- MODULE Checkout -------------------------------
(***************************************************************************)
(* Places of the founding cohort and the orders that pay for them: POST    *)
(* /api/checkout (src/src/app.ts), whose transactions and whose calls of   *)
(* Stripe may interleave with other requests of the same owner; Stripe's   *)
(* checkout sessions; the reconciliation of a subscription (billing.ts);   *)
(* and the daily clean-up of abandoned orders (worker.ts), which locks an  *)
(* order only after it has asked Stripe about it.                          *)
(*                                                                         *)
(* Transactions are READ COMMITTED: a SELECT and the INSERT that rests on  *)
(* it are steps of their own wherever others may commit in between.        *)
(*                                                                         *)
(* An order has one session, named by its idempotency key; the             *)
(* subscription that a session starts has the session's number.            *)
(***************************************************************************)
EXTENDS Naturals, FiniteSets

CONSTANTS
  Accounts, Calls,
  Places,        \* MAX_TENANTS
  MaxTenants, MaxOrders    \* bounds: rows in the tables

ASSUME CheckoutAssumption ==
  /\ Places \in Nat /\ MaxTenants \in Nat /\ MaxOrders \in Nat

None == 0
Tenants == 1 .. MaxTenants
Orders == 1 .. MaxOrders

VARIABLES
  tenant,     \* rows of table tenants, and whether a provision job was queued
  order,      \* rows of table orders; saved: has a checkout_id, and its owner the
              \* address of the checkout; old: made more than a day ago
  session,    \* each order's checkout at Stripe; ended: its subscription is too
  call,       \* the requests for a checkout, with what they have read
  sweep,      \* the clean-up of one abandoned order, with what it has read
  incidents   \* subscriptions reported as duplicate_subscription

vars == <<tenant, order, session, call, sweep, incidents>>
rows == <<tenant, order>>

Idle == [pc |-> "idle", account |-> None, tenant |-> None, order |-> None, saved |-> FALSE]
NoSweep == [order |-> None, saved |-> FALSE]

TenantRows ==
  [state : {"unused", "pending_payment", "provisioning", "deleted"},
   account : Accounts \cup {None}, sub : Orders \cup {None}, job : BOOLEAN]
OrderRows ==
  [state : {"unused", "pending", "paid", "expired"},
   tenant : Tenants \cup {None}, saved : BOOLEAN, old : BOOLEAN]
Requests ==
  [pc : {"idle", "counting", "joining", "ordering", "inserting",
         "opening", "replacing", "renewing", "saving"},
   account : Accounts \cup {None}, tenant : Tenants \cup {None},
   order : Orders \cup {None}, saved : BOOLEAN]

TypeOK ==
  /\ tenant \in [Tenants -> TenantRows]
  /\ order \in [Orders -> OrderRows]
  /\ session \in [Orders -> {"none", "open", "complete", "expired", "ended"}]
  /\ call \in [Calls -> Requests]
  /\ sweep \in [order : Orders \cup {None}, saved : BOOLEAN]
  /\ incidents \subseteq Orders

Init ==
  /\ tenant = [t \in Tenants |->
       [state |-> "unused", account |-> None, sub |-> None, job |-> FALSE]]
  /\ order = [o \in Orders |->
       [state |-> "unused", tenant |-> None, saved |-> FALSE, old |-> FALSE]]
  /\ session = [o \in Orders |-> "none"]
  /\ call = [c \in Calls |-> Idle]
  /\ sweep = NoSweep
  /\ incidents = {}

Active(t) == tenant[t].state \in {"pending_payment", "provisioning"}
Pending(t) == {o \in Orders : order[o].tenant = t /\ order[o].state = "pending"}

\* The next row of a table.
NewTenant(t) == \A s \in Tenants : (tenant[s].state = "unused") <=> (s >= t)
NewOrder(o) == \A p \in Orders : (order[p].state = "unused") <=> (p >= o)

-----------------------------------------------------------------------------
(* The transaction of a request. It holds the row of its account, and from   *)
(* the count of the places on the cohort's advisory lock, to its end; it has *)
(* no lock on the orders that it reads.                                      *)

Goto(c, r) == call' = [call EXCEPT ![c] = r]
InTransaction ==
  {c \in Calls : call[c].pc \in {"counting", "joining", "ordering", "inserting"}}

\* Its tenant is read without a lock. ALREADY_SUBSCRIBED changes nothing.
Asks(c, a) ==
  /\ call[c].pc = "idle" /\ \A d \in InTransaction : call[d].account # a
  /\ \/ \E t \in Tenants :
          /\ tenant[t].state = "pending_payment" /\ tenant[t].account = a
          /\ Goto(c, [Idle EXCEPT !.pc = "ordering", !.account = a, !.tenant = t])
     \/ /\ \A t \in Tenants : Active(t) => tenant[t].account # a
        /\ Goto(c, [Idle EXCEPT !.pc = "counting", !.account = a])
  /\ UNCHANGED <<rows, session, sweep, incidents>>

\* Whoever has a tenant, or has paid for one before.
Members ==
  {tenant[t].account : t \in {s \in Tenants :
     Active(s) \/ \E o \in Orders : (order[o].tenant = s /\ order[o].state = "paid")}}

\* Mutant: the cohort's lock is not taken.
CountsUnlocked(c) ==
  /\ call[c].pc = "counting"
  /\ Goto(c, IF call[c].account \in Members \/ Cardinality(Members) < Places
             THEN [call[c] EXCEPT !.pc = "joining"] ELSE Idle)
  /\ UNCHANGED <<rows, session, sweep, incidents>>

\* COHORT_FULL, unless the account has a place.
Counts(c) ==
  /\ call[c].pc = "counting" /\ \A d \in Calls : call[d].pc # "joining"
  /\ Goto(c, IF call[c].account \in Members \/ Cardinality(Members) < Places
             THEN [call[c] EXCEPT !.pc = "joining"] ELSE Idle)
  /\ UNCHANGED <<rows, session, sweep, incidents>>

Inserts(o, t) ==
  /\ NewOrder(o)
  /\ order' = [order EXCEPT ![o] =
       [state |-> "pending", tenant |-> t, saved |-> FALSE, old |-> FALSE]]

Opening(c, o, saved) ==
  Goto(c, [Idle EXCEPT !.pc = "opening", !.order = o, !.saved = saved])

Joins(c) ==
  /\ call[c].pc = "joining"
  /\ \E t \in Tenants, o \in Orders :
       /\ NewTenant(t)
       /\ tenant' = [tenant EXCEPT ![t] =
            [state |-> "pending_payment", account |-> call[c].account, sub |-> None,
             job |-> FALSE]]
       /\ Inserts(o, t)
       /\ Opening(c, o, FALSE)
  /\ UNCHANGED <<session, sweep, incidents>>

\* Mutant: a pending order whose session was not saved is not used again.
FindsSaved(c) ==
  LET pending == {o \in Pending(call[c].tenant) : order[o].saved} IN
  /\ call[c].pc = "ordering"
  /\ \/ \E o \in pending : Opening(c, o, order[o].saved)
     \/ /\ pending = {}
        /\ Goto(c, [call[c] EXCEPT !.pc = "inserting"])
  /\ UNCHANGED <<rows, session, sweep, incidents>>

\* The tenant's pending order, if the request finds one. Of several it takes the
\* one whose transaction began last, which may be any of them.
FindsOrder(c) ==
  LET pending == Pending(call[c].tenant) IN
  /\ call[c].pc = "ordering"
  /\ \/ \E o \in pending : Opening(c, o, order[o].saved)
     \/ /\ pending = {}
        /\ Goto(c, [call[c] EXCEPT !.pc = "inserting"])
  /\ UNCHANGED <<rows, session, sweep, incidents>>

\* A new one, whatever has been inserted since.
MakesOrder(c) ==
  /\ call[c].pc = "inserting"
  /\ \E o \in Orders : Inserts(o, call[c].tenant) /\ Opening(c, o, FALSE)
  /\ UNCHANGED <<tenant, session, sweep, incidents>>

-----------------------------------------------------------------------------
(* checkoutFor *)

\* The row of an order is held by the request that renews it.
Held(o) == \E c \in Calls : call[c].pc = "renewing" /\ call[c].order = o

\* The order's session is looked at: it is shown again while it is open, and
\* PAYMENT_PROCESSING once it is complete.
LooksUp(c) ==
  LET o == call[c].order IN
  /\ call[c].pc = "opening" /\ call[c].saved
  /\ Goto(c, IF session[o] = "expired" THEN [call[c] EXCEPT !.pc = "replacing"] ELSE Idle)
  /\ UNCHANGED <<rows, session, sweep, incidents>>

\* The order's idempotency key names its session for a day; after that a session
\* that expired without its checkout_id being saved may be made anew.
Creates(c) ==
  LET o == call[c].order IN
  /\ call[c].pc = "opening" /\ ~call[c].saved
  /\ session' \in {[session EXCEPT ![o] = s] :
       s \in CASE session[o] = "none" -> {"open"}
               [] session[o] = "expired" /\ order[o].old /\ ~order[o].saved -> {"open", "expired"}
               [] OTHER -> {session[o]}}
  /\ Goto(c, [call[c] EXCEPT !.pc = "saving"])
  /\ UNCHANGED <<rows, sweep, incidents>>

\* Whatever became of the order, its checkout_id is saved and the address shown.
Saves(c) ==
  LET o == call[c].order IN
  /\ call[c].pc = "saving" /\ ~Held(o)
  /\ order' = [order EXCEPT ![o].saved = TRUE]
  /\ Goto(c, Idle)
  /\ UNCHANGED <<tenant, session, sweep, incidents>>

\* An order whose session expired gives way to another pending one of its tenant,
\* whatever the tenant's state is by now.
Replaces(c) ==
  LET o == call[c].order
      others == Pending(order[o].tenant) \ {o}
  IN
  /\ call[c].pc = "replacing" /\ ~Held(o)
  /\ \/ \E p \in others : Opening(c, p, order[p].saved)
     \/ /\ others = {}
        /\ Goto(c, [call[c] EXCEPT !.pc = "renewing"])
  /\ UNCHANGED <<rows, session, sweep, incidents>>

\* Or to a new one, whatever has been inserted since; the new row waits for a
\* transaction that holds its account's.
Renews(c) ==
  LET o == call[c].order
      t == order[o].tenant
  IN
  /\ call[c].pc = "renewing"
  /\ \A d \in InTransaction : call[d].account # tenant[t].account
  /\ \E p \in Orders :
       /\ NewOrder(p)
       /\ order' = [order EXCEPT
            ![o].state = "expired",
            ![p] = [state |-> "pending", tenant |-> t, saved |-> FALSE, old |-> FALSE]]
       /\ Opening(c, p, FALSE)
  /\ UNCHANGED <<tenant, session, sweep, incidents>>

\* The request ends early, or is the victim of a deadlock: a transaction that has
\* not committed leaves nothing.
CallFails(c) ==
  /\ call[c].pc # "idle"
  /\ Goto(c, Idle)
  /\ UNCHANGED <<rows, session, sweep, incidents>>

CallStep(c) ==
  \/ Counts(c) \/ Joins(c) \/ FindsOrder(c) \/ MakesOrder(c)
  \/ LooksUp(c) \/ Creates(c) \/ Saves(c) \/ Replaces(c) \/ Renews(c)

-----------------------------------------------------------------------------
(* Stripe, the owner, and time *)

Becomes(o, s) ==
  /\ session' = [session EXCEPT ![o] = s]
  /\ UNCHANGED <<rows, call, sweep, incidents>>

SessionExpires(o) == session[o] = "open" /\ Becomes(o, "expired")
Pays(o) == session[o] = "open" /\ order[o].saved /\ Becomes(o, "complete")
\* The subscription is cancelled and over.
Ends(o) == session[o] = "complete" /\ Becomes(o, "ended")

GrowsOld(o) ==
  /\ order[o].state = "pending" /\ ~order[o].old
  /\ order' = [order EXCEPT ![o].old = TRUE]
  /\ UNCHANGED <<tenant, session, call, sweep, incidents>>

\* A tenant that is no longer paid for is suspended and in the end deleted
\* (Lifecycle).
Leaves(t) ==
  /\ tenant[t].state = "provisioning" /\ session[tenant[t].sub] = "ended"
  /\ tenant' = [tenant EXCEPT ![t].state = "deleted"]
  /\ UNCHANGED <<order, session, call, sweep, incidents>>

-----------------------------------------------------------------------------
(* The subscription's reconciliation, under the row lock of its tenant *)

\* A tenant's second subscription is reported. One that has ended pays for
\* nothing any more; a tenant that was deleted is not provisioned, or reported.
\* (The row of an order that was paid is not held: its session did not expire.)
Reconciled(o) ==
  LET t == order[o].tenant
      pending == tenant[t].state = "pending_payment"
      entitled == session[o] = "complete"
  IN
  IF tenant[t].sub \notin {None, o}
  THEN incidents' = incidents \cup {o} /\ UNCHANGED rows
  ELSE /\ tenant' = [tenant EXCEPT
            ![t].sub = o,
            ![t].state = IF entitled /\ pending THEN "provisioning" ELSE @,
            ![t].job = @ \/ (entitled /\ Active(t))]
       /\ order' = IF entitled THEN [order EXCEPT ![o].state = "paid"] ELSE order
       /\ UNCHANGED incidents

\* A notification of Stripe, or the daily reconciliation.
Notified(o) ==
  /\ session[o] \in {"complete", "ended"}
  /\ Reconciled(o)
  /\ UNCHANGED <<session, call, sweep>>

-----------------------------------------------------------------------------
(* The clean-up: one row of those that maintenance has read *)

Abandoned(o) ==
  /\ sweep = NoSweep
  /\ order[o].state = "pending" /\ order[o].old
  /\ tenant[order[o].tenant].state = "pending_payment"

\* Mutant: an order whose session was never saved is passed over.
LooksAtSaved(o) ==
  /\ Abandoned(o) /\ order[o].saved
  /\ \/ /\ session[o] \in {"complete", "ended"}
        /\ Reconciled(o) /\ UNCHANGED sweep
     \/ /\ session[o] = "expired"
        /\ sweep' = [order |-> o, saved |-> order[o].saved]
        /\ UNCHANGED <<rows, incidents>>
  /\ UNCHANGED <<session, call>>

\* It is reconciled if it was paid, and left alone while its session is open.
\* (Reading the row and asking Stripe are one step: what was saved stays so, and
\* so does a session that expired.)
SweepLooks(o) ==
  /\ Abandoned(o)
  /\ \/ /\ order[o].saved /\ session[o] \in {"complete", "ended"}
        /\ Reconciled(o) /\ UNCHANGED sweep
     \/ /\ ~order[o].saved \/ session[o] = "expired"
        /\ sweep' = [order |-> o, saved |-> order[o].saved]
        /\ UNCHANGED <<rows, incidents>>
  /\ UNCHANGED <<session, call>>

\* Mutant: the tenant goes although it has another pending order.
CleansTenant ==
  LET o == sweep.order
      t == order[o].tenant
  IN
  /\ sweep # NoSweep /\ ~(order[o].state = "pending" /\ Held(o))
  /\ order' = IF order[o].state = "pending" THEN [order EXCEPT ![o].state = "expired"]
              ELSE order
  /\ tenant' = IF tenant[t].state = "pending_payment"
               THEN [tenant EXCEPT ![t].state = "deleted"] ELSE tenant
  /\ sweep' = NoSweep
  /\ UNCHANGED <<session, call, incidents>>

\* Mutant: only the order is closed.
CleansOrder ==
  LET o == sweep.order IN
  /\ sweep # NoSweep /\ ~(order[o].state = "pending" /\ Held(o))
  /\ order' = IF order[o].state = "pending" THEN [order EXCEPT ![o].state = "expired"]
              ELSE order
  /\ sweep' = NoSweep
  /\ UNCHANGED <<tenant, session, call, incidents>>

\* The order, if it is still pending, and its tenant, if it still waits for
\* payment and has no other order to wait for.
Cleans ==
  LET o == sweep.order
      t == order[o].tenant
  IN
  /\ sweep # NoSweep /\ ~(order[o].state = "pending" /\ Held(o))
  /\ order' = IF order[o].state = "pending" THEN [order EXCEPT ![o].state = "expired"]
              ELSE order
  /\ tenant' = IF tenant[t].state = "pending_payment" /\ Pending(t) \subseteq {o}
               THEN [tenant EXCEPT ![t].state = "deleted"] ELSE tenant
  /\ sweep' = NoSweep
  /\ UNCHANGED <<session, call, incidents>>

\* Stripe does not answer, the worker is restarted, or its transaction is the victim
\* of a deadlock.
SweepFails ==
  /\ sweep # NoSweep
  /\ sweep' = NoSweep
  /\ UNCHANGED <<rows, session, call, incidents>>

-----------------------------------------------------------------------------
Next ==
  \/ \E c \in Calls : CallStep(c) \/ CallFails(c) \/ \E a \in Accounts : Asks(c, a)
  \/ \E o \in Orders : \/ SessionExpires(o) \/ Pays(o) \/ Ends(o) \/ GrowsOld(o)
                       \/ Notified(o) \/ SweepLooks(o)
  \/ \E t \in Tenants : Leaves(t)
  \/ Cleans \/ SweepFails

\* Stripe's notifications are delivered until they are handled, sessions expire,
\* and maintenance comes round for every order, whose clean-up does not fail every
\* time. A transaction of a request commits or is rolled back; nothing more is asked
\* of the requests.
Transacting(c) == c \in InTransaction \/ call[c].pc = "renewing"
Fairness ==
  /\ \A c \in Calls : WF_vars(Transacting(c) /\ (CallStep(c) \/ CallFails(c)))
  /\ WF_vars(\E o \in Orders : SessionExpires(o))
  /\ WF_vars(\E o \in Orders : GrowsOld(o))
  /\ WF_vars(\E o \in Orders : Notified(o))
  /\ \A o \in Orders :
       /\ SF_vars(SweepLooks(o))
       /\ []<>(sweep.order = o) => []<><<sweep.order = o /\ Cleans>>_vars

Spec == Init /\ [][Next]_vars /\ Fairness

-----------------------------------------------------------------------------
\* Orders paid for a tenant that had been cleaned up.
Late == {o \in Orders : order[o].state = "paid" /\ ~tenant[order[o].tenant].job}

\* "The founding cohort defaults to 50 distinct paid or reserved accounts"
\* (docs/WEBSITE-INTEGRATION.md): however requests, payments, cancellations and
\* clean-ups overlap there are no more members than places, but for those who
\* paid after their reservation was cleaned up.
CohortKept ==
  Cardinality(Members \ {tenant[order[o].tenant].account : o \in Late}) <= Places

\* However two requests of one owner overlap, a tenant that waits for payment has
\* one checkout by which it can be paid or already was: no second one is open beside
\* it. (Once it was paid, requests that began before may still open some; what pays
\* for them is reported.)
OneCheckoutOpen ==
  \A t \in Tenants : tenant[t].state = "pending_payment" =>
    Cardinality({o \in Orders : /\ order[o].tenant = t /\ order[o].saved
                                /\ session[o] \in {"open", "complete"}}) <= 1

\* Clean-up takes no tenant that has been paid for, or can be by what its owner was
\* shown, if it knew of the checkout when it asked Stripe.
CleanUpSparesPayers ==
  [][\A t \in Tenants :
       /\ tenant[t].state = "pending_payment" /\ tenant'[t].state = "deleted"
       /\ sweep.saved
       => \A o \in Orders : order[o].tenant = t /\ order[o].saved
                            => session[o] \notin {"open", "complete"}]_vars

\* A place is never held without an order that is pending: clean-up finds
\* reservations by their orders.
ReservationHasOrder ==
  \A t \in Tenants : tenant[t].state = "pending_payment" => Pending(t) # {}

Unsettled(o) ==
  /\ order[o].state = "pending"
  /\ session[o] = "complete" \/ tenant[order[o].tenant].state = "pending_payment"

\* An order that holds a place, or was paid, is not left pending for ever: it is
\* paid for, cleaned up, or reported as a second subscription, unless what paid
\* for it was over before it was reconciled.
OrderSettles ==
  \A o \in Orders : Unsettled(o) ~> (~Unsettled(o) \/ o \in incidents \/ session[o] = "ended")
=============================================================================
