----------------------------- MODULE CheckoutProofs -----------------------------
(* The cohort keeps its places, no place is held without an order, owners that  *)
(* have not paid are offered one checkout, and clean-up spares those who pay,   *)
(* for any number of accounts, requests at once, tenants and orders.            *)
EXTENDS Checkout, FiniteSetTheorems, TLAPS

\* Rows are linked to rows that exist, and sessions belong to orders.
Linked ==
  \A o \in Orders :
    IF order[o].state = "unused"
    THEN order[o].tenant = None /\ session[o] = "none"
    ELSE order[o].tenant \in Tenants /\ tenant[order[o].tenant].state # "unused"

\* What a request, and the clean-up, have read stays so.
Knows(r, T, O, S) ==
  /\ r.pc \in {"ordering", "inserting"}
       => r.tenant \in Tenants /\ T[r.tenant].state # "unused"
  /\ r.pc \in {"opening", "replacing", "renewing", "saving"}
       => r.order \in Orders /\ O[r.order].state # "unused"
  /\ r.pc = "opening" /\ r.saved => O[r.order].saved
  /\ r.pc \in {"replacing", "renewing"} => O[r.order].saved /\ S[r.order] = "expired"

CallsKnow == \A c \in Calls : Knows(call[c], tenant, order, session)

SweepKnows ==
  sweep # NoSweep => sweep.order \in Orders /\ order[sweep.order].state # "unused"

\* The row of an account, and the cohort's lock, are one request's at a time.
Exclusive ==
  /\ \A c, d \in InTransaction :
       c # d => /\ call[c].account # call[d].account
                /\ ~(call[c].pc = "joining" /\ call[d].pc = "joining")
  /\ \A c \in Calls : call[c].pc \in {"counting", "joining"} =>
       \A t \in Tenants : Active(t) => tenant[t].account # call[c].account

\* An order that is paid has a subscription, and its tenant a job or no future; a
\* job was paid for.
PaidFor ==
  /\ \A o \in Orders : order[o].state = "paid" =>
       /\ session[o] \in {"complete", "ended"}
       /\ tenant[order[o].tenant].job \/ tenant[order[o].tenant].state = "deleted"
  /\ \A t \in Tenants : tenant[t].job =>
       \E o \in Orders : order[o].tenant = t /\ order[o].state = "paid"

PaidOrders == {o \in Orders : order[o].state = "paid"}
AccountOf(o) == tenant[order[o].tenant].account
Paying == {AccountOf(o) : o \in PaidOrders}
Occupants == {tenant[t].account : t \in {s \in Tenants : Active(s)}}
\* Those who count for the cohort.
Counted == (Occupants \cup Paying) \ {AccountOf(o) : o \in Late}

\* Whoever is about to join has a place already, or there is one.
PlacesKept ==
  /\ Cardinality(Counted) <= Places
  /\ \A c \in Calls : call[c].pc = "joining" =>
       call[c].account \in Paying \/ Cardinality(Counted) < Places

Safe ==
  /\ Linked /\ CallsKnow /\ SweepKnows /\ Exclusive /\ PaidFor
  /\ ReservationHasOrder

IInv == TypeOK /\ Safe /\ PlacesKept

-----------------------------------------------------------------------------
\* No row has the number that stands for none.
LEMMA NoneApart ==
  /\ None \notin Tenants /\ None \notin Orders
  /\ Tenants \subseteq Nat /\ Orders \subseteq Nat
  /\ IsFiniteSet(Tenants) /\ IsFiniteSet(Orders)
<1>1. MaxTenants \in Nat /\ MaxOrders \in Nat BY CheckoutAssumption
<1>2. IsFiniteSet(1 .. MaxTenants) /\ IsFiniteSet(1 .. MaxOrders) BY <1>1, FS_Interval
<1> QED BY <1>1, <1>2 DEF None, Tenants, Orders

\* The initial state satisfies the invariant.
LEMMA InitIInv == Init => IInv
<1> SUFFICES ASSUME Init PROVE IInv OBVIOUS
<1> USE CheckoutAssumption DEF Init
<1>1. TypeOK
  <2>1. tenant \in [Tenants -> TenantRows] BY DEF TenantRows
  <2>2. order \in [Orders -> OrderRows] BY DEF OrderRows
  <2>3. call \in [Calls -> Requests] BY DEF Requests, Idle
  <2> QED BY <2>1, <2>2, <2>3 DEF TypeOK, NoSweep
<1>2. \A c \in Calls : call[c].pc = "idle" BY DEF Idle
<1>3. Linked /\ CallsKnow /\ SweepKnows /\ Exclusive
  BY <1>2 DEF Linked, CallsKnow, Knows, SweepKnows, Exclusive, InTransaction
<1>4. PaidFor /\ ReservationHasOrder BY DEF PaidFor, ReservationHasOrder
<1>5. Counted = {}
  BY DEF Counted, Occupants, Paying, PaidOrders, Active
<1>6. Cardinality(Counted) = 0 BY <1>5, FS_EmptySet
<1>7. PlacesKept BY <1>2, <1>6 DEF PlacesKept
<1> QED BY <1>1, <1>3, <1>4, <1>7 DEF IInv, Safe

\* Those who count are finitely many.
LEMMA CountedFinite ==
  IsFiniteSet(Occupants) /\ IsFiniteSet(Paying) /\ IsFiniteSet(Counted)
<1>1. IsFiniteSet(Occupants)
  <2> DEFINE S == {s \in Tenants : Active(s)}
             f == [t \in S |-> tenant[t].account]
  <2>1. IsFiniteSet(S) BY NoneApart, FS_Subset
  <2>2. f \in Surjection(S, Occupants) BY DEF Surjection, Occupants
  <2> QED BY <2>1, <2>2, FS_Surjection
<1>2. IsFiniteSet(Paying)
  <2> DEFINE f == [o \in PaidOrders |-> AccountOf(o)]
  <2>1. IsFiniteSet(PaidOrders) BY NoneApart, FS_Subset DEF PaidOrders
  <2>2. f \in Surjection(PaidOrders, Paying) BY DEF Surjection, Paying
  <2> QED BY <2>1, <2>2, FS_Surjection
<1>3. IsFiniteSet(Occupants \cup Paying) BY <1>1, <1>2, FS_Union
<1>4. IsFiniteSet(Counted) BY <1>3, FS_Subset DEF Counted
<1> QED BY <1>1, <1>2, <1>4

\* The code counts those: the owners of tenants, and those who have paid.
LEMMA MembersCounted ==
  ASSUME Linked
  PROVE  Members = Occupants \cup Paying
<1>1. ASSUME NEW o \in PaidOrders PROVE order[o].tenant \in Tenants
  BY <1>1 DEF PaidOrders, Linked
<1>2. Members \subseteq Occupants \cup Paying
  BY DEF Members, Occupants, Paying, PaidOrders, AccountOf
<1>3. Occupants \subseteq Members BY DEF Members, Occupants
<1>4. Paying \subseteq Members
  <2> SUFFICES ASSUME NEW o \in PaidOrders PROVE AccountOf(o) \in Members
    BY DEF Paying
  <2> QED BY <1>1 DEF Members, AccountOf, PaidOrders
<1> QED BY <1>2, <1>3, <1>4

\* The invariant keeps the promise of the cohort.
LEMMA PlacesKeepCohort == IInv => CohortKept
<1> SUFFICES ASSUME IInv PROVE CohortKept OBVIOUS
<1>1. Counted = Members \ {tenant[order[o].tenant].account : o \in Late}
  BY MembersCounted DEF IInv, Safe, Counted, AccountOf
<1> QED BY <1>1 DEF IInv, PlacesKept, CohortKept

-----------------------------------------------------------------------------
(* What steps have in common *)

\* If no one joins, it is enough that those who count do not become more.
LEMMA PlacesStay ==
  ASSUME IInv, Counted' \subseteq Counted, Paying \subseteq Paying',
         \A c \in Calls : call'[c].pc = "joining" => call'[c] = call[c]
  PROVE  PlacesKept'
<1>1. Cardinality(Counted') <= Cardinality(Counted) /\ Cardinality(Counted') \in Nat
      /\ Cardinality(Counted) \in Nat
  BY CountedFinite, FS_Subset, FS_CardinalityType
<1>2. Places \in Nat BY CheckoutAssumption
<1>3. Cardinality(Counted') <= Places BY <1>1, <1>2 DEF IInv, PlacesKept
<1>4. Cardinality(Counted) < Places => Cardinality(Counted') < Places BY <1>1, <1>2
<1> QED BY <1>3, <1>4 DEF IInv, PlacesKept

\* A step at the end of which no request has begun a transaction keeps the
\* invariant if rows in use stay in use, saved orders saved and their expired
\* sessions expired, and no tenant becomes active.
LEMMA Quiet ==
  ASSUME IInv, TypeOK',
         \A t \in Tenants :
           /\ tenant[t].state # "unused" => tenant'[t].state # "unused"
           /\ tenant'[t].state \in {"pending_payment", "provisioning"}
                => Active(t) /\ tenant'[t].account = tenant[t].account,
         \A o \in Orders : order[o].state # "unused" =>
           /\ order'[o].state # "unused"
           /\ order[o].saved => order'[o].saved
           /\ order[o].saved /\ session[o] = "expired" => session'[o] = "expired",
         \A c \in Calls :
           \/ call'[c] = call[c]
           \/ /\ call'[c].pc \notin {"counting", "joining", "ordering", "inserting"}
              /\ Knows(call'[c], tenant', order', session'),
         SweepKnows', Linked', PaidFor', ReservationHasOrder',
         Counted' \subseteq Counted, Paying \subseteq Paying'
  PROVE  IInv'
<1>1. CallsKnow'
  <2> SUFFICES ASSUME NEW c \in Calls, call'[c] = call[c]
               PROVE  Knows(call'[c], tenant', order', session')
    BY DEF CallsKnow
  <2>1. Knows(call[c], tenant, order, session) BY DEF IInv, Safe, CallsKnow
  <2> QED BY <2>1 DEF Knows
<1>2. Exclusive'
  <2>1. \A c \in Calls : call'[c].pc \in {"counting", "joining", "ordering", "inserting"}
          => call'[c] = call[c]
    OBVIOUS
  <2>2. \A c, d \in InTransaction' :
          c # d => /\ call'[c].account # call'[d].account
                   /\ ~(call'[c].pc = "joining" /\ call'[d].pc = "joining")
    BY <2>1 DEF IInv, Safe, Exclusive, InTransaction
  <2>3. \A c \in Calls : call'[c].pc \in {"counting", "joining"} =>
          \A t \in Tenants : Active(t)' => tenant'[t].account # call'[c].account
    BY <2>1 DEF IInv, Safe, Exclusive, Active
  <2> QED BY <2>2, <2>3 DEF Exclusive
<1>3. PlacesKept' BY PlacesStay
<1> QED BY <1>1, <1>2, <1>3 DEF IInv, Safe

\* A step that leaves the tenants, the state of the orders and whose they are may
\* move the sessions of orders that are not paid.
LEMMA RowsKept ==
  ASSUME IInv, tenant' = tenant,
         \A o \in Orders :
           /\ order'[o].state = order[o].state /\ order'[o].tenant = order[o].tenant
           /\ session'[o] # session[o] => order[o].state # "unused"
           /\ order[o].state = "paid" => session'[o] \in {"complete", "ended"}
  PROVE  /\ Linked' /\ PaidFor' /\ ReservationHasOrder'
         /\ Counted' \subseteq Counted /\ Paying \subseteq Paying'
<1>1. Linked' BY DEF IInv, Safe, Linked
<1>2. PaidFor' BY DEF IInv, Safe, PaidFor
<1>3. ReservationHasOrder' BY DEF IInv, Safe, ReservationHasOrder, Pending
<1>4. PaidOrders' = PaidOrders /\ Occupants' = Occupants
  BY DEF PaidOrders, Occupants, Active
<1>5. \A o \in PaidOrders : AccountOf(o)' = AccountOf(o)
  BY DEF PaidOrders, AccountOf
<1>6. Paying' = Paying BY <1>4, <1>5 DEF Paying
<1>7. Late' = Late /\ Late \subseteq PaidOrders BY DEF Late, PaidOrders
<1>8. {AccountOf(o) : o \in Late}' = {AccountOf(o) : o \in Late} BY <1>5, <1>7
<1>9. Counted' = Counted BY <1>4, <1>6, <1>8 DEF Counted
<1> QED BY <1>1, <1>2, <1>3, <1>6, <1>9

-----------------------------------------------------------------------------
(* Stripe and time *)

\* A session moves, or an order grows old: no request knows otherwise.
LEMMA OutsideStep ==
  ASSUME IInv, NEW o \in Orders,
         SessionExpires(o) \/ Pays(o) \/ Ends(o) \/ GrowsOld(o)
  PROVE  IInv'
<1>1. UNCHANGED <<tenant, call, sweep, incidents>>
  BY DEF SessionExpires, Pays, Ends, GrowsOld, Becomes, rows
<1>2. /\ order' \in [Orders -> OrderRows]
      /\ session' \in [Orders -> {"none", "open", "complete", "expired", "ended"}]
      /\ \A p \in Orders :
           /\ order'[p].state = order[p].state /\ order'[p].tenant = order[p].tenant
           /\ order'[p].saved = order[p].saved
           /\ session'[p] # session[p] => session[p] \in {"open", "complete"}
           /\ session[p] = "complete" => session'[p] \in {"complete", "ended"}
  <2>1. CASE GrowsOld(o)
    <3>1. order' = [order EXCEPT ![o].old = TRUE] /\ session' = session
      BY <2>1 DEF GrowsOld
    <3>2. order \in [Orders -> OrderRows] BY DEF IInv, TypeOK
    <3>3. /\ order' \in [Orders -> OrderRows]
          /\ \A p \in Orders :
               /\ order'[p].state = order[p].state /\ order'[p].tenant = order[p].tenant
               /\ order'[p].saved = order[p].saved
      BY <3>1, <3>2 DEF OrderRows
    <3> QED BY <3>1, <3>3 DEF IInv, TypeOK
  <2>2. CASE ~GrowsOld(o)
    <3>1. PICK s \in {"expired", "complete", "ended"} :
            /\ session' = [session EXCEPT ![o] = s] /\ order' = order
            /\ session[o] \in {"open", "complete"}
            /\ session[o] = "complete" => s = "ended"
      BY <2>2 DEF SessionExpires, Pays, Ends, Becomes, rows
    <3> QED BY <3>1 DEF IInv, TypeOK
  <2> QED BY <2>1, <2>2
<1>3. TypeOK' BY <1>1, <1>2 DEF IInv, TypeOK
<1>4. \A p \in Orders :
        /\ session[p] # "none" => order[p].state # "unused"
        /\ order[p].state = "paid" => session[p] \in {"complete", "ended"}
  BY DEF IInv, Safe, Linked, PaidFor
<1>5. \A p \in Orders :
        /\ session'[p] # session[p] => order[p].state # "unused"
        /\ order[p].state = "paid" => session'[p] \in {"complete", "ended"}
  BY <1>2, <1>4
<1>6. /\ Linked' /\ PaidFor' /\ ReservationHasOrder'
      /\ Counted' \subseteq Counted /\ Paying \subseteq Paying'
  BY <1>1, <1>2, <1>5, RowsKept
<1>7. SweepKnows' BY <1>1, <1>2 DEF IInv, Safe, SweepKnows
<1>8. \A t \in Tenants :
        /\ tenant[t].state # "unused" => tenant'[t].state # "unused"
        /\ tenant'[t].state \in {"pending_payment", "provisioning"}
             => Active(t) /\ tenant'[t].account = tenant[t].account
  BY <1>1 DEF Active
<1>9. \A p \in Orders :
        /\ order[p].state # "unused" => order'[p].state # "unused"
        /\ order[p].saved => order'[p].saved
        /\ order[p].saved /\ session[p] = "expired" => session'[p] = "expired"
  BY <1>2
<1> QED BY <1>1, <1>3, <1>6, <1>7, <1>8, <1>9, Quiet

-----------------------------------------------------------------------------
(* Requests *)

\* A request that leaves its transaction, ends, or goes on outside of one.
LEMMA CallGoes ==
  ASSUME IInv, NEW c \in Calls, NEW r \in Requests, Goto(c, r),
         r.pc \notin {"counting", "joining", "ordering", "inserting"},
         Knows(r, tenant', order', session'),
         UNCHANGED <<tenant, sweep, incidents>>,
         order' \in [Orders -> OrderRows],
         session' \in [Orders -> {"none", "open", "complete", "expired", "ended"}],
         \A o \in Orders : order[o].state # "unused" =>
           /\ order'[o].state # "unused"
           /\ order[o].saved => order'[o].saved
           /\ order[o].saved /\ session[o] = "expired" => session'[o] = "expired",
         Linked', PaidFor', ReservationHasOrder',
         Counted' \subseteq Counted, Paying \subseteq Paying'
  PROVE  IInv'
<1>1. call' = [call EXCEPT ![c] = r] BY DEF Goto
<1>2. TypeOK' BY <1>1 DEF IInv, TypeOK
<1>3. \A d \in Calls :
        \/ call'[d] = call[d]
        \/ /\ call'[d].pc \notin {"counting", "joining", "ordering", "inserting"}
           /\ Knows(call'[d], tenant', order', session')
  BY <1>1 DEF IInv, TypeOK
<1>4. SweepKnows' BY DEF IInv, Safe, SweepKnows
<1>5. \A t \in Tenants :
        /\ tenant[t].state # "unused" => tenant'[t].state # "unused"
        /\ tenant'[t].state \in {"pending_payment", "provisioning"}
             => Active(t) /\ tenant'[t].account = tenant[t].account
  BY DEF Active
<1> QED BY <1>2, <1>3, <1>4, <1>5, Quiet

\* The same where no row and no session changes.
LEMMA CallOnly ==
  ASSUME IInv, NEW c \in Calls, NEW r \in Requests, Goto(c, r),
         r.pc \notin {"counting", "joining", "ordering", "inserting"},
         Knows(r, tenant, order, session),
         UNCHANGED <<tenant, order, session, sweep, incidents>>
  PROVE  IInv'
<1>1. \A o \in Orders :
        /\ order'[o].state = order[o].state /\ order'[o].tenant = order[o].tenant
        /\ session'[o] # session[o] => order[o].state # "unused"
        /\ order[o].state = "paid" => session'[o] \in {"complete", "ended"}
  BY DEF IInv, Safe, PaidFor
<1>2. /\ Linked' /\ PaidFor' /\ ReservationHasOrder'
      /\ Counted' \subseteq Counted /\ Paying \subseteq Paying'
  BY <1>1, RowsKept
<1>3. Knows(r, tenant', order', session') BY DEF Knows
<1>4. /\ order' \in [Orders -> OrderRows]
      /\ session' \in [Orders -> {"none", "open", "complete", "expired", "ended"}]
  BY DEF IInv, TypeOK
<1> QED BY <1>2, <1>3, <1>4, CallGoes

\* Idle requests, and those that open an order's checkout.
LEMMA RequestTypes ==
  /\ Idle \in Requests /\ Idle.pc = "idle"
  /\ \A T, O, S : Knows(Idle, T, O, S)
  /\ \A o \in Orders, b \in BOOLEAN :
       LET r == [Idle EXCEPT !.pc = "opening", !.order = o, !.saved = b] IN
       /\ r \in Requests /\ r.pc = "opening" /\ r.order = o /\ r.saved = b
<1>1. Idle \in Requests /\ Idle.pc = "idle" BY DEF Idle, Requests
<1>2. \A T, O, S : Knows(Idle, T, O, S) BY <1>1 DEF Knows
<1>3. ASSUME NEW o \in Orders, NEW b \in BOOLEAN
      PROVE  LET r == [Idle EXCEPT !.pc = "opening", !.order = o, !.saved = b] IN
             /\ r \in Requests /\ r.pc = "opening" /\ r.order = o /\ r.saved = b
  BY <1>1 DEF Requests
<1> QED BY <1>1, <1>2, <1>3

\* A request ends, by itself or not.
LEMMA EndsStep ==
  ASSUME IInv, NEW c \in Calls, Goto(c, Idle),
         UNCHANGED <<tenant, order, session, sweep, incidents>>
  PROVE  IInv'
  BY RequestTypes, CallOnly

\* A request begins; its account has no tenant that it could not see.
LEMMA AsksStep ==
  ASSUME IInv, NEW c \in Calls, NEW a \in Accounts, Asks(c, a)
  PROVE  IInv'
<1>1. /\ UNCHANGED <<tenant, order, session, sweep, incidents>>
      /\ \A d \in InTransaction : call[d].account # a
  BY DEF Asks, rows
<1>2. PICK r \in Requests :
        /\ call' = [call EXCEPT ![c] = r] /\ r.account = a
        /\ r.pc \in {"ordering", "counting"}
        /\ r.pc = "ordering" => r.tenant \in Tenants /\ tenant[r.tenant].state # "unused"
        /\ r.pc = "counting" => \A t \in Tenants : Active(t) => tenant[t].account # a
  <2>1. CASE \E t \in Tenants :
               /\ tenant[t].state = "pending_payment" /\ tenant[t].account = a
               /\ Goto(c, [Idle EXCEPT !.pc = "ordering", !.account = a, !.tenant = t])
    <3>1. PICK t \in Tenants :
            /\ tenant[t].state = "pending_payment"
            /\ Goto(c, [Idle EXCEPT !.pc = "ordering", !.account = a, !.tenant = t])
      BY <2>1
    <3> DEFINE r == [Idle EXCEPT !.pc = "ordering", !.account = a, !.tenant = t]
    <3>2. r \in Requests /\ r.account = a /\ r.pc = "ordering" /\ r.tenant = t
      BY RequestTypes DEF Requests
    <3> QED BY <3>1, <3>2 DEF Goto
  <2>2. CASE /\ \A t \in Tenants : Active(t) => tenant[t].account # a
             /\ Goto(c, [Idle EXCEPT !.pc = "counting", !.account = a])
    <3> DEFINE r == [Idle EXCEPT !.pc = "counting", !.account = a]
    <3>1. r \in Requests /\ r.account = a /\ r.pc = "counting"
      BY RequestTypes DEF Requests
    <3> QED BY <2>2, <3>1 DEF Goto
  <2> QED BY <2>1, <2>2 DEF Asks
<1>3. call'[c] = r /\ \A d \in Calls : d # c => call'[d] = call[d]
  BY <1>2 DEF IInv, TypeOK
<1>4. TypeOK' BY <1>1, <1>2 DEF IInv, TypeOK
<1>5. Knows(r, tenant', order', session') BY <1>1, <1>2 DEF Knows
<1>6. CallsKnow' BY <1>1, <1>3, <1>5 DEF IInv, Safe, CallsKnow
<1>7. SweepKnows' BY <1>1 DEF IInv, Safe, SweepKnows
<1>8. InTransaction' \subseteq InTransaction \cup {c}
  BY <1>3 DEF InTransaction
<1>9. Exclusive'
  <2>1. ASSUME NEW d \in InTransaction', NEW e \in InTransaction', d # e
        PROVE  /\ call'[d].account # call'[e].account
               /\ ~(call'[d].pc = "joining" /\ call'[e].pc = "joining")
    <3>1. d \in Calls /\ e \in Calls BY DEF InTransaction
    <3>2. d # c => call'[d] = call[d] /\ d \in InTransaction BY <1>3, <1>8, <3>1
    <3>3. e # c => call'[e] = call[e] /\ e \in InTransaction BY <1>3, <1>8, <3>1
    <3>4. CASE d = c BY <1>1, <1>2, <1>3, <2>1, <3>3, <3>4
    <3>5. CASE e = c BY <1>1, <1>2, <1>3, <2>1, <3>2, <3>5
    <3>6. CASE d # c /\ e # c
      BY <2>1, <3>2, <3>3, <3>6 DEF IInv, Safe, Exclusive
    <3> QED BY <3>4, <3>5, <3>6
  <2>2. ASSUME NEW d \in Calls, call'[d].pc \in {"counting", "joining"},
               NEW t \in Tenants, Active(t)'
        PROVE  tenant'[t].account # call'[d].account
    <3>1. Active(t) BY <1>1, <2>2 DEF Active
    <3> QED BY <1>1, <1>2, <1>3, <2>2, <3>1 DEF IInv, Safe, Exclusive
  <2> QED BY <2>1, <2>2 DEF Exclusive
<1>10. \A o \in Orders :
         /\ order'[o].state = order[o].state /\ order'[o].tenant = order[o].tenant
         /\ session'[o] # session[o] => order[o].state # "unused"
         /\ order[o].state = "paid" => session'[o] \in {"complete", "ended"}
  BY <1>1 DEF IInv, Safe, PaidFor
<1>11. /\ Linked' /\ PaidFor' /\ ReservationHasOrder'
       /\ Counted' \subseteq Counted /\ Paying \subseteq Paying'
  BY <1>1, <1>10, RowsKept
<1>12. \A d \in Calls : call'[d].pc = "joining" => call'[d] = call[d]
  BY <1>2, <1>3
<1>13. PlacesKept' BY <1>11, <1>12, PlacesStay
<1> QED BY <1>4, <1>6, <1>7, <1>9, <1>11, <1>13 DEF IInv, Safe

\* A request counts the places while no other joins.
LEMMA CountsStep ==
  ASSUME IInv, NEW c \in Calls, Counts(c)
  PROVE  IInv'
<1>1. /\ UNCHANGED <<tenant, order, session, sweep, incidents>>
      /\ call[c].pc = "counting" /\ \A d \in Calls : call[d].pc # "joining"
  BY DEF Counts, rows
<1>2. CASE ~(call[c].account \in Members \/ Cardinality(Members) < Places)
  BY <1>1, <1>2, EndsStep DEF Counts
<1>3. CASE call[c].account \in Members \/ Cardinality(Members) < Places
  <2> DEFINE r == [call[c] EXCEPT !.pc = "joining"]
  <2>1. call[c] \in Requests BY DEF IInv, TypeOK
  <2>2. r \in Requests /\ r.pc = "joining" /\ r.account = call[c].account
    BY <2>1 DEF Requests
  <2>3. call' = [call EXCEPT ![c] = r] BY <1>3 DEF Counts, Goto
  <2> HIDE DEF r
  <2>4. call'[c] = r /\ \A d \in Calls : d # c => call'[d] = call[d]
    BY <2>3 DEF IInv, TypeOK
  <2>5. TypeOK' BY <1>1, <2>2, <2>3 DEF IInv, TypeOK
  <2>6. Knows(r, tenant', order', session') BY <2>2 DEF Knows
  <2>7. CallsKnow' BY <1>1, <2>4, <2>6 DEF IInv, Safe, CallsKnow
  <2>8. SweepKnows' BY <1>1 DEF IInv, Safe, SweepKnows
  <2>9. \A d \in Calls :
          /\ d \in InTransaction' => d \in InTransaction
          /\ call'[d].account = call[d].account
          /\ call'[d].pc = "joining" => d = c
    BY <1>1, <2>2, <2>4 DEF InTransaction
  <2>10. Exclusive'
    <3>1. ASSUME NEW d \in InTransaction', NEW e \in InTransaction', d # e
          PROVE  /\ call'[d].account # call'[e].account
                 /\ ~(call'[d].pc = "joining" /\ call'[e].pc = "joining")
      <4>1. d \in Calls /\ e \in Calls BY DEF InTransaction
      <4>2. d \in InTransaction /\ e \in InTransaction BY <2>9, <4>1
      <4> QED BY <2>9, <3>1, <4>1, <4>2 DEF IInv, Safe, Exclusive
    <3>2. ASSUME NEW d \in Calls, call'[d].pc \in {"counting", "joining"},
                 NEW t \in Tenants, Active(t)'
          PROVE  tenant'[t].account # call'[d].account
      <4>1. Active(t) BY <1>1, <3>2 DEF Active
      <4>2. call[d].pc \in {"counting", "joining"} BY <1>1, <2>4, <3>2
      <4> QED BY <1>1, <2>9, <4>1, <4>2 DEF IInv, Safe, Exclusive
    <3> QED BY <3>1, <3>2 DEF Exclusive
  <2>11. \A o \in Orders :
           /\ order'[o].state = order[o].state /\ order'[o].tenant = order[o].tenant
           /\ session'[o] # session[o] => order[o].state # "unused"
           /\ order[o].state = "paid" => session'[o] \in {"complete", "ended"}
    BY <1>1 DEF IInv, Safe, PaidFor
  <2>12. /\ Linked' /\ PaidFor' /\ ReservationHasOrder'
         /\ Counted' \subseteq Counted /\ Paying \subseteq Paying'
    BY <1>1, <2>11, RowsKept
  <2>13. call[c].account \in Paying \/ Cardinality(Counted) < Places
    <3>1. call[c].account \notin Occupants
      BY <1>1 DEF IInv, Safe, Exclusive, Occupants
    <3>2. Members = Occupants \cup Paying BY MembersCounted DEF IInv, Safe
    <3>3. CASE call[c].account \in Members BY <3>1, <3>2, <3>3
    <3>4. CASE Cardinality(Members) < Places
      <4>1. Counted \subseteq Members /\ IsFiniteSet(Members)
        BY <3>2, CountedFinite, FS_Union DEF Counted
      <4>2. /\ Cardinality(Counted) <= Cardinality(Members)
            /\ Cardinality(Counted) \in Nat /\ Cardinality(Members) \in Nat
        BY <4>1, FS_Subset, FS_CardinalityType, CountedFinite
      <4> QED BY <3>4, <4>2, CheckoutAssumption
    <3> QED BY <1>3, <3>3, <3>4
  <2>14. PlacesKept'
    <3>1. /\ Cardinality(Counted') <= Cardinality(Counted)
          /\ Cardinality(Counted') \in Nat /\ Cardinality(Counted) \in Nat
      BY <2>12, CountedFinite, FS_Subset, FS_CardinalityType
    <3>2. Cardinality(Counted') <= Places
      BY <3>1, CheckoutAssumption DEF IInv, PlacesKept
    <3>3. call[c].account \in Paying' \/ Cardinality(Counted') < Places
      BY <2>12, <2>13, <3>1, CheckoutAssumption
    <3> QED BY <2>9, <3>2, <3>3 DEF PlacesKept
  <2> QED BY <2>5, <2>7, <2>8, <2>10, <2>12, <2>14 DEF IInv, Safe
<1> QED BY <1>2, <1>3

\* A request joins with the place it has counted.
LEMMA JoinsStep ==
  ASSUME IInv, NEW c \in Calls, Joins(c)
  PROVE  IInv'
<1>1. UNCHANGED <<session, sweep, incidents>> /\ call[c].pc = "joining"
  BY DEF Joins
<1> DEFINE a == call[c].account
<1>2. PICK t \in Tenants, o \in Orders :
        /\ NewTenant(t)
        /\ tenant' = [tenant EXCEPT ![t] =
             [state |-> "pending_payment", account |-> a, sub |-> None, job |-> FALSE]]
        /\ Inserts(o, t)
        /\ Opening(c, o, FALSE)
  BY DEF Joins
<1>3. tenant[t].state = "unused" /\ order[o].state = "unused"
  BY <1>2, NoneApart DEF NewTenant, Inserts, NewOrder
<1> DEFINE w == [state |-> "pending_payment", account |-> a, sub |-> None, job |-> FALSE]
           n == [state |-> "pending", tenant |-> t, saved |-> FALSE, old |-> FALSE]
           r == [Idle EXCEPT !.pc = "opening", !.order = o, !.saved = FALSE]
<1>4. tenant' = [tenant EXCEPT ![t] = w] /\ order' = [order EXCEPT ![o] = n]
      /\ call' = [call EXCEPT ![c] = r]
  BY <1>2 DEF Inserts, Opening, Goto
<1>5. w \in TenantRows /\ w.state = "pending_payment" /\ w.account = a /\ w.job = FALSE
  BY DEF IInv, TypeOK, TenantRows, Requests
<1>6. n \in OrderRows /\ n.state = "pending" /\ n.tenant = t
  BY DEF OrderRows
<1>7. r \in Requests /\ r.pc = "opening" /\ r.order = o /\ r.saved = FALSE
  BY RequestTypes
<1> HIDE DEF w, n, r
<1>8. TypeOK' BY <1>1, <1>4, <1>5, <1>6, <1>7 DEF IInv, TypeOK
<1>9. /\ tenant'[t] = w /\ \A s \in Tenants : s # t => tenant'[s] = tenant[s]
      /\ order'[o] = n /\ \A p \in Orders : p # o => order'[p] = order[p]
      /\ call'[c] = r /\ \A d \in Calls : d # c => call'[d] = call[d]
  BY <1>4 DEF IInv, TypeOK
<1>10. Linked'
  <2>1. \A p \in Orders : order[p].tenant # t BY <1>3, NoneApart DEF IInv, Safe, Linked
  <2>2. ASSUME NEW p \in Orders, p # o
        PROVE  IF order'[p].state = "unused"
               THEN order'[p].tenant = None /\ session'[p] = "none"
               ELSE order'[p].tenant \in Tenants /\ tenant'[order'[p].tenant].state # "unused"
    BY <1>1, <1>9, <2>1, <2>2 DEF IInv, Safe, Linked
  <2>3. order'[o].state # "unused" /\ order'[o].tenant \in Tenants
        /\ tenant'[order'[o].tenant].state # "unused"
    BY <1>5, <1>6, <1>9
  <2> QED BY <2>2, <2>3 DEF Linked
<1>11. \A s \in Tenants : tenant[s].state # "unused" => tenant'[s] = tenant[s]
  BY <1>3, <1>9
<1>12. \A p \in Orders : order[p].state # "unused" => order'[p] = order[p]
  BY <1>3, <1>9
<1>13. CallsKnow'
  <2>1. ASSUME NEW d \in Calls, d # c PROVE Knows(call'[d], tenant', order', session')
    <3>1. Knows(call[d], tenant, order, session) BY DEF IInv, Safe, CallsKnow
    <3> QED BY <1>1, <1>9, <1>11, <1>12, <2>1, <3>1 DEF Knows
  <2>2. Knows(r, tenant', order', session')
    BY <1>6, <1>7, <1>9 DEF Knows
  <2> QED BY <1>9, <2>1, <2>2 DEF CallsKnow
<1>14. SweepKnows' BY <1>1, <1>12 DEF IInv, Safe, SweepKnows
<1>15. c \in InTransaction BY <1>1 DEF InTransaction
<1>16. \A d \in Calls : d \in InTransaction' =>
         /\ d # c /\ d \in InTransaction /\ call'[d] = call[d]
         /\ call[d].account # a /\ call[d].pc # "joining"
  <2> SUFFICES ASSUME NEW d \in Calls, d \in InTransaction'
               PROVE  /\ d # c /\ d \in InTransaction /\ call'[d] = call[d]
                      /\ call[d].account # a /\ call[d].pc # "joining"
    OBVIOUS
  <2>1. d # c BY <1>7, <1>9 DEF InTransaction
  <2>2. call'[d] = call[d] /\ d \in InTransaction BY <1>9, <2>1 DEF InTransaction
  <2> QED BY <1>1, <1>15, <2>1, <2>2 DEF IInv, Safe, Exclusive
<1>17. Exclusive'
  <2>1. ASSUME NEW d \in InTransaction', NEW e \in InTransaction', d # e
        PROVE  /\ call'[d].account # call'[e].account
               /\ ~(call'[d].pc = "joining" /\ call'[e].pc = "joining")
    <3>1. d \in Calls /\ e \in Calls BY DEF InTransaction
    <3> QED BY <1>16, <2>1, <3>1 DEF IInv, Safe, Exclusive
  <2>2. ASSUME NEW d \in Calls, call'[d].pc \in {"counting", "joining"},
               NEW s \in Tenants, Active(s)'
        PROVE  tenant'[s].account # call'[d].account
    <3>1. d \in InTransaction' BY <2>2 DEF InTransaction
    <3>2. CASE s = t BY <1>5, <1>9, <1>16, <3>1, <3>2
    <3>3. CASE s # t
      <4>1. Active(s) /\ tenant'[s] = tenant[s] BY <1>9, <2>2, <3>3 DEF Active
      <4> QED BY <1>16, <2>2, <3>1, <4>1 DEF IInv, Safe, Exclusive
    <3> QED BY <3>2, <3>3
  <2> QED BY <2>1, <2>2 DEF Exclusive
<1>18. \A p \in Orders : order[p].state = "paid" =>
         /\ p # o /\ order[p].tenant \in Tenants /\ order[p].tenant # t
         /\ order'[p] = order[p] /\ tenant'[order[p].tenant] = tenant[order[p].tenant]
  BY <1>3, <1>9 DEF IInv, Safe, Linked
<1>19. PaidFor'
  <2>1. \A p \in Orders : order'[p].state = "paid" => order[p].state = "paid"
    BY <1>6, <1>9
  <2>2. \A p \in Orders : order'[p].state = "paid" =>
          /\ session'[p] \in {"complete", "ended"}
          /\ \/ tenant'[order'[p].tenant].job
             \/ tenant'[order'[p].tenant].state = "deleted"
    BY <1>1, <1>18, <2>1 DEF IInv, Safe, PaidFor
  <2>3. ASSUME NEW s \in Tenants, tenant'[s].job
        PROVE  \E p \in Orders : order'[p].tenant = s /\ order'[p].state = "paid"
    <3>1. s # t /\ tenant[s].job BY <1>5, <1>9, <2>3
    <3>2. PICK p \in Orders : order[p].tenant = s /\ order[p].state = "paid"
      BY <3>1 DEF IInv, Safe, PaidFor
    <3> QED BY <1>18, <3>2
  <2> QED BY <2>2, <2>3 DEF PaidFor
<1>20. ReservationHasOrder'
  <2>1. ASSUME NEW s \in Tenants, tenant'[s].state = "pending_payment"
        PROVE  Pending(s)' # {}
    <3>1. CASE s = t BY <1>6, <1>9, <3>1 DEF Pending
    <3>2. CASE s # t
      <4>1. tenant[s].state = "pending_payment" BY <1>9, <2>1, <3>2
      <4>2. PICK p \in Orders : order[p].tenant = s /\ order[p].state = "pending"
        BY <4>1 DEF IInv, Safe, ReservationHasOrder, Pending
      <4> QED BY <1>12, <4>2 DEF Pending
    <3> QED BY <3>1, <3>2
  <2> QED BY <2>1 DEF ReservationHasOrder
<1>21. PaidOrders' = PaidOrders /\ \A p \in PaidOrders : AccountOf(p)' = AccountOf(p)
  <2>1. \A p \in Orders : order'[p].state = "paid" <=> order[p].state = "paid"
    BY <1>3, <1>6, <1>9
  <2> QED BY <1>18, <2>1 DEF PaidOrders, AccountOf
<1>22. Paying' = Paying BY <1>21 DEF Paying
<1>23. Late' = Late
  BY <1>18, <1>21 DEF Late, PaidOrders
<1>24. {AccountOf(p) : p \in Late}' = {AccountOf(p) : p \in Late}
  BY <1>21, <1>23 DEF Late, PaidOrders
<1>25. Occupants' \subseteq Occupants \cup {a}
  <2> SUFFICES ASSUME NEW s \in Tenants, Active(s)'
               PROVE  tenant'[s].account \in Occupants \cup {a}
    BY DEF Occupants
  <2>1. CASE s = t BY <1>5, <1>9, <2>1
  <2>2. CASE s # t BY <1>9, <2>2 DEF Occupants, Active
  <2> QED BY <2>1, <2>2
<1>26. Counted' \subseteq Counted \cup {a}
  BY <1>22, <1>24, <1>25 DEF Counted
<1>27. Cardinality(Counted') <= Places
  <2>1. CASE a \in Paying
    <3>1. Counted' \subseteq Counted
      BY <1>22, <1>24, <1>25, <2>1 DEF Counted
    <3>2. Cardinality(Counted') <= Cardinality(Counted)
          /\ Cardinality(Counted') \in Nat /\ Cardinality(Counted) \in Nat
      BY <3>1, CountedFinite, FS_Subset, FS_CardinalityType
    <3> QED BY <3>2, CheckoutAssumption DEF IInv, PlacesKept
  <2>2. CASE a \notin Paying
    <3>1. Cardinality(Counted) < Places
      BY <1>1, <2>2 DEF IInv, PlacesKept
    <3> HIDE DEF a
    <3>2. IsFiniteSet(Counted \cup {a})
          /\ Cardinality(Counted \cup {a}) <= Cardinality(Counted) + 1
          /\ Cardinality(Counted) \in Nat
      <4>1. IsFiniteSet(Counted) /\ Cardinality(Counted) \in Nat
        BY CountedFinite, FS_CardinalityType
      <4>2. /\ IsFiniteSet(Counted \cup {a})
            /\ Cardinality(Counted \cup {a})
                 = IF a \in Counted THEN Cardinality(Counted) ELSE Cardinality(Counted) + 1
        BY <4>1, FS_AddElement
      <4> QED BY <4>1, <4>2
    <3>3. Cardinality(Counted') <= Cardinality(Counted \cup {a})
          /\ Cardinality(Counted') \in Nat /\ Cardinality(Counted \cup {a}) \in Nat
      BY <1>26, <3>2, FS_Subset, FS_CardinalityType
    <3> QED BY <3>1, <3>2, <3>3, CheckoutAssumption
  <2> QED BY <2>1, <2>2
<1>28. PlacesKept'
  <2>1. \A d \in Calls : call'[d].pc # "joining"
    BY <1>16 DEF InTransaction
  <2> QED BY <1>27, <2>1 DEF PlacesKept
<1> QED BY <1>8, <1>10, <1>13, <1>14, <1>17, <1>19, <1>20, <1>28 DEF IInv, Safe

\* A used tenant gets an order, which may take the place of one that is not paid.
LEMMA InsertsStep ==
  ASSUME IInv, NEW c \in Calls, NEW t \in Tenants, NEW p \in Orders, NEW r \in Requests,
         Goto(c, r), r.pc = "opening", r.order = p, r.saved = FALSE,
         tenant[t].state # "unused", order[p].state = "unused",
         UNCHANGED <<tenant, session, sweep, incidents>>,
         order' \in [Orders -> OrderRows],
         order'[p].state = "pending", order'[p].tenant = t,
         \A x \in Orders : x # p =>
           /\ order'[x].tenant = order[x].tenant /\ order'[x].saved = order[x].saved
           /\ \/ order'[x].state = order[x].state
              \/ /\ order[x].state \in {"pending", "expired"} /\ order[x].tenant = t
                 /\ order'[x].state = "expired"
  PROVE  IInv'
<1>1. Knows(r, tenant', order', session') BY DEF Knows
<1>2. Linked'
  <2>1. ASSUME NEW x \in Orders
        PROVE  IF order'[x].state = "unused"
               THEN order'[x].tenant = None /\ session'[x] = "none"
               ELSE order'[x].tenant \in Tenants /\ tenant'[order'[x].tenant].state # "unused"
    <3>1. CASE x = p BY <3>1
    <3>2. CASE x # p BY <3>2 DEF IInv, Safe, Linked
    <3> QED BY <3>1, <3>2
  <2> QED BY <2>1 DEF Linked
<1>3. \A x \in Orders :
        /\ order'[x].state = "paid" <=> order[x].state = "paid"
        /\ order[x].state = "paid" => order'[x].tenant = order[x].tenant
  OBVIOUS
<1>4. PaidFor'
  <2>1. \A x \in Orders : order'[x].state = "paid" =>
          /\ session'[x] \in {"complete", "ended"}
          /\ \/ tenant'[order'[x].tenant].job
             \/ tenant'[order'[x].tenant].state = "deleted"
    BY <1>3 DEF IInv, Safe, PaidFor
  <2>2. \A s \in Tenants : tenant'[s].job =>
          \E x \in Orders : order'[x].tenant = s /\ order'[x].state = "paid"
    BY <1>3 DEF IInv, Safe, PaidFor
  <2> QED BY <2>1, <2>2 DEF PaidFor
<1>5. ReservationHasOrder'
  <2>1. ASSUME NEW s \in Tenants, tenant'[s].state = "pending_payment"
        PROVE  Pending(s)' # {}
    <3>1. CASE s = t BY <3>1 DEF Pending
    <3>2. CASE s # t
      <4>1. PICK x \in Orders : order[x].tenant = s /\ order[x].state = "pending"
        BY <2>1 DEF IInv, Safe, ReservationHasOrder, Pending
      <4> QED BY <3>2, <4>1 DEF Pending
    <3> QED BY <3>1, <3>2
  <2> QED BY <2>1 DEF ReservationHasOrder
<1>6. PaidOrders' = PaidOrders /\ Occupants' = Occupants
  BY <1>3 DEF PaidOrders, Occupants, Active
<1>7. \A x \in PaidOrders : AccountOf(x)' = AccountOf(x)
  BY <1>3 DEF PaidOrders, AccountOf
<1>8. Paying' = Paying BY <1>6, <1>7 DEF Paying
<1>9. Late' = Late /\ Late \subseteq PaidOrders BY <1>3 DEF Late, PaidOrders
<1>10. {AccountOf(x) : x \in Late}' = {AccountOf(x) : x \in Late} BY <1>7, <1>9
<1>11. Counted' = Counted BY <1>6, <1>8, <1>10 DEF Counted
<1>12. \A x \in Orders : order[x].state # "unused" =>
         /\ order'[x].state # "unused"
         /\ order[x].saved => order'[x].saved
         /\ order[x].saved /\ session[x] = "expired" => session'[x] = "expired"
  OBVIOUS
<1>13. SweepKnows' BY <1>12 DEF IInv, Safe, SweepKnows
<1>14. session' \in [Orders -> {"none", "open", "complete", "expired", "ended"}]
  BY DEF IInv, TypeOK
<1>15. Counted' \subseteq Counted /\ Paying \subseteq Paying' BY <1>8, <1>11
<1>16. r.pc \notin {"counting", "joining", "ordering", "inserting"} OBVIOUS
<1> QED
  BY <1>1, <1>2, <1>4, <1>5, <1>12, <1>14, <1>15, <1>16, CallGoes

\* A request goes on with a pending order of a tenant, as it stands.
LEMMA ShowsStep ==
  ASSUME IInv, NEW c \in Calls, NEW t \in Tenants, NEW o \in Pending(t),
         UNCHANGED <<tenant, order, session, sweep, incidents>>,
         Opening(c, o, order[o].saved)
  PROVE  IInv'
<1> DEFINE r == [Idle EXCEPT !.pc = "opening", !.order = o, !.saved = order[o].saved]
<1>1. Goto(c, r) BY DEF Opening
<1>2. o \in Orders /\ order[o].state = "pending" BY DEF Pending
<1>3. order[o].saved \in BOOLEAN BY <1>2 DEF IInv, TypeOK, OrderRows
<1>4. r \in Requests /\ r.pc = "opening" /\ r.order = o /\ r.saved = order[o].saved
  BY <1>2, <1>3, RequestTypes
<1> HIDE DEF r
<1>5. Knows(r, tenant, order, session) BY <1>2, <1>4 DEF Knows
<1>6. r.pc \notin {"counting", "joining", "ordering", "inserting"} BY <1>4
<1> QED BY <1>1, <1>4, <1>5, <1>6, CallOnly

\* A request finds its tenant's order, or that there is none, and holds its account
\* still.
LEMMA FindsOrderStep ==
  ASSUME IInv, NEW c \in Calls, FindsOrder(c)
  PROVE  IInv'
<1>1. call[c].pc = "ordering" /\ UNCHANGED <<tenant, order, session, sweep, incidents>>
  BY DEF FindsOrder, rows
<1>2. PICK t \in Tenants : t = call[c].tenant /\ tenant[t].state # "unused"
  BY <1>1 DEF IInv, Safe, CallsKnow, Knows
<1>3. CASE \E o \in Pending(t) : Opening(c, o, order[o].saved)
  BY <1>1, <1>3, ShowsStep
<1>4. CASE Goto(c, [call[c] EXCEPT !.pc = "inserting"])
  <2> DEFINE r == [call[c] EXCEPT !.pc = "inserting"]
  <2>1. call[c] \in Requests BY DEF IInv, TypeOK
  <2>2. /\ r \in Requests /\ r.pc = "inserting" /\ r.account = call[c].account
        /\ r.tenant = t
    BY <1>2, <2>1 DEF Requests
  <2>3. call' = [call EXCEPT ![c] = r] BY <1>4 DEF Goto
  <2> HIDE DEF r
  <2>4. call'[c] = r /\ \A d \in Calls : d # c => call'[d] = call[d]
    BY <2>3 DEF IInv, TypeOK
  <2>5. TypeOK' BY <1>1, <2>2, <2>3 DEF IInv, TypeOK
  <2>6. Knows(r, tenant', order', session') BY <1>1, <1>2, <2>2 DEF Knows
  <2>7. CallsKnow' BY <1>1, <2>4, <2>6 DEF IInv, Safe, CallsKnow
  <2>8. SweepKnows' BY <1>1 DEF IInv, Safe, SweepKnows
  <2>9. \A d \in Calls :
          /\ d \in InTransaction' <=> d \in InTransaction
          /\ call'[d].account = call[d].account
          /\ call'[d].pc \in {"counting", "joining"} => call'[d] = call[d]
    BY <1>1, <2>2, <2>4 DEF InTransaction
  <2>10. Exclusive'
    <3>1. ASSUME NEW d \in InTransaction', NEW e \in InTransaction', d # e
          PROVE  /\ call'[d].account # call'[e].account
                 /\ ~(call'[d].pc = "joining" /\ call'[e].pc = "joining")
      <4>1. d \in Calls /\ e \in Calls BY DEF InTransaction
      <4>2. d \in InTransaction /\ e \in InTransaction BY <2>9, <4>1
      <4> QED BY <2>9, <3>1, <4>1, <4>2 DEF IInv, Safe, Exclusive
    <3>2. ASSUME NEW d \in Calls, call'[d].pc \in {"counting", "joining"},
                 NEW u \in Tenants, Active(u)'
          PROVE  tenant'[u].account # call'[d].account
      <4>1. Active(u) BY <1>1, <3>2 DEF Active
      <4>2. call'[d] = call[d] BY <2>9, <3>2
      <4> QED BY <1>1, <3>2, <4>1, <4>2 DEF IInv, Safe, Exclusive
    <3> QED BY <3>1, <3>2 DEF Exclusive
  <2>11. \A o \in Orders :
           /\ order'[o].state = order[o].state /\ order'[o].tenant = order[o].tenant
           /\ session'[o] # session[o] => order[o].state # "unused"
           /\ order[o].state = "paid" => session'[o] \in {"complete", "ended"}
    BY <1>1 DEF IInv, Safe, PaidFor
  <2>12. /\ Linked' /\ PaidFor' /\ ReservationHasOrder'
         /\ Counted' \subseteq Counted /\ Paying \subseteq Paying'
    BY <1>1, <2>11, RowsKept
  <2>13. \A d \in Calls : call'[d].pc = "joining" => call'[d] = call[d]
    BY <2>9
  <2>14. PlacesKept' BY <2>12, <2>13, PlacesStay
  <2> QED BY <2>5, <2>7, <2>8, <2>10, <2>12, <2>14 DEF IInv, Safe
<1> QED BY <1>2, <1>3, <1>4 DEF FindsOrder

\* A request makes an order for its tenant.
LEMMA MakesOrderStep ==
  ASSUME IInv, NEW c \in Calls, MakesOrder(c)
  PROVE  IInv'
<1>1. call[c].pc = "inserting" /\ UNCHANGED <<tenant, session, sweep, incidents>>
  BY DEF MakesOrder
<1>2. PICK t \in Tenants : t = call[c].tenant /\ tenant[t].state # "unused"
  BY <1>1 DEF IInv, Safe, CallsKnow, Knows
<1>3. PICK p \in Orders : Inserts(p, t) /\ Opening(c, p, FALSE)
  BY <1>2 DEF MakesOrder
<1> DEFINE n == [state |-> "pending", tenant |-> t, saved |-> FALSE, old |-> FALSE]
<1>4. order[p].state = "unused" /\ order' = [order EXCEPT ![p] = n]
  BY <1>3, NoneApart DEF Inserts, NewOrder
<1>5. n \in OrderRows /\ n.state = "pending" /\ n.tenant = t BY DEF OrderRows
<1> HIDE DEF n
<1>6. /\ order' \in [Orders -> OrderRows]
      /\ order'[p] = n /\ \A x \in Orders : x # p => order'[x] = order[x]
  BY <1>4, <1>5 DEF IInv, TypeOK
<1>7. \A x \in Orders : x # p =>
        /\ order'[x].tenant = order[x].tenant /\ order'[x].saved = order[x].saved
        /\ \/ order'[x].state = order[x].state
           \/ /\ order[x].state \in {"pending", "expired"} /\ order[x].tenant = t
              /\ order'[x].state = "expired"
  BY <1>6
<1>8. order'[p].state = "pending" /\ order'[p].tenant = t BY <1>5, <1>6
<1> DEFINE r == [Idle EXCEPT !.pc = "opening", !.order = p, !.saved = FALSE]
<1>9. Goto(c, r) BY <1>3 DEF Opening
<1>10. r \in Requests /\ r.pc = "opening" /\ r.order = p /\ r.saved = FALSE
  BY RequestTypes
<1> HIDE DEF r
<1>11. order[p].state = "unused" /\ order' \in [Orders -> OrderRows] BY <1>4, <1>6
<1> QED BY <1>1, <1>2, <1>7, <1>8, <1>9, <1>10, <1>11, InsertsStep

\* An order whose session expired gives way to another, or is held to be renewed.
LEMMA ReplacesStep ==
  ASSUME IInv, NEW c \in Calls, Replaces(c)
  PROVE  IInv'
<1>1. call[c].pc = "replacing" /\ UNCHANGED <<tenant, order, session, sweep, incidents>>
  BY DEF Replaces, rows
<1>2. Knows(call[c], tenant, order, session) BY DEF IInv, Safe, CallsKnow
<1>3. PICK o \in Orders : o = call[c].order /\ order[o].state # "unused"
  BY <1>1, <1>2 DEF Knows
<1>4. PICK t \in Tenants : t = order[o].tenant BY <1>3 DEF IInv, Safe, Linked
<1>5. CASE \E p \in Pending(t) : Opening(c, p, order[p].saved)
  BY <1>1, <1>5, ShowsStep
<1>6. CASE Goto(c, [call[c] EXCEPT !.pc = "renewing"])
  <2> DEFINE r == [call[c] EXCEPT !.pc = "renewing"]
  <2>1. call[c] \in Requests BY DEF IInv, TypeOK
  <2>2. r \in Requests /\ r.pc = "renewing" /\ r.order = call[c].order
    BY <2>1 DEF Requests
  <2>3. Goto(c, r) BY <1>6
  <2> HIDE DEF r
  <2>4. Knows(r, tenant, order, session) BY <1>1, <1>2, <2>2 DEF Knows
  <2>5. r.pc \notin {"counting", "joining", "ordering", "inserting"} BY <2>2
  <2> QED BY <1>1, <2>2, <2>3, <2>4, <2>5, CallOnly
<1> QED BY <1>3, <1>4, <1>5, <1>6 DEF Replaces

\* An order whose session expired is renewed.
LEMMA RenewsStep ==
  ASSUME IInv, NEW c \in Calls, Renews(c)
  PROVE  IInv'
<1>1. call[c].pc = "renewing" /\ UNCHANGED <<tenant, session, sweep, incidents>>
  BY DEF Renews
<1>2. PICK o \in Orders :
        o = call[c].order /\ order[o].state # "unused" /\ session[o] = "expired"
  BY <1>1 DEF IInv, Safe, CallsKnow, Knows
<1>3. PICK t \in Tenants : t = order[o].tenant /\ tenant[t].state # "unused"
  BY <1>2 DEF IInv, Safe, Linked
<1>4. order[o].state \in {"pending", "expired"}
  <2>1. order[o].state # "paid" BY <1>2 DEF IInv, Safe, PaidFor
  <2>2. order[o] \in OrderRows BY <1>2 DEF IInv, TypeOK
  <2> QED BY <1>2, <2>1, <2>2 DEF OrderRows
<1> DEFINE n == [state |-> "pending", tenant |-> t, saved |-> FALSE, old |-> FALSE]
           e == [order[o] EXCEPT !.state = "expired"]
<1>5. PICK p \in Orders :
        /\ NewOrder(p) /\ Opening(c, p, FALSE)
        /\ order' = [order EXCEPT ![o].state = "expired", ![p] = n]
  BY <1>2, <1>3 DEF Renews
<1>6. order[p].state = "unused" /\ p # o
  BY <1>2, <1>5, NoneApart DEF NewOrder
<1>7. n \in OrderRows /\ n.state = "pending" /\ n.tenant = t BY DEF OrderRows
<1>8. /\ e \in OrderRows /\ e.state = "expired"
      /\ e.tenant = t /\ e.saved = order[o].saved
  <2>1. order[o] \in OrderRows BY <1>2 DEF IInv, TypeOK
  <2> QED BY <1>3, <2>1 DEF OrderRows
<1>9. order' = [order EXCEPT ![o] = e, ![p] = n] BY <1>2, <1>5
<1> HIDE DEF n, e
<1>10. /\ order' \in [Orders -> OrderRows]
       /\ order'[p] = n /\ order'[o] = e
       /\ \A x \in Orders : x # p /\ x # o => order'[x] = order[x]
  BY <1>6, <1>7, <1>8, <1>9 DEF IInv, TypeOK
<1>11. \A x \in Orders : x # p =>
         /\ order'[x].tenant = order[x].tenant /\ order'[x].saved = order[x].saved
         /\ \/ order'[x].state = order[x].state
            \/ /\ order[x].state \in {"pending", "expired"} /\ order[x].tenant = t
               /\ order'[x].state = "expired"
  BY <1>3, <1>4, <1>8, <1>10
<1>12. order'[p].state = "pending" /\ order'[p].tenant = t BY <1>7, <1>10
<1> DEFINE r == [Idle EXCEPT !.pc = "opening", !.order = p, !.saved = FALSE]
<1>13. Goto(c, r) BY <1>5 DEF Opening
<1>14. r \in Requests /\ r.pc = "opening" /\ r.order = p /\ r.saved = FALSE
  BY RequestTypes
<1> HIDE DEF r
<1> QED BY <1>1, <1>3, <1>6, <1>10, <1>11, <1>12, <1>13, <1>14, InsertsStep

\* A request looks its order's session up.
LEMMA LooksUpStep ==
  ASSUME IInv, NEW c \in Calls, LooksUp(c)
  PROVE  IInv'
<1>1. /\ call[c].pc = "opening" /\ call[c].saved
      /\ UNCHANGED <<tenant, order, session, sweep, incidents>>
  BY DEF LooksUp, rows
<1>2. CASE session[call[c].order] = "expired"
  <2> DEFINE r == [call[c] EXCEPT !.pc = "replacing"]
  <2>1. call[c] \in Requests BY DEF IInv, TypeOK
  <2>2. r \in Requests /\ r.pc = "replacing" /\ r.order = call[c].order
    BY <2>1 DEF Requests
  <2>3. Goto(c, r) BY <1>2 DEF LooksUp
  <2> HIDE DEF r
  <2>4. Knows(call[c], tenant, order, session) BY DEF IInv, Safe, CallsKnow
  <2>5. Knows(r, tenant, order, session) BY <1>1, <1>2, <2>2, <2>4 DEF Knows
  <2>6. r.pc \notin {"counting", "joining", "ordering", "inserting"} BY <2>2
  <2> QED BY <1>1, <2>2, <2>3, <2>5, <2>6, CallOnly
<1>3. CASE session[call[c].order] # "expired"
  BY <1>1, <1>3, EndsStep DEF LooksUp
<1> QED BY <1>2, <1>3

\* A request asks Stripe for its order's session.
LEMMA CreatesStep ==
  ASSUME IInv, NEW c \in Calls, Creates(c)
  PROVE  IInv'
<1> DEFINE o == call[c].order
           r == [call[c] EXCEPT !.pc = "saving"]
<1>1. /\ call[c].pc = "opening" /\ UNCHANGED <<tenant, order, sweep, incidents>>
      /\ Goto(c, r)
  BY DEF Creates, rows
<1>2. o \in Orders /\ order[o].state # "unused"
  BY <1>1 DEF IInv, Safe, CallsKnow, Knows
<1>3. PICK s \in {"none", "open", "complete", "expired", "ended"} :
        /\ session' = [session EXCEPT ![o] = s]
        /\ \/ session[o] = "none"
           \/ session[o] = "expired" /\ ~order[o].saved
           \/ session[o] = s
  <2>1. session[o] \in {"none", "open", "complete", "expired", "ended"}
    BY <1>2 DEF IInv, TypeOK
  <2>2. CASE session[o] = "none" BY <2>2 DEF Creates
  <2>3. CASE session[o] = "expired" /\ order[o].old /\ ~order[o].saved
    BY <2>3 DEF Creates
  <2>4. CASE session[o] # "none" /\ ~(session[o] = "expired" /\ order[o].old /\ ~order[o].saved)
    BY <2>1, <2>4 DEF Creates
  <2> QED BY <2>2, <2>3, <2>4
<1>4. r \in Requests /\ r.pc = "saving" /\ r.order = o
  <2>1. call[c] \in Requests BY DEF IInv, TypeOK
  <2> QED BY <2>1 DEF Requests
<1> HIDE DEF r, o
<1>5. /\ session' \in [Orders -> {"none", "open", "complete", "expired", "ended"}]
      /\ session'[o] = s /\ \A x \in Orders : x # o => session'[x] = session[x]
  BY <1>2, <1>3 DEF IInv, TypeOK
<1>6. \A x \in Orders : order[x].state = "paid" => session[x] \in {"complete", "ended"}
  BY DEF IInv, Safe, PaidFor
<1>7. \A x \in Orders :
        /\ order'[x].state = order[x].state /\ order'[x].tenant = order[x].tenant
        /\ session'[x] # session[x] => order[x].state # "unused"
        /\ order[x].state = "paid" => session'[x] \in {"complete", "ended"}
  BY <1>1, <1>2, <1>3, <1>5, <1>6
<1>8. /\ Linked' /\ PaidFor' /\ ReservationHasOrder'
      /\ Counted' \subseteq Counted /\ Paying \subseteq Paying'
  BY <1>1, <1>7, RowsKept
<1>9. Knows(r, tenant', order', session') BY <1>1, <1>2, <1>4 DEF Knows
<1>10. \A x \in Orders : order[x].state # "unused" =>
         /\ order'[x].state # "unused"
         /\ order[x].saved => order'[x].saved
         /\ order[x].saved /\ session[x] = "expired" => session'[x] = "expired"
  BY <1>1, <1>3, <1>5
<1>11. order' \in [Orders -> OrderRows] BY <1>1 DEF IInv, TypeOK
<1>12. r.pc \notin {"counting", "joining", "ordering", "inserting"} BY <1>4
<1> QED BY <1>1, <1>4, <1>5, <1>8, <1>9, <1>10, <1>11, <1>12, CallGoes

\* A request saves its order's session and ends.
LEMMA SavesStep ==
  ASSUME IInv, NEW c \in Calls, Saves(c)
  PROVE  IInv'
<1> DEFINE o == call[c].order
           e == [order[o] EXCEPT !.saved = TRUE]
<1>1. /\ call[c].pc = "saving" /\ UNCHANGED <<tenant, session, sweep, incidents>>
      /\ order' = [order EXCEPT ![o].saved = TRUE] /\ Goto(c, Idle)
  BY DEF Saves
<1>2. o \in Orders /\ order[o].state # "unused"
  BY <1>1 DEF IInv, Safe, CallsKnow, Knows
<1>3. /\ e \in OrderRows /\ e.state = order[o].state /\ e.tenant = order[o].tenant
      /\ e.saved = TRUE
  <2>1. order[o] \in OrderRows BY <1>2 DEF IInv, TypeOK
  <2> QED BY <2>1 DEF OrderRows
<1>4. order' = [order EXCEPT ![o] = e] BY <1>1
<1> HIDE DEF e, o
<1>5. /\ order' \in [Orders -> OrderRows]
      /\ order'[o] = e /\ \A x \in Orders : x # o => order'[x] = order[x]
  BY <1>2, <1>3, <1>4 DEF IInv, TypeOK
<1>6. \A x \in Orders : order[x].state = "paid" => session[x] \in {"complete", "ended"}
  BY DEF IInv, Safe, PaidFor
<1>7. \A x \in Orders :
        /\ order'[x].state = order[x].state /\ order'[x].tenant = order[x].tenant
        /\ session'[x] # session[x] => order[x].state # "unused"
        /\ order[x].state = "paid" => session'[x] \in {"complete", "ended"}
  BY <1>1, <1>3, <1>5, <1>6
<1>8. /\ Linked' /\ PaidFor' /\ ReservationHasOrder'
      /\ Counted' \subseteq Counted /\ Paying \subseteq Paying'
  BY <1>1, <1>7, RowsKept
<1>9. \A x \in Orders : order[x].state # "unused" =>
        /\ order'[x].state # "unused"
        /\ order[x].saved => order'[x].saved
        /\ order[x].saved /\ session[x] = "expired" => session'[x] = "expired"
  BY <1>1, <1>3, <1>5
<1>10. session' \in [Orders -> {"none", "open", "complete", "expired", "ended"}]
  BY <1>1 DEF IInv, TypeOK
<1>11. /\ Idle \in Requests /\ Idle.pc \notin {"counting", "joining", "ordering", "inserting"}
       /\ Knows(Idle, tenant', order', session')
  BY RequestTypes
<1> QED BY <1>1, <1>5, <1>8, <1>9, <1>10, <1>11, CallGoes

-----------------------------------------------------------------------------
(* The clean-up, and tenants that leave *)

\* Tenants are deleted and pending orders expire, and nothing else becomes of
\* either.
LEMMA GoesStep ==
  ASSUME IInv, UNCHANGED <<session, call>>,
         incidents' \subseteq Orders, sweep' \in [order : Orders \cup {None}, saved : BOOLEAN],
         SweepKnows', ReservationHasOrder',
         tenant' \in [Tenants -> TenantRows], order' \in [Orders -> OrderRows],
         \A t \in Tenants :
           /\ tenant'[t].account = tenant[t].account /\ tenant'[t].job = tenant[t].job
           /\ \/ tenant'[t].state = tenant[t].state
              \/ tenant[t].state # "unused" /\ tenant'[t].state = "deleted",
         \A o \in Orders :
           /\ order'[o].tenant = order[o].tenant /\ order'[o].saved = order[o].saved
           /\ \/ order'[o].state = order[o].state
              \/ order[o].state = "pending" /\ order'[o].state = "expired"
  PROVE  IInv'
<1>1. TypeOK' BY DEF IInv, TypeOK
<1>2. Linked' BY DEF IInv, Safe, Linked
<1>3. \A o \in Orders :
        /\ order'[o].state = "paid" <=> order[o].state = "paid"
        /\ order[o].state = "paid" => order[o].tenant \in Tenants
  BY DEF IInv, Safe, Linked
<1>4. PaidFor'
  <2>1. \A o \in Orders : order'[o].state = "paid" =>
          /\ session'[o] \in {"complete", "ended"}
          /\ \/ tenant'[order'[o].tenant].job
             \/ tenant'[order'[o].tenant].state = "deleted"
    BY <1>3 DEF IInv, Safe, PaidFor
  <2>2. \A t \in Tenants : tenant'[t].job =>
          \E o \in Orders : order'[o].tenant = t /\ order'[o].state = "paid"
    BY <1>3 DEF IInv, Safe, PaidFor
  <2> QED BY <2>1, <2>2 DEF PaidFor
<1>5. PaidOrders' = PaidOrders BY <1>3 DEF PaidOrders
<1>6. \A o \in PaidOrders : AccountOf(o)' = AccountOf(o)
  BY <1>3 DEF PaidOrders, AccountOf
<1>7. Paying' = Paying BY <1>5, <1>6 DEF Paying
<1>8. Occupants' \subseteq Occupants BY DEF Occupants, Active
<1>9. Late' = Late /\ Late \subseteq PaidOrders BY <1>3 DEF Late, PaidOrders
<1>10. {AccountOf(o) : o \in Late}' = {AccountOf(o) : o \in Late} BY <1>6, <1>9
<1>11. Counted' \subseteq Counted /\ Paying \subseteq Paying'
  BY <1>7, <1>8, <1>10 DEF Counted
<1>12. \A t \in Tenants :
         /\ tenant[t].state # "unused" => tenant'[t].state # "unused"
         /\ tenant'[t].state \in {"pending_payment", "provisioning"}
              => Active(t) /\ tenant'[t].account = tenant[t].account
  BY DEF Active
<1>13. \A o \in Orders : order[o].state # "unused" =>
         /\ order'[o].state # "unused"
         /\ order[o].saved => order'[o].saved
         /\ order[o].saved /\ session[o] = "expired" => session'[o] = "expired"
  OBVIOUS
<1>14. \A c \in Calls :
         \/ call'[c] = call[c]
         \/ /\ call'[c].pc \notin {"counting", "joining", "ordering", "inserting"}
            /\ Knows(call'[c], tenant', order', session')
  OBVIOUS
<1> QED BY <1>1, <1>2, <1>4, <1>11, <1>12, <1>13, <1>14, Quiet

\* The same where the rows stay.
LEMMA RowsStay ==
  ASSUME IInv, UNCHANGED <<tenant, order, session, call>>,
         incidents' \subseteq Orders, sweep' \in [order : Orders \cup {None}, saved : BOOLEAN],
         SweepKnows'
  PROVE  IInv'
<1>1. ReservationHasOrder' BY DEF IInv, Safe, ReservationHasOrder, Pending
<1>2. tenant' \in [Tenants -> TenantRows] /\ order' \in [Orders -> OrderRows]
  BY DEF IInv, TypeOK
<1>3. \A t \in Tenants :
        /\ tenant'[t].account = tenant[t].account /\ tenant'[t].job = tenant[t].job
        /\ \/ tenant'[t].state = tenant[t].state
           \/ tenant[t].state # "unused" /\ tenant'[t].state = "deleted"
  OBVIOUS
<1>4. \A o \in Orders :
        /\ order'[o].tenant = order[o].tenant /\ order'[o].saved = order[o].saved
        /\ \/ order'[o].state = order[o].state
           \/ order[o].state = "pending" /\ order'[o].state = "expired"
  OBVIOUS
<1> QED BY <1>1, <1>2, <1>3, <1>4, GoesStep

\* A tenant that is not paid for any more is deleted.
LEMMA LeavesStep ==
  ASSUME IInv, NEW t \in Tenants, Leaves(t)
  PROVE  IInv'
<1> DEFINE w == [tenant[t] EXCEPT !.state = "deleted"]
<1>1. /\ tenant[t].state = "provisioning" /\ tenant' = [tenant EXCEPT ![t] = w]
      /\ UNCHANGED <<order, session, call, sweep, incidents>>
  BY DEF Leaves
<1>2. /\ w \in TenantRows /\ w.state = "deleted"
      /\ w.account = tenant[t].account /\ w.job = tenant[t].job
  <2>1. tenant[t] \in TenantRows BY DEF IInv, TypeOK
  <2> QED BY <2>1 DEF TenantRows
<1> HIDE DEF w
<1>3. /\ tenant' \in [Tenants -> TenantRows]
      /\ tenant'[t] = w /\ \A s \in Tenants : s # t => tenant'[s] = tenant[s]
  BY <1>1, <1>2 DEF IInv, TypeOK
<1>4. \A s \in Tenants :
        /\ tenant'[s].account = tenant[s].account /\ tenant'[s].job = tenant[s].job
        /\ \/ tenant'[s].state = tenant[s].state
           \/ tenant[s].state # "unused" /\ tenant'[s].state = "deleted"
  BY <1>1, <1>2, <1>3
<1>5. ReservationHasOrder'
  BY <1>1, <1>2, <1>3 DEF IInv, Safe, ReservationHasOrder, Pending
<1>6. /\ SweepKnows' /\ order' \in [Orders -> OrderRows] /\ incidents' \subseteq Orders
      /\ sweep' \in [order : Orders \cup {None}, saved : BOOLEAN]
  BY <1>1 DEF IInv, Safe, SweepKnows, TypeOK
<1>7. \A o \in Orders :
        /\ order'[o].tenant = order[o].tenant /\ order'[o].saved = order[o].saved
        /\ \/ order'[o].state = order[o].state
           \/ order[o].state = "pending" /\ order'[o].state = "expired"
  BY <1>1
<1> QED BY <1>1, <1>3, <1>4, <1>5, <1>6, <1>7, GoesStep

\* The clean-up closes the order, and deletes a tenant that has no other.
LEMMA CleansStep ==
  ASSUME IInv, Cleans
  PROVE  IInv'
<1> DEFINE o == sweep.order
           t == order[o].tenant
           e == [order[o] EXCEPT !.state = "expired"]
           w == [tenant[t] EXCEPT !.state = "deleted"]
<1>1. /\ sweep # NoSweep /\ sweep' = NoSweep
      /\ order' = IF order[o].state = "pending" THEN [order EXCEPT ![o] = e] ELSE order
      /\ tenant' = IF tenant[t].state = "pending_payment" /\ Pending(t) \subseteq {o}
                   THEN [tenant EXCEPT ![t] = w] ELSE tenant
      /\ UNCHANGED <<session, call, incidents>>
  BY DEF Cleans
<1>2. o \in Orders /\ t \in Tenants /\ order[o] \in OrderRows /\ tenant[t] \in TenantRows
  BY <1>1 DEF IInv, TypeOK, Safe, SweepKnows, Linked
<1>3. /\ e \in OrderRows /\ e.state = "expired"
      /\ e.tenant = t /\ e.saved = order[o].saved
  BY <1>2 DEF OrderRows
<1>4. /\ w \in TenantRows /\ w.state = "deleted"
      /\ w.account = tenant[t].account /\ w.job = tenant[t].job
  BY <1>2 DEF TenantRows
<1> HIDE DEF e, w, o
<1>5. /\ order' \in [Orders -> OrderRows]
      /\ \A p \in Orders : p # o => order'[p] = order[p]
      /\ order'[o] = order[o] \/ (order[o].state = "pending" /\ order'[o] = e)
  BY <1>1, <1>2, <1>3 DEF IInv, TypeOK
<1> DEFINE gone == tenant[t].state = "pending_payment" /\ Pending(t) \subseteq {o}
<1> HIDE DEF t
<1>6. /\ tenant' \in [Tenants -> TenantRows]
      /\ \A s \in Tenants : s # t => tenant'[s] = tenant[s]
      /\ gone => tenant'[t] = w
      /\ ~gone => tenant'[t] = tenant[t]
  <2>1. CASE gone BY <1>1, <1>2, <1>4, <2>1 DEF IInv, TypeOK
  <2>2. CASE ~gone BY <1>1, <1>2, <2>2 DEF IInv, TypeOK
  <2> QED BY <2>1, <2>2
<1>7. \A s \in Tenants :
        /\ tenant'[s].account = tenant[s].account /\ tenant'[s].job = tenant[s].job
        /\ \/ tenant'[s].state = tenant[s].state
           \/ tenant[s].state # "unused" /\ tenant'[s].state = "deleted"
  BY <1>4, <1>6
<1>8. \A p \in Orders :
        /\ order'[p].tenant = order[p].tenant /\ order'[p].saved = order[p].saved
        /\ \/ order'[p].state = order[p].state
           \/ order[p].state = "pending" /\ order'[p].state = "expired"
  BY <1>3, <1>5 DEF t
<1>9. ReservationHasOrder'
  <2>1. ASSUME NEW s \in Tenants, tenant'[s].state = "pending_payment"
        PROVE  Pending(s)' # {}
    <3>1. tenant[s].state = "pending_payment" /\ ~(s = t /\ Pending(t) \subseteq {o})
      BY <1>4, <1>6, <2>1
    <3>2. PICK p \in Pending(s) : p # o
      <4>1. CASE s = t BY <3>1, <4>1
      <4>2. CASE s # t
        BY <3>1, <4>2 DEF IInv, Safe, ReservationHasOrder, Pending, t
      <4> QED BY <4>1, <4>2
    <3> QED BY <1>5, <3>2 DEF Pending
  <2> QED BY <2>1 DEF ReservationHasOrder
<1>10. /\ SweepKnows' /\ incidents' \subseteq Orders
       /\ sweep' \in [order : Orders \cup {None}, saved : BOOLEAN]
  BY <1>1 DEF IInv, SweepKnows, NoSweep, TypeOK
<1> QED BY <1>1, <1>5, <1>6, <1>7, <1>8, <1>9, <1>10, GoesStep

\* The clean-up is given up.
LEMMA SweepFailsStep ==
  ASSUME IInv, SweepFails
  PROVE  IInv'
<1>1. sweep' = NoSweep /\ UNCHANGED <<tenant, order, session, call, incidents>>
  BY DEF SweepFails, rows
<1>2. /\ SweepKnows' /\ incidents' \subseteq Orders
      /\ sweep' \in [order : Orders \cup {None}, saved : BOOLEAN]
  BY <1>1 DEF IInv, SweepKnows, NoSweep, TypeOK
<1> QED BY <1>1, <1>2, RowsStay

-----------------------------------------------------------------------------
(* The reconciliation *)

\* The payment of an order: it is paid and its tenant, unless it was deleted, gets
\* a job. Whoever comes to count by it has paid before, or pays too late.
LEMMA PaymentStep ==
  ASSUME IInv, UNCHANGED <<session, call, sweep, incidents>>,
         NEW o \in Orders, session[o] = "complete",
         NEW t \in Tenants, order[o].tenant = t, order[o].state # "unused",
         tenant' \in [Tenants -> TenantRows], order' \in [Orders -> OrderRows],
         \A s \in Tenants : s # t => tenant'[s] = tenant[s],
         tenant'[t].account = tenant[t].account,
         tenant'[t].state
           = IF tenant[t].state = "pending_payment" THEN "provisioning" ELSE tenant[t].state,
         tenant'[t].job <=> (tenant[t].job \/ Active(t)),
         \A p \in Orders : p # o => order'[p] = order[p],
         order'[o].state = "paid", order'[o].tenant = t, order'[o].saved = order[o].saved
  PROVE  IInv'
<1>1. TypeOK' BY DEF IInv, TypeOK
<1>2. tenant[t].state \in {"pending_payment", "provisioning", "deleted"}
  <2>1. tenant[t] \in TenantRows BY DEF IInv, TypeOK
  <2>2. tenant[t].state # "unused" BY DEF IInv, Safe, Linked
  <2> QED BY <2>1, <2>2 DEF TenantRows
<1>3. /\ tenant'[t].state # "unused"
      /\ tenant'[t].state # "pending_payment"
      /\ ~Active(t) <=> tenant[t].state = "deleted"
      /\ ~Active(t) => tenant'[t].state = "deleted"
      /\ Active(t)' <=> Active(t)
  BY <1>2 DEF Active
<1>4. Linked'
  <2>1. ASSUME NEW p \in Orders
        PROVE  IF order'[p].state = "unused"
               THEN order'[p].tenant = None /\ session'[p] = "none"
               ELSE order'[p].tenant \in Tenants /\ tenant'[order'[p].tenant].state # "unused"
    <3>1. CASE p = o BY <1>3, <3>1
    <3>2. CASE p # o BY <1>3, <3>2 DEF IInv, Safe, Linked
    <3> QED BY <3>1, <3>2
  <2> QED BY <2>1 DEF Linked
<1>5. \A p \in Orders : order[p].state = "paid" =>
        /\ order'[p].state = "paid" /\ order'[p].tenant = order[p].tenant
        /\ order[p].tenant \in Tenants
        /\ \/ tenant[order[p].tenant].job
           \/ tenant[order[p].tenant].state = "deleted"
        /\ session[p] \in {"complete", "ended"}
  BY DEF IInv, Safe, Linked, PaidFor
<1>6. PaidFor'
  <2>1. ASSUME NEW p \in Orders, order'[p].state = "paid"
        PROVE  /\ session'[p] \in {"complete", "ended"}
               /\ \/ tenant'[order'[p].tenant].job
                  \/ tenant'[order'[p].tenant].state = "deleted"
    <3>1. CASE p = o BY <1>3, <3>1
    <3>2. CASE p # o
      <4>1. order[p].state = "paid" BY <2>1, <3>2
      <4>2. CASE order[p].tenant = t BY <1>3, <1>5, <4>1, <4>2 DEF Active
      <4>3. CASE order[p].tenant # t BY <1>5, <4>1, <4>3
      <4> QED BY <4>2, <4>3
    <3> QED BY <3>1, <3>2
  <2>2. ASSUME NEW s \in Tenants, tenant'[s].job
        PROVE  \E p \in Orders : order'[p].tenant = s /\ order'[p].state = "paid"
    <3>1. CASE s = t BY <3>1
    <3>2. CASE s # t
      <4>1. PICK p \in Orders : order[p].tenant = s /\ order[p].state = "paid"
        BY <2>2, <3>2 DEF IInv, Safe, PaidFor
      <4> QED BY <1>5, <4>1
    <3> QED BY <3>1, <3>2
  <2> QED BY <2>1, <2>2 DEF PaidFor
<1>7. ReservationHasOrder'
  <2>1. ASSUME NEW s \in Tenants, tenant'[s].state = "pending_payment"
        PROVE  Pending(s)' # {}
    <3>1. s # t /\ tenant[s].state = "pending_payment" BY <1>3, <2>1
    <3>2. PICK p \in Orders : order[p].tenant = s /\ order[p].state = "pending"
      BY <3>1 DEF IInv, Safe, ReservationHasOrder, Pending
    <3> QED BY <3>1, <3>2 DEF Pending
  <2> QED BY <2>1 DEF ReservationHasOrder
<1>8. \A s \in Tenants : tenant'[s].account = tenant[s].account
  OBVIOUS
<1>9. Occupants' = Occupants BY <1>3, <1>8 DEF Occupants, Active
<1>10. /\ PaidOrders' = PaidOrders \cup {o}
       /\ \A p \in PaidOrders' : AccountOf(p)' = AccountOf(p)
  <2>1. PaidOrders' = PaidOrders \cup {o} BY <1>5 DEF PaidOrders
  <2>2. AccountOf(o)' = AccountOf(o) BY <1>8 DEF AccountOf
  <2>3. \A p \in PaidOrders : AccountOf(p)' = AccountOf(p)
    BY <1>5, <1>8 DEF PaidOrders, AccountOf
  <2> QED BY <2>1, <2>2, <2>3
<1>11. Paying' = Paying \cup {AccountOf(o)} BY <1>10 DEF Paying
<1>12. Late \subseteq Late'
  <2> SUFFICES ASSUME NEW p \in Orders, order[p].state = "paid",
                      ~tenant[order[p].tenant].job
               PROVE  order'[p].state = "paid" /\ ~tenant'[order'[p].tenant].job
    BY DEF Late
  <2>1. CASE order[p].tenant = t BY <1>3, <1>5, <2>1
  <2>2. CASE order[p].tenant # t BY <1>5, <2>2
  <2> QED BY <2>1, <2>2
<1>13. Late' \subseteq PaidOrders' /\ Late \subseteq PaidOrders
  BY DEF Late, PaidOrders
<1>14. Counted' \subseteq Counted
  <2> SUFFICES ASSUME NEW a \in Counted' PROVE a \in Counted OBVIOUS
  <2>1. a \in Occupants \cup Paying \cup {AccountOf(o)}
        /\ a \notin {AccountOf(p)' : p \in Late'}
    BY <1>9, <1>11 DEF Counted
  <2>2. \A p \in Late : AccountOf(p) # a
    BY <1>10, <1>12, <1>13, <2>1
  <2>3. CASE a = AccountOf(o)
    <3>1. a = tenant[t].account BY <2>3 DEF AccountOf
    <3>2. CASE Active(t) BY <2>2, <3>1, <3>2 DEF Counted, Occupants
    <3>3. CASE ~Active(t) /\ tenant[t].job
      <4>1. PICK p \in Orders : order[p].tenant = t /\ order[p].state = "paid"
        BY <3>3 DEF IInv, Safe, PaidFor
      <4>2. p \in PaidOrders /\ AccountOf(p) = a
        BY <3>1, <4>1 DEF PaidOrders, AccountOf
      <4> QED BY <2>2, <4>2 DEF Counted, Paying
    <3>4. CASE ~Active(t) /\ ~tenant[t].job
      <4>1. o \in Late' BY <3>4 DEF Late
      <4>2. AccountOf(o)' = a BY <1>10, <2>3
      <4> QED BY <2>1, <4>1, <4>2
    <3> QED BY <3>2, <3>3, <3>4
  <2>4. CASE a # AccountOf(o) BY <2>1, <2>2, <2>4 DEF Counted
  <2> QED BY <2>3, <2>4
<1>15. Paying \subseteq Paying' BY <1>11
<1>16. \A s \in Tenants :
         /\ tenant[s].state # "unused" => tenant'[s].state # "unused"
         /\ tenant'[s].state \in {"pending_payment", "provisioning"}
              => Active(s) /\ tenant'[s].account = tenant[s].account
  <2> SUFFICES ASSUME NEW s \in Tenants
               PROVE  /\ tenant[s].state # "unused" => tenant'[s].state # "unused"
                      /\ tenant'[s].state \in {"pending_payment", "provisioning"}
                           => Active(s) /\ tenant'[s].account = tenant[s].account
    OBVIOUS
  <2>1. CASE s = t BY <1>3, <2>1
  <2>2. CASE s # t BY <2>2 DEF Active
  <2> QED BY <2>1, <2>2
<1>17. \A p \in Orders : order[p].state # "unused" =>
         /\ order'[p].state # "unused"
         /\ order[p].saved => order'[p].saved
         /\ order[p].saved /\ session[p] = "expired" => session'[p] = "expired"
  OBVIOUS
<1>18. \A c \in Calls :
         \/ call'[c] = call[c]
         \/ /\ call'[c].pc \notin {"counting", "joining", "ordering", "inserting"}
            /\ Knows(call'[c], tenant', order', session')
  OBVIOUS
<1>19. SweepKnows' BY <1>17 DEF IInv, Safe, SweepKnows
<1> QED
  BY <1>1, <1>4, <1>6, <1>7, <1>14, <1>15, <1>16, <1>17, <1>18, <1>19, Quiet

\* The reconciliation of a subscription.
LEMMA ReconciledStep ==
  ASSUME IInv, NEW o \in Orders, session[o] \in {"complete", "ended"}, Reconciled(o),
         UNCHANGED <<session, call, sweep>>
  PROVE  IInv'
<1> DEFINE t == order[o].tenant
<1>1. order[o].state # "unused" BY DEF IInv, Safe, Linked
<1>2. t \in Tenants /\ order[o] \in OrderRows /\ tenant[t] \in TenantRows
  BY <1>1 DEF IInv, Safe, Linked, TypeOK
<1>3. SweepKnows' /\ sweep' \in [order : Orders \cup {None}, saved : BOOLEAN]
  <2>1. CASE order' = order BY <2>1 DEF IInv, Safe, SweepKnows, TypeOK
  <2>2. CASE order' = [order EXCEPT ![o].state = "paid"]
    <3>1. \A p \in Orders : order'[p].state \in {order[p].state, "paid"}
      BY <2>2 DEF IInv, TypeOK, OrderRows
    <3> QED BY <3>1 DEF IInv, Safe, SweepKnows, TypeOK
  <2> QED BY <2>1, <2>2 DEF Reconciled, rows
<1>4. CASE tenant[t].sub \notin {None, o}
  <2>1. incidents' = incidents \cup {o} /\ UNCHANGED <<tenant, order>>
    BY <1>4 DEF Reconciled, rows
  <2>2. incidents' \subseteq Orders BY <2>1 DEF IInv, TypeOK
  <2> QED BY <1>3, <2>1, <2>2, RowsStay
<1>5. CASE tenant[t].sub \in {None, o}
  <2>1. /\ tenant' = [tenant EXCEPT
             ![t].sub = o,
             ![t].state = IF session[o] = "complete" /\ tenant[t].state = "pending_payment"
                          THEN "provisioning" ELSE tenant[t].state,
             ![t].job = tenant[t].job \/ (session[o] = "complete" /\ Active(t))]
        /\ order' = IF session[o] = "complete" THEN [order EXCEPT ![o].state = "paid"]
                    ELSE order
        /\ UNCHANGED incidents
    BY <1>5 DEF Reconciled
  <2>2. tenant[t].state \in {"unused", "pending_payment", "provisioning", "deleted"}
        /\ tenant[t].job \in BOOLEAN
    BY <1>2 DEF TenantRows
  <2> DEFINE st == IF session[o] = "complete" /\ tenant[t].state = "pending_payment"
                   THEN "provisioning" ELSE tenant[t].state
             jb == tenant[t].job \/ (session[o] = "complete" /\ Active(t))
             w == [tenant[t] EXCEPT !.sub = o, !.state = st, !.job = jb]
  <2>3. tenant' = [tenant EXCEPT ![t] = w] BY <1>2, <2>1
  <2>4. st \in {"unused", "pending_payment", "provisioning", "deleted"} BY <2>2
  <2>5. jb \in BOOLEAN OBVIOUS
  <2> HIDE DEF st, jb
  <2>6. /\ w \in TenantRows /\ w.state = st /\ w.job = jb
        /\ w.account = tenant[t].account
    BY <1>2, <2>4, <2>5 DEF TenantRows
  <2> HIDE DEF w, t
  <2>7. /\ tenant' \in [Tenants -> TenantRows]
        /\ tenant'[t] = w /\ \A s \in Tenants : s # t => tenant'[s] = tenant[s]
    BY <1>2, <2>3, <2>6 DEF IInv, TypeOK
  <2>8. CASE session[o] = "ended"
    <3>1. order' = order /\ order' \in [Orders -> OrderRows]
      BY <2>1, <2>8 DEF IInv, TypeOK
    <3>2. st = tenant[t].state BY <2>8 DEF st
    <3>3. tenant'[t].job = tenant[t].job
      <4>1. jb <=> tenant[t].job BY <2>8 DEF jb
      <4>2. jb = tenant[t].job BY <2>2, <2>5, <4>1
      <4> QED BY <2>6, <2>7, <4>2
    <3>4. \A s \in Tenants :
            /\ tenant'[s].account = tenant[s].account /\ tenant'[s].job = tenant[s].job
            /\ \/ tenant'[s].state = tenant[s].state
               \/ tenant[s].state # "unused" /\ tenant'[s].state = "deleted"
      BY <2>6, <2>7, <3>2, <3>3
    <3>5. \A p \in Orders :
            /\ order'[p].tenant = order[p].tenant /\ order'[p].saved = order[p].saved
            /\ \/ order'[p].state = order[p].state
               \/ order[p].state = "pending" /\ order'[p].state = "expired"
      BY <3>1
    <3>6. ReservationHasOrder'
      BY <3>1, <3>4 DEF IInv, Safe, ReservationHasOrder, Pending
    <3>7. incidents' \subseteq Orders BY <2>1 DEF IInv, TypeOK
    <3> QED BY <1>3, <2>7, <3>1, <3>4, <3>5, <3>6, <3>7, GoesStep
  <2>9. CASE session[o] = "complete"
    <3> DEFINE e == [order[o] EXCEPT !.state = "paid"]
    <3>1. order' = [order EXCEPT ![o] = e] BY <2>1, <2>9
    <3>2. /\ e \in OrderRows /\ e.state = "paid"
          /\ e.tenant = t /\ e.saved = order[o].saved
      BY <1>2 DEF OrderRows, t
    <3> HIDE DEF e
    <3>3. /\ order' \in [Orders -> OrderRows]
          /\ order'[o] = e /\ \A p \in Orders : p # o => order'[p] = order[p]
      BY <3>1, <3>2 DEF IInv, TypeOK
    <3>4. tenant'[t].state
            = IF tenant[t].state = "pending_payment" THEN "provisioning" ELSE tenant[t].state
      BY <2>6, <2>7, <2>9 DEF st
    <3>5. tenant'[t].job <=> (tenant[t].job \/ Active(t))
      <4>1. jb <=> (tenant[t].job \/ Active(t)) BY <2>9 DEF jb
      <4>2. tenant'[t].job = jb BY <2>6, <2>7
      <4> QED BY <4>1, <4>2
    <3>6. PICK u \in Tenants : u = t BY <1>2
    <3>7. order[o].tenant = u BY <3>6 DEF t
    <3>8. /\ \A s \in Tenants : s # u => tenant'[s] = tenant[s]
          /\ tenant'[u].account = tenant[u].account
          /\ tenant'[u].state
               = IF tenant[u].state = "pending_payment" THEN "provisioning" ELSE tenant[u].state
          /\ tenant'[u].job <=> (tenant[u].job \/ Active(u))
      <4>1. Active(u) <=> Active(t) BY <3>6
      <4> QED BY <2>6, <2>7, <3>4, <3>5, <3>6, <4>1
    <3>9. order'[o].state = "paid" /\ order'[o].tenant = u /\ order'[o].saved = order[o].saved
      BY <3>2, <3>3, <3>6
    <3> QED
      BY <1>1, <2>1, <2>7, <2>9, <3>3, <3>7, <3>8, <3>9, PaymentStep
  <2> QED BY <2>8, <2>9
<1> QED BY <1>4, <1>5

\* The clean-up reads an order: it is reconciled, or will be closed.
LEMMA SweepLooksStep ==
  ASSUME IInv, NEW o \in Orders, SweepLooks(o)
  PROVE  IInv'
<1>1. UNCHANGED <<session, call>> /\ order[o].state = "pending"
  BY DEF SweepLooks, Abandoned
<1>2. CASE /\ order[o].saved /\ session[o] \in {"complete", "ended"}
           /\ Reconciled(o) /\ UNCHANGED sweep
  BY <1>1, <1>2, ReconciledStep
<1>3. CASE /\ sweep' = [order |-> o, saved |-> order[o].saved]
           /\ UNCHANGED <<rows, incidents>>
  <2>1. UNCHANGED <<tenant, order, session, call>> BY <1>1, <1>3 DEF rows
  <2>2. order[o] \in OrderRows BY DEF IInv, TypeOK
  <2>3. sweep' \in [order : Orders \cup {None}, saved : BOOLEAN] /\ sweep'.order = o
    BY <1>3, <2>2 DEF OrderRows
  <2>4. SweepKnows' BY <1>1, <2>1, <2>3 DEF SweepKnows
  <2>5. incidents' \subseteq Orders BY <1>3 DEF IInv, TypeOK
  <2> QED BY <2>1, <2>3, <2>4, <2>5, RowsStay
<1> QED BY <1>2, <1>3 DEF SweepLooks

-----------------------------------------------------------------------------
\* Every step keeps the invariant.
LEMMA NextIInv == IInv /\ [Next]_vars => IInv'
<1> SUFFICES ASSUME IInv, [Next]_vars PROVE IInv' OBVIOUS
<1>1. ASSUME NEW c \in Calls, CallStep(c) PROVE IInv'
  <2>1. CASE Counts(c) BY <2>1, CountsStep
  <2>2. CASE Joins(c) BY <2>2, JoinsStep
  <2>3. CASE FindsOrder(c) BY <2>3, FindsOrderStep
  <2>4. CASE LooksUp(c) BY <2>4, LooksUpStep
  <2>5. CASE Creates(c) BY <2>5, CreatesStep
  <2>6. CASE Saves(c) BY <2>6, SavesStep
  <2>7. CASE Replaces(c) BY <2>7, ReplacesStep
  <2>8. CASE MakesOrder(c) BY <2>8, MakesOrderStep
  <2>9. CASE Renews(c) BY <2>9, RenewsStep
  <2> QED
    BY <1>1, <2>1, <2>2, <2>3, <2>4, <2>5, <2>6, <2>7, <2>8, <2>9 DEF CallStep
<1>2. ASSUME NEW c \in Calls, CallFails(c) PROVE IInv'
  <2>1. Goto(c, Idle) /\ UNCHANGED <<tenant, order, session, sweep, incidents>>
    BY <1>2 DEF CallFails, rows
  <2> QED BY <2>1, EndsStep
<1>3. ASSUME NEW c \in Calls, NEW a \in Accounts, Asks(c, a) PROVE IInv'
  BY <1>3, AsksStep
<1>4. ASSUME NEW o \in Orders, SessionExpires(o) \/ Pays(o) \/ Ends(o) \/ GrowsOld(o)
      PROVE  IInv'
  BY <1>4, OutsideStep
<1>5. ASSUME NEW o \in Orders, Notified(o) PROVE IInv'
  <2>1. /\ session[o] \in {"complete", "ended"} /\ Reconciled(o)
        /\ UNCHANGED <<session, call, sweep>>
    BY <1>5 DEF Notified
  <2> QED BY <2>1, ReconciledStep
<1>6. ASSUME NEW o \in Orders, SweepLooks(o) PROVE IInv'
  BY <1>6, SweepLooksStep
<1>7. ASSUME NEW t \in Tenants, Leaves(t) PROVE IInv'
  BY <1>7, LeavesStep
<1>8. CASE Cleans BY <1>8, CleansStep
<1>9. CASE SweepFails BY <1>9, SweepFailsStep
<1>10. CASE UNCHANGED vars
  <2>1. /\ UNCHANGED <<tenant, order, session, call>>
        /\ incidents' = incidents /\ sweep' = sweep
    BY <1>10 DEF vars
  <2>2. /\ SweepKnows' /\ incidents' \subseteq Orders
        /\ sweep' \in [order : Orders \cup {None}, saved : BOOLEAN]
    BY <2>1 DEF IInv, Safe, SweepKnows, TypeOK
  <2> QED BY <2>1, <2>2, RowsStay
<1> QED
  BY <1>1, <1>2, <1>3, <1>4, <1>5, <1>6, <1>7, <1>8, <1>9, <1>10 DEF Next

\* Rows are linked to rows that exist; what requests and clean-up have read of them
\* stays so; one request at a time holds an account, or the cohort's lock; what is
\* paid has a subscription; whoever is about to join has a place (app.ts,
\* billing.ts, worker.ts).
THEOREM CheckoutInvariant == Spec => []IInv
  BY InitIInv, NextIInv, PTL DEF Spec

\* Every variable keeps its type.
THEOREM CheckoutTypeOK == Spec => []TypeOK
<1>1. IInv => TypeOK BY DEF IInv
<1> QED BY <1>1, CheckoutInvariant, PTL

\* The cohort has no more members than places, but for those who pay for a
\* reservation that was cleaned up, however many accounts ask at once.
THEOREM CheckoutCohortKept == Spec => []CohortKept
  BY PlacesKeepCohort, CheckoutInvariant, PTL

\* No place is held without an order that is pending, so that clean-up finds it.
THEOREM CheckoutReservationHasOrder == Spec => []ReservationHasOrder
<1>1. IInv => ReservationHasOrder BY DEF IInv, Safe
<1> QED BY <1>1, CheckoutInvariant, PTL
-----------------------------------------------------------------------------
(* What owners are offered *)

\* A tenant that waits for payment waits for one order at a time.
SinglePending ==
  \A o, p \in Orders :
    /\ order[o].state = "pending" /\ order[p].state = "pending"
    /\ order[o].tenant = order[p].tenant
    /\ tenant[order[o].tenant].state = "pending_payment"
    => o = p

\* No one can pay for an order that is not pending any more, as long as its tenant
\* is there.
ClosedAt(o) ==
  order[o].state \in {"paid", "expired"} =>
    /\ tenant[order[o].tenant].state = "pending_payment"
         => session[o] = "expired" /\ order[o].saved
    /\ tenant[order[o].tenant].state = "provisioning"
         => \/ session[o] \in {"complete", "ended"}
            \/ session[o] = "expired" /\ order[o].saved

\* What clean-up has read holds for as long as the order is pending.
SweepSure ==
  sweep # NoSweep =>
    /\ order[sweep.order].state = "pending"
         => tenant[order[sweep.order].tenant].state # "provisioning"
    /\ sweep.saved => order[sweep.order].saved /\ session[sweep.order] = "expired"

\* What a transaction has selected still holds, for a tenant that waits, when it
\* inserts: who found no order has a tenant that was paid for or is gone, and an
\* order is renewed by one request, which holds the only one pending.
ReadsHold ==
  \A c \in Calls :
    /\ call[c].pc = "inserting" => tenant[call[c].tenant].state # "pending_payment"
    /\ call[c].pc = "renewing" =>
         /\ \A n \in Orders :
              /\ order[n].state = "pending" /\ order[n].tenant = order[call[c].order].tenant
              /\ tenant[order[n].tenant].state = "pending_payment"
              => n = call[c].order
         /\ \A d \in Calls :
              call[d].pc = "renewing" /\ call[d].order = call[c].order => d = c

Offers ==
  SinglePending /\ (\A o \in Orders : ClosedAt(o)) /\ SweepSure /\ ReadsHold

\* How Stripe's sessions may change: what expired stays so once it was saved.
Moves(o) ==
  \/ session'[o] = session[o]
  \/ session[o] \in {"none", "open"}
  \/ session[o] = "expired" /\ ~order[o].saved
  \/ session[o] = "complete" /\ session'[o] = "ended"

\* How orders and tenants may change: none is made pending again.
RowsMove ==
  /\ \A o \in Orders : order[o].state # "unused" =>
       /\ order'[o].tenant = order[o].tenant
       /\ order'[o].state # "unused"
       /\ order'[o].state = "pending" => order[o].state = "pending"
       /\ order[o].saved => order'[o].saved
  /\ \A t \in Tenants :
       /\ tenant'[t].state = "pending_payment" => tenant[t].state \in {"unused", "pending_payment"}
       /\ tenant'[t].state = "provisioning" => tenant[t].state \in {"pending_payment", "provisioning"}

\* A request that is not between its SELECT and its INSERT after a step, or that does
\* not take part in it.
Quietly(c) == call'[c] = call[c] \/ call'[c].pc \notin {"inserting", "renewing"}

\* What a step has to see to: a new order has its tenant to itself while that waits,
\* and an order that is closed cannot be paid for.
LEMMA OffersKeep ==
  ASSUME IInv, Offers, RowsMove, \A o \in Orders : Moves(o),
         \A o, p \in Orders :
           /\ order[o].state = "unused" /\ order'[o].state = "pending"
           /\ p # o /\ order'[p].state = "pending"
           /\ tenant'[order'[o].tenant].state = "pending_payment"
           => order'[p].tenant # order'[o].tenant,
         \A o \in Orders :
           order'[o].state \in {"paid", "expired"} =>
             order[o].state \in {"paid", "expired"} \/ ClosedAt(o)',
         SweepSure', ReadsHold'
  PROVE  Offers'
<1>1. ASSUME NEW o \in Orders, order[o].state # "unused"
      PROVE  order[o].tenant \in Tenants /\ tenant[order[o].tenant].state # "unused"
  BY <1>1 DEF IInv, Safe, Linked
<1>2. SinglePending'
  <2> SUFFICES ASSUME NEW o \in Orders, NEW p \in Orders,
                      order'[o].state = "pending", order'[p].state = "pending",
                      order'[o].tenant = order'[p].tenant, o # p,
                      tenant'[order'[o].tenant].state = "pending_payment"
               PROVE  FALSE
    BY DEF SinglePending
  <2>1. order[o].state # "unused" /\ order[p].state # "unused" OBVIOUS
  <2>2. order'[o].tenant = order[o].tenant /\ order'[p].tenant = order[p].tenant
        /\ order[o].state = "pending" /\ order[p].state = "pending"
    BY <2>1 DEF RowsMove
  <2>3. tenant[order[o].tenant].state = "pending_payment"
    BY <1>1, <2>1, <2>2 DEF RowsMove
  <2> QED BY <2>2, <2>3 DEF Offers, SinglePending
<1>3. ASSUME NEW o \in Orders PROVE ClosedAt(o)'
  <2> SUFFICES ASSUME order'[o].state \in {"paid", "expired"},
                      order[o].state \in {"paid", "expired"}
               PROVE  ClosedAt(o)'
    BY DEF ClosedAt
  <2> DEFINE t == order[o].tenant
  <2>1. t \in Tenants /\ tenant[t].state # "unused" BY <1>1
  <2>2. order'[o].tenant = t /\ (order[o].saved => order'[o].saved) BY DEF RowsMove
  <2>3. ClosedAt(o) /\ Moves(o) BY DEF Offers
  <2>4. CASE tenant'[t].state = "pending_payment"
    <3>1. tenant[t].state = "pending_payment" BY <2>1, <2>4 DEF RowsMove
    <3>2. session[o] = "expired" /\ order[o].saved BY <2>3, <3>1 DEF ClosedAt
    <3> QED BY <2>2, <2>3, <2>4, <3>2 DEF ClosedAt, Moves
  <2>5. CASE tenant'[t].state = "provisioning"
    <3>1. tenant[t].state \in {"pending_payment", "provisioning"} BY <2>1, <2>5 DEF RowsMove
    <3>2. \/ session[o] \in {"complete", "ended"}
          \/ session[o] = "expired" /\ order[o].saved
      BY <2>3, <3>1 DEF ClosedAt
    <3> QED BY <2>2, <2>3, <2>5, <3>2 DEF ClosedAt, Moves
  <2>6. CASE tenant'[t].state \notin {"pending_payment", "provisioning"}
    BY <2>2, <2>6 DEF ClosedAt
  <2> QED BY <2>4, <2>5, <2>6
<1> QED BY <1>2, <1>3 DEF Offers

\* What clean-up has read stays so, if no tenant that waits for an order is paid
\* for by another.
LEMMA SureStays ==
  ASSUME IInv, Offers, RowsMove, \A o \in Orders : Moves(o),
         sweep' = sweep \/ sweep' = NoSweep,
         \A o \in Orders :
           /\ order[o].state = "pending" /\ order'[o].state = "pending"
           /\ tenant'[order[o].tenant].state = "provisioning"
           => tenant[order[o].tenant].state = "provisioning"
  PROVE  SweepSure'
<1>1. CASE sweep' = NoSweep BY <1>1 DEF SweepSure
<1>2. CASE sweep' = sweep /\ sweep # NoSweep
  <2> DEFINE o == sweep.order
  <2>1. o \in Orders /\ order[o].state # "unused"
    BY <1>2 DEF IInv, Safe, SweepKnows
  <2>2. /\ order'[o].tenant = order[o].tenant
        /\ order'[o].state = "pending" => order[o].state = "pending"
        /\ order[o].saved => order'[o].saved
    BY <2>1 DEF RowsMove
  <2>3. order'[o].state = "pending" => tenant'[order'[o].tenant].state # "provisioning"
    BY <1>2, <2>1, <2>2 DEF Offers, SweepSure
  <2>4. sweep.saved => order'[o].saved /\ session'[o] = "expired"
    <3>1. Moves(o) BY <2>1
    <3> QED BY <1>2, <2>2, <3>1 DEF Offers, SweepSure, Moves
  <2> QED BY <1>2, <2>3, <2>4 DEF SweepSure
<1> QED BY <1>1, <1>2

\* What other requests have read stays so, if no tenant whose order is being renewed
\* gets another while it waits.
LEMMA ReadsStay ==
  ASSUME IInv, Offers, RowsMove, \A c \in Calls : Quietly(c),
         \A c \in Calls, n \in Orders :
           /\ call'[c].pc = "renewing" /\ call'[c] = call[c]
           /\ order[n].state = "unused" /\ order'[n].state = "pending"
           /\ tenant'[order'[n].tenant].state = "pending_payment"
           => order'[n].tenant # order[call[c].order].tenant
  PROVE  ReadsHold'
<1>1. ASSUME NEW c \in Calls, call'[c].pc = "inserting"
      PROVE  tenant'[call'[c].tenant].state # "pending_payment"
  <2>1. call'[c] = call[c] BY <1>1 DEF Quietly
  <2>2. call[c].tenant \in Tenants /\ tenant[call[c].tenant].state # "unused"
    BY <1>1, <2>1 DEF IInv, Safe, CallsKnow, Knows
  <2>3. tenant[call[c].tenant].state # "pending_payment"
    BY <1>1, <2>1 DEF Offers, ReadsHold
  <2> QED BY <2>1, <2>2, <2>3 DEF RowsMove
<1>2. ASSUME NEW c \in Calls, call'[c].pc = "renewing"
      PROVE  /\ call'[c] = call[c] /\ call[c].order \in Orders
             /\ order[call[c].order].state # "unused"
  <2>1. call'[c] = call[c] BY <1>2 DEF Quietly
  <2> QED BY <1>2, <2>1 DEF IInv, Safe, CallsKnow, Knows
<1>3. ASSUME NEW c \in Calls, call'[c].pc = "renewing", NEW n \in Orders,
             order'[n].state = "pending",
             order'[n].tenant = order'[call'[c].order].tenant,
             tenant'[order'[n].tenant].state = "pending_payment"
      PROVE  n = call'[c].order
  <2> DEFINE o == call[c].order
             t == order[o].tenant
  <2>1. /\ call'[c] = call[c] /\ o \in Orders /\ order[o].state # "unused"
    BY <1>2, <1>3
  <2>2. order'[n].tenant = t BY <1>3, <2>1 DEF RowsMove
  <2>3. t \in Tenants /\ tenant[t].state # "unused" BY <2>1 DEF IInv, Safe, Linked
  <2>4. tenant[t].state = "pending_payment" BY <1>3, <2>2, <2>3 DEF RowsMove
  <2>5. order[n].state # "unused" BY <1>3, <2>1, <2>2
  <2>6. order[n].state = "pending" /\ order[n].tenant = t
    BY <1>3, <2>2, <2>5 DEF RowsMove
  <2> QED BY <1>3, <2>1, <2>4, <2>6 DEF Offers, ReadsHold
<1>4. ASSUME NEW c \in Calls, call'[c].pc = "renewing",
             NEW d \in Calls, call'[d].pc = "renewing", call'[d].order = call'[c].order
      PROVE  d = c
  BY <1>2, <1>4 DEF Offers, ReadsHold
<1> QED BY <1>1, <1>3, <1>4 DEF ReadsHold

\* Where no row changes, offers only end.
LEMMA OffersStay ==
  ASSUME IInv, Offers, UNCHANGED <<tenant, order>>, \A o \in Orders : Moves(o),
         (sweep' = sweep \/ sweep' = NoSweep) \/ SweepSure',
         (\A c \in Calls : Quietly(c)) \/ ReadsHold'
  PROVE  Offers'
<1>1. RowsMove BY DEF RowsMove
<1>2. SweepSure' BY <1>1, SureStays
<1>3. ReadsHold' BY <1>1, ReadsStay
<1> QED BY <1>1, <1>2, <1>3, OffersKeep

\* A request that goes on, but not between its SELECT and its INSERT.
LEMMA GoesQuietly ==
  ASSUME IInv, NEW c \in Calls, NEW r, Goto(c, r), r.pc \notin {"inserting", "renewing"}
  PROVE  \A d \in Calls : Quietly(d)
  BY DEF IInv, TypeOK, Goto, Quietly

\* So do requests that end, or open an order's checkout.
LEMMA OpensQuietly ==
  ASSUME IInv, NEW c \in Calls, Goto(c, Idle) \/ \E o, b : Opening(c, o, b)
  PROVE  /\ \A d \in Calls : Quietly(d)
         /\ call'[c].pc \notin {"inserting", "renewing"}
<1>1. Idle.pc = "idle" BY DEF Idle
<1>2. ASSUME NEW o, NEW b
      PROVE  [Idle EXCEPT !.pc = "opening", !.order = o, !.saved = b].pc = "opening"
  BY DEF Idle
<1>3. PICK r : Goto(c, r) /\ r.pc \notin {"inserting", "renewing"}
  BY <1>1, <1>2 DEF Opening
<1>4. call'[c] = r BY <1>3 DEF Goto, IInv, TypeOK
<1> QED BY <1>3, <1>4, GoesQuietly

\* A request's new order, where no other order of a tenant that waits stays pending.
LEMMA OfferMade ==
  ASSUME IInv, Offers, RowsMove, session' = session, sweep' = sweep, ReadsHold',
         NEW n \in Orders, order[n].state = "unused", order'[n].state = "pending",
         \A o \in Orders : o # n =>
           /\ order'[o].state = "pending" =>
                /\ order[o].state = "pending"
                /\ tenant'[order'[n].tenant].state = "pending_payment"
                     => order[o].tenant # order'[n].tenant
           /\ order'[o].state \in {"paid", "expired"} =>
                order[o].state \in {"paid", "expired"} \/ ClosedAt(o)',
         \A t \in Tenants :
           tenant'[t].state = "provisioning" => tenant[t].state = "provisioning"
  PROVE  Offers'
<1>1. \A o \in Orders : Moves(o) BY DEF Moves
<1>2. ASSUME NEW o \in Orders, NEW p \in Orders,
             order[o].state = "unused", order'[o].state = "pending",
             p # o, order'[p].state = "pending",
             tenant'[order'[o].tenant].state = "pending_payment"
      PROVE  order'[p].tenant # order'[o].tenant
  <2>1. o = n BY <1>2
  <2>2. order[p].state = "pending" /\ order[p].tenant # order'[n].tenant BY <1>2, <2>1
  <2> QED BY <2>1, <2>2 DEF RowsMove
<1>3. ASSUME NEW o \in Orders, order'[o].state \in {"paid", "expired"}
      PROVE  order[o].state \in {"paid", "expired"} \/ ClosedAt(o)'
  <2>1. o # n BY <1>3
  <2> QED BY <1>3, <2>1
<1>4. SweepSure'
  <2>1. ASSUME NEW o \in Orders, order[o].state = "pending",
               tenant'[order[o].tenant].state = "provisioning"
        PROVE  tenant[order[o].tenant].state = "provisioning"
    <3>1. order[o].tenant \in Tenants BY <2>1 DEF IInv, Safe, Linked
    <3> QED BY <2>1, <3>1
  <2> QED BY <1>1, <2>1, SureStays
<1> QED BY <1>1, <1>2, <1>3, <1>4, OffersKeep

\* The next row of the table is not in use.
LEMMA NextRowUnused ==
  /\ \A o \in Orders : NewOrder(o) => order[o].state = "unused"
  /\ \A t \in Tenants : NewTenant(t) => tenant[t].state = "unused"
<1>1. (\A o \in Orders : o >= o) /\ (\A t \in Tenants : t >= t) BY NoneApart
<1> QED BY <1>1 DEF NewOrder, NewTenant

\* A new tenant comes with its order.
LEMMA JoinsOffers ==
  ASSUME IInv, Offers, NEW c \in Calls, Joins(c)
  PROVE  Offers'
<1>1. PICK t \in Tenants, n \in Orders :
        /\ tenant[t].state = "unused" /\ order[n].state = "unused"
        /\ tenant' = [tenant EXCEPT ![t] =
             [state |-> "pending_payment", account |-> call[c].account, sub |-> None,
              job |-> FALSE]]
        /\ order' = [order EXCEPT ![n] =
             [state |-> "pending", tenant |-> t, saved |-> FALSE, old |-> FALSE]]
  BY NextRowUnused DEF Joins, Inserts
<1>2. session' = session /\ sweep' = sweep BY DEF Joins
<1>3. /\ tenant'[t].state = "pending_payment"
      /\ \A s \in Tenants : s # t => tenant'[s] = tenant[s]
      /\ order'[n].state = "pending" /\ order'[n].tenant = t
      /\ \A o \in Orders : o # n => order'[o] = order[o]
  BY <1>1 DEF IInv, TypeOK
<1>4. RowsMove BY <1>1, <1>3 DEF RowsMove
<1>5. \A o \in Orders : order[o].state = "pending" => order[o].tenant # t
  BY <1>1 DEF IInv, Safe, Linked
<1>6. \A s \in Tenants :
        tenant'[s].state = "provisioning" => tenant[s].state = "provisioning"
  BY <1>3
<1>7. \A d \in Calls : Quietly(d) BY OpensQuietly DEF Joins
<1>8. ASSUME NEW d \in Calls, NEW o \in Orders,
             call'[d].pc = "renewing", call'[d] = call[d],
             order[o].state = "unused", order'[o].state = "pending"
      PROVE  order'[o].tenant # order[call[d].order].tenant
  <2>1. order'[o].tenant = t BY <1>3, <1>8
  <2>2. call[d].order \in Orders /\ order[call[d].order].state # "unused"
    BY <1>8 DEF IInv, Safe, CallsKnow, Knows
  <2> QED BY <1>1, <2>1, <2>2 DEF IInv, Safe, Linked
<1>9. ReadsHold' BY <1>4, <1>7, <1>8, ReadsStay
<1> QED BY <1>1, <1>2, <1>3, <1>4, <1>5, <1>6, <1>9, OfferMade

\* A request that finds no order of its tenant has one that does not wait for it.
LEMMA FindsOffers ==
  ASSUME IInv, Offers, NEW c \in Calls, FindsOrder(c)
  PROVE  Offers'
<1>1. UNCHANGED <<tenant, order, session, sweep>> BY DEF FindsOrder, rows
<1>2. CASE \E o \in Orders : Opening(c, o, order[o].saved)
  <2>1. \A d \in Calls : Quietly(d) BY <1>2, OpensQuietly
  <2> QED BY <1>1, <2>1, OffersStay DEF Moves
<1>3. CASE /\ Pending(call[c].tenant) = {} /\ call[c].pc = "ordering"
           /\ Goto(c, [call[c] EXCEPT !.pc = "inserting"])
  <2>1. PICK t \in Tenants : t = call[c].tenant
    BY <1>3 DEF IInv, Safe, CallsKnow, Knows
  <2>2. tenant[t].state # "pending_payment"
    BY <1>3, <2>1 DEF IInv, Safe, ReservationHasOrder
  <2>3. call[c] \in Requests BY DEF IInv, TypeOK
  <2>4. /\ call'[c].pc = "inserting" /\ call'[c].tenant = t
        /\ \A d \in Calls : d # c => call'[d] = call[d]
    BY <1>3, <2>1, <2>3 DEF Goto, IInv, TypeOK, Requests
  <2>5. \A d \in Calls : call'[d].pc = "renewing" => call'[d] = call[d] BY <2>4
  <2>6. ASSUME NEW d \in Calls, call'[d].pc = "renewing"
        PROVE  /\ \A n \in Orders :
                    /\ order'[n].state = "pending"
                    /\ order'[n].tenant = order'[call'[d].order].tenant
                    /\ tenant'[order'[n].tenant].state = "pending_payment"
                    => n = call'[d].order
               /\ \A e \in Calls :
                    call'[e].pc = "renewing" /\ call'[e].order = call'[d].order => e = d
    BY <1>1, <2>5, <2>6 DEF Offers, ReadsHold
  <2>7. ASSUME NEW d \in Calls, call'[d].pc = "inserting"
        PROVE  tenant'[call'[d].tenant].state # "pending_payment"
    <3>1. CASE d = c BY <1>1, <2>2, <2>4, <3>1
    <3>2. CASE d # c BY <1>1, <2>4, <2>7, <3>2 DEF Offers, ReadsHold
    <3> QED BY <3>1, <3>2
  <2>8. ReadsHold' BY <2>6, <2>7 DEF ReadsHold
  <2> QED BY <1>1, <2>8, OffersStay DEF Moves
<1> QED BY <1>2, <1>3 DEF FindsOrder, Pending

\* A tenant that does not wait gets a new order.
LEMMA MakesOffers ==
  ASSUME IInv, Offers, NEW c \in Calls, MakesOrder(c)
  PROVE  Offers'
<1>1. /\ session' = session /\ sweep' = sweep /\ tenant' = tenant
      /\ call[c].pc = "inserting"
  BY DEF MakesOrder
<1>2. PICK t \in Tenants : t = call[c].tenant /\ tenant[t].state # "pending_payment"
  BY <1>1 DEF IInv, Safe, CallsKnow, Knows, Offers, ReadsHold
<1>3. PICK n \in Orders :
        /\ order[n].state = "unused" /\ Opening(c, n, FALSE)
        /\ order' = [order EXCEPT ![n] =
             [state |-> "pending", tenant |-> t, saved |-> FALSE, old |-> FALSE]]
  BY <1>2, NextRowUnused DEF MakesOrder, Inserts
<1>4. /\ order'[n].state = "pending" /\ order'[n].tenant = t
      /\ \A o \in Orders : o # n => order'[o] = order[o]
  BY <1>3 DEF IInv, TypeOK
<1>5. RowsMove BY <1>1, <1>3, <1>4 DEF RowsMove
<1>6. \A d \in Calls : Quietly(d) BY <1>3, OpensQuietly
<1>7. ASSUME NEW o \in Orders, order[o].state = "unused", order'[o].state = "pending"
      PROVE  tenant'[order'[o].tenant].state # "pending_payment"
  BY <1>1, <1>2, <1>4, <1>7
<1>8. ReadsHold' BY <1>5, <1>6, <1>7, ReadsStay
<1>9. tenant'[order'[n].tenant].state # "pending_payment" BY <1>1, <1>2, <1>4
<1> QED BY <1>1, <1>3, <1>4, <1>5, <1>8, <1>9, OfferMade

\* A request that renews an order is the only one, and found no other.
LEMMA ReplacesOffers ==
  ASSUME IInv, Offers, NEW c \in Calls, Replaces(c)
  PROVE  Offers'
<1>1. UNCHANGED <<tenant, order, session, sweep>> /\ call[c].pc = "replacing"
  BY DEF Replaces, rows
<1>2. CASE \E o \in Orders : Opening(c, o, order[o].saved)
  <2>1. \A d \in Calls : Quietly(d) BY <1>2, OpensQuietly
  <2> QED BY <1>1, <2>1, OffersStay DEF Moves
<1>3. CASE /\ Pending(order[call[c].order].tenant) \subseteq {call[c].order}
           /\ Goto(c, [call[c] EXCEPT !.pc = "renewing"])
  <2>1. PICK o \in Orders : o = call[c].order /\ order[o].state # "unused"
    BY <1>1 DEF IInv, Safe, CallsKnow, Knows
  <2>2. call[c] \in Requests BY DEF IInv, TypeOK
  <2>3. /\ call'[c].pc = "renewing" /\ call'[c].order = o
        /\ \A d \in Calls : d # c => call'[d] = call[d]
    BY <1>3, <2>1, <2>2 DEF Goto, IInv, TypeOK, Requests
  <2>4. \A d \in Calls : ~(call[d].pc = "renewing" /\ call[d].order = o)
    BY <2>1 DEF Replaces, Held
  <2>6. ASSUME NEW d \in Calls, call'[d].pc = "renewing"
        PROVE  /\ \A n \in Orders :
                    /\ order'[n].state = "pending"
                    /\ order'[n].tenant = order'[call'[d].order].tenant
                    /\ tenant'[order'[n].tenant].state = "pending_payment"
                    => n = call'[d].order
               /\ \A e \in Calls :
                    call'[e].pc = "renewing" /\ call'[e].order = call'[d].order => e = d
    <3>1. call'[d].order = call[d].order BY <2>1, <2>3
    <3>2. \A n \in Orders :
            /\ order[n].state = "pending" /\ order[n].tenant = order[call[d].order].tenant
            /\ tenant[order[n].tenant].state = "pending_payment"
            => n = call[d].order
      <4>1. CASE d = c BY <1>3, <4>1 DEF Pending
      <4>2. CASE d # c BY <2>3, <2>6, <4>2 DEF Offers, ReadsHold
      <4> QED BY <4>1, <4>2
    <3>3. ASSUME NEW e \in Calls, call'[e].pc = "renewing", call'[e].order = call'[d].order
          PROVE  e = d
      <4>1. CASE e = c \/ d = c BY <2>3, <2>4, <2>6, <3>3, <4>1
      <4>2. CASE e # c /\ d # c BY <2>3, <2>6, <3>3, <4>2 DEF Offers, ReadsHold
      <4> QED BY <4>1, <4>2
    <3> QED BY <1>1, <3>1, <3>2, <3>3
  <2>7. ASSUME NEW d \in Calls, call'[d].pc = "inserting"
        PROVE  tenant'[call'[d].tenant].state # "pending_payment"
    <3>1. d # c BY <2>3, <2>7
    <3> QED BY <1>1, <2>3, <2>7, <3>1 DEF Offers, ReadsHold
  <2>8. ReadsHold' BY <2>6, <2>7 DEF ReadsHold
  <2> QED BY <1>1, <2>8, OffersStay DEF Moves
<1>4. \/ \E o \in Orders : Opening(c, o, order[o].saved)
      \/ /\ Pending(order[call[c].order].tenant) \subseteq {call[c].order}
         /\ Goto(c, [call[c] EXCEPT !.pc = "renewing"])
  BY DEF Replaces, Pending
<1> QED BY <1>2, <1>3, <1>4

\* A new order takes the place of one that expired: the only one, if its tenant
\* waits.
LEMMA RenewsOffers ==
  ASSUME IInv, Offers, NEW c \in Calls, Renews(c)
  PROVE  Offers'
<1>1. /\ session' = session /\ sweep' = sweep /\ tenant' = tenant
      /\ call[c].pc = "renewing"
  BY DEF Renews
<1>2. PICK r \in Orders :
        /\ r = call[c].order /\ order[r].state # "unused" /\ order[r].saved
        /\ session[r] = "expired"
  BY <1>1 DEF IInv, Safe, CallsKnow, Knows
<1>3. PICK t \in Tenants : t = order[r].tenant BY <1>2 DEF IInv, Safe, Linked
<1>4. tenant[t].state = "pending_payment" => Pending(t) \subseteq {r}
  BY <1>1, <1>2, <1>3 DEF Offers, ReadsHold, Pending
<1>5. PICK n \in Orders :
        /\ order[n].state = "unused" /\ Opening(c, n, FALSE)
        /\ order' = [order EXCEPT
             ![r].state = "expired",
             ![n] = [state |-> "pending", tenant |-> t, saved |-> FALSE, old |-> FALSE]]
  BY <1>2, <1>3, NextRowUnused DEF Renews
<1>6. n # r BY <1>2, <1>5
<1>7. /\ order'[n].state = "pending" /\ order'[n].tenant = t
      /\ \A o \in Orders : o \notin {n, r} => order'[o] = order[o]
  BY <1>5 DEF IInv, TypeOK
<1>8. order'[r].state = "expired" /\ order'[r].tenant = t /\ order'[r].saved
  BY <1>2, <1>3, <1>5, <1>6 DEF IInv, TypeOK, OrderRows
<1>9. RowsMove BY <1>1, <1>2, <1>3, <1>5, <1>7, <1>8 DEF RowsMove
<1>10. ClosedAt(r)' BY <1>1, <1>2, <1>8 DEF ClosedAt
<1>11. \A d \in Calls : Quietly(d) BY <1>5, OpensQuietly
<1>12. call'[c].pc # "renewing" BY <1>5, OpensQuietly
<1>13. ASSUME NEW d \in Calls, NEW o \in Orders,
              call'[d].pc = "renewing", call'[d] = call[d],
              order[o].state = "unused", order'[o].state = "pending",
              tenant'[order'[o].tenant].state = "pending_payment"
       PROVE  order'[o].tenant # order[call[d].order].tenant
  <2> SUFFICES ASSUME order'[o].tenant = order[call[d].order].tenant PROVE FALSE
    OBVIOUS
  <2>1. o = n BY <1>7, <1>8, <1>13
  <2>2. order[call[d].order].tenant = t /\ tenant[t].state = "pending_payment"
    BY <1>1, <1>7, <1>13, <2>1
  <2>3. Pending(t) \subseteq {call[d].order}
    BY <1>13, <2>2 DEF Offers, ReadsHold, Pending
  <2>4. Pending(t) # {} BY <2>2 DEF IInv, Safe, ReservationHasOrder
  <2>5. call[d].order = r BY <1>4, <2>2, <2>3, <2>4
  <2>6. d = c BY <1>1, <1>2, <1>13, <2>5 DEF Offers, ReadsHold
  <2> QED BY <1>12, <1>13, <2>6
<1>14. ReadsHold' BY <1>9, <1>11, <1>13, ReadsStay
<1>15. \A o \in Orders : o # n =>
         /\ order'[o].state = "pending" =>
              /\ order[o].state = "pending"
              /\ tenant'[order'[n].tenant].state = "pending_payment"
                   => order[o].tenant # order'[n].tenant
         /\ order'[o].state \in {"paid", "expired"} =>
              order[o].state \in {"paid", "expired"} \/ ClosedAt(o)'
  <2>1. tenant[t].state = "pending_payment" =>
          \A o \in Orders : o # r /\ order[o].state = "pending" => order[o].tenant # t
    BY <1>4 DEF Pending
  <2> QED BY <1>1, <1>7, <1>8, <1>10, <2>1
<1> QED BY <1>1, <1>5, <1>7, <1>9, <1>14, <1>15, OfferMade

\* The steps of a request that change no row, and those of Stripe.
LEMMA SessionOffers ==
  ASSUME IInv, Offers,
         \/ \E c \in Calls : \/ Counts(c) \/ LooksUp(c) \/ Creates(c) \/ CallFails(c)
                             \/ \E a \in Accounts : Asks(c, a)
         \/ \E o \in Orders : SessionExpires(o) \/ Pays(o) \/ Ends(o)
         \/ SweepFails
         \/ UNCHANGED vars
  PROVE  Offers'
<1>1. UNCHANGED <<tenant, order>> /\ (sweep' = sweep \/ sweep' = NoSweep)
  BY DEF Counts, LooksUp, Creates, CallFails, Asks, SessionExpires, Pays, Ends, Becomes,
         SweepFails, vars, rows
<1>2. session \in [Orders -> {"none", "open", "complete", "expired", "ended"}]
  BY DEF IInv, TypeOK
<1>3. ASSUME NEW p \in Orders PROVE Moves(p)
  <2>1. CASE session' = session BY <2>1 DEF Moves
  <2>2. ASSUME NEW o \in Orders, SessionExpires(o) \/ Pays(o) \/ Ends(o)
        PROVE  Moves(p)
    BY <1>2, <2>2 DEF SessionExpires, Pays, Ends, Becomes, Moves
  <2>3. ASSUME NEW c \in Calls, Creates(c) PROVE Moves(p)
    <3> DEFINE o == call[c].order
    <3>1. o \in Orders BY <2>3 DEF Creates, IInv, Safe, CallsKnow, Knows
    <3>2. PICK s : /\ session' = [session EXCEPT ![o] = s]
                   /\ \/ session[o] = "none"
                      \/ session[o] = "expired" /\ ~order[o].saved
                      \/ s = session[o]
      BY <1>2, <2>3, <3>1 DEF Creates
    <3> QED BY <1>2, <3>1, <3>2 DEF Moves
  <2> QED BY <2>1, <2>2, <2>3
          DEF Counts, LooksUp, CallFails, Asks, SweepFails, vars
<1>4. \A d \in Calls : Quietly(d)
  <2>1. CASE call' = call BY <2>1 DEF Quietly
  <2>2. ASSUME NEW c \in Calls, Goto(c, Idle) PROVE \A d \in Calls : Quietly(d)
    BY <2>2, OpensQuietly
  <2>3. ASSUME NEW c \in Calls, NEW k \in {"joining", "replacing", "saving"},
               Goto(c, [call[c] EXCEPT !.pc = k])
        PROVE  \A d \in Calls : Quietly(d)
    <3>1. call[c] \in Requests BY DEF IInv, TypeOK
    <3>2. [call[c] EXCEPT !.pc = k].pc = k BY <3>1 DEF Requests
    <3> DEFINE r == [call[c] EXCEPT !.pc = k]
    <3>3. Goto(c, r) /\ r.pc \notin {"inserting", "renewing"} BY <2>3, <3>2
    <3> HIDE DEF r
    <3> QED BY <3>3, GoesQuietly
  <2>4. ASSUME NEW c \in Calls, NEW a \in Accounts, Asks(c, a)
        PROVE  \A d \in Calls : Quietly(d)
    <3>1. PICK r : Goto(c, r) /\ r.pc \in {"ordering", "counting"}
      <4>1. \A t : [Idle EXCEPT !.pc = "ordering", !.account = a, !.tenant = t].pc = "ordering"
        BY DEF Idle
      <4>2. [Idle EXCEPT !.pc = "counting", !.account = a].pc = "counting" BY DEF Idle
      <4> QED BY <2>4, <4>1, <4>2 DEF Asks
    <3> QED BY <3>1, GoesQuietly
  <2>5. ASSUME NEW c \in Calls, Counts(c) \/ LooksUp(c) \/ Creates(c) \/ CallFails(c)
        PROVE  \A d \in Calls : Quietly(d)
    <3>1. Goto(c, Idle) \/ \E k \in {"joining", "replacing", "saving"} :
                                Goto(c, [call[c] EXCEPT !.pc = k])
      BY <2>5 DEF Counts, LooksUp, Creates, CallFails
    <3> QED BY <2>2, <2>3, <3>1
  <2> QED BY <2>1, <2>4, <2>5
          DEF SessionExpires, Pays, Ends, Becomes, SweepFails, vars
<1> QED BY <1>1, <1>3, <1>4, OffersStay

\* An order whose checkout is saved, or that grows old, stays what it was.
LEMMA NotesOffers ==
  ASSUME IInv, Offers, (\E c \in Calls : Saves(c)) \/ (\E o \in Orders : GrowsOld(o))
  PROVE  Offers'
<1>1. UNCHANGED <<tenant, session, sweep>> BY DEF Saves, GrowsOld
<1>2. \A o \in Orders : Moves(o) BY <1>1 DEF Moves
<1>3. \A o \in Orders :
        /\ order'[o].state = order[o].state /\ order'[o].tenant = order[o].tenant
        /\ order[o].saved => order'[o].saved
  <2>1. order \in [Orders -> OrderRows] BY DEF IInv, TypeOK
  <2>2. ASSUME NEW c \in Calls, Saves(c), NEW o \in Orders
        PROVE  /\ order'[o].state = order[o].state /\ order'[o].tenant = order[o].tenant
               /\ order[o].saved => order'[o].saved
    BY <2>1, <2>2 DEF Saves, OrderRows
  <2>3. ASSUME NEW p \in Orders, GrowsOld(p), NEW o \in Orders
        PROVE  /\ order'[o].state = order[o].state /\ order'[o].tenant = order[o].tenant
               /\ order[o].saved => order'[o].saved
    BY <2>1, <2>3 DEF GrowsOld, OrderRows
  <2> QED BY <2>2, <2>3
<1>4. RowsMove BY <1>1, <1>3 DEF RowsMove
<1>5. SweepSure' BY <1>1, <1>2, <1>4, SureStays
<1>6. \A c \in Calls : Quietly(c)
  <2>1. ASSUME NEW c \in Calls, Saves(c) PROVE \A d \in Calls : Quietly(d)
    BY <2>1, OpensQuietly DEF Saves
  <2> QED BY <2>1 DEF GrowsOld, Quietly
<1>7. ReadsHold' BY <1>3, <1>4, <1>6, ReadsStay
<1> QED BY <1>2, <1>3, <1>4, <1>5, <1>7, OffersKeep

\* An order that is paid closes itself, and is the only one its tenant waited for.
LEMMA ReconciledOffers ==
  ASSUME IInv, Offers, NEW o \in Orders, session[o] \in {"complete", "ended"},
         Reconciled(o), UNCHANGED <<session, sweep, call>>
  PROVE  Offers'
<1> DEFINE t == order[o].tenant
<1>1. order[o].state # "unused" /\ t \in Tenants BY DEF IInv, Safe, Linked
<1>2. tenant \in [Tenants -> TenantRows] /\ order \in [Orders -> OrderRows]
  BY DEF IInv, TypeOK
<1>3. (\A p \in Orders : Moves(p)) /\ (\A c \in Calls : Quietly(c))
  BY DEF Moves, Quietly
<1>4. CASE UNCHANGED <<tenant, order>> BY <1>3, <1>4, OffersStay
<1>5. CASE tenant[t].sub \in {None, o}
  <2>1. /\ tenant' = [tenant EXCEPT
             ![t].sub = o,
             ![t].state = IF session[o] = "complete" /\ tenant[t].state = "pending_payment"
                          THEN "provisioning" ELSE tenant[t].state,
             ![t].job = tenant[t].job \/ (session[o] = "complete" /\ Active(t))]
        /\ order' = IF session[o] = "complete" THEN [order EXCEPT ![o].state = "paid"]
                    ELSE order
    BY <1>5 DEF Reconciled
  <2>2. /\ tenant'[t].state = IF session[o] = "complete" /\ tenant[t].state = "pending_payment"
                              THEN "provisioning" ELSE tenant[t].state
        /\ \A s \in Tenants : s # t => tenant'[s] = tenant[s]
    BY <1>1, <1>2, <2>1 DEF TenantRows
  <2>3. /\ order'[o].state = IF session[o] = "complete" THEN "paid" ELSE order[o].state
        /\ order'[o].tenant = t /\ order'[o].saved = order[o].saved
        /\ \A p \in Orders : p # o => order'[p] = order[p]
    BY <1>1, <1>2, <2>1 DEF OrderRows
  <2>4. RowsMove BY <1>1, <2>2, <2>3 DEF RowsMove
  <2>5. session[o] = "complete" => ClosedAt(o)'
    BY <2>2, <2>3 DEF ClosedAt
  <2>6. \A p \in Orders : order'[p].state \in {"paid", "expired"} =>
          order[p].state \in {"paid", "expired"} \/ ClosedAt(p)'
    BY <2>3, <2>5
  <2>7. ASSUME NEW p \in Orders, order[p].state = "pending", order'[p].state = "pending",
               tenant'[order[p].tenant].state = "provisioning",
               tenant[order[p].tenant].state # "provisioning"
        PROVE  FALSE
    <3>1. order[p].tenant \in Tenants BY <2>7 DEF IInv, Safe, Linked
    <3>2. /\ order[p].tenant = t /\ session[o] = "complete"
          /\ tenant[t].state = "pending_payment"
      BY <2>2, <2>7, <3>1
    <3>3. p # o BY <2>3, <2>7, <3>2
    <3>4. order[o].state # "pending" BY <2>7, <3>2, <3>3 DEF Offers, SinglePending
    <3>5. order[o].state \in {"paid", "expired"} BY <1>1, <1>2, <3>4 DEF OrderRows
    <3> QED BY <3>2, <3>5 DEF Offers, ClosedAt
  <2>8. SweepSure' BY <1>3, <2>4, <2>7, SureStays
  <2>9. \A p \in Orders : order[p].state = "unused" => order'[p].state = "unused"
    BY <1>1, <2>3
  <2>10. ReadsHold' BY <1>3, <2>4, <2>9, ReadsStay
  <2> QED BY <1>3, <2>4, <2>6, <2>8, <2>9, <2>10, OffersKeep
<1> QED BY <1>4, <1>5 DEF Reconciled, rows

\* Clean-up takes an order that it was sure of.
LEMMA SweepLooksOffers ==
  ASSUME IInv, Offers, NEW o \in Orders, SweepLooks(o)
  PROVE  Offers'
<1>1. session' = session /\ call' = call BY DEF SweepLooks
<1>2. CASE session[o] \in {"complete", "ended"} /\ Reconciled(o) /\ sweep' = sweep
  BY <1>1, <1>2, ReconciledOffers
<1>3. CASE /\ ~order[o].saved \/ session[o] = "expired"
           /\ sweep' = [order |-> o, saved |-> order[o].saved]
           /\ UNCHANGED <<tenant, order>>
  <2>1. /\ sweep'.order = o /\ sweep'.saved = order[o].saved
        /\ tenant[order[o].tenant].state = "pending_payment"
    BY <1>3 DEF SweepLooks, Abandoned
  <2>2. SweepSure' BY <1>1, <1>3, <2>1 DEF SweepSure
  <2> QED BY <1>1, <1>3, <2>2, OffersStay DEF Moves, Quietly
<1> QED BY <1>2, <1>3 DEF SweepLooks, rows

\* An order that clean-up closes was the only one pending for a tenant that waits:
\* both go.
LEMMA CleansOffers ==
  ASSUME IInv, Offers, Cleans
  PROVE  Offers'
<1>1. PICK o \in Orders : sweep # NoSweep /\ o = sweep.order /\ order[o].state # "unused"
  BY DEF Cleans, IInv, Safe, SweepKnows
<1>2. PICK t \in Tenants : t = order[o].tenant /\ tenant[t].state # "unused"
  BY <1>1 DEF IInv, Safe, Linked
<1>3. /\ sweep' = NoSweep /\ session' = session
      /\ order' = IF order[o].state = "pending" THEN [order EXCEPT ![o].state = "expired"]
                  ELSE order
      /\ tenant' = IF tenant[t].state = "pending_payment" /\ Pending(t) \subseteq {o}
                   THEN [tenant EXCEPT ![t].state = "deleted"] ELSE tenant
  BY <1>1, <1>2 DEF Cleans
<1>4. tenant \in [Tenants -> TenantRows] /\ order \in [Orders -> OrderRows]
  BY DEF IInv, TypeOK
<1>5. /\ order'[o].state = IF order[o].state = "pending" THEN "expired" ELSE order[o].state
      /\ order'[o].tenant = t /\ order'[o].saved = order[o].saved
      /\ \A p \in Orders : p # o => order'[p] = order[p]
  BY <1>2, <1>3, <1>4 DEF OrderRows
<1>6. /\ tenant'[t].state = IF tenant[t].state = "pending_payment" /\ Pending(t) \subseteq {o}
                            THEN "deleted" ELSE tenant[t].state
      /\ \A s \in Tenants : s # t => tenant'[s] = tenant[s]
  BY <1>3, <1>4 DEF TenantRows
<1>7. RowsMove BY <1>1, <1>2, <1>5, <1>6 DEF RowsMove
<1>8. order[o].state = "pending" => ClosedAt(o)'
  <2> SUFFICES ASSUME order[o].state = "pending" PROVE ClosedAt(o)' OBVIOUS
  <2>1. tenant[t].state # "provisioning" BY <1>1, <1>2 DEF Offers, SweepSure
  <2>2. tenant[t].state = "pending_payment" => Pending(t) \subseteq {o}
    BY <1>1, <1>2 DEF Offers, SinglePending, Pending
  <2>3. tenant'[t].state \notin {"pending_payment", "provisioning"} BY <1>6, <2>1, <2>2
  <2> QED BY <1>5, <2>3 DEF ClosedAt
<1>9. \A p \in Orders : order'[p].state \in {"paid", "expired"} =>
        order[p].state \in {"paid", "expired"} \/ ClosedAt(p)'
  BY <1>4, <1>5, <1>8 DEF OrderRows
<1>10. SweepSure' BY <1>3 DEF SweepSure
<1>11. \A p \in Orders : order[p].state = "unused" => order'[p].state = "unused"
  BY <1>1, <1>5
<1>12. \A p \in Orders : Moves(p) BY <1>3 DEF Moves
<1>13. \A c \in Calls : Quietly(c) BY DEF Cleans, Quietly
<1>14. ReadsHold' BY <1>7, <1>11, <1>13, ReadsStay
<1> QED BY <1>7, <1>9, <1>10, <1>11, <1>12, <1>14, OffersKeep

\* A tenant that leaves takes its place with it.
LEMMA LeavesOffers ==
  ASSUME IInv, Offers, NEW t \in Tenants, Leaves(t)
  PROVE  Offers'
<1>1. UNCHANGED <<order, session, sweep>> BY DEF Leaves
<1>2. /\ tenant'[t].state = "deleted"
      /\ \A s \in Tenants : s # t => tenant'[s] = tenant[s]
  BY DEF Leaves, IInv, TypeOK, TenantRows
<1>3. \A o \in Orders : Moves(o) BY <1>1 DEF Moves
<1>4. RowsMove BY <1>1, <1>2 DEF RowsMove
<1>5. ASSUME NEW o \in Orders, order[o].state = "pending",
             tenant'[order[o].tenant].state = "provisioning"
      PROVE  tenant[order[o].tenant].state = "provisioning"
  <2>1. order[o].tenant \in Tenants BY <1>5 DEF IInv, Safe, Linked
  <2> QED BY <1>2, <1>5, <2>1
<1>6. SweepSure' BY <1>1, <1>3, <1>4, <1>5, SureStays
<1>7. \A c \in Calls : Quietly(c) BY DEF Leaves, Quietly
<1>8. ReadsHold' BY <1>1, <1>4, <1>7, ReadsStay
<1> QED BY <1>1, <1>3, <1>4, <1>6, <1>8, OffersKeep

\* Every step keeps what owners are offered in order.
LEMMA NextOffers == IInv /\ Offers /\ [Next]_vars => Offers'
<1> SUFFICES ASSUME IInv, Offers, [Next]_vars PROVE Offers' OBVIOUS
<1>1. ASSUME NEW c \in Calls,
             CallStep(c) \/ CallFails(c) \/ \E a \in Accounts : Asks(c, a)
      PROVE  Offers'
  <2>1. CASE Joins(c) BY <2>1, JoinsOffers
  <2>2. CASE FindsOrder(c) BY <2>2, FindsOffers
  <2>3. CASE Replaces(c) BY <2>3, ReplacesOffers
  <2>4. CASE Saves(c) BY <2>4, NotesOffers
  <2>5. CASE Counts(c) \/ LooksUp(c) \/ Creates(c) \/ CallFails(c)
             \/ \E a \in Accounts : Asks(c, a)
    BY <2>5, SessionOffers
  <2>6. CASE MakesOrder(c) BY <2>6, MakesOffers
  <2>7. CASE Renews(c) BY <2>7, RenewsOffers
  <2> QED BY <1>1, <2>1, <2>2, <2>3, <2>4, <2>5, <2>6, <2>7 DEF CallStep
<1>2. ASSUME NEW o \in Orders,
             \/ SessionExpires(o) \/ Pays(o) \/ Ends(o) \/ GrowsOld(o)
             \/ Notified(o) \/ SweepLooks(o)
      PROVE  Offers'
  <2>1. CASE SessionExpires(o) \/ Pays(o) \/ Ends(o) BY <2>1, SessionOffers
  <2>2. CASE GrowsOld(o) BY <2>2, NotesOffers
  <2>3. CASE Notified(o) BY <2>3, ReconciledOffers DEF Notified
  <2>4. CASE SweepLooks(o) BY <2>4, SweepLooksOffers
  <2> QED BY <1>2, <2>1, <2>2, <2>3, <2>4
<1>3. ASSUME NEW t \in Tenants, Leaves(t) PROVE Offers' BY <1>3, LeavesOffers
<1>4. CASE Cleans BY <1>4, CleansOffers
<1>5. CASE SweepFails \/ UNCHANGED vars BY <1>5, SessionOffers
<1> QED BY <1>1, <1>2, <1>3, <1>4, <1>5 DEF Next

\* A tenant that waits has one order pending at a time and no other order by which
\* it can be paid, whatever overlapping transactions have read before they insert;
\* and what clean-up has read of an order holds while that is pending (app.ts,
\* billing.ts, worker.ts).
THEOREM CheckoutOffers == Spec => []Offers
<1>1. \A c \in Calls : Init => call[c].pc = "idle" BY DEF Init, Idle
<1>2. Init => Offers
  BY <1>1 DEF Init, Offers, SinglePending, ClosedAt, SweepSure, ReadsHold
<1> QED BY <1>2, NextOffers, CheckoutInvariant, PTL DEF Spec

\* A tenant that waits has at most one checkout that is open or was paid.
THEOREM CheckoutOneOpen == Spec => []OneCheckoutOpen
<1>1. IInv /\ Offers => OneCheckoutOpen
  <2> SUFFICES ASSUME IInv, Offers, NEW t \in Tenants,
                      tenant[t].state = "pending_payment"
               PROVE  Cardinality({o \in Orders : /\ order[o].tenant = t /\ order[o].saved
                                                  /\ session[o] \in {"open", "complete"}}) <= 1
    BY DEF OneCheckoutOpen
  <2> DEFINE S == {o \in Orders : /\ order[o].tenant = t /\ order[o].saved
                                  /\ session[o] \in {"open", "complete"}}
  <2>1. ASSUME NEW o \in S PROVE order[o].state = "pending"
    <3>1. order[o].state \in {"unused", "pending", "paid", "expired"}
      BY DEF IInv, TypeOK, OrderRows
    <3>2. order[o].state # "unused" BY DEF IInv, Safe, Linked
    <3>3. ClosedAt(o) BY DEF Offers
    <3> QED BY <3>1, <3>2, <3>3 DEF ClosedAt
  <2>2. \A o, p \in S : o = p BY <2>1 DEF Offers, SinglePending
  <2>3. CASE S = {}
    <3>1. Cardinality(S) = 0 BY <2>3, FS_EmptySet
    <3> QED BY <3>1
  <2>4. CASE S # {}
    <3>1. PICK o \in S : S = {o} BY <2>2, <2>4
    <3>2. Cardinality(S) = 1 BY <3>1, FS_Singleton
    <3> QED BY <3>2
  <2> QED BY <2>3, <2>4
<1> QED BY <1>1, CheckoutInvariant, CheckoutOffers, PTL

\* Clean-up that knew of the checkout takes no tenant that was, or can be, paid for.
THEOREM CheckoutSparesPayers == Spec => CleanUpSparesPayers
<1> DEFINE Spares ==
      \A t \in Tenants :
        /\ tenant[t].state = "pending_payment" /\ tenant'[t].state = "deleted"
        /\ sweep.saved
        => \A o \in Orders : order[o].tenant = t /\ order[o].saved
                             => session[o] \notin {"open", "complete"}
<1>1. ASSUME IInv, Offers, [Next]_vars PROVE Spares
  <2> SUFFICES ASSUME NEW t \in Tenants, tenant[t].state = "pending_payment",
                      tenant'[t].state = "deleted", sweep.saved,
                      NEW o \in Orders, order[o].tenant = t, order[o].saved
               PROVE  session[o] \notin {"open", "complete"}
    OBVIOUS
  <2>1. tenant \in [Tenants -> TenantRows] BY <1>1 DEF IInv, TypeOK
  <2>2. Cleans
    <3>1. tenant' # tenant OBVIOUS
    <3>2. ASSUME NEW p \in Orders, Reconciled(p) PROVE FALSE
      <4>1. tenant'[t].state \in {tenant[t].state, "provisioning"}
        BY <2>1, <3>2 DEF Reconciled, rows, TenantRows
      <4> QED BY <4>1
    <3>3. ASSUME NEW c \in Calls, Joins(c) PROVE FALSE
      <4>1. PICK s \in Tenants :
              tenant' = [tenant EXCEPT ![s] =
                [state |-> "pending_payment", account |-> call[c].account,
                 sub |-> None, job |-> FALSE]]
        BY <3>3 DEF Joins
      <4> QED BY <2>1, <4>1
    <3>4. ASSUME NEW s \in Tenants, Leaves(s) PROVE FALSE
      BY <2>1, <3>4 DEF Leaves, TenantRows
    <3> QED
      BY <1>1, <3>1, <3>2, <3>3, <3>4
      DEF Next, vars, rows, CallStep, Counts, FindsOrder, MakesOrder, LooksUp, Creates,
          Saves, Replaces, Renews, CallFails, Asks, SessionExpires, Pays, Ends, Becomes, GrowsOld, Notified,
          SweepLooks, SweepFails
  <2>3. sweep # NoSweep /\ sweep.order \in Orders /\ order[sweep.order].state # "unused"
    BY <1>1, <2>2 DEF Cleans, IInv, Safe, SweepKnows
  <2>4. order[sweep.order].tenant = t /\ Pending(t) \subseteq {sweep.order}
    <3>1. order[sweep.order].tenant \in Tenants BY <1>1, <2>3 DEF IInv, Safe, Linked
    <3> QED BY <2>1, <2>2, <3>1 DEF Cleans
  <2>5. CASE order[o].state = "pending"
    <3>1. o = sweep.order BY <2>4, <2>5 DEF Pending
    <3> QED BY <1>1, <2>3, <3>1 DEF Offers, SweepSure
  <2>6. CASE order[o].state # "pending"
    <3>1. order[o].state \in {"paid", "expired", "unused"}
      BY <1>1, <2>6 DEF IInv, TypeOK, OrderRows
    <3>2. order[o].state # "unused"
      BY <1>1, NoneApart DEF IInv, Safe, Linked
    <3>3. ClosedAt(o) BY <1>1 DEF Offers
    <3> QED BY <3>1, <3>2, <3>3 DEF ClosedAt
  <2> QED BY <2>5, <2>6
<1>2. IInv /\ Offers /\ [Next]_vars => [Spares]_vars BY <1>1
<1> QED BY <1>2, CheckoutInvariant, CheckoutOffers, PTL DEF Spec, CleanUpSparesPayers
=============================================================================
