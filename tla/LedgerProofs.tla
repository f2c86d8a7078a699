----------------------------- MODULE LedgerProofs -----------------------------
(* The ledger's invariants for any number of accounts, orders and requests,    *)
(* any catalog and any usage reports.                                          *)
EXTENDS Ledger, PricingProofs, FiniteSetTheorems, TLAPS

-----------------------------------------------------------------------------
(* How a sum over a finite set changes with one of its terms. *)

\* A sum over a finite set counts finitely many units.
LEMMA UnitsFinite ==
  ASSUME NEW S, IsFiniteSet(S), NEW f \in [S -> Nat]
  PROVE  IsFiniteSet(Units(f)) /\ Total(f) \in Nat
<1> DEFINE term == [x \in S |-> {x} \X (1 .. f[x])]
           T == {term[x] : x \in S}
<1>1. term \in Surjection(S, T) BY DEF Surjection
<1>2. IsFiniteSet(T) BY <1>1, FS_Surjection
<1>3. ASSUME NEW x \in S PROVE IsFiniteSet(term[x])
  <2>1. IsFiniteSet({x}) BY FS_Singleton
  <2>2. IsFiniteSet(1 .. f[x]) BY FS_Interval
  <2> QED BY <2>1, <2>2, FS_Product
<1>4. \A U \in T : IsFiniteSet(U) BY <1>3
<1> HIDE DEF T
<1>5. IsFiniteSet(UNION T) BY <1>2, <1>4, FS_UNION
<1>6. Units(f) = UNION T BY DEF Units, T
<1> QED BY <1>5, <1>6, FS_CardinalityType DEF Total

\* The empty sum is zero.
LEMMA TotalEmpty ==
  ASSUME NEW f, DOMAIN f = {}
  PROVE  Total(f) = 0
<1>1. Units(f) = {} BY DEF Units
<1> QED BY <1>1, FS_EmptySet DEF Total

\* A sum of zeros is zero.
LEMMA TotalZero ==
  ASSUME NEW f, \A x \in DOMAIN f : f[x] = 0
  PROVE  Total(f) = 0
<1>1. \A x \in DOMAIN f : {x} \X (1 .. f[x]) = {} OBVIOUS
<1>2. Units(f) = {} BY <1>1 DEF Units
<1> QED BY <1>2, FS_EmptySet DEF Total

\* One term split off from a sum.
LEMMA TotalSplit ==
  ASSUME NEW S, IsFiniteSet(S), NEW f \in [S -> Nat], NEW x \in S
  PROVE  /\ Total(f) = Total(Without(f, x)) + f[x]
         /\ Total(Without(f, x)) \in Nat
<1> DEFINE g == Without(f, x)
           U == {x} \X (1 .. f[x])
<1>1. g \in [S \ {x} -> Nat] BY DEF Without
<1>2. IsFiniteSet(S \ {x}) BY FS_RemoveElement
<1>3. IsFiniteSet(Units(g)) /\ Total(g) \in Nat
  <2> HIDE DEF g
  <2> QED BY <1>1, <1>2, UnitsFinite
<1>4. IsFiniteSet(U) /\ Cardinality(U) = f[x]
  <2>1. IsFiniteSet({x}) /\ Cardinality({x}) = 1 BY FS_Singleton
  <2>2. f[x] \in Nat OBVIOUS
  <2>3. IsFiniteSet(1 .. f[x]) /\ Cardinality(1 .. f[x]) = f[x]
    BY <2>2, FS_Interval
  <2>4. IsFiniteSet(U) /\ Cardinality(U) = 1 * f[x]
    BY <2>1, <2>3, FS_Product
  <2> QED BY <2>2, <2>4
<1>5. Units(f) = Units(g) \cup U
  <2>1. DOMAIN f = (DOMAIN g) \cup {x} /\ \A y \in DOMAIN g : g[y] = f[y]
    BY DEF Without
  <2> HIDE DEF g
  <2> QED BY <2>1 DEF Units
<1>6. Units(g) \cap U = {}
  <2>1. x \notin DOMAIN g BY DEF Without
  <2> HIDE DEF g
  <2> QED BY <2>1 DEF Units
<1> HIDE DEF g, U
<1>7. Cardinality(Units(g) \cup U)
        = Cardinality(Units(g)) + Cardinality(U) - Cardinality(Units(g) \cap U)
  BY <1>3, <1>4, FS_Union
<1>8. Cardinality({}) = 0 BY FS_EmptySet
<1>9. Cardinality(Units(g)) \in Nat /\ f[x] \in Nat
  BY <1>3 DEF Total
<1>10. Total(f) = Total(g) + f[x]
  <2>1. Cardinality(Units(g) \cup U) = Cardinality(Units(g)) + f[x] - 0
    BY <1>4, <1>6, <1>7, <1>8
  <2>2. Cardinality(Units(f)) = Cardinality(Units(g)) + f[x]
    BY <1>5, <1>9, <2>1
  <2> QED BY <2>2 DEF Total
<1> QED BY <1>3, <1>10 DEF g

\* A sum when one term changes.
LEMMA TotalChange ==
  ASSUME NEW S, IsFiniteSet(S), NEW f \in [S -> Nat], NEW h \in [S -> Nat],
         NEW x \in S, \A y \in S \ {x} : h[y] = f[y]
  PROVE  Total(h) = Total(f) - f[x] + h[x]
<1>1. Without(h, x) = Without(f, x) BY DEF Without
<1>2. /\ Total(f) = Total(Without(f, x)) + f[x]
      /\ Total(Without(f, x)) \in Nat
  BY TotalSplit
<1>3. Total(h) = Total(Without(h, x)) + h[x]
  BY TotalSplit
<1>4. f[x] \in Nat /\ h[x] \in Nat OBVIOUS
<1> QED BY <1>1, <1>2, <1>3, <1>4

-----------------------------------------------------------------------------
(* Wallets *)

\* Money coming in keeps the columns natural, moves balance minus debt by the
\* amount, and leaves an account with a balance or a debt, not both.
LEMMA AddMoves ==
  ASSUME balance \in [Accounts -> Nat], debt \in [Accounts -> Nat],
         NEW a \in Accounts, NEW n \in Nat, Add(a, n)
  PROVE  /\ balance' \in [Accounts -> Nat]
         /\ debt' \in [Accounts -> Nat]
         /\ balance'[a] - debt'[a] = balance[a] - debt[a] + n
         /\ balance[a] = 0 \/ debt[a] = 0 => balance'[a] = 0 \/ debt'[a] = 0
         /\ \A b \in Accounts \ {a} : balance'[b] = balance[b] /\ debt'[b] = debt[b]
<1> DEFINE repaid == Least(n, debt[a])
<1>1. repaid \in Nat /\ repaid <= n /\ repaid <= debt[a]
      /\ (repaid = n \/ repaid = debt[a])
  BY DEF Least
<1> HIDE DEF repaid
<1>2. /\ balance' = [balance EXCEPT ![a] = balance[a] + n - repaid]
      /\ debt' = [debt EXCEPT ![a] = debt[a] - repaid]
  BY DEF Add, repaid
<1>3. balance[a] + n - repaid \in Nat /\ debt[a] - repaid \in Nat
  BY <1>1
<1>4. balance'[a] = balance[a] + n - repaid /\ debt'[a] = debt[a] - repaid
  BY <1>2
<1> QED BY <1>1, <1>2, <1>3, <1>4

\* Money going out moves balance minus debt by the amount the other way.
LEMMA TakeMoves ==
  ASSUME balance \in [Accounts -> Nat], debt \in [Accounts -> Nat],
         NEW a \in Accounts, NEW n \in Nat, Take(a, n)
  PROVE  /\ balance' \in [Accounts -> Nat]
         /\ debt' \in [Accounts -> Nat]
         /\ balance'[a] - debt'[a] = balance[a] - debt[a] - n
         /\ balance[a] = 0 \/ debt[a] = 0 => balance'[a] = 0 \/ debt'[a] = 0
         /\ \A b \in Accounts \ {a} : balance'[b] = balance[b] /\ debt'[b] = debt[b]
<1> DEFINE paid == Least(n, balance[a])
<1>1. paid \in Nat /\ paid <= n /\ paid <= balance[a]
      /\ (paid = n \/ paid = balance[a])
  BY DEF Least
<1> HIDE DEF paid
<1>2. /\ balance' = [balance EXCEPT ![a] = balance[a] - paid]
      /\ debt' = [debt EXCEPT ![a] = debt[a] + n - paid]
  BY DEF Take, paid
<1>3. balance[a] - paid \in Nat /\ debt[a] + n - paid \in Nat
  BY <1>1
<1>4. balance'[a] = balance[a] - paid /\ debt'[a] = debt[a] + n - paid
  BY <1>2
<1> QED BY <1>1, <1>2, <1>3, <1>4

-----------------------------------------------------------------------------
\* A request in a state that holds money is a row of table requests.
LEMMA HeldRow ==
  ASSUME TypeOK, NEW r \in Requests, requests[r].state \in Held
  PROVE  /\ requests[r] \in ReservedRequest
         /\ requests[r].account \in Accounts
         /\ requests[r].model \in ModelType
         /\ requests[r].hold \in Nat
<1>1. Unused.state = "unused" BY DEF Unused
<1>2. requests[r] # Unused BY <1>1 DEF Held
<1>3. requests[r] \in ReservedRequest BY <1>2 DEF TypeOK
<1> QED BY <1>3, LedgerAssumption DEF ReservedRequest

\* What a usable report is charged is a natural number, at most the hold.
LEMMA ChargeWithinHold ==
  ASSUME TypeOK, NEW r \in Requests, requests[r].state \in Held,
         NEW u \in Reports \cup {NoUsage}, Billable(r, u)
  PROVE  /\ UsagePrice(requests[r].model, u) \in Nat
         /\ UsagePrice(requests[r].model, u) <= requests[r].hold
<1>1. u \in UsageType BY LedgerAssumption DEF Billable
<1>2. u.prompt \in Nat /\ u.completion \in Nat /\ u.cached \in 0 .. u.prompt
  BY DEF Billable, ValidUsage
<1>3. requests[r].model \in ModelType BY HeldRow
<1> QED BY <1>2, <1>3, PriceNat DEF Billable, UsagePrice

\* An incident that is raised or resolved stays a function of both kinds.
LEMMA RaiseType ==
  ASSUME TypeOK, NEW r \in Requests, NEW k \in {"usage", "stale-usage"},
         Raise(k, r)
  PROVE  incidents' \in [Requests -> [{"usage", "stale-usage"}
                                   -> {"none", "open", "resolved"}]]
  BY DEF TypeOK, Raise

\* A request's row keeps its type when only its state changes.
LEMMA RowType ==
  ASSUME TypeOK, NEW r \in Requests, requests[r].state \in Held,
         NEW s \in {"reserved", "unknown", "settled"},
         requests' = [requests EXCEPT ![r].state = s]
  PROVE  /\ requests' \in [Requests -> ReservedRequest \cup {Unused}]
         /\ requests'[r].state = s
         /\ requests'[r].account = requests[r].account
         /\ requests'[r].hold = requests[r].hold
         /\ requests'[r].model = requests[r].model
         /\ requests'[r].maxOutput = requests[r].maxOutput
         /\ \A q \in Requests \ {r} : requests'[q] = requests[q]
<1>1. requests[r] \in ReservedRequest BY HeldRow
<1> DEFINE row == [requests[r] EXCEPT !.state = s]
<1>2. requests' = [requests EXCEPT ![r] = row] OBVIOUS
<1>3. /\ row \in ReservedRequest /\ row.state = s
      /\ row.account = requests[r].account /\ row.hold = requests[r].hold
      /\ row.model = requests[r].model /\ row.maxOutput = requests[r].maxOutput
  BY <1>1 DEF ReservedRequest
<1> HIDE DEF row
<1> QED BY <1>2, <1>3 DEF TypeOK

-----------------------------------------------------------------------------
\* The kinds of step the proofs distinguish. A settlement that charges:
Charging ==
  \E r \in Requests, u \in Reports \cup {NoUsage} :
    requests[r].state \in Held /\ Billable(r, u) /\ Settled(r, u)

\* One that cannot, or a stale reservation:
Quarantining ==
  \E r \in Requests, k \in {"usage", "stale-usage"} :
    requests[r].state \in Held /\ Quarantine(r, k)

Crediting == \E o \in Orders : Credit(o)

Reversing == \E o \in Orders, target \in 0 .. TopUp : ReverseCredit(o, target)

Reserving ==
  \E r \in Requests, a \in Accounts, m \in Models :
    \E maxOutput \in 1 .. m.maxOutput : Reserve(r, a, m, maxOutput)

\* A step of a process or of the clock that leaves the tables alone.
Idle == UNCHANGED <<wallet, requests, incidents, reversed, book>>

\* A call of settle() either charges or quarantines.
LEMMA SettleKinds ==
  ASSUME NEW r \in Requests, NEW u \in Reports \cup {NoUsage}, Settle(r, u)
  PROVE  Charging \/ Quarantining
<1>1. requests[r].state \in Held BY DEF Settle
<1>2. CASE Billable(r, u)
  <2>1. Settled(r, u) BY <1>2 DEF Settle
  <2> QED BY <1>1, <1>2, <2>1 DEF Charging
<1>3. CASE ~Billable(r, u)
  <2>1. Quarantine(r, "usage") BY <1>3 DEF Settle
  <2> QED BY <1>1, <2>1 DEF Quarantining
<1> QED BY <1>2, <1>3

\* Every step is of one of these kinds.
LEMMA StepKinds ==
  ASSUME [Next]_vars
  PROVE  Crediting \/ Reversing \/ Reserving \/ Charging \/ Quarantining \/ Idle
<1>1. CASE UNCHANGED vars
  BY <1>1 DEF vars, Idle, wallet, book
<1>2. CASE \E o \in Orders : Credit(o)
  BY <1>2 DEF Crediting
<1>3. CASE \E o \in Orders, target \in 0 .. TopUp : ReverseCredit(o, target)
  BY <1>3 DEF Reversing
<1>4. CASE \E r \in Requests, a \in Accounts, m \in Models :
             \E maxOutput \in 1 .. m.maxOutput : Reserve(r, a, m, maxOutput)
  BY <1>4 DEF Reserving
<1>5. ASSUME NEW r \in Requests, NEW u \in Reports \cup {NoUsage},
             GatewayEnds(r, u) \/ OperatorReconciles(r, u)
      PROVE  Charging \/ Quarantining \/ Idle
  <2>1. Settle(r, u) \/ Idle
    BY <1>5 DEF GatewayEnds, OperatorReconciles, Idle
  <2> QED BY <2>1, SettleKinds
<1>6. ASSUME NEW r \in Requests, GatewayLost(r) \/ GrowsStale(r)
      PROVE  Idle
  BY <1>6 DEF GatewayLost, GrowsStale, Idle
<1>7. ASSUME NEW r \in Requests, QuarantineStale(r)
      PROVE  Quarantining
  BY <1>7 DEF QuarantineStale, Quarantining, Held
<1> QED BY <1>1, <1>2, <1>3, <1>4, <1>5, <1>6, <1>7 DEF Next

\* The clock and the processes only ever name requests.
LEMMA StepSets ==
  ASSUME TypeOK, [Next]_vars
  PROVE  stale' \subseteq Requests /\ gateways' \subseteq Requests
<1> USE DEF TypeOK
<1>1. CASE UNCHANGED vars BY <1>1 DEF vars
<1>2. ASSUME NEW o \in Orders, NEW target \in 0 .. TopUp,
             Credit(o) \/ ReverseCredit(o, target)
      PROVE  stale' \subseteq Requests /\ gateways' \subseteq Requests
  BY <1>2 DEF Credit, ReverseCredit
<1>3. ASSUME NEW r \in Requests, NEW a \in Accounts, NEW m \in Models,
             NEW n \in 1 .. m.maxOutput, Reserve(r, a, m, n)
      PROVE  stale' \subseteq Requests /\ gateways' \subseteq Requests
  BY <1>3 DEF Reserve
<1>4. ASSUME NEW r \in Requests, NEW u \in Reports \cup {NoUsage},
             GatewayEnds(r, u) \/ OperatorReconciles(r, u)
      PROVE  stale' \subseteq Requests /\ gateways' \subseteq Requests
  <2>1. stale' = stale
    BY <1>4 DEF GatewayEnds, OperatorReconciles, Settle, Settled, Quarantine
  <2>2. gateways' \subseteq gateways
    BY <1>4 DEF GatewayEnds, OperatorReconciles
  <2> QED BY <2>1, <2>2
<1>5. ASSUME NEW r \in Requests,
             GatewayLost(r) \/ QuarantineStale(r) \/ GrowsStale(r)
      PROVE  stale' \subseteq Requests /\ gateways' \subseteq Requests
  BY <1>5 DEF GatewayLost, QuarantineStale, GrowsStale, Quarantine
<1>6. 0 \in 0 .. TopUp BY LedgerAssumption
<1> QED BY <1>1, <1>2, <1>3, <1>4, <1>5, <1>6 DEF Next

-----------------------------------------------------------------------------
\* The initial state is typed.
LEMMA InitType == Init => TypeOK
<1>1. 0 \in 0 .. TopUp BY LedgerAssumption
<1> QED BY <1>1 DEF Init, TypeOK, Source

\* Types are inductive: each case shows that its guards keep the columns
\* natural.
LEMMA StepType ==
  ASSUME TypeOK, [Next]_vars
  PROVE  TypeOK'
<1>1. stale' \subseteq Requests /\ gateways' \subseteq Requests BY StepSets
<1>2. CASE Crediting
  <2> PICK o \in Orders : Credit(o) BY <1>2 DEF Crediting
  <2>1. Owner[o] \in Accounts /\ TopUp \in Nat BY LedgerAssumption
  <2>2. balance' \in [Accounts -> Nat] /\ debt' \in [Accounts -> Nat]
    BY <2>1, AddMoves DEF Credit, TypeOK
  <2>3. topups' \in [Accounts -> Nat] BY <2>1 DEF Credit, TypeOK
  <2>4. posted' \subseteq Source /\ wallets' \subseteq Accounts
    BY <2>1 DEF Credit, TypeOK, Source
  <2> QED BY <1>1, <2>2, <2>3, <2>4 DEF Credit, TypeOK
<1>3. CASE Reversing
  <2> PICK o \in Orders, target \in 0 .. TopUp : ReverseCredit(o, target)
    BY <1>3 DEF Reversing
  <2> DEFINE a == Owner[o]
             delta == target - reversed[o]
  <2>1. a \in Accounts /\ TopUp \in Nat /\ delta \in Int
    BY LedgerAssumption DEF TypeOK
  <2>2. reversed' \in [Orders -> 0 .. TopUp] BY DEF ReverseCredit, TypeOK
  <2>3. balance' \in [Accounts -> Nat] /\ debt' \in [Accounts -> Nat]
    <3>1. CASE delta > 0
      <4>1. delta \in Nat /\ Take(a, delta) BY <2>1, <3>1 DEF ReverseCredit
      <4> QED BY <2>1, <4>1, TakeMoves DEF TypeOK
    <3>2. CASE ~(delta > 0)
      <4>1. -delta \in Nat /\ Add(a, -delta) BY <2>1, <3>2 DEF ReverseCredit
      <4> QED BY <2>1, <4>1, AddMoves DEF TypeOK
    <3> QED BY <3>1, <3>2
  <2>4. reversals' \in [Accounts -> Int] BY <2>1 DEF ReverseCredit, TypeOK
  <2> QED BY <1>1, <2>2, <2>3, <2>4 DEF ReverseCredit, TypeOK
<1>4. CASE Reserving
  <2> PICK r \in Requests, a \in Accounts, m \in Models :
             \E n \in 1 .. m.maxOutput : Reserve(r, a, m, n)
    BY <1>4 DEF Reserving
  <2>1. m \in ModelType /\ m.maxOutput \in Nat
    BY LedgerAssumption DEF ModelType
  <2> PICK n \in 1 .. m.maxOutput : Reserve(r, a, m, n) OBVIOUS
  <2> DEFINE amount == MaximumPrice(m, n)
  <2>2. n \in Nat /\ amount \in Nat BY <2>1, MaximumPriceNat
  <2>3. reserved' = [reserved EXCEPT ![a] = @ + amount] BY DEF Reserve
  <2>4. requests' = [requests EXCEPT ![r] =
          [state |-> "reserved", account |-> a, model |-> m,
           maxOutput |-> n, hold |-> amount]]
    BY DEF Reserve
  <2> HIDE DEF amount
  <2>5. reserved' \in [Accounts -> Nat] BY <2>2, <2>3 DEF TypeOK
  <2>6. requests' \in [Requests -> ReservedRequest \cup {Unused}]
    BY <2>2, <2>4 DEF TypeOK, ReservedRequest
  <2> QED BY <1>1, <2>5, <2>6 DEF Reserve, TypeOK, book
<1>5. CASE Charging
  <2> PICK r \in Requests, u \in Reports \cup {NoUsage} :
             requests[r].state \in Held /\ Billable(r, u) /\ Settled(r, u)
    BY <1>5 DEF Charging
  <2> DEFINE a == requests[r].account
             charged == UsagePrice(requests[r].model, u)
  <2>1. a \in Accounts /\ requests[r].hold \in Nat BY HeldRow
  <2>2. charged \in Nat BY ChargeWithinHold
  <2>3. /\ Take(a, charged)
        /\ requests[r].hold <= reserved[a]
        /\ reserved' = [reserved EXCEPT ![a] = @ - requests[r].hold]
        /\ usage' = [usage EXCEPT ![a] =
              IF <<"request", r>> \in posted THEN @ ELSE @ + charged]
    BY DEF Settled
  <2> HIDE DEF a, charged
  <2>4. balance' \in [Accounts -> Nat] /\ debt' \in [Accounts -> Nat]
    BY <2>1, <2>2, <2>3, TakeMoves DEF TypeOK
  <2>5. reserved' \in [Accounts -> Nat] BY <2>1, <2>3 DEF TypeOK
  <2>6. usage' \in [Accounts -> Nat] BY <2>1, <2>2, <2>3 DEF TypeOK
  <2>7. posted' \subseteq Source BY DEF Settled, TypeOK, Source
  <2>8. requests' \in [Requests -> ReservedRequest \cup {Unused}]
    BY RowType DEF Settled
  <2>9. incidents' \in [Requests -> [{"usage", "stale-usage"}
                                   -> {"none", "open", "resolved"}]]
    BY DEF Settled, TypeOK
  <2> QED BY <1>1, <2>4, <2>5, <2>6, <2>7, <2>8, <2>9 DEF Settled, TypeOK
<1>6. CASE Quarantining
  <2> PICK r \in Requests, k \in {"usage", "stale-usage"} :
             requests[r].state \in Held /\ Quarantine(r, k)
    BY <1>6 DEF Quarantining
  <2>1. requests' \in [Requests -> ReservedRequest \cup {Unused}]
    BY RowType DEF Quarantine
  <2>2. incidents' \in [Requests -> [{"usage", "stale-usage"}
                                   -> {"none", "open", "resolved"}]]
    BY RaiseType DEF Quarantine
  <2> QED BY <1>1, <2>1, <2>2 DEF Quarantine, TypeOK, wallet, book
<1>7. CASE Idle
  BY <1>1, <1>7 DEF Idle, TypeOK, wallet, book
<1> QED BY <1>2, <1>3, <1>4, <1>5, <1>6, <1>7, StepKinds

-----------------------------------------------------------------------------
\* A source of table ledger names a request only once that request is final,
\* so the conflict clause of the usage row never hides a charge.
PostedIsSettled ==
  \A r \in Requests : <<"request", r>> \in posted => requests[r].state = "settled"

\* An incident is resolved by the settlement alone: incident() never reopens a
\* resolved key, so an earlier resolution would hide a later quarantine.
ResolvedIsSettled ==
  \A r \in Requests : \A k \in {"usage", "stale-usage"} :
    incidents[r][k] = "resolved" => requests[r].state = "settled"

\* A hold is what maximumPrice() gave for the row's own model and limit.
HoldsPriced ==
  \A r \in Requests : requests[r].state \in Held =>
    requests[r].hold = MaximumPrice(requests[r].model, requests[r].maxOutput)

Invariants ==
  /\ TypeOK
  /\ Conservation
  /\ BalanceOrDebt
  /\ ReservedIsHeld
  /\ ReversalsMatch
  /\ ReserveBacked
  /\ QuarantineVisible
  /\ PostedIsSettled
  /\ ResolvedIsSettled
  /\ HoldsPriced

\* Table requests and its holds as sums.
LEMMA HoldsType ==
  ASSUME TypeOK, NEW a \in Accounts
  PROVE  /\ IsFiniteSet(DOMAIN Holds(a))
         /\ Holds(a) \in [DOMAIN Holds(a) -> Nat]
<1> DEFINE D == {q \in Requests : requests[q].state \in Held
                                 /\ requests[q].account = a}
<1>1. DOMAIN Holds(a) = D BY DEF Holds
<1>2. IsFiniteSet(D) BY LedgerAssumption, FS_Subset
<1>3. \A r \in D : requests[r].hold \in Nat BY HeldRow
<1> QED BY <1>1, <1>2, <1>3 DEF Holds

LEMMA ReversedType ==
  ASSUME TypeOK, NEW a \in Accounts
  PROVE  /\ IsFiniteSet(DOMAIN ReversedOf(a))
         /\ ReversedOf(a) \in [DOMAIN ReversedOf(a) -> Nat]
<1> DEFINE D == {p \in Orders : Owner[p] = a}
<1>1. DOMAIN ReversedOf(a) = D BY DEF ReversedOf
<1>2. IsFiniteSet(D) BY LedgerAssumption, FS_Subset
<1>3. \A o \in D : reversed[o] \in Nat BY LedgerAssumption DEF TypeOK
<1> QED BY <1>1, <1>2, <1>3 DEF ReversedOf

\* The initial state satisfies every conjunct.
LEMMA InitInvariants == Init => Invariants
<1> SUFFICES ASSUME Init PROVE Invariants OBVIOUS
<1>1. TypeOK BY InitType
<1>2. Conservation /\ BalanceOrDebt /\ ReserveBacked
  BY DEF Init, Conservation, BalanceOrDebt, ReserveBacked
<1>3. ReservedIsHeld
  <2>1. \A a \in Accounts : DOMAIN Holds(a) = {}
    BY DEF Init, Holds, Held, Unused
  <2> QED BY <2>1, TotalEmpty DEF ReservedIsHeld, Init
<1>4. ReversalsMatch
  <2>1. \A a \in Accounts : \A o \in DOMAIN ReversedOf(a) : ReversedOf(a)[o] = 0
    BY DEF Init, ReversedOf
  <2> QED BY <2>1, TotalZero DEF ReversalsMatch, Init
<1>5. QuarantineVisible /\ PostedIsSettled /\ ResolvedIsSettled
  BY DEF Init, QuarantineVisible, PostedIsSettled, ResolvedIsSettled, Unused
<1>6. HoldsPriced BY DEF Init, HoldsPriced, Held, Unused
<1> QED BY <1>1, <1>2, <1>3, <1>4, <1>5, <1>6 DEF Invariants

\* What the bank took back of an account is never negative.
LEMMA ReversalsNat ==
  ASSUME TypeOK, ReversalsMatch, NEW a \in Accounts
  PROVE  reversals[a] \in Nat
  BY ReversedType, UnitsFinite DEF ReversalsMatch

\* The three invariants about an account's money, together: the bound on the
\* debt is kept by reserve() only because the wallet agrees with the ledger.
LEMMA StepMoney ==
  ASSUME Invariants, [Next]_vars
  PROVE  Conservation' /\ BalanceOrDebt' /\ ReserveBacked'
<1> SUFFICES ASSUME NEW b \in Accounts
             PROVE  /\ balance'[b] - debt'[b] = topups'[b] - reversals'[b] - usage'[b]
                    /\ balance'[b] = 0 \/ debt'[b] = 0
                    /\ debt'[b] + reserved'[b] <= balance'[b] + reversals'[b]
  BY DEF Conservation, BalanceOrDebt, ReserveBacked
<1>1. /\ balance[b] \in Nat /\ debt[b] \in Nat /\ reserved[b] \in Nat
      /\ topups[b] \in Nat /\ usage[b] \in Nat /\ reversals[b] \in Nat
      /\ balance[b] - debt[b] = topups[b] - reversals[b] - usage[b]
      /\ balance[b] = 0 \/ debt[b] = 0
      /\ debt[b] + reserved[b] <= balance[b] + reversals[b]
  BY ReversalsNat DEF Invariants, TypeOK, Conservation, BalanceOrDebt, ReserveBacked
<1>2. /\ balance \in [Accounts -> Nat] /\ debt \in [Accounts -> Nat]
      /\ reserved \in [Accounts -> Nat] /\ topups \in [Accounts -> Nat]
      /\ usage \in [Accounts -> Nat] /\ reversals \in [Accounts -> Int]
  BY DEF Invariants, TypeOK
<1>3. TypeOK' BY StepType DEF Invariants
<1>4. balance'[b] \in Nat /\ debt'[b] \in Nat /\ reserved'[b] \in Nat
  BY <1>3 DEF TypeOK
<1>5. CASE Crediting
  <2> PICK o \in Orders : Credit(o) BY <1>5 DEF Crediting
  <2>1. Owner[o] \in Accounts /\ TopUp \in Nat BY LedgerAssumption
  <2>2. CASE b = Owner[o]
    <3>1. /\ balance'[b] - debt'[b] = balance[b] - debt[b] + TopUp
          /\ balance'[b] = 0 \/ debt'[b] = 0
      BY <1>1, <1>2, <2>1, <2>2, AddMoves DEF Credit
    <3>2. /\ topups'[b] = topups[b] + TopUp /\ usage'[b] = usage[b]
          /\ reversals'[b] = reversals[b] /\ reserved'[b] = reserved[b]
      BY <1>2, <2>2 DEF Credit
    <3>3. balance'[b] - debt'[b] = topups'[b] - reversals'[b] - usage'[b]
      BY <1>1, <2>1, <3>1, <3>2
    <3>4. debt'[b] + reserved'[b] <= balance'[b] + reversals'[b]
      BY <1>1, <1>4, <2>1, <3>1, <3>2
    <3> QED BY <3>1, <3>3, <3>4
  <2>3. CASE b # Owner[o]
    <3>1. balance'[b] = balance[b] /\ debt'[b] = debt[b]
      BY <1>2, <2>1, <2>3, AddMoves DEF Credit
    <3>2. /\ topups'[b] = topups[b] /\ usage'[b] = usage[b]
          /\ reversals'[b] = reversals[b] /\ reserved'[b] = reserved[b]
      BY <1>2, <2>3 DEF Credit
    <3> QED BY <1>1, <3>1, <3>2
  <2> QED BY <2>2, <2>3
<1>6. CASE Reversing
  <2> PICK o \in Orders, target \in 0 .. TopUp : ReverseCredit(o, target)
    BY <1>6 DEF Reversing
  <2> DEFINE a == Owner[o]
             delta == target - reversed[o]
  <2>1. a \in Accounts /\ TopUp \in Nat /\ delta \in Int
    BY LedgerAssumption DEF Invariants, TypeOK
  <2>2. /\ IF delta > 0 THEN Take(a, delta) ELSE Add(a, -delta)
        /\ reversals' = [reversals EXCEPT ![a] = @ + delta]
        /\ topups' = topups /\ usage' = usage /\ reserved' = reserved
    BY DEF ReverseCredit
  <2> HIDE DEF a, delta
  <2>3. CASE b = a
    <3>1. /\ balance'[b] - debt'[b] = balance[b] - debt[b] - delta
          /\ balance'[b] = 0 \/ debt'[b] = 0
      <4>1. CASE delta > 0
        <5>1. delta \in Nat /\ Take(a, delta) BY <2>1, <2>2, <4>1
        <5>2. balance'[b] - debt'[b] = balance[b] - debt[b] - delta
          BY <1>2, <2>1, <2>3, <5>1, TakeMoves
        <5>3. balance'[b] = 0 \/ debt'[b] = 0
          BY <1>1, <1>2, <2>1, <2>3, <5>1, TakeMoves
        <5> QED BY <5>2, <5>3
      <4>2. CASE ~(delta > 0)
        <5>1. -delta \in Nat /\ Add(a, -delta) BY <2>1, <2>2, <4>2
        <5>2. balance'[b] - debt'[b] = balance[b] - debt[b] + (-delta)
          BY <1>2, <2>1, <2>3, <5>1, AddMoves
        <5>3. balance'[b] = 0 \/ debt'[b] = 0
          BY <1>1, <1>2, <2>1, <2>3, <5>1, AddMoves
        <5> QED BY <1>1, <2>1, <5>2, <5>3
      <4> QED BY <4>1, <4>2
    <3>2. /\ reversals'[b] = reversals[b] + delta /\ topups'[b] = topups[b]
          /\ usage'[b] = usage[b] /\ reserved'[b] = reserved[b]
      BY <1>2, <2>1, <2>2, <2>3
    <3>3. balance'[b] - debt'[b] = topups'[b] - reversals'[b] - usage'[b]
      BY <1>1, <2>1, <3>1, <3>2
    <3>4. debt'[b] + reserved'[b] <= balance'[b] + reversals'[b]
      BY <1>1, <1>4, <2>1, <3>1, <3>2
    <3> QED BY <3>1, <3>3, <3>4
  <2>4. CASE b # a
    <3>1. balance'[b] = balance[b] /\ debt'[b] = debt[b]
      <4>1. CASE delta > 0
        <5>1. delta \in Nat /\ Take(a, delta) BY <2>1, <2>2, <4>1
        <5> QED BY <1>2, <2>1, <2>4, <5>1, TakeMoves
      <4>2. CASE ~(delta > 0)
        <5>1. -delta \in Nat /\ Add(a, -delta) BY <2>1, <2>2, <4>2
        <5> QED BY <1>2, <2>1, <2>4, <5>1, AddMoves
      <4> QED BY <4>1, <4>2
    <3>2. /\ reversals'[b] = reversals[b] /\ topups'[b] = topups[b]
          /\ usage'[b] = usage[b] /\ reserved'[b] = reserved[b]
      BY <1>2, <2>2, <2>4
    <3> QED BY <1>1, <3>1, <3>2
  <2> QED BY <2>3, <2>4
<1>7. CASE Reserving
  <2> PICK r \in Requests, a \in Accounts, m \in Models :
             \E n \in 1 .. m.maxOutput : Reserve(r, a, m, n)
    BY <1>7 DEF Reserving
  <2>1. m \in ModelType /\ m.maxOutput \in Nat
    BY LedgerAssumption DEF ModelType
  <2> PICK n \in 1 .. m.maxOutput : Reserve(r, a, m, n) OBVIOUS
  <2> DEFINE amount == MaximumPrice(m, n)
  <2>2. amount \in Nat BY <2>1, MaximumPriceNat
  <2>3. /\ debt[a] = 0 /\ balance[a] - reserved[a] >= amount
        /\ reserved' = [reserved EXCEPT ![a] = @ + amount]
        /\ balance' = balance /\ debt' = debt
        /\ topups' = topups /\ usage' = usage /\ reversals' = reversals
    BY DEF Reserve, book
  <2> HIDE DEF amount
  <2>4. CASE b = a
    <3>1. reserved'[b] = reserved[b] + amount BY <1>2, <2>3, <2>4
    <3> QED BY <1>1, <2>2, <2>3, <2>4, <3>1
  <2>5. CASE b # a
    <3>1. reserved'[b] = reserved[b] BY <1>2, <2>3, <2>5
    <3> QED BY <1>1, <2>3, <3>1
  <2> QED BY <2>4, <2>5
<1>8. CASE Charging
  <2> PICK r \in Requests, u \in Reports \cup {NoUsage} :
             requests[r].state \in Held /\ Billable(r, u) /\ Settled(r, u)
    BY <1>8 DEF Charging
  <2> DEFINE a == requests[r].account
             h == requests[r].hold
             charged == UsagePrice(requests[r].model, u)
  <2>1. a \in Accounts /\ h \in Nat BY HeldRow DEF Invariants
  <2>2. charged \in Nat /\ charged <= h BY ChargeWithinHold DEF Invariants
  <2>3. <<"request", r>> \notin posted
    BY DEF Invariants, PostedIsSettled, Held
  <2>4. /\ Take(a, charged) /\ h <= reserved[a]
        /\ reserved' = [reserved EXCEPT ![a] = @ - h]
        /\ usage' = [usage EXCEPT ![a] = @ + charged]
        /\ topups' = topups /\ reversals' = reversals
    BY <2>3 DEF Settled
  <2> HIDE DEF a, h, charged
  <2>5. CASE b = a
    <3>1. /\ balance'[b] - debt'[b] = balance[b] - debt[b] - charged
          /\ balance'[b] = 0 \/ debt'[b] = 0
      BY <1>1, <1>2, <2>1, <2>2, <2>4, <2>5, TakeMoves
    <3>2. /\ reserved'[b] = reserved[b] - h /\ usage'[b] = usage[b] + charged
          /\ topups'[b] = topups[b] /\ reversals'[b] = reversals[b]
      BY <1>2, <2>4, <2>5
    <3> QED BY <1>1, <1>4, <2>1, <2>2, <3>1, <3>2
  <2>6. CASE b # a
    <3>1. balance'[b] = balance[b] /\ debt'[b] = debt[b]
      BY <1>2, <2>1, <2>2, <2>4, <2>6, TakeMoves
    <3>2. /\ reserved'[b] = reserved[b] /\ usage'[b] = usage[b]
          /\ topups'[b] = topups[b] /\ reversals'[b] = reversals[b]
      BY <1>2, <2>4, <2>6
    <3> QED BY <1>1, <3>1, <3>2
  <2> QED BY <2>5, <2>6
<1>9. CASE Quarantining \/ Idle
  <2>1. UNCHANGED <<wallet, book>> BY <1>9 DEF Quarantining, Quarantine, Idle
  <2> QED BY <1>1, <2>1 DEF wallet, book
<1> QED BY <1>5, <1>6, <1>7, <1>8, <1>9, StepKinds

\* The function of an account's holds changes only where a request does.
LEMMA StepReserved ==
  ASSUME Invariants, [Next]_vars
  PROVE  ReservedIsHeld'
<1> SUFFICES ASSUME NEW b \in Accounts
             PROVE  reserved'[b] = Total(Holds(b)')
  BY DEF ReservedIsHeld, Total, Units, Holds
<1>1. TypeOK /\ reserved[b] = Total(Holds(b)) /\ reserved[b] \in Nat
  BY DEF Invariants, ReservedIsHeld, TypeOK
<1>2. TypeOK' BY <1>1, StepType
<1>3. reserved \in [Accounts -> Nat] BY <1>1 DEF TypeOK
<1>4. ASSUME UNCHANGED requests, UNCHANGED reserved
      PROVE  reserved'[b] = Total(Holds(b)')
  <2>1. Holds(b)' = Holds(b) BY <1>4 DEF Holds
  <2> QED BY <1>1, <1>4, <2>1
<1>5. CASE Crediting \/ Reversing \/ Idle
  <2>1. UNCHANGED requests /\ UNCHANGED reserved
    BY <1>5 DEF Crediting, Reversing, Credit, ReverseCredit, Idle, wallet
  <2> QED BY <1>4, <2>1
<1>6. CASE Reserving
  <2> PICK r \in Requests, a \in Accounts, m \in Models :
             \E n \in 1 .. m.maxOutput : Reserve(r, a, m, n)
    BY <1>6 DEF Reserving
  <2>1. m \in ModelType /\ m.maxOutput \in Nat
    BY LedgerAssumption DEF ModelType
  <2> PICK n \in 1 .. m.maxOutput : Reserve(r, a, m, n) OBVIOUS
  <2> DEFINE amount == MaximumPrice(m, n)
  <2>2. amount \in Nat BY <2>1, MaximumPriceNat
  <2>3. /\ requests[r] = Unused
        /\ reserved' = [reserved EXCEPT ![a] = @ + amount]
        /\ requests' = [requests EXCEPT ![r] =
             [state |-> "reserved", account |-> a, model |-> m,
              maxOutput |-> n, hold |-> amount]]
    BY DEF Reserve
  <2> HIDE DEF amount
  <2>4. /\ requests[r].state \notin Held
        /\ requests'[r].state \in Held /\ requests'[r].account = a
        /\ requests'[r].hold = amount
        /\ \A q \in Requests \ {r} : requests'[q] = requests[q]
    BY <1>1, <2>3 DEF TypeOK, Held, Unused
  <2>5. CASE b = a
    <3>1. r \in DOMAIN Holds(b)' /\ Holds(b)'[r] = amount
      BY <2>4, <2>5 DEF Holds
    <3>2. Without(Holds(b)', r) = Holds(b)
      BY <2>4, <2>5 DEF Without, Holds
    <3>3. Total(Holds(b)') = Total(Holds(b)) + amount
      <4>1. /\ IsFiniteSet(DOMAIN Holds(b)) /\ Holds(b) \in [DOMAIN Holds(b) -> Nat]
            /\ DOMAIN Holds(b)' = DOMAIN Holds(b) \cup {r}
            /\ \A q \in DOMAIN Holds(b) : Holds(b)'[q] = Holds(b)[q]
            /\ Holds(b)' = [q \in DOMAIN Holds(b)' |-> Holds(b)'[q]]
        <5>1. /\ IsFiniteSet(DOMAIN Holds(b))
              /\ Holds(b) \in [DOMAIN Holds(b) -> Nat]
          BY <1>1, HoldsType
        <5>2. DOMAIN Holds(b)' = DOMAIN Holds(b) \cup {r}
          BY <2>4, <2>5 DEF Holds
        <5>3. \A q \in DOMAIN Holds(b) : Holds(b)'[q] = Holds(b)[q]
          BY <2>4, <2>5 DEF Holds
        <5>4. Holds(b)' = [q \in DOMAIN Holds(b)' |-> Holds(b)'[q]]
          BY DEF Holds
        <5> QED BY <5>1, <5>2, <5>3, <5>4
      <4> DEFINE H == Holds(b)'
                 D == DOMAIN H
      <4>2. IsFiniteSet(D) /\ H \in [D -> Nat] /\ r \in D
        <5>1. IsFiniteSet(D) /\ r \in D BY <4>1, FS_AddElement
        <5>2. \A q \in D : H[q] \in Nat BY <2>2, <3>1, <4>1
        <5> QED BY <4>1, <5>1, <5>2
      <4> HIDE DEF H, D
      <4>3. Total(H) = Total(Without(H, r)) + H[r] BY <4>2, TotalSplit
      <4> QED BY <3>1, <3>2, <4>3 DEF H
    <3> QED BY <1>1, <1>3, <2>2, <2>3, <2>5, <3>3
  <2>6. CASE b # a
    <3>1. Holds(b)' = Holds(b) BY <2>4, <2>6 DEF Holds
    <3> QED BY <1>1, <1>3, <2>3, <2>6, <3>1
  <2> QED BY <2>5, <2>6
<1>7. CASE Charging
  <2> PICK r \in Requests, u \in Reports \cup {NoUsage} :
             requests[r].state \in Held /\ Billable(r, u) /\ Settled(r, u)
    BY <1>7 DEF Charging
  <2> DEFINE a == requests[r].account
             h == requests[r].hold
  <2>1. a \in Accounts /\ h \in Nat BY <1>1, HeldRow
  <2>2. reserved' = [reserved EXCEPT ![a] = @ - h] BY DEF Settled
  <2>3. /\ requests'[r].state = "settled"
        /\ \A q \in Requests \ {r} : requests'[q] = requests[q]
    BY <1>1, RowType DEF Settled
  <2> HIDE DEF a, h
  <2>4. CASE b = a
    <3>1. r \in DOMAIN Holds(b) /\ Holds(b)[r] = h
      BY <2>4 DEF Holds, a, h
    <3>2. Holds(b)' = Without(Holds(b), r)
      BY <2>3, <2>4 DEF Without, Holds, Held
    <3>3. /\ Total(Holds(b)) = Total(Without(Holds(b), r)) + h
          /\ Total(Without(Holds(b), r)) \in Nat
      <4> DEFINE H == Holds(b)
                 D == DOMAIN H
      <4>1. IsFiniteSet(D) /\ H \in [D -> Nat] /\ r \in D
        BY <1>1, <3>1, HoldsType
      <4> HIDE DEF H, D
      <4>2. Total(H) = Total(Without(H, r)) + H[r] /\ Total(Without(H, r)) \in Nat
        BY <4>1, TotalSplit
      <4> QED BY <3>1, <4>2 DEF H
    <3>4. reserved'[b] = reserved[b] - h BY <1>3, <2>2, <2>4
    <3> QED BY <1>1, <2>1, <3>2, <3>3, <3>4
  <2>5. CASE b # a
    <3>1. Holds(b)' = Holds(b) BY <2>3, <2>5 DEF Holds, Held, a
    <3> QED BY <1>1, <1>3, <2>2, <2>5, <3>1
  <2> QED BY <2>4, <2>5
<1>8. CASE Quarantining
  <2> PICK r \in Requests, k \in {"usage", "stale-usage"} :
             requests[r].state \in Held /\ Quarantine(r, k)
    BY <1>8 DEF Quarantining
  <2>1. /\ requests'[r].state = "unknown"
        /\ requests'[r].account = requests[r].account
        /\ requests'[r].hold = requests[r].hold
        /\ \A q \in Requests \ {r} : requests'[q] = requests[q]
    BY <1>1, RowType DEF Quarantine
  <2>2. DOMAIN Holds(b)' = DOMAIN Holds(b) BY <2>1 DEF Holds, Held
  <2>3. Holds(b)' = Holds(b) BY <2>1, <2>2 DEF Holds
  <2>4. UNCHANGED reserved BY DEF Quarantine, wallet
  <2> QED BY <1>1, <2>3, <2>4
<1> QED BY <1>5, <1>6, <1>7, <1>8, StepKinds

\* The reversal rows follow the cumulative targets.
LEMMA StepReversals ==
  ASSUME Invariants, [Next]_vars
  PROVE  ReversalsMatch'
<1> SUFFICES ASSUME NEW b \in Accounts
             PROVE  reversals'[b] = Total(ReversedOf(b)')
  BY DEF ReversalsMatch, Total, Units, ReversedOf
<1>1. TypeOK /\ reversals[b] = Total(ReversedOf(b))
  BY DEF Invariants, ReversalsMatch
<1>2. CASE Reversing
  <2> PICK o \in Orders, target \in 0 .. TopUp : ReverseCredit(o, target)
    BY <1>2 DEF Reversing
  <2>1. /\ reversed \in [Orders -> 0 .. TopUp] /\ TopUp \in Nat
        /\ reversals \in [Accounts -> Int]
        /\ reversed' = [reversed EXCEPT ![o] = target]
        /\ reversals' = [reversals EXCEPT ![Owner[o]] = @ + (target - reversed[o])]
    BY <1>1, LedgerAssumption DEF TypeOK, ReverseCredit
  <2>2. CASE b = Owner[o]
    <3> DEFINE F == ReversedOf(b)
               G == ReversedOf(b)'
               D == DOMAIN F
    <3>1. IsFiniteSet(D) /\ F \in [D -> Nat] BY <1>1, ReversedType
    <3>2. /\ o \in D /\ F[o] = reversed[o] /\ G[o] = target
          /\ \A q \in D \ {o} : G[q] = F[q]
          /\ G = [q \in D |-> G[q]]
      BY <2>1, <2>2 DEF ReversedOf
    <3> HIDE DEF F, G, D
    <3>3. G \in [D -> Nat]
      <4>1. \A q \in D : G[q] \in Nat BY <2>1, <3>1, <3>2
      <4> QED BY <3>2, <4>1
    <3>4. Total(G) = Total(F) - F[o] + G[o] BY <3>1, <3>2, <3>3, TotalChange
    <3>5. reversals'[b] = reversals[b] + (target - reversed[o])
      BY <2>1, <2>2
    <3>6. Total(F) = reversals[b] /\ reversals[b] \in Int BY <1>1, <2>1 DEF F
    <3>7. target \in Int /\ reversed[o] \in Int BY <2>1
    <3>8. reversals'[b] = Total(G) BY <3>2, <3>4, <3>5, <3>6, <3>7
    <3> QED BY <3>8 DEF G
  <2>3. CASE b # Owner[o]
    <3>1. ReversedOf(b)' = ReversedOf(b) BY <2>1, <2>3 DEF ReversedOf
    <3> QED BY <1>1, <2>1, <2>3, <3>1
  <2> QED BY <2>2, <2>3
<1>3. CASE ~Reversing
  <2>1. UNCHANGED <<reversed, reversals>>
    <3>1. CASE Crediting BY <3>1 DEF Crediting, Credit
    <3>2. CASE Reserving BY <3>2 DEF Reserving, Reserve, book
    <3>3. CASE Charging BY <3>3 DEF Charging, Settled
    <3>4. CASE Quarantining BY <3>4 DEF Quarantining, Quarantine, book
    <3>5. CASE Idle BY <3>5 DEF Idle, book
    <3> QED BY <1>3, <3>1, <3>2, <3>3, <3>4, <3>5, StepKinds
  <2>2. ReversedOf(b)' = ReversedOf(b) BY <2>1 DEF ReversedOf
  <2> QED BY <1>1, <2>1, <2>2
<1> QED BY <1>2, <1>3

\* Incidents and sources follow the state of their request.
LEMMA StepVisible ==
  ASSUME Invariants, [Next]_vars
  PROVE  QuarantineVisible' /\ PostedIsSettled' /\ ResolvedIsSettled'
<1>1. TypeOK /\ QuarantineVisible /\ PostedIsSettled /\ ResolvedIsSettled
  BY DEF Invariants
<1>2. incidents \in [Requests -> [{"usage", "stale-usage"}
                                   -> {"none", "open", "resolved"}]]
  BY <1>1 DEF TypeOK
<1>3. CASE Crediting \/ Reversing \/ Idle
  <2>1. UNCHANGED <<requests, incidents>>
    BY <1>3 DEF Crediting, Credit, Reversing, ReverseCredit, Idle
  <2>2. CASE Crediting
    <3> PICK o \in Orders : Credit(o) BY <2>2 DEF Crediting
    <3>1. posted' = posted \cup {<<"checkout", o>>} BY DEF Credit
    <3>2. \A r \in Requests : <<"request", r>> # <<"checkout", o>> OBVIOUS
    <3> QED BY <1>1, <2>1, <3>1, <3>2
            DEF QuarantineVisible, PostedIsSettled, ResolvedIsSettled
  <2>3. CASE Reversing \/ Idle
    <3>1. posted' = posted BY <2>3 DEF Reversing, ReverseCredit, Idle, book
    <3> QED BY <1>1, <2>1, <3>1
            DEF QuarantineVisible, PostedIsSettled, ResolvedIsSettled
  <2> QED BY <1>3, <2>2, <2>3
<1>4. CASE Reserving
  <2> PICK r \in Requests, a \in Accounts, m \in Models :
             \E n \in 1 .. m.maxOutput : Reserve(r, a, m, n)
    BY <1>4 DEF Reserving
  <2>1. /\ requests'[r].state = "reserved" /\ requests[r] = Unused
        /\ \A q \in Requests \ {r} : requests'[q] = requests[q]
        /\ incidents' = incidents /\ posted' = posted
    BY <1>1 DEF Reserve, TypeOK, book
  <2> QED BY <1>1, <2>1
          DEF QuarantineVisible, PostedIsSettled, ResolvedIsSettled, Unused
<1>5. CASE Charging
  <2> PICK r \in Requests, u \in Reports \cup {NoUsage} :
             requests[r].state \in Held /\ Billable(r, u) /\ Settled(r, u)
    BY <1>5 DEF Charging
  <2>1. /\ requests'[r].state = "settled"
        /\ \A q \in Requests \ {r} : requests'[q] = requests[q]
    BY <1>1, RowType DEF Settled
  <2>2. /\ posted' = posted \cup {<<"request", r>>}
        /\ incidents' = [incidents EXCEPT ![r] =
             [k \in DOMAIN @ |-> IF @[k] = "open" THEN "resolved" ELSE @[k]]]
    BY DEF Settled
  <2>3. /\ \A k \in DOMAIN incidents'[r] : incidents'[r][k] # "open"
        /\ \A q \in Requests \ {r} : incidents'[q] = incidents[q]
    BY <1>2, <2>2
  <2>4. QuarantineVisible' BY <1>1, <2>1, <2>3 DEF QuarantineVisible
  <2>5. PostedIsSettled' BY <1>1, <2>1, <2>2 DEF PostedIsSettled
  <2>6. ResolvedIsSettled' BY <1>1, <2>1, <2>3 DEF ResolvedIsSettled
  <2> QED BY <2>4, <2>5, <2>6
<1>6. CASE Quarantining
  <2> PICK r \in Requests, k \in {"usage", "stale-usage"} :
             requests[r].state \in Held /\ Quarantine(r, k)
    BY <1>6 DEF Quarantining
  <2>1. /\ requests'[r].state = "unknown"
        /\ \A q \in Requests \ {r} : requests'[q] = requests[q]
    BY <1>1, RowType DEF Quarantine
  <2>2. posted' = posted BY DEF Quarantine, book
  <2>3. \A q \in Requests \ {r} : incidents'[q] = incidents[q]
    BY <1>2 DEF Quarantine, Raise
  <2>4. \E j \in DOMAIN incidents'[r] : incidents'[r][j] = "open"
    <3>1. incidents[r][k] # "resolved"
      BY <1>1 DEF ResolvedIsSettled, Held
    <3>2. incidents'[r][k] = "open" /\ k \in DOMAIN incidents'[r]
      BY <1>2, <3>1 DEF Quarantine, Raise
    <3> QED BY <3>2
  <2>5. QuarantineVisible' BY <1>1, <2>1, <2>3, <2>4 DEF QuarantineVisible
  <2>6. PostedIsSettled' BY <1>1, <2>1, <2>2 DEF PostedIsSettled, Held
  <2>7. \A j \in {"usage", "stale-usage"} :
          incidents'[r][j] = "resolved" => incidents[r][j] = "resolved"
    BY <1>2 DEF Quarantine, Raise
  <2>8. ResolvedIsSettled' BY <1>1, <2>1, <2>3, <2>7 DEF ResolvedIsSettled, Held
  <2> QED BY <2>5, <2>6, <2>8
<1> QED BY <1>3, <1>4, <1>5, <1>6, StepKinds

\* Only reserve() writes a hold, a model or a limit.
LEMMA StepPriced ==
  ASSUME Invariants, [Next]_vars
  PROVE  HoldsPriced'
<1>1. TypeOK /\ HoldsPriced BY DEF Invariants
<1>2. CASE Crediting \/ Reversing \/ Idle
  <2>1. requests' = requests
    BY <1>2 DEF Crediting, Credit, Reversing, ReverseCredit, Idle
  <2> QED BY <1>1, <2>1 DEF HoldsPriced
<1>3. CASE Reserving
  <2> PICK r \in Requests, a \in Accounts, m \in Models :
             \E n \in 1 .. m.maxOutput : Reserve(r, a, m, n)
    BY <1>3 DEF Reserving
  <2> PICK n \in 1 .. m.maxOutput : Reserve(r, a, m, n) OBVIOUS
  <2> DEFINE amount == MaximumPrice(m, n)
  <2>1. requests' = [requests EXCEPT ![r] =
          [state |-> "reserved", account |-> a, model |-> m,
           maxOutput |-> n, hold |-> amount]]
    BY DEF Reserve
  <2> HIDE DEF amount
  <2>2. /\ requests'[r].hold = amount /\ requests'[r].model = m
        /\ requests'[r].maxOutput = n
        /\ \A q \in Requests \ {r} : requests'[q] = requests[q]
    BY <1>1, <2>1 DEF TypeOK
  <2>3. amount = MaximumPrice(m, n) BY DEF amount
  <2> QED BY <1>1, <2>2, <2>3 DEF HoldsPriced
<1>4. ASSUME NEW r \in Requests, requests[r].state \in Held,
             NEW s \in {"unknown", "settled"},
             requests' = [requests EXCEPT ![r].state = s]
      PROVE  HoldsPriced'
  <2>1. /\ requests'[r].hold = requests[r].hold
        /\ requests'[r].model = requests[r].model
        /\ requests'[r].maxOutput = requests[r].maxOutput
        /\ \A q \in Requests \ {r} : requests'[q] = requests[q]
    BY <1>1, <1>4, RowType
  <2> QED BY <1>1, <1>4, <2>1 DEF HoldsPriced
<1>5. CASE Charging \/ Quarantining
  BY <1>4, <1>5 DEF Charging, Settled, Quarantining, Quarantine
<1> QED BY <1>2, <1>3, <1>5, StepKinds

\* Together they are inductive.
LEMMA StepInvariants ==
  ASSUME Invariants, [Next]_vars
  PROVE  Invariants'
<1>1. TypeOK' BY StepType DEF Invariants
<1> QED BY <1>1, StepMoney, StepReserved, StepReversals, StepVisible, StepPriced
        DEF Invariants

-----------------------------------------------------------------------------
\* Every invariant of the ledger holds in every reachable state.
THEOREM LedgerInvariants == Spec => []Invariants
<1>1. Init => Invariants BY InitInvariants
<1>2. Invariants /\ [Next]_vars => Invariants' BY StepInvariants
<1> QED BY <1>1, <1>2, PTL DEF Spec

\* The wallets, requests and incidents keep their types (the CHECKs of the tables).
THEOREM LedgerTypeOK == Spec => []TypeOK
<1>1. Invariants => TypeOK BY DEF Invariants
<1> QED BY <1>1, LedgerInvariants, PTL

\* Credit and restored reversals repay a debt before they can be spent.
THEOREM LedgerBalanceOrDebt == Spec => []BalanceOrDebt
<1>1. Invariants => BalanceOrDebt BY DEF Invariants
<1> QED BY <1>1, LedgerInvariants, PTL

\* The wallets agree with the ledger's rows (credit, reverseCredit, settle).
THEOREM LedgerConservation == Spec => []Conservation
<1>1. Invariants => Conservation BY DEF Invariants
<1> QED BY <1>1, LedgerInvariants, PTL

\* A wallet reserves exactly what its unsettled requests hold: no crash, late
\* answer, quarantine or reconciliation leaks or doubles a hold.
THEOREM LedgerReservedIsHeld == Spec => []ReservedIsHeld
<1>1. Invariants => ReservedIsHeld BY DEF Invariants
<1> QED BY <1>1, LedgerInvariants, PTL

\* A customer's debt never exceeds what the bank took back: metered usage is
\* prepaid in every interleaving of requests and reversals.
THEOREM LedgerReserveBacked == Spec => []ReserveBacked
<1>1. Invariants => ReserveBacked BY DEF Invariants
<1> QED BY <1>1, LedgerInvariants, PTL

\* The reversal rows sum up to the cumulative targets of the orders.
THEOREM LedgerReversalsMatch == Spec => []ReversalsMatch
<1>1. Invariants => ReversalsMatch BY DEF Invariants
<1> QED BY <1>1, LedgerInvariants, PTL

\* Every quarantined request has an open incident for the operator.
THEOREM LedgerQuarantineVisible == Spec => []QuarantineVisible
<1>1. Invariants => QuarantineVisible BY DEF Invariants
<1> QED BY <1>1, LedgerInvariants, PTL

\* A report within the limits of its request is billed.
LEMMA InvariantsCoverUsage ==
  ASSUME Invariants
  PROVE  HoldCoversUsage
<1> SUFFICES ASSUME NEW r \in Requests, NEW u \in Reports,
                    requests[r].state \in Held, ValidUsage(u),
                    u.reasoning \in 0 .. u.completion,
                    u.prompt <= requests[r].model.maxContext,
                    u.completion <= requests[r].maxOutput
             PROVE  Billable(r, u)
  BY DEF HoldCoversUsage
<1>1. TypeOK /\ HoldsPriced BY DEF Invariants
<1>2. /\ requests[r].model \in ModelType /\ requests[r].maxOutput \in Nat
  BY <1>1, HeldRow DEF ReservedRequest
<1>3. u \in UsageType /\ u # NoUsage BY LedgerAssumption
<1>4. UsagePrice(requests[r].model, u)
        <= MaximumPrice(requests[r].model, requests[r].maxOutput)
  BY <1>2, <1>3, HoldCovers
<1>5. u.reasoning \in Nat /\ u.reasoning <= u.completion
  BY DEF ValidUsage
<1> QED BY <1>1, <1>3, <1>4, <1>5 DEF Billable, HoldsPriced

\* No well-behaved upstream makes settle() quarantine a request, for any
\* catalog: the hold and the charge are rounded apart, and still fit.
THEOREM LedgerHoldCoversUsage == Spec => []HoldCoversUsage
<1>1. Invariants => HoldCoversUsage BY InvariantsCoverUsage
<1> QED BY <1>1, LedgerInvariants, PTL

-----------------------------------------------------------------------------
\* Only the account a's totals move.
OnlyMoves(a) ==
  \A b \in Accounts \ {a} :
    /\ balance'[b] = balance[b] /\ debt'[b] = debt[b]
    /\ reserved'[b] = reserved[b] /\ reversals'[b] = reversals[b]

\* Such a step moves the promise's totals by their differences.
LEMMA MovesOne ==
  ASSUME Invariants, Invariants', NEW a \in Accounts, OnlyMoves(a)
  PROVE  /\ Promise!Moves(a, Net'[a] - Net[a], reserved'[a] - reserved[a],
                          reversals'[a] - reversals[a])
         /\ Net[a] = balance[a] - debt[a] /\ Net'[a] = balance'[a] - debt'[a]
<1>1. /\ reserved \in [Accounts -> Nat] /\ reversals \in [Accounts -> Int]
      /\ reserved' \in [Accounts -> Nat] /\ reversals' \in [Accounts -> Int]
      /\ balance \in [Accounts -> Nat] /\ debt \in [Accounts -> Nat]
      /\ balance' \in [Accounts -> Nat] /\ debt' \in [Accounts -> Nat]
  BY DEF Invariants, TypeOK
<1>2. Net[a] = balance[a] - debt[a] /\ Net'[a] = balance'[a] - debt'[a]
  BY DEF Net
<1>3. Net \in [Accounts -> Int] /\ Net' \in [Accounts -> Int]
  BY <1>1 DEF Net
<1>4. Net' = [Net EXCEPT ![a] = Net[a] + (Net'[a] - Net[a])]
  <2>1. Net'[a] = Net[a] + (Net'[a] - Net[a]) BY <1>3
  <2>2. \A b \in Accounts \ {a} : Net'[b] = Net[b] BY DEF Net, OnlyMoves
  <2> QED BY <1>3, <2>1, <2>2
<1>5. reserved' = [reserved EXCEPT ![a] = reserved[a] + (reserved'[a] - reserved[a])]
  <2>1. reserved'[a] = reserved[a] + (reserved'[a] - reserved[a]) BY <1>1
  <2> QED BY <1>1, <2>1 DEF OnlyMoves
<1>6. reversals' = [reversals EXCEPT ![a] = reversals[a] + (reversals'[a] - reversals[a])]
  <2>1. reversals'[a] = reversals[a] + (reversals'[a] - reversals[a]) BY <1>1
  <2> QED BY <1>1, <2>1 DEF OnlyMoves
<1> QED BY <1>2, <1>4, <1>5, <1>6 DEF Promise!Moves

\* Each kind of step is a step the promise allows, or none.
LEMMA StepPromise ==
  ASSUME Invariants, Invariants', [Next]_vars
  PROVE  Promise!Next \/ UNCHANGED <<Net, reserved, reversals>>
<1>1. /\ balance \in [Accounts -> Nat] /\ debt \in [Accounts -> Nat]
      /\ reserved \in [Accounts -> Nat]
      /\ reversals \in [Accounts -> Int] /\ TypeOK
  BY DEF Invariants, TypeOK
<1>2. \A a \in Accounts :
        /\ balance'[a] \in Nat /\ debt'[a] \in Nat /\ reserved'[a] \in Nat
  BY DEF Invariants, TypeOK
<1>3. CASE Crediting
  <2> PICK o \in Orders : Credit(o) BY <1>3 DEF Crediting
  <2> DEFINE a == Owner[o]
  <2>1. a \in Accounts /\ TopUp \in Nat /\ TopUp > 0 BY LedgerAssumption
  <2>2. /\ balance'[a] - debt'[a] = balance[a] - debt[a] + TopUp
        /\ \A b \in Accounts \ {a} : balance'[b] = balance[b] /\ debt'[b] = debt[b]
    BY <1>1, <2>1, AddMoves DEF Credit
  <2>3. reserved' = reserved /\ reversals' = reversals BY DEF Credit
  <2> HIDE DEF a
  <2>4. OnlyMoves(a) BY <2>2, <2>3 DEF OnlyMoves
  <2>5. /\ Promise!Moves(a, Net'[a] - Net[a], reserved'[a] - reserved[a],
                         reversals'[a] - reversals[a])
        /\ Net[a] = balance[a] - debt[a] /\ Net'[a] = balance'[a] - debt'[a]
    BY <2>1, <2>4, MovesOne
  <2>6. Net'[a] - Net[a] > 0 /\ reserved'[a] - reserved[a] = 0
        /\ reversals'[a] - reversals[a] = 0
    BY <1>1, <1>2, <2>1, <2>2, <2>3, <2>5
  <2>7. Promise!Deposit(a) BY <2>5, <2>6 DEF Promise!Deposit
  <2> QED BY <2>1, <2>7 DEF Promise!Next
<1>4. CASE Reversing
  <2> PICK o \in Orders, target \in 0 .. TopUp : ReverseCredit(o, target)
    BY <1>4 DEF Reversing
  <2> DEFINE a == Owner[o]
             delta == target - reversed[o]
  <2>1. a \in Accounts /\ TopUp \in Nat /\ delta \in Int
    BY <1>1, LedgerAssumption DEF TypeOK
  <2>2. /\ IF delta > 0 THEN Take(a, delta) ELSE Add(a, -delta)
        /\ reversals' = [reversals EXCEPT ![a] = @ + delta]
        /\ reserved' = reserved
    BY DEF ReverseCredit
  <2> HIDE DEF a, delta
  <2>3. /\ balance'[a] - debt'[a] = balance[a] - debt[a] - delta
        /\ \A b \in Accounts \ {a} : balance'[b] = balance[b] /\ debt'[b] = debt[b]
    <3>1. CASE delta > 0
      <4>1. delta \in Nat /\ Take(a, delta) BY <2>1, <2>2, <3>1
      <4> QED BY <1>1, <2>1, <4>1, TakeMoves
    <3>2. CASE ~(delta > 0)
      <4>1. -delta \in Nat /\ Add(a, -delta) BY <2>1, <2>2, <3>2
      <4>2. /\ balance'[a] - debt'[a] = balance[a] - debt[a] + (-delta)
            /\ \A b \in Accounts \ {a} :
                  balance'[b] = balance[b] /\ debt'[b] = debt[b]
        BY <1>1, <2>1, <4>1, AddMoves
      <4>3. balance[a] - debt[a] + (-delta) = balance[a] - debt[a] - delta
        BY <1>1, <2>1
      <4> QED BY <4>2, <4>3
    <3> QED BY <3>1, <3>2
  <2>4. OnlyMoves(a) BY <1>1, <2>1, <2>2, <2>3 DEF OnlyMoves
  <2>5. /\ Promise!Moves(a, Net'[a] - Net[a], reserved'[a] - reserved[a],
                         reversals'[a] - reversals[a])
        /\ Net[a] = balance[a] - debt[a] /\ Net'[a] = balance'[a] - debt'[a]
    BY <2>1, <2>4, MovesOne
  <2>6. reversals'[a] = reversals[a] + delta BY <1>1, <2>1, <2>2
  <2>7. /\ reversals'[a] - reversals[a] = delta
        /\ Net'[a] - Net[a] = -delta /\ reserved'[a] - reserved[a] = 0
    BY <1>1, <1>2, <2>1, <2>2, <2>3, <2>5, <2>6
  <2>8. reversals'[a] \in Nat
    <3>1. reversals'[a] = Total(ReversedOf(a)')
      BY <2>1 DEF Invariants, ReversalsMatch, Total, Units, ReversedOf
    <3>2. DOMAIN ReversedOf(a)' = DOMAIN ReversedOf(a) BY DEF ReversedOf
    <3>3. IsFiniteSet(DOMAIN ReversedOf(a)) BY <1>1, <2>1, ReversedType
    <3>4. ReversedOf(a)' \in [DOMAIN ReversedOf(a) -> Nat]
      <4>1. reversed' \in [Orders -> 0 .. TopUp] BY DEF Invariants, TypeOK
      <4> QED BY <2>1, <4>1 DEF ReversedOf
    <3> DEFINE D == DOMAIN ReversedOf(a)
               G == ReversedOf(a)'
    <3>5. IsFiniteSet(D) /\ G \in [D -> Nat] BY <3>3, <3>4
    <3> HIDE DEF D, G
    <3>6. Total(G) \in Nat BY <3>5, UnitsFinite
    <3> QED BY <3>1, <3>6 DEF G
  <2>9. reversals[a] + delta >= 0 BY <2>6, <2>8
  <2>10. Promise!Withdraw(a) BY <2>5, <2>7, <2>9 DEF Promise!Withdraw
  <2> QED BY <2>1, <2>10 DEF Promise!Next
<1>5. CASE Reserving
  <2> PICK r \in Requests, a \in Accounts, m \in Models :
             \E n \in 1 .. m.maxOutput : Reserve(r, a, m, n)
    BY <1>5 DEF Reserving
  <2>1. m \in ModelType /\ m.maxOutput \in Nat
    BY LedgerAssumption DEF ModelType
  <2> PICK n \in 1 .. m.maxOutput : Reserve(r, a, m, n) OBVIOUS
  <2> DEFINE amount == MaximumPrice(m, n)
  <2>2. amount \in Nat BY <2>1, MaximumPriceNat
  <2>3. /\ debt[a] = 0 /\ balance[a] - reserved[a] >= amount
        /\ reserved' = [reserved EXCEPT ![a] = @ + amount]
        /\ balance' = balance /\ debt' = debt /\ reversals' = reversals
    BY DEF Reserve, book
  <2> HIDE DEF amount
  <2>4. OnlyMoves(a) BY <1>1, <2>3 DEF OnlyMoves
  <2>5. /\ Promise!Moves(a, Net'[a] - Net[a], reserved'[a] - reserved[a],
                         reversals'[a] - reversals[a])
        /\ Net[a] = balance[a] - debt[a] /\ Net'[a] = balance'[a] - debt'[a]
    BY <2>4, MovesOne
  <2>6. reserved'[a] = reserved[a] + amount BY <1>1, <2>2, <2>3
  <2>7. /\ Net'[a] - Net[a] = 0 /\ reserved'[a] - reserved[a] = amount
        /\ reversals'[a] - reversals[a] = 0
    BY <1>1, <1>2, <2>2, <2>3, <2>5, <2>6
  <2>8. Net[a] >= reserved[a] + amount BY <1>1, <2>2, <2>3, <2>5
  <2>9. Promise!Hold(a) BY <2>2, <2>5, <2>7, <2>8 DEF Promise!Hold
  <2> QED BY <2>9 DEF Promise!Next
<1>6. CASE Charging
  <2> PICK r \in Requests, u \in Reports \cup {NoUsage} :
             requests[r].state \in Held /\ Billable(r, u) /\ Settled(r, u)
    BY <1>6 DEF Charging
  <2> DEFINE a == requests[r].account
             h == requests[r].hold
             charged == UsagePrice(requests[r].model, u)
  <2>1. a \in Accounts /\ h \in Nat BY <1>1, HeldRow
  <2>2. charged \in Nat /\ charged <= h BY <1>1, ChargeWithinHold
  <2>3. /\ Take(a, charged) /\ h <= reserved[a]
        /\ reserved' = [reserved EXCEPT ![a] = @ - h]
        /\ reversals' = reversals
    BY DEF Settled
  <2> HIDE DEF a, h, charged
  <2>4. /\ balance'[a] - debt'[a] = balance[a] - debt[a] - charged
        /\ \A b \in Accounts \ {a} : balance'[b] = balance[b] /\ debt'[b] = debt[b]
    BY <1>1, <2>1, <2>2, <2>3, TakeMoves
  <2>5. OnlyMoves(a) BY <1>1, <2>3, <2>4 DEF OnlyMoves
  <2>6. /\ Promise!Moves(a, Net'[a] - Net[a], reserved'[a] - reserved[a],
                         reversals'[a] - reversals[a])
        /\ Net[a] = balance[a] - debt[a] /\ Net'[a] = balance'[a] - debt'[a]
    BY <2>1, <2>5, MovesOne
  <2>7. reserved'[a] = reserved[a] - h BY <1>1, <2>1, <2>3
  <2>8. /\ Net[a] - Net'[a] = charged /\ reserved[a] - reserved'[a] = h
        /\ Net'[a] - Net[a] = -charged /\ reserved'[a] - reserved[a] = -h
        /\ reversals'[a] - reversals[a] = 0
    BY <1>1, <1>2, <2>1, <2>2, <2>3, <2>4, <2>6, <2>7
  <2>9. Promise!Charge(a)
    BY <2>2, <2>3, <2>6, <2>8 DEF Promise!Charge
  <2> QED BY <2>1, <2>9 DEF Promise!Next
<1>7. CASE Quarantining \/ Idle
  <2>1. UNCHANGED <<wallet, book>> BY <1>7 DEF Quarantining, Quarantine, Idle
  <2>2. UNCHANGED <<balance, debt, reserved, reversals>> BY <2>1 DEF wallet, book
  <2> QED BY <2>2 DEF Net
<1> QED BY <1>3, <1>4, <1>5, <1>6, <1>7, StepKinds

\* The ledger implements PrepaidAccount: requests are charged against money
\* held beforehand, whatever the order of credits, reversals, reservations,
\* settlements, reconciliations, crashes and quarantines.
THEOREM LedgerKeepsPromise == Spec => KeepsPromise
<1>1. Init => Promise!Init BY DEF Init, Promise!Init, Net
<1>2. Invariants /\ Invariants' /\ [Next]_vars => [Promise!Next]_(Promise!vars)
  BY StepPromise DEF Promise!vars
<1> QED BY <1>1, <1>2, LedgerInvariants, PTL DEF Spec, KeepsPromise, Promise!Spec

-----------------------------------------------------------------------------
\* The body of ChargedOnce.
FinalAndCharged ==
  /\ \A r \in Requests : requests[r].state = "settled" =>
        requests'[r] = requests[r]
  /\ \A a \in Accounts : usage'[a] # usage[a] =>
       \E r \in Requests :
         /\ requests[r].state \in Held /\ requests[r].account = a
         /\ requests'[r].state = "settled"
         /\ usage'[a] - usage[a] <= requests[r].hold
         /\ reserved'[a] = reserved[a] - requests[r].hold

\* Only a settlement charges, and only requests that are not final change.
LEMMA StepCharged ==
  ASSUME Invariants, [Next]_vars
  PROVE  FinalAndCharged
<1>1. /\ TypeOK /\ PostedIsSettled
      /\ usage \in [Accounts -> Nat] /\ reserved \in [Accounts -> Nat]
  BY DEF Invariants, TypeOK
<1>2. CASE Crediting \/ Reversing \/ Idle
  <2>1. UNCHANGED <<requests, usage>>
    BY <1>2 DEF Crediting, Credit, Reversing, ReverseCredit, Idle, book
  <2> QED BY <2>1 DEF FinalAndCharged
<1>3. CASE Reserving
  <2> PICK r \in Requests, a \in Accounts, m \in Models :
             \E n \in 1 .. m.maxOutput : Reserve(r, a, m, n)
    BY <1>3 DEF Reserving
  <2>1. /\ requests[r].state # "settled" /\ usage' = usage
        /\ \A q \in Requests \ {r} : requests'[q] = requests[q]
    BY <1>1 DEF Reserve, TypeOK, book, Unused
  <2> QED BY <2>1 DEF FinalAndCharged
<1>4. CASE Charging
  <2> PICK r \in Requests, u \in Reports \cup {NoUsage} :
             requests[r].state \in Held /\ Billable(r, u) /\ Settled(r, u)
    BY <1>4 DEF Charging
  <2> DEFINE b == requests[r].account
             h == requests[r].hold
             charged == UsagePrice(requests[r].model, u)
  <2>1. b \in Accounts /\ h \in Nat BY <1>1, HeldRow
  <2>2. charged \in Nat /\ charged <= h BY <1>1, ChargeWithinHold
  <2>3. /\ requests'[r].state = "settled"
        /\ \A q \in Requests \ {r} : requests'[q] = requests[q]
    BY <1>1, RowType DEF Settled
  <2>4. /\ reserved' = [reserved EXCEPT ![b] = @ - h]
        /\ usage' = [usage EXCEPT ![b] = @ + charged]
    BY <1>1 DEF Settled, PostedIsSettled, Held
  <2>5. \A q \in Requests : requests[q].state = "settled" => requests'[q] = requests[q]
    BY <2>3 DEF Held
  <2>6. \A a \in Accounts \ {b} : usage'[a] = usage[a] BY <1>1, <2>4 DEF b
  <2> HIDE DEF b, h, charged
  <2>7. reserved'[b] = reserved[b] - h /\ usage'[b] - usage[b] <= h
    BY <1>1, <2>1, <2>2, <2>4
  <2>8. \A a \in Accounts : usage'[a] # usage[a] => a = b BY <2>6
  <2> QED BY <2>3, <2>5, <2>7, <2>8 DEF FinalAndCharged, b, h
<1>5. CASE Quarantining
  <2> PICK r \in Requests, k \in {"usage", "stale-usage"} :
             requests[r].state \in Held /\ Quarantine(r, k)
    BY <1>5 DEF Quarantining
  <2>1. \A q \in Requests \ {r} : requests'[q] = requests[q]
    BY <1>1, RowType DEF Quarantine
  <2>2. usage' = usage /\ requests[r].state # "settled"
    BY DEF Quarantine, book, Held
  <2> QED BY <2>1, <2>2 DEF FinalAndCharged
<1> QED BY <1>2, <1>3, <1>4, <1>5, StepKinds

\* A request is charged by one settlement, at most what was held for it, and
\* is final from then on: the gateway, the operator and the maintenance pass
\* may answer for it in any order.
THEOREM LedgerChargedOnce == Spec => ChargedOnce
<1>1. Invariants /\ [Next]_vars => [FinalAndCharged]_vars BY StepCharged
<1> QED BY <1>1, LedgerInvariants, PTL DEF Spec, ChargedOnce, FinalAndCharged
=============================================================================
