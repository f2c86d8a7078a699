---------------------------- MODULE PricingProofs ----------------------------
(* The tariff's guarantees for every rate, limit and report. The code's        *)
(* integers are unbounded, so the proofs are over Nat.                         *)
EXTENDS Pricing, TLAPS

\* A product of naturals is a natural.
LEMMA ProductNat == \A x, y \in Nat : x * y \in Nat
  BY SMT

\* A product grows with either factor.
LEMMA ProductMonotone ==
  ASSUME NEW x \in Nat, NEW y \in Nat, NEW z \in Nat, x <= y
  PROVE  x * z <= y * z /\ z * x <= z * y
<1>1. y - x \in Nat OBVIOUS
<1>2. (y - x) * z \in Nat BY <1>1, ProductNat
<1>3. (y - x) * z = y * z - x * z OBVIOUS
<1>4. x * z \in Nat /\ y * z \in Nat BY ProductNat
<1>5. z * x = x * z /\ z * y = y * z OBVIOUS
<1> QED BY <1>2, <1>3, <1>4, <1>5

\* The cost of a valid report is a natural number.
LEMMA CostNat ==
  ASSUME NEW m \in ModelType, NEW p \in Nat, NEW c \in Nat, NEW k \in 0 .. p
  PROVE  Cost(m, p, c, k) \in Nat
<1>1. m.input \in Nat /\ m.cached \in Nat /\ m.output \in Nat
  BY DEF ModelType
<1>2. k \in Nat /\ p - k \in Nat OBVIOUS
<1>3. (p - k) * m.input \in Nat /\ k * m.cached \in Nat /\ c * m.output \in Nat
  BY <1>1, <1>2, ProductNat
<1> QED BY <1>3 DEF Cost

\* price() of a valid report is a natural number of micro-euro.
LEMMA PriceNat ==
  ASSUME NEW m \in ModelType, NEW p \in Nat, NEW c \in Nat, NEW k \in 0 .. p
  PROVE  Price(m, p, c, k) \in Nat
<1> DEFINE due == Cost(m, p, c, k)
<1>1. due \in Nat BY CostNat
<1> HIDE DEF due
<1>2. CeilDiv(due * 125, 100 * 1000000) \in Nat BY <1>1 DEF CeilDiv
<1> QED BY <1>2 DEF Price, due

\* A dearer cost is never priced lower: rounding up is monotone.
LEMMA CeilMonotone ==
  ASSUME NEW x \in Nat, NEW y \in Nat, x <= y
  PROVE  CeilDiv(x * 125, 100 * 1000000) <= CeilDiv(y * 125, 100 * 1000000)
  BY DEF CeilDiv

\* The model maximumPrice() prices with is a model, with the dearer input rate.
LEMMA DearestModel ==
  ASSUME NEW m \in ModelType
  PROVE  LET d == [m EXCEPT !.input = DearestInput(m)]
         IN  /\ d \in ModelType
             /\ d.input \in Nat /\ d.cached = m.cached /\ d.output = m.output
             /\ m.input <= d.input /\ m.cached <= d.input
  BY DEF ModelType, DearestInput

\* maximumPrice() is a natural number of micro-euro.
LEMMA MaximumPriceNat ==
  ASSUME NEW m \in ModelType, NEW n \in Nat
  PROVE  MaximumPrice(m, n) \in Nat
<1>1. m.maxContext \in Nat BY DEF ModelType
<1>2. 0 \in 0 .. m.maxContext BY <1>1
<1> QED BY <1>1, <1>2, DearestModel, PriceNat DEF MaximumPrice

\* The price rounds the cost with its 25% margin up, never down and never by a
\* whole micro-euro: neither the service nor the customer loses a unit
\* (ledger.ts ceil and price).
THEOREM RoundsUpOnce ==
  ASSUME NEW m \in ModelType, NEW u \in UsageType, ValidUsage(u)
  PROVE  LET due  == Cost(m, u.prompt, u.completion, u.cached) * 125
             paid == UsagePrice(m, u) * 100000000
         IN  paid >= due /\ paid - due < 100000000
<1> DEFINE cost == Cost(m, u.prompt, u.completion, u.cached)
<1>1. cost \in Nat BY CostNat DEF ValidUsage
<1>2. UsagePrice(m, u) = CeilDiv(cost * 125, 100 * 1000000)
  BY DEF UsagePrice, Price
<1> HIDE DEF cost
<1>3. LET paid == CeilDiv(cost * 125, 100 * 1000000) * 100000000
      IN  paid >= cost * 125 /\ paid - cost * 125 < 100000000
  BY <1>1 DEF CeilDiv
<1> QED BY <1>2, <1>3 DEF cost

\* Every report a model can send within its context and the output limit of
\* the request costs at most the hold reserve() took, however its input
\* splits into fresh and cached tokens: settle() never has to refuse a report
\* of a well-behaved upstream (ledger.ts maximumPrice).
THEOREM HoldCovers ==
  ASSUME NEW m \in ModelType, NEW limit \in Nat, NEW u \in UsageType,
         ValidUsage(u), u.prompt <= m.maxContext, u.completion <= limit
  PROVE  UsagePrice(m, u) <= MaximumPrice(m, limit)
<1> DEFINE d == [m EXCEPT !.input = DearestInput(m)]
           p == u.prompt
           c == u.completion
           k == u.cached
           n == m.maxContext
<1>1. /\ m.input \in Nat /\ m.cached \in Nat /\ m.output \in Nat /\ n \in Nat
  BY DEF ModelType
<1>2. /\ d \in ModelType /\ d.input \in Nat /\ d.cached = m.cached
      /\ d.output = m.output /\ m.input <= d.input /\ m.cached <= d.input
  BY DearestModel
<1>3. p \in Nat /\ c \in Nat /\ k \in 0 .. p /\ k \in Nat /\ p - k \in Nat
  BY DEF ValidUsage
<1> HIDE DEF d
<1>4. (p - k) * m.input <= (p - k) * d.input
  BY <1>1, <1>2, <1>3, ProductMonotone
<1>5. k * m.cached <= k * d.input
  BY <1>1, <1>2, <1>3, ProductMonotone
<1>6. (p - k) * d.input + k * d.input = p * d.input
  BY <1>2, <1>3
<1>7. p * d.input <= n * d.input
  BY <1>1, <1>2, <1>3, ProductMonotone
<1>8. c * m.output <= limit * m.output
  BY <1>1, <1>3, ProductMonotone
<1>9. Cost(m, p, c, k) <= n * d.input + limit * m.output
  <2>1. /\ (p - k) * m.input \in Nat /\ (p - k) * d.input \in Nat
        /\ k * m.cached \in Nat /\ k * d.input \in Nat /\ p * d.input \in Nat
        /\ n * d.input \in Nat /\ c * m.output \in Nat
        /\ limit * m.output \in Nat
    BY <1>1, <1>2, <1>3, ProductNat
  <2> QED BY <1>4, <1>5, <1>6, <1>7, <1>8, <2>1 DEF Cost
<1>10. Cost(d, n, limit, 0) = n * d.input + limit * m.output
  <2>1. n - 0 = n /\ 0 * d.cached = 0
    BY <1>1, <1>2
  <2>2. n * d.input \in Nat /\ limit * m.output \in Nat
    BY <1>1, <1>2, ProductNat
  <2> QED BY <1>2, <2>1, <2>2 DEF Cost
<1>11. Cost(m, p, c, k) \in Nat /\ Cost(d, n, limit, 0) \in Nat
  <2>1. Cost(m, p, c, k) \in Nat BY <1>3, CostNat
  <2>2. 0 \in 0 .. n BY <1>1
  <2>3. Cost(d, n, limit, 0) \in Nat BY <1>1, <1>2, <2>2, CostNat
  <2> QED BY <2>1, <2>3
<1>12. Cost(m, p, c, k) <= Cost(d, n, limit, 0)
  BY <1>9, <1>10
<1> QED BY <1>11, <1>12, CeilMonotone DEF UsagePrice, MaximumPrice, Price, d
=============================================================================
