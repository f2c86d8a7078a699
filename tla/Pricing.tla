------------------------------- MODULE Pricing -------------------------------
(***************************************************************************)
(* The prepaid inference tariff of src/src/ledger.ts: the price of a       *)
(* completed request from its token counters, and the largest price a      *)
(* request may still reach when it is dispatched, which the ledger holds.  *)
(* Amounts are micro-euro; rates are micro-euro per million tokens.        *)
(***************************************************************************)
EXTENDS Integers

\* The catalog entry's fields that the tariff reads (config.ts modelSchema:
\* rates are non-negative, token limits positive).
ModelType == [input : Nat, cached : Nat, output : Nat,
              maxContext : Nat \ {0}, maxOutput : Nat \ {0}]

\* The counters of a usage report. They come from an upstream: any integers.
UsageType == [prompt : Int, completion : Int, cached : Int, reasoning : Int]

\* price() throws INVALID_USAGE on every other report.
ValidUsage(u) ==
  /\ u.prompt \in Nat /\ u.completion \in Nat
  /\ u.cached \in 0 .. u.prompt

CeilDiv(n, d) == (n + d - 1) \div d

\* Rates times tokens, before the 25% margin and the two scale factors.
Cost(m, prompt, completion, cached) ==
  (prompt - cached) * m.input + cached * m.cached + completion * m.output

\* BigInt arithmetic in the code, so no overflow.
Price(m, prompt, completion, cached) ==
  CeilDiv(Cost(m, prompt, completion, cached) * 125, 100 * 1000000)

DearestInput(m) == IF m.input > m.cached THEN m.input ELSE m.cached

\* Mutant: fresh input is taken for the dearer one.
FreshMaximumPrice(m, output) == Price(m, m.maxContext, output, 0)

\* The whole context at the dearer of the two input rates, none of it cached.
MaximumPrice(m, output) ==
  Price([m EXCEPT !.input = DearestInput(m)], m.maxContext, output, 0)

UsagePrice(m, u) == Price(m, u.prompt, u.completion, u.cached)
=============================================================================
