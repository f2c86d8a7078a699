------------------------------- MODULE MCLedger -------------------------------
(* One account with two credit purchases, and a catalog of two models: one   *)
(* charges more for fresh input, the other for cached input.                 *)
EXTENDS Ledger, TLC

CONSTANTS a1, o1, o2, r1, r2

SingleOwner == (o1 :> a1) @@ (o2 :> a1)

\* 1.25 times 800000 micro-euro per million is one micro-euro a token.
Fresh == [input |-> 800000, cached |-> 400000, output |-> 1600000,
          maxContext |-> 1, maxOutput |-> 2]
Replay == [input |-> 400000, cached |-> 1600000, output |-> 800000,
           maxContext |-> 1, maxOutput |-> 1]

MCModels == {Fresh, Replay}

Report(p, c, k, t) ==
  [prompt |-> p, completion |-> c, cached |-> k, reasoning |-> t]

\* Free, ordinary, entirely cached, above the output limit, inconsistent.
MCReports == {Report(0, 0, 0, 0), Report(1, 1, 0, 1), Report(1, 1, 1, 0),
              Report(1, 2, 0, 0), Report(1, 1, 0, 2), Report(0, 1, 1, 0)}
==============================================================================
