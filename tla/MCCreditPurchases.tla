--------------------------- MODULE MCCreditPurchases ---------------------------
(* Two workers, one of which may lose its lease to the other. Two handlers that *)
(* read the charge, and only then write, are left out: with the one process of  *)
(* compose.yml there are none.                                                  *)
EXTENDS CreditPurchases

CONSTANTS w1, w2

OneDecidesSpec == Init /\ [][Next /\ OneDecides']_vars /\ Fairness
================================================================================
