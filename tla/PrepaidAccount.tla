---------------------------- MODULE PrepaidAccount ----------------------------
(***************************************************************************)
(* What the credit ledger promises of an account, whatever its tables:     *)
(* money comes in and can be taken back by the bank, and the service may   *)
(* only charge a request against an amount it set aside beforehand out of  *)
(* money that was there.                                                   *)
(***************************************************************************)
EXTENDS Integers

CONSTANT Accounts

VARIABLES net,        \* what the customer has, negative when in debt
          held,       \* what is set aside for requests under way
          withdrawn   \* what the bank has taken back so far

vars == <<net, held, withdrawn>>

Init ==
  /\ net = [a \in Accounts |-> 0]
  /\ held = [a \in Accounts |-> 0]
  /\ withdrawn = [a \in Accounts |-> 0]

\* The steps are relations between the totals before and after, so that an
\* implementation supplies the amounts.
Moves(a, dNet, dHeld, dWithdrawn) ==
  /\ net' = [net EXCEPT ![a] = @ + dNet]
  /\ held' = [held EXCEPT ![a] = @ + dHeld]
  /\ withdrawn' = [withdrawn EXCEPT ![a] = @ + dWithdrawn]

Deposit(a) == LET n == net'[a] - net[a]
              IN  n > 0 /\ Moves(a, n, 0, 0)

\* A refund or dispute, or a dispute won back.
Withdraw(a) == LET n == withdrawn'[a] - withdrawn[a]
               IN  withdrawn[a] + n >= 0 /\ Moves(a, -n, 0, n)

Hold(a) == LET n == held'[a] - held[a]
           IN  n >= 0 /\ net[a] >= held[a] + n /\ Moves(a, 0, n, 0)

\* A charge releases a hold at least as large.
Charge(a) == LET n == net[a] - net'[a]
                 h == held[a] - held'[a]
             IN  n >= 0 /\ h >= n /\ held[a] >= h /\ Moves(a, -n, -h, 0)

Next == \E a \in Accounts : Deposit(a) \/ Withdraw(a) \/ Hold(a) \/ Charge(a)

Spec == Init /\ [][Next]_vars
===============================================================================
