---------------------------- MODULE CreditPurchases ----------------------------
(***************************************************************************)
(* One purchase of credit as Stripe's notifications bring it to the ledger *)
(* (src/src/billing.ts): the webhook that turns each one into a job, the   *)
(* jobs' handlers, which ask Stripe again for everything they need, and    *)
(* the two transactions that credit the wallet and take credit back. They  *)
(* may be delivered in any order, and a job's handler may run twice when   *)
(* the first process has lost its lease (JobQueue). The transactions are   *)
(* those of Ledger: here an order is credited or not, and has so much of   *)
(* it reversed.                                                            *)
(***************************************************************************)
EXTENDS Integers

CONSTANTS
  Workers,
  Full,        \* the whole purchase, in as many parts as can be refunded
  MaxFaults    \* bound: calls that fail, processes that die, leases that are lost

ASSUME CreditPurchasesAssumption == Full \in Nat \ {0} /\ MaxFaults \in Nat

VARIABLES
  stripe,     \* the checkout, its charge and its dispute at Stripe
  sent,       \* the notifications Stripe has to deliver
  jobs,       \* the jobs they became (tables stripe_events and jobs)
  done,       \* those with done_at
  worker,     \* what each process does, with what it has read
  order,      \* the row in table orders
  credited,   \* the ledger has the purchase's row
  reversed,   \* its row in table credit_reversals
  faults

ledger == <<order, credited, reversed>>
vars == <<stripe, sent, jobs, done, worker, ledger, faults>>

Completed == <<"checkout", 0>>    \* checkout.session.completed
Succeeded == <<"checkout", 1>>    \* checkout.session.async_payment_succeeded
Refunded(n) == <<"refund", n>>    \* charge.refunded
Opened == <<"dispute", 0>>        \* charge.dispute.created
Closed == <<"dispute", 1>>        \* charge.dispute.closed

Events == {Completed, Succeeded, Opened, Closed}
            \cup {Refunded(n) : n \in 1 .. Full}

Idle == [pc |-> "idle", job |-> Completed, holds |-> FALSE, refunded |-> 0,
         target |-> 0]

\* The checkout, its charge and its dispute as Stripe keeps them.
Payment == [paid : BOOLEAN, refunded : 0 .. Full,
            dispute : {"none", "open", "won", "lost"}]

\* Where a handler is, with its job, whether the job's row still has its token, and
\* what it has read and decided.
Task == [pc : {"idle", "session", "crediting", "charge", "order", "disputes",
               "reversing", "finished"},
         job : Events, holds : BOOLEAN, refunded : 0 .. Full, target : 0 .. Full]

\* Orders, jobs and what the handlers hold keep their types, and no job is
\* done that no notification asked for.
TypeOK ==
  /\ stripe \in Payment
  /\ sent \subseteq Events
  /\ jobs \subseteq sent
  /\ done \subseteq jobs
  /\ worker \in [Workers -> Task]
  /\ order \in {"pending", "paid"}
  /\ credited \in BOOLEAN
  /\ reversed \in 0 .. Full
  /\ faults \in 0 .. MaxFaults

Init ==
  /\ stripe = [paid |-> FALSE, refunded |-> 0, dispute |-> "none"]
  /\ sent = {} /\ jobs = {} /\ done = {}
  /\ worker = [w \in Workers |-> Idle]
  /\ order = "pending" /\ credited = FALSE /\ reversed = 0
  /\ faults = 0

-----------------------------------------------------------------------------
(* Stripe: each change is notified *)

Changes(s, e) ==
  /\ e \notin sent
  /\ stripe' = s
  /\ sent' = sent \cup {e}
  /\ UNCHANGED <<jobs, done, worker, ledger, faults>>

\* A card pays at once; a bank debit after the checkout is complete, or never.
Completes == \E paid \in BOOLEAN : Changes([stripe EXCEPT !.paid = paid], Completed)

PaysLater ==
  /\ Completed \in sent /\ ~stripe.paid
  /\ Changes([stripe EXCEPT !.paid = TRUE], Succeeded)

Refunds(n) ==
  /\ stripe.paid /\ n > stripe.refunded
  /\ Changes([stripe EXCEPT !.refunded = n], Refunded(n))

Disputes ==
  /\ stripe.paid
  /\ Changes([stripe EXCEPT !.dispute = "open"], Opened)

CloseDispute ==
  /\ stripe.dispute = "open"
  /\ \E outcome \in {"won", "lost"} :
       Changes([stripe EXCEPT !.dispute = outcome], Closed)

\* receive(): an event that was received before changes nothing.
Receive(e) ==
  /\ e \in sent \ jobs
  /\ jobs' = jobs \cup {e}
  /\ UNCHANGED <<stripe, sent, done, worker, ledger, faults>>

-----------------------------------------------------------------------------
(* The handlers *)

Disputed == stripe.dispute \in {"open", "lost"}

Moves(w, t) == worker' = [worker EXCEPT ![w] = t]
At(w, pc) == worker[w].pc = pc
Goto(w, pc) == Moves(w, [worker[w] EXCEPT !.pc = pc])

\* Mutant: only a checkout that completes has its session looked at.
FirstOfCompleted(e) == IF e = Completed THEN "session" ELSE "charge"

FirstStep(e) == IF e[1] = "checkout" THEN "session" ELSE "charge"

\* The job is claimed. A process at work on it whose lease has run out goes on.
Begin(w, e) ==
  LET superseded == {v \in Workers : worker[v].holds /\ worker[v].job = e}
      lost == IF superseded = {} THEN 0 ELSE 1
  IN
  /\ At(w, "idle") /\ e \in jobs \ done
  /\ faults + lost <= MaxFaults /\ faults' = faults + lost
  /\ worker' = [v \in Workers |->
       IF v = w THEN [Idle EXCEPT !.pc = FirstStep(e), !.job = e, !.holds = TRUE]
       ELSE [worker[v] EXCEPT !.holds = @ /\ v \notin superseded]]
  /\ UNCHANGED <<stripe, sent, jobs, done, ledger>>

RetrievesSession(w) ==
  /\ At(w, "session")
  /\ Goto(w, IF stripe.paid THEN "crediting" ELSE "finished")
  /\ UNCHANGED <<stripe, sent, jobs, done, ledger, faults>>

\* Mutant: the order may not be credited yet.
FindsAnyOrder(w) ==
  /\ At(w, "order")
  /\ Goto(w, "disputes")
  /\ UNCHANGED <<stripe, sent, jobs, done, ledger, faults>>

\* Mutant: an order that is credited now needs no second look at its charge.
CreditsOnly(w) ==
  /\ At(w, "crediting")
  /\ credited' = TRUE /\ order' = "paid"
  /\ Goto(w, "finished")
  /\ UNCHANGED <<stripe, sent, jobs, done, reversed, faults>>

\* One transaction; credit() does nothing for a checkout it has seen.
Credits(w) ==
  /\ At(w, "crediting")
  /\ credited' = TRUE /\ order' = "paid"
  /\ Goto(w, "charge")
  /\ UNCHANGED <<stripe, sent, jobs, done, reversed, faults>>

RetrievesCharge(w) ==
  /\ At(w, "charge")
  /\ Moves(w, [worker[w] EXCEPT !.pc = "order", !.refunded = stripe.refunded])
  /\ UNCHANGED <<stripe, sent, jobs, done, ledger, faults>>

\* An order that is not paid yet will be checked when it is.
FindsOrder(w) ==
  /\ At(w, "order")
  /\ Goto(w, IF order = "paid" THEN "disputes" ELSE "finished")
  /\ UNCHANGED <<stripe, sent, jobs, done, ledger, faults>>

Target(refunded) == IF Disputed THEN Full ELSE refunded

ListsDisputes(w) ==
  /\ At(w, "disputes")
  /\ Moves(w, [worker[w] EXCEPT !.pc = "reversing",
                                !.target = Target(worker[w].refunded)])
  /\ UNCHANGED <<stripe, sent, jobs, done, ledger, faults>>

\* reverseCredit()
Reverses(w) ==
  /\ At(w, "reversing")
  /\ reversed' = worker[w].target
  /\ Goto(w, "finished")
  /\ UNCHANGED <<stripe, sent, jobs, done, order, credited, faults>>

\* Only a handler whose token the row still has marks the job done.
Finishes(w) ==
  /\ At(w, "finished")
  /\ done' = IF worker[w].holds THEN done \cup {worker[w].job} ELSE done
  /\ Moves(w, Idle)
  /\ UNCHANGED <<stripe, sent, jobs, ledger, faults>>

\* The job is tried again.
Fails(w) ==
  /\ ~At(w, "idle") /\ faults < MaxFaults
  /\ faults' = faults + 1
  /\ Moves(w, Idle)
  /\ UNCHANGED <<stripe, sent, jobs, done, ledger>>

HandlerStep(w) ==
  \/ \E e \in jobs : Begin(w, e)
  \/ RetrievesSession(w) \/ Credits(w) \/ RetrievesCharge(w) \/ FindsOrder(w)
  \/ ListsDisputes(w) \/ Reverses(w) \/ Finishes(w)

Next ==
  \/ Completes \/ PaysLater \/ Disputes \/ CloseDispute
  \/ \E n \in 1 .. Full : Refunds(n)
  \/ \E e \in Events : Receive(e)
  \/ \E w \in Workers : HandlerStep(w) \/ Fails(w)

\* Stripe delivers until it is answered; the queue serves every job.
Fairness ==
  /\ \A e \in Events : WF_vars(Receive(e))
  /\ \A w \in Workers : WF_vars(HandlerStep(w))

Spec == Init /\ [][Next]_vars /\ Fairness

-----------------------------------------------------------------------------
\* A handler between what it reads of the charge and what it writes.
Decides(w) == worker[w].pc \in {"order", "disputes", "reversing"}

\* Nothing in the code keeps two handlers from deciding at once, but there is one
\* worker.
OneDecides == \A v, w \in Workers : Decides(v) /\ Decides(w) => v = w

\* "Cumulative reversal target makes repeated refund and dispute events
\* idempotent" (ledger.ts): once Stripe is at rest the purchase is credited if it
\* was paid, and as much of it reversed as the bank has taken, in whatever order
\* the notifications came.
EndsAsStripeHasIt ==
  <>[](credited = stripe.paid /\ (credited => reversed = Target(stripe.refunded)))

\* When no notification is left the purchase is credited if and only if it was
\* paid: the one of two checkout notifications that finds it unpaid leaves it to
\* the other, and none of them credits on its own word (checkoutPaid).
CreditSettles == done = sent => credited = stripe.paid

\* And when none is left as much of a credited purchase is reversed as the bank
\* has taken: a handler that writes what Stripe said some steps ago, or ignores a
\* refund of a purchase that is not credited yet, leaves another notification, or
\* the second look of the checkout's own, to put it right (reversal).
ReversalSettles ==
  done = sent => (credited => reversed = Target(stripe.refunded))

\* The books of the account that made the purchase, which has used nothing yet.
Buyer == "buyer"
Purchase == "purchase"
Book(n) == [a \in {Buyer} |-> n]
Left == IF credited THEN Full - reversed ELSE 0

Wallet == INSTANCE Ledger WITH
  Accounts <- {Buyer}, Orders <- {Purchase}, Requests <- {},
  Owner <- [o \in {Purchase} |-> Buyer], TopUp <- Full,
  Models <- {}, Reports <- {}, NoUsage <- 0,
  wallets <- IF credited THEN {Buyer} ELSE {},
  balance <- Book(Left), reserved <- Book(0), debt <- Book(0),
  requests <- [r \in {} |-> 0], stale <- {}, incidents <- [r \in {} |-> 0],
  reversed <- [o \in {Purchase} |-> reversed],
  posted <- IF credited THEN {<<"checkout", Purchase>>} ELSE {},
  topups <- Book(IF credited THEN Full ELSE 0), usage <- Book(0),
  reversals <- Book(reversed), gateways <- {}

\* The handlers write what the ledger's transactions may: the credit of an order
\* once, reversals only of an order that was credited, and never of more than it
\* was worth, however often each is repeated and by how many processes.
BooksAsLedger == Wallet!Init /\ [][Wallet!Next]_(Wallet!vars)
=============================================================================
