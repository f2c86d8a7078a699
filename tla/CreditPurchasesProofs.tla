------------------------- MODULE CreditPurchasesProofs -------------------------
(* A purchase is credited and reversed as Stripe has it once no notification   *)
(* is left, for any number of workers, parts and failures.                     *)
EXTENDS CreditPurchases, TLAPS

Checkouts == {Completed, Succeeded}

\* Who is not idle has a job that is queued; who holds it has one that is not done,
\* and nobody else holds it.
BusyHasJob ==
  \A w \in Workers :
    /\ ~At(w, "idle") => worker[w].job \in jobs
    /\ worker[w].holds =>
         /\ ~At(w, "idle") /\ worker[w].job \notin done
         /\ \A v \in Workers \ {w} : worker[v].holds => worker[v].job # worker[w].job

\* Nothing is paid whose checkout is not complete.
PaidIsComplete == stripe.paid => Completed \in sent

\* The order is paid with the credit, after the payment, and nothing is reversed
\* before.
LedgerKnows ==
  /\ credited => stripe.paid
  /\ order = "paid" <=> credited
  /\ ~credited => reversed = 0

\* What the place of a handler says of the purchase.
StepKnows ==
  \A w \in Workers :
    /\ At(w, "session") => worker[w].job \in Checkouts
    /\ At(w, "crediting") => worker[w].job \in Checkouts /\ stripe.paid
    /\ At(w, "charge") /\ worker[w].job \in Checkouts => credited
    /\ At(w, "order") /\ worker[w].job \in Checkouts => credited
    /\ At(w, "disputes") \/ At(w, "reversing") => credited

\* The job e, if it is held, has not found its checkout unpaid.
MayCredit(e) ==
  \A w \in Workers :
    worker[w].holds /\ worker[w].job = e => worker[w].pc \in {"idle", "session", "crediting"}

\* A payment that is not credited has a notification left that will credit it.
CreditOwed ==
  stripe.paid /\ ~credited => \E e \in Checkouts \cap (sent \ done) : MayCredit(e)

CreditInv ==
  /\ TypeOK /\ BusyHasJob /\ PaidIsComplete /\ LedgerKnows /\ StepKnows
  /\ CreditOwed

-----------------------------------------------------------------------------
\* The events are what their names say, and no two are the same.
LEMMA EventsApart ==
  /\ Completed \in Events /\ Succeeded \in Events
  /\ Opened \in Events /\ Closed \in Events
  /\ \A n \in 1 .. Full : Refunded(n) \in Events
  /\ Completed # Succeeded /\ Opened \notin Checkouts /\ Closed \notin Checkouts
  /\ \A n \in 1 .. Full : Refunded(n) \notin Checkouts
  /\ \A e \in Events : e[1] = "checkout" <=> e \in Checkouts
  BY DEF Events, Checkouts, Completed, Succeeded, Opened, Closed, Refunded

\* A change at Stripe that is notified by the event e.
Change(s, e) ==
  /\ Changes(s, e)
  /\ s \in Payment /\ e \in Events
  /\ stripe.paid => s.paid
  /\ s.paid => Completed \in sent \cup {e}
  /\ s.paid /\ ~stripe.paid => e \in Checkouts
  /\ e \in Checkouts => s.refunded = stripe.refunded /\ s.dispute = stripe.dispute

\* Whatever happens at Stripe is such a change.
LEMMA StripeChanges ==
  ASSUME TypeOK, PaidIsComplete,
         Completes \/ PaysLater \/ Disputes \/ CloseDispute
           \/ \E n \in 1 .. Full : Refunds(n)
  PROVE  \E s \in Payment, e \in Events : Change(s, e)
<1> USE EventsApart
<1>1. stripe \in Payment BY DEF TypeOK
<1>2. CASE Completes
  <2>1. PICK paid \in BOOLEAN : Changes([stripe EXCEPT !.paid = paid], Completed)
    BY <1>2 DEF Completes
  <2>2. ~stripe.paid BY <2>1 DEF Changes, PaidIsComplete
  <2>3. [stripe EXCEPT !.paid = paid] \in Payment BY <1>1 DEF Payment
  <2>4. Change([stripe EXCEPT !.paid = paid], Completed)
    BY <1>1, <2>1, <2>2, <2>3 DEF Change, Checkouts, Payment
  <2> QED BY <2>3, <2>4
<1>3. CASE PaysLater
  <2>1. [stripe EXCEPT !.paid = TRUE] \in Payment BY <1>1 DEF Payment
  <2>2. Change([stripe EXCEPT !.paid = TRUE], Succeeded)
    BY <1>1, <1>3, <2>1 DEF PaysLater, Change, Checkouts, Payment
  <2> QED BY <2>1, <2>2
<1>4. CASE Disputes
  <2>1. [stripe EXCEPT !.dispute = "open"] \in Payment BY <1>1 DEF Payment
  <2>2. Change([stripe EXCEPT !.dispute = "open"], Opened)
    BY <1>1, <1>4, <2>1 DEF Disputes, Change, Payment, PaidIsComplete
  <2> QED BY <2>1, <2>2
<1>5. CASE CloseDispute
  <2>1. PICK outcome \in {"won", "lost"} :
          Changes([stripe EXCEPT !.dispute = outcome], Closed)
    BY <1>5 DEF CloseDispute
  <2>2. [stripe EXCEPT !.dispute = outcome] \in Payment BY <1>1 DEF Payment
  <2>3. Change([stripe EXCEPT !.dispute = outcome], Closed)
    BY <1>1, <2>1, <2>2 DEF Change, Payment, PaidIsComplete
  <2> QED BY <2>2, <2>3
<1>6. CASE \E n \in 1 .. Full : Refunds(n)
  <2>1. PICK n \in 1 .. Full : Refunds(n) BY <1>6
  <2>2. [stripe EXCEPT !.refunded = n] \in Payment BY <1>1 DEF Payment
  <2>3. Change([stripe EXCEPT !.refunded = n], Refunded(n))
    BY <1>1, <2>1, <2>2 DEF Refunds, Change, Payment, PaidIsComplete
  <2> QED BY <2>2, <2>3
<1> QED BY <1>2, <1>3, <1>4, <1>5, <1>6

\* A handler that stays where it is, though its job may be taken from it.
Stays(v) ==
  /\ worker'[v].pc = worker[v].pc /\ worker'[v].job = worker[v].job
  /\ worker'[v].refunded = worker[v].refunded /\ worker'[v].target = worker[v].target
  /\ worker'[v].holds => worker[v].holds

\* A worker that moves is where it moves to, and the others stay.
LEMMA MovesOne ==
  ASSUME TypeOK, NEW w \in Workers, NEW t \in Task, Moves(w, t)
  PROVE  /\ worker' \in [Workers -> Task]
         /\ worker'[w] = t
         /\ \A v \in Workers \ {w} : worker'[v] = worker[v] /\ Stays(v)
  BY DEF TypeOK, Moves, Stays

\* A worker that goes on keeps its job and what it has read.
LEMMA GoesOn ==
  ASSUME TypeOK, NEW w \in Workers, NEW pc, Goto(w, pc),
         pc \in {"session", "crediting", "charge", "disputes", "finished"}
  PROVE  /\ worker' \in [Workers -> Task]
         /\ worker'[w].pc = pc /\ worker'[w].job = worker[w].job
        /\ worker'[w].holds = worker[w].holds
         /\ worker'[w].refunded = worker[w].refunded
         /\ worker'[w].holds = worker[w].holds
         /\ \A v \in Workers \ {w} : worker'[v] = worker[v] /\ Stays(v)
<1> DEFINE t == [worker[w] EXCEPT !.pc = pc]
<1>1. t \in Task BY DEF TypeOK, Task
<1>2. /\ t.pc = pc /\ t.job = worker[w].job /\ t.refunded = worker[w].refunded
      /\ t.holds = worker[w].holds
  BY DEF TypeOK, Task
<1>3. Moves(w, t) BY DEF Goto
<1> HIDE DEF t
<1> QED BY <1>1, <1>2, <1>3, MovesOne

\* A worker that stops has no job.
LEMMA Stops ==
  ASSUME TypeOK, NEW w \in Workers, Moves(w, Idle)
  PROVE  /\ worker' \in [Workers -> Task]
         /\ worker'[w].pc = "idle" /\ ~worker'[w].holds
         /\ \A v \in Workers \ {w} : worker'[v] = worker[v] /\ Stays(v)
<1>1. Idle \in Task
  BY EventsApart, CreditPurchasesAssumption DEF Idle, Task
<1>2. Idle.pc = "idle" /\ ~Idle.holds BY DEF Idle
<1> QED BY <1>1, <1>2, MovesOne

-----------------------------------------------------------------------------
\* A change at Stripe brings the notification that answers for it.
LEMMA StripeStepKeeps ==
  ASSUME CreditInv, NEW s \in Payment, NEW e \in Events, Change(s, e)
  PROVE  CreditInv'
<1> USE DEF CreditInv
<1>1. /\ stripe' = s /\ sent' = sent \cup {e} /\ e \notin sent
      /\ UNCHANGED <<jobs, done, worker, order, credited, reversed, faults>>
  BY DEF Change, Changes, ledger
<1>2. TypeOK' BY <1>1 DEF TypeOK
<1>3. BusyHasJob' BY <1>1 DEF BusyHasJob, At
<1>4. PaidIsComplete' BY <1>1 DEF PaidIsComplete, Change
<1>5. LedgerKnows' BY <1>1 DEF LedgerKnows, Change
<1>6. StepKnows' BY <1>1 DEF StepKnows, At, Change
<1>7. CreditOwed'
  <2> SUFFICES ASSUME s.paid, ~credited
               PROVE  \E f \in Checkouts \cap (sent' \ done) : MayCredit(f)
    BY <1>1 DEF CreditOwed, MayCredit
  <2>1. CASE stripe.paid BY <1>1, <2>1 DEF CreditOwed
  <2>2. CASE ~stripe.paid
    <3>1. e \in Checkouts BY <2>2 DEF Change
    <3>2. e \in sent' \ done BY <1>1 DEF TypeOK
    <3>3. MayCredit(e)
      <4> SUFFICES ASSUME NEW w \in Workers, worker[w].job = e
                   PROVE  worker[w].pc \in {"idle", "session", "crediting"}
        BY DEF MayCredit
      <4> QED BY <1>1 DEF BusyHasJob, At, TypeOK
    <3> QED BY <3>1, <3>2, <3>3
  <2> QED BY <2>1, <2>2
<1> QED BY <1>2, <1>3, <1>4, <1>5, <1>6, <1>7

\* A notification that becomes a job changes nothing else.
LEMMA ReceiveKeeps ==
  ASSUME CreditInv, NEW e \in Events, Receive(e)
  PROVE  CreditInv'
<1> USE DEF CreditInv
<1>1. /\ jobs' = jobs \cup {e} /\ e \in sent
      /\ UNCHANGED <<stripe, sent, done, worker, order, credited, reversed, faults>>
  BY DEF Receive, ledger
<1>2. TypeOK' BY <1>1 DEF TypeOK
<1>3. BusyHasJob' BY <1>1 DEF BusyHasJob, At
<1>4. PaidIsComplete' BY <1>1 DEF PaidIsComplete
<1>5. LedgerKnows' BY <1>1 DEF LedgerKnows
<1>6. StepKnows' BY <1>1 DEF StepKnows, At
<1>7. CreditOwed' BY <1>1 DEF CreditOwed, MayCredit
<1> QED BY <1>2, <1>3, <1>4, <1>5, <1>6, <1>7

\* A claim puts a worker to work on a job that nobody else holds any more.
LEMMA Claims ==
  ASSUME TypeOK, NEW w \in Workers, NEW e \in jobs, Begin(w, e)
  PROVE  /\ worker' \in [Workers -> Task] /\ faults' \in 0 .. MaxFaults
         /\ At(w, "idle") /\ e \in jobs \ done
         /\ worker'[w].job = e /\ worker'[w].holds
         /\ worker'[w].pc = IF e \in Checkouts THEN "session" ELSE "charge"
         /\ \A v \in Workers \ {w} :
              Stays(v) /\ (worker'[v].holds => worker[v].job # e)
         /\ UNCHANGED <<stripe, sent, jobs, done, order, credited, reversed>>
<1> DEFINE S == {v \in Workers : worker[v].holds /\ worker[v].job = e}
           t == [Idle EXCEPT !.pc = FirstStep(e), !.job = e, !.holds = TRUE]
           u(v) == [worker[v] EXCEPT !.holds = worker[v].holds /\ v \notin S]
           lost == IF S = {} THEN 0 ELSE 1
<1>1. /\ At(w, "idle") /\ e \in jobs \ done
      /\ faults + lost <= MaxFaults /\ faults' = faults + lost
      /\ worker' = [v \in Workers |-> IF v = w THEN t ELSE u(v)]
      /\ UNCHANGED <<stripe, sent, jobs, done, order, credited, reversed>>
  BY DEF Begin, ledger
<1>2. e \in Events BY DEF TypeOK
<1>3. FirstStep(e) = IF e \in Checkouts THEN "session" ELSE "charge"
  BY <1>2, EventsApart DEF FirstStep
<1>4. /\ t \in Task /\ t.job = e /\ t.holds /\ t.pc = FirstStep(e)
  <2>1. FirstStep(e) \in {"session", "charge"} BY <1>3
  <2>2. Idle \in Task
    BY EventsApart, CreditPurchasesAssumption DEF Idle, Task
  <2> QED BY <1>2, <2>1, <2>2 DEF Task
<1>5. ASSUME NEW v \in Workers
      PROVE  /\ u(v) \in Task
             /\ u(v).pc = worker[v].pc /\ u(v).job = worker[v].job
             /\ u(v).refunded = worker[v].refunded /\ u(v).target = worker[v].target
             /\ u(v).holds => worker[v].holds /\ v \notin S
  <2>1. worker[v] \in Task BY DEF TypeOK
  <2>2. (worker[v].holds /\ v \notin S) \in BOOLEAN OBVIOUS
  <2> QED BY <2>1, <2>2 DEF Task
<1>6. faults' \in 0 .. MaxFaults
  BY <1>1, CreditPurchasesAssumption DEF TypeOK
<1>7. worker'[w] = t /\ \A v \in Workers \ {w} : worker'[v] = u(v) BY <1>1
<1> HIDE DEF t, u
<1>8. worker' \in [Workers -> Task] BY <1>1, <1>4, <1>5
<1>9. ASSUME NEW v \in Workers \ {w}
      PROVE  Stays(v) /\ (worker'[v].holds => worker[v].job # e)
  BY <1>5, <1>7 DEF Stays
<1> QED BY <1>1, <1>3, <1>4, <1>6, <1>7, <1>8, <1>9

\* A handler whose step keeps its job or gives it up keeps everybody's job apart.
LEMMA KeepsJob ==
  ASSUME BusyHasJob, UNCHANGED <<jobs, done>>, NEW w \in Workers,
         \A v \in Workers \ {w} : worker'[v] = worker[v],
         \/ worker'[w].pc = "idle" /\ ~worker'[w].holds
         \/ /\ worker'[w].pc # "idle" /\ ~At(w, "idle")
            /\ worker'[w].job = worker[w].job /\ worker'[w].holds = worker[w].holds
  PROVE  BusyHasJob'
  BY DEF BusyHasJob, At

\* What a payment is owed is still owed after a handler's step, if that does not
\* finish and keeps to the places before the credit.
LEMMA KeepsOwed ==
  ASSUME TypeOK, CreditOwed, UNCHANGED <<stripe, sent, done, credited>>,
         NEW w \in Workers, \A v \in Workers \ {w} : Stays(v),
         \/ worker'[w].pc = "idle"
         \/ worker'[w].pc \in {"session", "crediting"}
         \/ worker'[w].job \notin Checkouts
         \/ /\ worker'[w].job = worker[w].job /\ worker'[w].holds = worker[w].holds
            /\ worker[w].pc \notin {"idle", "session", "crediting"}
         \/ credited
         \/ ~stripe.paid
  PROVE  CreditOwed'
<1> SUFFICES ASSUME stripe.paid, ~credited
             PROVE  \E f \in Checkouts \cap (sent \ done) : MayCredit(f)'
  BY DEF CreditOwed
<1>1. PICK f \in Checkouts \cap (sent \ done) : MayCredit(f)
  BY DEF CreditOwed
<1>2. MayCredit(f)' BY <1>1 DEF MayCredit, Stays
<1> QED BY <1>2

\* Each step of a handler keeps what the credit rests on.
LEMMA HandlerKeepsCredit ==
  ASSUME CreditInv, NEW w \in Workers, HandlerStep(w) \/ Fails(w)
  PROVE  CreditInv'
<1> USE DEF CreditInv
<1>1. worker[w] \in Task BY DEF TypeOK
<1>2. ASSUME NEW e \in jobs, Begin(w, e) PROVE CreditInv'
  <2>1. /\ worker' \in [Workers -> Task] /\ faults' \in 0 .. MaxFaults
        /\ At(w, "idle") /\ e \in jobs \ done
        /\ worker'[w].job = e /\ worker'[w].holds
        /\ worker'[w].pc = IF e \in Checkouts THEN "session" ELSE "charge"
        /\ \A v \in Workers \ {w} :
             Stays(v) /\ (worker'[v].holds => worker[v].job # e)
        /\ UNCHANGED <<stripe, sent, jobs, done, order, credited, reversed>>
    BY <1>2, Claims
  <2>2. TypeOK' BY <2>1 DEF TypeOK
  <2>3. BusyHasJob' BY <2>1 DEF BusyHasJob, At, Stays
  <2>4. PaidIsComplete' /\ LedgerKnows' BY <2>1 DEF PaidIsComplete, LedgerKnows
  <2>5. StepKnows' BY <2>1 DEF StepKnows, At, Stays
  <2>6. CreditOwed' BY <2>1, KeepsOwed
  <2> QED BY <2>2, <2>3, <2>4, <2>5, <2>6
<1>3. CASE RetrievesSession(w)
  <2>1. PICK pc \in {"crediting", "finished"} :
          /\ pc = IF stripe.paid THEN "crediting" ELSE "finished"
          /\ Goto(w, pc)
    BY <1>3 DEF RetrievesSession
  <2>2. /\ At(w, "session")
        /\ UNCHANGED <<stripe, sent, jobs, done, order, credited, reversed, faults>>
    BY <1>3 DEF RetrievesSession, ledger
  <2>3. /\ worker' \in [Workers -> Task]
        /\ worker'[w].pc = pc /\ worker'[w].job = worker[w].job
        /\ worker'[w].holds = worker[w].holds
        /\ \A v \in Workers \ {w} : worker'[v] = worker[v] /\ Stays(v)
    BY <2>1, GoesOn
  <2>4. TypeOK' BY <2>2, <2>3 DEF TypeOK
  <2>5. BusyHasJob' BY <2>2, <2>3, KeepsJob DEF At
  <2>6. PaidIsComplete' /\ LedgerKnows' BY <2>2 DEF PaidIsComplete, LedgerKnows
  <2>7. StepKnows' BY <2>1, <2>2, <2>3 DEF StepKnows, At
  <2>8. CreditOwed' BY <2>1, <2>2, <2>3, KeepsOwed
  <2> QED BY <2>4, <2>5, <2>6, <2>7, <2>8
<1>4. CASE Credits(w)
  <2>1. /\ At(w, "crediting") /\ credited' = TRUE /\ order' = "paid"
        /\ UNCHANGED <<stripe, sent, jobs, done, reversed, faults>>
        /\ Goto(w, "charge")
    BY <1>4 DEF Credits
  <2>2. /\ worker' \in [Workers -> Task]
        /\ worker'[w].pc = "charge" /\ worker'[w].job = worker[w].job
        /\ worker'[w].holds = worker[w].holds
        /\ \A v \in Workers \ {w} : worker'[v] = worker[v] /\ Stays(v)
    BY <2>1, GoesOn
  <2>3. TypeOK' BY <2>1, <2>2 DEF TypeOK
  <2>4. BusyHasJob' BY <2>1, <2>2, KeepsJob DEF At
  <2>5. PaidIsComplete' BY <2>1 DEF PaidIsComplete
  <2>6. LedgerKnows' BY <2>1 DEF LedgerKnows, StepKnows
  <2>7. StepKnows' BY <2>1, <2>2 DEF StepKnows, At
  <2>8. CreditOwed' BY <2>1 DEF CreditOwed
  <2> QED BY <2>3, <2>4, <2>5, <2>6, <2>7, <2>8
<1>5. CASE RetrievesCharge(w)
  <2> DEFINE t == [worker[w] EXCEPT !.pc = "order", !.refunded = stripe.refunded]
  <2>1. t \in Task BY <1>1 DEF TypeOK, Task, Payment
  <2>2. t.pc = "order" /\ t.job = worker[w].job /\ t.holds = worker[w].holds BY <1>1 DEF Task
  <2>3. /\ At(w, "charge") /\ Moves(w, t)
        /\ UNCHANGED <<stripe, sent, jobs, done, order, credited, reversed, faults>>
    BY <1>5 DEF RetrievesCharge, ledger
  <2> HIDE DEF t
  <2>4. /\ worker' \in [Workers -> Task] /\ worker'[w] = t
        /\ \A v \in Workers \ {w} : worker'[v] = worker[v] /\ Stays(v)
    BY <2>1, <2>3, MovesOne
  <2>5. TypeOK' BY <2>3, <2>4 DEF TypeOK
  <2>6. BusyHasJob' BY <2>2, <2>3, <2>4, KeepsJob DEF At
  <2>7. PaidIsComplete' /\ LedgerKnows' BY <2>3 DEF PaidIsComplete, LedgerKnows
  <2>8. StepKnows' BY <2>2, <2>3, <2>4 DEF StepKnows, At
  <2>9. CreditOwed' BY <2>2, <2>3, <2>4, KeepsOwed DEF At
  <2> QED BY <2>5, <2>6, <2>7, <2>8, <2>9
<1>6. CASE FindsOrder(w)
  <2>1. PICK pc \in {"disputes", "finished"} :
          /\ pc = IF order = "paid" THEN "disputes" ELSE "finished"
          /\ Goto(w, pc)
    BY <1>6 DEF FindsOrder
  <2>2. /\ At(w, "order")
        /\ UNCHANGED <<stripe, sent, jobs, done, order, credited, reversed, faults>>
    BY <1>6 DEF FindsOrder, ledger
  <2>3. /\ worker' \in [Workers -> Task]
        /\ worker'[w].pc = pc /\ worker'[w].job = worker[w].job
        /\ worker'[w].holds = worker[w].holds
        /\ \A v \in Workers \ {w} : worker'[v] = worker[v] /\ Stays(v)
    BY <2>1, GoesOn
  <2>4. TypeOK' BY <2>2, <2>3 DEF TypeOK
  <2>5. BusyHasJob' BY <2>2, <2>3, KeepsJob DEF At
  <2>6. PaidIsComplete' /\ LedgerKnows' BY <2>2 DEF PaidIsComplete, LedgerKnows
  <2>7. StepKnows' BY <2>1, <2>2, <2>3 DEF StepKnows, At, LedgerKnows
  <2>8. CreditOwed' BY <2>1, <2>2, <2>3, KeepsOwed DEF At
  <2> QED BY <2>4, <2>5, <2>6, <2>7, <2>8
<1>7. CASE ListsDisputes(w)
  <2>1. PICK n \in 0 .. Full : n = Target(worker[w].refunded)
    BY <1>1, CreditPurchasesAssumption DEF Target, Task
  <2> DEFINE t == [worker[w] EXCEPT !.pc = "reversing", !.target = n]
  <2>2. t \in Task BY <1>1, <2>1 DEF Task
  <2>3. t.pc = "reversing" /\ t.job = worker[w].job /\ t.holds = worker[w].holds BY <1>1 DEF Task
  <2>4. /\ At(w, "disputes") /\ Moves(w, t)
        /\ UNCHANGED <<stripe, sent, jobs, done, order, credited, reversed, faults>>
    BY <1>7, <2>1 DEF ListsDisputes, ledger
  <2> HIDE DEF t
  <2>5. /\ worker' \in [Workers -> Task] /\ worker'[w] = t
        /\ \A v \in Workers \ {w} : worker'[v] = worker[v] /\ Stays(v)
    BY <2>2, <2>4, MovesOne
  <2>6. TypeOK' BY <2>4, <2>5 DEF TypeOK
  <2>7. BusyHasJob' BY <2>3, <2>4, <2>5, KeepsJob DEF At
  <2>8. PaidIsComplete' /\ LedgerKnows' BY <2>4 DEF PaidIsComplete, LedgerKnows
  <2>9. StepKnows' BY <2>3, <2>4, <2>5 DEF StepKnows, At
  <2>10. CreditOwed' BY <2>3, <2>4, <2>5, KeepsOwed DEF At
  <2> QED BY <2>6, <2>7, <2>8, <2>9, <2>10
<1>8. CASE Reverses(w)
  <2>1. /\ At(w, "reversing") /\ reversed' = worker[w].target
        /\ Goto(w, "finished")
        /\ UNCHANGED <<stripe, sent, jobs, done, order, credited, faults>>
    BY <1>8 DEF Reverses
  <2>2. /\ worker' \in [Workers -> Task]
        /\ worker'[w].pc = "finished" /\ worker'[w].job = worker[w].job
        /\ worker'[w].holds = worker[w].holds
        /\ \A v \in Workers \ {w} : worker'[v] = worker[v] /\ Stays(v)
    BY <2>1, GoesOn
  <2>3. TypeOK' BY <1>1, <2>1, <2>2 DEF TypeOK, Task
  <2>4. BusyHasJob' BY <2>1, <2>2, KeepsJob DEF At
  <2>5. PaidIsComplete' BY <2>1 DEF PaidIsComplete
  <2>6. LedgerKnows' BY <2>1 DEF LedgerKnows, StepKnows
  <2>7. StepKnows' BY <2>1, <2>2 DEF StepKnows, At
  <2>8. CreditOwed' BY <2>1, <2>2, KeepsOwed DEF At
  <2> QED BY <2>3, <2>4, <2>5, <2>6, <2>7, <2>8
<1>9. CASE Finishes(w)
  <2>1. /\ At(w, "finished") /\ Moves(w, Idle)
        /\ done' = IF worker[w].holds THEN done \cup {worker[w].job} ELSE done
        /\ UNCHANGED <<stripe, sent, jobs, order, credited, reversed, faults>>
    BY <1>9 DEF Finishes, ledger
  <2>2. /\ worker' \in [Workers -> Task] /\ worker'[w].pc = "idle" /\ ~worker'[w].holds
        /\ \A v \in Workers \ {w} : worker'[v] = worker[v] /\ Stays(v)
    BY <2>1, Stops
  <2>3. worker[w].job \in jobs BY <2>1 DEF BusyHasJob, At
  <2>4. TypeOK' BY <2>1, <2>2, <2>3 DEF TypeOK
  <2>5. BusyHasJob' BY <2>1, <2>2 DEF BusyHasJob, At
  <2>6. PaidIsComplete' /\ LedgerKnows' BY <2>1 DEF PaidIsComplete, LedgerKnows
  <2>7. StepKnows' BY <2>1, <2>2 DEF StepKnows, At
  <2>8. CreditOwed'
    <3> SUFFICES ASSUME stripe.paid, ~credited
                 PROVE  \E f \in Checkouts \cap (sent \ done') : MayCredit(f)'
      BY <2>1 DEF CreditOwed
    <3>1. PICK f \in Checkouts \cap (sent \ done) : MayCredit(f)
      BY DEF CreditOwed
    <3>2. f \notin done' BY <2>1, <3>1 DEF MayCredit, At
    <3>3. MayCredit(f)' BY <2>2, <3>1 DEF MayCredit
    <3> QED BY <2>1, <3>2, <3>3
  <2> QED BY <2>4, <2>5, <2>6, <2>7, <2>8
<1>10. CASE Fails(w)
  <2>1. /\ faults < MaxFaults /\ faults' = faults + 1 /\ Moves(w, Idle)
        /\ UNCHANGED <<stripe, sent, jobs, done, order, credited, reversed>>
    BY <1>10 DEF Fails, ledger
  <2>2. /\ worker' \in [Workers -> Task] /\ worker'[w].pc = "idle" /\ ~worker'[w].holds
        /\ \A v \in Workers \ {w} : worker'[v] = worker[v] /\ Stays(v)
    BY <2>1, Stops
  <2>3. faults' \in 0 .. MaxFaults
    BY <2>1, CreditPurchasesAssumption DEF TypeOK
  <2>4. TypeOK' BY <2>1, <2>2, <2>3 DEF TypeOK
  <2>5. BusyHasJob' BY <2>1, <2>2, KeepsJob
  <2>6. PaidIsComplete' /\ LedgerKnows' BY <2>1 DEF PaidIsComplete, LedgerKnows
  <2>7. StepKnows' BY <2>1, <2>2 DEF StepKnows, At
  <2>8. CreditOwed' BY <2>1, <2>2, KeepsOwed
  <2> QED BY <2>4, <2>5, <2>6, <2>7, <2>8
<1> QED
  BY <1>2, <1>3, <1>4, <1>5, <1>6, <1>7, <1>8, <1>9, <1>10 DEF HandlerStep

\* The inductive invariant of a purchase's credit, for any number of workers: a
\* payment that is not credited has a notification left that finds it paid, and
\* no step of a handler comes before what it relies on (checkoutPaid, reversal).
THEOREM CreditInvariant == Spec => []CreditInv
<1>1. Init => CreditInv
  <2> SUFFICES ASSUME Init PROVE CreditInv OBVIOUS
  <2>1. /\ stripe = [paid |-> FALSE, refunded |-> 0, dispute |-> "none"]
        /\ sent = {} /\ jobs = {} /\ done = {}
        /\ worker = [w \in Workers |-> Idle]
        /\ order = "pending" /\ credited = FALSE /\ reversed = 0 /\ faults = 0
    BY DEF Init
  <2>2. Idle \in Task /\ Idle.pc = "idle" /\ Idle.holds = FALSE
    BY EventsApart, CreditPurchasesAssumption DEF Idle, Task
  <2>3. /\ worker \in [Workers -> Task]
        /\ \A w \in Workers : worker[w].pc = "idle" /\ ~worker[w].holds
    BY <2>1, <2>2
  <2>4. stripe \in Payment /\ ~stripe.paid
    BY <2>1, CreditPurchasesAssumption DEF Payment
  <2>5. TypeOK
    <3>1. credited \in BOOLEAN /\ order \in {"pending", "paid"} BY <2>1
    <3>2. reversed \in 0 .. Full /\ faults \in 0 .. MaxFaults
      BY <2>1, CreditPurchasesAssumption
    <3>3. sent \subseteq Events /\ jobs \subseteq sent /\ done \subseteq jobs
      BY <2>1
    <3> QED BY <2>3, <2>4, <3>1, <3>2, <3>3 DEF TypeOK
  <2>6. BusyHasJob /\ StepKnows BY <2>3 DEF BusyHasJob, StepKnows, At
  <2>7. PaidIsComplete /\ CreditOwed BY <2>4 DEF PaidIsComplete, CreditOwed
  <2>8. ~credited /\ order # "paid" /\ reversed = 0 BY <2>1
  <2>9. LedgerKnows BY <2>8 DEF LedgerKnows
  <2> QED BY <2>5, <2>6, <2>7, <2>9 DEF CreditInv
<1>2. CreditInv /\ [Next]_vars => CreditInv'
  <2> SUFFICES ASSUME CreditInv, [Next]_vars PROVE CreditInv'
    OBVIOUS
  <2>1. CASE Completes \/ PaysLater \/ Disputes \/ CloseDispute
               \/ \E n \in 1 .. Full : Refunds(n)
    BY <2>1, StripeChanges, StripeStepKeeps DEF CreditInv
  <2>2. CASE \E e \in Events : Receive(e)
    BY <2>2, ReceiveKeeps
  <2>3. CASE \E w \in Workers : HandlerStep(w) \/ Fails(w)
    BY <2>3, HandlerKeepsCredit
  <2>4. CASE UNCHANGED vars
    BY <2>4 DEF vars, ledger, CreditInv, TypeOK, BusyHasJob, PaidIsComplete,
                LedgerKnows, StepKnows, CreditOwed, MayCredit, At
  <2> QED BY <2>1, <2>2, <2>3, <2>4 DEF Next
<1> QED BY <1>1, <1>2, PTL DEF Spec

\* The rows, jobs and handlers of a purchase keep their types (tables orders,
\* jobs, credit_reversals).
THEOREM CreditPurchasesTypeOK == Spec => []TypeOK
<1>1. CreditInv => TypeOK BY DEF CreditInv
<1> QED BY <1>1, CreditInvariant, PTL

\* When no notification is left a purchase is credited if and only if it was
\* paid, for any number of workers (checkoutPaid).
THEOREM CreditPurchasesCreditSettles == Spec => []CreditSettles
<1>1. CreditInv => CreditSettles
  BY DEF CreditInv, CreditSettles, CreditOwed, LedgerKnows, TypeOK, Payment
<1> QED BY <1>1, CreditInvariant, PTL

-----------------------------------------------------------------------------
(* What is reversed *)

\* What the bank has taken.
Due == Target(stripe.refunded)

\* A handler about to write something else than what is due.
Stale(w) ==
  \/ worker[w].pc \in {"order", "disputes"} /\ Target(worker[w].refunded) # Due
  \/ worker[w].pc = "reversing" /\ worker[w].target # Due

\* The job e, if it is held, has yet to read the charge.
Unread(e) ==
  \A w \in Workers : worker[w].holds /\ worker[w].job = e => worker[w].pc \in {"idle", "charge"}

\* Stripe has changed since such a handler has read, and said so.
StaleCovered ==
  \A w \in Workers : Stale(w) =>
    \E e \in (sent \ done) \ Checkouts : Unread(e)

\* The job e, if it is held, has not come to its end.
Unfinished(e) ==
  \A w \in Workers : worker[w].holds /\ worker[w].job = e => worker[w].pc # "finished"

\* A credited purchase that is not reversed as is due has a notification left.
ReversalOwed ==
  credited /\ reversed # Due => \E e \in sent \ done : Unfinished(e)

ReversalInv == StaleCovered /\ ReversalOwed

\* What a notified change leaves behind, the notification covers.
LEMMA ChangeCovers ==
  ASSUME CreditInv, ReversalInv, NEW s \in Payment, NEW e \in Events, Change(s, e)
  PROVE  ReversalInv'
<1> USE DEF CreditInv, ReversalInv
<1>1. /\ stripe' = s /\ sent' = sent \cup {e} /\ e \notin sent
      /\ UNCHANGED <<jobs, done, worker, order, credited, reversed, faults>>
  BY DEF Change, Changes, ledger
<1>2. \A w \in Workers : worker[w].job = e => worker[w].pc = "idle"
  BY <1>1 DEF BusyHasJob, At, TypeOK
<1>3. e \in sent' \ done' BY <1>1 DEF TypeOK
<1>4. CASE e \in Checkouts
  <2>1. s.refunded = stripe.refunded /\ s.dispute = stripe.dispute
    BY <1>4 DEF Change
  <2>2. \A r : Target(r)' = Target(r) BY <1>1, <2>1 DEF Target, Disputed
  <2>3. Due' = Due BY <1>1, <2>1 DEF Due, Target, Disputed
  <2>4. \A w \in Workers : Stale(w)' <=> Stale(w)
    BY <1>1, <2>1, <2>3 DEF Stale, Target, Disputed
  <2>5. StaleCovered' BY <1>1, <2>4 DEF StaleCovered, Unread
  <2>6. ReversalOwed' BY <1>1, <2>3 DEF ReversalOwed, Unfinished
  <2> QED BY <2>5, <2>6
<1>5. CASE e \notin Checkouts
  <2>1. Unread(e)' BY <1>1, <1>2 DEF Unread
  <2>2. Unfinished(e)' BY <1>1, <1>2 DEF Unfinished
  <2>3. StaleCovered' BY <1>3, <1>5, <2>1 DEF StaleCovered
  <2>4. ReversalOwed' BY <1>3, <2>2 DEF ReversalOwed
  <2> QED BY <2>3, <2>4
<1> QED BY <1>4, <1>5

\* A step of a handler that reads nothing anew and does not end it covers what it
\* covered, if it goes on to no other place that decides.
LEMMA StepCovers ==
  ASSUME StaleCovered, UNCHANGED <<stripe, sent, done>>,
         NEW w \in Workers, \A v \in Workers \ {w} : Stays(v),
         \/ worker'[w].pc \in {"idle", "charge"}
         \/ worker'[w].job \in Checkouts
         \/ /\ worker'[w].job = worker[w].job /\ worker'[w].holds = worker[w].holds
            /\ worker[w].pc \notin {"idle", "charge"},
         Stale(w)' => Stale(w)
  PROVE  StaleCovered'
<1> SUFFICES ASSUME NEW v \in Workers, Stale(v)'
             PROVE  \E e \in (sent \ done) \ Checkouts : Unread(e)'
  BY DEF StaleCovered
<1>1. Stale(v) BY DEF Stale, Stays, Due, Target, Disputed
<1>2. PICK e \in (sent \ done) \ Checkouts : Unread(e)
  BY <1>1 DEF StaleCovered
<1>3. Unread(e)' BY <1>2 DEF Unread, Stays
<1> QED BY <1>1, <1>2, <1>3

\* A step that writes nothing and does not end the handler leaves what is owed.
LEMMA StepOwes ==
  ASSUME ReversalOwed, UNCHANGED <<stripe, sent, done, credited, reversed>>,
         NEW w \in Workers, \A v \in Workers \ {w} : Stays(v),
         worker'[w].pc # "finished" \/ ~credited
  PROVE  ReversalOwed'
<1> SUFFICES ASSUME credited, reversed # Due
             PROVE  \E e \in sent \ done : Unfinished(e)'
  BY DEF ReversalOwed, Due, Target, Disputed
<1>1. PICK e \in sent \ done : Unfinished(e) BY DEF ReversalOwed
<1>2. Unfinished(e)' BY <1>1 DEF Unfinished, Stays
<1> QED BY <1>2

\* Each step of a handler keeps what its reversal rests on, while no two decide at
\* once.
LEMMA HandlerKeepsReversal ==
  ASSUME CreditInv, ReversalInv, OneDecides, OneDecides',
         NEW w \in Workers, HandlerStep(w) \/ Fails(w)
  PROVE  ReversalInv'
<1> USE DEF CreditInv, ReversalInv
<1>1. worker[w] \in Task BY DEF TypeOK
<1>2. ASSUME NEW e \in jobs, Begin(w, e) PROVE ReversalInv'
  <2>1. /\ worker'[w].job = e
        /\ worker'[w].pc = IF e \in Checkouts THEN "session" ELSE "charge"
        /\ \A v \in Workers \ {w} : Stays(v)
        /\ UNCHANGED <<stripe, sent, jobs, done, order, credited, reversed>>
    BY <1>2, Claims
  <2>2. ~Stale(w)' BY <2>1 DEF Stale
  <2>3. StaleCovered' BY <2>1, <2>2, StepCovers
  <2>4. ReversalOwed' BY <2>1, StepOwes
  <2> QED BY <2>3, <2>4
<1>3. CASE RetrievesSession(w)
  <2>1. PICK pc \in {"crediting", "finished"} :
          /\ pc = IF stripe.paid THEN "crediting" ELSE "finished"
          /\ Goto(w, pc)
    BY <1>3 DEF RetrievesSession
  <2>2. /\ At(w, "session")
        /\ UNCHANGED <<stripe, sent, jobs, done, order, credited, reversed, faults>>
    BY <1>3 DEF RetrievesSession, ledger
  <2>3. /\ worker'[w].pc = pc /\ worker'[w].job = worker[w].job
        /\ worker'[w].holds = worker[w].holds
        /\ \A v \in Workers \ {w} : worker'[v] = worker[v] /\ Stays(v)
    BY <2>1, GoesOn
  <2>4. ~Stale(w)' BY <2>3 DEF Stale
  <2>5. worker[w].pc \notin {"idle", "charge"} BY <2>2 DEF At
  <2>6. StaleCovered' BY <2>2, <2>3, <2>4, <2>5, StepCovers
  <2>7. pc # "finished" \/ ~credited BY <2>1 DEF LedgerKnows
  <2>8. ReversalOwed' BY <2>2, <2>3, <2>7, StepOwes
  <2> QED BY <2>6, <2>8
<1>4. CASE Credits(w)
  <2>1. /\ At(w, "crediting") /\ credited' = TRUE
        /\ UNCHANGED <<stripe, sent, jobs, done, reversed, faults>>
        /\ Goto(w, "charge")
    BY <1>4 DEF Credits
  <2>2. /\ worker'[w].pc = "charge" /\ worker'[w].job = worker[w].job
        /\ worker'[w].holds = worker[w].holds
        /\ \A v \in Workers \ {w} : worker'[v] = worker[v] /\ Stays(v)
    BY <2>1, GoesOn
  <2>3. ~Stale(w)' BY <2>2 DEF Stale
  <2>4. StaleCovered' BY <2>1, <2>2, <2>3, StepCovers
  <2>5. ReversalOwed'
    <3>1. CASE credited BY <2>1, <2>2, <3>1, StepOwes
    <3>2. CASE ~credited
      <4>1. stripe.paid BY <2>1 DEF StepKnows
      <4>2. PICK e \in Checkouts \cap (sent \ done) : MayCredit(e)
        BY <3>2, <4>1 DEF CreditOwed
      <4>3. Unfinished(e)' BY <2>2, <4>2 DEF MayCredit, Unfinished
      <4> QED BY <2>1, <4>2, <4>3 DEF ReversalOwed
    <3> QED BY <3>1, <3>2
  <2> QED BY <2>4, <2>5
<1>5. CASE RetrievesCharge(w)
  <2> DEFINE t == [worker[w] EXCEPT !.pc = "order", !.refunded = stripe.refunded]
  <2>1. t \in Task BY <1>1 DEF TypeOK, Task, Payment
  <2>2. /\ t.pc = "order" /\ t.job = worker[w].job /\ t.holds = worker[w].holds
        /\ t.refunded = stripe.refunded
    BY <1>1 DEF Task
  <2>3. /\ At(w, "charge") /\ Moves(w, t)
        /\ UNCHANGED <<stripe, sent, jobs, done, order, credited, reversed, faults>>
    BY <1>5 DEF RetrievesCharge, ledger
  <2> HIDE DEF t
  <2>4. /\ worker'[w] = t
        /\ \A v \in Workers \ {w} : worker'[v] = worker[v] /\ Stays(v)
    BY <2>1, <2>3, MovesOne
  <2>5. StaleCovered'
    <3>1. ~Stale(w)' BY <2>2, <2>3, <2>4 DEF Stale, Due, Target, Disputed
    <3>2. \A v \in Workers \ {w} : ~Decides(v)'
      BY <2>2, <2>4 DEF OneDecides, Decides
    <3>3. \A v \in Workers \ {w} : ~Stale(v)' BY <3>2 DEF Stale, Decides
    <3> QED BY <3>1, <3>3 DEF StaleCovered
  <2>6. ReversalOwed' BY <2>2, <2>3, <2>4, StepOwes
  <2> QED BY <2>5, <2>6
<1>6. CASE FindsOrder(w)
  <2>1. PICK pc \in {"disputes", "finished"} :
          /\ pc = IF order = "paid" THEN "disputes" ELSE "finished"
          /\ Goto(w, pc)
    BY <1>6 DEF FindsOrder
  <2>2. /\ At(w, "order")
        /\ UNCHANGED <<stripe, sent, jobs, done, order, credited, reversed, faults>>
    BY <1>6 DEF FindsOrder, ledger
  <2>3. /\ worker'[w].pc = pc /\ worker'[w].job = worker[w].job
        /\ worker'[w].holds = worker[w].holds
        /\ worker'[w].refunded = worker[w].refunded
        /\ \A v \in Workers \ {w} : worker'[v] = worker[v] /\ Stays(v)
    BY <2>1, GoesOn
  <2>4. Stale(w)' => Stale(w)
    BY <2>2, <2>3 DEF Stale, Due, Target, Disputed, At
  <2>5. worker[w].pc \notin {"idle", "charge"} BY <2>2 DEF At
  <2>6. StaleCovered' BY <2>2, <2>3, <2>4, <2>5, StepCovers
  <2>7. pc # "finished" \/ ~credited BY <2>1 DEF LedgerKnows
  <2>8. ReversalOwed' BY <2>2, <2>3, <2>7, StepOwes
  <2> QED BY <2>6, <2>8
<1>7. CASE ListsDisputes(w)
  <2>1. PICK n \in 0 .. Full : n = Target(worker[w].refunded)
    BY <1>1, CreditPurchasesAssumption DEF Target, Task
  <2> DEFINE t == [worker[w] EXCEPT !.pc = "reversing", !.target = n]
  <2>2. t \in Task BY <1>1, <2>1 DEF Task
  <2>3. /\ t.pc = "reversing" /\ t.job = worker[w].job /\ t.holds = worker[w].holds
        /\ t.target = n
    BY <1>1 DEF Task
  <2>4. /\ At(w, "disputes") /\ Moves(w, t)
        /\ UNCHANGED <<stripe, sent, jobs, done, order, credited, reversed, faults>>
    BY <1>7, <2>1 DEF ListsDisputes, ledger
  <2> HIDE DEF t
  <2>5. /\ worker'[w] = t
        /\ \A v \in Workers \ {w} : worker'[v] = worker[v] /\ Stays(v)
    BY <2>2, <2>4, MovesOne
  <2>6. Stale(w)' => Stale(w)
    BY <2>1, <2>3, <2>4, <2>5 DEF Stale, Due, Target, Disputed, At
  <2>7. worker[w].pc \notin {"idle", "charge"} BY <2>4 DEF At
  <2>8. StaleCovered' BY <2>3, <2>4, <2>5, <2>6, <2>7, StepCovers
  <2>9. ReversalOwed' BY <2>3, <2>4, <2>5, StepOwes
  <2> QED BY <2>8, <2>9
<1>8. CASE Reverses(w)
  <2>1. /\ At(w, "reversing") /\ reversed' = worker[w].target
        /\ Goto(w, "finished")
        /\ UNCHANGED <<stripe, sent, jobs, done, order, credited, faults>>
    BY <1>8 DEF Reverses
  <2>2. /\ worker'[w].pc = "finished" /\ worker'[w].job = worker[w].job
        /\ worker'[w].holds = worker[w].holds
        /\ \A v \in Workers \ {w} : worker'[v] = worker[v] /\ Stays(v)
    BY <2>1, GoesOn
  <2>3. ~Stale(w)' BY <2>2 DEF Stale
  <2>4. worker[w].pc \notin {"idle", "charge"} BY <2>1 DEF At
  <2>5. StaleCovered' BY <2>1, <2>2, <2>3, <2>4, StepCovers
  <2>6. Due' = Due BY <2>1 DEF Due, Target, Disputed
  <2>7. ReversalOwed'
    <3>1. CASE worker[w].target = Due BY <2>1, <2>6, <3>1 DEF ReversalOwed
    <3>2. CASE worker[w].target # Due
      <4>1. Stale(w) BY <2>1, <3>2 DEF Stale, At
      <4>2. PICK e \in sent \ done : Unread(e) BY <4>1 DEF StaleCovered
      <4>3. Unfinished(e)' BY <2>1, <2>2, <4>2 DEF Unread, Unfinished, At
      <4> QED BY <2>1, <4>3 DEF ReversalOwed
    <3> QED BY <3>1, <3>2
  <2> QED BY <2>5, <2>7
<1>9. CASE Finishes(w)
  <2>1. /\ At(w, "finished") /\ Moves(w, Idle)
        /\ done' = IF worker[w].holds THEN done \cup {worker[w].job} ELSE done
        /\ UNCHANGED <<stripe, sent, jobs, order, credited, reversed, faults>>
    BY <1>9 DEF Finishes, ledger
  <2>2. /\ worker'[w].pc = "idle" /\ ~worker'[w].holds
        /\ \A v \in Workers \ {w} : worker'[v] = worker[v] /\ Stays(v)
    BY <2>1, Stops
  <2>3. StaleCovered'
    <3> SUFFICES ASSUME NEW v \in Workers, Stale(v)'
                 PROVE  \E e \in (sent \ done') \ Checkouts : Unread(e)'
      BY <2>1 DEF StaleCovered
    <3>1. v # w BY <2>2 DEF Stale
    <3>2. Stale(v) /\ worker'[v] = worker[v]
      BY <2>1, <2>2, <3>1 DEF Stale, Due, Target, Disputed
    <3>3. PICK e \in (sent \ done) \ Checkouts : Unread(e)
      BY <3>2 DEF StaleCovered
    <3>4. e \notin done' BY <2>1, <3>3 DEF Unread, At
    <3>5. Unread(e)' BY <2>2, <3>3 DEF Unread
    <3> QED BY <2>1, <3>2, <3>3, <3>4, <3>5
  <2>4. ReversalOwed'
    <3> SUFFICES ASSUME credited, reversed # Due
                 PROVE  \E e \in sent \ done' : Unfinished(e)'
      BY <2>1 DEF ReversalOwed, Due, Target, Disputed
    <3>1. PICK e \in sent \ done : Unfinished(e) BY DEF ReversalOwed
    <3>2. e \notin done' BY <2>1, <3>1 DEF Unfinished, At
    <3>3. Unfinished(e)' BY <2>2, <3>1 DEF Unfinished
    <3> QED BY <2>1, <3>2, <3>3
  <2> QED BY <2>3, <2>4
<1>10. CASE Fails(w)
  <2>1. Moves(w, Idle) /\ UNCHANGED <<stripe, sent, done, credited, reversed>>
    BY <1>10 DEF Fails, ledger
  <2>2. /\ worker'[w].pc = "idle" /\ ~worker'[w].holds
        /\ \A v \in Workers \ {w} : worker'[v] = worker[v] /\ Stays(v)
    BY <2>1, Stops
  <2>3. ~Stale(w)' BY <2>2 DEF Stale
  <2>4. StaleCovered' BY <2>1, <2>2, <2>3, StepCovers
  <2>5. ReversalOwed' BY <2>1, <2>2, StepOwes
  <2> QED BY <2>4, <2>5
<1> QED
  BY <1>2, <1>3, <1>4, <1>5, <1>6, <1>7, <1>8, <1>9, <1>10 DEF HandlerStep

\* The inductive invariant of a purchase's reversal, while no two handlers decide
\* at once: who is about to write an older answer of Stripe's is followed by
\* another handler, which has yet to ask (reversal).
THEOREM ReversalInvariant == Spec /\ []OneDecides => []ReversalInv
<1>1. Init => ReversalInv
  <2> SUFFICES ASSUME Init PROVE ReversalInv OBVIOUS
  <2>1. worker = [w \in Workers |-> Idle] /\ ~credited BY DEF Init
  <2>2. \A w \in Workers : worker[w].pc = "idle" BY <2>1 DEF Idle
  <2> QED BY <2>1, <2>2 DEF ReversalInv, StaleCovered, Stale, ReversalOwed
<1>2. CreditInv /\ ReversalInv /\ OneDecides /\ OneDecides' /\ [Next]_vars
        => ReversalInv'
  <2> SUFFICES ASSUME CreditInv, ReversalInv, OneDecides, OneDecides', [Next]_vars
               PROVE  ReversalInv'
    OBVIOUS
  <2>1. CASE Completes \/ PaysLater \/ Disputes \/ CloseDispute
               \/ \E n \in 1 .. Full : Refunds(n)
    BY <2>1, StripeChanges, ChangeCovers DEF CreditInv
  <2>2. CASE (\E e \in Events : Receive(e)) \/ UNCHANGED vars
    <3>1. UNCHANGED <<stripe, sent, done, worker, credited, reversed>>
      BY <2>2 DEF Receive, vars, ledger
    <3> QED BY <3>1 DEF ReversalInv, StaleCovered, Stale, Unread, ReversalOwed,
                        Unfinished, Due, Target, Disputed
  <2>3. CASE \E w \in Workers : HandlerStep(w) \/ Fails(w)
    BY <2>3, HandlerKeepsReversal
  <2> QED BY <2>1, <2>2, <2>3 DEF Next
<1> QED BY <1>1, <1>2, CreditInvariant, PTL DEF Spec

\* When no notification is left as much of a credited purchase is reversed as the
\* bank has taken, for any number of workers of which no two decide at once
\* (reversal).
THEOREM CreditPurchasesReversalSettles == Spec /\ []OneDecides => []ReversalSettles
<1>1. ReversalInv => ReversalSettles
  BY DEF ReversalInv, ReversalOwed, ReversalSettles, Due
<1> QED BY <1>1, ReversalInvariant, PTL

\* The one worker of compose.yml cannot decide twice at once.
COROLLARY OneWorkerReversalSettles ==
  ASSUME \A v, w \in Workers : v = w
  PROVE  Spec => []ReversalSettles
<1>1. OneDecides BY DEF OneDecides
<1> QED BY <1>1, CreditPurchasesReversalSettles, PTL

-----------------------------------------------------------------------------
(* The books *)

\* The books of one account are one number each.
LEMMA OneBook ==
  /\ Book(Left)[Buyer] = Left /\ Book(0)[Buyer] = 0
  /\ \A m, n : [Book(m) EXCEPT ![Buyer] = n] = Book(n)
  /\ Book(Left)' = Book(Left') /\ Book(0)' = Book(0)
  BY DEF Book

\* The credit of a purchase is the ledger's, and so is every reversal up to what it
\* was worth: the account has used nothing and owes nothing.
LEMMA CreditIsLedgers ==
  ASSUME ~credited, reversed = 0, credited' = TRUE, reversed' = reversed
  PROVE  Wallet!Credit(Purchase)
<1>1. Full \in Nat /\ Full > 0 BY CreditPurchasesAssumption
<1>2. Left = 0 /\ Left' = Full BY <1>1 DEF Left
<1>3. Wallet!Least(Full, Book(0)[Buyer]) = 0
  BY <1>1, OneBook DEF Wallet!Least
<1>4. Wallet!Add(Buyer, Full)
  BY <1>1, <1>2, <1>3, OneBook DEF Wallet!Add
<1> QED BY <1>1, <1>2, <1>4 DEF Wallet!Credit, Book, Purchase, Buyer

LEMMA ReversalIsLedgers ==
  ASSUME credited, reversed \in 0 .. Full, NEW n \in 0 .. Full, n # reversed,
         credited' = credited, reversed' = n
  PROVE  Wallet!ReverseCredit(Purchase, n)
<1>1. Full \in Nat /\ Full > 0 BY CreditPurchasesAssumption
<1>2. Left = Full - reversed /\ Left' = Full - n BY DEF Left
<1>3. CASE n > reversed
  <2>1. Wallet!Least(n - reversed, Book(Left)[Buyer]) = n - reversed
    BY <1>1, <1>2, <1>3, OneBook DEF Wallet!Least
  <2>2. /\ Left' = Left - (n - reversed)
        /\ 0 + (n - reversed) - (n - reversed) = 0
    BY <1>1, <1>2
  <2>3. Wallet!Take(Buyer, n - reversed)
    BY <2>1, <2>2, OneBook DEF Wallet!Take
  <2> QED BY <1>1, <1>2, <1>3, <2>3 DEF Wallet!ReverseCredit, Book, Purchase, Buyer
<1>4. CASE n < reversed
  <2>1. Wallet!Least(reversed - n, Book(0)[Buyer]) = 0
    BY <1>1, <1>4, OneBook DEF Wallet!Least
  <2>2. Left' = Left + (reversed - n) - 0 BY <1>1, <1>2
  <2>3. Wallet!Add(Buyer, reversed - n)
    BY <2>1, <2>2, OneBook DEF Wallet!Add
  <2>4. reversed - n = -(n - reversed) BY <1>1
  <2> QED BY <1>1, <1>2, <1>4, <2>3, <2>4
          DEF Wallet!ReverseCredit, Book, Purchase, Buyer
<1> QED BY <1>1, <1>3, <1>4

\* What leaves the purchase's rows leaves the books.
LEMMA BooksStay ==
  ASSUME UNCHANGED <<credited, reversed>>
  PROVE  UNCHANGED Wallet!vars
<1> QED BY DEF Wallet!vars, Wallet!wallet, Wallet!book, Left, Book

\* Whatever the handlers do, in whatever order, by however many processes and
\* with leases lost, is a transaction of the ledger or nothing to it: an order
\* is credited once, and reversed only when it was credited and never by more
\* than it was worth (checkoutPaid, reversal).
THEOREM CreditPurchasesBooks == Spec => BooksAsLedger
<1>1. Init => Wallet!Init
  <2> SUFFICES ASSUME Init PROVE Wallet!Init OBVIOUS
  <2>1. credited = FALSE /\ reversed = 0 BY DEF Init
  <2> QED BY <2>1 DEF Wallet!Init, Wallet!Unused, Left, Book
<1>2. CreditInv /\ [Next]_vars => [Wallet!Next]_(Wallet!vars)
  <2> SUFFICES ASSUME CreditInv, [Next]_vars
               PROVE  Wallet!Next \/ UNCHANGED Wallet!vars
    OBVIOUS
  <2>1. CASE UNCHANGED <<credited, reversed>>
    BY <2>1, BooksStay
  <2>2. ASSUME NEW w \in Workers, Credits(w)
        PROVE  Wallet!Next \/ UNCHANGED Wallet!vars
    <3>1. credited' = TRUE /\ reversed' = reversed BY <2>2 DEF Credits
    <3>2. CASE credited
      <4>1. credited = TRUE BY <3>2 DEF CreditInv, TypeOK
      <4> QED BY <3>1, <4>1, BooksStay
    <3>3. CASE ~credited
      <4>1. reversed = 0 BY <3>3 DEF CreditInv, LedgerKnows
      <4>2. Wallet!Credit(Purchase) BY <3>1, <3>3, <4>1, CreditIsLedgers
      <4> QED BY <4>2 DEF Wallet!Next, Purchase
    <3> QED BY <3>2, <3>3
  <2>3. ASSUME NEW w \in Workers, Reverses(w)
        PROVE  Wallet!Next \/ UNCHANGED Wallet!vars
    <3>1. PICK n \in 0 .. Full : n = worker[w].target
      BY DEF CreditInv, TypeOK, Task
    <3>2. /\ credited /\ reversed \in 0 .. Full
          /\ credited' = credited /\ reversed' = n
      BY <2>3, <3>1 DEF Reverses, CreditInv, TypeOK, StepKnows, At
    <3>3. CASE n = reversed BY <3>2, <3>3, BooksStay
    <3>4. CASE n # reversed
      <4>1. Wallet!ReverseCredit(Purchase, n) BY <3>2, <3>4, ReversalIsLedgers
      <4> QED BY <4>1 DEF Wallet!Next, Purchase
    <3> QED BY <3>3, <3>4
  <2>4. \/ UNCHANGED <<credited, reversed>>
        \/ \E w \in Workers : Credits(w) \/ Reverses(w)
    <3>1. CASE Completes \/ PaysLater \/ Disputes \/ CloseDispute
                 \/ (\E n \in 1 .. Full : Refunds(n))
                 \/ (\E e \in Events : Receive(e)) \/ UNCHANGED vars
      BY <3>1 DEF Completes, PaysLater, Disputes, CloseDispute, Refunds, Changes,
                  Receive, vars, ledger
    <3>2. ASSUME NEW w \in Workers, HandlerStep(w) \/ Fails(w)
          PROVE  UNCHANGED <<credited, reversed>> \/ Credits(w) \/ Reverses(w)
      BY <3>2 DEF HandlerStep, Fails, Begin, RetrievesSession, RetrievesCharge,
                  FindsOrder, ListsDisputes, Finishes, ledger
    <3> QED BY <3>1, <3>2 DEF Next
  <2> QED BY <2>1, <2>2, <2>3, <2>4
<1> QED BY <1>1, <1>2, CreditInvariant, PTL DEF Spec, BooksAsLedger
=============================================================================
