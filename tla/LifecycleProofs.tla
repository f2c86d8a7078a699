---------------------------- MODULE LifecycleProofs ----------------------------
(* No race, no lost plan and no early deletion, for any number of workers,     *)
(* periods and failures.                                                       *)
EXTENDS Lifecycle, TLAPS

\* Whoever is in a handler holds the tenant's lock, for a job of the queue.
Locked ==
  \A w \in Workers : worker[w].pc # "idle" => lock = w /\ worker[w].job \in keys

\* What a handler relies on at a step, of the row, the server and the clock.
Knows(pc, t, v, n) ==
  /\ pc \in {"syncing", "deciding", "marking"} => t.state # "deleted"
  /\ pc = "marking" => t.plan = Original
  /\ pc \in {"stopping", "switching", "unparking", "restoring"}
       => t.state = "suspended" /\ t.plan = Original
  /\ pc \in {"starting", "waking", "resuming"}
       => t.state = "suspended" /\ v.plan = Original
  /\ pc = "resuming" => v.power = "started"
  /\ pc = "condemning" => t.state \in {"suspended", "deleting"}
  /\ pc \in {"destroying", "erasing"} => t.state = "deleting"
  /\ pc \in {"condemning", "destroying"} => t.deleteAfter # Never /\ t.deleteAfter <= n

\* No one else changes it while the handler holds the lock.
HandlerKnows == \A w \in Workers : Knows(worker[w].pc, row, vm, now)

\* Stamps from which keys are made are those of a period or of the clock.
StampsKnown ==
  /\ stripe.ended \in PeriodEnds \cup Time
  /\ row.paid \in PeriodEnds \cup Time

IInv ==
  /\ TypeOK /\ Locked /\ HandlerKnows /\ StampsKnown
  /\ PlanIsSaved /\ ServesOnItsPlan

-----------------------------------------------------------------------------
\* The initial state satisfies the invariant.
LEMMA InitIInv == Init => IInv
<1> SUFFICES ASSUME Init PROVE IInv OBVIOUS
<1> USE LifecycleAssumption DEF Init
<1>1. FirstEnd \in PeriodEnds BY DEF FirstEnd
<1>2. FirstEnd \in Nat BY <1>1
<1>3. row \in Rows BY <1>2 DEF Rows, Stamp, Serving
<1>4. stripe \in [status : {"active", "past_due", "unpaid", "canceled"},
                  paid : PeriodEnds, ended : Stamp]
  BY <1>1 DEF Stamp
<1>5. worker \in [Workers -> [pc : Steps, job : {Delete} \cup keys]]
  BY DEF Idle, Steps
<1>6. sweep \in [queues : SUBSET Keys, setup : BOOLEAN] BY DEF Resting
<1>7. TypeOK
  BY <1>3, <1>4, <1>5, <1>6 DEF TypeOK, Time
<1>8. \A w \in Workers : worker[w].pc = "idle" BY DEF Idle
<1>9. Locked /\ HandlerKnows BY <1>8 DEF Locked, HandlerKnows, Knows
<1>10. StampsKnown BY <1>1 DEF StampsKnown, Time
<1>11. PlanIsSaved /\ ServesOnItsPlan BY DEF PlanIsSaved, ServesOnItsPlan
<1> QED BY <1>7, <1>9, <1>10, <1>11 DEF IInv

\* What Stripe says, in stamps that are known.
LEMMA StripeStamps ==
  ASSUME IInv
  PROVE  /\ PaidUntil \in PeriodEnds \cup Time /\ PaidUntil \in Stamp
         /\ GraceUntil \in Stamp
<1> USE LifecycleAssumption DEF IInv, TypeOK
<1>1. PeriodEnds \cup Time \subseteq Nat BY DEF Time
<1>2. stripe.paid \in PeriodEnds /\ stripe.ended \in PeriodEnds \cup Time
  BY DEF StampsKnown
<1>3. PaidUntil \in PeriodEnds \cup Time BY <1>2 DEF PaidUntil
<1>4. PaidUntil \in Nat BY <1>1, <1>3
<1>5. GraceUntil \in Nat BY <1>4 DEF GraceUntil
<1> QED BY <1>3, <1>4, <1>5 DEF Stamp

\* Keys made from known stamps are keys.
LEMMA KeysMade ==
  ASSUME NEW s \in PeriodEnds \cup Time
  PROVE  Suspend(s) \in Keys /\ Resume(s) \in Keys /\ Park \in Keys /\ Delete \in Keys
  BY DEF Keys, Suspend, Resume, Park, Delete

\* Reconciliation moves the row's stamps and nothing else of it.
LEMMA Reconciles ==
  ASSUME IInv, Reconcile
  PROVE  /\ row' \in Rows /\ row'.state = row.state /\ row'.plan = row.plan
         /\ row'.deleteAfter = row.deleteAfter /\ row'.paid \in PeriodEnds \cup Time
         /\ keys \subseteq keys' /\ keys' \subseteq Keys /\ done' = done
<1> USE DEF IInv, TypeOK
<1>1. row' = [row EXCEPT !.paid = PaidUntil, !.grace = GraceUntil] BY DEF Reconcile
<1>2. /\ row' \in Rows /\ row'.state = row.state /\ row'.plan = row.plan
      /\ row'.deleteAfter = row.deleteAfter /\ row'.paid = PaidUntil
  BY <1>1, StripeStamps DEF Rows
<1>3. keys' = keys \/ keys' = keys \cup {Resume(PaidUntil)} BY DEF Reconcile
<1>4. Resume(PaidUntil) \in Keys BY StripeStamps, KeysMade
<1>5. keys \subseteq keys' /\ keys' \subseteq Keys BY <1>3, <1>4
<1>6. done' = done BY DEF Reconcile
<1> QED BY <1>2, <1>5, <1>6, StripeStamps

\* A step that leaves the server, the lock and every process alone, and of the
\* row no more than its stamps, keeps what is known.
LEMMA KnownOutside ==
  ASSUME IInv, worker' = worker, lock' = lock, vm' = vm, keys \subseteq keys',
         now' \in Nat, now <= now', row'.state = row.state, row'.plan = row.plan,
         row'.deleteAfter = row.deleteAfter
  PROVE  Locked' /\ HandlerKnows' /\ PlanIsSaved' /\ ServesOnItsPlan'
<1> USE DEF IInv
<1>1. Locked' /\ PlanIsSaved' /\ ServesOnItsPlan'
  BY DEF Locked, PlanIsSaved, ServesOnItsPlan
<1>2. now \in Nat /\ row.deleteAfter \in Nat
  BY DEF TypeOK, Time, Rows, Stamp
<1>3. row.deleteAfter <= now => row'.deleteAfter <= now' BY <1>2
<1>4. HandlerKnows' BY <1>3 DEF HandlerKnows, Knows
<1> QED BY <1>1, <1>4

\* The clock, the customer and Stripe leave the row and the server alone.
LEMMA WorldStep ==
  ASSUME IInv, Tick \/ Pays \/ RenewalFails \/ StripeGivesUp \/ Cancels
  PROVE  IInv'
<1> USE LifecycleAssumption DEF IInv
<1>1. /\ UNCHANGED <<row, vm, queue, worker, lock, sweep, faults>>
      /\ now' \in Time /\ now <= now'
  <2>1. CASE Tick BY <2>1 DEF Tick, TypeOK, Time, queue
  <2>2. CASE ~Tick
    <3>1. UNCHANGED <<now, row, vm, queue, worker, lock, sweep, faults>>
      BY <2>2 DEF Pays, RenewalFails, StripeGivesUp, Cancels, StripeMoves
    <3> QED BY <3>1 DEF TypeOK, Time
  <2> QED BY <2>1, <2>2
<1>2. /\ stripe' \in [status : {"active", "past_due", "unpaid", "canceled"},
                      paid : PeriodEnds, ended : Stamp]
      /\ stripe'.ended \in PeriodEnds \cup Time
  <2> USE DEF TypeOK, StampsKnown
  <2>1. CASE Tick BY <2>1 DEF Tick
  <2>2. CASE Pays
    <3>1. PICK p \in PeriodEnds : stripe' = [stripe EXCEPT !.status = "active", !.paid = p]
      BY <2>2 DEF Pays, StripeMoves
    <3> QED BY <3>1
  <2>3. CASE RenewalFails BY <2>3 DEF RenewalFails, StripeMoves
  <2>4. CASE StripeGivesUp BY <2>4 DEF StripeGivesUp, StripeMoves
  <2>5. CASE Cancels
    <3>1. PICK s \in PeriodEnds \cup Time :
            stripe' = [stripe EXCEPT !.status = "canceled", !.ended = s]
      BY <2>5 DEF Cancels, StripeMoves
    <3>2. s \in Stamp BY DEF Stamp, Time
    <3> QED BY <3>1, <3>2
  <2> QED BY <2>1, <2>2, <2>3, <2>4, <2>5
<1>3. TypeOK' BY <1>1, <1>2 DEF TypeOK, queue
<1>4. now' \in Nat BY <1>1 DEF Time
<1>5. Locked' /\ HandlerKnows' /\ PlanIsSaved' /\ ServesOnItsPlan'
  BY <1>1, <1>4, KnownOutside DEF queue
<1>6. StampsKnown' BY <1>1, <1>2 DEF StampsKnown
<1> QED BY <1>3, <1>5, <1>6

\* Webhooks and the reading half of maintenance change stamps and keys.
LEMMA ReconcilingStep ==
  ASSUME IInv, Sync \/ MaintenanceReads
  PROVE  IInv'
<1> USE DEF IInv
<1>1. /\ Reconcile /\ UNCHANGED <<now, stripe, vm, worker, lock, faults>>
  BY DEF Sync, MaintenanceReads
<1>2. sweep' \in [queues : SUBSET Keys, setup : BOOLEAN]
  <2>1. CASE Sync BY <2>1 DEF Sync, TypeOK
  <2>2. CASE MaintenanceReads
    <3>1. MaintenanceQueues(row') \subseteq Keys
      BY <1>1, Reconciles, KeysMade DEF MaintenanceQueues
    <3> QED BY <2>2, <3>1 DEF MaintenanceReads
  <2> QED BY <2>1, <2>2
<1>3. worker' \in [Workers -> [pc : Steps, job : {Delete} \cup keys']]
  BY <1>1, Reconciles DEF TypeOK
<1>4. row' \in Rows /\ keys' \subseteq Keys /\ done' \subseteq keys'
  BY <1>1, Reconciles DEF TypeOK
<1>5. TypeOK' BY <1>1, <1>2, <1>3, <1>4 DEF TypeOK
<1>6. now' \in Nat /\ now <= now' BY <1>1 DEF TypeOK, Time
<1>7. Locked' /\ HandlerKnows' /\ PlanIsSaved' /\ ServesOnItsPlan'
  BY <1>1, <1>6, Reconciles, KnownOutside
<1>8. StampsKnown' BY <1>1, Reconciles DEF StampsKnown
<1> QED BY <1>5, <1>7, <1>8

\* The acting half queues jobs, and may find a tenant set up.
LEMMA ActingStep ==
  ASSUME IInv, MaintenanceActs
  PROVE  IInv'
<1> USE DEF IInv
<1>1. /\ keys' = keys \cup sweep.queues /\ done' = done \ (sweep.queues \cap {Park})
      /\ sweep' = Resting
      /\ UNCHANGED <<now, stripe, vm, worker, lock, faults>>
  BY DEF MaintenanceActs
<1>2. \/ row' = row
      \/ row.state = "awaiting_setup" /\ row' = [row EXCEPT !.state = "ready"]
  BY DEF MaintenanceActs
<1>3. /\ row' \in Rows /\ row'.plan = row.plan /\ row'.deleteAfter = row.deleteAfter
      /\ row'.paid = row.paid
      /\ \/ row'.state = row.state
         \/ row.state = "awaiting_setup" /\ row'.state = "ready"
  <2>1. CASE row' = row BY <2>1 DEF TypeOK
  <2>2. CASE row.state = "awaiting_setup" /\ row' = [row EXCEPT !.state = "ready"]
    BY <2>2 DEF TypeOK, Rows, Serving
  <2> QED BY <1>2, <2>1, <2>2
<1>4. sweep' \in [queues : SUBSET Keys, setup : BOOLEAN] BY <1>1 DEF Resting
<1>5. worker' \in [Workers -> [pc : Steps, job : {Delete} \cup keys']]
  BY <1>1 DEF TypeOK
<1>6. keys' \subseteq Keys /\ done' \subseteq keys' BY <1>1 DEF TypeOK
<1>7. TypeOK' BY <1>1, <1>3, <1>4, <1>5, <1>6 DEF TypeOK
<1>8. Locked' /\ StampsKnown' BY <1>1, <1>3 DEF Locked, StampsKnown
<1>9. PlanIsSaved' /\ ServesOnItsPlan'
  BY <1>1, <1>3 DEF PlanIsSaved, ServesOnItsPlan, Serving
<1>10. HandlerKnows' BY <1>1, <1>3 DEF HandlerKnows, Knows
<1> QED BY <1>7, <1>8, <1>9, <1>10

\* A power change that ends, or one that support asks for, concerns no server
\* that serves and none that a handler brings up.
LEMMA PowerStep ==
  ASSUME IInv, PowerSettles \/ SupportStarts
  PROVE  IInv'
<1> USE LifecycleAssumption DEF IInv
<1>1. UNCHANGED <<now, stripe, row, queue, worker, lock, sweep>>
  BY DEF PowerSettles, SupportStarts
<1>2. faults' \in 0 .. MaxFaults BY DEF PowerSettles, SupportStarts, TypeOK
<1>3. PICK p \in {"started", "stopped", "starting"} :
        vm' = [vm EXCEPT !.power = p]
  <2>1. CASE PowerSettles /\ vm.power = "stopping"
    BY <2>1 DEF PowerSettles
  <2>2. CASE PowerSettles /\ vm.power # "stopping" BY <2>2 DEF PowerSettles
  <2>3. CASE SupportStarts BY <2>3 DEF SupportStarts
  <2> QED BY <2>1, <2>2, <2>3
<1>4. /\ vm' \in [power : {"started", "stopping", "stopped", "starting", "destroyed"},
                  plan : {Original, Parked}]
      /\ vm'.plan = vm.plan
  BY <1>3 DEF TypeOK
<1>5. TypeOK' BY <1>1, <1>2, <1>4 DEF TypeOK, queue
<1>6. Locked' /\ StampsKnown' /\ PlanIsSaved'
  BY <1>1, <1>4 DEF Locked, StampsKnown, PlanIsSaved, queue
<1>7. vm.power # "started"
  <2>1. CASE PowerSettles BY <2>1 DEF PowerSettles
  <2>2. CASE SupportStarts
    <3>1. vm = [power |-> "stopped", plan |-> Parked] BY <2>2 DEF SupportStarts
    <3> QED BY <3>1
  <2> QED BY <2>1, <2>2
<1>8. ServesOnItsPlan' BY <1>1, <1>7 DEF ServesOnItsPlan
<1>9. HandlerKnows' BY <1>1, <1>4, <1>7 DEF HandlerKnows, Knows
<1> QED BY <1>5, <1>6, <1>8, <1>9

-----------------------------------------------------------------------------
\* A handler that goes on is alone in it.
LEMMA GoesOn ==
  ASSUME IInv, NEW w \in Workers, worker[w].pc # "idle", NEW pc \in Steps,
         worker' = [worker EXCEPT ![w].pc = pc], lock' = lock,
         keys \subseteq keys'
  PROVE  /\ worker' \in [Workers -> [pc : Steps, job : {Delete} \cup keys']]
         /\ Locked' /\ lock' \in Workers \cup {NoWorker}
         /\ worker'[w].pc = pc
         /\ \A x \in Workers : x # w => worker'[x].pc = "idle"
<1> USE DEF IInv
<1>1. worker[w] \in [pc : Steps, job : {Delete} \cup keys] BY DEF TypeOK
<1>2. [worker[w] EXCEPT !.pc = pc] \in [pc : Steps, job : {Delete} \cup keys'] BY <1>1
<1>3. worker' = [worker EXCEPT ![w] = [worker[w] EXCEPT !.pc = pc]] OBVIOUS
<1>4. worker' \in [Workers -> [pc : Steps, job : {Delete} \cup keys']]
  BY <1>2, <1>3 DEF TypeOK
<1>5. worker'[w].pc = pc BY <1>1, <1>3 DEF TypeOK
<1>6. \A x \in Workers : x # w => worker'[x].pc = "idle"
  BY <1>3 DEF TypeOK, Locked
<1>7. worker'[w].job = worker[w].job BY <1>1, <1>3 DEF TypeOK
<1>8. Locked' BY <1>6, <1>7 DEF Locked
<1> QED BY <1>4, <1>5, <1>6, <1>8 DEF TypeOK

\* After a handler that throws or finishes, no one is in one.
LEMMA Leaves ==
  ASSUME IInv, NEW w \in Workers, worker[w].pc # "idle",
         worker' = [worker EXCEPT ![w] = Idle], lock' = NoWorker, keys \subseteq keys'
  PROVE  /\ worker' \in [Workers -> [pc : Steps, job : {Delete} \cup keys']]
         /\ Locked' /\ HandlerKnows' /\ lock' \in Workers \cup {NoWorker}
<1> USE DEF IInv
<1>1. Idle \in [pc : Steps, job : {Delete} \cup keys'] BY DEF Idle, Steps
<1>2. worker' \in [Workers -> [pc : Steps, job : {Delete} \cup keys']]
  BY <1>1 DEF TypeOK
<1>3. \A x \in Workers : worker'[x].pc = "idle"
  BY DEF TypeOK, Locked, Idle
<1>4. Locked' /\ HandlerKnows' BY <1>3 DEF Locked, HandlerKnows, Knows
<1> QED BY <1>2, <1>4

\* A job begins when no one is in a handler.
LEMMA BeginStep ==
  ASSUME IInv, NEW w \in Workers, NEW k \in keys, Begin(w, k)
  PROVE  IInv'
<1> USE LifecycleAssumption DEF IInv
<1>1. /\ lock = NoWorker /\ lock' = w
      /\ UNCHANGED <<now, stripe, row, vm, queue, sweep, faults>>
  BY DEF Begin
<1>2. PICK pc \in {"finished", "deciding", "syncing"} :
        /\ worker' = [worker EXCEPT ![w] = [job |-> k, pc |-> pc]]
        /\ pc # "finished" => row.state # "deleted"
  <2>1. CASE row.state = "deleted" BY <2>1 DEF Begin
  <2>2. CASE row.state # "deleted" /\ k[1] = "resume" BY <2>2 DEF Begin
  <2>3. CASE row.state # "deleted" /\ k[1] # "resume" BY <2>3 DEF Begin
  <2> QED BY <2>1, <2>2, <2>3
<1>3. \A x \in Workers : x # w => worker'[x].pc = "idle"
  <2>1. \A x \in Workers : worker[x].pc = "idle" BY <1>1 DEF Locked
  <2> QED BY <1>2, <2>1 DEF TypeOK
<1>4. worker'[w].pc = pc /\ worker'[w].job = k BY <1>2 DEF TypeOK
<1>5. worker' \in [Workers -> [pc : Steps, job : {Delete} \cup keys']]
  <2>1. [job |-> k, pc |-> pc] \in [pc : Steps, job : {Delete} \cup keys]
    BY <1>2 DEF Steps
  <2>2. keys' = keys BY <1>1 DEF queue
  <2> QED BY <1>2, <2>1, <2>2 DEF TypeOK
<1>6. TypeOK' BY <1>1, <1>5 DEF TypeOK, queue
<1>7. Locked' BY <1>1, <1>3, <1>4 DEF Locked, queue
<1>8. HandlerKnows' BY <1>1, <1>2, <1>3, <1>4 DEF HandlerKnows, Knows
<1>9. StampsKnown' /\ PlanIsSaved' /\ ServesOnItsPlan'
  BY <1>1 DEF StampsKnown, PlanIsSaved, ServesOnItsPlan
<1> QED BY <1>6, <1>7, <1>8, <1>9

\* A handler reconciles its tenant before it takes it down.
LEMMA SyncStep ==
  ASSUME IInv, NEW w \in Workers, Syncs(w)
  PROVE  IInv'
<1> USE DEF IInv
<1>1. /\ Reconcile /\ worker[w].pc = "syncing"
      /\ worker' = [worker EXCEPT ![w].pc = "deciding"]
      /\ UNCHANGED <<now, stripe, vm, lock, sweep, faults>>
  BY DEF Syncs, At, Goto
<1>2. /\ row' \in Rows /\ row'.state = row.state /\ row'.plan = row.plan
      /\ row'.deleteAfter = row.deleteAfter /\ row'.paid \in PeriodEnds \cup Time
      /\ keys \subseteq keys' /\ keys' \subseteq Keys /\ done' = done
  BY <1>1, Reconciles
<1>3. "deciding" \in Steps BY DEF Steps
<1>4. /\ worker' \in [Workers -> [pc : Steps, job : {Delete} \cup keys']]
      /\ Locked' /\ worker'[w].pc = "deciding"
      /\ \A x \in Workers : x # w => worker'[x].pc = "idle"
  BY <1>1, <1>2, <1>3, GoesOn
<1>5. TypeOK' BY <1>1, <1>2, <1>4 DEF TypeOK
<1>6. row.state # "deleted" BY <1>1 DEF HandlerKnows, Knows
<1>7. HandlerKnows' BY <1>2, <1>4, <1>6 DEF HandlerKnows, Knows
<1>8. StampsKnown' /\ PlanIsSaved' /\ ServesOnItsPlan'
  BY <1>1, <1>2 DEF StampsKnown, PlanIsSaved, ServesOnItsPlan
<1> QED BY <1>4, <1>5, <1>7, <1>8

\* A handler that finishes or fails gives the lock back.
LEMMA EndStep ==
  ASSUME IInv, NEW w \in Workers, Finishes(w) \/ Fails(w)
  PROVE  IInv'
<1> USE LifecycleAssumption DEF IInv
<1>1. /\ worker[w].pc # "idle"
      /\ worker' = [worker EXCEPT ![w] = Idle] /\ lock' = NoWorker
      /\ UNCHANGED <<now, stripe, row, vm, keys, sweep>>
  BY DEF Finishes, Fails, Throw, queue
<1>2. done' \subseteq keys'
  <2>1. worker[w].job \in keys BY <1>1 DEF Locked
  <2> QED BY <1>1, <2>1 DEF Finishes, Fails, queue, TypeOK
<1>3. faults' \in 0 .. MaxFaults BY DEF Finishes, Fails, TypeOK
<1>4. /\ worker' \in [Workers -> [pc : Steps, job : {Delete} \cup keys']]
      /\ Locked' /\ HandlerKnows' /\ lock' \in Workers \cup {NoWorker}
  BY <1>1, Leaves
<1>5. TypeOK' BY <1>1, <1>2, <1>3, <1>4 DEF TypeOK
<1>6. StampsKnown' /\ PlanIsSaved' /\ ServesOnItsPlan'
  BY <1>1 DEF StampsKnown, PlanIsSaved, ServesOnItsPlan
<1> QED BY <1>4, <1>5, <1>6

\* A handler that writes the row and goes on keeps the invariant if the new row
\* keeps the plan, serves only a server that runs on it, and is what the handler
\* relies on next.
LEMMA WritesRow ==
  ASSUME IInv, NEW w \in Workers, worker[w].pc # "idle", NEW pc \in Steps, NEW t \in Rows,
         RowStep(w, t, pc), t.paid = row.paid,
         vm.plan = Parked => t.plan = Original,
         t.state \in Serving => vm = [power |-> "started", plan |-> Original],
         Knows(pc, t, vm, now)
  PROVE  IInv'
<1> USE DEF IInv
<1>1. /\ row' = t /\ worker' = [worker EXCEPT ![w].pc = pc]
      /\ UNCHANGED <<now, stripe, vm, keys, done, lock, sweep, faults>>
  BY DEF RowStep, Goto, queue
<1>2. /\ worker' \in [Workers -> [pc : Steps, job : {Delete} \cup keys']]
      /\ Locked' /\ worker'[w].pc = pc
      /\ \A x \in Workers : x # w => worker'[x].pc = "idle"
  BY <1>1, GoesOn
<1>3. TypeOK' BY <1>1, <1>2 DEF TypeOK
<1>4. HandlerKnows'
  <2>1. Knows(worker'[w].pc, row', vm', now') BY <1>1, <1>2
  <2>2. ASSUME NEW x \in Workers, x # w PROVE Knows(worker'[x].pc, row', vm', now')
    BY <1>2, <2>2 DEF Knows
  <2> QED BY <2>1, <2>2 DEF HandlerKnows
<1>5. StampsKnown' /\ PlanIsSaved' /\ ServesOnItsPlan'
  BY <1>1 DEF StampsKnown, PlanIsSaved, ServesOnItsPlan
<1> QED BY <1>2, <1>3, <1>4, <1>5

\* A handler that throws leaves the row; it may have changed the server's power.
LEMMA Throws ==
  ASSUME IInv, NEW w \in Workers, worker[w].pc # "idle", Throw(w),
         UNCHANGED <<now, stripe, row, queue, sweep, faults>>,
         vm' \in [power : {"started", "stopping", "stopped", "starting", "destroyed"},
                  plan : {Original, Parked}],
         vm'.plan = vm.plan, vm' # vm => row.state \notin Serving
  PROVE  IInv'
<1> USE DEF IInv
<1>1. keys' = keys /\ done' = done BY DEF queue
<1>2. /\ worker' \in [Workers -> [pc : Steps, job : {Delete} \cup keys']]
      /\ Locked' /\ HandlerKnows' /\ lock' \in Workers \cup {NoWorker}
  BY <1>1, Leaves DEF Throw
<1>3. TypeOK' BY <1>1, <1>2 DEF TypeOK
<1>4. StampsKnown' /\ PlanIsSaved' /\ ServesOnItsPlan'
  BY DEF StampsKnown, PlanIsSaved, ServesOnItsPlan
<1> QED BY <1>2, <1>3, <1>4

\* A handler that has the server changed and goes on, likewise.
LEMMA ChangesServer ==
  ASSUME IInv, NEW w \in Workers, worker[w].pc # "idle", NEW pc \in Steps, Goto(w, pc),
         UNCHANGED <<now, stripe, row, queue, sweep, faults>>,
         vm' \in [power : {"started", "stopping", "stopped", "starting", "destroyed"},
                  plan : {Original, Parked}],
         vm'.plan = Parked => row.plan = Original,
         vm' # vm => row.state \notin Serving,
         Knows(pc, row, vm', now)
  PROVE  IInv'
<1> USE DEF IInv
<1>1. /\ worker' = [worker EXCEPT ![w].pc = pc] /\ lock' = lock
      /\ keys' = keys /\ done' = done
  BY DEF Goto, queue
<1>2. /\ worker' \in [Workers -> [pc : Steps, job : {Delete} \cup keys']]
      /\ Locked' /\ worker'[w].pc = pc
      /\ \A x \in Workers : x # w => worker'[x].pc = "idle"
  BY <1>1, GoesOn
<1>3. TypeOK' BY <1>1, <1>2 DEF TypeOK
<1>4. HandlerKnows'
  <2>1. Knows(worker'[w].pc, row', vm', now') BY <1>2
  <2>2. ASSUME NEW x \in Workers, x # w PROVE Knows(worker'[x].pc, row', vm', now')
    BY <1>2, <2>2 DEF Knows
  <2> QED BY <2>1, <2>2 DEF HandlerKnows
<1>5. StampsKnown' /\ PlanIsSaved' /\ ServesOnItsPlan'
  BY DEF StampsKnown, PlanIsSaved, ServesOnItsPlan
<1> QED BY <1>2, <1>3, <1>4, <1>5

-----------------------------------------------------------------------------
\* The plan that is saved is the original one, as a parked server has it saved.
LEMMA PlanKept ==
  ASSUME IInv
  PROVE  /\ WithPlan \in Rows /\ WithPlan.plan = Original
         /\ WithPlan.state = row.state /\ WithPlan.paid = row.paid
         /\ WithPlan.deleteAfter = row.deleteAfter
<1> USE LifecycleAssumption DEF IInv
<1>1. vm.plan \in {Original, Parked} /\ row.plan \in {NoPlan, Original} /\ row \in Rows
  BY DEF TypeOK, Rows
<1>2. (IF row.plan = NoPlan THEN vm.plan ELSE row.plan) = Original
  BY <1>1 DEF PlanIsSaved
<1>3. WithPlan = [row EXCEPT !.plan = Original] BY <1>2 DEF WithPlan
<1> QED BY <1>1, <1>3 DEF Rows

\* The steps that write the row.
LEMMA WritingSteps ==
  ASSUME IInv, NEW w \in Workers,
         SuspendDecides(w) \/ MarksSuspended(w) \/ MarksResumed(w)
         \/ DeleteDecides(w) \/ MarksDeleting(w) \/ MarksDeleted(w)
  PROVE  IInv'
<1> USE LifecycleAssumption DEF IInv
<1>1. row \in Rows /\ vm.plan \in {Original, Parked} BY DEF TypeOK
<1>2. CASE SuspendDecides(w)
  <2>1. worker[w].pc = "deciding" /\ row.state # "deleted"
    BY <1>2 DEF SuspendDecides, At, HandlerKnows, Knows
  <2>2. CASE Entitled(row)
    <3>1. RowStep(w, row, "finished") BY <1>2, <2>2 DEF SuspendDecides
    <3> QED BY <1>1, <2>1, <3>1, WritesRow
            DEF Knows, Steps, PlanIsSaved, ServesOnItsPlan
  <2>3. CASE ~Entitled(row)
    <3>1. RowStep(w, WithPlan, "marking") BY <1>2, <2>3 DEF SuspendDecides
    <3> HIDE DEF IInv
    <3>2. Knows("marking", WithPlan, vm, now) BY <2>1, PlanKept DEF Knows
    <3>3. WithPlan.state \in Serving => vm = [power |-> "started", plan |-> Original]
      BY PlanKept DEF IInv, ServesOnItsPlan
    <3>4. "marking" \in Steps /\ worker[w].pc # "idle" BY <2>1 DEF Steps
    <3> QED BY <3>1, <3>2, <3>3, <3>4, PlanKept, WritesRow
  <2> QED BY <2>2, <2>3
<1>3. CASE MarksSuspended(w)
  <2> DEFINE t == [row EXCEPT !.state = "suspended",
                     !.deleteAfter = IF row.deleteAfter = Never THEN now + Retention
                                     ELSE row.deleteAfter]
  <2>1. worker[w].pc = "marking" /\ row.plan = Original
    BY <1>3 DEF MarksSuspended, At, HandlerKnows, Knows
  <2>2. now + Retention \in Stamp BY DEF TypeOK, Time, Stamp
  <2>3. /\ t \in Rows /\ t.state = "suspended" /\ t.plan = row.plan /\ t.paid = row.paid
    BY <1>1, <2>2 DEF Rows
  <2>4. RowStep(w, t, "stopping") BY <1>3 DEF MarksSuspended
  <2> HIDE DEF t
  <2>5. Knows("stopping", t, vm, now) BY <2>1, <2>3 DEF Knows
  <2>6. "stopping" \in Steps /\ worker[w].pc # "idle" BY <2>1 DEF Steps
  <2>7. t.state \notin Serving BY <2>3 DEF Serving
  <2> QED BY <2>1, <2>3, <2>4, <2>5, <2>6, <2>7, WritesRow
<1>4. CASE MarksResumed(w)
  <2> DEFINE t == [row EXCEPT !.state = "awaiting_setup", !.deleteAfter = Never,
                              !.plan = NoPlan]
  <2>1. /\ worker[w].pc = "resuming" /\ vm.plan = Original /\ vm.power = "started"
    BY <1>4 DEF MarksResumed, At, HandlerKnows, Knows
  <2>2. vm = [power |-> "started", plan |-> Original] BY <2>1 DEF TypeOK
  <2>3. t \in Rows /\ t.paid = row.paid BY <1>1 DEF Rows, Stamp, Serving
  <2>4. RowStep(w, t, "finished") BY <1>4 DEF MarksResumed
  <2> HIDE DEF t
  <2>5. Knows("finished", t, vm, now) BY DEF Knows
  <2>6. "finished" \in Steps /\ worker[w].pc # "idle" BY <2>1 DEF Steps
  <2>7. vm.plan # Parked BY <2>1
  <2> QED BY <2>2, <2>3, <2>4, <2>5, <2>6, <2>7, WritesRow
<1>5. CASE DeleteDecides(w)
  <2>1. worker[w].pc = "deciding" BY <1>5 DEF DeleteDecides, At
  <2>2. PICK pc \in {"condemning", "finished"} :
          /\ RowStep(w, row, pc)
          /\ pc = "condemning" => Deletable
    BY <1>5 DEF DeleteDecides
  <2>3. Knows(pc, row, vm, now) BY <2>2 DEF Knows, Deletable
  <2> QED BY <1>1, <2>1, <2>2, <2>3, WritesRow DEF Steps, PlanIsSaved, ServesOnItsPlan
<1>6. CASE MarksDeleting(w) \/ MarksDeleted(w)
  <2>1. PICK s \in {"deleting", "deleted"}, pc \in {"destroying", "finished"} :
          /\ RowStep(w, [row EXCEPT !.state = s], pc) /\ worker[w].pc # "idle"
          /\ pc = "destroying" => s = "deleting" /\ worker[w].pc = "condemning"
    BY <1>6 DEF MarksDeleting, MarksDeleted, At
  <2> DEFINE t == [row EXCEPT !.state = s]
  <2>2. /\ t \in Rows /\ t.state = s /\ t.plan = row.plan /\ t.paid = row.paid
        /\ t.deleteAfter = row.deleteAfter
    BY <1>1 DEF Rows
  <2>3. RowStep(w, t, pc) BY <2>1
  <2> HIDE DEF t
  <2>4. Knows(pc, t, vm, now) BY <2>1, <2>2 DEF Knows, HandlerKnows
  <2>5. t.state \notin Serving /\ pc \in Steps BY <2>2 DEF Serving, Steps
  <2>6. vm.plan = Parked => t.plan = Original BY <2>2 DEF PlanIsSaved
  <2> QED BY <2>1, <2>2, <2>3, <2>4, <2>5, <2>6, WritesRow
<1> QED BY <1>2, <1>3, <1>4, <1>5, <1>6

\* A resumption looks at the row and at the server, and leaves the row serving
\* for the end.
LEMMA ResumeDecidesStep ==
  ASSUME IInv, NEW w \in Workers, ResumeDecides(w)
  PROVE  IInv'
<1> USE LifecycleAssumption DEF IInv
<1>1. row \in Rows /\ vm.plan \in {Original, Parked} BY DEF TypeOK
<1>2. worker[w].pc = "deciding" /\ worker[w].pc # "idle" BY DEF ResumeDecides, At
<1>3. CASE RowStep(w, row, "finished")
  BY <1>1, <1>2, <1>3, WritesRow DEF Knows, Steps, PlanIsSaved, ServesOnItsPlan
<1>4. CASE Throw(w) /\ UNCHANGED <<now, stripe, row, vm, queue, sweep, faults>>
  BY <1>2, <1>4, Throws DEF TypeOK
<1>5. CASE row.state = "suspended"
           /\ RowStep(w, WithPlan,
                      IF vm.plan # WithPlan.plan THEN "unparking" ELSE "starting")
  <2>1. PICK pc \in {"unparking", "starting"} :
          /\ RowStep(w, WithPlan, pc)
          /\ pc = "starting" => vm.plan = WithPlan.plan
    BY <1>5
  <2>2. pc \in Steps BY DEF Steps
  <2>3. Knows(pc, WithPlan, vm, now)
    <3> HIDE DEF IInv
    <3> QED BY <1>5, <2>1, PlanKept DEF Knows
  <2>4. WithPlan.state \notin Serving
    <3> HIDE DEF IInv
    <3> QED BY <1>5, PlanKept DEF Serving
  <2> HIDE DEF IInv
  <2> QED BY <1>2, <2>1, <2>2, <2>3, <2>4, PlanKept, WritesRow
<1> QED BY <1>3, <1>4, <1>5 DEF ResumeDecides

\* The steps that ask the provider for something: none is for a server that
\* serves, and only a saved plan is left for the retention plan.
LEMMA ServerSteps ==
  ASSUME IInv, NEW w \in Workers,
         ParkStops(w) \/ ParkSwitches(w) \/ ResumeStops(w) \/ ResumeRestores(w)
         \/ ResumeStarts(w) \/ ResumeWakes(w) \/ DeleteDestroys(w)
  PROVE  IInv'
<1> USE LifecycleAssumption DEF IInv
<1> DEFINE V == [power : {"started", "stopping", "stopped", "starting", "destroyed"},
                 plan : {Original, Parked}]
<1>1. vm \in V BY DEF TypeOK
<1>2. UNCHANGED <<now, stripe, row, queue, sweep, faults>>
  BY DEF ParkStops, ParkSwitches, ResumeStops, ResumeRestores, ResumeStarts,
         ResumeWakes, DeleteDestroys
<1>3. /\ worker[w].pc # "idle" /\ Knows(worker[w].pc, row, vm, now)
      /\ row.state \notin Serving
  <2>1. worker[w].pc \in {"stopping", "switching", "unparking", "restoring",
                          "starting", "waking", "destroying"}
    BY DEF ParkStops, ParkSwitches, ResumeStops, ResumeRestores, ResumeStarts,
           ResumeWakes, DeleteDestroys, At
  <2>2. Knows(worker[w].pc, row, vm, now) BY DEF HandlerKnows
  <2>3. row.state \in {"suspended", "deleting"} BY <2>1, <2>2 DEF Knows
  <2> QED BY <2>1, <2>2, <2>3 DEF Serving
<1>4. ASSUME NEW v \in V, vm' = v, v.plan = vm.plan, Throw(w)
      PROVE  IInv'
  BY <1>2, <1>3, <1>4, Throws
<1>5. ASSUME NEW v \in V, vm' = v, NEW pc \in Steps, Goto(w, pc),
             v.plan = Parked => row.plan = Original, Knows(pc, row, v, now)
      PROVE  IInv'
  BY <1>2, <1>3, <1>5, ChangesServer
<1>6. ASSUME NEW next \in {"switching", "restoring"}, Stop(w, next),
             worker[w].pc \in {"stopping", "unparking"}
      PROVE  IInv'
  <2>1. Knows(next, row, vm, now) /\ next \in Steps BY <1>3, <1>6 DEF Knows, Steps
  <2>2. vm.plan = Parked => row.plan = Original BY DEF PlanIsSaved
  <2>3. CASE UNCHANGED vm /\ Goto(w, next) BY <1>1, <1>5, <2>1, <2>2, <2>3
  <2>4. CASE UNCHANGED vm /\ Throw(w) BY <1>1, <1>4, <2>4
  <2>5. CASE vm' = [vm EXCEPT !.power = "stopping"] /\ Goto(w, next)
    <3> DEFINE v == [vm EXCEPT !.power = "stopping"]
    <3>1. v \in V /\ v.plan = vm.plan /\ vm' = v BY <1>1, <2>5
    <3> HIDE DEF v
    <3>2. Knows(next, row, v, now) BY <2>1, <1>6 DEF Knows
    <3> QED BY <1>5, <2>1, <2>2, <2>5, <3>1, <3>2
  <2> QED BY <1>6, <2>3, <2>4, <2>5 DEF Stop
<1>7. ASSUME NEW plan \in {Original, Parked}, NEW next \in {"finished", "starting"},
             ChangePlan(w, plan, next),
             \/ worker[w].pc = "switching" /\ next = "finished"
             \/ worker[w].pc = "restoring" /\ plan = Original
      PROVE  IInv'
  <2>1. next \in Steps /\ row.plan = Original /\ row.state = "suspended"
    BY <1>3, <1>7 DEF Knows, Steps
  <2>2. CASE UNCHANGED vm /\ Throw(w) BY <1>1, <1>4, <2>2
  <2>3. CASE vm' = [vm EXCEPT !.plan = plan] /\ Goto(w, next)
    <3> DEFINE v == [vm EXCEPT !.plan = plan]
    <3>1. v \in V /\ v.plan = plan /\ vm' = v BY <1>1, <2>3
    <3> HIDE DEF v
    <3>2. Knows(next, row, v, now) BY <2>1, <3>1, <1>7 DEF Knows
    <3> QED BY <1>5, <2>1, <2>3, <3>1, <3>2
  <2> QED BY <1>7, <2>2, <2>3 DEF ChangePlan
<1>8. CASE ParkStops(w) \/ ResumeStops(w) BY <1>6, <1>8 DEF ParkStops, ResumeStops, At
<1>9. CASE ParkSwitches(w) BY <1>7, <1>9 DEF ParkSwitches, At
<1>10. CASE ResumeRestores(w)
  <2>1. worker[w].pc = "restoring" /\ ChangePlan(w, row.plan, "starting")
    BY <1>10 DEF ResumeRestores, At
  <2>2. row.plan = Original BY <1>3, <2>1 DEF Knows
  <2> QED BY <1>7, <2>1, <2>2
<1>11. CASE ResumeStarts(w) \/ ResumeWakes(w)
  <2>1. /\ vm.plan = Original /\ row.state = "suspended"
    BY <1>3, <1>11 DEF ResumeStarts, ResumeWakes, At, Knows
  <2>2. CASE UNCHANGED vm /\ Throw(w) BY <1>1, <1>4, <2>2
  <2>3. CASE UNCHANGED vm /\ Goto(w, "waking")
    <3>1. Knows("waking", row, vm, now) /\ "waking" \in Steps BY <2>1 DEF Knows, Steps
    <3> QED BY <1>1, <1>5, <2>1, <2>3, <3>1
  <2>4. CASE vm' = [vm EXCEPT !.power = "starting"] /\ Goto(w, "waking")
    <3> DEFINE v == [vm EXCEPT !.power = "starting"]
    <3>1. v \in V /\ v.plan = Original /\ vm' = v BY <1>1, <2>1, <2>4
    <3> HIDE DEF v
    <3>2. Knows("waking", row, v, now) /\ "waking" \in Steps
      BY <2>1, <3>1 DEF Knows, Steps
    <3> QED BY <1>5, <2>4, <3>1, <3>2
  <2>5. CASE UNCHANGED vm /\ Goto(w, "resuming") /\ vm.power = "started"
    <3>1. Knows("resuming", row, vm, now) /\ "resuming" \in Steps
      BY <2>1, <2>5 DEF Knows, Steps
    <3> QED BY <1>1, <1>5, <2>1, <2>5, <3>1
  <2> QED BY <1>11, <2>2, <2>3, <2>4, <2>5 DEF ResumeStarts, ResumeWakes
<1>12. CASE DeleteDestroys(w)
  <2>1. worker[w].pc = "destroying" /\ row.state = "deleting"
    BY <1>3, <1>12 DEF DeleteDestroys, At, Knows
  <2>2. PICK p \in {"destroyed", "stopping", vm.power} :
          /\ vm' = [vm EXCEPT !.power = p]
          /\ Goto(w, "erasing") \/ Throw(w)
    <3>1. vm = [vm EXCEPT !.power = vm.power] BY <1>1
    <3> QED BY <1>12, <3>1 DEF DeleteDestroys
  <2> DEFINE v == [vm EXCEPT !.power = p]
  <2>3. v \in V /\ v.plan = vm.plan /\ vm' = v BY <1>1, <2>2
  <2> HIDE DEF v
  <2>4. Knows("erasing", row, v, now) /\ "erasing" \in Steps BY <2>1 DEF Knows, Steps
  <2>5. v.plan = Parked => row.plan = Original BY <2>3 DEF PlanIsSaved
  <2> QED BY <1>4, <1>5, <2>2, <2>3, <2>4, <2>5
<1> QED BY <1>8, <1>9, <1>10, <1>11, <1>12

\* Every step keeps the invariant.
LEMMA NextIInv == IInv /\ [Next]_vars => IInv'
<1> SUFFICES ASSUME IInv, [Next]_vars PROVE IInv' OBVIOUS
<1>1. CASE Tick \/ Pays \/ RenewalFails \/ StripeGivesUp \/ Cancels BY <1>1, WorldStep
<1>2. CASE PowerSettles \/ SupportStarts BY <1>2, PowerStep
<1>3. CASE Sync \/ MaintenanceReads BY <1>3, ReconcilingStep
<1>4. CASE MaintenanceActs BY <1>4, ActingStep
<1>5. ASSUME NEW w \in Workers, HandlerStep(w) PROVE IInv'
  <2>1. CASE Syncs(w) BY <2>1, SyncStep
  <2>2. CASE Finishes(w) BY <2>2, EndStep
  <2>3. CASE ResumeDecides(w) BY <2>3, ResumeDecidesStep
  <2>4. CASE \/ SuspendDecides(w) \/ MarksSuspended(w) \/ MarksResumed(w)
             \/ DeleteDecides(w) \/ MarksDeleting(w) \/ MarksDeleted(w)
    BY <2>4, WritingSteps
  <2>5. CASE \/ ParkStops(w) \/ ParkSwitches(w) \/ ResumeStops(w) \/ ResumeRestores(w)
             \/ ResumeStarts(w) \/ ResumeWakes(w) \/ DeleteDestroys(w)
    BY <2>5, ServerSteps
  <2> QED BY <1>5, <2>1, <2>2, <2>3, <2>4, <2>5 DEF HandlerStep
<1>6. ASSUME NEW w \in Workers, Fails(w) PROVE IInv' BY <1>6, EndStep
<1>7. ASSUME NEW w \in Workers, NEW k \in keys, Begin(w, k) PROVE IInv'
  BY <1>7, BeginStep
<1>8. CASE UNCHANGED vars
  <2>1. UNCHANGED <<now, stripe, row, vm, keys, done, worker, lock, sweep, faults>>
    BY <1>8 DEF vars, queue
  <2> QED BY <2>1 DEF IInv, TypeOK, Locked, HandlerKnows, Knows, StampsKnown,
                     PlanIsSaved, ServesOnItsPlan
<1> QED BY <1>1, <1>2, <1>3, <1>4, <1>5, <1>6, <1>7, <1>8 DEF Next

-----------------------------------------------------------------------------
\* The inductive invariant of the tenant's lifecycle: whoever is in a handler
\* holds the advisory lock, and what it has decided on stays true until it is done.
THEOREM LifecycleInvariant == Spec => []IInv
  BY InitIInv, NextIInv, PTL DEF Spec

\* The row, the server, the jobs and the handlers stay what the types say.
THEOREM LifecycleTypeOK == Spec => []TypeOK
<1>1. IInv => TypeOK BY DEF IInv
<1> QED BY <1>1, LifecycleInvariant, PTL

\* A server on the retention plan has its original plan saved, however often the
\* handlers are interrupted (worker.ts suspend).
THEOREM LifecyclePlanIsSaved == Spec => []PlanIsSaved
<1>1. IInv => PlanIsSaved BY DEF IInv
<1> QED BY <1>1, LifecycleInvariant, PTL

\* A tenant shown as serving runs, on the plan it pays for (worker.ts resume).
THEOREM LifecycleServesOnItsPlan == Spec => []ServesOnItsPlan
<1>1. IInv => ServesOnItsPlan BY DEF IInv
<1> QED BY <1>1, LifecycleInvariant, PTL

\* No handler takes the server down while another brings it up, as both would
\* hold the one lock (worker.ts handle).
THEOREM LifecycleNoRace == Spec => []NoRace
<1>1. IInv => NoRace
  <2> SUFFICES ASSUME IInv, NEW w1 \in Workers, NEW w2 \in Workers,
                      TakesDown(w1), BringsUp(w2)
               PROVE  FALSE
    BY DEF NoRace
  <2>1. worker[w1].pc # "idle" /\ worker[w2].pc # "idle" BY DEF TakesDown, BringsUp
  <2>2. w1 = w2 BY <2>1 DEF IInv, Locked
  <2> QED BY <2>2 DEF TakesDown, BringsUp
<1> QED BY <1>1, LifecycleInvariant, PTL

\* A retention's deadline stands until the tenant serves again, the server is
\* destroyed only after it, and a deleted tenant stays deleted (worker.ts suspend,
\* resume, deleteTenant).
THEOREM LifecycleRetentionKept == Spec => RetentionKept
<1>1. IInv /\ [Next]_vars => [KeepsRetention]_vars
  <2> SUFFICES ASSUME IInv, Next PROVE KeepsRetention
    <3>1. UNCHANGED vars => UNCHANGED vars OBVIOUS
    <3> QED BY <3>1
  <2> USE DEF KeepsRetention
  <2>1. CASE UNCHANGED <<row, vm>> BY <2>1
  <2>2. ASSUME Reconcile, UNCHANGED vm PROVE KeepsRetention
    <3>1. row'.deleteAfter = row.deleteAfter /\ row'.state = row.state
      BY <2>2, Reconciles
    <3> QED BY <2>2, <3>1
  <2>3. CASE MaintenanceActs
    <3>1. \/ row' = row
          \/ row.state = "awaiting_setup" /\ row' = [row EXCEPT !.state = "ready"]
      BY <2>3 DEF MaintenanceActs
    <3>2. row'.deleteAfter = row.deleteAfter BY <3>1 DEF IInv, TypeOK, Rows
    <3>3. row.state = "deleted" => row'.state = "deleted" BY <3>1
    <3> QED BY <2>3, <3>2, <3>3 DEF MaintenanceActs
  <2>4. CASE PowerSettles BY <2>4 DEF PowerSettles, IInv, TypeOK
  <2>5. CASE SupportStarts BY <2>5 DEF SupportStarts, IInv, TypeOK
  <2>6. ASSUME NEW w \in Workers, HandlerStep(w) PROVE KeepsRetention
    <3>1. Knows(worker[w].pc, row, vm, now) BY DEF IInv, HandlerKnows
    <3>2. CASE Syncs(w) BY <2>2, <3>2 DEF Syncs
    <3>3. ASSUME NEW t \in Rows, NEW pc \in Steps, RowStep(w, t, pc),
                 t.deleteAfter = row.deleteAfter,
                 row.state = "deleted" => t.state = "deleted"
          PROVE  KeepsRetention
      BY <3>3 DEF RowStep
    <3>4. row \in Rows BY DEF IInv, TypeOK
    <3>5. CASE SuspendDecides(w) \/ ResumeDecides(w)
      <4>1. WithPlan \in Rows /\ WithPlan.deleteAfter = row.deleteAfter
            /\ WithPlan.state = row.state
        BY PlanKept
      <4> QED BY <3>3, <3>4, <3>5, <4>1, <2>1 DEF SuspendDecides, ResumeDecides, Steps
    <3>6. CASE MarksSuspended(w)
      <4>1. row.state # "deleted" /\ UNCHANGED vm
        BY <3>1, <3>6 DEF MarksSuspended, At, Knows, RowStep
      <4>2. row.deleteAfter # Never => row'.deleteAfter = row.deleteAfter
        BY <3>4, <3>6 DEF MarksSuspended, RowStep, Rows
      <4> QED BY <4>1, <4>2
    <3>7. CASE MarksResumed(w)
      <4>1. row.state = "suspended" /\ UNCHANGED vm
        BY <3>1, <3>7 DEF MarksResumed, At, Knows, RowStep
      <4>2. row'.state = "awaiting_setup" BY <3>4, <3>7 DEF MarksResumed, RowStep, Rows
      <4> QED BY <4>1, <4>2
    <3>8. CASE DeleteDecides(w) \/ MarksDeleting(w) \/ MarksDeleted(w)
      <4>1. row.state = "deleted" => ~MarksDeleting(w)
        BY <3>1 DEF MarksDeleting, At, Knows
      <4>2. row'.deleteAfter = row.deleteAfter /\ UNCHANGED vm
        BY <3>4, <3>8 DEF DeleteDecides, MarksDeleting, MarksDeleted, RowStep, Rows
      <4>3. row.state = "deleted" => row'.state = "deleted"
        BY <3>4, <3>8, <4>1 DEF DeleteDecides, MarksDeleted, RowStep, Rows
      <4> QED BY <4>2, <4>3
    <3>9. CASE DeleteDestroys(w)
      <4>1. row.state = "deleting" /\ row.deleteAfter # Never /\ row.deleteAfter <= now
        BY <3>1, <3>9 DEF DeleteDestroys, At, Knows
      <4> QED BY <3>9, <4>1 DEF DeleteDestroys
    <3>10. CASE \/ ParkStops(w) \/ ParkSwitches(w) \/ ResumeStops(w)
                \/ ResumeRestores(w) \/ ResumeStarts(w) \/ ResumeWakes(w)
      <4>1. row' = row
        BY <3>10 DEF ParkStops, ParkSwitches, ResumeStops, ResumeRestores,
                     ResumeStarts, ResumeWakes
      <4>2. PICK p \in {Original, Parked, vm.plan}, q \in {"stopping", "starting", vm.power} :
              vm' = [vm EXCEPT !.power = q, !.plan = p]
        <5>1. vm = [vm EXCEPT !.power = vm.power, !.plan = vm.plan]
          BY DEF IInv, TypeOK
        <5>2. CASE UNCHANGED vm BY <5>1, <5>2
        <5>3. CASE \E q \in {"stopping", "starting"} : vm' = [vm EXCEPT !.power = q]
          <6>1. PICK q \in {"stopping", "starting"} : vm' = [vm EXCEPT !.power = q]
            BY <5>3
          <6>2. [vm EXCEPT !.power = q] = [vm EXCEPT !.power = q, !.plan = vm.plan]
            BY DEF IInv, TypeOK
          <6> QED BY <6>1, <6>2
        <5>4. CASE \E p \in {Original, Parked} : vm' = [vm EXCEPT !.plan = p]
          <6>1. PICK p \in {Original, Parked} : vm' = [vm EXCEPT !.plan = p]
            BY <5>4
          <6>2. [vm EXCEPT !.plan = p] = [vm EXCEPT !.power = vm.power, !.plan = p]
            BY DEF IInv, TypeOK
          <6> QED BY <6>1, <6>2
        <5>5. row.plan = Original \/ worker[w].pc # "restoring" BY <3>1 DEF Knows
        <5> QED BY <3>10, <5>2, <5>3, <5>4, <5>5
                DEF ParkStops, ParkSwitches, ResumeStops, ResumeRestores,
                    ResumeStarts, ResumeWakes, Stop, ChangePlan, At
      <4>3. vm'.power = q BY <4>2 DEF IInv, TypeOK
      <4> QED BY <4>1, <4>3
    <3>11. CASE Finishes(w) BY <2>1, <3>11 DEF Finishes
    <3> QED BY <2>6, <3>2, <3>5, <3>6, <3>7, <3>8, <3>9, <3>10, <3>11 DEF HandlerStep
  <2>7. ASSUME NEW w \in Workers, Fails(w) \/ \E k \in keys : Begin(w, k)
        PROVE  KeepsRetention
    BY <2>1, <2>7 DEF Fails, Begin
  <2>8. CASE Tick \/ Pays \/ RenewalFails \/ StripeGivesUp \/ Cancels
    BY <2>1, <2>8 DEF Tick, Pays, RenewalFails, StripeGivesUp, Cancels, StripeMoves
  <2>9. CASE Sync \/ MaintenanceReads BY <2>2, <2>9 DEF Sync, MaintenanceReads
  <2> QED BY <2>3, <2>4, <2>5, <2>6, <2>7, <2>8, <2>9 DEF Next
<1> QED BY <1>1, LifecycleInvariant, PTL DEF Spec, RetentionKept
================================================================================
