------------------------------- MODULE Lifecycle -------------------------------
(***************************************************************************)
(* One hosted tenant from the end of its provisioning to its deletion:     *)
(* what Stripe says of its subscription, the row the control service keeps *)
(* of it, its VM at the provider, the lifecycle jobs, the handlers that    *)
(* run them step by step (src/src/worker.ts lifecycle, upcloud.ts) and the *)
(* maintenance loop that queues them. A try of a job that finds the tenant *)
(* locked, and a call that fails, leave the job to be tried again: the     *)
(* attempt limit is in JobQueue. Agent calls and backups made on the way   *)
(* down change nothing here: their failures are recorded and passed over.  *)
(***************************************************************************)
EXTENDS Naturals

CONSTANTS
  Workers, NoWorker,
  PeriodEnds,          \* when the hosting periods end, the first one paid
  Grace, Retention,    \* 7 and 30 days, in the unit of the clock
  Original, Parked,    \* provider plans
  NoPlan,
  Never,               \* a timestamp column that is null
  MaxNow, MaxFaults    \* bounds: the clock; calls and processes that fail, boots by hand

ASSUME LifecycleAssumption ==
  /\ NoWorker \notin Workers
  /\ PeriodEnds \subseteq Nat \ {0}
  /\ \E p \in PeriodEnds : \A q \in PeriodEnds : p <= q
  /\ Grace \in Nat /\ Retention \in Nat
  /\ Original # Parked /\ NoPlan \notin {Original, Parked}
  /\ Never = 0
  /\ MaxNow \in Nat /\ MaxFaults \in Nat

VARIABLES
  now,
  stripe,    \* the subscription at Stripe and the last period paid
  row,       \* table tenants
  vm,        \* the server at the provider
  keys,      \* keys of table jobs
  done,      \* those with done_at
  worker,    \* what each process does
  lock,      \* holder of the tenant's advisory lock
  sweep,     \* what the maintenance loop is about to do with what it has read
  faults

queue == <<keys, done>>
vars == <<now, stripe, row, vm, keys, done, worker, lock, sweep, faults>>

FirstEnd == CHOOSE p \in PeriodEnds : \A q \in PeriodEnds : p <= q

Time == 0 .. MaxNow
Stamp == Nat
Serving == {"awaiting_setup", "ready"}

\* Kind, and the period paid that makes the key unique. The key of a parking
\* job names the day: the unit of the clock being longer than a day, there is
\* always a new one, and those still queued are as good as one.
Suspend(p) == <<"suspend", p>>
Park       == <<"park", 0>>
Resume(p)  == <<"resume", p>>
Delete     == <<"delete", 0>>

Keys == ({"suspend", "resume"} \X (PeriodEnds \cup Time))
          \cup {Park, Delete}

Rows == [state : Serving \cup {"suspended", "deleting", "deleted"},
         paid : Stamp, grace : Stamp, deleteAfter : Stamp,
         plan : {NoPlan, Original}]

Steps == {"idle", "syncing", "deciding", "marking", "stopping", "switching",
          "unparking", "restoring", "starting", "waking", "resuming",
          "condemning", "destroying", "erasing", "finished"}

Idle == [pc |-> "idle", job |-> Delete]
Resting == [queues |-> {}, setup |-> FALSE]

TypeOK ==
  /\ now \in Time
  /\ stripe \in [status : {"active", "past_due", "unpaid", "canceled"},
                 paid : PeriodEnds, ended : Stamp]
  /\ row \in Rows
  /\ vm \in [power : {"started", "stopping", "stopped", "starting", "destroyed"},
             plan : {Original, Parked}]
  /\ keys \subseteq Keys
  /\ done \subseteq keys
  /\ worker \in [Workers -> [pc : Steps, job : {Delete} \cup keys]]
  /\ lock \in Workers \cup {NoWorker}
  /\ sweep \in [queues : SUBSET Keys, setup : BOOLEAN]
  /\ faults \in 0 .. MaxFaults

Init ==
  /\ now = 0
  /\ stripe = [status |-> "active", paid |-> FirstEnd, ended |-> Never]
  /\ row = [state |-> "awaiting_setup", paid |-> FirstEnd, grace |-> Never,
            deleteAfter |-> Never, plan |-> NoPlan]
  /\ vm = [power |-> "started", plan |-> Original]
  /\ keys = {} /\ done = {}
  /\ worker = [w \in Workers |-> Idle]
  /\ lock = NoWorker
  /\ sweep = Resting
  /\ faults = 0

-----------------------------------------------------------------------------
(* The clock, Stripe and the provider *)

Tick ==
  /\ now < MaxNow
  /\ now' = now + 1
  /\ UNCHANGED <<stripe, row, vm, queue, worker, lock, sweep, faults>>

StripeMoves(s) ==
  /\ stripe' = s
  /\ UNCHANGED <<now, row, vm, queue, worker, lock, sweep, faults>>

\* A later period is paid, when it begins or after failed tries.
Pays ==
  /\ stripe.status # "canceled" /\ stripe.paid <= now
  /\ \E p \in PeriodEnds : /\ p > stripe.paid
                           /\ StripeMoves([stripe EXCEPT !.status = "active", !.paid = p])

RenewalFails ==
  /\ stripe.status = "active" /\ stripe.paid <= now
  /\ StripeMoves([stripe EXCEPT !.status = "past_due"])

StripeGivesUp ==
  /\ stripe.status = "past_due"
  /\ StripeMoves([stripe EXCEPT !.status = "unpaid"])

\* Before the end of the period, or at it, or after (which is all one).
Cancels ==
  /\ stripe.status # "canceled"
  /\ StripeMoves([stripe EXCEPT !.status = "canceled",
                                !.ended = IF now < stripe.paid THEN now ELSE stripe.paid])

\* A power change that was asked for ends.
PowerSettles ==
  /\ vm.power \in {"stopping", "starting"}
  /\ vm' = [vm EXCEPT !.power = IF @ = "stopping" THEN "stopped" ELSE "started"]
  /\ UNCHANGED <<now, stripe, row, queue, worker, lock, sweep, faults>>

\* Support boots a parked server, for a while, to recover its owner's data.
SupportStarts ==
  /\ row.state = "suspended" /\ vm = [power |-> "stopped", plan |-> Parked]
  /\ faults < MaxFaults
  /\ faults' = faults + 1
  /\ vm' = [vm EXCEPT !.power = "starting"]
  /\ UNCHANGED <<now, stripe, row, queue, worker, lock, sweep>>

-----------------------------------------------------------------------------
(* Billing: reconcileSubscription, one at a time by its advisory lock *)

PaidUntil ==
  IF stripe.status = "canceled" /\ stripe.ended < stripe.paid
  THEN stripe.ended ELSE stripe.paid

GraceUntil == IF stripe.status = "past_due" THEN PaidUntil + Grace ELSE Never

Entitled(t) == t.paid > now \/ t.grace > now

\* Mutant: a grace period does not resume.
ReconcilePaid ==
  /\ row' = [row EXCEPT !.paid = PaidUntil, !.grace = GraceUntil]
  /\ keys' = IF row.state = "suspended" /\ PaidUntil > now
             THEN keys \cup {Resume(PaidUntil)} ELSE keys
  /\ UNCHANGED done

\* The row follows Stripe; a suspended tenant that is entitled gets a resume
\* job, one for each period. (Before the VM exists it is a provision job.)
Reconcile ==
  /\ row' = [row EXCEPT !.paid = PaidUntil, !.grace = GraceUntil]
  /\ keys' = IF row.state = "suspended" /\ Entitled(row')
             THEN keys \cup {Resume(PaidUntil)} ELSE keys
  /\ UNCHANGED done

\* A webhook's job, or the portal after a cancellation.
Sync ==
  /\ Reconcile
  /\ UNCHANGED <<now, stripe, vm, worker, lock, sweep, faults>>

-----------------------------------------------------------------------------
(* Maintenance *)

\* Mutant: a tenant that was never set up is not suspended.
MaintenanceQueuesReady(t) ==
  {k \in {Suspend(t.paid), Park, Delete} :
     \/ k = Suspend(t.paid) /\ t.state = "ready" /\ ~Entitled(t)
     \/ k = Park /\ t.state = "suspended" /\ ~Entitled(t)
     \/ /\ k = Delete /\ t.state \in {"suspended", "deleting"}
        /\ t.deleteAfter # Never /\ t.deleteAfter <= now}

\* What it queues for the row it has read.
MaintenanceQueues(t) ==
  {k \in {Suspend(t.paid), Park, Delete} :
     \/ k = Suspend(t.paid) /\ t.state \in Serving /\ ~Entitled(t)
     \/ k = Park /\ t.state = "suspended" /\ ~Entitled(t)
     \/ /\ k = Delete /\ t.state \in {"suspended", "deleting"}
        /\ t.deleteAfter # Never /\ t.deleteAfter <= now}

MaintenanceReads ==
  /\ sweep = Resting /\ row.state # "deleted"
  /\ Reconcile
  /\ sweep' = [queues |-> MaintenanceQueues(row'),
               setup |-> row.state = "awaiting_setup"]
  /\ UNCHANGED <<now, stripe, vm, worker, lock, faults>>

\* It does not look again; the agent may answer that its owner has set it up.
MaintenanceActs ==
  /\ sweep # Resting
  /\ keys' = keys \cup sweep.queues
  /\ done' = done \ (sweep.queues \cap {Park})
  /\ \/ row' = row
     \/ /\ sweep.setup /\ vm.power = "started" /\ row.state = "awaiting_setup"
        /\ row' = [row EXCEPT !.state = "ready"]
  /\ sweep' = Resting
  /\ UNCHANGED <<now, stripe, vm, worker, lock, faults>>

-----------------------------------------------------------------------------
(* Handlers, under the tenant's lock *)

At(w, pc, kinds) == worker[w].pc = pc /\ worker[w].job[1] \in kinds

Goto(w, pc) == worker' = [worker EXCEPT ![w].pc = pc] /\ UNCHANGED lock

\* An exception: the job stays queued.
Throw(w) == worker' = [worker EXCEPT ![w] = Idle] /\ lock' = NoWorker

\* Mutant: the advisory lock is not tried.
BeginUnlocked(w, k) ==
  /\ worker[w].pc = "idle" /\ k \in keys \ done
  /\ lock' = w
  /\ worker' = [worker EXCEPT ![w] =
       [job |-> k,
        pc |-> IF row.state = "deleted" THEN "finished"
               ELSE IF k[1] = "resume" THEN "deciding" ELSE "syncing"]]
  /\ UNCHANGED <<now, stripe, row, vm, queue, sweep, faults>>

Begin(w, k) ==
  /\ worker[w].pc = "idle" /\ k \in keys \ done
  /\ lock = NoWorker
  /\ lock' = w
  /\ worker' = [worker EXCEPT ![w] =
       [job |-> k,
        pc |-> IF row.state = "deleted" THEN "finished"
               ELSE IF k[1] = "resume" THEN "deciding" ELSE "syncing"]]
  /\ UNCHANGED <<now, stripe, row, vm, queue, sweep, faults>>

Syncs(w) ==
  /\ At(w, "syncing", {"suspend", "park", "delete"})
  /\ Reconcile
  /\ Goto(w, "deciding")
  /\ UNCHANGED <<now, stripe, vm, sweep, faults>>

Finishes(w) ==
  /\ worker[w].pc = "finished"
  /\ done' = done \cup {worker[w].job}
  /\ worker' = [worker EXCEPT ![w] = Idle]
  /\ lock' = NoWorker
  /\ UNCHANGED <<now, stripe, row, vm, keys, sweep, faults>>

\* The process dies or a call fails between two steps, or its lease was taken
\* before it marks the job done.
Fails(w) ==
  /\ worker[w].pc # "idle" /\ faults < MaxFaults
  /\ faults' = faults + 1
  /\ Throw(w)
  /\ UNCHANGED <<now, stripe, row, vm, queue, sweep>>

RowStep(w, t, pc) ==
  /\ row' = t
  /\ Goto(w, pc)
  /\ UNCHANGED <<now, stripe, vm, queue, sweep, faults>>

\* details(id).plan, kept once
WithPlan == [row EXCEPT !.plan = IF @ = NoPlan THEN vm.plan ELSE @]

(* suspend, and park: the same handler *)

\* Mutant: the plan is not saved.
SuspendForgets(w) ==
  /\ At(w, "deciding", {"suspend", "park"})
  /\ RowStep(w, row, IF Entitled(row) THEN "finished" ELSE "marking")

SuspendDecides(w) ==
  /\ At(w, "deciding", {"suspend", "park"})
  /\ IF Entitled(row) THEN RowStep(w, row, "finished")
                      ELSE RowStep(w, WithPlan, "marking")

\* Mutant: every run of the handler sets the deadline.
MarksSuspendedAfresh(w) ==
  /\ At(w, "marking", {"suspend", "park"})
  /\ RowStep(w, [row EXCEPT !.state = "suspended", !.deleteAfter = now + Retention],
             "stopping")

MarksSuspended(w) ==
  /\ At(w, "marking", {"suspend", "park"})
  /\ RowStep(w, [row EXCEPT !.state = "suspended",
                   !.deleteAfter = IF @ = Never THEN now + Retention ELSE @],
             "stopping")

\* UpCloud.stop, then what needs it stopped.
Stop(w, next) ==
  \/ /\ vm.power = "stopped" /\ UNCHANGED vm /\ Goto(w, next)
  \/ /\ vm.power = "started" /\ vm' = [vm EXCEPT !.power = "stopping"]
     /\ Goto(w, next)
  \/ /\ vm.power \notin {"started", "stopped"} /\ UNCHANGED vm /\ Throw(w)

\* UpCloud.changeStoppedPlan
ChangePlan(w, plan, next) ==
  \/ /\ vm.power = "stopped" /\ vm' = [vm EXCEPT !.plan = plan]
     /\ Goto(w, next)
  \/ /\ vm.power # "stopped" /\ UNCHANGED vm /\ Throw(w)

ParkStops(w) ==
  /\ At(w, "stopping", {"suspend", "park"})
  /\ Stop(w, "switching")
  /\ UNCHANGED <<now, stripe, row, queue, sweep, faults>>

ParkSwitches(w) ==
  /\ At(w, "switching", {"suspend", "park"})
  /\ ChangePlan(w, Parked, "finished")
  /\ UNCHANGED <<now, stripe, row, queue, sweep, faults>>

(* resume *)

ResumeDecides(w) ==
  /\ At(w, "deciding", {"resume"})
  /\ \/ /\ row.state # "suspended" \/ ~Entitled(row)
        /\ RowStep(w, row, "finished")
     \/ /\ row.state = "suspended" /\ Entitled(row)
        /\ vm.power = "destroyed"
        /\ Throw(w)
        /\ UNCHANGED <<now, stripe, row, vm, queue, sweep, faults>>
     \/ /\ row.state = "suspended" /\ Entitled(row)
        /\ vm.power # "destroyed"
        /\ RowStep(w, WithPlan,
                   IF vm.plan # WithPlan.plan THEN "unparking" ELSE "starting")

ResumeStops(w) ==
  /\ At(w, "unparking", {"resume"})
  /\ Stop(w, "restoring")
  /\ UNCHANGED <<now, stripe, row, queue, sweep, faults>>

ResumeRestores(w) ==
  /\ At(w, "restoring", {"resume"})
  /\ ChangePlan(w, row.plan, "starting")
  /\ UNCHANGED <<now, stripe, row, queue, sweep, faults>>

ResumeStarts(w) ==
  /\ At(w, "starting", {"resume"})
  /\ \/ /\ vm.power = "started" /\ UNCHANGED vm /\ Goto(w, "waking")
     \/ /\ vm.power = "stopped" /\ vm' = [vm EXCEPT !.power = "starting"]
        /\ Goto(w, "waking")
     \/ /\ vm.power \notin {"started", "stopped"} /\ UNCHANGED vm /\ Throw(w)
  /\ UNCHANGED <<now, stripe, row, queue, sweep, faults>>

\* Mutant: the agent's answer is not awaited.
ResumeWakesBlindly(w) ==
  /\ At(w, "waking", {"resume"})
  /\ Goto(w, "resuming")
  /\ UNCHANGED <<now, stripe, row, vm, queue, sweep, faults>>

\* The agent is told to resume: it answers once its server is up.
ResumeWakes(w) ==
  /\ At(w, "waking", {"resume"})
  /\ IF vm.power = "started" THEN Goto(w, "resuming") ELSE Throw(w)
  /\ UNCHANGED <<now, stripe, row, vm, queue, sweep, faults>>

MarksResumed(w) ==
  /\ At(w, "resuming", {"resume"})
  /\ RowStep(w, [row EXCEPT !.state = "awaiting_setup", !.deleteAfter = Never,
                            !.plan = NoPlan], "finished")

(* delete *)

\* Mutant: the deadline that queued the job is not looked at again.
DeletableQueued == row.state \in {"suspended", "deleting"} /\ ~Entitled(row)

Deletable ==
  /\ row.deleteAfter # Never /\ row.deleteAfter <= now
  /\ row.state \in {"suspended", "deleting"}
  /\ ~Entitled(row)

DeleteDecides(w) ==
  /\ At(w, "deciding", {"delete"})
  /\ RowStep(w, row, IF Deletable THEN "condemning" ELSE "finished")

MarksDeleting(w) ==
  /\ At(w, "condemning", {"delete"})
  /\ RowStep(w, [row EXCEPT !.state = "deleting"], "destroying")

\* Mutant: a server that is gone already is an error.
DeleteDestroysOnce(w) ==
  /\ At(w, "destroying", {"delete"})
  /\ \/ /\ vm.power = "stopped"
        /\ vm' = [vm EXCEPT !.power = "destroyed"] /\ Goto(w, "erasing")
     \/ /\ vm.power = "started"
        /\ vm' = [vm EXCEPT !.power = "stopping"] /\ Throw(w)
     \/ /\ vm.power \notin {"started", "stopped"} /\ UNCHANGED vm /\ Throw(w)
  /\ UNCHANGED <<now, stripe, row, queue, sweep, faults>>

\* UpCloud.destroy: a server that is not stopped is asked to stop, and the
\* deletion tried again; one that is gone is skipped.
DeleteDestroys(w) ==
  /\ At(w, "destroying", {"delete"})
  /\ \/ /\ vm.power \in {"stopped", "destroyed"}
        /\ vm' = [vm EXCEPT !.power = "destroyed"] /\ Goto(w, "erasing")
     \/ /\ vm.power = "started"
        /\ vm' = [vm EXCEPT !.power = "stopping"] /\ Throw(w)
     \/ /\ vm.power \in {"stopping", "starting"} /\ UNCHANGED vm /\ Throw(w)
  /\ UNCHANGED <<now, stripe, row, queue, sweep, faults>>

\* Disks, DNS record and backups go, then the row's secrets.
MarksDeleted(w) ==
  /\ At(w, "erasing", {"delete"})
  /\ RowStep(w, [row EXCEPT !.state = "deleted"], "finished")

HandlerStep(w) ==
  \/ Syncs(w) \/ Finishes(w)
  \/ SuspendDecides(w) \/ MarksSuspended(w) \/ ParkStops(w) \/ ParkSwitches(w)
  \/ ResumeDecides(w) \/ ResumeStops(w) \/ ResumeRestores(w)
  \/ ResumeStarts(w) \/ ResumeWakes(w) \/ MarksResumed(w)
  \/ DeleteDecides(w) \/ MarksDeleting(w) \/ DeleteDestroys(w) \/ MarksDeleted(w)

-----------------------------------------------------------------------------
Next ==
  \/ Tick \/ Pays \/ RenewalFails \/ StripeGivesUp \/ Cancels
  \/ PowerSettles \/ SupportStarts
  \/ Sync \/ MaintenanceReads \/ MaintenanceActs
  \/ \E w \in Workers :
       HandlerStep(w) \/ Fails(w) \/ \E k \in keys : Begin(w, k)

\* Handlers run on, maintenance comes round every five minutes and the provider
\* ends what it began. The queue serves the job that waits longest and each one
\* that fails backs off, so every kind of job has its turn. What Stripe and the
\* customer do is up to them.
Fairness ==
  /\ WF_vars(Tick) /\ WF_vars(PowerSettles)
  /\ WF_vars(MaintenanceReads) /\ WF_vars(MaintenanceActs)
  /\ \A w \in Workers : WF_vars(HandlerStep(w))
  /\ \A kind \in {"suspend", "park", "resume", "delete"} :
       SF_vars(\E w \in Workers, k \in keys : k[1] = kind /\ Begin(w, k))

Spec == Init /\ [][Next]_vars /\ Fairness

-----------------------------------------------------------------------------
\* The original plan is never lost: a server on the retention plan has it saved,
\* whatever handler was interrupted ("Retries preserve the original plan",
\* docs/OPERATIONS.md).
PlanIsSaved == vm.plan = Parked => row.plan = Original

\* A tenant shown as serving has its server running on the plan it pays for.
ServesOnItsPlan ==
  row.state \in Serving => vm = [power |-> "started", plan |-> Original]

\* "Never race a resume against a stop" (worker.ts handle): no server is powered
\* on or moved to its plan while a handler takes it down, or the reverse.
TakesDown(w) == worker[w].pc \in {"stopping", "switching", "destroying", "erasing"}
BringsUp(w) ==
  worker[w].pc \in {"unparking", "restoring", "starting", "waking", "resuming"}

NoRace == \A w1, w2 \in Workers : ~(TakesDown(w1) /\ BringsUp(w2))

\* "The disk and IP are retained" at suspension (docs/OPERATIONS.md): a tenant
\* shown as suspended, which renewal brings back, has its server.
SuspendedKeepsServer == row.state = "suspended" => vm.power # "destroyed"

\* What a step leaves alone of a retention.
KeepsRetention ==
  /\ row.deleteAfter # Never /\ row'.deleteAfter # row.deleteAfter
       => row.state = "suspended" /\ row'.state = "awaiting_setup"
  /\ vm.power # "destroyed" /\ vm'.power = "destroyed"
       => row.state = "deleting" /\ row.deleteAfter # Never /\ row.deleteAfter <= now
  /\ row.state = "deleted" => row'.state = "deleted"

\* A retention, once begun, is kept: retries and daily parking leave its
\* deadline alone and only a resumption ends it; the server is destroyed only
\* once the deadline has passed and the row is marked for deletion; and no job
\* that was waiting brings a deleted tenant back.
RetentionKept == [][KeepsRetention]_vars

Subscribed == PaidUntil > now \/ GraceUntil > now

Down == row.state = "deleted" \/ vm = [power |-> "stopped", plan |-> Parked]

\* A tenant that is not paid for any more is parked, or deleted, or paid again:
\* "Subscription cancellation ends at the paid period boundary. A failed renewal
\* has a seven-day grace period" (docs/OPERATIONS.md).
UnpaidIsParked ==
  row.state \in Serving /\ ~Subscribed ~> (Down \/ vm.power = "destroyed" \/ Subscribed)

\* What the code does promise: the first time a period lapses, a tenant that is
\* not paid for is taken down.
FirstLapseParks ==
  row.state \in Serving /\ ~Subscribed /\ Suspend(PaidUntil) \notin keys
    ~> (Down \/ vm.power = "destroyed" \/ Subscribed)

\* "After payment recovery, the worker restores the saved plan before starting
\* the same VM and resuming the agent" (docs/OPERATIONS.md): the first time a
\* period makes a suspended tenant with a server entitled again.
FirstRecoveryServes ==
  (row.state = "suspended" /\ vm.power # "destroyed"
     /\ Subscribed /\ Resume(PaidUntil) \notin keys)
    ~> (row.state \in Serving \cup {"deleting", "deleted"} \/ ~Subscribed)

Expired ==
  /\ row.state \in {"suspended", "deleting"} /\ ~Subscribed
  /\ row.deleteAfter # Never /\ row.deleteAfter <= now

\* A run of the deletion job that found nothing to delete.
Dismissed == \E w \in Workers : At(w, "finished", {"delete"})

\* "At retention expiry deletion removes the VM, recorded disks, DNS record, and
\* backup objects" (docs/OPERATIONS.md): the first time a retention expires, if
\* its job was not dismissed because a payment had come before it.
FirstRetentionEnds ==
  Expired /\ ~Entitled(row) /\ Delete \notin done /\ ~Dismissed
    ~> (row.state \in Serving \cup {"deleted"} \/ Subscribed)
=============================================================================
