------------------------------- MODULE JobQueue -------------------------------
(***************************************************************************)
(* The durable job queue of the worker (src/src/worker.ts tick, db.ts      *)
(* enqueue): jobs are claimed under a lease with a token, retried with a   *)
(* backoff up to an attempt limit, and reported to the operator when they  *)
(* keep failing. Any number of worker processes; a handler is a black box  *)
(* that returns or throws. An operator may requeue a provision job         *)
(* (scripts/retry-provision.ts) at any moment. Between two jobs a process  *)
(* may have to do its maintenance, and does not look for a job before that *)
(* has succeeded (worker-main.ts).                                         *)
(***************************************************************************)
EXTENDS Naturals

CONSTANTS
  Workers, Jobs,
  ProvisionJobs,  \* the jobs of kind provision, one per tenant
  NoJob,          \* the job of a worker that has none
  MaxAttempts,    \* 20 in the code
  ReportFrom,     \* failures from this attempt on raise an incident: 5
  MaxFaults,      \* bound: process deaths, leases lost by a live worker, and
                  \* maintenance that begins to fail
  MaxRequeues     \* bound: interventions of the operator

ASSUME JobQueueAssumption ==
  /\ ProvisionJobs \subseteq Jobs
  /\ NoJob \notin Jobs
  /\ MaxAttempts \in Nat /\ ReportFrom \in 1 .. MaxAttempts
  /\ MaxFaults \in Nat /\ MaxRequeues \in Nat

VARIABLES
  row,        \* table jobs
  worker,     \* what each process is doing, with the row as it claimed it
  incidents,  \* jobs with a job_repeated_failure incident
  tenant,     \* the state of the tenant of each provision job
  lost,       \* workers whose lease ran out or was taken while they ran
  stuck,      \* workers whose maintenance fails
  faults, requeues

vars == <<row, worker, incidents, tenant, lost, stuck, faults, requeues>>

Row == [queued : BOOLEAN, done : BOOLEAN, attempts : 0 .. MaxAttempts,
        token : Nat, leased : BOOLEAN, ready : BOOLEAN]

Task == [pc : {"idle", "handling", "returned", "failing", "reported"},
         job : Jobs \cup {NoJob}, token : Nat, attempt : 0 .. MaxAttempts]

Idle == [pc |-> "idle", job |-> NoJob, token |-> 0, attempt |-> 0]

TypeOK ==
  /\ row \in [Jobs -> Row]
  /\ worker \in [Workers -> Task]
  /\ incidents \subseteq Jobs
  /\ tenant \in [ProvisionJobs -> {"provisioning", "installed", "failed"}]
  /\ lost \subseteq Workers
  /\ stuck \subseteq Workers
  /\ faults \in 0 .. MaxFaults
  /\ requeues \in 0 .. MaxRequeues

Init ==
  /\ row = [j \in Jobs |-> [queued |-> FALSE, done |-> FALSE, attempts |-> 0,
                            token |-> 0, leased |-> FALSE, ready |-> TRUE]]
  /\ worker = [w \in Workers |-> Idle]
  /\ incidents = {}
  /\ tenant = [j \in ProvisionJobs |-> "provisioning"]
  /\ lost = {}
  /\ stuck = {}
  /\ faults = 0
  /\ requeues = 0

-----------------------------------------------------------------------------
\* The row still carries the worker's token: no one claimed it since.
Holds(w) == worker[w].job \in Jobs /\ row[worker[w].job].token = worker[w].token

Busy(w) == worker[w].pc # "idle"

\* enqueue(): a key that exists keeps its row, whatever became of it.
Enqueue(j) ==
  /\ ~row[j].queued
  /\ row' = [row EXCEPT ![j].queued = TRUE]
  /\ UNCHANGED <<worker, incidents, tenant, lost, stuck, faults, requeues>>

\* Mutants: the lease, or its end, is not looked at.
ClaimableLeased(j) ==
  row[j].queued /\ ~row[j].done /\ row[j].ready /\ row[j].attempts < MaxAttempts

ClaimableOnce(j) ==
  row[j].queued /\ ~row[j].done /\ row[j].token = 0 /\ row[j].attempts < MaxAttempts

\* Any claimable job; the code takes the one available for longest.
Claimable(j) ==
  /\ row[j].queued /\ ~row[j].done
  /\ row[j].ready /\ ~row[j].leased
  /\ row[j].attempts < MaxAttempts

Claim(w, j) ==
  /\ ~Busy(w) /\ w \notin stuck /\ Claimable(j)
  /\ row' = [row EXCEPT ![j] = [@ EXCEPT !.attempts = row[j].attempts + 1,
                                         !.token = row[j].token + 1,
                                         !.leased = TRUE]]
  /\ worker' = [worker EXCEPT ![w] =
       [pc |-> "handling", job |-> j, token |-> row[j].token + 1,
        attempt |-> row[j].attempts + 1]]
  /\ UNCHANGED <<incidents, tenant, lost, stuck, faults, requeues>>

\* The minute's keepalive of a process that still carries the token, even one
\* that has just given the lease back.
Keepalive(w) ==
  /\ Busy(w) /\ Holds(w)
  /\ ~row[worker[w].job].leased
  /\ row' = [row EXCEPT ![worker[w].job].leased = TRUE]
  /\ lost' = lost \ {w}
  /\ UNCHANGED <<worker, incidents, tenant, stuck, faults, requeues>>

Goto(w, pc) == worker' = [worker EXCEPT ![w].pc = pc]

\* A provision handler that returns has installed the tenant, even if its
\* lease is gone.
HandlerReturns(w) ==
  /\ worker[w].pc = "handling"
  /\ Goto(w, "returned")
  /\ tenant' = [j \in ProvisionJobs |->
                  IF j = worker[w].job THEN "installed" ELSE tenant[j]]
  /\ UNCHANGED <<row, incidents, lost, stuck, faults, requeues>>

\* Mutant: the lease token is not compared.
MarksDoneAnyway(w) ==
  /\ worker[w].pc = "returned"
  /\ row' = [row EXCEPT ![worker[w].job] = [@ EXCEPT !.done = TRUE, !.leased = FALSE]]
  /\ worker' = [worker EXCEPT ![w] = Idle]
  /\ lost' = lost \ {w}
  /\ UNCHANGED <<incidents, tenant, stuck, faults, requeues>>

MarksDone(w) ==
  /\ worker[w].pc = "returned"
  /\ row' = IF Holds(w)
            THEN [row EXCEPT ![worker[w].job] =
                    [@ EXCEPT !.done = TRUE, !.leased = FALSE]]
            ELSE row
  /\ worker' = [worker EXCEPT ![w] = Idle]
  /\ lost' = lost \ {w}
  /\ UNCHANGED <<incidents, tenant, stuck, faults, requeues>>

\* The handler, or the statement that marks the job done, throws: the lease is
\* given back and the backoff starts.
HandlerThrows(w) ==
  /\ worker[w].pc \in {"handling", "returned"}
  /\ row' = IF Holds(w)
            THEN [row EXCEPT ![worker[w].job] =
                    [@ EXCEPT !.leased = FALSE, !.ready = FALSE]]
            ELSE row
  /\ Goto(w, "failing")
  /\ UNCHANGED <<incidents, tenant, lost, stuck, faults, requeues>>

\* Mutant: one attempt too late.
ReportsLate(w) ==
  /\ worker[w].pc = "failing"
  /\ incidents' = IF worker[w].attempt > ReportFrom
                  THEN incidents \cup {worker[w].job} ELSE incidents
  /\ Goto(w, "reported")
  /\ UNCHANGED <<row, tenant, lost, stuck, faults, requeues>>

\* The statements after it do not look at the lease any more.
Reports(w) ==
  /\ worker[w].pc = "failing"
  /\ incidents' = IF worker[w].attempt >= ReportFrom
                  THEN incidents \cup {worker[w].job} ELSE incidents
  /\ Goto(w, "reported")
  /\ UNCHANGED <<row, tenant, lost, stuck, faults, requeues>>

\* Mutant: whatever the tenant's state.
GivesUpAnyway(w) ==
  /\ worker[w].pc = "reported"
  /\ tenant' = [j \in ProvisionJobs |->
       IF j = worker[w].job /\ worker[w].attempt >= MaxAttempts
       THEN "failed" ELSE tenant[j]]
  /\ worker' = [worker EXCEPT ![w] = Idle]
  /\ lost' = lost \ {w}
  /\ UNCHANGED <<row, incidents, stuck, faults, requeues>>

GivesUp(w) ==
  /\ worker[w].pc = "reported"
  /\ tenant' = [j \in ProvisionJobs |->
       IF /\ j = worker[w].job /\ worker[w].attempt >= MaxAttempts
          /\ tenant[j] = "provisioning"
       THEN "failed" ELSE tenant[j]]
  /\ worker' = [worker EXCEPT ![w] = Idle]
  /\ lost' = lost \ {w}
  /\ UNCHANGED <<row, incidents, stuck, faults, requeues>>

\* The process dies, or one of the statements above fails and the tick is
\* abandoned: the lease stays until it runs out. The process starts again.
Crash(w) ==
  /\ Busy(w) /\ faults < MaxFaults
  /\ faults' = faults + 1
  /\ worker' = [worker EXCEPT ![w] = Idle]
  /\ lost' = lost \ {w}
  /\ UNCHANGED <<row, incidents, tenant, stuck, requeues>>

\* A call of maintenance() throws, and again in every cycle until its cause is
\* gone: a checkout Stripe will not answer for, a binding that mismatches.
MaintenanceFails(w) ==
  /\ ~Busy(w) /\ w \notin stuck /\ faults < MaxFaults
  /\ faults' = faults + 1
  /\ stuck' = stuck \cup {w}
  /\ UNCHANGED <<row, worker, incidents, tenant, lost, requeues>>

MaintenanceSucceeds(w) ==
  /\ w \in stuck
  /\ stuck' = stuck \ {w}
  /\ UNCHANGED <<row, worker, incidents, tenant, lost, faults, requeues>>

\* Ten minutes without a keepalive: its process is gone.
LeaseRunsOut(j) ==
  /\ row[j].leased /\ ~row[j].done
  /\ \A w \in Workers : Busy(w) /\ worker[w].job = j => ~Holds(w)
  /\ row' = [row EXCEPT ![j].leased = FALSE]
  /\ UNCHANGED <<worker, incidents, tenant, lost, stuck, faults, requeues>>

\* Or it runs on without reaching the database.
LeaseLost(w) ==
  /\ Busy(w) /\ Holds(w) /\ row[worker[w].job].leased
  /\ faults < MaxFaults
  /\ faults' = faults + 1
  /\ row' = [row EXCEPT ![worker[w].job].leased = FALSE]
  /\ lost' = lost \cup {w}
  /\ UNCHANGED <<worker, incidents, tenant, stuck, requeues>>

BackoffEnds(j) ==
  /\ ~row[j].ready
  /\ row' = [row EXCEPT ![j].ready = TRUE]
  /\ UNCHANGED <<worker, incidents, tenant, lost, stuck, faults, requeues>>

\* retry-provision.ts, whatever state the job is in.
Requeue(j) ==
  /\ j \in ProvisionJobs /\ row[j].queued /\ requeues < MaxRequeues
  /\ requeues' = requeues + 1
  /\ row' = [row EXCEPT ![j] = [@ EXCEPT !.attempts = 0, !.ready = TRUE,
                                         !.leased = FALSE, !.done = FALSE]]
  /\ tenant' = [tenant EXCEPT ![j] = IF @ = "failed" THEN "provisioning" ELSE @]
  /\ lost' = lost \cup {w \in Workers : Busy(w) /\ worker[w].job = j}
  /\ UNCHANGED <<worker, incidents, stuck, faults>>

Step(w) ==
  \/ \E j \in Jobs : Claim(w, j)
  \/ HandlerReturns(w) \/ MarksDone(w)
  \/ HandlerThrows(w) \/ Reports(w) \/ GivesUp(w)

Next ==
  \/ \E w \in Workers :
       \/ Step(w) \/ Keepalive(w) \/ Crash(w) \/ LeaseLost(w)
       \/ MaintenanceFails(w) \/ MaintenanceSucceeds(w)
  \/ \E j \in Jobs :
       Enqueue(j) \/ LeaseRunsOut(j) \/ BackoffEnds(j) \/ Requeue(j)

\* Processes run and their calls end (every request carries a timeout), and
\* time passes; nothing else is owed.
Fairness ==
  /\ \A w \in Workers : WF_vars(Step(w))
  /\ \A j \in Jobs : WF_vars(LeaseRunsOut(j)) /\ WF_vars(BackoffEnds(j))

Spec == Init /\ [][Next]_vars /\ Fairness

-----------------------------------------------------------------------------
\* A job's handler runs twice at once only if one of the two processes had
\* lost its lease: a live lease, the backoff and the row lock keep others off.
OverlapOnlyAfterLoss ==
  \A w1, w2 \in Workers :
    /\ w1 # w2
    /\ worker[w1].pc = "handling" /\ worker[w2].pc = "handling"
    /\ worker[w1].job = worker[w2].job
    => w1 \in lost \/ w2 \in lost

\* A process that was superseded neither completes the job nor gives back the
\* lease of the one that superseded it.
SupersededIsHarmless ==
  [][\A j \in Jobs, w \in Workers :
       /\ worker'[w] # worker[w] /\ worker[w].job = j /\ ~Holds(w)
       => row'[j] = row[j]]_vars

\* A tenant that was installed is not declared failed by an attempt that gave
\* up later.
StaysInstalled ==
  [][\A j \in ProvisionJobs : tenant[j] = "installed" => tenant'[j] = "installed"]_vars

Exhausted(j) ==
  /\ ~row[j].done /\ row[j].attempts = MaxAttempts
  /\ \A w \in Workers : worker[w].job # j

\* A job no one will try again is on the operator's list. Only the handling of
\* a failure puts it there, so this holds as long as processes do not die as
\* often as there are attempts that report.
ReportedUnlessCrashing ==
  faults <= MaxAttempts - ReportFrom => \A j \in Jobs : Exhausted(j) => j \in incidents

\* "Jobs are durable, leased, retried with backoff, and eventually require
\* operator attention" (docs/OPERATIONS.md): every job is done or runs out of
\* attempts, through crashes, lost leases, keepalives that take a lease back and
\* a process that is stuck, if there is another one.
JobsEnd ==
  \A j \in Jobs :
    row[j].queued ~> (row[j].done \/ row[j].attempts = MaxAttempts)
=============================================================================
