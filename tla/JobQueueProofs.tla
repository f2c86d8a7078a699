---------------------------- MODULE JobQueueProofs ----------------------------
(* The queue's safety for any number of workers, jobs, attempts and faults.    *)
EXTENDS JobQueue, FiniteSetTheorems, TLAPS

\* A process has a job exactly while it is at work.
BusyHasJob ==
  \A w \in Workers : IF Busy(w) THEN worker[w].job \in Jobs
                                ELSE worker[w].job = NoJob

\* A token is handed out once, and the row carries the latest.
TokensDistinct ==
  /\ \A w \in Workers : Busy(w) => worker[w].token <= row[worker[w].job].token
  /\ \A w, x \in Workers :
       w # x /\ Busy(w) /\ Busy(x) /\ worker[w].job = worker[x].job
       => worker[w].token # worker[x].token

AtWork(w) == worker[w].pc \in {"handling", "returned"}

\* A handler that lost nothing works under a live lease of its own.
LiveHolds ==
  \A w \in Workers :
    AtWork(w) /\ w \notin lost => Holds(w) /\ row[worker[w].job].leased

\* Only who is at work has something to lose.
LostIsBusy == \A w \in lost : Busy(w)

\* The process that makes the attempt k of the job, since it was last requeued, and
\* will report it unless a fault keeps it from that.
Owes(w, j, k) ==
  /\ worker[w].job = j /\ worker[w].attempt = k
  /\ worker[w].token + row[j].attempts = row[j].token + k
  /\ worker[w].pc = "failing" \/ (AtWork(w) /\ w \notin lost)

Unreported(j) ==
  {k \in ReportFrom .. row[j].attempts : \A w \in Workers : ~Owes(w, j, k)}

\* Each attempt that came to nothing and was not reported cost a fault.
Accounted ==
  \A j \in Jobs :
    ~row[j].done /\ j \notin incidents => Cardinality(Unreported(j)) <= faults

IInv ==
  /\ TypeOK /\ BusyHasJob /\ TokensDistinct /\ LiveHolds
  /\ LostIsBusy /\ Accounted

-----------------------------------------------------------------------------
\* The table stays one of rows when one row is replaced by another.
LEMMA RowReplaced ==
  ASSUME row \in [Jobs -> Row], NEW j \in Jobs, NEW r \in Row
  PROVE  [row EXCEPT ![j] = r] \in [Jobs -> Row]
  OBVIOUS

\* A worker that goes on, or comes to rest, is still one.
LEMMA TaskType ==
  ASSUME TypeOK, NEW w \in Workers,
         NEW pc \in {"idle", "handling", "returned", "failing", "reported"}
  PROVE  /\ [worker EXCEPT ![w].pc = pc] \in [Workers -> Task]
         /\ [worker EXCEPT ![w] = Idle] \in [Workers -> Task]
<1>1. Idle \in Task BY JobQueueAssumption DEF Idle, Task
<1>2. [worker[w] EXCEPT !.pc = pc] \in Task BY DEF TypeOK, Task
<1> QED BY <1>1, <1>2 DEF TypeOK

\* The initial state satisfies the invariant.
LEMMA InitIInv == Init => IInv
<1> SUFFICES ASSUME Init PROVE IInv OBVIOUS
<1>1. TypeOK BY JobQueueAssumption DEF Init, TypeOK, Row, Task, Idle
<1>2. \A w \in Workers : worker[w].pc = "idle" /\ worker[w].job = NoJob
  BY DEF Init, Idle
<1>3. BusyHasJob /\ TokensDistinct /\ LiveHolds /\ LostIsBusy
  BY <1>2 DEF BusyHasJob, TokensDistinct, LiveHolds, LostIsBusy, Busy, AtWork, Init
<1>4. \A j \in Jobs : Unreported(j) = {}
  BY JobQueueAssumption DEF Init, Unreported
<1>5. Accounted BY <1>4, FS_EmptySet DEF Init, Accounted
<1> QED BY <1>1, <1>3, <1>5 DEF IInv

\* The table stays one of rows: every step replaces one row at most.
LEMMA RowChanges ==
  ASSUME IInv
  PROVE  /\ \A w \in Workers, j \in Jobs : Claim(w, j) => row' \in [Jobs -> Row]
         /\ \A w \in Workers :
              Keepalive(w) \/ LeaseLost(w) \/ MarksDone(w) \/ HandlerThrows(w)
              => row' \in [Jobs -> Row]
         /\ \A j \in Jobs :
              Enqueue(j) \/ LeaseRunsOut(j) \/ BackoffEnds(j) \/ Requeue(j)
              => row' \in [Jobs -> Row]
<1> USE DEF IInv, TypeOK
<1>1. ASSUME NEW i \in Jobs, NEW b \in BOOLEAN
      PROVE  /\ [row[i] EXCEPT !.leased = b] \in Row
             /\ [row[i] EXCEPT !.ready = b] \in Row
             /\ [row[i] EXCEPT !.queued = b] \in Row
             /\ [row[i] EXCEPT !.done = TRUE, !.leased = FALSE] \in Row
             /\ [row[i] EXCEPT !.leased = FALSE, !.ready = FALSE] \in Row
  <2>1. row[i] \in Row OBVIOUS
  <2>2. [row[i] EXCEPT !.leased = b] \in Row BY <2>1 DEF Row
  <2>3. [row[i] EXCEPT !.ready = b] \in Row BY <2>1 DEF Row
  <2>4. [row[i] EXCEPT !.queued = b] \in Row BY <2>1 DEF Row
  <2>5. [row[i] EXCEPT !.done = TRUE, !.leased = FALSE] \in Row BY <2>1 DEF Row
  <2>6. [row[i] EXCEPT !.leased = FALSE, !.ready = FALSE] \in Row BY <2>1 DEF Row
  <2> QED BY <2>2, <2>3, <2>4, <2>5, <2>6
<1>2. ASSUME NEW i \in Jobs
      PROVE  [row[i] EXCEPT !.attempts = 0, !.ready = TRUE, !.leased = FALSE,
                            !.done = FALSE] \in Row
  <2>1. row[i] \in Row /\ 0 \in 0 .. MaxAttempts BY JobQueueAssumption
  <2> QED BY <2>1 DEF Row
<1>3. ASSUME NEW w \in Workers, NEW j \in Jobs, Claim(w, j)
      PROVE  row' \in [Jobs -> Row]
  <2>1. row[j] \in Row /\ row[j].attempts < MaxAttempts
    BY <1>3 DEF Claim, Claimable
  <2>2. row[j].attempts + 1 \in 0 .. MaxAttempts /\ row[j].token + 1 \in Nat
    BY <2>1, JobQueueAssumption DEF Row
  <2>3. [row[j] EXCEPT !.attempts = row[j].attempts + 1,
                       !.token = row[j].token + 1, !.leased = TRUE] \in Row
    BY <2>1, <2>2 DEF Row
  <2>4. row' = [row EXCEPT ![j] =
                  [row[j] EXCEPT !.attempts = row[j].attempts + 1,
                                 !.token = row[j].token + 1, !.leased = TRUE]]
    BY <1>3 DEF Claim
  <2> DEFINE r == [row[j] EXCEPT !.attempts = row[j].attempts + 1,
                                 !.token = row[j].token + 1, !.leased = TRUE]
  <2>5. r \in Row /\ row' = [row EXCEPT ![j] = r] BY <2>3, <2>4
  <2> HIDE DEF r
  <2> QED BY <2>5, RowReplaced
<1>4. ASSUME NEW w \in Workers, Keepalive(w) \/ LeaseLost(w)
      PROVE  row' \in [Jobs -> Row]
  <2>1. worker[w].job \in Jobs BY <1>4 DEF Keepalive, LeaseLost, Holds
  <2>2. /\ [row[worker[w].job] EXCEPT !.leased = TRUE] \in Row
        /\ [row[worker[w].job] EXCEPT !.leased = FALSE] \in Row
    BY <1>1, <2>1
  <2>3. \/ row' = [row EXCEPT ![worker[w].job] =
                     [row[worker[w].job] EXCEPT !.leased = TRUE]]
        \/ row' = [row EXCEPT ![worker[w].job] =
                     [row[worker[w].job] EXCEPT !.leased = FALSE]]
    BY <1>4 DEF Keepalive, LeaseLost
  <2> QED BY <2>1, <2>2, <2>3, RowReplaced
<1>5. ASSUME NEW w \in Workers, MarksDone(w) \/ HandlerThrows(w)
      PROVE  row' \in [Jobs -> Row]
  <2>1. CASE ~Holds(w) BY <1>5, <2>1 DEF MarksDone, HandlerThrows
  <2>2. CASE Holds(w)
    <3>1. worker[w].job \in Jobs BY <2>2 DEF Holds
    <3>2. \/ row' = [row EXCEPT ![worker[w].job] =
                [row[worker[w].job] EXCEPT !.done = TRUE, !.leased = FALSE]]
          \/ row' = [row EXCEPT ![worker[w].job] =
                [row[worker[w].job] EXCEPT !.leased = FALSE, !.ready = FALSE]]
      BY <1>5, <2>2 DEF MarksDone, HandlerThrows
    <3> QED BY <1>1, <3>1, <3>2, RowReplaced
  <2> QED BY <2>1, <2>2
<1>6. ASSUME NEW j \in Jobs, Enqueue(j) \/ LeaseRunsOut(j) \/ BackoffEnds(j)
      PROVE  row' \in [Jobs -> Row]
  <2>1. \/ row' = [row EXCEPT ![j] = [row[j] EXCEPT !.queued = TRUE]]
        \/ row' = [row EXCEPT ![j] = [row[j] EXCEPT !.leased = FALSE]]
        \/ row' = [row EXCEPT ![j] = [row[j] EXCEPT !.ready = TRUE]]
    BY <1>6 DEF Enqueue, LeaseRunsOut, BackoffEnds
  <2> QED BY <1>1, <2>1, RowReplaced
<1>7. ASSUME NEW j \in Jobs, Requeue(j) PROVE row' \in [Jobs -> Row]
  BY <1>2, <1>7, RowReplaced DEF Requeue
<1> QED BY <1>3, <1>4, <1>5, <1>6, <1>7

\* Every step keeps the types: a claim needs an attempt that is left.
LEMMA StepType ==
  ASSUME IInv, [Next]_vars
  PROVE  TypeOK'
<1> USE DEF IInv
<1>1. CASE UNCHANGED vars BY <1>1 DEF vars, TypeOK
<1>2. ASSUME NEW w \in Workers, NEW j \in Jobs, Claim(w, j)
      PROVE  TypeOK'
  <2>1. row' \in [Jobs -> Row] BY <1>2, RowChanges
  <2>2. row[j] \in Row /\ row[j].attempts < MaxAttempts
    BY <1>2 DEF Claim, Claimable, TypeOK
  <2>3. row[j].attempts + 1 \in 0 .. MaxAttempts /\ row[j].token + 1 \in Nat
    BY <2>2, JobQueueAssumption DEF Row
  <2>4. [pc |-> "handling", job |-> j, token |-> row[j].token + 1,
         attempt |-> row[j].attempts + 1] \in Task
    BY <2>3 DEF Task
  <2>5. worker' \in [Workers -> Task] BY <1>2, <2>4 DEF Claim, TypeOK
  <2> QED BY <1>2, <2>1, <2>5 DEF Claim, TypeOK
<1>3. ASSUME NEW w \in Workers, HandlerReturns(w)
      PROVE  TypeOK'
  <2>1. worker' \in [Workers -> Task] BY <1>3, TaskType DEF HandlerReturns, Goto
  <2> QED BY <1>3, <2>1 DEF HandlerReturns, TypeOK
<1>4. ASSUME NEW w \in Workers, MarksDone(w) \/ HandlerThrows(w)
      PROVE  TypeOK'
  <2>1. row' \in [Jobs -> Row] BY <1>4, RowChanges
  <2>2. worker' \in [Workers -> Task]
    BY <1>4, TaskType DEF MarksDone, HandlerThrows, Goto
  <2> QED BY <1>4, <2>1, <2>2 DEF MarksDone, HandlerThrows, TypeOK
<1>5. ASSUME NEW w \in Workers, Reports(w) \/ GivesUp(w)
      PROVE  TypeOK'
  <2>1. worker' \in [Workers -> Task] BY <1>5, TaskType DEF Reports, GivesUp, Goto
  <2>2. incidents' \subseteq Jobs
    BY <1>5 DEF Reports, GivesUp, TypeOK, BusyHasJob, Busy
  <2>3. tenant' \in [ProvisionJobs -> {"provisioning", "installed", "failed"}]
    BY <1>5 DEF Reports, GivesUp, TypeOK
  <2> QED BY <1>5, <2>1, <2>2, <2>3 DEF Reports, GivesUp, TypeOK
<1>6. ASSUME NEW w \in Workers, Keepalive(w) \/ LeaseLost(w)
      PROVE  TypeOK'
  <2>1. worker[w].job \in Jobs BY <1>6 DEF Keepalive, LeaseLost, Holds
  <2>2. row' \in [Jobs -> Row] BY <1>6, <2>1, RowChanges
  <2> QED BY <1>6, <2>2, JobQueueAssumption DEF Keepalive, LeaseLost, TypeOK
<1>7. ASSUME NEW w \in Workers, Crash(w)
      PROVE  TypeOK'
  <2>1. worker' \in [Workers -> Task] BY <1>7, TaskType DEF Crash
  <2> QED BY <1>7, <2>1, JobQueueAssumption DEF Crash, TypeOK
<1>8. ASSUME NEW w \in Workers, MaintenanceFails(w) \/ MaintenanceSucceeds(w)
      PROVE  TypeOK'
  BY <1>8, JobQueueAssumption DEF MaintenanceFails, MaintenanceSucceeds, TypeOK
<1>9. ASSUME NEW j \in Jobs,
             Enqueue(j) \/ LeaseRunsOut(j) \/ BackoffEnds(j) \/ Requeue(j)
      PROVE  TypeOK'
  <2>1. row' \in [Jobs -> Row] BY <1>9, RowChanges
  <2>2. /\ tenant' \in [ProvisionJobs -> {"provisioning", "installed", "failed"}]
        /\ lost' \subseteq Workers /\ requeues' \in 0 .. MaxRequeues
    BY <1>9, JobQueueAssumption DEF Enqueue, LeaseRunsOut, BackoffEnds, Requeue, TypeOK
  <2> QED BY <1>9, <2>1, <2>2 DEF Enqueue, LeaseRunsOut, BackoffEnds, Requeue, TypeOK
<1> QED BY <1>1, <1>2, <1>3, <1>4, <1>5, <1>6, <1>7, <1>8, <1>9 DEF Next, Step

-----------------------------------------------------------------------------
NoClaim == \A w \in Workers, j \in Jobs : ~Claim(w, j)

\* A row keeps its token, and its attempts until they begin anew.
Keeps(i) ==
  /\ row'[i].token = row[i].token
  /\ \/ row'[i].attempts = 0
     \/ row'[i].attempts = row[i].attempts /\ (row[i].done => row'[i].done)

\* A process keeps its task or comes to rest.
Goes(x) ==
  IF worker'[x].pc # "idle"
  THEN /\ Busy(x)
       /\ worker'[x].job = worker[x].job
       /\ worker'[x].token = worker[x].token
       /\ worker'[x].attempt = worker[x].attempt
       /\ AtWork(x)' => AtWork(x)
  ELSE worker'[x].job = NoJob

\* Flags that change in one row leave every token and every count.
LEMMA FlagsLeaveTokens ==
  ASSUME row \in [Jobs -> Row], NEW k, NEW i \in Jobs,
         \/ row' = [row EXCEPT ![k] = [row[k] EXCEPT !.done = TRUE, !.leased = FALSE]]
         \/ row' = [row EXCEPT ![k] = [row[k] EXCEPT !.leased = FALSE, !.ready = FALSE]]
  PROVE  Keeps(i)
<1>1. row[i] \in Row OBVIOUS
<1>2. /\ [row[i] EXCEPT !.done = TRUE, !.leased = FALSE].token = row[i].token
      /\ [row[i] EXCEPT !.done = TRUE, !.leased = FALSE].attempts = row[i].attempts
      /\ [row[i] EXCEPT !.done = TRUE, !.leased = FALSE].done = TRUE
  BY <1>1 DEF Row
<1>3. /\ [row[i] EXCEPT !.leased = FALSE, !.ready = FALSE].token = row[i].token
      /\ [row[i] EXCEPT !.leased = FALSE, !.ready = FALSE].attempts = row[i].attempts
      /\ [row[i] EXCEPT !.leased = FALSE, !.ready = FALSE].done = row[i].done
  BY <1>1 DEF Row
<1>4. CASE k = i BY <1>2, <1>3, <1>4 DEF Keeps
<1>5. CASE k # i BY <1>5 DEF Keeps
<1> QED BY <1>4, <1>5

\* Only a claim hands out a token or starts a handler: in every other step the
\* rows keep their tokens and a process keeps its task or comes to rest.
LEMMA TokensKept ==
  ASSUME IInv, [Next]_vars, NoClaim
  PROVE  /\ \A i \in Jobs : Keeps(i)
         /\ \A x \in Workers : Goes(x)
<1> USE DEF IInv, Busy, AtWork, Goes, Keeps
<1>1. \A x \in Workers : worker[x].pc = "idle" => worker[x].job = NoJob
  BY DEF BusyHasJob
<1>2. CASE UNCHANGED vars BY <1>1, <1>2 DEF vars
<1>3. ASSUME NEW w \in Workers,
             Keepalive(w) \/ LeaseLost(w) \/ MaintenanceFails(w)
             \/ MaintenanceSucceeds(w)
      PROVE  /\ worker' = worker
             /\ \A i \in Jobs : Keeps(i)
  BY <1>3 DEF Keepalive, LeaseLost, MaintenanceFails, MaintenanceSucceeds, TypeOK, Row
<1>4. ASSUME NEW j \in Jobs,
             Enqueue(j) \/ LeaseRunsOut(j) \/ BackoffEnds(j) \/ Requeue(j)
      PROVE  /\ worker' = worker
             /\ \A i \in Jobs : Keeps(i)
  <2>1. worker' = worker
    BY <1>4 DEF Enqueue, LeaseRunsOut, BackoffEnds, Requeue
  <2>2. CASE Enqueue(j) \/ LeaseRunsOut(j) \/ BackoffEnds(j)
    BY <2>1, <2>2 DEF Enqueue, LeaseRunsOut, BackoffEnds, TypeOK, Row
  <2>3. CASE Requeue(j)
    <3>1. row' = [row EXCEPT ![j] = [row[j] EXCEPT !.attempts = 0, !.ready = TRUE,
                                           !.leased = FALSE, !.done = FALSE]]
      BY <2>3 DEF Requeue
    <3> QED BY <2>1, <3>1 DEF TypeOK, Row
  <2> QED BY <1>4, <2>2, <2>3
<1>5. ASSUME NEW w \in Workers,
             HandlerReturns(w) \/ HandlerThrows(w) \/ Reports(w)
      PROVE  /\ \E pc \in {"returned", "failing", "reported"} :
                  /\ worker' = [worker EXCEPT ![w].pc = pc]
                  /\ pc = "returned" => AtWork(w)
             /\ worker[w].pc # "idle"
             /\ \A i \in Jobs : Keeps(i)
  <2>1. CASE HandlerReturns(w) \/ Reports(w)
    BY <2>1 DEF HandlerReturns, Reports, Goto
  <2>2. CASE HandlerThrows(w)
    <3>1. /\ worker' = [worker EXCEPT ![w].pc = "failing"]
          /\ worker[w].pc # "idle"
      BY <2>2 DEF HandlerThrows, Goto
    <3>2. \/ row' = row
          \/ row' = [row EXCEPT ![worker[w].job] =
               [row[worker[w].job] EXCEPT !.leased = FALSE, !.ready = FALSE]]
      BY <2>2 DEF HandlerThrows
    <3>3. ASSUME NEW i \in Jobs PROVE Keeps(i)
      <4>1. CASE row' = row BY <4>1
      <4>2. CASE row' # row
        <5> DEFINE k == worker[w].job
        <5>1. row \in [Jobs -> Row] BY DEF TypeOK
        <5>2. row' = [row EXCEPT ![k] = [row[k] EXCEPT !.leased = FALSE, !.ready = FALSE]]
          BY <3>2, <4>2
        <5> HIDE DEF k
        <5> QED BY <5>1, <5>2, FlagsLeaveTokens
      <4> QED BY <4>1, <4>2
    <3> QED BY <3>1, <3>3
  <2> QED BY <1>5, <2>1, <2>2
<1>6. ASSUME NEW w \in Workers, MarksDone(w) \/ GivesUp(w) \/ Crash(w)
      PROVE  /\ worker' = [worker EXCEPT ![w] = Idle]
             /\ \A i \in Jobs : Keeps(i)
  <2>1. CASE GivesUp(w) \/ Crash(w) BY <2>1 DEF GivesUp, Crash
  <2>2. CASE MarksDone(w)
    <3>1. \/ row' = row
          \/ row' = [row EXCEPT ![worker[w].job] =
               [row[worker[w].job] EXCEPT !.done = TRUE, !.leased = FALSE]]
      BY <2>2 DEF MarksDone
    <3>2. ASSUME NEW i \in Jobs PROVE Keeps(i)
      <4>1. CASE row' = row BY <4>1
      <4>2. CASE row' # row
        <5> DEFINE k == worker[w].job
        <5>1. row \in [Jobs -> Row] BY DEF TypeOK
        <5>2. row' = [row EXCEPT ![k] = [row[k] EXCEPT !.done = TRUE, !.leased = FALSE]]
          BY <3>1, <4>2
        <5> HIDE DEF k
        <5> QED BY <5>1, <5>2, FlagsLeaveTokens
      <4> QED BY <4>1, <4>2
    <3> QED BY <2>2, <3>2 DEF MarksDone
  <2> QED BY <1>6, <2>1, <2>2
<1>7. ASSUME worker' = worker, NEW x \in Workers
      PROVE  Goes(x)
  BY <1>1, <1>7
<1>8. ASSUME NEW w \in Workers, NEW pc \in {"returned", "failing", "reported"},
             worker' = [worker EXCEPT ![w].pc = pc], worker[w].pc # "idle",
             pc = "returned" => AtWork(w), NEW x \in Workers
      PROVE  Goes(x)
  BY <1>1, <1>8 DEF TypeOK, Task
<1>9. ASSUME NEW w \in Workers, worker' = [worker EXCEPT ![w] = Idle],
             NEW x \in Workers
      PROVE  Goes(x)
  BY <1>1, <1>9 DEF TypeOK, Task, Idle
<1>10. \/ UNCHANGED vars
       \/ \E w \in Workers : Keepalive(w) \/ LeaseLost(w) \/ MaintenanceFails(w)
                             \/ MaintenanceSucceeds(w)
       \/ \E j \in Jobs : Enqueue(j) \/ LeaseRunsOut(j) \/ BackoffEnds(j) \/ Requeue(j)
       \/ \E w \in Workers : HandlerReturns(w) \/ HandlerThrows(w) \/ Reports(w)
       \/ \E w \in Workers : MarksDone(w) \/ GivesUp(w) \/ Crash(w)
  BY DEF Next, Step, NoClaim
<1> QED BY <1>2, <1>3, <1>4, <1>5, <1>6, <1>7, <1>8, <1>9, <1>10

\* What a claim does: the next token of a row that no one works on under a
\* live lease goes to a process that was at rest.
LEMMA ClaimEffect ==
  ASSUME IInv, NEW w \in Workers, NEW j \in Jobs, Claim(w, j)
  PROVE  /\ ~Busy(w) /\ ~row[j].leased /\ lost' = lost
         /\ row'[j].token = row[j].token + 1 /\ row'[j].leased
         /\ \A i \in Jobs : i # j => row'[i] = row[i]
         /\ worker'[w].pc = "handling" /\ worker'[w].job = j
         /\ worker'[w].token = row[j].token + 1
         /\ \A x \in Workers : x # w => worker'[x] = worker[x]
         /\ row'[j].attempts = row[j].attempts + 1 /\ row'[j].done = row[j].done
         /\ worker'[w].attempt = row[j].attempts + 1
         /\ incidents' = incidents /\ faults' = faults
  BY DEF IInv, TypeOK, Row, Claim, Claimable

\* Every step keeps who has a job and whose token is the latest.
LEMMA StepTokens ==
  ASSUME IInv, [Next]_vars
  PROVE  BusyHasJob' /\ TokensDistinct'
<1> USE DEF IInv, Busy, AtWork, Goes, Keeps
<1>1. CASE NoClaim
  <2>1. BusyHasJob' BY <1>1, TokensKept DEF BusyHasJob
  <2>2. \A w \in Workers : worker'[w].pc # "idle"
          => worker'[w].token <= row'[worker'[w].job].token
    BY <1>1, TokensKept DEF BusyHasJob, TokensDistinct
  <2>3. \A w, x \in Workers :
          /\ w # x /\ worker'[w].pc # "idle" /\ worker'[x].pc # "idle"
          /\ worker'[w].job = worker'[x].job
          => worker'[w].token # worker'[x].token
    BY <1>1, TokensKept DEF TokensDistinct
  <2> QED BY <2>1, <2>2, <2>3 DEF TokensDistinct
<1>2. ASSUME NEW w \in Workers, NEW j \in Jobs, Claim(w, j)
      PROVE  BusyHasJob' /\ TokensDistinct'
  <2>1. BusyHasJob' BY <1>2, ClaimEffect DEF BusyHasJob
  <2>2. row[j].token \in Nat BY DEF TypeOK, Row
  <2>3. ASSUME NEW x \in Workers, worker'[x].pc # "idle"
        PROVE  worker'[x].token <= row'[worker'[x].job].token
    <3>1. CASE x = w BY <1>2, <2>2, <3>1, ClaimEffect
    <3>2. CASE x # w
      <4>1. /\ worker'[x] = worker[x] /\ worker[x].job \in Jobs
            /\ worker[x].token <= row[worker[x].job].token
        BY <1>2, <2>3, <3>2, ClaimEffect DEF BusyHasJob, TokensDistinct
      <4>2. worker[x].token \in Nat BY DEF TypeOK, Task
      <4>3. CASE worker[x].job = j
        BY <1>2, <2>2, <4>1, <4>2, <4>3, ClaimEffect
      <4>4. CASE worker[x].job # j
        BY <1>2, <4>1, <4>4, ClaimEffect
      <4> QED BY <4>3, <4>4
    <3> QED BY <3>1, <3>2
  <2>4. ASSUME NEW x \in Workers, x # w, worker'[x].pc # "idle",
               worker'[x].job = j
        PROVE  worker'[x].token # worker'[w].token
    <3>1. worker'[x] = worker[x] /\ worker[x].token <= row[j].token
      BY <1>2, <2>4, ClaimEffect DEF TokensDistinct
    <3>2. worker[x].token \in Nat BY DEF TypeOK, Task
    <3>3. worker'[w].token = row[j].token + 1 BY <1>2, ClaimEffect
    <3> QED BY <2>2, <3>1, <3>2, <3>3
  <2>5. ASSUME NEW x \in Workers, NEW y \in Workers, x # y,
               worker'[x].pc # "idle", worker'[y].pc # "idle",
               worker'[x].job = worker'[y].job
        PROVE  worker'[x].token # worker'[y].token
    <3>1. CASE x = w BY <1>2, <2>4, <2>5, <3>1, ClaimEffect
    <3>2. CASE y = w BY <1>2, <2>4, <2>5, <3>2, ClaimEffect
    <3>3. CASE x # w /\ y # w BY <1>2, <2>5, <3>3, ClaimEffect DEF TokensDistinct
    <3> QED BY <3>1, <3>2, <3>3
  <2> QED BY <2>1, <2>3, <2>5 DEF TokensDistinct
<1> QED BY <1>1, <1>2 DEF NoClaim

\* Two processes at work on one job do not both hold it.
LEMMA OneHolder ==
  ASSUME IInv, NEW w \in Workers, NEW x \in Workers, w # x, Busy(w), Busy(x),
         Holds(w), Holds(x)
  PROVE  worker[w].job # worker[x].job
  BY DEF IInv, TokensDistinct, Holds

\* In every step but a claim, a handler that has lost nothing after it either
\* had lost nothing before it and works under the same live lease, or has taken
\* its lease back.
LEMMA LeaseKept ==
  ASSUME IInv, [Next]_vars, NoClaim,
         NEW x \in Workers, AtWork(x)', x \notin lost'
  PROVE  row'[worker[x].job].leased
<1> USE DEF IInv, Busy, AtWork, Goes, Keeps
<1> DEFINE i == worker[x].job
<1>1. AtWork(x) /\ i \in Jobs
  BY TokensKept DEF BusyHasJob
<1>2. x \notin lost => Holds(x) /\ row[i].leased BY <1>1 DEF LiveHolds
<1>3. row[i] \in Row BY <1>1 DEF TypeOK
<1>4. CASE UNCHANGED vars BY <1>2, <1>4 DEF vars
<1>5. ASSUME NEW w \in Workers,
             HandlerReturns(w) \/ Reports(w) \/ MaintenanceFails(w)
             \/ MaintenanceSucceeds(w)
      PROVE  row'[i].leased
  BY <1>2, <1>5 DEF HandlerReturns, Reports, MaintenanceFails, MaintenanceSucceeds
<1>6. ASSUME NEW w \in Workers, GivesUp(w) \/ Crash(w)
      PROVE  row'[i].leased
  <2>1. worker'[w].pc = "idle" BY <1>6 DEF GivesUp, Crash, TypeOK, Idle
  <2>2. x # w BY <2>1
  <2> QED BY <1>2, <1>6, <2>2 DEF GivesUp, Crash
<1>7. ASSUME NEW w \in Workers, Keepalive(w)
      PROVE  row'[i].leased
  <2>1. CASE x = w BY <1>1, <1>3, <1>7, <2>1 DEF Keepalive, TypeOK, Row
  <2>2. CASE x # w
    <3>1. row[i].leased BY <1>2, <1>7, <2>2 DEF Keepalive
    <3>2. CASE worker[w].job = i
      BY <1>1, <1>3, <1>7, <3>2 DEF Keepalive, TypeOK, Row
    <3>3. CASE worker[w].job # i
      BY <1>1, <1>7, <3>1, <3>3 DEF Keepalive, TypeOK
    <3> QED BY <3>2, <3>3
  <2> QED BY <2>1, <2>2
<1>8. ASSUME NEW w \in Workers, LeaseLost(w)
      PROVE  row'[i].leased
  <2>1. x # w /\ x \notin lost BY <1>8 DEF LeaseLost
  <2>2. worker[w].job # i BY <1>1, <1>2, <1>8, <2>1, OneHolder DEF LeaseLost
  <2> QED BY <1>1, <1>2, <1>8, <2>1, <2>2 DEF LeaseLost, TypeOK
<1>9. ASSUME NEW w \in Workers, MarksDone(w) \/ HandlerThrows(w)
      PROVE  row'[i].leased
  <2>1. ~AtWork(w)' /\ worker[w].pc # "idle"
    BY <1>9 DEF MarksDone, HandlerThrows, Goto, TypeOK, Idle, Task
  <2>2. x # w BY <2>1
  <2>3. x \notin lost BY <1>9, <2>2 DEF MarksDone, HandlerThrows
  <2>4. CASE ~Holds(w) BY <1>2, <1>9, <2>3, <2>4 DEF MarksDone, HandlerThrows
  <2>5. CASE Holds(w)
    <3>1. worker[w].job # i BY <1>1, <1>2, <2>1, <2>2, <2>3, <2>5, OneHolder
    <3>2. row'[i] = row[i]
      BY <1>1, <1>9, <2>5, <3>1 DEF MarksDone, HandlerThrows, TypeOK
    <3> QED BY <1>2, <2>3, <3>2
  <2> QED BY <2>4, <2>5
<1>10. ASSUME NEW j \in Jobs, Enqueue(j) \/ BackoffEnds(j)
       PROVE  row'[i].leased
  <2>1. row[i].leased BY <1>2, <1>10 DEF Enqueue, BackoffEnds
  <2>2. CASE j = i
    BY <1>1, <1>3, <1>10, <2>1, <2>2 DEF Enqueue, BackoffEnds, TypeOK, Row
  <2>3. CASE j # i
    BY <1>1, <1>10, <2>1, <2>3 DEF Enqueue, BackoffEnds, TypeOK
  <2> QED BY <2>2, <2>3
<1>11. ASSUME NEW j \in Jobs, LeaseRunsOut(j)
       PROVE  row'[i].leased
  <2>1. j # i BY <1>1, <1>2, <1>11 DEF LeaseRunsOut
  <2> QED BY <1>1, <1>2, <1>11, <2>1 DEF LeaseRunsOut, TypeOK
<1>12. ASSUME NEW j \in Jobs, Requeue(j)
       PROVE  row'[i].leased
  <2>1. j # i /\ x \notin lost BY <1>1, <1>12 DEF Requeue
  <2>2. row'[i] = row[i] BY <1>1, <1>12, <2>1 DEF Requeue, TypeOK
  <2> QED BY <1>2, <2>1, <2>2
<1> QED BY <1>4, <1>5, <1>6, <1>7, <1>8, <1>9, <1>10, <1>11, <1>12
        DEF Next, Step, NoClaim

\* A handler that has lost nothing after such a step holds its token.
LEMMA TokenHeld ==
  ASSUME IInv, [Next]_vars, NoClaim,
         NEW x \in Workers, AtWork(x)', x \notin lost'
  PROVE  Holds(x)
<1> USE DEF IInv, Busy, AtWork, Goes, Keeps
<1>1. AtWork(x) BY TokensKept
<1>2. x \notin lost => Holds(x) BY <1>1 DEF LiveHolds
<1>3. CASE UNCHANGED vars BY <1>2, <1>3 DEF vars
<1>4. ASSUME NEW w \in Workers, Keepalive(w) PROVE Holds(x)
  BY <1>2, <1>4 DEF Keepalive
<1>5. ASSUME NEW w \in Workers, GivesUp(w) \/ Crash(w) \/ MarksDone(w)
      PROVE  Holds(x)
  <2>1. worker'[w].pc = "idle" BY <1>5 DEF GivesUp, Crash, MarksDone, TypeOK, Idle
  <2> QED BY <1>2, <1>5, <2>1 DEF GivesUp, Crash, MarksDone
<1>6. CASE lost \subseteq lost' BY <1>2, <1>6
<1>7. \/ UNCHANGED vars \/ lost \subseteq lost'
      \/ \E w \in Workers : Keepalive(w)
      \/ \E w \in Workers : GivesUp(w) \/ Crash(w) \/ MarksDone(w)
  BY DEF Next, Step, NoClaim, HandlerReturns, HandlerThrows, Reports, LeaseLost,
         MaintenanceFails, MaintenanceSucceeds, Enqueue, LeaseRunsOut, BackoffEnds,
         Requeue
<1> QED BY <1>3, <1>4, <1>5, <1>6, <1>7

\* Every step keeps that a handler that lost nothing is under its own lease.
LEMMA StepHolds ==
  ASSUME IInv, [Next]_vars
  PROVE  LiveHolds'
<1> USE DEF IInv, Busy, AtWork, Goes, Keeps
<1>1. CASE NoClaim
  <2>1. ASSUME NEW x \in Workers, AtWork(x)', x \notin lost'
        PROVE  /\ worker'[x].job \in Jobs
               /\ row'[worker'[x].job].token = worker'[x].token
               /\ row'[worker'[x].job].leased
    <3>1. Holds(x) BY <1>1, <2>1, TokenHeld
    <3>2. worker'[x].job = worker[x].job /\ worker'[x].token = worker[x].token
      BY <1>1, <2>1, TokensKept
    <3>3. row'[worker[x].job].leased BY <1>1, <2>1, LeaseKept
    <3>4. row'[worker[x].job].token = row[worker[x].job].token
      BY <1>1, <3>1, TokensKept DEF Holds
    <3> QED BY <3>1, <3>2, <3>3, <3>4 DEF Holds
  <2> QED BY <2>1 DEF LiveHolds, Holds
<1>2. ASSUME NEW w \in Workers, NEW j \in Jobs, Claim(w, j)
      PROVE  LiveHolds'
  <2>1. ASSUME NEW x \in Workers, AtWork(x)', x \notin lost'
        PROVE  /\ worker'[x].job \in Jobs
               /\ row'[worker'[x].job].token = worker'[x].token
               /\ row'[worker'[x].job].leased
    <3>1. CASE x = w BY <1>2, <3>1, ClaimEffect
    <3>2. CASE x # w
      <4>1. worker'[x] = worker[x] /\ Holds(x) /\ row[worker[x].job].leased
        BY <1>2, <2>1, <3>2, ClaimEffect DEF LiveHolds
      <4>2. worker[x].job # j BY <1>2, <4>1, ClaimEffect
      <4> QED BY <1>2, <4>1, <4>2, ClaimEffect DEF Holds
    <3> QED BY <3>1, <3>2
  <2> QED BY <2>1 DEF LiveHolds, Holds
<1> QED BY <1>1, <1>2 DEF NoClaim

\* Every step keeps that who is at rest has lost nothing.
LEMMA StepLost ==
  ASSUME IInv, [Next]_vars
  PROVE  LostIsBusy'
<1> USE DEF IInv, Busy, LostIsBusy
<1>1. CASE UNCHANGED vars BY <1>1 DEF vars
<1>2. ASSUME NEW w \in Workers, NEW j \in Jobs, Claim(w, j)
      PROVE  LostIsBusy'
  BY <1>2, ClaimEffect DEF TypeOK
<1>3. ASSUME NEW w \in Workers,
             HandlerReturns(w) \/ HandlerThrows(w) \/ Reports(w)
      PROVE  LostIsBusy'
  BY <1>3 DEF HandlerReturns, HandlerThrows, Reports, Goto, TypeOK, Task
<1>4. ASSUME NEW w \in Workers, MarksDone(w) \/ GivesUp(w) \/ Crash(w)
      PROVE  LostIsBusy'
  BY <1>4 DEF MarksDone, GivesUp, Crash, TypeOK
<1>5. ASSUME NEW w \in Workers,
             Keepalive(w) \/ LeaseLost(w) \/ MaintenanceFails(w)
             \/ MaintenanceSucceeds(w)
      PROVE  LostIsBusy'
  BY <1>5 DEF Keepalive, LeaseLost, MaintenanceFails, MaintenanceSucceeds
<1>6. ASSUME NEW j \in Jobs,
             Enqueue(j) \/ LeaseRunsOut(j) \/ BackoffEnds(j) \/ Requeue(j)
      PROVE  LostIsBusy'
  BY <1>6 DEF Enqueue, LeaseRunsOut, BackoffEnds, Requeue
<1> QED BY <1>1, <1>2, <1>3, <1>4, <1>5, <1>6 DEF Next, Step

\* The attempts of a job that count are finitely many.
LEMMA SomeAttempts ==
  ASSUME NEW a \in Nat, NEW b \in Nat, NEW S \in SUBSET (a .. b)
  PROVE  IsFiniteSet(S) /\ Cardinality(S) \in Nat
<1>1. IsFiniteSet(a .. b) BY FS_Interval
<1>2. IsFiniteSet(S) BY <1>1, FS_Subset
<1> QED BY <1>2, FS_CardinalityType

\* Whoever owes a report goes on owing it, or makes it, unless a fault comes between.
LEMMA StillOwes ==
  ASSUME IInv, [Next]_vars, NoClaim,
         NEW x \in Workers, NEW j \in Jobs, NEW k \in ReportFrom .. row[j].attempts,
         Owes(x, j, k), row'[j].attempts # 0, ~row'[j].done, j \notin incidents',
         ~Crash(x), ~LeaseLost(x)
  PROVE  Owes(x, j, k)'
<1> USE DEF IInv, Busy, AtWork
<1>1. /\ row'[j].token = row[j].token /\ row'[j].attempts = row[j].attempts
      /\ row[j].attempts # 0
  BY TokensKept DEF Keeps
<1>2. worker[x].pc # "idle" BY DEF Owes
<1>3. SUFFICES /\ worker'[x].pc # "idle"
               /\ \/ worker'[x].pc = "failing"
                  \/ AtWork(x)' /\ x \notin lost'
  <2>1. ASSUME worker'[x].pc # "idle"
        PROVE  /\ worker'[x].job = j /\ worker'[x].attempt = k
               /\ worker'[x].token + row'[j].attempts = row'[j].token + k
    BY <1>1, <2>1, TokensKept DEF Goes, Owes
  <2> QED BY <2>1 DEF Owes
<1>4. CASE UNCHANGED vars BY <1>4 DEF vars, Owes
<1>5. ASSUME NEW w \in Workers, w # x,
             \/ HandlerReturns(w) \/ HandlerThrows(w) \/ Reports(w)
             \/ MarksDone(w) \/ GivesUp(w) \/ Crash(w) \/ LeaseLost(w)
      PROVE  worker'[x] = worker[x] /\ (x \in lost' => x \in lost)
  BY <1>5 DEF HandlerReturns, HandlerThrows, Reports, MarksDone, GivesUp, Crash,
              LeaseLost, Goto, TypeOK
<1>6. CASE HandlerReturns(x) BY <1>6 DEF HandlerReturns, Goto, TypeOK, Task, Owes
<1>7. CASE HandlerThrows(x) BY <1>7 DEF HandlerThrows, Goto, TypeOK, Task, Owes
<1>8. CASE Reports(x)
  <2>1. worker[x].attempt >= ReportFrom /\ worker[x].job = j
    BY JobQueueAssumption DEF Owes
  <2> QED BY <1>8, <2>1 DEF Reports
<1>9. CASE MarksDone(x)
  <2>1. worker[x].job = j /\ x \notin lost /\ AtWork(x) BY <1>9 DEF MarksDone, Owes
  <2>2. Holds(x) BY <2>1 DEF LiveHolds
  <2>3. row'[j].done BY <1>9, <2>1, <2>2 DEF MarksDone, TypeOK, Row
  <2> QED BY <2>3
<1>10. CASE GivesUp(x) BY <1>10 DEF GivesUp, Owes
<1>11. ASSUME NEW w \in Workers,
              Keepalive(w) \/ MaintenanceFails(w) \/ MaintenanceSucceeds(w)
       PROVE  worker'[x] = worker[x] /\ (x \in lost' => x \in lost)
  BY <1>11 DEF Keepalive, MaintenanceFails, MaintenanceSucceeds
<1>12. ASSUME NEW i \in Jobs,
              Enqueue(i) \/ LeaseRunsOut(i) \/ BackoffEnds(i)
       PROVE  worker'[x] = worker[x] /\ (x \in lost' => x \in lost)
  BY <1>12 DEF Enqueue, LeaseRunsOut, BackoffEnds
<1>13. ASSUME NEW i \in Jobs, Requeue(i)
       PROVE  worker'[x] = worker[x] /\ (x \in lost' => x \in lost)
  <2>1. i # j BY <1>13 DEF Requeue, TypeOK, Row
  <2> QED BY <1>13, <2>1 DEF Requeue, Owes
<1>14. ASSUME worker'[x] = worker[x], x \in lost' => x \in lost
       PROVE  /\ worker'[x].pc # "idle"
              /\ \/ worker'[x].pc = "failing"
                 \/ AtWork(x)' /\ x \notin lost'
  BY <1>14 DEF Owes
<1>15. \/ UNCHANGED vars
       \/ \E w \in Workers :
            \/ HandlerReturns(w) \/ HandlerThrows(w) \/ Reports(w)
            \/ MarksDone(w) \/ GivesUp(w) \/ Crash(w) \/ LeaseLost(w)
       \/ \E w \in Workers : Keepalive(w) \/ MaintenanceFails(w) \/ MaintenanceSucceeds(w)
       \/ \E i \in Jobs : Enqueue(i) \/ LeaseRunsOut(i) \/ BackoffEnds(i)
       \/ \E i \in Jobs : Requeue(i)
  BY DEF Next, Step, NoClaim
<1>16. CASE \E w \in Workers :
              \/ HandlerReturns(w) \/ HandlerThrows(w) \/ Reports(w)
              \/ MarksDone(w) \/ GivesUp(w) \/ Crash(w) \/ LeaseLost(w)
  <2>1. PICK w \in Workers :
          \/ HandlerReturns(w) \/ HandlerThrows(w) \/ Reports(w)
          \/ MarksDone(w) \/ GivesUp(w) \/ Crash(w) \/ LeaseLost(w)
    BY <1>16
  <2>2. CASE w # x BY <1>5, <1>14, <2>1, <2>2
  <2>3. CASE w = x BY <1>6, <1>7, <1>8, <1>9, <1>10, <2>1, <2>3
  <2> QED BY <2>2, <2>3
<1> QED BY <1>4, <1>11, <1>12, <1>13, <1>14, <1>15, <1>16

\* Every step keeps the account: a fault pays for the one attempt that it undoes.
LEMMA StepAccounted ==
  ASSUME IInv, [Next]_vars, TypeOK'
  PROVE  Accounted'
<1> USE DEF IInv
<1> SUFFICES ASSUME NEW j \in Jobs, ~row'[j].done, j \notin incidents'
             PROVE  Cardinality(Unreported(j)') <= faults'
  BY DEF Accounted
<1>1. /\ faults \in Nat /\ faults' \in Nat /\ ReportFrom \in Nat /\ ReportFrom >= 1
      /\ row[j].attempts \in Nat /\ row'[j].attempts \in Nat
  BY JobQueueAssumption DEF TypeOK, Row
<1>2. /\ Unreported(j) \in SUBSET (ReportFrom .. row[j].attempts)
      /\ Unreported(j)' \in SUBSET (ReportFrom .. row'[j].attempts)
  BY DEF Unreported
<1>3. /\ IsFiniteSet(Unreported(j)) /\ Cardinality(Unreported(j)) \in Nat
      /\ IsFiniteSet(Unreported(j)') /\ Cardinality(Unreported(j)') \in Nat
  BY <1>1, <1>2, SomeAttempts
<1>4. faults' >= faults /\ incidents \subseteq incidents'
  <2>1. faults' = faults \/ faults' = faults + 1
    BY DEF Next, Step, vars, Claim, HandlerReturns, HandlerThrows, Reports, MarksDone,
       GivesUp, Crash, LeaseLost, Keepalive, MaintenanceFails, MaintenanceSucceeds,
       Enqueue, LeaseRunsOut, BackoffEnds, Requeue
  <2>2. incidents' = incidents \/ \E w \in Workers : Reports(w)
    BY DEF Next, Step, vars, Claim, HandlerReturns, HandlerThrows, MarksDone,
       GivesUp, Crash, LeaseLost, Keepalive, MaintenanceFails, MaintenanceSucceeds,
       Enqueue, LeaseRunsOut, BackoffEnds, Requeue
  <2>3. incidents \subseteq incidents' BY <2>2 DEF Reports
  <2> QED BY <1>1, <2>1, <2>3
<1>5. ASSUME Unreported(j)' \subseteq Unreported(j), ~row[j].done
      PROVE  Cardinality(Unreported(j)') <= faults'
  <2>1. Cardinality(Unreported(j)') <= Cardinality(Unreported(j))
    BY <1>3, <1>5, FS_Subset
  <2>2. Cardinality(Unreported(j)) <= faults BY <1>4, <1>5 DEF Accounted
  <2> QED BY <1>1, <1>3, <1>4, <2>1, <2>2
<1>6. CASE row'[j].attempts = 0
  <2>1. Unreported(j)' = {} BY <1>1, <1>2, <1>6
  <2> QED BY <1>1, <2>1, FS_EmptySet
<1>7. ASSUME NEW w \in Workers, NEW i \in Jobs, Claim(w, i)
      PROVE  Cardinality(Unreported(j)') <= faults'
  <2>1. w \notin lost' BY <1>7, ClaimEffect DEF LostIsBusy
  <2>2. ~row[j].done BY <1>7, ClaimEffect
  <2>3. CASE i # j
    <3>1. row'[j] = row[j] BY <1>7, <2>3, ClaimEffect
    <3>2. ASSUME NEW x \in Workers, NEW k \in ReportFrom .. row[j].attempts, Owes(x, j, k)
          PROVE  Owes(x, j, k)'
      <4>1. x # w BY <1>7, <3>2, ClaimEffect DEF Owes, Busy, AtWork
      <4> QED BY <1>7, <3>1, <3>2, <4>1, ClaimEffect DEF Owes, AtWork
    <3>3. Unreported(j)' \subseteq Unreported(j) BY <3>1, <3>2 DEF Unreported
    <3> QED BY <1>5, <2>2, <3>3
  <2>4. CASE i = j
    <3>1. /\ row'[j].attempts = row[j].attempts + 1 /\ row'[j].token = row[j].token + 1
          /\ row[j].token \in Nat
      BY <1>7, <2>4, ClaimEffect DEF TypeOK, Row
    <3> DEFINE n == row[j].attempts + 1
    <3> PICK m \in Nat : m = n BY <1>1
    <3>2. Owes(w, j, m)'
      <4>1. /\ worker'[w].job = j /\ worker'[w].attempt = row[j].attempts + 1
            /\ worker'[w].token = row[j].token + 1 /\ worker'[w].pc = "handling"
        BY <1>7, <2>4, ClaimEffect
      <4> QED BY <1>1, <2>1, <3>1, <4>1 DEF Owes, AtWork
    <3>3. ASSUME NEW x \in Workers, NEW k \in ReportFrom .. row[j].attempts, Owes(x, j, k)
          PROVE  Owes(x, j, k)'
      <4>1. x # w BY <1>7, <3>3, ClaimEffect DEF Owes, Busy, AtWork
      <4>2. worker'[x] = worker[x] /\ lost' = lost BY <1>7, <4>1, ClaimEffect
      <4>3. worker[x].token \in Nat BY DEF TypeOK, Task
      <4>4. worker[x].token + row'[j].attempts = row'[j].token + k
        BY <1>1, <3>1, <3>3, <4>3 DEF Owes
      <4> QED BY <3>3, <4>2, <4>4 DEF Owes, AtWork
    <3>4. Unreported(j)' \subseteq Unreported(j)
      <4> SUFFICES ASSUME NEW k \in Unreported(j)' PROVE k \in Unreported(j) OBVIOUS
      <4>1. k \in ReportFrom .. row'[j].attempts /\ \A x \in Workers : ~Owes(x, j, k)'
        BY DEF Unreported
      <4>2. k # n BY <3>2, <4>1
      <4>3. k \in ReportFrom .. row[j].attempts BY <1>1, <3>1, <4>1, <4>2
      <4> QED BY <3>3, <4>1, <4>3 DEF Unreported
    <3> QED BY <1>5, <2>2, <3>4
  <2> QED BY <2>3, <2>4
<1>8. CASE NoClaim /\ row'[j].attempts # 0
  <2>1. row'[j].attempts = row[j].attempts /\ ~row[j].done
    BY <1>8, TokensKept DEF Keeps
  <2>2. CASE \A w \in Workers : ~Crash(w) /\ ~LeaseLost(w)
    <3>1. \A x \in Workers, k \in ReportFrom .. row[j].attempts :
            Owes(x, j, k) => Owes(x, j, k)'
      BY <1>8, <2>2, StillOwes
    <3>2. Unreported(j)' \subseteq Unreported(j) BY <2>1, <3>1 DEF Unreported
    <3> QED BY <1>5, <2>1, <3>2
  <2>3. ASSUME NEW w \in Workers, Crash(w) \/ LeaseLost(w)
        PROVE  Cardinality(Unreported(j)') <= faults'
    <3> DEFINE a == worker[w].attempt
    <3>1. faults' = faults + 1 BY <2>3 DEF Crash, LeaseLost
    <3>2. ASSUME NEW x \in Workers, x # w PROVE ~Crash(x) /\ ~LeaseLost(x)
      <4>1. worker[x].pc # "idle" /\ x \notin lost
            => worker'[x] = worker[x] /\ x \notin lost'
        BY <2>3, <3>2 DEF Crash, LeaseLost, TypeOK
      <4>2. worker'[x] = worker[x] BY <2>3, <3>2 DEF Crash, LeaseLost, TypeOK
      <4>3. Crash(x) => worker'[x].pc = "idle" /\ worker[x].pc # "idle"
        BY DEF Crash, Busy, Idle, TypeOK
      <4>4. ~Crash(x) BY <4>2, <4>3
      <4>5. LeaseLost(x) => row[worker[x].job].leased /\ ~row'[worker[x].job].leased
                            /\ Holds(x) /\ Busy(x) /\ worker' = worker
        BY DEF LeaseLost, Holds, TypeOK, Row
      <4>6. CASE Crash(w) BY <4>4, <4>5, <4>6 DEF Crash
      <4>7. CASE LeaseLost(w) /\ LeaseLost(x)
        <5>1. worker[x].job # worker[w].job
          BY <3>2, <4>7, OneHolder DEF LeaseLost
        <5> QED BY <4>5, <4>7, <5>1 DEF LeaseLost, Holds, TypeOK
      <4> QED BY <2>3, <4>4, <4>6, <4>7
    <3>3. \A x \in Workers, k \in ReportFrom .. row[j].attempts :
            x # w /\ Owes(x, j, k) => Owes(x, j, k)'
      BY <1>8, <3>2, StillOwes
    <3>4. Unreported(j)' \subseteq Unreported(j) \cup {a}
      <4> SUFFICES ASSUME NEW k \in Unreported(j)', k # a PROVE k \in Unreported(j)
        OBVIOUS
      <4>1. k \in ReportFrom .. row[j].attempts /\ \A x \in Workers : ~Owes(x, j, k)'
        BY <2>1 DEF Unreported
      <4>2. ~Owes(w, j, k) BY DEF Owes
      <4> QED BY <3>3, <4>1, <4>2 DEF Unreported
    <3> HIDE DEF a
    <3>5. /\ IsFiniteSet(Unreported(j) \cup {a})
          /\ Cardinality(Unreported(j) \cup {a})
               = IF a \in Unreported(j) THEN Cardinality(Unreported(j))
                 ELSE Cardinality(Unreported(j)) + 1
      BY <1>3, FS_AddElement
    <3>6. Cardinality(Unreported(j)') <= Cardinality(Unreported(j) \cup {a})
      BY <3>4, <3>5, FS_Subset
    <3>7. Cardinality(Unreported(j)) <= faults BY <1>4, <2>1 DEF Accounted
    <3> QED BY <1>1, <1>3, <3>1, <3>5, <3>6, <3>7
  <2> QED BY <2>2, <2>3
<1> QED BY <1>6, <1>7, <1>8 DEF NoClaim

-----------------------------------------------------------------------------
\* Every state reached satisfies the inductive invariant.
THEOREM JobQueueInvariant == Spec => []IInv
<1>1. IInv /\ [Next]_vars => IInv'
  BY StepType, StepTokens, StepHolds, StepLost, StepAccounted DEF IInv
<1> QED BY InitIInv, <1>1, PTL DEF Spec

\* The rows and the processes of worker.ts keep their types; attempts never
\* pass the limit.
THEOREM JobQueueTypeOK == Spec => []TypeOK
<1>1. IInv => TypeOK BY DEF IInv
<1> QED BY JobQueueInvariant, <1>1, PTL

\* Two processes run a job's handler at once only after one of them has lost
\* its lease (worker.ts tick).
THEOREM JobQueueOverlap == Spec => []OverlapOnlyAfterLoss
<1>1. IInv => OverlapOnlyAfterLoss
  BY OneHolder DEF IInv, LiveHolds, OverlapOnlyAfterLoss, Busy, AtWork
<1> QED BY JobQueueInvariant, <1>1, PTL

\* A job that no one will try again is on the operator's list, as long as there are
\* not as many faults as attempts that report (worker.ts, the statements after a
\* handler has thrown).
THEOREM JobQueueReported == Spec => []ReportedUnlessCrashing
<1>1. IInv => ReportedUnlessCrashing
  <2> SUFFICES ASSUME IInv, faults <= MaxAttempts - ReportFrom,
                      NEW j \in Jobs, Exhausted(j), j \notin incidents
               PROVE  FALSE
    BY DEF ReportedUnlessCrashing
  <2>1. Unreported(j) = ReportFrom .. MaxAttempts
    BY DEF Unreported, Exhausted, Owes
  <2>2. Cardinality(ReportFrom .. MaxAttempts) = MaxAttempts - ReportFrom + 1
    BY JobQueueAssumption, FS_Interval
  <2>3. Cardinality(Unreported(j)) <= faults BY DEF IInv, Accounted, Exhausted
  <2>4. faults \in Nat /\ MaxAttempts \in Nat /\ ReportFrom \in Nat
    BY JobQueueAssumption DEF IInv, TypeOK
  <2> QED BY <2>1, <2>2, <2>3, <2>4
<1> QED BY JobQueueInvariant, <1>1, PTL

\* A superseded process does not touch the row of its job (the lease token of
\* worker.ts).
THEOREM JobQueueSuperseded == Spec => SupersededIsHarmless
<1> DEFINE Kept == \A j \in Jobs, w \in Workers :
                     /\ worker'[w] # worker[w] /\ worker[w].job = j /\ ~Holds(w)
                     => row'[j] = row[j]
<1>1. ASSUME IInv, [Next]_vars PROVE [Kept]_vars
  <2> SUFFICES ASSUME NEW j \in Jobs, NEW w \in Workers,
                      worker'[w] # worker[w], worker[w].job = j, ~Holds(w)
               PROVE  row'[j] = row[j]
    OBVIOUS
  <2> USE <1>1 DEF IInv
  <2>1. Busy(w) BY JobQueueAssumption DEF BusyHasJob
  <2>2. ASSUME NEW x \in Workers, NEW i \in Jobs, Claim(x, i) PROVE FALSE
    BY <2>1, <2>2, ClaimEffect
  <2>3. ASSUME worker' = worker \/ row' = row PROVE row'[j] = row[j]
    BY <2>3
  <2>4. ASSUME NEW x \in Workers, MarksDone(x) \/ HandlerThrows(x)
        PROVE  row'[j] = row[j]
    <3>1. x = w BY <2>4 DEF MarksDone, HandlerThrows, Goto, TypeOK
    <3> QED BY <2>4, <3>1 DEF MarksDone, HandlerThrows
  <2>5. \/ worker' = worker \/ row' = row
        \/ \E x \in Workers, i \in Jobs : Claim(x, i)
        \/ \E x \in Workers : MarksDone(x) \/ HandlerThrows(x)
    BY DEF Next, Step, vars, HandlerReturns, Reports, GivesUp, Keepalive, Crash,
           LeaseLost, MaintenanceFails, MaintenanceSucceeds, Enqueue,
           LeaseRunsOut, BackoffEnds, Requeue
  <2> QED BY <2>2, <2>3, <2>4, <2>5
<1> QED BY JobQueueInvariant, <1>1, PTL DEF Spec, SupersededIsHarmless

\* An installed tenant is never declared failed by a late attempt (worker.ts,
\* the statement after the attempt limit; scripts/retry-provision.ts).
THEOREM JobQueueInstalled == Spec => StaysInstalled
<1>1. ASSUME IInv, [Next]_vars, NEW j \in ProvisionJobs, tenant[j] = "installed"
      PROVE  tenant'[j] = "installed"
  <2>1. tenant' = tenant \/ (\E w \in Workers : HandlerReturns(w) \/ GivesUp(w))
        \/ (\E i \in Jobs : Requeue(i))
    BY <1>1 DEF Next, Step, vars, Claim, MarksDone, HandlerThrows, Reports,
       Keepalive, Crash, LeaseLost, MaintenanceFails, MaintenanceSucceeds, Enqueue,
       LeaseRunsOut, BackoffEnds
  <2>2. ASSUME NEW w \in Workers, HandlerReturns(w) \/ GivesUp(w)
        PROVE  tenant'[j] = "installed"
    BY <1>1, <2>2 DEF HandlerReturns, GivesUp
  <2>3. ASSUME NEW i \in Jobs, Requeue(i) PROVE tenant'[j] = "installed"
    BY <1>1, <2>3 DEF Requeue, IInv, TypeOK
  <2> QED BY <1>1, <2>1, <2>2, <2>3
<1>2. IInv /\ [Next]_vars
      => [\A j \in ProvisionJobs : tenant[j] = "installed" => tenant'[j] = "installed"]_vars
  BY <1>1
<1> QED BY JobQueueInvariant, <1>2, PTL DEF Spec, StaysInstalled
=============================================================================
