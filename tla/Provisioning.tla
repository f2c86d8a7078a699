----------------------------- MODULE Provisioning -----------------------------
(***************************************************************************)
(* One paid tenant on its way to a server (src/src/provision.ts): the      *)
(* handler of its provision job, which holds the tenant's advisory lock;   *)
(* the provider, whose answers may be lost while its work is done; the new *)
(* server, which fetches its bundle with a token that works once; and the  *)
(* operator's scripts/retry-provision.ts, which takes no lock.             *)
(*                                                                         *)
(* A request to create a server, its token, its bundle and its inference   *)
(* key are made together and carry one number here; that of a request the  *)
(* provider refuses, whose traces are all wiped, is used again.            *)
(***************************************************************************)
EXTENDS Naturals, FiniteSets

CONSTANTS
  MaxCreates,    \* bound: numbers of requests
  MaxTries,      \* attempts of the job: 20 in the code
  ReportFrom,    \* the first attempt whose failure is reported: 5 in the code
  MaxFaults,     \* bound: calls that fail or are not answered, processes that die
  MaxRequeues    \* bound: interventions of the operator

ASSUME ProvisioningAssumption ==
  /\ MaxCreates \in Nat \ {0} /\ MaxTries \in Nat /\ ReportFrom \in Nat
  /\ MaxFaults \in Nat /\ MaxRequeues \in Nat

None == 0
Creates == 1 .. MaxCreates
Maybe == Creates \cup {None}

VARIABLES
  row,        \* the tenant's row in table tenants
  job,        \* its provision job, and whether its failures were reported
  handler,    \* the process that holds the lock, with the number of its attempt,
              \* whether the job is still its own, and what it has read
  script,     \* the operator's script, with what it has read
  requests,   \* what became of each request to create a server
  server,     \* its server, if there is one
  dns,        \* the server the DNS record points to
  incident,   \* provider_create_ambiguous
  entitled,   \* paid_until or grace_until is in the future
  faults, requeues

vars == <<row, job, handler, script, requests, server, dns, incident,
          entitled, faults, requeues>>
provider == <<requests, server, dns>>

Idle == [pc |-> "idle", attempt |-> 0, holds |-> FALSE, provider |-> None,
         attempted |-> FALSE, server |-> None]
NoScript == [pc |-> "idle", found |-> None, confirmed |-> FALSE]

Rows == [state : {"provisioning", "failed", "awaiting_setup"},
         provider : Maybe, attempted : BOOLEAN, hash : Maybe,
         expired : BOOLEAN, bundle : Maybe, key : Maybe, dns : BOOLEAN]
Jobs == [tries : 0 .. MaxTries, done : BOOLEAN, reported : BOOLEAN]
Steps == {"idle", "looking", "persisting", "creating", "awaiting", "clearing",
          "recording", "naming", "named", "checking", "finishing", "finished"}
Handlers == [pc : Steps, attempt : 0 .. MaxTries, holds : BOOLEAN, provider : Maybe,
             attempted : BOOLEAN, server : Maybe]
Machines == [plain : BOOLEAN, addressed : BOOLEAN, asked : BOOLEAN, bundle : Maybe]

TypeOK ==
  /\ row \in Rows /\ job \in Jobs
  /\ handler \in Handlers
  /\ script \in [pc : {"idle", "adopting", "committing"}, found : Maybe,
                 confirmed : BOOLEAN]
  /\ requests \in [Creates -> {"unsent", "sent", "fulfilled", "lost"}]
  /\ server \in [Creates -> Machines]
  /\ dns \in Maybe
  /\ incident \in BOOLEAN /\ entitled \in BOOLEAN
  /\ faults \in 0 .. MaxFaults
  /\ requeues \in 0 .. MaxRequeues

NoServer == [plain |-> FALSE, addressed |-> FALSE, asked |-> FALSE, bundle |-> None]

Init ==
  /\ row = [state |-> "provisioning", provider |-> None, attempted |-> FALSE,
            hash |-> None, expired |-> FALSE, bundle |-> None, key |-> None,
            dns |-> FALSE]
  /\ job = [tries |-> 0, done |-> FALSE, reported |-> FALSE]
  /\ handler = Idle
  /\ script = NoScript
  /\ requests = [n \in Creates |-> "unsent"]
  /\ server = [n \in Creates |-> NoServer]
  /\ dns = None
  /\ incident = FALSE
  /\ entitled = TRUE
  /\ faults = 0
  /\ requeues = 0

Servers == {n \in Creates : requests[n] = "fulfilled"}

Exhausted == job.done \/ job.tries = MaxTries

-----------------------------------------------------------------------------
(* The handler *)

Goto(pc) == handler' = [handler EXCEPT !.pc = pc]

\* An attempt fails (the catch of worker.ts): from the fifth on it is reported,
\* and after the last one the tenant is marked failed. Its number is that of its
\* claim, whatever the operator has made of the job since.
Failed(attempt, j, t) ==
  /\ job' = [j EXCEPT !.reported = @ \/ attempt >= ReportFrom]
  /\ row' = IF attempt = MaxTries /\ t.state = "provisioning"
            THEN [t EXCEPT !.state = "failed"] ELSE t

Ended(t) == handler' = Idle /\ Failed(handler.attempt, job, t)

Throw == Ended(row)

\* The job is claimed.
Claimed == [job EXCEPT !.tries = @ + 1]

Begins ==
  handler' = [pc |-> "looking", attempt |-> Claimed.tries, holds |-> TRUE,
              provider |-> row.provider, attempted |-> row.attempted, server |-> None]

\* Mutant: a tenant that is not paid for is passed over without an error.
PassesOver ==
  /\ handler.pc = "idle" /\ ~Exhausted
  /\ IF entitled
     THEN Begins /\ job' = Claimed /\ UNCHANGED row
     ELSE /\ job' = [Claimed EXCEPT !.done = TRUE]
          /\ UNCHANGED <<handler, row>>
  /\ UNCHANGED <<script, provider, incident, entitled, faults, requeues>>

\* ENTITLEMENT_EXPIRED is an error of the attempt like any other.
Starts ==
  /\ handler.pc = "idle" /\ ~Exhausted
  /\ \/ entitled /\ Begins /\ job' = Claimed /\ UNCHANGED row
     \/ ~entitled /\ Failed(Claimed.tries, Claimed, row) /\ UNCHANGED handler
  /\ UNCHANGED <<script, provider, incident, entitled, faults, requeues>>

Adopts(n) ==
  /\ handler' = [handler EXCEPT !.pc = "recording", !.server = n]
  /\ UNCHANGED <<row, job, incident>>

\* Mutant: a lookup that finds nothing is taken for an answer.
LooksOnce ==
  /\ handler.pc = "looking"
  /\ \/ /\ handler.provider # None /\ Adopts(handler.provider)
     \/ /\ handler.provider = None
        /\ \/ Cardinality(Servers) > 1 /\ Throw /\ UNCHANGED incident
           \/ Cardinality(Servers) = 1 /\ \E n \in Servers : Adopts(n)
           \/ /\ Servers = {}
              /\ Goto("persisting") /\ UNCHANGED <<row, job, incident>>
  /\ UNCHANGED <<script, provider, entitled, faults, requeues>>

\* Mutant: nobody is told.
LooksQuietly ==
  /\ handler.pc = "looking"
  /\ \/ /\ handler.provider # None /\ Adopts(handler.provider)
     \/ /\ handler.provider = None
        /\ \/ Cardinality(Servers) > 1 /\ Throw /\ UNCHANGED incident
           \/ Cardinality(Servers) = 1 /\ \E n \in Servers : Adopts(n)
           \/ Servers = {} /\ handler.attempted /\ Throw /\ UNCHANGED incident
           \/ /\ Servers = {} /\ ~handler.attempted
              /\ Goto("persisting") /\ UNCHANGED <<row, job, incident>>
  /\ UNCHANGED <<script, provider, entitled, faults, requeues>>

\* Mutant: a server that another try asked for is not adopted.
LooksForOwn ==
  /\ handler.pc = "looking"
  /\ \/ /\ handler.provider # None /\ Adopts(handler.provider)
     \/ /\ handler.provider = None
        /\ \/ handler.attempted /\ Throw /\ incident' = TRUE
           \/ /\ ~handler.attempted
              /\ Goto("persisting") /\ UNCHANGED <<row, job, incident>>
  /\ UNCHANGED <<script, provider, entitled, faults, requeues>>

\* The server recorded, or the one that carries the tenant's hostname. Where
\* there is none, a new one is asked for unless one has been asked for before.
Looks ==
  /\ handler.pc = "looking"
  /\ \/ /\ handler.provider # None /\ Adopts(handler.provider)
     \/ /\ handler.provider = None
        /\ \/ Cardinality(Servers) > 1 /\ Throw /\ UNCHANGED incident
           \/ Cardinality(Servers) = 1 /\ \E n \in Servers : Adopts(n)
           \/ Servers = {} /\ handler.attempted /\ Throw /\ incident' = TRUE
           \/ /\ Servers = {} /\ ~handler.attempted
              /\ Goto("persisting") /\ UNCHANGED <<row, job, incident>>
  /\ UNCHANGED <<script, provider, entitled, faults, requeues>>

\* Mutant: the inference key of an earlier request is kept.
KeepsKey(n) ==
  [row EXCEPT !.state = "provisioning", !.attempted = TRUE, !.hash = n,
              !.expired = FALSE, !.bundle = n, !.key = IF @ = None THEN n ELSE @]

Attempt(n) ==
  [row EXCEPT !.state = "provisioning", !.attempted = TRUE, !.hash = n,
              !.expired = FALSE, !.bundle = n, !.key = n]

\* The attempt is saved before the request is sent.
Persists ==
  /\ handler.pc = "persisting"
  /\ \E n \in Creates :
       /\ requests[n] = "unsent" /\ \A m \in Creates : m < n => requests[m] # "unsent"
       /\ row' = Attempt(n)
       /\ handler' = [handler EXCEPT !.pc = "creating", !.server = n]
  /\ UNCHANGED <<job, script, provider, incident, entitled, faults, requeues>>

Sends ==
  /\ handler.pc = "creating"
  /\ requests' = [requests EXCEPT ![handler.server] = "sent"]
  /\ Goto("awaiting")
  /\ UNCHANGED <<row, job, script, server, dns, incident, entitled, faults, requeues>>

Created ==
  /\ handler.pc = "awaiting" /\ requests[handler.server] = "fulfilled"
  /\ Goto("recording")
  /\ UNCHANGED <<row, job, script, provider, incident, entitled, faults, requeues>>

\* No answer is coming: the call is abandoned after half a minute.
TimesOut ==
  /\ handler.pc = "awaiting" /\ requests[handler.server] = "lost"
  /\ Throw
  /\ UNCHANGED <<script, provider, incident, entitled, faults, requeues>>

\* An explicit refusal (createRejected).
Rejected ==
  /\ handler.pc = "awaiting" /\ requests[handler.server] = "sent"
  /\ requests' = [requests EXCEPT ![handler.server] = "lost"]
  /\ Goto("clearing")
  /\ UNCHANGED <<row, job, script, server, dns, incident, entitled, faults, requeues>>

Clears ==
  /\ handler.pc = "clearing"
  /\ Ended([row EXCEPT !.attempted = FALSE, !.hash = None, !.bundle = None,
                       !.key = None])
  /\ requests' = [requests EXCEPT ![handler.server] = "unsent"]
  /\ UNCHANGED <<script, server, dns, incident, entitled, faults, requeues>>

\* Mutant: the evidence of encryption is not looked at.
RecordsAny ==
  LET n == handler.server
      t == [row EXCEPT !.provider = n]
  IN
  /\ handler.pc = "recording"
  /\ IF ~server[n].addressed
     THEN Ended(t)
     ELSE Goto("naming") /\ row' = t /\ UNCHANGED job
  /\ UNCHANGED <<script, provider, incident, entitled, faults, requeues>>

\* The server is recorded even if it turns out not to be usable.
Records ==
  LET n == handler.server
      t == [row EXCEPT !.provider = n]
  IN
  /\ handler.pc = "recording"
  /\ IF server[n].plain \/ ~server[n].addressed
     THEN Ended(t)
     ELSE Goto("naming") /\ row' = t /\ UNCHANGED job
  /\ UNCHANGED <<script, provider, incident, entitled, faults, requeues>>

\* DNS.ensure: the record is made, or corrected.
Names ==
  /\ handler.pc = "naming"
  /\ dns' = handler.server
  /\ Goto("named")
  /\ UNCHANGED <<row, job, script, requests, server, incident, entitled, faults, requeues>>

SavesDns ==
  /\ handler.pc = "named"
  /\ row' = [row EXCEPT !.dns = TRUE]
  /\ Goto("checking")
  /\ UNCHANGED <<job, script, provider, incident, entitled, faults, requeues>>

\* The agent says that it is installed (and takes the managed model's key).
Checks ==
  /\ handler.pc = "checking" /\ server[dns].bundle # None
  /\ Goto("finishing")
  /\ UNCHANGED <<row, job, script, provider, incident, entitled, faults, requeues>>

\* WAITING_FOR_BOOTSTRAP, or there is no agent that answers yet.
Waits ==
  /\ handler.pc = "checking" /\ server[dns].bundle = None
  /\ Throw
  /\ UNCHANGED <<script, provider, incident, entitled, faults, requeues>>

Finishes ==
  /\ handler.pc = "finishing"
  /\ row' = [row EXCEPT !.state = "awaiting_setup", !.bundle = None]
  /\ Goto("finished")
  /\ UNCHANGED <<job, script, provider, incident, entitled, faults, requeues>>

MarksDone ==
  /\ handler.pc = "finished"
  /\ job' = [job EXCEPT !.done = @ \/ handler.holds]
  /\ handler' = Idle
  /\ UNCHANGED <<row, script, provider, incident, entitled, faults, requeues>>

Faulty == faults < MaxFaults /\ faults' = faults + 1

\* A call or a statement fails, or is not answered in time; a DNS record may have
\* been made.
Fails ==
  /\ handler.pc # "idle"
  /\ Faulty
  /\ Throw
  /\ dns' \in IF handler.pc = "naming" THEN {dns, handler.server} ELSE {dns}
  /\ UNCHANGED <<script, requests, server, incident, entitled, requeues>>

\* The process dies, or loses the connection that holds the lock while its
\* request goes out.
Crashes ==
  /\ handler.pc # "idle"
  /\ Faulty
  /\ handler' = Idle
  /\ \/ UNCHANGED requests
     \/ /\ handler.pc = "creating"
        /\ requests' = [requests EXCEPT ![handler.server] = "sent"]
  /\ UNCHANGED <<row, job, script, server, dns, incident, entitled, requeues>>

\* Another worker claims the job, whose lease has run out or was taken away by the
\* operator, and finds the lock held (TENANT_BUSY).
FindsBusy ==
  /\ handler.pc # "idle" /\ ~Exhausted
  /\ Faulty
  /\ Failed(Claimed.tries, Claimed, row)
  /\ handler' = [handler EXCEPT !.holds = FALSE]
  /\ UNCHANGED <<script, provider, incident, entitled, requeues>>

HandlerStep ==
  \/ Starts \/ Looks \/ Persists \/ Sends \/ Created \/ TimesOut \/ Rejected \/ Clears
  \/ Records \/ Names \/ SavesDns \/ Checks \/ Waits \/ Finishes
  \/ MarksDone

-----------------------------------------------------------------------------
(* The provider, the new server, and time *)

\* A request that was received makes a server, whether its answer arrives or
\* not, or comes to nothing.
Arrives(n) ==
  /\ requests[n] = "sent"
  /\ \/ /\ requests' = [requests EXCEPT ![n] = "fulfilled"]
        /\ \E plain \in BOOLEAN : server' = [server EXCEPT ![n].plain = plain]
     \/ /\ requests' = [requests EXCEPT ![n] = "lost"]
        /\ UNCHANGED server
  /\ UNCHANGED <<row, job, handler, script, dns, incident, entitled, faults, requeues>>

GetsAddress(n) ==
  /\ n \in Servers /\ ~server[n].addressed
  /\ server' = [server EXCEPT ![n].addressed = TRUE]
  /\ UNCHANGED <<row, job, handler, script, requests, dns, incident, entitled, faults, requeues>>

\* POST /bootstrap/:id. The server asks once, and the answer may be lost.
Bootstraps(n) ==
  LET granted == row.hash = n /\ ~row.expired /\ row.bundle # None IN
  /\ n \in Servers /\ server[n].addressed /\ ~server[n].asked
  /\ row' = IF granted THEN [row EXCEPT !.hash = None] ELSE row
  /\ \E bundle \in {None, row.bundle} :
       server' = [server EXCEPT ![n].asked = TRUE,
                                ![n].bundle = IF granted THEN bundle ELSE None]
  /\ UNCHANGED <<job, handler, script, requests, dns, incident, entitled, faults, requeues>>

\* Half an hour passes.
Expires ==
  /\ row.hash # None /\ ~row.expired
  /\ row' = [row EXCEPT !.expired = TRUE]
  /\ UNCHANGED <<job, handler, script, provider, incident, entitled, faults, requeues>>

\* The subscription ends, or is paid again.
Pays ==
  /\ entitled' = ~entitled
  /\ UNCHANGED <<row, job, handler, script, provider, incident, faults, requeues>>

-----------------------------------------------------------------------------
(* The operator *)

\* "Only after proving the original operation did not create a VM may an
\* operator reset the attempt" (docs/OPERATIONS.md): an attempt that is over.
ProvedAbsent ==
  /\ row.attempted /\ handler.pc \notin {"creating", "awaiting", "clearing"}
  /\ \A n \in Creates : requests[n] \in {"unsent", "lost"}

Found == IF Servers = {} THEN None ELSE CHOOSE n \in Servers : TRUE

ScriptReads ==
  /\ script.pc = "idle" /\ requeues < MaxRequeues
  /\ requeues' = requeues + 1
  /\ Cardinality(Servers) <= 1
  /\ Found # None \/ ~row.attempted \/ ProvedAbsent
  /\ script' = [pc |-> IF Found # None THEN "adopting" ELSE "committing",
                found |-> Found, confirmed |-> Found = None /\ ProvedAbsent]
  /\ UNCHANGED <<row, job, handler, provider, incident, entitled, faults>>

ScriptAdopts ==
  /\ script.pc = "adopting"
  /\ row' = [row EXCEPT !.provider = script.found]
  /\ script' = [script EXCEPT !.pc = "committing"]
  /\ UNCHANGED <<job, handler, provider, incident, entitled, faults, requeues>>

\* Mutant: the attempt is reset whether the operator confirmed or not.
ResetAnyway == script.found = None \/ script.confirmed

Reset == script.found = None /\ script.confirmed

Revived(t) == IF t.state = "failed" THEN [t EXCEPT !.state = "provisioning"] ELSE t

ScriptCommits ==
  /\ script.pc = "committing"
  /\ row' = Revived(IF Reset THEN [row EXCEPT !.attempted = FALSE, !.hash = None,
                                              !.bundle = None]
                             ELSE row)
  /\ job' = [job EXCEPT !.tries = 0, !.done = FALSE]
  /\ script' = NoScript
  /\ UNCHANGED <<handler, provider, incident, entitled, faults, requeues>>

ScriptStep == ScriptReads \/ ScriptAdopts \/ ScriptCommits

Next ==
  \/ HandlerStep \/ Fails \/ Crashes \/ FindsBusy
  \/ \E n \in Creates : Arrives(n) \/ GetsAddress(n) \/ Bootstraps(n)
  \/ Expires \/ Pays \/ ScriptStep

\* Tries come round and end; requests come to an end at the provider.
Fairness ==
  /\ WF_vars(HandlerStep)
  /\ \A n \in Creates : WF_vars(Arrives(n))

Spec == Init /\ [][Next]_vars /\ Fairness

-----------------------------------------------------------------------------
\* "No second create request is sent blindly" (docs/OPERATIONS.md): whatever
\* answers are lost and whenever processes die, a tenant never has two servers,
\* nor a request on its way besides one.
OneServer ==
  Cardinality({n \in Creates : requests[n] \in {"sent", "fulfilled"}}) <= 1

\* A server that is paid for is never forgotten: it is recorded, or the attempt
\* that leads to it is.
NoOrphan == \A n \in Servers : row.provider = n \/ row.attempted

\* The name of a tenant leads to the server recorded for it, whose disks were
\* seen to be encrypted.
PublishedIsEncrypted == dns # None => dns = row.provider /\ ~server[dns].plain

\* A tenant offered to its owner has one whole server: installed with the bundle
\* whose inference key the gateway knows, and a DNS record that deletion will
\* find.
ServedIsWhole ==
  row.state = "awaiting_setup" =>
    /\ row.provider # None /\ dns = row.provider /\ row.dns
    /\ server[row.provider].bundle = row.key

\* The attempts left are more than the failures still to come.
TriesRemain == ~job.done /\ MaxTries - job.tries > MaxFaults - faults

Ambiguous ==
  /\ row.attempted /\ row.provider = None /\ entitled
  /\ \A n \in Creates : requests[n] \in {"unsent", "lost"}

\* An attempt of which nothing came is reported to the operator, if its job is
\* still tried and not every try fails before it looks.
AmbiguityReported == Ambiguous /\ TriesRemain ~> (incident \/ ~Ambiguous)

Installed ==
  \E n \in Servers : /\ ~server[n].plain /\ server[n].addressed
                     /\ server[n].bundle # None

\* A server that is up serves its owner, whichever try asked for it and whether
\* its answer arrived, under the same condition.
InstalledServes ==
  Installed /\ entitled /\ TriesRemain ~> (row.state = "awaiting_setup" \/ ~entitled)

Lapsed == Servers # {} /\ row.state = "provisioning" /\ ~entitled

\* A server whose tenant stops being paid for before it serves is neither
\* suspended nor deleted by anyone: the operator hears of it, if more of the
\* attempts that are reported are left than failures are to come.
LapseReported ==
  Lapsed /\ TriesRemain /\ MaxTries - ReportFrom >= MaxFaults - faults
    ~> job.reported \/ entitled \/ row.state = "awaiting_setup"
=============================================================================
