--------------------------- MODULE ProvisioningProofs ---------------------------
(* One server, whole and encrypted, for any number of requests, attempts,       *)
(* failures and interventions of the operator.                                  *)
EXTENDS Provisioning, FiniteSetTheorems, TLAPS

\* Requests of which a server may come, or has come.
Live == {n \in Creates : requests[n] \in {"sent", "fulfilled"}}

\* There is at most one, and the row says so before it is sent.
OneLive == /\ \A m, n \in Live : m = n
           /\ Live # {} => row.attempted

\* The handler asks for a server only where there is none, nor an attempt.
Asking ==
  /\ handler.pc = "looking" /\ ~handler.attempted => ~row.attempted
  /\ handler.pc = "persisting" => ~row.attempted
  /\ handler.pc \in {"creating", "awaiting", "clearing"} => handler.server \in Creates
  /\ handler.pc \in {"creating", "clearing"} => Live = {}
  /\ handler.pc = "creating" => row.attempted

\* While the operator is sure that nothing came of the attempt, no handler is
\* beyond the look that will stop it.
SureOfNothing ==
  script.confirmed =>
    /\ row.attempted /\ Live = {}
    /\ \/ handler.pc = "idle"
       \/ handler.pc = "looking" /\ handler.attempted

\* Whatever is recorded, or being worked on, is a server.
Naming == {"naming", "named", "checking", "finishing", "finished"}

Recorded ==
  /\ row.provider # None => row.provider \in Servers
  /\ script.found # None => script.found \in Servers
  /\ script.pc = "adopting" => script.found # None
  /\ handler.pc = "looking" /\ handler.provider # None => handler.provider \in Servers
  /\ handler.pc \in {"recording"} \cup Naming => handler.server \in Servers

\* The bundle that is kept, or was handed out, is the one whose key is known.
BundlesMatch ==
  /\ row.bundle # None => row.bundle = row.key
  /\ \A n \in Creates : server[n].bundle # None =>
       n \in Servers /\ server[n].asked /\ server[n].bundle = row.key

\* What a handler has done for its server by the step it is at.
DoneFor ==
  /\ handler.pc \in Naming
       => row.provider = handler.server /\ ~server[handler.server].plain
  /\ handler.pc \in Naming \ {"naming"} => dns = handler.server
  /\ handler.pc \in {"checking", "finishing", "finished"} => row.dns
  /\ handler.pc \in {"finishing", "finished"} => server[handler.server].bundle # None

\* A server that is served has its bundle.
Served ==
  row.state = "awaiting_setup" =>
    /\ row.provider # None /\ dns = row.provider /\ row.dns
    /\ server[row.provider].bundle # None

Safe ==
  /\ OneLive /\ Asking /\ SureOfNothing /\ Recorded /\ BundlesMatch /\ DoneFor
  /\ PublishedIsEncrypted /\ Served

IInv == TypeOK /\ Safe

-----------------------------------------------------------------------------
\* No request has the number that stands for none.
LEMMA NoneApart == None \notin Creates
  BY ProvisioningAssumption DEF None, Creates

\* A process at rest.
LEMMA IdleTypes == Idle \in Handlers
  BY ProvisioningAssumption DEF Idle, Handlers, Steps, Maybe

\* The initial state satisfies the invariant.
LEMMA InitIInv == Init => IInv
<1> SUFFICES ASSUME Init PROVE IInv OBVIOUS
<1> USE ProvisioningAssumption DEF Init
<1>1. TypeOK
  <2>1. row \in Rows BY DEF Rows, Maybe
  <2>2. job \in Jobs BY DEF Jobs
  <2>3. server \in [Creates -> Machines] BY DEF NoServer, Machines, Maybe
  <2>4. requests \in [Creates -> {"unsent", "sent", "fulfilled", "lost"}] OBVIOUS
  <2>5. handler \in Handlers BY IdleTypes
  <2>6. script \in [pc : {"idle", "adopting", "committing"}, found : Maybe,
                    confirmed : BOOLEAN]
    BY DEF NoScript, Maybe
  <2>7. dns \in Maybe /\ incident \in BOOLEAN /\ entitled \in BOOLEAN BY DEF Maybe
  <2>8. faults \in 0 .. MaxFaults /\ requeues \in 0 .. MaxRequeues OBVIOUS
  <2> QED BY <2>1, <2>2, <2>3, <2>4, <2>5, <2>6, <2>7, <2>8 DEF TypeOK
<1>2. Live = {} BY DEF Live
<1>3. \A n \in Creates : server[n].bundle = None BY DEF NoServer
<1>4. Safe
  BY <1>2, <1>3 DEF Safe, OneLive, Asking, SureOfNothing, Recorded, BundlesMatch, DoneFor,
                    PublishedIsEncrypted, Served, Idle, NoScript, Naming
<1> QED BY <1>1, <1>4 DEF IInv

\* The invariant bounds the servers and the requests on their way.
LEMMA OneLiveIsOne == IInv => OneServer
<1> SUFFICES ASSUME IInv PROVE Cardinality(Live) <= 1
  BY DEF OneServer, Live
<1>1. \A m, n \in Live : m = n BY DEF IInv, Safe, OneLive
<1>2. CASE Live = {}
  <2>1. Cardinality(Live) = 0 BY <1>2, FS_EmptySet
  <2> QED BY <2>1
<1>3. CASE Live # {}
  <2>1. PICK n \in Live : TRUE BY <1>3
  <2>2. Live = {n} BY <1>1, <2>1
  <2>3. Cardinality(Live) = 1 BY <2>2, FS_Singleton
  <2> QED BY <2>3
<1> QED BY <1>2, <1>3

-----------------------------------------------------------------------------
(* The row and the handler *)

\* The servers are told from the requests.
LEMMA SameRequests ==
  requests' = requests => Servers' = Servers /\ Live' = Live
  BY DEF Servers, Live

\* All that is recorded or named is the one server.
LEMMA TheServer ==
  ASSUME IInv, NEW m \in Servers, NEW n \in Servers
  PROVE  m = n /\ n \in Creates /\ n # None /\ row.attempted
  BY NoneApart DEF IInv, Safe, OneLive, Live, Servers

\* An attempt that fails leaves the row as it was given, but for its state.
LEMMA FailedTypes ==
  ASSUME NEW k \in 0 .. MaxTries, NEW j \in Jobs, NEW t \in Rows, Failed(k, j, t)
  PROVE  /\ row' \in Rows /\ job' \in Jobs
         /\ row'.provider = t.provider /\ row'.attempted = t.attempted
         /\ row'.bundle = t.bundle /\ row'.key = t.key /\ row'.dns = t.dns
         /\ row'.state \in {t.state, "failed"}
<1>1. \/ row' = t
      \/ row' = [t EXCEPT !.state = "failed"]
  BY DEF Failed
<1>2. job' \in Jobs BY DEF Failed, Jobs
<1>3. CASE row' = t BY <1>2, <1>3
<1>4. CASE row' = [t EXCEPT !.state = "failed"] BY <1>2, <1>4 DEF Rows
<1> QED BY <1>1, <1>3, <1>4

\* So does one that ends.
LEMMA EndedTypes ==
  ASSUME TypeOK, NEW t \in Rows, Ended(t)
  PROVE  /\ row' \in Rows /\ job' \in Jobs /\ handler' = Idle
         /\ row'.provider = t.provider /\ row'.attempted = t.attempted
         /\ row'.bundle = t.bundle /\ row'.key = t.key /\ row'.dns = t.dns
         /\ row'.state \in {t.state, "failed"}
<1>1. job \in Jobs /\ handler.attempt \in 0 .. MaxTries BY DEF TypeOK, Handlers
<1> QED BY <1>1, FailedTypes DEF Ended

\* A step that leaves the requests and the servers alone, and in the row the
\* attempt and its key, may record or name the one server.
LEMMA RowKept ==
  ASSUME IInv, requests' = requests, server' = server,
         row'.attempted = row.attempted, row'.key = row.key,
         row'.bundle \in {row.bundle, None},
         row'.provider = row.provider \/ row'.provider \in Servers,
         \/ dns' = dns
         \/ dns' \in Servers /\ ~server[dns'].plain /\ dns' = row'.provider,
         row.dns => row'.dns,
         row'.state \in {row.state, "failed"}
  PROVE  /\ OneLive' /\ BundlesMatch' /\ PublishedIsEncrypted' /\ Served'
         /\ row'.provider # None => row'.provider \in Servers'
<1> USE DEF IInv, Safe
<1>1. Servers' = Servers /\ Live' = Live BY SameRequests
<1>2. OneLive' BY <1>1 DEF OneLive
<1>3. BundlesMatch' BY <1>1 DEF BundlesMatch
<1>4. row'.provider # None => row'.provider \in Servers' BY <1>1 DEF Recorded
<1>5. row.provider # None => row'.provider = row.provider
  BY TheServer DEF Recorded
<1>6. PublishedIsEncrypted' BY <1>5 DEF PublishedIsEncrypted
<1>7. dns # None => dns' = dns
  BY <1>5, TheServer DEF PublishedIsEncrypted, Recorded
<1>8. Served' BY <1>5, <1>7 DEF Served
<1> QED BY <1>2, <1>3, <1>4, <1>6, <1>8

\* Whoever is at rest asks for nothing and claims nothing.
LEMMA Rests ==
  ASSUME IInv, handler' = Idle, script' = script, Servers' = Servers, Live' = Live,
         row'.attempted = row.attempted,
         row'.provider # None => row'.provider \in Servers'
  PROVE  Asking' /\ SureOfNothing' /\ Recorded' /\ DoneFor'
<1> USE DEF IInv, Safe
<1>1. handler'.pc = "idle" BY DEF Idle
<1>2. Asking' /\ DoneFor' BY <1>1 DEF Asking, DoneFor, Naming
<1>3. SureOfNothing' BY <1>1 DEF SureOfNothing
<1>4. Recorded' BY <1>1 DEF Recorded, Naming
<1> QED BY <1>2, <1>3, <1>4

\* The attempt ends.
LEMMA Ends ==
  ASSUME IInv, handler' = Idle, row' \in Rows, job' \in Jobs,
         UNCHANGED <<script, requests, server, entitled, requeues>>,
         row'.attempted = row.attempted, row'.key = row.key, row'.bundle = row.bundle,
         row'.provider = row.provider \/ row'.provider \in Servers,
         \/ dns' = dns
         \/ dns' \in Servers /\ ~server[dns'].plain /\ dns' = row'.provider,
         row.dns => row'.dns,
         row'.state \in {row.state, "failed"},
         incident' \in BOOLEAN, faults' \in 0 .. MaxFaults
  PROVE  IInv'
<1>1. /\ OneLive' /\ BundlesMatch' /\ PublishedIsEncrypted' /\ Served'
      /\ row'.provider # None => row'.provider \in Servers'
  BY RowKept
<1>2. Asking' /\ SureOfNothing' /\ Recorded' /\ DoneFor'
  BY <1>1, SameRequests, Rests
<1>3. TypeOK'
  <2>1. Idle \in Handlers BY IdleTypes
  <2>2. dns' \in Maybe BY DEF IInv, TypeOK, Maybe, Servers
  <2> QED BY <2>1, <2>2 DEF IInv, TypeOK
<1> QED BY <1>1, <1>2, <1>3 DEF IInv, Safe

-----------------------------------------------------------------------------
(* The steps of the handler *)

\* The attempt ends with an error and nothing else happens.
LEMMA ThrowStep ==
  ASSUME IInv, Throw, UNCHANGED <<script, requests, server, entitled, requeues>>,
         dns' = dns \/ (handler.pc = "naming" /\ dns' = handler.server),
         incident' \in BOOLEAN, faults' \in 0 .. MaxFaults
  PROVE  IInv'
<1>1. TypeOK /\ row \in Rows BY DEF IInv, TypeOK
<1>2. /\ row' \in Rows /\ job' \in Jobs /\ handler' = Idle
      /\ row'.provider = row.provider /\ row'.attempted = row.attempted
      /\ row'.bundle = row.bundle /\ row'.key = row.key /\ row'.dns = row.dns
      /\ row'.state \in {row.state, "failed"}
  BY <1>1, EndedTypes DEF Throw
<1>3. \/ dns' = dns
      \/ dns' \in Servers /\ ~server[dns'].plain /\ dns' = row'.provider
  BY <1>2 DEF IInv, Safe, DoneFor, Recorded, Naming
<1> QED BY <1>2, <1>3, Ends

\* A claim that is possible is one more attempt.
LEMMA ClaimedTypes ==
  ASSUME IInv, ~Exhausted
  PROVE  Claimed \in Jobs /\ Claimed.tries \in 0 .. MaxTries /\ row \in Rows
  BY ProvisioningAssumption DEF Claimed, Exhausted, IInv, TypeOK, Jobs

\* An attempt that fails as soon as it is claimed, beside the handler or without one.
LEMMA FailsAside ==
  ASSUME IInv, ~Exhausted, Failed(Claimed.tries, Claimed, row), handler' \in Handlers,
         handler'.pc = handler.pc, handler'.provider = handler.provider,
         handler'.attempted = handler.attempted, handler'.server = handler.server,
         UNCHANGED <<script, requests, server, dns, incident, entitled, requeues>>,
         faults' \in 0 .. MaxFaults
  PROVE  IInv'
<1>1. /\ row' \in Rows /\ job' \in Jobs
      /\ row'.provider = row.provider /\ row'.attempted = row.attempted
      /\ row'.bundle = row.bundle /\ row'.key = row.key /\ row'.dns = row.dns
      /\ row'.state \in {row.state, "failed"}
  BY ClaimedTypes, FailedTypes
<1>2. TypeOK' BY <1>1 DEF IInv, TypeOK
<1>3. Servers' = Servers /\ Live' = Live BY SameRequests
<1>4. OneLive' /\ BundlesMatch' /\ PublishedIsEncrypted' /\ Served'
  BY <1>1, RowKept
<1>5. Asking' /\ SureOfNothing' /\ Recorded' /\ DoneFor'
  BY <1>1, <1>3 DEF IInv, Safe, Asking, SureOfNothing, Recorded, DoneFor
<1> QED BY <1>2, <1>4, <1>5 DEF IInv, Safe

\* A try begins, with what the row says.
LEMMA StartsStep ==
  ASSUME IInv, Starts
  PROVE  IInv'
<1>1. Claimed \in Jobs /\ Claimed.tries \in 0 .. MaxTries /\ row \in Rows
  BY ClaimedTypes DEF Starts
<1>2. /\ handler.pc = "idle"
      /\ UNCHANGED <<script, provider, incident, entitled, faults, requeues>>
  BY DEF Starts
<1>3. CASE Failed(Claimed.tries, Claimed, row) /\ UNCHANGED handler
  BY <1>2, <1>3, FailsAside, ClaimedTypes DEF Starts, provider, IInv, TypeOK
<1>4. CASE Begins /\ job' = Claimed /\ UNCHANGED row
  <2>1. /\ row.provider \in Maybe /\ row.attempted \in BOOLEAN /\ None \in Maybe
    BY <1>1 DEF Rows, Maybe
  <2>2. handler' \in Handlers BY <1>1, <1>4, <2>1 DEF Begins, Handlers, Steps
  <2>3. /\ handler'.pc = "looking" /\ handler'.provider = row.provider
        /\ handler'.attempted = row.attempted
    BY <1>4 DEF Begins
  <2>4. TypeOK' BY <1>1, <1>2, <1>4, <2>2 DEF IInv, TypeOK, provider
  <2>5. Servers' = Servers /\ Live' = Live BY <1>2, SameRequests DEF provider
  <2>6. Asking' BY <1>4, <2>3 DEF Asking
  <2>7. SureOfNothing' BY <1>2, <1>4, <2>3, <2>5 DEF IInv, Safe, SureOfNothing
  <2>8. Recorded' BY <1>2, <1>4, <2>3, <2>5 DEF IInv, Safe, Recorded, Naming
  <2>9. DoneFor' BY <2>3 DEF DoneFor, Naming
  <2>10. OneLive' /\ BundlesMatch' /\ PublishedIsEncrypted' /\ Served'
    BY <1>2, <1>4, RowKept DEF provider
  <2> QED BY <2>4, <2>6, <2>7, <2>8, <2>9, <2>10 DEF IInv, Safe
<1> QED BY <1>3, <1>4 DEF Starts

\* Another worker finds the lock held.
LEMMA FindsBusyStep ==
  ASSUME IInv, FindsBusy
  PROVE  IInv'
<1>1. /\ handler' = [handler EXCEPT !.holds = FALSE] /\ ~Exhausted
      /\ Failed(Claimed.tries, Claimed, row)
      /\ UNCHANGED <<script, provider, incident, entitled, requeues>>
  BY DEF FindsBusy
<1>2. faults' \in 0 .. MaxFaults
  BY ProvisioningAssumption DEF FindsBusy, Faulty, IInv, TypeOK
<1>3. handler \in Handlers BY DEF IInv, TypeOK
<1>4. /\ handler' \in Handlers /\ handler'.pc = handler.pc
      /\ handler'.provider = handler.provider /\ handler'.attempted = handler.attempted
      /\ handler'.server = handler.server
  BY <1>1, <1>3 DEF Handlers
<1> QED BY <1>1, <1>2, <1>4, FailsAside DEF provider

\* A handler that goes on to a step about a server it knows, changing no more than
\* the row's record of it and its name.
LEMMA GoesOn ==
  ASSUME IInv, NEW pc \in {"recording"} \cup Naming, NEW n \in Servers,
         handler' = [handler EXCEPT !.pc = pc, !.server = n],
         row' \in Rows, dns' \in {dns, n},
         UNCHANGED <<job, script, requests, server, incident, entitled, faults, requeues>>,
         row'.attempted = row.attempted, row'.key = row.key, row'.bundle = row.bundle,
         row'.provider \in {row.provider, n}, row'.state = row.state, row.dns => row'.dns,
         pc \in Naming => row'.provider = n /\ ~server[n].plain,
         pc \in Naming \ {"naming"} => dns' = n,
         dns' # dns => pc \in Naming,
         pc \in {"checking", "finishing", "finished"} => row'.dns,
         pc \in {"finishing", "finished"} => server[n].bundle # None
  PROVE  IInv'
<1> USE DEF IInv
<1>1. Servers' = Servers /\ Live' = Live BY SameRequests
<1>2. n \in Creates BY DEF Servers
<1>3. handler'.pc = pc /\ handler'.server = n BY DEF TypeOK, Handlers
<1>4. handler' \in Handlers
  <2>1. pc \in Steps /\ n \in Maybe BY <1>2 DEF Naming, Steps, Maybe
  <2> QED BY <2>1 DEF TypeOK, Handlers
<1>5. TypeOK' BY <1>2, <1>4 DEF TypeOK, Maybe
<1>6. /\ OneLive' /\ BundlesMatch' /\ PublishedIsEncrypted' /\ Served'
      /\ row'.provider # None => row'.provider \in Servers'
  BY RowKept
<1>7. Asking' BY <1>3 DEF Asking, Naming
<1>8. SureOfNothing'
  <2>1. Live # {} BY DEF Live, Servers
  <2> QED BY <2>1 DEF Safe, SureOfNothing
<1>9. Recorded' BY <1>1, <1>3, <1>6 DEF Recorded, Naming, Safe
<1>10. DoneFor' BY <1>3 DEF DoneFor
<1> QED BY <1>5, <1>6, <1>7, <1>8, <1>9, <1>10 DEF Safe

\* The look adopts a server, goes on to ask for one, or stops.
LEMMA LooksStep ==
  ASSUME IInv, Looks
  PROVE  IInv'
<1> USE DEF IInv
<1>1. /\ handler.pc = "looking"
      /\ UNCHANGED <<script, provider, entitled, faults, requeues>>
  BY DEF Looks
<1>2. ASSUME NEW n \in Servers, Adopts(n) PROVE IInv'
  BY <1>1, <1>2, GoesOn DEF Adopts, provider, TypeOK, Naming
<1>3. ASSUME Throw, incident' \in BOOLEAN PROVE IInv'
  BY <1>1, <1>3, ThrowStep DEF provider, TypeOK
<1>4. CASE /\ Servers = {} /\ ~handler.attempted
           /\ Goto("persisting") /\ UNCHANGED <<row, job, incident>>
  <2>1. handler' = [handler EXCEPT !.pc = "persisting"] /\ handler'.pc = "persisting"
    BY <1>4 DEF Goto, TypeOK, Handlers
  <2>2. TypeOK' BY <1>1, <1>4, <2>1 DEF TypeOK, Handlers, provider, Steps
  <2>3. Servers' = Servers /\ Live' = Live BY <1>1, SameRequests DEF provider
  <2>4. ~row.attempted BY <1>1, <1>4 DEF Safe, Asking
  <2>5. Asking' BY <1>4, <2>1, <2>4 DEF Asking
  <2>6. ~script.confirmed BY <2>4 DEF Safe, SureOfNothing
  <2>7. SureOfNothing' BY <1>1, <2>6 DEF SureOfNothing
  <2>8. Recorded' BY <1>1, <1>4, <2>1, <2>3 DEF Safe, Recorded, Naming
  <2>9. DoneFor' BY <2>1 DEF DoneFor, Naming
  <2>10. OneLive' /\ BundlesMatch' /\ PublishedIsEncrypted' /\ Served'
    BY <1>1, <1>4, RowKept DEF provider
  <2> QED BY <2>2, <2>5, <2>7, <2>8, <2>9, <2>10 DEF Safe
<1>5. handler.provider # None => handler.provider \in Servers
  BY <1>1 DEF Safe, Recorded
<1>6. \/ handler.provider # None /\ Adopts(handler.provider)
      \/ Throw /\ incident' \in BOOLEAN
      \/ \E n \in Servers : Adopts(n)
      \/ /\ Servers = {} /\ ~handler.attempted
         /\ Goto("persisting") /\ UNCHANGED <<row, job, incident>>
  BY DEF Looks, TypeOK
<1> QED BY <1>2, <1>3, <1>4, <1>5, <1>6

\* The server is recorded, and refused if it is not usable.
LEMMA RecordsStep ==
  ASSUME IInv, Records
  PROVE  IInv'
<1> USE DEF IInv
<1> DEFINE n == handler.server
           t == [row EXCEPT !.provider = n]
<1>1. handler.pc = "recording" /\ n \in Servers /\ n \in Creates
  BY DEF Records, Safe, Recorded, Servers
<1>2. UNCHANGED <<script, provider, incident, entitled, faults, requeues>>
  BY DEF Records
<1>3. row \in Rows BY DEF TypeOK
<1>4. /\ t \in Rows /\ t.provider = n /\ t.attempted = row.attempted
      /\ t.bundle = row.bundle /\ t.key = row.key /\ t.dns = row.dns /\ t.state = row.state
  BY <1>1, <1>3 DEF Rows, Maybe
<1>5. CASE Ended(t)
  <2> HIDE DEF t
  <2>1. /\ row' \in Rows /\ job' \in Jobs /\ handler' = Idle
        /\ row'.provider = n /\ row'.attempted = row.attempted
        /\ row'.bundle = row.bundle /\ row'.key = row.key /\ row'.dns = row.dns
        /\ row'.state \in {row.state, "failed"}
    BY <1>3, <1>4, <1>5, EndedTypes
  <2> QED BY <1>1, <1>2, <2>1, Ends DEF provider, TypeOK
<1>6. CASE /\ ~server[n].plain
           /\ Goto("naming") /\ row' = t /\ UNCHANGED job
  <2>1. handler' = [handler EXCEPT !.pc = "naming", !.server = n]
    BY <1>6 DEF Goto, TypeOK, Handlers, Handlers
  <2>2. /\ row' \in Rows /\ row'.provider = n /\ row'.attempted = row.attempted
        /\ row'.bundle = row.bundle /\ row'.key = row.key /\ row'.dns = row.dns
        /\ row'.state = row.state
    BY <1>4, <1>6
  <2>3. UNCHANGED <<job, script, requests, server, incident, entitled, faults, requeues>>
        /\ dns' = dns
    BY <1>2, <1>6 DEF provider
  <2>4. "naming" \in {"recording"} \cup Naming BY DEF Naming
  <2> HIDE DEF t, n, IInv
  <2> QED BY <1>1, <1>6, <2>1, <2>2, <2>3, <2>4, GoesOn
<1> QED BY <1>5, <1>6 DEF Records

\* A handler that only goes from one step to the next keeps its server.
LEMMA StaysWith ==
  ASSUME IInv, NEW pc \in Steps, Goto(pc)
  PROVE  handler' = [handler EXCEPT !.pc = pc, !.server = handler.server]
  BY DEF Goto, IInv, TypeOK, Handlers

\* The server's answer, its name, and what is saved of it.
LEMMA NamingSteps ==
  ASSUME IInv, Created \/ Names \/ SavesDns \/ Checks
  PROVE  IInv'
<1> USE DEF IInv
<1>1. UNCHANGED <<job, script, requests, server, incident, entitled, faults, requeues>>
  BY DEF Created, Names, SavesDns, Checks, provider
<1>2. row \in Rows /\ dns \in Maybe BY DEF TypeOK
<1>3. CASE Created
  <2>1. handler.server \in Servers
    BY <1>3 DEF Created, Safe, Asking, Servers
  <2>2. handler' = [handler EXCEPT !.pc = "recording", !.server = handler.server]
    BY <1>3, StaysWith DEF Created, Steps
  <2>3. row' = row /\ dns' = dns BY <1>3 DEF Created, provider
  <2> HIDE DEF IInv
  <2>4. "recording" \in {"recording"} \cup Naming /\ "recording" \notin Naming
    BY DEF Naming
  <2>5. "recording" \notin {"checking", "finishing", "finished"} OBVIOUS
  <2> QED BY <1>1, <1>2, <2>1, <2>2, <2>3, <2>4, <2>5, GoesOn
<1>4. CASE Names
  <2>1. /\ handler.server \in Servers /\ row.provider = handler.server
        /\ ~server[handler.server].plain
    BY <1>4 DEF Names, Safe, Recorded, DoneFor, Naming
  <2>2. handler' = [handler EXCEPT !.pc = "named", !.server = handler.server]
    BY <1>4, StaysWith DEF Names, Steps
  <2>3. dns' = handler.server /\ row' = row BY <1>4 DEF Names
  <2> HIDE DEF IInv
  <2>4. "named" \in {"recording"} \cup Naming /\ "named" \in Naming
    BY DEF Naming
  <2>5. "named" \notin {"checking", "finishing", "finished"} OBVIOUS
  <2>6. row' \in Rows /\ row'.dns = row.dns /\ dns' \in {dns, handler.server}
    BY <1>2, <2>3
  <2> QED BY <1>1, <2>1, <2>2, <2>3, <2>4, <2>5, <2>6, GoesOn
<1>5. CASE SavesDns
  <2>1. /\ handler.server \in Servers /\ row.provider = handler.server
        /\ ~server[handler.server].plain /\ dns = handler.server
    BY <1>5 DEF SavesDns, Safe, Recorded, DoneFor, Naming
  <2>2. handler' = [handler EXCEPT !.pc = "checking", !.server = handler.server]
    BY <1>5, StaysWith DEF SavesDns, Steps
  <2>3. /\ row' \in Rows /\ row'.dns /\ row'.attempted = row.attempted
        /\ row'.key = row.key /\ row'.bundle = row.bundle /\ row'.state = row.state
        /\ row'.provider = row.provider
    BY <1>2, <1>5 DEF SavesDns, Rows
  <2>4. dns' = dns BY <1>5 DEF SavesDns, provider
  <2> HIDE DEF IInv
  <2> QED BY <1>1, <2>1, <2>2, <2>3, <2>4, GoesOn DEF Naming
<1>6. CASE Checks
  <2>1. /\ handler.server \in Servers /\ row.provider = handler.server
        /\ ~server[handler.server].plain /\ dns = handler.server /\ row.dns
        /\ server[handler.server].bundle # None
    BY <1>6 DEF Checks, Safe, Recorded, DoneFor, Naming
  <2>2. handler' = [handler EXCEPT !.pc = "finishing", !.server = handler.server]
    BY <1>6, StaysWith DEF Checks, Steps
  <2>3. dns' = dns /\ row' = row BY <1>6 DEF Checks, provider
  <2> QED BY <1>1, <1>2, <2>1, <2>2, <2>3, GoesOn DEF Naming
<1> QED BY <1>3, <1>4, <1>5, <1>6

\* The tenant is offered to its owner.
LEMMA FinishesStep ==
  ASSUME IInv, Finishes
  PROVE  IInv'
<1> USE DEF IInv
<1>1. /\ handler.pc = "finishing" /\ handler' = [handler EXCEPT !.pc = "finished"]
      /\ row' = [row EXCEPT !.state = "awaiting_setup", !.bundle = None]
      /\ UNCHANGED <<job, script, requests, server, dns, incident, entitled, faults, requeues>>
  BY DEF Finishes, Goto, provider
<1>2. /\ row' \in Rows /\ row'.dns = row.dns /\ row'.attempted = row.attempted
      /\ row'.key = row.key /\ row'.bundle = None /\ row'.state = "awaiting_setup"
      /\ row'.provider = row.provider
  BY <1>1 DEF TypeOK, Rows, Maybe
<1>3. handler'.pc = "finished" /\ handler'.server = handler.server
  BY <1>1 DEF TypeOK, Handlers
<1>4. /\ handler.server \in Servers /\ row.provider = handler.server
      /\ ~server[handler.server].plain /\ dns = handler.server /\ row.dns
      /\ server[handler.server].bundle # None
  BY <1>1 DEF Safe, Recorded, DoneFor, Naming
<1>5. TypeOK' BY <1>1, <1>2 DEF TypeOK, Handlers, Steps
<1>6. Servers' = Servers /\ Live' = Live BY <1>1, SameRequests
<1>7. OneLive' /\ BundlesMatch' /\ PublishedIsEncrypted'
  BY <1>1, <1>2, <1>6 DEF Safe, OneLive, BundlesMatch, PublishedIsEncrypted
<1>8. Served' BY <1>1, <1>2, <1>4, TheServer DEF Served
<1>9. Asking' BY <1>3 DEF Asking
<1>10. SureOfNothing'
  <2>1. Live # {} BY <1>4 DEF Live, Servers
  <2> QED BY <1>1, <2>1 DEF Safe, SureOfNothing
<1>11. Recorded' BY <1>1, <1>2, <1>3, <1>4, <1>6 DEF Safe, Recorded, Naming
<1>12. DoneFor' BY <1>1, <1>2, <1>3, <1>4 DEF DoneFor, Naming
<1> QED BY <1>5, <1>7, <1>8, <1>9, <1>10, <1>11, <1>12 DEF Safe

\* What ends an attempt: an error, a failed call, a dead process, or its success.
LEMMA EndingSteps ==
  ASSUME IInv, TimesOut \/ Waits \/ Fails \/ MarksDone
  PROVE  IInv'
<1> USE DEF IInv
<1>1. CASE TimesOut \/ Waits
  BY <1>1, ThrowStep DEF TimesOut, Waits, provider, TypeOK
<1>2. CASE Fails
  <2>1. faults' \in 0 .. MaxFaults
    BY <1>2, ProvisioningAssumption DEF Fails, Faulty, TypeOK
  <2>2. dns' = dns \/ (handler.pc = "naming" /\ dns' = handler.server)
    BY <1>2 DEF Fails
  <2> QED BY <1>2, <2>1, <2>2, ThrowStep DEF Fails, TypeOK
<1>3. CASE MarksDone
  <2>1. job' \in Jobs BY <1>3 DEF MarksDone, TypeOK, Handlers, Jobs
  <2> QED BY <1>3, <2>1, Ends DEF MarksDone, provider, TypeOK
<1> QED BY <1>1, <1>2, <1>3

-----------------------------------------------------------------------------
(* The request *)

\* While nothing is live there is no server: nothing is recorded, named or served.
LEMMA NothingYet ==
  ASSUME IInv, Live = {}
  PROVE  /\ Servers = {} /\ row.provider = None /\ dns = None
         /\ row.state # "awaiting_setup" /\ script.found = None /\ script.pc # "adopting"
         /\ \A n \in Creates : server[n].bundle = None
<1> USE DEF IInv, Safe
<1>1. Servers = {} BY DEF Servers, Live
<1> QED BY <1>1 DEF Recorded, PublishedIsEncrypted, Served, BundlesMatch

\* The attempt is saved, with its key and its bundle.
LEMMA PersistsStep ==
  ASSUME IInv, Persists
  PROVE  IInv'
<1> USE DEF IInv
<1>1. PICK n \in Creates : /\ row' = Attempt(n)
                           /\ handler' = [handler EXCEPT !.pc = "creating", !.server = n]
  BY DEF Persists
<1>2. /\ handler.pc = "persisting" /\ ~row.attempted /\ Live = {}
      /\ UNCHANGED <<job, script, requests, server, dns, incident, entitled, faults, requeues>>
  BY DEF Persists, provider, Safe, Asking, OneLive
<1>3. /\ row' \in Rows /\ row'.attempted /\ row'.provider = row.provider
      /\ row'.bundle = n /\ row'.key = n /\ row'.state = "provisioning"
  BY <1>1 DEF TypeOK, Attempt, Rows, Maybe
<1>4. /\ handler' \in Handlers /\ handler'.pc = "creating" /\ handler'.server = n
  BY <1>1 DEF TypeOK, Handlers, Steps, Maybe
<1>5. TypeOK' BY <1>2, <1>3, <1>4 DEF TypeOK
<1>6. Servers' = Servers /\ Live' = Live BY <1>2, SameRequests
<1>7. /\ Servers = {} /\ row.provider = None /\ dns = None
      /\ row.state # "awaiting_setup" /\ script.found = None /\ script.pc # "adopting"
      /\ \A m \in Creates : server[m].bundle = None
  BY <1>2, NothingYet
<1>8. OneLive' BY <1>2, <1>3, <1>6 DEF OneLive
<1>9. Asking' BY <1>2, <1>3, <1>4, <1>6 DEF Asking
<1>10. SureOfNothing' BY <1>2 DEF Safe, SureOfNothing
<1>11. Recorded' BY <1>2, <1>3, <1>4, <1>7 DEF Recorded, Naming
<1>12. BundlesMatch' BY <1>2, <1>3, <1>7 DEF BundlesMatch
<1>13. DoneFor' BY <1>4 DEF DoneFor, Naming
<1>14. PublishedIsEncrypted' /\ Served'
  BY <1>2, <1>3, <1>7 DEF PublishedIsEncrypted, Served
<1> QED BY <1>5, <1>8, <1>9, <1>10, <1>11, <1>12, <1>13, <1>14 DEF Safe

\* The request goes out, whether its sender lives on or not.
LEMMA SentStep ==
  ASSUME IInv, handler.pc = "creating",
         requests' = [requests EXCEPT ![handler.server] = "sent"],
         \/ handler' = Idle
         \/ handler' = [handler EXCEPT !.pc = "awaiting"],
         UNCHANGED <<row, job, script, server, dns, incident, entitled, requeues>>,
         faults' \in 0 .. MaxFaults
  PROVE  IInv'
<1> USE DEF IInv
<1> DEFINE n == handler.server
<1>1. n \in Creates /\ Live = {} /\ row.attempted BY DEF Safe, Asking
<1>2. \A m \in Creates : requests'[m] = IF m = n THEN "sent" ELSE requests[m]
  BY DEF TypeOK
<1>3. Live' = {n} BY <1>1, <1>2 DEF Live
<1>4. /\ Servers = {} /\ row.provider = None /\ dns = None
      /\ row.state # "awaiting_setup" /\ script.found = None /\ script.pc # "adopting"
      /\ \A m \in Creates : server[m].bundle = None
  BY <1>1, NothingYet
<1>5. /\ handler' \in Handlers
      /\ handler'.pc = "idle" \/ (handler'.pc = "awaiting" /\ handler'.server = n)
  <2>1. CASE handler' = Idle BY <2>1, IdleTypes DEF Idle
  <2>2. CASE handler' = [handler EXCEPT !.pc = "awaiting"]
    BY <2>2 DEF TypeOK, Handlers, Steps
  <2> QED BY <2>1, <2>2
<1>6. requests' \in [Creates -> {"unsent", "sent", "fulfilled", "lost"}]
  BY DEF TypeOK
<1>7. TypeOK' BY <1>5, <1>6 DEF TypeOK
<1>8. OneLive' BY <1>1, <1>3 DEF OneLive
<1>9. Asking' BY <1>1, <1>5 DEF Asking
<1>10. SureOfNothing' BY DEF Safe, SureOfNothing
<1>11. Recorded' BY <1>4, <1>5 DEF Recorded, Naming
<1>12. BundlesMatch' BY <1>4 DEF Safe, BundlesMatch
<1>13. DoneFor' BY <1>5 DEF DoneFor, Naming
<1>14. PublishedIsEncrypted' /\ Served' BY <1>4 DEF PublishedIsEncrypted, Served
<1> QED BY <1>7, <1>8, <1>9, <1>10, <1>11, <1>12, <1>13, <1>14 DEF Safe

\* A process that dies leaves what it has written and sent.
LEMMA CrashesStep ==
  ASSUME IInv, Crashes
  PROVE  IInv'
<1>1. /\ handler' = Idle
      /\ UNCHANGED <<row, job, script, server, dns, incident, entitled, requeues>>
      /\ faults' \in 0 .. MaxFaults
  BY ProvisioningAssumption DEF Crashes, Faulty, IInv, TypeOK
<1>2. CASE UNCHANGED requests BY <1>1, <1>2, Ends DEF IInv, TypeOK
<1>3. CASE handler.pc = "creating" /\ requests' = [requests EXCEPT ![handler.server] = "sent"]
  BY <1>1, <1>3, SentStep
<1> QED BY <1>2, <1>3 DEF Crashes

\* The request goes out.
LEMMA SendsStep ==
  ASSUME IInv, Sends
  PROVE  IInv'
  BY SentStep DEF Sends, Goto, IInv, TypeOK, Handlers

\* A refused request is the only one, and comes to nothing.
LEMMA RejectedStep ==
  ASSUME IInv, Rejected
  PROVE  IInv'
<1> USE DEF IInv
<1> DEFINE n == handler.server
<1>1. /\ handler.pc = "awaiting" /\ requests[n] = "sent"
      /\ requests' = [requests EXCEPT ![n] = "lost"]
      /\ handler' = [handler EXCEPT !.pc = "clearing"]
      /\ UNCHANGED <<row, job, script, server, dns, incident, entitled, faults, requeues>>
  BY DEF Rejected, Goto
<1>2. n \in Creates BY <1>1 DEF Safe, Asking
<1>3. \A m \in Live : m = n BY <1>1, <1>2 DEF Safe, OneLive, Live
<1>4. \A m \in Creates : requests'[m] = IF m = n THEN "lost" ELSE requests[m]
  BY <1>1 DEF TypeOK
<1>5. Live' = {} BY <1>3, <1>4 DEF Live
<1>6. Servers = {} BY <1>1, <1>3 DEF Servers, Live
<1>7. Servers' = Servers BY <1>5, <1>6 DEF Servers, Live
<1>8. handler'.pc = "clearing" /\ handler'.server = n BY <1>1 DEF TypeOK, Handlers
<1>9. TypeOK' BY <1>1 DEF TypeOK, Handlers, Steps
<1>10. OneLive' BY <1>5 DEF OneLive
<1>11. Asking' BY <1>2, <1>5, <1>8 DEF Asking
<1>12. SureOfNothing' BY <1>1 DEF Safe, SureOfNothing
<1>13. Recorded' BY <1>1, <1>7, <1>8 DEF Safe, Recorded, Naming
<1>14. BundlesMatch' BY <1>1, <1>7 DEF Safe, BundlesMatch
<1>15. DoneFor' BY <1>8 DEF DoneFor, Naming
<1>16. PublishedIsEncrypted' /\ Served'
  BY <1>1 DEF Safe, PublishedIsEncrypted, Served
<1> QED BY <1>9, <1>10, <1>11, <1>12, <1>13, <1>14, <1>15, <1>16 DEF Safe

\* Its traces are wiped, so that another may be made.
LEMMA ClearsStep ==
  ASSUME IInv, Clears
  PROVE  IInv'
<1> USE DEF IInv
<1> DEFINE t == [row EXCEPT !.attempted = FALSE, !.hash = None, !.bundle = None,
                            !.key = None]
           n == handler.server
<1>1. /\ handler.pc = "clearing" /\ Ended(t)
      /\ requests' = [requests EXCEPT ![n] = "unsent"]
      /\ UNCHANGED <<script, server, dns, incident, entitled, faults, requeues>>
  BY DEF Clears
<1>2. /\ t \in Rows /\ t.provider = row.provider /\ ~t.attempted /\ t.bundle = None
      /\ t.key = None /\ t.state = row.state
  BY DEF TypeOK, Rows, Maybe
<1>3. n \in Creates /\ Live = {} BY <1>1 DEF Safe, Asking
<1>4. job \in Jobs BY DEF TypeOK
<1> HIDE DEF t
<1>5. /\ row' \in Rows /\ job' \in Jobs /\ handler' = Idle
      /\ row'.provider = row.provider /\ ~row'.attempted
      /\ row'.bundle = None /\ row'.key = None
      /\ row'.state \in {row.state, "failed"}
  BY <1>1, <1>2, <1>4, EndedTypes
<1>6. \A m \in Creates : requests'[m] = IF m = n THEN "unsent" ELSE requests[m]
  BY <1>1 DEF TypeOK
<1>7. Live' = {} BY <1>3, <1>6 DEF Live
<1>8. /\ Servers = {} /\ row.provider = None /\ dns = None
      /\ row.state # "awaiting_setup" /\ script.found = None /\ script.pc # "adopting"
      /\ \A m \in Creates : server[m].bundle = None
  BY <1>3, NothingYet
<1>9. handler'.pc = "idle" BY <1>5 DEF Idle
<1>10. TypeOK'
  <2>1. Idle \in Handlers BY IdleTypes
  <2>2. requests' \in [Creates -> {"unsent", "sent", "fulfilled", "lost"}]
    BY <1>1 DEF TypeOK
  <2> QED BY <1>1, <1>5, <2>1, <2>2 DEF TypeOK
<1>11. OneLive' BY <1>7 DEF OneLive
<1>12. Asking' BY <1>9 DEF Asking
<1>13. SureOfNothing' BY <1>1 DEF Safe, SureOfNothing
<1>14. Recorded' BY <1>1, <1>5, <1>8, <1>9 DEF Recorded, Naming
<1>15. BundlesMatch' BY <1>1, <1>5, <1>8 DEF BundlesMatch
<1>16. DoneFor' BY <1>9 DEF DoneFor, Naming
<1>17. PublishedIsEncrypted' /\ Served'
  BY <1>1, <1>5, <1>8 DEF PublishedIsEncrypted, Served
<1> QED BY <1>10, <1>11, <1>12, <1>13, <1>14, <1>15, <1>16, <1>17 DEF Safe

-----------------------------------------------------------------------------
(* The provider and the server *)

\* A request ends: the server it made is the only one.
LEMMA ArrivesStep ==
  ASSUME IInv, NEW n \in Creates, Arrives(n)
  PROVE  IInv'
<1> USE DEF IInv
<1>1. /\ requests[n] = "sent"
      /\ UNCHANGED <<row, job, handler, script, dns, incident, entitled, faults, requeues>>
  BY DEF Arrives
<1>2. PICK s \in {"fulfilled", "lost"} : requests' = [requests EXCEPT ![n] = s]
  BY DEF Arrives
<1>3. /\ server' \in [Creates -> Machines]
      /\ \A m \in Creates : server'[m].bundle = server[m].bundle
  <2>1. CASE UNCHANGED server BY <2>1 DEF TypeOK
  <2>2. CASE \E b \in BOOLEAN : server' = [server EXCEPT ![n].plain = b]
    <3>1. PICK b \in BOOLEAN : server' = [server EXCEPT ![n].plain = b] BY <2>2
    <3> QED BY <3>1 DEF TypeOK, Machines
  <2> QED BY <2>1, <2>2 DEF Arrives
<1>4. n \in Live /\ n \notin Servers BY <1>1 DEF Live, Servers
<1>5. Servers = {}
  BY <1>4 DEF Safe, OneLive, Live, Servers
<1>6. /\ row.provider = None /\ dns = None /\ row.state # "awaiting_setup"
      /\ script.found = None /\ script.pc # "adopting"
      /\ handler.pc \notin {"recording"} \cup Naming
      /\ handler.pc = "looking" => handler.provider = None
      /\ \A m \in Creates : server[m].bundle = None
  BY <1>5 DEF Safe, Recorded, PublishedIsEncrypted, Served, BundlesMatch
<1>7. row.attempted /\ ~script.confirmed /\ handler.pc \notin {"creating", "clearing"}
  BY <1>4 DEF Safe, OneLive, SureOfNothing, Asking
<1>8. \A m \in Creates : requests'[m] = IF m = n THEN s ELSE requests[m]
  BY <1>2 DEF TypeOK
<1>9. Live' \subseteq Live BY <1>4, <1>8 DEF Live
<1>10. requests' \in [Creates -> {"unsent", "sent", "fulfilled", "lost"}]
  BY <1>2 DEF TypeOK
<1>11. TypeOK' BY <1>1, <1>3, <1>10 DEF TypeOK
<1>12. OneLive' BY <1>1, <1>7, <1>9 DEF Safe, OneLive
<1>13. Asking' BY <1>1, <1>7 DEF Safe, Asking
<1>14. SureOfNothing' BY <1>1, <1>7 DEF SureOfNothing
<1>15. Recorded' BY <1>1, <1>6 DEF Recorded
<1>16. BundlesMatch' BY <1>1, <1>3, <1>6 DEF Safe, BundlesMatch
<1>17. DoneFor' BY <1>1, <1>6 DEF DoneFor, Naming
<1>18. PublishedIsEncrypted' /\ Served'
  BY <1>1, <1>6 DEF PublishedIsEncrypted, Served
<1> QED BY <1>11, <1>12, <1>13, <1>14, <1>15, <1>16, <1>17, <1>18 DEF Safe

\* A server that gets an address, or asks for its bundle, may get the row's bundle
\* and loses none.
LEMMA ServerGrows ==
  ASSUME IInv, NEW n \in Servers, row' \in Rows, server' \in [Creates -> Machines],
         row'.provider = row.provider, row'.attempted = row.attempted,
         row'.bundle = row.bundle, row'.key = row.key, row'.dns = row.dns,
         row'.state = row.state,
         \A m \in Creates : /\ server'[m].plain = server[m].plain
                            /\ server[m].asked => server'[m].asked
                            /\ \/ server'[m].bundle = server[m].bundle
                               \/ /\ m = n /\ server[m].bundle = None
                                  /\ server'[m].asked
                                  /\ server'[m].bundle \in {None, row.bundle},
         UNCHANGED <<job, handler, script, requests, dns, incident, entitled, faults, requeues>>
  PROVE  IInv'
<1> USE DEF IInv
<1>1. Servers' = Servers /\ Live' = Live BY SameRequests
<1>2. TypeOK' BY DEF TypeOK
<1>3. OneLive' /\ Asking' /\ SureOfNothing' /\ Recorded'
  BY <1>1 DEF Safe, OneLive, Asking, SureOfNothing, Recorded
<1>4. BundlesMatch' BY <1>1 DEF Safe, BundlesMatch
<1>5. \A m \in Servers : /\ m \in Creates
                         /\ server[m].bundle # None => server'[m].bundle # None
  BY DEF Servers
<1>6. DoneFor'
  <2>1. handler.pc \in Naming => handler.server \in Servers BY DEF Safe, Recorded
  <2>2. handler.pc \in Naming =>
          row'.provider = handler.server /\ ~server'[handler.server].plain
    BY <1>5, <2>1 DEF Safe, DoneFor
  <2>3. handler.pc \in {"finishing", "finished"} => server'[handler.server].bundle # None
    BY <1>5, <2>1 DEF Safe, DoneFor, Naming
  <2> QED BY <2>2, <2>3 DEF Safe, DoneFor
<1>7. PublishedIsEncrypted'
  BY <1>5 DEF Safe, PublishedIsEncrypted, Recorded
<1>8. Served' BY <1>5 DEF Safe, Served, Recorded
<1> QED BY <1>2, <1>3, <1>4, <1>6, <1>7, <1>8 DEF Safe

\* A new server comes up.
LEMMA ServerSteps ==
  ASSUME IInv, NEW n \in Creates, GetsAddress(n) \/ Bootstraps(n)
  PROVE  IInv'
<1> USE DEF IInv
<1>1. n \in Servers BY DEF GetsAddress, Bootstraps
<1>2. row \in Rows /\ server \in [Creates -> Machines] BY DEF TypeOK
<1>3. CASE GetsAddress(n)
  <2>1. server' = [server EXCEPT ![n].addressed = TRUE]
    BY <1>3 DEF GetsAddress
  <2>2. /\ server' \in [Creates -> Machines]
        /\ \A m \in Creates : /\ server'[m].plain = server[m].plain
                              /\ server'[m].asked = server[m].asked
                              /\ server'[m].bundle = server[m].bundle
    BY <1>2, <2>1 DEF Machines
  <2>3. row' = row
        /\ UNCHANGED <<job, handler, script, requests, dns, incident, entitled, faults,
                       requeues>>
    BY <1>3 DEF GetsAddress
  <2> HIDE DEF IInv
  <2> QED BY <1>1, <1>2, <2>2, <2>3, ServerGrows
<1>4. CASE Bootstraps(n)
  <2>1. /\ row.bundle \in Maybe /\ None \in Maybe BY <1>2 DEF Rows, Maybe
  <2>2. PICK b \in {None, row.bundle} :
          server' = [server EXCEPT ![n].asked = TRUE, ![n].bundle = b]
    BY <1>4 DEF Bootstraps
  <2>3. server' = [server EXCEPT ![n] = [server[n] EXCEPT !.asked = TRUE, !.bundle = b]]
    BY <1>2, <2>2
  <2>4. server[n] \in Machines BY <1>2
  <2> DEFINE v == [server[n] EXCEPT !.asked = TRUE, !.bundle = b]
  <2>5. /\ v \in Machines /\ v.plain = server[n].plain /\ v.asked /\ v.bundle = b
    BY <2>1, <2>4 DEF Machines
  <2>6. server' = [server EXCEPT ![n] = v] BY <2>3
  <2> HIDE DEF v
  <2>7. server[n].bundle = None BY <1>4 DEF Bootstraps, Safe, BundlesMatch
  <2>8. /\ server' \in [Creates -> Machines]
        /\ \A m \in Creates : /\ server'[m].plain = server[m].plain
                              /\ server[m].asked => server'[m].asked
                              /\ \/ server'[m].bundle = server[m].bundle
                                 \/ /\ m = n /\ server[m].bundle = None
                                    /\ server'[m].asked
                                    /\ server'[m].bundle \in {None, row.bundle}
    BY <1>2, <2>5, <2>6, <2>7
  <2>9. row' = row \/ row' = [row EXCEPT !.hash = None] BY <1>4 DEF Bootstraps
  <2>10. /\ row' \in Rows /\ row'.provider = row.provider
         /\ row'.attempted = row.attempted /\ row'.bundle = row.bundle
         /\ row'.key = row.key /\ row'.dns = row.dns /\ row'.state = row.state
    BY <1>2, <2>1, <2>9 DEF Rows
  <2>11. UNCHANGED <<job, handler, script, requests, dns, incident, entitled, faults,
                     requeues>>
    BY <1>4 DEF Bootstraps
  <2> HIDE DEF IInv
  <2> QED BY <1>1, <2>8, <2>10, <2>11, ServerGrows
<1> QED BY <1>3, <1>4

\* Time and the customer.
LEMMA OutsideStep ==
  ASSUME IInv, Expires \/ Pays
  PROVE  IInv'
<1> USE DEF IInv
<1>1. UNCHANGED <<job, handler, script, provider, incident, faults, requeues>>
  BY DEF Expires, Pays
<1>2. /\ row' \in Rows /\ row'.provider = row.provider
      /\ row'.attempted = row.attempted /\ row'.bundle = row.bundle
      /\ row'.key = row.key /\ row'.dns = row.dns /\ row'.state = row.state
  BY DEF Expires, Pays, TypeOK, Rows
<1>3. entitled' \in BOOLEAN BY DEF Expires, Pays, TypeOK
<1>4. TypeOK' BY <1>1, <1>2, <1>3 DEF TypeOK, provider
<1>5. Servers' = Servers /\ Live' = Live BY <1>1, SameRequests DEF provider
<1>6. OneLive' /\ Asking' /\ SureOfNothing' /\ Recorded'
  BY <1>1, <1>2, <1>5 DEF Safe, OneLive, Asking, SureOfNothing, Recorded
<1>7. BundlesMatch' /\ DoneFor' /\ PublishedIsEncrypted' /\ Served'
  BY <1>1, <1>2, <1>5
     DEF Safe, BundlesMatch, DoneFor, PublishedIsEncrypted, Served, provider
<1> QED BY <1>4, <1>6, <1>7 DEF Safe

-----------------------------------------------------------------------------
(* The operator *)

\* What the operator finds is a server.
LEMMA FoundIsServer ==
  Found # None => Found \in Servers
<1>1. CASE Servers = {} BY <1>1 DEF Found
<1>2. CASE Servers # {} BY <1>2 DEF Found
<1> QED BY <1>1, <1>2

\* The operator looks; nothing came of an attempt only if no handler is at it.
LEMMA ScriptReadsStep ==
  ASSUME IInv, ScriptReads
  PROVE  IInv'
<1> USE DEF IInv
<1>1. /\ UNCHANGED <<row, job, handler, provider, incident, entitled, faults>>
      /\ requeues' \in 0 .. MaxRequeues
  BY ProvisioningAssumption DEF ScriptReads, TypeOK
<1>2. /\ script' = [pc |-> IF Found # None THEN "adopting" ELSE "committing",
                    found |-> Found, confirmed |-> Found = None /\ ProvedAbsent]
  BY DEF ScriptReads
<1>3. Found \in Maybe BY FoundIsServer DEF Maybe, Servers
<1>4. /\ script' \in [pc : {"idle", "adopting", "committing"}, found : Maybe,
                      confirmed : BOOLEAN]
      /\ script'.found = Found /\ (script'.confirmed => ProvedAbsent)
      /\ script'.pc = "adopting" => script'.found # None
  BY <1>2, <1>3
<1>5. TypeOK' BY <1>1, <1>4 DEF TypeOK, provider
<1>6. Servers' = Servers /\ Live' = Live BY <1>1, SameRequests DEF provider
<1>7. ASSUME ProvedAbsent
      PROVE  /\ row.attempted /\ Live = {}
             /\ \/ handler.pc = "idle"
                \/ handler.pc = "looking" /\ handler.attempted
  <2>1. row.attempted /\ Live = {} BY <1>7 DEF ProvedAbsent, Live
  <2>2. Servers = {} BY <2>1 DEF Servers, Live
  <2>3. handler.pc \notin {"recording"} \cup Naming BY <2>2 DEF Safe, Recorded
  <2>4. handler.pc \notin {"creating", "awaiting", "clearing", "persisting"}
    BY <1>7, <2>1 DEF ProvedAbsent, Safe, Asking
  <2>5. handler.pc \in {"idle", "looking"}
    BY <2>3, <2>4 DEF TypeOK, Handlers, Steps, Naming
  <2> QED BY <2>1, <2>5 DEF Safe, Asking
<1>8. SureOfNothing' BY <1>1, <1>4, <1>6, <1>7 DEF SureOfNothing
<1>9. Recorded' BY <1>1, <1>4, <1>6, FoundIsServer DEF Safe, Recorded
<1>10. OneLive' /\ Asking' BY <1>1, <1>6 DEF Safe, OneLive, Asking
<1>11. BundlesMatch' /\ DoneFor' /\ PublishedIsEncrypted' /\ Served'
  BY <1>1, <1>6
     DEF Safe, BundlesMatch, DoneFor, PublishedIsEncrypted, Served, provider
<1> QED BY <1>5, <1>8, <1>9, <1>10, <1>11 DEF Safe

\* The server that was found is recorded.
LEMMA ScriptAdoptsStep ==
  ASSUME IInv, ScriptAdopts
  PROVE  IInv'
<1> USE DEF IInv
<1> DEFINE n == script.found
<1>1. /\ script.pc = "adopting" /\ row' = [row EXCEPT !.provider = n]
      /\ script' = [script EXCEPT !.pc = "committing"]
      /\ UNCHANGED <<job, handler, requests, server, dns, incident, entitled, faults, requeues>>
  BY DEF ScriptAdopts, provider
<1>2. n \in Servers /\ n \in Creates BY <1>1 DEF Safe, Recorded, Servers
<1>3. /\ row' \in Rows /\ row'.provider = n
      /\ row'.attempted = row.attempted /\ row'.bundle = row.bundle
      /\ row'.key = row.key /\ row'.dns = row.dns /\ row'.state = row.state
  BY <1>1, <1>2 DEF TypeOK, Rows, Maybe
<1>4. script'.pc = "committing" /\ script'.found = n /\ script'.confirmed = script.confirmed
  BY <1>1 DEF TypeOK
<1>5. TypeOK' BY <1>1, <1>3 DEF TypeOK
<1>6. Servers' = Servers /\ Live' = Live BY <1>1, SameRequests
<1>7. OneLive' /\ BundlesMatch' /\ PublishedIsEncrypted' /\ Served'
  <2> HIDE DEF n, IInv
  <2> QED BY <1>1, <1>2, <1>3, RowKept
<1>8. Asking' BY <1>1, <1>3, <1>6 DEF Safe, Asking
<1>9. SureOfNothing' BY <1>1, <1>3, <1>4, <1>6 DEF Safe, SureOfNothing
<1>10. Recorded' BY <1>1, <1>2, <1>3, <1>4, <1>6 DEF Safe, Recorded
<1>11. DoneFor'
  <2>1. handler.pc \in Naming => handler.server \in Servers
    BY DEF Safe, Recorded
  <2>2. handler.pc \in Naming => handler.server = n BY <1>2, <2>1, TheServer
  <2> QED BY <1>1, <1>3, <2>2 DEF Safe, DoneFor
<1> QED BY <1>5, <1>7, <1>8, <1>9, <1>10, <1>11 DEF Safe

\* The job is put back, and an attempt of which nothing came is forgotten.
LEMMA ScriptCommitsStep ==
  ASSUME IInv, ScriptCommits
  PROVE  IInv'
<1> USE DEF IInv
<1> DEFINE t == IF Reset THEN [row EXCEPT !.attempted = FALSE, !.hash = None,
                                          !.bundle = None]
                         ELSE row
<1>1. /\ row' = Revived(t) /\ job' = [job EXCEPT !.tries = 0, !.done = FALSE]
      /\ script' = NoScript
      /\ UNCHANGED <<handler, requests, server, dns, incident, entitled, faults, requeues>>
  BY DEF ScriptCommits, provider
<1>2. /\ t \in Rows /\ t.provider = row.provider /\ t.key = row.key /\ t.dns = row.dns
      /\ t.state = row.state /\ t.bundle \in {row.bundle, None}
      /\ t.attempted = IF Reset THEN FALSE ELSE row.attempted
  <2>1. CASE Reset BY <2>1 DEF TypeOK, Rows, Maybe
  <2>2. CASE ~Reset BY <2>2 DEF TypeOK
  <2> QED BY <2>1, <2>2
<1> HIDE DEF t
<1>3. /\ row' \in Rows /\ row'.provider = row.provider /\ row'.key = row.key
      /\ row'.dns = row.dns /\ row'.bundle \in {row.bundle, None}
      /\ row'.attempted = IF Reset THEN FALSE ELSE row.attempted
      /\ row'.state \in {row.state, "provisioning"}
  <2>1. CASE t.state = "failed"
    <3>1. row' = [t EXCEPT !.state = "provisioning"] BY <1>1, <2>1 DEF Revived
    <3> QED BY <1>2, <3>1 DEF Rows
  <2>2. CASE t.state # "failed" BY <1>1, <1>2, <2>2 DEF Revived
  <2> QED BY <2>1, <2>2
<1>4. job' \in Jobs
  <2>1. 0 \in 0 .. MaxTries BY ProvisioningAssumption
  <2>2. job \in Jobs BY DEF TypeOK
  <2> HIDE DEF IInv
  <2> QED BY <1>1, <2>1, <2>2 DEF Jobs
<1>5. NoScript \in [pc : {"idle", "adopting", "committing"}, found : Maybe,
                    confirmed : BOOLEAN]
  BY DEF NoScript, Maybe
<1>6. TypeOK' BY <1>1, <1>3, <1>4, <1>5 DEF TypeOK
<1>7. Servers' = Servers /\ Live' = Live BY <1>1, SameRequests
<1>8. script'.pc = "idle" /\ script'.found = None /\ ~script'.confirmed
  BY <1>1 DEF NoScript
<1>9. Reset => /\ Live = {}
               /\ \/ handler.pc = "idle"
                  \/ handler.pc = "looking" /\ handler.attempted
  BY DEF Reset, Safe, SureOfNothing
<1>10. OneLive' BY <1>3, <1>7, <1>9 DEF Safe, OneLive
<1>11. Asking'
  <2>1. CASE Reset BY <1>1, <1>9, <2>1 DEF Asking
  <2>2. CASE ~Reset BY <1>1, <1>3, <1>7, <2>2 DEF Safe, Asking
  <2> QED BY <2>1, <2>2
<1>12. SureOfNothing' BY <1>8 DEF SureOfNothing
<1>13. Recorded' BY <1>1, <1>3, <1>7, <1>8 DEF Safe, Recorded
<1>14. BundlesMatch' BY <1>1, <1>3, <1>7 DEF Safe, BundlesMatch
<1>15. DoneFor' /\ PublishedIsEncrypted' /\ Served'
  BY <1>1, <1>3 DEF Safe, DoneFor, PublishedIsEncrypted, Served
<1> QED BY <1>6, <1>10, <1>11, <1>12, <1>13, <1>14, <1>15 DEF Safe

-----------------------------------------------------------------------------
\* Every step keeps the invariant.
LEMMA NextIInv == IInv /\ [Next]_vars => IInv'
<1> SUFFICES ASSUME IInv, [Next]_vars PROVE IInv' OBVIOUS
<1>1. CASE HandlerStep
  <2>1. CASE Starts BY <2>1, StartsStep
  <2>2. CASE Looks BY <2>2, LooksStep
  <2>3. CASE Persists BY <2>3, PersistsStep
  <2>4. CASE Sends BY <2>4, SendsStep
  <2>5. CASE Rejected BY <2>5, RejectedStep
  <2>6. CASE Clears BY <2>6, ClearsStep
  <2>7. CASE Records BY <2>7, RecordsStep
  <2>8. CASE Created \/ Names \/ SavesDns \/ Checks BY <2>8, NamingSteps
  <2>9. CASE Finishes BY <2>9, FinishesStep
  <2>10. CASE TimesOut \/ Waits \/ MarksDone BY <2>10, EndingSteps
  <2> QED BY <1>1, <2>1, <2>2, <2>3, <2>4, <2>5, <2>6, <2>7, <2>8, <2>9, <2>10
          DEF HandlerStep
<1>2. CASE Fails \/ FindsBusy BY <1>2, EndingSteps, FindsBusyStep
<1>3. CASE Crashes BY <1>3, CrashesStep
<1>4. ASSUME NEW n \in Creates, Arrives(n) PROVE IInv' BY <1>4, ArrivesStep
<1>5. ASSUME NEW n \in Creates, GetsAddress(n) \/ Bootstraps(n) PROVE IInv'
  BY <1>5, ServerSteps
<1>6. CASE Expires \/ Pays BY <1>6, OutsideStep
<1>7. CASE ScriptStep
  BY <1>7, ScriptReadsStep, ScriptAdoptsStep, ScriptCommitsStep DEF ScriptStep
<1>8. CASE UNCHANGED vars
  <2>1. UNCHANGED <<row, job, handler, script, requests, server, dns, incident,
                    entitled, faults, requeues>>
    BY <1>8 DEF vars
  <2>2. TypeOK' BY <2>1 DEF IInv, TypeOK
  <2>3. Servers' = Servers /\ Live' = Live BY <2>1, SameRequests
  <2> QED BY <2>1, <2>2, <2>3
          DEF IInv, Safe, OneLive, Asking, SureOfNothing, Recorded, BundlesMatch, DoneFor,
              PublishedIsEncrypted, Served
<1> QED BY <1>1, <1>2, <1>3, <1>4, <1>5, <1>6, <1>7, <1>8 DEF Next

\* The inductive invariant of provisioning: at most one request is live, and the
\* row says so; whoever is about to send one, or to forget one, knows of none.
THEOREM ProvisioningInvariant == Spec => []IInv
  BY InitIInv, NextIInv, PTL DEF Spec

\* Rows, requests and machines keep their types, and the job its attempts.
THEOREM ProvisioningTypeOK == Spec => []TypeOK
<1>1. IInv => TypeOK BY DEF IInv
<1> QED BY <1>1, ProvisioningInvariant, PTL

\* A tenant never has two servers, nor a request on its way besides one
\* (provision.ts: the attempt is saved before the request is sent).
THEOREM ProvisioningOneServer == Spec => []OneServer
  BY OneLiveIsOne, ProvisioningInvariant, PTL

\* A server that is paid for is recorded, or the attempt that led to it is.
THEOREM ProvisioningNoOrphan == Spec => []NoOrphan
<1>1. IInv => NoOrphan
  BY DEF IInv, Safe, OneLive, Live, Servers, NoOrphan
<1> QED BY <1>1, ProvisioningInvariant, PTL

\* A tenant's name leads to its server, whose disks were seen to be encrypted.
THEOREM ProvisioningPublished == Spec => []PublishedIsEncrypted
<1>1. IInv => PublishedIsEncrypted BY DEF IInv, Safe
<1> QED BY <1>1, ProvisioningInvariant, PTL

\* What is offered to its owner is whole: installed with the bundle whose key the
\* gateway knows, and named.
THEOREM ProvisioningServedIsWhole == Spec => []ServedIsWhole
<1>1. IInv => ServedIsWhole
  <2> SUFFICES ASSUME IInv, row.state = "awaiting_setup"
               PROVE  /\ row.provider # None /\ dns = row.provider /\ row.dns
                      /\ server[row.provider].bundle = row.key
    BY DEF ServedIsWhole
  <2>1. /\ row.provider # None /\ dns = row.provider /\ row.dns
        /\ server[row.provider].bundle # None
    BY DEF IInv, Safe, Served
  <2>2. row.provider \in Creates BY <2>1 DEF IInv, Safe, Recorded, Servers
  <2> QED BY <2>1, <2>2 DEF IInv, Safe, BundlesMatch
<1> QED BY <1>1, ProvisioningInvariant, PTL

-----------------------------------------------------------------------------
(* What a served tenant and a finished job mean *)

\* No attempt starts for a tenant that is served: it has its server.
LEMMA ServedAsksNothing ==
  ASSUME IInv, handler.pc = "persisting"
  PROVE  row.state # "awaiting_setup"
<1>1. Live = {} BY DEF IInv, Safe, Asking, OneLive
<1> QED BY <1>1, NothingYet

\* A failure marks only a tenant that is still being provisioned.
LEMMA FailedSpares ==
  ASSUME NEW k, NEW j \in Jobs, NEW t \in Rows, Failed(k, j, t)
  PROVE  /\ t.state = "awaiting_setup" => row'.state = "awaiting_setup"
         /\ job'.done = j.done
<1>1. t.state = "awaiting_setup" => row' = t BY DEF Failed
<1>2. job'.done = j.done BY DEF Failed, Jobs
<1> QED BY <1>1, <1>2

\* Each step leaves a served tenant served, and ends no job but behind the step
\* that serves it.
LEMMA StaysServed ==
  ASSUME IInv, [Next]_vars
  PROVE  /\ row.state = "awaiting_setup" => row'.state = "awaiting_setup"
         /\ job'.done => job.done \/ handler.pc = "finished"
         /\ handler'.pc = "finished" =>
              handler.pc = "finished" \/ row'.state = "awaiting_setup"
<1> DEFINE Goal ==
      /\ row.state = "awaiting_setup" => row'.state = "awaiting_setup"
      /\ job'.done => job.done \/ handler.pc = "finished"
      /\ handler'.pc = "finished" =>
           handler.pc = "finished" \/ row'.state = "awaiting_setup"
<1> SUFFICES Goal OBVIOUS
<1>1. row \in Rows /\ job \in Jobs /\ handler \in Handlers
  BY DEF IInv, TypeOK
<1>2. Idle.pc = "idle" BY DEF Idle
<1>3. ASSUME NEW t \in Rows, t.state = row.state, Ended(t) PROVE Goal
  <2>1. handler' = Idle /\ Failed(handler.attempt, job, t) BY <1>3 DEF Ended
  <2> QED BY <1>1, <1>2, <1>3, <2>1, FailedSpares
<1>4. CASE Throw BY <1>1, <1>3, <1>4 DEF Throw
<1>5. CASE Looks \/ Created \/ TimesOut \/ Rejected \/ Waits \/ Sends \/ Checks
           \/ Names \/ Fails
  <2>1. CASE Throw BY <2>1, <1>4
  <2>2. CASE ~Throw
    <3>1. UNCHANGED <<row, job>> /\ handler'.pc # "finished"
      BY <1>1, <1>5, <2>2 DEF Looks, Adopts, Created, TimesOut, Rejected, Waits, Sends,
         Checks, Names, Fails, Goto, Handlers
    <3> QED BY <3>1
  <2> QED BY <2>1, <2>2
<1>6. CASE Starts \/ FindsBusy
  <2>1. Claimed.done = job.done BY <1>1 DEF Claimed, Jobs
  <2>2. Claimed \in Jobs
    BY <1>1, <1>6, ClaimedTypes DEF Starts, FindsBusy
  <2>3. /\ handler'.pc = "finished" => handler.pc = "finished"
        /\ \/ UNCHANGED row /\ job' = Claimed
           \/ Failed(Claimed.tries, Claimed, row)
    BY <1>1, <1>6 DEF Starts, FindsBusy, Begins, Handlers
  <2>4. CASE UNCHANGED row /\ job' = Claimed BY <2>1, <2>3, <2>4
  <2>5. CASE Failed(Claimed.tries, Claimed, row)
    <3>1. PICK j \in Jobs : j = Claimed BY <2>2
    <3>2. Failed(j.tries, j, row) BY <2>5, <3>1
    <3> QED BY <1>1, <2>1, <2>3, <3>1, <3>2, FailedSpares
  <2> QED BY <2>3, <2>4, <2>5
<1>7. CASE Persists
  <2>1. row.state # "awaiting_setup" BY <1>7, ServedAsksNothing DEF Persists
  <2>2. job' = job /\ handler'.pc # "finished" BY <1>1, <1>7 DEF Persists, Handlers
  <2> QED BY <2>1, <2>2
<1>8. CASE Clears
  <2> DEFINE t == [row EXCEPT !.attempted = FALSE, !.hash = None, !.bundle = None,
                              !.key = None]
  <2>1. t \in Rows /\ t.state = row.state BY <1>1 DEF Rows, Maybe
  <2>2. Ended(t) BY <1>8 DEF Clears
  <2> HIDE DEF t
  <2> QED BY <2>1, <2>2, <1>3
<1>9. CASE Records
  <2> DEFINE t == [row EXCEPT !.provider = handler.server]
  <2>1. t \in Rows /\ t.state = row.state BY <1>1 DEF Rows, Handlers
  <2>2. \/ Ended(t)
        \/ Goto("naming") /\ row' = t /\ UNCHANGED job
    BY <1>9 DEF Records
  <2> HIDE DEF t
  <2>3. CASE Ended(t) BY <2>1, <2>3, <1>3
  <2>4. CASE Goto("naming") /\ row' = t /\ UNCHANGED job
    <3>1. handler'.pc # "finished" BY <1>1, <2>4 DEF Goto, Handlers
    <3> QED BY <2>1, <2>4, <3>1
  <2> QED BY <2>2, <2>3, <2>4
<1>10. CASE SavesDns
  BY <1>1, <1>10 DEF SavesDns, Goto, Rows, Handlers
<1>11. CASE Finishes BY <1>1, <1>11 DEF Finishes, Rows
<1>12. CASE MarksDone BY <1>1, <1>2, <1>12 DEF MarksDone, Jobs
<1>13. CASE Crashes BY <1>2, <1>13 DEF Crashes
<1>14. ASSUME NEW n \in Creates, Arrives(n) \/ GetsAddress(n) PROVE Goal
  BY <1>14 DEF Arrives, GetsAddress
<1>15. ASSUME NEW n \in Creates, Bootstraps(n) PROVE Goal
  <2>1. row'.state = row.state BY <1>1, <1>15 DEF Bootstraps, Rows
  <2>2. UNCHANGED <<job, handler>> BY <1>15 DEF Bootstraps
  <2> QED BY <2>1, <2>2
<1>16. CASE Expires \/ Pays BY <1>1, <1>16 DEF Expires, Pays, Rows
<1>17. CASE ScriptReads BY <1>17 DEF ScriptReads
<1>18. CASE ScriptAdopts BY <1>1, <1>18 DEF ScriptAdopts, Rows
<1>19. CASE ScriptCommits
  <2>1. job'.done = FALSE /\ handler' = handler
    BY <1>1, <1>19 DEF ScriptCommits, Jobs
  <2>2. row.state = "awaiting_setup" => row'.state = "awaiting_setup"
    BY <1>1, <1>19 DEF ScriptCommits, Revived, Rows
  <2> QED BY <2>1, <2>2
<1>20. CASE UNCHANGED vars BY <1>20 DEF vars
<1> QED
  BY <1>5, <1>6, <1>7, <1>8, <1>9, <1>10, <1>11, <1>12, <1>13, <1>14, <1>15, <1>16,
     <1>17, <1>18, <1>19, <1>20 DEF Next, HandlerStep, ScriptStep

\* A tenant that is offered to its owner stays so through late attempts, crashes
\* and whatever the operator does to its job (provision.ts, retry-provision.ts).
THEOREM ProvisioningStaysServed ==
  Spec => [][row.state = "awaiting_setup" => row'.state = "awaiting_setup"]_vars
<1>1. IInv /\ [Next]_vars =>
        [row.state = "awaiting_setup" => row'.state = "awaiting_setup"]_vars
  BY StaysServed
<1> QED BY <1>1, ProvisioningInvariant, PTL DEF Spec

\* A job that is done has served its tenant: what JobQueue takes for granted of a
\* handler that returns.
THEOREM ProvisioningDoneServes == Spec => [](job.done => row.state = "awaiting_setup")
<1> DEFINE DoneInv == job.done \/ handler.pc = "finished" => row.state = "awaiting_setup"
<1>1. Init => DoneInv BY DEF Init, Idle
<1>2. IInv /\ DoneInv /\ [Next]_vars => DoneInv'
  <2> SUFFICES ASSUME IInv, DoneInv, [Next]_vars PROVE DoneInv' OBVIOUS
  <2> QED BY StaysServed
<1>3. DoneInv => (job.done => row.state = "awaiting_setup") OBVIOUS
<1> HIDE DEF DoneInv
<1> QED BY <1>1, <1>2, <1>3, ProvisioningInvariant, PTL DEF Spec
=============================================================================
