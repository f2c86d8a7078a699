------------------------------ MODULE TenantHost ------------------------------
(***************************************************************************)
(* One tenant's server: the container of its agent, which Docker restarts  *)
(* with the machine unless it was stopped by hand; the access service      *)
(* (src/src/tenant/main.ts), whose calls stop and start the container and  *)
(* take turns by a file lock, with export.sh and the owner's onboarding    *)
(* wizard (bootstrap.ts); and the jobs of the control plane that make the  *)
(* calls, and may stop waiting for one that goes on (provision.ts,         *)
(* worker.ts). When these jobs run is in Lifecycle and Provisioning.       *)
(***************************************************************************)
EXTENDS Naturals

CONSTANTS
  Calls,       \* bound: calls of the access service, and wizards, at a time
  MaxFaults    \* bound: crashes of the access service or the machine

ASSUME TenantHostAssumption == MaxFaults \in Nat

None == "none"
ASSUME NoCall == None \notin Calls

VARIABLES
  vm,         \* "on", "off"
  gateway,    \* the container: whether it runs, and was stopped by hand
  suspended,  \* the access service's setting
  primary,    \* the prepaid model is configured
  lock,       \* who holds /var/lib/sac/locks/operation
  call,       \* what each call does; ran: the archive found the gateway running
  plane,      \* the tenant's state at the control plane, the step of its job and
              \* the call that it waits for
  down,       \* a suspension was confirmed, and nothing was resumed since
  lost,       \* whoever stopped the gateway will not see to it again: an archive that
              \* died, or a suspension that was no longer waited for
  faults

vars == <<vm, gateway, suspended, primary, lock, call, plane, down, lost, faults>>

Idle == [kind |-> None, pc |-> "idle", ran |-> FALSE]
Running == [runs |-> TRUE, byHand |-> FALSE]
Stopped == [runs |-> FALSE, byHand |-> TRUE]

Call == [kind : {None, "archive", "suspend", "resume", "prepaid", "wizard"},
         pc : {"idle", "waiting", "locked", "stopping", "copying",
               "restoring", "unflagging", "configuring", "restarting"},
         ran : BOOLEAN]

Plane == [state : {"provisioning", "serving", "suspended"},
          step : {"idle", "preparing", "archiving", "saving", "stopping",
                  "parking", "resuming"},
          waits : Calls \cup {None}]

TypeOK ==
  /\ vm \in {"on", "off"}
  /\ gateway \in [runs : BOOLEAN, byHand : BOOLEAN]
  /\ suspended \in BOOLEAN /\ primary \in BOOLEAN
  /\ lock \in Calls \cup {None}
  /\ call \in [Calls -> Call]
  /\ plane \in Plane
  /\ down \in BOOLEAN /\ lost \in BOOLEAN
  /\ faults \in 0 .. MaxFaults

Init ==
  /\ vm = "on" /\ gateway = Running
  /\ suspended = FALSE /\ primary = FALSE
  /\ lock = None
  /\ call = [c \in Calls |-> Idle]
  /\ plane = [state |-> "provisioning", step |-> "idle", waits |-> None]
  /\ down = FALSE /\ lost = FALSE
  /\ faults = 0

-----------------------------------------------------------------------------
(* The control plane: one job at a time *)

\* What its job does next, when the call it waits for succeeded or failed.
After(ok) ==
  CASE plane.step = "preparing" ->
         [plane EXCEPT !.state = IF ok THEN "serving" ELSE @, !.step = "idle", !.waits = None]
    [] plane.step = "archiving" -> [plane EXCEPT !.step = "idle", !.waits = None]
    [] plane.step = "saving" -> [plane EXCEPT !.step = "stopping", !.waits = None]
    [] plane.step = "stopping" -> [plane EXCEPT !.step = "parking", !.waits = None]
    [] OTHER ->
         [plane EXCEPT !.state = IF ok THEN "serving" ELSE @, !.step = "idle", !.waits = None]

Starting == \E c \in Calls : call[c].kind \in {"prepaid", "resume"}

\* Call c ends; the job goes on if it still waits for it. A suspension counts as
\* confirmed unless a call that the control plane gave up, and that starts the
\* gateway, is still under way or has undone its setting.
Ends(c, ok) ==
  /\ call' = [call EXCEPT ![c] = Idle]
  /\ plane' = IF plane.waits = c THEN After(ok) ELSE plane
  /\ down' = (down \/ (plane.waits = c /\ plane.step = "stopping" /\ ok /\ ~Starting /\ suspended))

Calling(step) ==
  CASE step = "preparing" -> [kind |-> "prepaid", pc |-> "configuring"]
    [] step \in {"archiving", "saving"} -> [kind |-> "archive", pc |-> "waiting"]
    [] step = "stopping" -> [kind |-> "suspend", pc |-> "waiting"]
    [] step = "resuming" -> [kind |-> "resume", pc |-> "waiting"]

\* A job starts: of provisioning, the daily backup, a suspension, a resumption,
\* for which the machine is turned on.
Begins ==
  /\ plane.step = "idle"
  /\ \E step \in CASE plane.state = "provisioning" -> {"preparing"}
                   [] plane.state = "serving" -> {"archiving", "saving"}
                   [] plane.state = "suspended" -> {"parking", "resuming"} :
       /\ plane' = [plane EXCEPT !.step = step,
                                 !.state = IF step = "saving" THEN "suspended" ELSE @]
       /\ IF step = "resuming" /\ vm = "off"
          THEN vm' = "on" /\ gateway' = [gateway EXCEPT !.runs = ~gateway.byHand]
          ELSE UNCHANGED <<vm, gateway>>
  /\ UNCHANGED <<suspended, primary, lock, call, down, lost, faults>>

\* The call of the step reaches the access service. A suspension is noted there
\* before it waits for its turn.
Sends(c) ==
  LET kind == Calling(plane.step).kind IN
  /\ plane.step \notin {"idle", "parking"} /\ plane.waits = None
  /\ vm = "on" /\ call[c] = Idle
  /\ call' = [call EXCEPT ![c] = [kind |-> kind, pc |-> Calling(plane.step).pc, ran |-> FALSE]]
  /\ plane' = [plane EXCEPT !.waits = c]
  /\ suspended' = (suspended \/ kind = "suspend")
  /\ down' = (down /\ kind # "resume")
  /\ UNCHANGED <<vm, gateway, primary, lock, lost, faults>>

\* The call does not arrive, or is not waited for any longer.
Abandons ==
  /\ plane.step \notin {"idle", "parking"}
  /\ plane' = After(FALSE)
  /\ UNCHANGED <<vm, gateway, suspended, primary, lock, call, down, lost, faults>>

HoldsStopped(c) ==
  /\ call[c].kind = "archive" /\ call[c].ran /\ call[c].pc \in {"copying", "restoring"}
  /\ ~gateway.runs

\* The machine is stopped whatever the calls came to, and they with it.
Parks ==
  /\ plane.step = "parking"
  /\ vm' = "off" /\ gateway' = [gateway EXCEPT !.runs = FALSE]
  /\ lock' = None /\ call' = [c \in Calls |-> Idle]
  /\ plane' = [plane EXCEPT !.step = "idle"]
  /\ lost' = (lost \/ \E c \in Calls : HoldsStopped(c))
  /\ UNCHANGED <<suspended, primary, down, faults>>

\* The provider fails to; the job is tried again, or the tenant pays again first.
ParkFails ==
  /\ plane.step = "parking"
  /\ plane' = [plane EXCEPT !.step = "idle"]
  /\ UNCHANGED <<vm, gateway, suspended, primary, lock, call, down, lost, faults>>

-----------------------------------------------------------------------------
(* The calls. Those that take turns wait two minutes for the lock, the      *)
(* wizard as long as it takes.                                              *)

\* The owner exports the agent, or opens the terminal.
OwnerCalls(c) ==
  /\ vm = "on" /\ call[c] = Idle
  /\ \E kind \in {"archive"} \cup (IF suspended THEN {} ELSE {"wizard"}) :
       call' = [call EXCEPT ![c] = [kind |-> kind, pc |-> "waiting", ran |-> FALSE]]
  /\ UNCHANGED <<vm, gateway, suspended, primary, lock, plane, down, lost, faults>>

\* Mutant: the archive does not wait for its turn.
LocksButArchives(c) ==
  /\ call[c].pc = "waiting"
  /\ IF call[c].kind = "archive" THEN UNCHANGED lock ELSE lock = None /\ lock' = c
  /\ call' = [call EXCEPT ![c].pc = "locked"]
  /\ UNCHANGED <<vm, gateway, suspended, primary, plane, down, lost, faults>>

\* Mutant: a suspension does not wait for its turn.
LocksButSuspends(c) ==
  /\ call[c].pc = "waiting"
  /\ IF call[c].kind = "suspend" THEN UNCHANGED lock ELSE lock = None /\ lock' = c
  /\ call' = [call EXCEPT ![c].pc = "locked"]
  /\ UNCHANGED <<vm, gateway, suspended, primary, plane, down, lost, faults>>

Locks(c) ==
  /\ call[c].pc = "waiting" /\ lock = None
  /\ lock' = c
  /\ call' = [call EXCEPT ![c].pc = "locked"]
  /\ UNCHANGED <<vm, gateway, suspended, primary, plane, down, lost, faults>>

TurnsAway(c) ==
  /\ call[c].pc = "waiting" /\ lock # None /\ call[c].kind # "wizard"
  /\ Ends(c, FALSE)
  /\ UNCHANGED <<vm, gateway, suspended, primary, lock, lost, faults>>

Goto(c, pc) == call' = [call EXCEPT ![c].pc = pc]
At(c, kind, pc) == call[c].kind = kind /\ call[c].pc = pc

Starts == gateway' = Running /\ lost' = FALSE
Unlocks(c) == lock' = IF lock = c THEN None ELSE lock

\* export.sh looks whether the gateway runs ...
Inspects(c) ==
  /\ At(c, "archive", "locked")
  /\ call' = [call EXCEPT ![c].pc = "stopping", ![c].ran = gateway.runs]
  /\ UNCHANGED <<vm, gateway, suspended, primary, lock, plane, down, lost, faults>>

\* ... stops it if it does ...
StopsForCopy(c) ==
  /\ At(c, "archive", "stopping")
  /\ gateway' = IF call[c].ran THEN Stopped ELSE gateway
  /\ Goto(c, "copying")
  /\ UNCHANGED <<vm, suspended, primary, lock, plane, down, lost, faults>>

\* ... copies its state, or fails to ...
Copies(c) ==
  /\ At(c, "archive", "copying")
  /\ Goto(c, "restoring")
  /\ UNCHANGED <<vm, gateway, suspended, primary, lock, plane, down, lost, faults>>

\* Mutant: the gateway is started again only after a successful copy.
RestoresIfCopied(c) ==
  /\ At(c, "archive", "restoring")
  /\ \E ok \in BOOLEAN :
       /\ IF call[c].ran /\ ok THEN Starts ELSE UNCHANGED <<gateway, lost>>
       /\ Ends(c, ok)
  /\ Unlocks(c)
  /\ UNCHANGED <<vm, suspended, primary, faults>>

\* ... and in either case leaves the gateway as it was.
Restores(c) ==
  /\ At(c, "archive", "restoring")
  /\ IF call[c].ran THEN Starts ELSE UNCHANGED <<gateway, lost>>
  /\ Unlocks(c)
  /\ \E ok \in BOOLEAN : Ends(c, ok)
  /\ UNCHANGED <<vm, suspended, primary, faults>>

Suspends(c) ==
  /\ At(c, "suspend", "locked")
  /\ gateway' = Stopped
  /\ lost' = (plane.waits # c)
  /\ Unlocks(c)
  /\ Ends(c, TRUE)
  /\ UNCHANGED <<vm, suspended, primary, faults>>

Resumes(c) ==
  /\ At(c, "resume", "locked")
  /\ Starts
  /\ Unlocks(c)
  /\ Goto(c, "unflagging")
  /\ UNCHANGED <<vm, suspended, primary, plane, down, faults>>

Unflags(c) ==
  /\ At(c, "resume", "unflagging")
  /\ suspended' = FALSE
  /\ Ends(c, TRUE)
  /\ UNCHANGED <<vm, gateway, primary, lock, lost, faults>>

\* A model configured before is left as it is.
Configures(c) ==
  /\ At(c, "prepaid", "configuring")
  /\ \/ gateway.runs /\ primary /\ Ends(c, TRUE) /\ UNCHANGED primary
     \/ /\ gateway.runs /\ ~primary
        /\ primary' = TRUE /\ Goto(c, "restarting") /\ UNCHANGED <<plane, down>>
     \/ ~gateway.runs /\ Ends(c, FALSE) /\ UNCHANGED primary
  /\ UNCHANGED <<vm, gateway, suspended, lock, lost, faults>>

\* The gateway is restarted, in nobody's turn and whoever stopped it.
Restarts(c) ==
  /\ At(c, "prepaid", "restarting")
  /\ Starts
  /\ Ends(c, TRUE)
  /\ UNCHANGED <<vm, suspended, primary, lock, faults>>

\* The wizard's commands run in the gateway, which it restarts at the end.
Onboards(c) ==
  /\ At(c, "wizard", "locked")
  /\ (gateway.runs /\ Starts) \/ UNCHANGED <<gateway, lost>>
  /\ Unlocks(c)
  /\ Ends(c, TRUE)
  /\ UNCHANGED <<vm, suspended, primary, faults>>

CallStep(c) ==
  \/ Locks(c) \/ TurnsAway(c) \/ Inspects(c) \/ StopsForCopy(c) \/ Copies(c) \/ Restores(c)
  \/ Suspends(c) \/ Resumes(c) \/ Unflags(c) \/ Configures(c) \/ Restarts(c)

-----------------------------------------------------------------------------
(* Crashes *)

Dies(S) ==
  /\ vm = "on" /\ faults < MaxFaults /\ faults' = faults + 1
  /\ lock' = IF lock \in S THEN None ELSE lock
  /\ call' = [c \in Calls |-> IF c \in S THEN Idle ELSE call[c]]
  /\ plane' = IF plane.waits \in S THEN After(FALSE) ELSE plane
  /\ lost' = (lost \/ \E c \in S : HoldsStopped(c))
  /\ UNCHANGED <<vm, suspended, primary, down>>

\* With the access service die its calls, but for the terminal.
ServiceDies ==
  /\ Dies({c \in Calls : call[c].kind # "wizard"})
  /\ UNCHANGED gateway

\* The machine starts again.
MachineDies ==
  /\ Dies(Calls)
  /\ gateway' = [gateway EXCEPT !.runs = ~gateway.byHand]

Next ==
  \/ Begins \/ Abandons \/ Parks \/ ParkFails
  \/ \E c \in Calls : Sends(c) \/ OwnerCalls(c) \/ CallStep(c) \/ Onboards(c)
  \/ ServiceDies \/ MachineDies

\* Calls go on. An owner may leave the terminal open for ever.
Fairness == \A c \in Calls : WF_vars(CallStep(c))

Spec == Init /\ [][Next]_vars /\ Fairness

-----------------------------------------------------------------------------
\* "Export cleanup could restart OpenClaw after a concurrent suspension" was
\* fixed by the shared lock (docs/REVIEW.md): once a suspension is confirmed, no
\* archive, wizard, crash or restart of the machine brings the agent back until
\* it is resumed, or its owner into it.
SuspendedStaysDown == down => ~gateway.runs /\ suspended

\* What is archived stands still: while a copy is made nothing starts the
\* gateway but a prepaid call, which takes no turn.
ArchiveIsQuiet ==
  [][\A c \in Calls :
       At(c, "archive", "copying") /\ ~gateway.runs /\ gateway'.runs
         => \/ ~At(c, "archive", "copying")'
            \/ \E d \in Calls : At(d, "prepaid", "restarting") /\ call'[d] = Idle]_vars

\* The gateway of a tenant that is served is down only while an archive, which
\* will start it again, holds the lock: whatever was suspended and resumed before,
\* unless it was lost.
ServedIsUp ==
  plane.state = "serving" =>
    ~suspended /\ (gateway.runs \/ lost \/ \E c \in Calls : lock = c /\ HoldsStopped(c))

\* Archives pause it briefly.
PauseEnds ==
  \A c \in Calls : HoldsStopped(c) ~> (gateway.runs \/ vm = "off" \/ lost)
=============================================================================
