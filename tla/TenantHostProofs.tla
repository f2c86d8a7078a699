--------------------------- MODULE TenantHostProofs ---------------------------
(* A suspension that was confirmed holds, and the gateway of a tenant that is  *)
(* served is up, for any number of calls and crashes.                          *)
EXTENDS TenantHost, TLAPS

Turn == {"locked", "stopping", "copying", "restoring"}

\* Whoever has the turn holds the lock.
TurnsHeld == \A c \in Calls : call[c].pc \in Turn => lock = c

\* The job waits for the call of its step.
WaitsForItsCall ==
  plane.waits \in Calls =>
    /\ plane.step \notin {"idle", "parking"}
    /\ call[plane.waits].kind = Calling(plane.step).kind

\* Provisioning comes once, and a suspended tenant's server is stopped.
StepsInOrder ==
  /\ plane.step = "preparing" => plane.state = "provisioning"
  /\ plane.step \in {"saving", "stopping"} => plane.state = "suspended"

\* A machine that is off runs nothing.
OffIsQuiet == vm = "off" => \A c \in Calls : call[c] = Idle

\* An archive that will start the gateway again.
StartsAgain(c) ==
  call[c].kind = "archive" /\ call[c].ran /\ call[c].pc \in {"stopping", "copying", "restoring"}

\* Nothing is under way that would start a gateway that was suspended.
DownHolds ==
  down =>
    /\ ~gateway.runs /\ gateway.byHand /\ suspended
    /\ plane.state # "provisioning"
    /\ \A c \in Calls : call[c].kind \notin {"prepaid", "resume"} /\ ~StartsAgain(c)

IInv ==
  TypeOK /\ TurnsHeld /\ WaitsForItsCall /\ StepsInOrder /\ OffIsQuiet /\ DownHolds

-----------------------------------------------------------------------------
\* The initial state satisfies the invariant.
LEMMA InitIInv == Init => IInv
<1> SUFFICES ASSUME Init PROVE IInv OBVIOUS
<1> USE DEF Init
<1>1. TypeOK
  <2>1. gateway \in [runs : BOOLEAN, byHand : BOOLEAN] BY DEF Running
  <2>2. Idle \in Call BY DEF Idle, Call, None
  <2>3. plane \in Plane BY DEF Plane
  <2>4. faults \in 0 .. MaxFaults BY TenantHostAssumption
  <2> QED BY <2>1, <2>2, <2>3, <2>4 DEF TypeOK
<1>2. TurnsHeld BY DEF TurnsHeld, Turn, Idle
<1>3. WaitsForItsCall BY NoCall DEF WaitsForItsCall
<1>4. StepsInOrder /\ OffIsQuiet /\ DownHolds
  BY DEF StepsInOrder, OffIsQuiet, DownHolds
<1> QED BY <1>1, <1>2, <1>3, <1>4 DEF IInv

\* What a job does after a call: it waits for none, and keeps the order.
LEMMA AfterOrder ==
  ASSUME plane \in Plane, StepsInOrder, NEW ok \in BOOLEAN,
         plane.step \notin {"idle", "parking"}
  PROVE  /\ After(ok) \in Plane
         /\ After(ok).waits = None
         /\ After(ok).step # "preparing"
         /\ After(ok).step \in {"saving", "stopping"} => After(ok).state = "suspended"
         /\ plane.state # "provisioning" => After(ok).state # "provisioning"
<1>1. CASE plane.step = "preparing" BY <1>1 DEF After, Plane, None
<1>2. CASE plane.step = "archiving" BY <1>2 DEF After, Plane, None
<1>3. CASE plane.step = "saving" BY <1>3 DEF After, Plane, None, StepsInOrder
<1>4. CASE plane.step = "stopping" BY <1>4 DEF After, Plane, None
<1>5. CASE plane.step = "resuming" BY <1>5 DEF After, Plane, None
<1> QED BY <1>1, <1>2, <1>3, <1>4, <1>5 DEF Plane

\* A call that ends leaves a job that waits for no call, or for another one.
\* Only a suspension can be confirmed.
LEMMA CallEnds ==
  ASSUME IInv, NEW c \in Calls, NEW ok \in BOOLEAN, Ends(c, ok)
  PROVE  /\ call' = [call EXCEPT ![c] = Idle]
         /\ call' \in [Calls -> Call] /\ plane' \in Plane /\ down' \in BOOLEAN
         /\ plane'.waits \in Calls =>
              plane' = plane /\ plane'.waits # c
         /\ plane'.step = "preparing" => plane'.state = "provisioning"
         /\ plane'.step \in {"saving", "stopping"} => plane'.state = "suspended"
         /\ plane.state # "provisioning" => plane'.state # "provisioning"
         /\ down' => \/ down
                     \/ /\ call[c].kind = "suspend" /\ plane.state = "suspended"
                        /\ suspended /\ ~Starting
<1> USE DEF IInv
<1>1. call' = [call EXCEPT ![c] = Idle] /\ call' \in [Calls -> Call]
  BY DEF Ends, TypeOK, Call, Idle, None
<1>2. CASE plane.waits = c
  <2>1. plane.step \notin {"idle", "parking"}
    BY <1>2 DEF WaitsForItsCall
  <2>2. plane' = After(ok) BY <1>2 DEF Ends
  <2>3. plane \in Plane BY DEF TypeOK
  <2>4. /\ plane' \in Plane /\ plane'.waits = None /\ plane'.step # "preparing"
        /\ plane'.step \in {"saving", "stopping"} => plane'.state = "suspended"
        /\ plane.state # "provisioning" => plane'.state # "provisioning"
    BY <2>1, <2>2, <2>3, AfterOrder
  <2>5. down' \in BOOLEAN BY DEF Ends, TypeOK
  <2>6. ASSUME down', ~down
        PROVE  /\ call[c].kind = "suspend" /\ plane.state = "suspended"
               /\ suspended /\ ~Starting
    <3>1. plane.step = "stopping" /\ suspended /\ ~Starting BY <2>6 DEF Ends
    <3>2. call[c].kind = "suspend" BY <1>2, <3>1 DEF WaitsForItsCall, Calling
    <3>3. plane.state = "suspended" BY <3>1 DEF StepsInOrder
    <3> QED BY <3>1, <3>2, <3>3
  <2> QED BY <1>1, <2>4, <2>5, <2>6, NoCall
<1>3. CASE plane.waits # c
  <2>1. plane' = plane /\ down' \in BOOLEAN /\ (down' => down)
    BY <1>3 DEF Ends, TypeOK
  <2> QED BY <1>1, <1>3, <2>1 DEF TypeOK, StepsInOrder
<1> QED BY <1>2, <1>3

\* What a call that ends leaves of the invariant, whatever it did before.
LEMMA EndsKeeps ==
  ASSUME IInv, NEW c \in Calls, NEW ok \in BOOLEAN, Ends(c, ok),
         vm' = vm, lock' = lock \/ Unlocks(c)
  PROVE  /\ lock' \in Calls \cup {None}
         /\ TurnsHeld' /\ WaitsForItsCall' /\ StepsInOrder' /\ OffIsQuiet'
<1> USE DEF IInv
<1>1. lock' \in Calls \cup {None} BY DEF Unlocks, TypeOK
<1>2. /\ call'[c] = Idle
      /\ \A d \in Calls : d # c => call'[d] = call[d]
  BY CallEnds DEF TypeOK
<1>3. TurnsHeld'
  <2> SUFFICES ASSUME NEW d \in Calls, call'[d].pc \in Turn PROVE lock' = d
    BY DEF TurnsHeld
  <2>1. d # c BY <1>2 DEF Turn, Idle
  <2>2. lock = d BY <1>2, <2>1 DEF TurnsHeld
  <2> QED BY <2>1, <2>2 DEF Unlocks
<1>4. WaitsForItsCall'
  <2> SUFFICES ASSUME plane'.waits \in Calls
               PROVE  /\ plane'.step \notin {"idle", "parking"}
                      /\ call'[plane'.waits].kind = Calling(plane'.step).kind
    BY DEF WaitsForItsCall, Calling
  <2>1. plane' = plane /\ plane.waits \in Calls /\ plane.waits # c BY CallEnds
  <2> QED BY <1>2, <2>1 DEF WaitsForItsCall
<1>5. StepsInOrder' BY CallEnds DEF StepsInOrder
<1>6. OffIsQuiet' BY <1>2 DEF OffIsQuiet
<1> QED BY <1>1, <1>3, <1>4, <1>5, <1>6

\* What a call that goes on leaves of it: it takes the turn, keeps it or gives
\* it back.
LEMMA MovesKeep ==
  ASSUME IInv, NEW c \in Calls, NEW r \in Call, call' = [call EXCEPT ![c] = r],
         call[c].pc # "idle", r.kind = call[c].kind, vm' = vm, plane' = plane,
         \/ lock' = lock /\ (r.pc \in Turn => call[c].pc \in Turn)
         \/ lock = None /\ lock' = c
         \/ Unlocks(c) /\ r.pc \notin Turn
  PROVE  /\ lock' \in Calls \cup {None} /\ call' \in [Calls -> Call]
         /\ TurnsHeld' /\ WaitsForItsCall' /\ StepsInOrder' /\ OffIsQuiet'
<1> USE DEF IInv
<1>1. lock' \in Calls \cup {None} /\ call' \in [Calls -> Call]
  BY DEF Unlocks, TypeOK
<1>2. /\ call'[c] = r
      /\ \A d \in Calls : d # c => call'[d] = call[d]
  BY DEF TypeOK
<1>3. TurnsHeld'
  <2> SUFFICES ASSUME NEW d \in Calls, call'[d].pc \in Turn PROVE lock' = d
    BY DEF TurnsHeld
  <2>1. CASE d = c BY <1>2, <2>1 DEF TurnsHeld
  <2>2. CASE d # c
    <3>1. lock = d BY <1>2, <2>2 DEF TurnsHeld
    <3> QED BY <2>2, <3>1, NoCall DEF Unlocks
  <2> QED BY <2>1, <2>2
<1>4. WaitsForItsCall' BY <1>2 DEF WaitsForItsCall, Calling
<1>5. StepsInOrder' BY DEF StepsInOrder
<1>6. OffIsQuiet' BY <1>2 DEF OffIsQuiet, Idle
<1> QED BY <1>1, <1>3, <1>4, <1>5, <1>6

\* The two settings of the container that the calls know.
LEMMA GatewayType ==
  /\ Running \in [runs : BOOLEAN, byHand : BOOLEAN]
  /\ Stopped \in [runs : BOOLEAN, byHand : BOOLEAN]
<1>1. Running \in [runs : BOOLEAN, byHand : BOOLEAN] BY DEF Running
<1>2. Stopped \in [runs : BOOLEAN, byHand : BOOLEAN] BY DEF Stopped
<1> QED BY <1>1, <1>2

\* A call that ends keeps the invariant. What had been suspended no call
\* restarts; what a call suspends no other one is about to restart.
LEMMA EndingStep ==
  ASSUME IInv, NEW c \in Calls,
         TurnsAway(c) \/ Restores(c) \/ Unflags(c) \/ Restarts(c) \/ Onboards(c)
         \/ Suspends(c)
  PROVE  IInv'
<1> USE DEF IInv
<1>1. PICK ok \in BOOLEAN : Ends(c, ok)
  BY DEF TurnsAway, Restores, Unflags, Restarts, Onboards, Suspends
<1>2. vm' = vm /\ (lock' = lock \/ Unlocks(c))
  BY DEF TurnsAway, Restores, Unflags, Restarts, Onboards, Suspends
<1>3. /\ lock' \in Calls \cup {None}
      /\ TurnsHeld' /\ WaitsForItsCall' /\ StepsInOrder' /\ OffIsQuiet'
  BY <1>1, <1>2, EndsKeeps
<1>4. call' \in [Calls -> Call] /\ plane' \in Plane /\ down' \in BOOLEAN
  BY <1>1, CallEnds
<1>5. /\ gateway' \in {gateway, Running, Stopped}
      /\ suspended' \in BOOLEAN /\ primary' = primary
      /\ lost' \in BOOLEAN /\ faults' = faults
  <2>1. CASE Suspends(c)
    <3>1. lost' \in BOOLEAN BY <2>1 DEF Suspends
    <3> QED BY <2>1, <3>1 DEF Suspends, TypeOK
  <2>2. CASE Restores(c) BY <2>2 DEF Restores, Starts, TypeOK
  <2>3. CASE TurnsAway(c) \/ Unflags(c) \/ Restarts(c) \/ Onboards(c)
    BY <2>3 DEF TurnsAway, Unflags, Restarts, Onboards, Starts, TypeOK
  <2> QED BY <2>1, <2>2, <2>3
<1>6. TypeOK'
  <2>1. gateway' \in [runs : BOOLEAN, byHand : BOOLEAN]
    BY <1>5, GatewayType DEF TypeOK
  <2>2. vm' \in {"on", "off"} /\ primary' \in BOOLEAN /\ faults' \in 0 .. MaxFaults
    BY <1>2, <1>5 DEF TypeOK
  <2> QED BY <1>3, <1>4, <1>5, <2>1, <2>2 DEF TypeOK
<1>7. /\ call'[c] = Idle
      /\ \A d \in Calls : d # c => call'[d] = call[d]
  BY <1>1, CallEnds DEF TypeOK
<1>8. call'[c].kind = None /\ ~(call'[c].kind = "archive") BY <1>7 DEF Idle, None
<1>9. DownHolds'
  <2>1. CASE Suspends(c)
    <3>1. gateway' = Stopped /\ suspended' = suspended /\ lock = c
          /\ call[c].kind = "suspend" /\ call[c].pc = "locked"
      BY <2>1 DEF Suspends, At, TurnsHeld, Turn
    <3>2. ASSUME down', NEW d \in Calls
          PROVE  call'[d].kind \notin {"prepaid", "resume"} /\ ~StartsAgain(d)'
      <4>1. CASE d = c BY <1>8, <4>1 DEF StartsAgain, None
      <4>2. CASE d # c
        <5>1. call[d].pc \notin Turn BY <3>1, <4>2 DEF TurnsHeld
        <5>2. call[d].kind \notin {"prepaid", "resume"}
          BY <1>1, <3>2, CallEnds DEF Starting, DownHolds
        <5> QED BY <1>7, <4>2, <5>1, <5>2 DEF StartsAgain, Turn
      <4> QED BY <4>1, <4>2
    <3>3. ASSUME down' PROVE suspended' /\ plane'.state # "provisioning"
      BY <1>1, <3>1, <3>3, CallEnds DEF DownHolds
    <3> QED BY <3>1, <3>2, <3>3 DEF DownHolds, Stopped
  <2>2. CASE ~Suspends(c)
    <3>1. call[c].kind # "suspend" \/ TurnsAway(c)
      BY <2>2 DEF Restores, Unflags, Restarts, Onboards, At
    <3>2. down' => down
      BY <1>1, <3>1, CallEnds DEF TurnsAway, Ends
    <3>3. ASSUME down PROVE gateway' = gateway /\ suspended' = suspended
      <4>1. call[c].kind \notin {"prepaid", "resume"} /\ ~StartsAgain(c) /\ ~gateway.runs
        BY <3>3 DEF DownHolds
      <4> QED BY <2>2, <4>1
              DEF TurnsAway, Restores, Unflags, Restarts, Onboards, At, StartsAgain
    <3>4. down' => plane'.state # "provisioning"
      BY <1>1, <3>2, CallEnds DEF DownHolds
    <3>5. ASSUME down, NEW d \in Calls
          PROVE  call'[d].kind \notin {"prepaid", "resume"} /\ ~StartsAgain(d)'
      <4>1. CASE d = c BY <1>8, <4>1 DEF StartsAgain, None
      <4>2. CASE d # c BY <1>7, <3>5, <4>2 DEF DownHolds, StartsAgain
      <4> QED BY <4>1, <4>2
    <3> QED BY <3>2, <3>3, <3>4, <3>5 DEF DownHolds
  <2> QED BY <2>1, <2>2
<1> QED BY <1>3, <1>6, <1>9

\* A call that goes on keeps it: an archive of a gateway that was suspended
\* finds it stopped.
LEMMA MovingStep ==
  ASSUME IInv, NEW c \in Calls,
         Locks(c) \/ Inspects(c) \/ StopsForCopy(c) \/ Copies(c) \/ Resumes(c)
  PROVE  IInv'
<1> USE DEF IInv
<1>1. call[c] \in Call /\ gateway.runs \in BOOLEAN BY DEF TypeOK
<1>2. PICK r \in Call :
        /\ call' = [call EXCEPT ![c] = r] /\ r.kind = call[c].kind
        /\ \/ r.ran = call[c].ran /\ r.pc \in {"locked", "unflagging"}
           \/ r.ran = call[c].ran /\ call[c].pc \in {"stopping", "copying"}
           \/ r.ran = gateway.runs
  <2>1. CASE Locks(c)
    <3> DEFINE r == [call[c] EXCEPT !.pc = "locked"]
    <3>1. r \in Call /\ r.kind = call[c].kind /\ r.ran = call[c].ran /\ r.pc = "locked"
      BY <1>1 DEF Call
    <3>2. call' = [call EXCEPT ![c] = r] BY <2>1 DEF Locks
    <3> QED BY <3>1, <3>2
  <2>2. CASE Inspects(c)
    <3> DEFINE r == [call[c] EXCEPT !.pc = "stopping", !.ran = gateway.runs]
    <3>1. r \in Call /\ r.kind = call[c].kind /\ r.ran = gateway.runs
      BY <1>1 DEF Call
    <3>2. call' = [call EXCEPT ![c] = r] BY <2>2 DEF Inspects
    <3> QED BY <3>1, <3>2
  <2>3. CASE StopsForCopy(c) \/ Copies(c) \/ Resumes(c)
    <3>1. PICK pc \in {"copying", "restoring", "unflagging"} :
            /\ call' = [call EXCEPT ![c] = [call[c] EXCEPT !.pc = pc]]
            /\ pc = "unflagging" \/ call[c].pc \in {"stopping", "copying"}
      BY <2>3 DEF StopsForCopy, Copies, Resumes, Goto, At
    <3> DEFINE r == [call[c] EXCEPT !.pc = pc]
    <3>2. r \in Call /\ r.kind = call[c].kind /\ r.ran = call[c].ran /\ r.pc = pc
      BY <1>1 DEF Call
    <3> QED BY <3>1, <3>2
  <2> QED BY <2>1, <2>2, <2>3
<1>3. vm' = vm /\ plane' = plane /\ call[c].pc # "idle"
  BY DEF Locks, Inspects, StopsForCopy, Copies, Resumes, At
<1>4. \/ lock' = lock /\ (r.pc \in Turn => call[c].pc \in Turn)
      \/ lock = None /\ lock' = c
      \/ Unlocks(c) /\ r.pc \notin Turn
  <2>1. CASE Resumes(c)
    <3>1. call'[c].pc = "unflagging" BY <1>1, <2>1 DEF Resumes, Goto, TypeOK, Call
    <3>2. r.pc = "unflagging" BY <1>2, <3>1 DEF TypeOK
    <3> QED BY <2>1, <3>2 DEF Resumes, Turn
  <2>2. CASE ~Resumes(c)
    BY <2>2 DEF Locks, Inspects, StopsForCopy, Copies, At, Turn
  <2> QED BY <2>1, <2>2
<1>5. /\ lock' \in Calls \cup {None} /\ call' \in [Calls -> Call]
      /\ TurnsHeld' /\ WaitsForItsCall' /\ StepsInOrder' /\ OffIsQuiet'
  BY <1>2, <1>3, <1>4, MovesKeep
<1>6. /\ gateway' \in {gateway, Running, Stopped}
      /\ suspended' = suspended /\ primary' = primary /\ down' = down
      /\ lost' \in BOOLEAN /\ faults' = faults
  BY DEF Locks, Inspects, StopsForCopy, Copies, Resumes, Starts, TypeOK
<1>7. TypeOK'
  <2>1. gateway' \in [runs : BOOLEAN, byHand : BOOLEAN]
    BY <1>6, GatewayType DEF TypeOK
  <2>2. vm' \in {"on", "off"} /\ plane' \in Plane /\ suspended' \in BOOLEAN
        /\ primary' \in BOOLEAN /\ down' \in BOOLEAN /\ faults' \in 0 .. MaxFaults
    BY <1>3, <1>6 DEF TypeOK
  <2> QED BY <1>5, <1>6, <2>1, <2>2 DEF TypeOK
<1>8. DownHolds'
  <2> SUFFICES ASSUME down
               PROVE  /\ gateway' = gateway
                      /\ \A d \in Calls : /\ call'[d].kind \notin {"prepaid", "resume"}
                                          /\ ~StartsAgain(d)'
    BY <1>3, <1>6 DEF DownHolds
  <2>1. call[c].kind \notin {"prepaid", "resume"} /\ ~StartsAgain(c) /\ ~gateway.runs
    BY DEF DownHolds
  <2>2. gateway' = gateway
    BY <2>1 DEF Locks, Inspects, StopsForCopy, Copies, Resumes, At, StartsAgain
  <2>3. ASSUME NEW d \in Calls
        PROVE  call'[d].kind \notin {"prepaid", "resume"} /\ ~StartsAgain(d)'
    <3>1. CASE d = c
      <4>1. call'[c] = r BY <1>2 DEF TypeOK
      <4>2. CASE r.ran = gateway.runs BY <1>2, <2>1, <3>1, <4>1, <4>2 DEF StartsAgain
      <4>3. CASE r.ran = call[c].ran /\ call[c].pc \in {"stopping", "copying"}
        BY <1>2, <2>1, <3>1, <4>1, <4>3 DEF StartsAgain
      <4>4. CASE r.pc \in {"locked", "unflagging"}
        BY <1>2, <2>1, <3>1, <4>1, <4>4 DEF StartsAgain
      <4> QED BY <1>2, <4>2, <4>3, <4>4
    <3>2. CASE d # c
      <4>1. call'[d] = call[d] BY <1>2, <3>2 DEF TypeOK
      <4> QED BY <4>1 DEF DownHolds, StartsAgain
    <3> QED BY <3>1, <3>2
  <2> QED BY <2>2, <2>3
<1> QED BY <1>5, <1>7, <1>8

\* The prepaid call, which takes no turn: there is none once a suspension was
\* confirmed.
LEMMA ConfiguringStep ==
  ASSUME IInv, NEW c \in Calls, Configures(c)
  PROVE  IInv'
<1> USE DEF IInv
<1>1. call[c].kind = "prepaid" /\ call[c].pc = "configuring" /\ ~down
  BY DEF Configures, At, DownHolds
<1>2. /\ vm' = vm /\ gateway' = gateway /\ suspended' = suspended /\ lock' = lock
      /\ lost' = lost /\ faults' = faults /\ primary' \in BOOLEAN
  BY DEF Configures, TypeOK
<1>3. CASE \E ok \in BOOLEAN : Ends(c, ok)
  <2>1. PICK ok \in BOOLEAN : Ends(c, ok) BY <1>3
  <2>2. ~down' BY <1>1, <2>1, CallEnds
  <2>3. TurnsHeld' /\ WaitsForItsCall' /\ StepsInOrder' /\ OffIsQuiet'
    BY <1>2, <2>1, EndsKeeps
  <2>4. call' \in [Calls -> Call] /\ plane' \in Plane /\ down' \in BOOLEAN
    BY <2>1, CallEnds
  <2>5. TypeOK' BY <1>2, <2>4 DEF TypeOK
  <2> QED BY <2>2, <2>3, <2>5 DEF DownHolds
<1>4. CASE /\ call' = [call EXCEPT ![c].pc = "restarting"]
           /\ plane' = plane /\ down' = down
  <2> DEFINE r == [call[c] EXCEPT !.pc = "restarting"]
  <2>1. r \in Call /\ r.kind = call[c].kind /\ r.pc = "restarting"
    BY DEF TypeOK, Call
  <2>2. call' = [call EXCEPT ![c] = r] BY <1>4
  <2> HIDE DEF r
  <2>3. r.pc \notin Turn BY <2>1 DEF Turn
  <2>4. /\ call' \in [Calls -> Call]
        /\ TurnsHeld' /\ WaitsForItsCall' /\ StepsInOrder' /\ OffIsQuiet'
    BY <1>1, <1>2, <1>4, <2>1, <2>2, <2>3, MovesKeep
  <2>5. TypeOK' BY <1>2, <1>4, <2>4 DEF TypeOK
  <2> QED BY <1>1, <1>4, <2>4, <2>5 DEF DownHolds
<1> QED BY <1>3, <1>4 DEF Configures, Goto

\* What a call that begins leaves of the invariant: no one waited for it.
LEMMA BeginsKeep ==
  ASSUME IInv, NEW c \in Calls, NEW r \in Call, call' = [call EXCEPT ![c] = r],
         call[c] = Idle, r.pc \notin Turn, r.pc \notin {"stopping", "copying", "restoring"},
         lock' = lock, vm = "on", vm' = vm
  PROVE  /\ call' \in [Calls -> Call] /\ TurnsHeld' /\ OffIsQuiet'
         /\ plane.waits # c /\ call'[c] = r /\ ~StartsAgain(c)'
         /\ \A d \in Calls : d # c => call'[d] = call[d]
<1> USE DEF IInv
<1>1. /\ call' \in [Calls -> Call] /\ call'[c] = r
      /\ \A d \in Calls : d # c => call'[d] = call[d]
  BY DEF TypeOK
<1>2. TurnsHeld' BY <1>1 DEF TurnsHeld
<1>3. OffIsQuiet' BY DEF OffIsQuiet
<1>4. ASSUME plane.waits = c PROVE FALSE
  <2>1. Calling(plane.step).kind = None /\ plane.step \notin {"idle", "parking"}
    BY <1>4 DEF WaitsForItsCall, Idle
  <2>2. plane.step \in {"preparing", "archiving", "saving", "stopping", "resuming"}
    BY <2>1 DEF TypeOK, Plane
  <2>3. Calling(plane.step).kind # "none" BY <2>2 DEF Calling
  <2> QED BY <2>1, <2>3 DEF None
<1>5. ~StartsAgain(c)' BY <1>1 DEF StartsAgain
<1> QED BY <1>1, <1>2, <1>3, <1>4, <1>5

\* The owner's archives and wizards begin with nothing to start again.
LEMMA OwnerStep ==
  ASSUME IInv, NEW c \in Calls, OwnerCalls(c)
  PROVE  IInv'
<1> USE DEF IInv
<1>1. /\ vm = "on" /\ call[c] = Idle
      /\ UNCHANGED <<vm, gateway, suspended, primary, lock, plane, down, lost, faults>>
  BY DEF OwnerCalls
<1>2. PICK kind \in {"archive", "wizard"} :
        call' = [call EXCEPT ![c] = [kind |-> kind, pc |-> "waiting", ran |-> FALSE]]
  BY DEF OwnerCalls
<1> DEFINE r == [kind |-> kind, pc |-> "waiting", ran |-> FALSE]
<1>3. /\ r \in Call /\ r.pc \notin Turn /\ r.pc \notin {"stopping", "copying", "restoring"}
      /\ r.kind \notin {"prepaid", "resume"} /\ call' = [call EXCEPT ![c] = r]
  BY <1>2 DEF Call, Turn
<1> HIDE DEF r
<1>4. /\ call' \in [Calls -> Call] /\ TurnsHeld' /\ OffIsQuiet'
      /\ plane.waits # c /\ call'[c] = r /\ ~StartsAgain(c)'
      /\ \A d \in Calls : d # c => call'[d] = call[d]
  BY <1>1, <1>3, BeginsKeep
<1>5. TypeOK' /\ StepsInOrder' BY <1>1, <1>4 DEF TypeOK, StepsInOrder
<1>6. WaitsForItsCall' BY <1>1, <1>4 DEF WaitsForItsCall, Calling
<1>7. DownHolds'
  <2> SUFFICES ASSUME down, NEW d \in Calls
               PROVE  call'[d].kind \notin {"prepaid", "resume"} /\ ~StartsAgain(d)'
    BY <1>1 DEF DownHolds
  <2>1. CASE d = c BY <1>3, <1>4, <2>1
  <2>2. CASE d # c BY <1>4, <2>2 DEF DownHolds, StartsAgain
  <2> QED BY <2>1, <2>2
<1> QED BY <1>4, <1>5, <1>6, <1>7

\* The control plane's call is the one its step waits for. It configures no
\* tenant that was suspended; a resumption ends what the suspension confirmed.
LEMMA SendingStep ==
  ASSUME IInv, NEW c \in Calls, Sends(c)
  PROVE  IInv'
<1> USE DEF IInv
<1> DEFINE kind == Calling(plane.step).kind
           r == [kind |-> kind, pc |-> Calling(plane.step).pc, ran |-> FALSE]
<1>1. /\ plane.step \in {"preparing", "archiving", "saving", "stopping", "resuming"}
      /\ vm = "on" /\ call[c] = Idle
      /\ UNCHANGED <<vm, gateway, primary, lock, lost, faults>>
  BY DEF Sends, TypeOK, Plane
<1>2. /\ kind \in {"archive", "suspend", "resume", "prepaid"}
      /\ Calling(plane.step).pc \in {"waiting", "configuring"}
      /\ kind = "prepaid" => plane.step = "preparing"
  BY <1>1 DEF Calling
<1>3. /\ call' = [call EXCEPT ![c] = r]
      /\ plane' = [plane EXCEPT !.waits = c]
      /\ suspended' = (suspended \/ kind = "suspend")
      /\ down' = (down /\ kind # "resume")
  BY DEF Sends
<1>4. /\ r \in Call /\ r.pc \notin Turn /\ r.pc \notin {"stopping", "copying", "restoring"}
      /\ r.kind = kind
  BY <1>2 DEF Call, Turn
<1> HIDE DEF r
<1>5. /\ call' \in [Calls -> Call] /\ TurnsHeld' /\ OffIsQuiet'
      /\ call'[c] = r /\ ~StartsAgain(c)'
      /\ \A d \in Calls : d # c => call'[d] = call[d]
  BY <1>1, <1>3, <1>4, BeginsKeep
<1>6. /\ plane' \in Plane /\ plane'.step = plane.step /\ plane'.state = plane.state
      /\ plane'.waits = c
  BY <1>3 DEF TypeOK, Plane
<1>7. suspended' \in BOOLEAN /\ down' \in BOOLEAN BY <1>3 DEF TypeOK
<1>8. TypeOK' BY <1>1, <1>5, <1>6, <1>7 DEF TypeOK
<1>9. StepsInOrder' BY <1>6 DEF StepsInOrder
<1>10. WaitsForItsCall'
  <2>1. Calling(plane'.step).kind = kind BY <1>6
  <2> QED BY <1>1, <1>4, <1>5, <1>6, <2>1 DEF WaitsForItsCall, Calling
<1>11. DownHolds'
  <2> SUFFICES ASSUME down'
               PROVE  /\ ~gateway'.runs /\ gateway'.byHand /\ suspended'
                      /\ plane'.state # "provisioning"
                      /\ \A d \in Calls : /\ call'[d].kind \notin {"prepaid", "resume"}
                                          /\ ~StartsAgain(d)'
    BY DEF DownHolds
  <2>1. down /\ kind # "resume" BY <1>3
  <2>2. suspended /\ plane.state # "provisioning" BY <2>1 DEF DownHolds
  <2>3. kind # "prepaid" BY <1>2, <2>2 DEF StepsInOrder
  <2>4. ~gateway'.runs /\ gateway'.byHand BY <1>1, <2>1 DEF DownHolds
  <2>5. suspended' /\ plane'.state # "provisioning" BY <1>3, <1>6, <2>2
  <2>6. ASSUME NEW d \in Calls
        PROVE  call'[d].kind \notin {"prepaid", "resume"} /\ ~StartsAgain(d)'
    <3>1. CASE d = c BY <1>2, <1>4, <1>5, <2>1, <2>3, <3>1
    <3>2. CASE d # c BY <1>5, <2>1, <3>2 DEF DownHolds, StartsAgain
    <3> QED BY <3>1, <3>2
  <2> QED BY <2>4, <2>5, <2>6
<1> QED BY <1>5, <1>8, <1>9, <1>10, <1>11

\* A job begins with no call. A machine that is turned on leaves a gateway that
\* was stopped by hand as it was.
LEMMA BeginningStep ==
  ASSUME IInv, Begins
  PROVE  IInv'
<1> USE DEF IInv
<1>1. /\ plane.step = "idle"
      /\ UNCHANGED <<suspended, primary, lock, call, down, lost, faults>>
  BY DEF Begins
<1>2. plane.waits \notin Calls BY <1>1 DEF WaitsForItsCall
<1>3. PICK step \in {"preparing", "archiving", "saving", "parking", "resuming"} :
        /\ step = "preparing" <=> plane.state = "provisioning"
        /\ plane' = [plane EXCEPT !.step = step,
                                  !.state = IF step = "saving" THEN "suspended" ELSE plane.state]
        /\ vm' = IF step = "resuming" /\ vm = "off" THEN "on" ELSE vm
        /\ gateway' = IF step = "resuming" /\ vm = "off"
                      THEN [gateway EXCEPT !.runs = ~gateway.byHand] ELSE gateway
  <2>1. plane.state \in {"provisioning", "serving", "suspended"} BY DEF TypeOK, Plane
  <2> QED BY <2>1 DEF Begins
<1>4. /\ plane' \in Plane /\ plane'.step = step /\ plane'.waits = plane.waits
      /\ plane'.state = IF step = "saving" THEN "suspended" ELSE plane.state
  BY <1>3 DEF TypeOK, Plane
<1>5. gateway' \in [runs : BOOLEAN, byHand : BOOLEAN] BY <1>3 DEF TypeOK
<1>6. TypeOK' BY <1>1, <1>3, <1>4, <1>5 DEF TypeOK
<1>7. TurnsHeld' /\ WaitsForItsCall' /\ StepsInOrder'
  BY <1>1, <1>2, <1>3, <1>4 DEF TurnsHeld, WaitsForItsCall, StepsInOrder
<1>8. OffIsQuiet' BY <1>1, <1>3 DEF OffIsQuiet
<1>9. DownHolds'
  <2> SUFFICES ASSUME down
               PROVE  ~gateway'.runs /\ gateway'.byHand /\ plane'.state # "provisioning"
    BY <1>1 DEF DownHolds, StartsAgain
  <2>1. ~gateway.runs /\ gateway.byHand /\ plane.state # "provisioning" BY DEF DownHolds
  <2>2. ~gateway'.runs /\ gateway'.byHand BY <1>3, <2>1 DEF TypeOK
  <2> QED BY <1>4, <2>1, <2>2
<1> QED BY <1>6, <1>7, <1>8, <1>9

\* A job that gives its call up, or fails to stop the machine, undoes nothing.
LEMMA AbandoningStep ==
  ASSUME IInv, Abandons \/ ParkFails
  PROVE  IInv'
<1> USE DEF IInv
<1>1. UNCHANGED <<vm, gateway, suspended, primary, lock, call, down, lost, faults>>
  BY DEF Abandons, ParkFails
<1>2. /\ plane' \in Plane /\ plane'.waits \notin Calls
      /\ plane'.step = "preparing" => plane'.state = "provisioning"
      /\ plane'.step \in {"saving", "stopping"} => plane'.state = "suspended"
      /\ plane.state # "provisioning" => plane'.state # "provisioning"
  <2>1. CASE Abandons
    <3>1. plane \in Plane /\ plane.step \notin {"idle", "parking"} /\ plane' = After(FALSE)
      BY <2>1 DEF Abandons, TypeOK
    <3> QED BY <3>1, AfterOrder, NoCall
  <2>2. CASE ParkFails
    <3>1. plane.waits \notin Calls BY <2>2 DEF ParkFails, WaitsForItsCall
    <3> QED BY <2>2, <3>1 DEF ParkFails, TypeOK, Plane
  <2> QED BY <2>1, <2>2
<1>3. TypeOK' BY <1>1, <1>2 DEF TypeOK
<1>4. TurnsHeld' /\ WaitsForItsCall' /\ StepsInOrder' /\ OffIsQuiet'
  BY <1>1, <1>2 DEF TurnsHeld, WaitsForItsCall, StepsInOrder, OffIsQuiet
<1>5. DownHolds' BY <1>1, <1>2 DEF DownHolds, StartsAgain
<1> QED BY <1>3, <1>4, <1>5

\* With a machine that is stopped all calls end.
LEMMA ParkingStep ==
  ASSUME IInv, Parks
  PROVE  IInv'
<1> USE DEF IInv
<1>1. /\ vm' = "off" /\ gateway' = [gateway EXCEPT !.runs = FALSE]
      /\ lock' = None /\ call' = [c \in Calls |-> Idle]
      /\ plane.step = "parking" /\ plane' = [plane EXCEPT !.step = "idle"]
      /\ UNCHANGED <<suspended, primary, down, faults>>
  BY DEF Parks
<1>2. lost' \in BOOLEAN
  <2>1. lost' = (lost \/ \E c \in Calls : HoldsStopped(c)) BY DEF Parks
  <2> QED BY <2>1
<1>3. /\ plane' \in Plane /\ plane'.step = "idle" /\ plane'.waits = plane.waits
      /\ plane'.state = plane.state
  BY <1>1 DEF TypeOK, Plane
<1>4. plane.waits \notin Calls BY <1>1 DEF WaitsForItsCall
<1>5. Idle \in Call BY DEF Idle, Call, None
<1>6. gateway' \in [runs : BOOLEAN, byHand : BOOLEAN] BY <1>1 DEF TypeOK
<1>7. TypeOK' BY <1>1, <1>2, <1>3, <1>5, <1>6 DEF TypeOK
<1>8. \A c \in Calls : call'[c] = Idle BY <1>1
<1>9. TurnsHeld' BY <1>8 DEF TurnsHeld, Turn, Idle
<1>10. WaitsForItsCall' /\ StepsInOrder' /\ OffIsQuiet'
  BY <1>3, <1>4, <1>8 DEF WaitsForItsCall, StepsInOrder, OffIsQuiet
<1>11. DownHolds'
  <2>1. \A c \in Calls : call'[c].kind = "none" BY <1>8 DEF Idle, None
  <2>2. gateway'.runs = FALSE /\ gateway'.byHand = gateway.byHand BY <1>1 DEF TypeOK
  <2> QED BY <1>1, <1>3, <2>1, <2>2 DEF DownHolds, StartsAgain
<1> QED BY <1>7, <1>9, <1>10, <1>11

\* Calls die with the access service or the machine, which starts again only
\* what no one had stopped by hand.
LEMMA DyingStep ==
  ASSUME IInv, ServiceDies \/ MachineDies
  PROVE  IInv'
<1> USE DEF IInv
<1>1. PICK S \in SUBSET Calls : Dies(S)
  BY DEF ServiceDies, MachineDies
<1>2. /\ vm' = vm /\ vm = "on" /\ faults' \in 0 .. MaxFaults
      /\ UNCHANGED <<suspended, primary, down>>
  BY <1>1, TenantHostAssumption DEF Dies, TypeOK
<1>3. \/ gateway' = gateway
      \/ gateway' = [gateway EXCEPT !.runs = ~gateway.byHand]
  BY DEF ServiceDies, MachineDies
<1>4. /\ gateway' \in [runs : BOOLEAN, byHand : BOOLEAN]
      /\ ~gateway.runs /\ gateway.byHand => ~gateway'.runs /\ gateway'.byHand
  BY <1>3 DEF TypeOK
<1>5. Idle \in Call BY DEF Idle, Call, None
<1>6. /\ call' = [c \in Calls |-> IF c \in S THEN Idle ELSE call[c]]
      /\ call' \in [Calls -> Call]
  BY <1>1, <1>5 DEF Dies, TypeOK
<1>7. lock' = (IF lock \in S THEN None ELSE lock) BY <1>1 DEF Dies
<1>8. lost' \in BOOLEAN
  <2>1. lost' = (lost \/ \E c \in S : HoldsStopped(c)) BY <1>1 DEF Dies
  <2> QED BY <2>1
<1>9. /\ plane' \in Plane
      /\ plane'.waits \in Calls => plane' = plane /\ plane.waits \notin S
      /\ plane'.step = "preparing" => plane'.state = "provisioning"
      /\ plane'.step \in {"saving", "stopping"} => plane'.state = "suspended"
      /\ plane.state # "provisioning" => plane'.state # "provisioning"
  <2>1. CASE plane.waits \in S
    <3>1. plane \in Plane /\ plane.step \notin {"idle", "parking"} /\ plane' = After(FALSE)
      BY <1>1, <2>1 DEF Dies, TypeOK, WaitsForItsCall
    <3> QED BY <3>1, AfterOrder, NoCall
  <2>2. CASE plane.waits \notin S
    <3>1. plane' = plane BY <1>1, <2>2 DEF Dies
    <3> QED BY <2>2, <3>1 DEF TypeOK, StepsInOrder
  <2> QED BY <2>1, <2>2
<1>10. lock' \in Calls \cup {None} BY <1>7 DEF TypeOK
<1>11. TypeOK' BY <1>2, <1>4, <1>6, <1>8, <1>9, <1>10 DEF TypeOK
<1>12. TurnsHeld'
  <2> SUFFICES ASSUME NEW c \in Calls, call'[c].pc \in Turn PROVE lock' = c
    BY DEF TurnsHeld
  <2>1. c \notin S BY <1>6 DEF Turn, Idle
  <2>2. lock = c BY <1>6, <2>1 DEF TurnsHeld
  <2> QED BY <1>7, <2>1, <2>2
<1>13. WaitsForItsCall' BY <1>6, <1>9 DEF WaitsForItsCall, Calling
<1>14. StepsInOrder' /\ OffIsQuiet' BY <1>2, <1>9 DEF StepsInOrder, OffIsQuiet
<1>15. DownHolds'
  <2> SUFFICES ASSUME down, NEW c \in Calls
               PROVE  call'[c].kind \notin {"prepaid", "resume"} /\ ~StartsAgain(c)'
    BY <1>2, <1>4, <1>9 DEF DownHolds
  <2>1. CASE c \in S
    <3>1. call'[c].kind = "none" BY <1>6, <2>1 DEF Idle, None
    <3> QED BY <3>1 DEF StartsAgain
  <2>2. CASE c \notin S BY <1>6, <2>2 DEF DownHolds, StartsAgain
  <2> QED BY <2>1, <2>2
<1> QED BY <1>11, <1>12, <1>13, <1>14, <1>15

-----------------------------------------------------------------------------
\* Every step keeps the invariant.
LEMMA NextIInv ==
  ASSUME IInv, [Next]_vars
  PROVE  IInv'
<1>1. CASE UNCHANGED vars
  BY <1>1 DEF vars, IInv, TypeOK, TurnsHeld, WaitsForItsCall, StepsInOrder,
              OffIsQuiet, DownHolds, StartsAgain
<1>2. CASE Begins BY <1>2, BeginningStep
<1>3. CASE Abandons \/ ParkFails BY <1>3, AbandoningStep
<1>4. CASE Parks BY <1>4, ParkingStep
<1>5. CASE ServiceDies \/ MachineDies BY <1>5, DyingStep
<1>6. ASSUME NEW c \in Calls, Sends(c) PROVE IInv' BY <1>6, SendingStep
<1>7. ASSUME NEW c \in Calls, OwnerCalls(c) PROVE IInv' BY <1>7, OwnerStep
<1>8. ASSUME NEW c \in Calls, CallStep(c) \/ Onboards(c) PROVE IInv'
  BY <1>8, EndingStep, MovingStep, ConfiguringStep DEF CallStep
<1> QED BY <1>1, <1>2, <1>3, <1>4, <1>5, <1>6, <1>7, <1>8 DEF Next

\* Every state reached satisfies the inductive invariant.
THEOREM TenantHostInvariant == Spec => []IInv
BY InitIInv, NextIInv, PTL DEF Spec

\* The settings, calls and jobs keep their types.
THEOREM TenantHostTypeOK == Spec => []TypeOK
<1>1. IInv => TypeOK BY DEF IInv
<1> QED BY TenantHostInvariant, <1>1, PTL

\* A suspension that was confirmed keeps the gateway down until a resumption,
\* whatever archives, wizards, crashes and restarts there are (tenant/main.ts).
THEOREM TenantHostSuspended == Spec => []SuspendedStaysDown
<1>1. IInv => SuspendedStaysDown BY DEF IInv, DownHolds, SuspendedStaysDown
<1> QED BY TenantHostInvariant, <1>1, PTL

\* While an archive copies, only a prepaid call starts the gateway: all others
\* wait for the lock (tenant/main.ts, deploy/export.sh).
THEOREM TenantHostArchive == Spec => ArchiveIsQuiet
<1> DEFINE Quiet ==
      \A c \in Calls :
        At(c, "archive", "copying") /\ ~gateway.runs /\ gateway'.runs
          => \/ ~At(c, "archive", "copying")'
             \/ \E d \in Calls : At(d, "prepaid", "restarting") /\ call'[d] = Idle
<1>1. ASSUME IInv, [Next]_vars PROVE Quiet
  <2> SUFFICES ASSUME NEW c \in Calls, At(c, "archive", "copying"),
                      ~gateway.runs, gateway'.runs, call'[c].pc = "copying"
               PROVE  \E d \in Calls : At(d, "prepaid", "restarting") /\ call'[d] = Idle
    BY DEF At
  <2> USE <1>1 DEF IInv
  <2>1. lock = c BY DEF At, TurnsHeld, Turn
  <2>2. vm = "on" BY DEF OffIsQuiet, At, Idle, TypeOK
  <2>3. CASE \E d \in Calls : Restores(d) \/ Resumes(d)
    <3>1. PICK d \in Calls : Restores(d) \/ Resumes(d) BY <2>3
    <3>2. d = c BY <2>1, <3>1 DEF Restores, Resumes, At, TurnsHeld, Turn
    <3> QED BY <3>1, <3>2 DEF Restores, Resumes, At
  <2>4. CASE \E d \in Calls : Restarts(d)
    <3>1. PICK d \in Calls : Restarts(d) BY <2>4
    <3>2. At(d, "prepaid", "restarting") /\ call'[d] = Idle
      BY <3>1 DEF Restarts, Ends, TypeOK
    <3> QED BY <3>2
  <2>5. CASE MachineDies
    <3>1. call'[c] = Idle BY <2>5 DEF MachineDies, Dies
    <3> QED BY <3>1 DEF Idle
  <2>6. CASE gateway' = gateway BY <2>6
  <2>7. CASE Parks
    <3>1. gateway'.runs = FALSE BY <2>7 DEF Parks, TypeOK
    <3> QED BY <3>1
  <2>8. CASE gateway' = Stopped BY <2>8 DEF Stopped
  <2>9. CASE \E d \in Calls : Onboards(d) BY <2>9 DEF Onboards
  <2>10. gateway' = gateway \/ gateway' = Stopped \/ Parks \/ MachineDies
         \/ \E d \in Calls : Restores(d) \/ Resumes(d) \/ Restarts(d) \/ Onboards(d)
    BY <2>2 DEF Next, vars, CallStep, Begins, Abandons, ParkFails, Sends, OwnerCalls,
       Locks, TurnsAway, Inspects, StopsForCopy, Copies, Suspends, Unflags,
       Configures, ServiceDies
  <2> QED BY <2>3, <2>4, <2>5, <2>6, <2>7, <2>8, <2>9, <2>10
<1>2. IInv /\ [Next]_vars => [Quiet]_vars BY <1>1
<1> QED BY TenantHostInvariant, <1>2, PTL DEF Spec, ArchiveIsQuiet
-----------------------------------------------------------------------------
\* The gateway runs, or is down for a reason that ends, or that is known as lost.
Kept == gateway.runs \/ lost \/ \E c \in Calls : HoldsStopped(c)

\* The resumption that the control plane waits for has started the gateway.
Resumed == \E c \in Calls : plane.waits = c /\ At(c, "resume", "unflagging")

\* What keeps the gateway of a tenant that is served up: its setting is cleared
\* before it is served, and only the suspension of its own job takes it down.
UpHolds ==
  /\ plane.step \in {"parking", "resuming"} => plane.state = "suspended"
  /\ plane.state # "suspended" => ~suspended
  /\ gateway.runs => ~gateway.byHand
  /\ plane.state = "serving" \/ Resumed => Kept

\* What a job does after a call, for the state it leaves: a tenant is served by
\* the call that prepares or resumes it, and by no other.
LEMMA AfterServes ==
  ASSUME plane \in Plane, StepsInOrder, NEW ok \in BOOLEAN,
         plane.step \notin {"idle", "parking"}
  PROVE  /\ After(ok).step # "resuming"
         /\ After(ok).step = "parking" => After(ok).state = "suspended"
         /\ After(ok).state # "suspended" =>
              plane.state # "suspended" \/ (ok /\ plane.step = "resuming")
         /\ After(ok).state = "serving" =>
              plane.state = "serving" \/ (ok /\ plane.step \in {"preparing", "resuming"})
<1>1. CASE plane.step = "preparing" BY <1>1 DEF After, Plane, StepsInOrder
<1>2. CASE plane.step = "archiving" BY <1>2 DEF After, Plane
<1>3. CASE plane.step = "saving" BY <1>3 DEF After, Plane
<1>4. CASE plane.step = "stopping" BY <1>4 DEF After, Plane, StepsInOrder
<1>5. CASE plane.step = "resuming" BY <1>5 DEF After, Plane
<1> QED BY <1>1, <1>2, <1>3, <1>4, <1>5 DEF Plane

\* A call that ends keeps the gateway up, if it does so itself where it must.
LEMMA EndsUp ==
  ASSUME IInv, UpHolds, NEW c \in Calls, NEW ok \in BOOLEAN, Ends(c, ok),
         suspended' => suspended,
         gateway'.runs => ~gateway'.byHand,
         (plane.state = "serving" \/ Resumed) /\ Kept => Kept',
         ok /\ plane.waits = c /\ call[c].kind = "prepaid" => Kept',
         ok /\ plane.waits = c /\ call[c].kind = "resume" => Kept' /\ ~suspended'
  PROVE  UpHolds'
<1>1. /\ call'[c] = Idle
      /\ \A d \in Calls : d # c => call'[d] = call[d]
  BY CallEnds DEF IInv, TypeOK
<1>2. CASE plane.waits # c
  <2>1. plane' = plane BY <1>2 DEF Ends
  <2>2. Resumed' => Resumed BY <1>1, <1>2, <2>1 DEF Resumed, At
  <2> QED BY <2>1, <2>2 DEF UpHolds
<1>3. CASE plane.waits = c
  <2>1. /\ plane.step \notin {"idle", "parking"} /\ call[c].kind = Calling(plane.step).kind
        /\ plane \in Plane /\ StepsInOrder
    BY <1>3 DEF IInv, WaitsForItsCall, TypeOK
  <2>2. plane' = After(ok) BY <1>3 DEF Ends
  <2>3. /\ After(ok).waits = None
        /\ After(ok).step # "resuming"
        /\ After(ok).step = "parking" => After(ok).state = "suspended"
        /\ After(ok).state # "suspended" =>
             plane.state # "suspended" \/ (ok /\ plane.step = "resuming")
        /\ After(ok).state = "serving" =>
             plane.state = "serving" \/ (ok /\ plane.step \in {"preparing", "resuming"})
    BY <2>1, AfterOrder, AfterServes
  <2>4. /\ plane.step = "preparing" => call[c].kind = "prepaid"
        /\ plane.step = "resuming" => call[c].kind = "resume"
    BY <2>1 DEF Calling
  <2>5. ~Resumed' BY <2>2, <2>3, NoCall DEF Resumed
  <2>6. plane'.step \in {"parking", "resuming"} => plane'.state = "suspended"
    BY <2>2, <2>3
  <2>7. plane'.state # "suspended" => ~suspended'
    BY <1>3, <2>2, <2>3, <2>4 DEF UpHolds
  <2>8. plane'.state = "serving" => Kept'
    BY <1>3, <2>2, <2>3, <2>4 DEF UpHolds
  <2> QED BY <2>5, <2>6, <2>7, <2>8 DEF UpHolds
<1> QED BY <1>2, <1>3

\* A gateway that nothing touches stays as it was, for those who hold it stopped
\* as well.
LEMMA StaysKept ==
  ASSUME Kept, gateway' = gateway, lost' = lost,
         \A c \in Calls : HoldsStopped(c) =>
           call'[c].kind = call[c].kind /\ call'[c].ran = call[c].ran
           /\ call'[c].pc \in {"copying", "restoring"}
  PROVE  Kept'
<1>1. CASE gateway.runs \/ lost BY <1>1 DEF Kept
<1>2. CASE \E c \in Calls : HoldsStopped(c)
  <2>1. PICK c \in Calls : HoldsStopped(c) BY <1>2
  <2>2. HoldsStopped(c)' BY <2>1 DEF HoldsStopped
  <2> QED BY <2>2 DEF Kept
<1> QED BY <1>1, <1>2 DEF Kept

\* The steps that end a call.
LEMMA EndingUp ==
  ASSUME IInv, UpHolds, NEW c \in Calls,
         TurnsAway(c) \/ Restores(c) \/ Unflags(c) \/ Restarts(c) \/ Onboards(c)
         \/ Suspends(c) \/ (Configures(c) /\ \E ok \in BOOLEAN : Ends(c, ok))
  PROVE  UpHolds'
<1>1. call \in [Calls -> Call] BY DEF IInv, TypeOK
<1>2. ASSUME NEW ok \in BOOLEAN, Ends(c, ok)
      PROVE  \A d \in Calls : d # c => call'[d] = call[d]
  BY <1>1, <1>2 DEF Ends
<1>3. CASE TurnsAway(c)
  <2>1. /\ Ends(c, FALSE) /\ call[c].pc = "waiting"
        /\ gateway' = gateway /\ lost' = lost /\ suspended' = suspended
    BY <1>3 DEF TurnsAway
  <2>2. Kept => Kept' BY <1>2, <2>1, StaysKept DEF HoldsStopped
  <2> QED BY <2>1, <2>2, EndsUp DEF UpHolds
<1>4. CASE Restores(c)
  <2>1. PICK ok \in BOOLEAN : Ends(c, ok) BY <1>4 DEF Restores
  <2>2. suspended' = suspended /\ call[c].kind = "archive" BY <1>4 DEF Restores, At
  <2>3. CASE call[c].ran
    <3>1. gateway'.runs /\ ~gateway'.byHand BY <1>4, <2>3 DEF Restores, Starts, Running
    <3> QED BY <2>1, <2>2, <3>1, EndsUp DEF Kept
  <2>4. CASE ~call[c].ran
    <3>1. gateway' = gateway /\ lost' = lost BY <1>4, <2>4 DEF Restores
    <3>2. Kept => Kept' BY <1>2, <2>1, <2>4, <3>1, StaysKept DEF HoldsStopped
    <3> QED BY <2>1, <2>2, <3>1, <3>2, EndsUp DEF UpHolds
  <2> QED BY <2>3, <2>4
<1>5. CASE Unflags(c)
  <2>1. /\ Ends(c, TRUE) /\ call[c].kind = "resume" /\ call[c].pc = "unflagging"
        /\ gateway' = gateway /\ lost' = lost /\ suspended' = FALSE
    BY <1>5 DEF Unflags, At
  <2>2. Kept => Kept' BY <1>2, <2>1, StaysKept DEF HoldsStopped
  <2>3. plane.waits = c => Kept BY <2>1 DEF UpHolds, Resumed, At
  <2> QED BY <2>1, <2>2, <2>3, EndsUp DEF UpHolds
<1>6. CASE Restarts(c)
  <2>1. /\ Ends(c, TRUE) /\ suspended' = suspended /\ call[c].kind = "prepaid"
        /\ gateway'.runs /\ ~gateway'.byHand
    BY <1>6 DEF Restarts, Starts, Running, At
  <2> QED BY <2>1, EndsUp DEF Kept
<1>7. CASE Onboards(c)
  <2>1. /\ Ends(c, TRUE) /\ suspended' = suspended /\ call[c].kind = "wizard"
    BY <1>7 DEF Onboards, At
  <2>2. CASE Starts
    <3>1. gateway'.runs /\ ~gateway'.byHand BY <2>2 DEF Starts, Running
    <3> QED BY <2>1, <3>1, EndsUp DEF Kept
  <2>3. CASE gateway' = gateway /\ lost' = lost
    <3>1. Kept => Kept' BY <1>2, <2>1, <2>3, StaysKept DEF HoldsStopped
    <3> QED BY <2>1, <2>3, <3>1, EndsUp DEF UpHolds
  <2> QED BY <1>7, <2>2, <2>3 DEF Onboards
<1>8. CASE Suspends(c)
  <2>1. /\ Ends(c, TRUE) /\ suspended' = suspended /\ call[c].kind = "suspend"
        /\ ~gateway'.runs /\ lost' = (plane.waits # c)
    BY <1>8 DEF Suspends, Stopped, At
  <2>2. CASE plane.waits = c
    <3>1. plane.step = "stopping"
      <4>1. /\ plane.step \notin {"idle", "parking"}
            /\ Calling(plane.step).kind = "suspend" /\ plane \in Plane
        BY <2>1, <2>2 DEF IInv, WaitsForItsCall, TypeOK
      <4>2. plane.step \in {"preparing", "archiving", "saving", "stopping", "resuming"}
        BY <4>1 DEF Plane
      <4> QED BY <4>1, <4>2 DEF Calling
    <3>2. plane.state = "suspended" BY <3>1 DEF IInv, StepsInOrder
    <3>3. ~Resumed BY <2>1, <2>2 DEF Resumed, At
    <3> QED BY <2>1, <3>2, <3>3, EndsUp
  <2>3. CASE plane.waits # c BY <2>1, <2>3, EndsUp DEF Kept
  <2> QED BY <2>2, <2>3
<1>9. CASE Configures(c) /\ \E ok \in BOOLEAN : Ends(c, ok)
  <2>1. /\ call[c].kind = "prepaid" /\ call[c].pc = "configuring"
        /\ gateway' = gateway /\ lost' = lost /\ suspended' = suspended
    BY <1>9 DEF Configures, At
  <2>2. PICK ok \in BOOLEAN : Ends(c, ok) /\ (ok => gateway.runs)
    <3>1. CASE Ends(c, TRUE) /\ gateway.runs BY <3>1
    <3>2. CASE Ends(c, FALSE) BY <3>2
    <3>3. CASE Goto(c, "restarting")
      <4>1. call'[c].pc = "restarting" BY <1>1, <3>3 DEF Goto, Call
      <4>2. call'[c] = Idle BY <1>1, <1>9 DEF Ends
      <4> QED BY <4>1, <4>2 DEF Idle
    <3> QED BY <1>9, <3>1, <3>2, <3>3 DEF Configures
  <2>3. Kept => Kept' BY <1>2, <2>1, <2>2, StaysKept DEF HoldsStopped
  <2> QED BY <2>1, <2>2, <2>3, EndsUp DEF UpHolds, Kept
<1> QED BY <1>3, <1>4, <1>5, <1>6, <1>7, <1>8, <1>9

\* The steps of a call that goes on, or begins.
LEMMA MovingUp ==
  ASSUME IInv, UpHolds, NEW c \in Calls,
         \/ Locks(c) \/ Inspects(c) \/ StopsForCopy(c) \/ Copies(c) \/ Resumes(c)
         \/ Configures(c) /\ Goto(c, "restarting") /\ plane' = plane
         \/ OwnerCalls(c)
  PROVE  UpHolds'
<1>1. call \in [Calls -> Call] /\ gateway.runs \in BOOLEAN BY DEF IInv, TypeOK
<1>2. /\ plane' = plane /\ suspended' = suspended
      /\ \A d \in Calls : d # c => call'[d] = call[d]
  BY <1>1 DEF Locks, Inspects, StopsForCopy, Copies, Resumes, Configures, OwnerCalls, Goto
<1>3. CASE Resumes(c)
  <2>1. gateway'.runs /\ ~gateway'.byHand BY <1>3 DEF Resumes, Starts, Running
  <2> QED BY <1>2, <2>1 DEF UpHolds, Kept
<1>4. CASE ~Resumes(c)
  <2>1. \/ call'[c].pc \in {"locked", "stopping", "restarting", "waiting"} /\ ~HoldsStopped(c)
        \/ /\ call'[c].kind = call[c].kind /\ call'[c].ran = call[c].ran
           /\ call'[c].pc \in {"copying", "restoring"}
    <3>1. CASE Locks(c) BY <1>1, <3>1 DEF Locks, HoldsStopped, Call
    <3>2. CASE Inspects(c) BY <1>1, <3>2 DEF Inspects, At, HoldsStopped, Call
    <3>3. CASE StopsForCopy(c) BY <1>1, <3>3 DEF StopsForCopy, Goto, Call
    <3>4. CASE Copies(c) BY <1>1, <3>4 DEF Copies, Goto, Call
    <3>5. CASE Configures(c) /\ Goto(c, "restarting")
      BY <1>1, <3>5 DEF Configures, Goto, At, HoldsStopped, Call
    <3>6. CASE OwnerCalls(c)
      <4>1. call[c].kind = "none" BY <3>6 DEF OwnerCalls, Idle, None
      <4>2. call'[c].pc = "waiting" BY <1>1, <3>6 DEF OwnerCalls
      <4> QED BY <4>1, <4>2 DEF HoldsStopped
    <3> QED BY <1>4, <3>1, <3>2, <3>3, <3>4, <3>5, <3>6
  <2>2. Resumed' => Resumed
    <3>1. ~At(c, "resume", "unflagging")' BY <2>1 DEF At
    <3> QED BY <1>2, <3>1 DEF Resumed, At
  <2>3. CASE StopsForCopy(c) /\ call[c].ran
    <3>1. ~gateway'.runs BY <2>3 DEF StopsForCopy, Stopped
    <3>2. call'[c].kind = "archive" /\ call'[c].ran /\ call'[c].pc = "copying"
      BY <1>1, <2>3 DEF StopsForCopy, Goto, At, Call
    <3>3. Kept' BY <3>1, <3>2 DEF Kept, HoldsStopped
    <3> QED BY <1>2, <3>1, <3>3 DEF UpHolds
  <2>4. CASE ~(StopsForCopy(c) /\ call[c].ran)
    <3>1. gateway' = gateway /\ lost' = lost
      BY <1>4, <2>4 DEF Locks, Inspects, StopsForCopy, Copies, Configures, OwnerCalls
    <3>2. HoldsStopped(c) => /\ call'[c].kind = call[c].kind /\ call'[c].ran = call[c].ran
                             /\ call'[c].pc \in {"copying", "restoring"}
      BY <2>1
    <3>3. Kept => Kept' BY <1>2, <3>1, <3>2, StaysKept DEF HoldsStopped
    <3> QED BY <1>2, <2>2, <3>1, <3>3 DEF UpHolds
  <2> QED BY <2>3, <2>4
<1> QED BY <1>3, <1>4

\* The steps of the control plane.
LEMMA PlaneUp ==
  ASSUME IInv, UpHolds,
         Begins \/ Abandons \/ Parks \/ ParkFails \/ \E c \in Calls : Sends(c)
  PROVE  UpHolds'
<1>1. /\ call \in [Calls -> Call] /\ plane \in Plane
      /\ gateway \in [runs : BOOLEAN, byHand : BOOLEAN]
  BY DEF IInv, TypeOK
<1>2. CASE Begins
  <2>1. /\ plane.waits \notin Calls /\ UNCHANGED <<suspended, call, lost>>
    BY <1>2 DEF Begins, IInv, WaitsForItsCall
  <2>2. PICK step \in {"preparing", "archiving", "saving", "parking", "resuming"} :
          /\ step \in {"parking", "resuming"} => plane.state = "suspended"
          /\ plane' = [plane EXCEPT !.step = step,
                                    !.state = IF step = "saving" THEN "suspended" ELSE plane.state]
          /\ gateway' = IF step = "resuming" /\ vm = "off"
                        THEN [gateway EXCEPT !.runs = ~gateway.byHand] ELSE gateway
    <3>1. plane.state \in {"provisioning", "serving", "suspended"} BY <1>1 DEF Plane
    <3> QED BY <1>2, <3>1 DEF Begins
  <2>3. /\ plane'.step = step /\ plane'.waits = plane.waits
        /\ plane'.state = IF step = "saving" THEN "suspended" ELSE plane.state
    BY <1>1, <2>2 DEF Plane
  <2>4. ~Resumed' BY <2>1, <2>3 DEF Resumed
  <2>5. gateway'.runs => ~gateway'.byHand BY <1>1, <2>2 DEF UpHolds
  <2>6. plane'.state = "serving" => Kept'
    <3> SUFFICES ASSUME plane'.state = "serving" PROVE Kept' OBVIOUS
    <3>1. plane.state = "serving" BY <2>3
    <3>2. gateway' = gateway BY <2>2, <3>1
    <3> QED BY <2>1, <3>1, <3>2, StaysKept DEF UpHolds, HoldsStopped
  <2> QED BY <2>1, <2>2, <2>3, <2>4, <2>5, <2>6 DEF UpHolds
<1>3. CASE Abandons
  <2>1. /\ plane.step \notin {"idle", "parking"} /\ plane' = After(FALSE)
        /\ UNCHANGED <<gateway, suspended, call, lost>>
    BY <1>3 DEF Abandons
  <2>2. PICK ok \in BOOLEAN : ok = FALSE OBVIOUS
  <2>3. plane' = After(ok) /\ StepsInOrder BY <2>1, <2>2 DEF IInv
  <2>4. /\ After(ok).waits = None
        /\ After(ok).step # "resuming"
        /\ After(ok).step = "parking" => After(ok).state = "suspended"
        /\ After(ok).state # "suspended" => plane.state # "suspended"
        /\ After(ok).state = "serving" => plane.state = "serving"
    BY <1>1, <2>1, <2>2, <2>3, AfterOrder, AfterServes
  <2>5. ~Resumed' BY <2>3, <2>4, NoCall DEF Resumed
  <2>6. Kept => Kept' BY <2>1, StaysKept DEF HoldsStopped
  <2> QED BY <2>1, <2>3, <2>4, <2>5, <2>6 DEF UpHolds
<1>4. CASE Parks \/ ParkFails
  <2>1. /\ plane.step = "parking" /\ plane' = [plane EXCEPT !.step = "idle"]
        /\ suspended' = suspended
        /\ gateway' = gateway \/ gateway' = [gateway EXCEPT !.runs = FALSE]
    BY <1>4 DEF Parks, ParkFails
  <2>2. plane'.step = "idle" /\ plane'.state = "suspended" /\ plane'.waits = plane.waits
    BY <1>1, <2>1 DEF Plane, UpHolds
  <2>3. ~Resumed' BY <2>1, <2>2 DEF Resumed, IInv, WaitsForItsCall
  <2>4. gateway'.runs => ~gateway'.byHand BY <1>1, <2>1 DEF UpHolds
  <2> QED BY <2>2, <2>3, <2>4 DEF UpHolds
<1>5. ASSUME NEW c \in Calls, Sends(c) PROVE UpHolds'
  <2>1. /\ plane.step \in {"preparing", "archiving", "saving", "stopping", "resuming"}
        /\ call[c] = Idle /\ UNCHANGED <<gateway, lost>>
        /\ plane' = [plane EXCEPT !.waits = c]
        /\ suspended' = (suspended \/ Calling(plane.step).kind = "suspend")
        /\ call' = [call EXCEPT ![c] = [kind |-> Calling(plane.step).kind,
                                        pc |-> Calling(plane.step).pc, ran |-> FALSE]]
    BY <1>1, <1>5 DEF Sends, Plane
  <2>2. /\ Calling(plane.step).kind = "suspend" => plane.state = "suspended"
        /\ Calling(plane.step).pc # "unflagging"
    BY <2>1 DEF Calling, IInv, StepsInOrder
  <2>3. plane'.step = plane.step /\ plane'.state = plane.state /\ plane'.waits = c
    BY <1>1, <2>1 DEF Plane
  <2>4. /\ call'[c].pc = Calling(plane.step).pc
        /\ \A d \in Calls : d # c => call'[d] = call[d]
    BY <1>1, <2>1
  <2>5. ~Resumed' BY <2>2, <2>3, <2>4 DEF Resumed, At
  <2>6. ~HoldsStopped(c) BY <2>1 DEF HoldsStopped, Idle, None
  <2>7. Kept => Kept' BY <2>1, <2>4, <2>6, StaysKept DEF HoldsStopped
  <2> QED BY <2>1, <2>2, <2>3, <2>5, <2>7 DEF UpHolds
<1> QED BY <1>2, <1>3, <1>4, <1>5

\* Crashes: whoever held the gateway stopped is lost, and known to be.
LEMMA DyingUp ==
  ASSUME IInv, UpHolds, ServiceDies \/ MachineDies
  PROVE  UpHolds'
<1>1. /\ call \in [Calls -> Call] /\ plane \in Plane /\ StepsInOrder
      /\ gateway \in [runs : BOOLEAN, byHand : BOOLEAN]
  BY DEF IInv, TypeOK
<1>2. PICK S \in SUBSET Calls :
        /\ Dies(S) /\ \A c \in Calls : HoldsStopped(c) => c \in S
        /\ gateway' = gateway \/ gateway' = [gateway EXCEPT !.runs = ~gateway.byHand]
  <2>1. CASE ServiceDies
    <3> DEFINE T == {c \in Calls : call[c].kind # "wizard"}
    <3>1. \A c \in Calls : HoldsStopped(c) => c \in T BY DEF HoldsStopped
    <3> QED BY <2>1, <3>1 DEF ServiceDies
  <2>2. CASE MachineDies BY <2>2 DEF MachineDies
  <2> QED BY <2>1, <2>2
<1>3. /\ call' = [c \in Calls |-> IF c \in S THEN Idle ELSE call[c]]
      /\ plane' = IF plane.waits \in S THEN After(FALSE) ELSE plane
      /\ lost' = (lost \/ \E c \in S : HoldsStopped(c))
      /\ suspended' = suspended
  BY <1>2 DEF Dies
<1>4. gateway'.runs => ~gateway'.byHand BY <1>1, <1>2 DEF UpHolds
<1>5. Kept => Kept'
  <2>1. CASE lost \/ \E c \in Calls : HoldsStopped(c) BY <1>2, <1>3, <2>1 DEF Kept
  <2>2. CASE gateway.runs
    <3>1. gateway'.runs BY <1>1, <1>2, <2>2 DEF UpHolds
    <3> QED BY <3>1 DEF Kept
  <2> QED BY <2>1, <2>2 DEF Kept
<1>6. CASE plane.waits \in S
  <2>1. plane.step \notin {"idle", "parking"} BY <1>6 DEF IInv, WaitsForItsCall
  <2>2. PICK ok \in BOOLEAN : ok = FALSE OBVIOUS
  <2>3. plane' = After(ok) BY <1>3, <1>6, <2>2
  <2>4. /\ After(ok).waits = None
        /\ After(ok).step # "resuming"
        /\ After(ok).step = "parking" => After(ok).state = "suspended"
        /\ After(ok).state # "suspended" => plane.state # "suspended"
        /\ After(ok).state = "serving" => plane.state = "serving"
    BY <1>1, <2>1, <2>2, AfterOrder, AfterServes
  <2>5. ~Resumed' BY <2>3, <2>4, NoCall DEF Resumed
  <2> QED BY <1>3, <1>4, <1>5, <2>3, <2>4, <2>5 DEF UpHolds
<1>7. CASE plane.waits \notin S
  <2>1. plane' = plane BY <1>3, <1>7
  <2>2. Resumed' => Resumed BY <1>3, <1>7, <2>1 DEF Resumed, At
  <2> QED BY <1>3, <1>4, <1>5, <2>1, <2>2 DEF UpHolds
<1> QED BY <1>6, <1>7

\* The gateway of a tenant that is served is up, paused by an archive that holds
\* the lock, or lost (tenant/main.ts, deploy/export.sh).
THEOREM TenantHostServed == Spec => []ServedIsUp
<1>1. Init => UpHolds
  <2> SUFFICES ASSUME Init PROVE UpHolds OBVIOUS
  <2>1. ~Resumed BY NoCall DEF Init, Resumed
  <2> QED BY <2>1 DEF Init, UpHolds, Running
<1>2. IInv /\ UpHolds /\ [Next]_vars => UpHolds'
  <2> SUFFICES ASSUME IInv, UpHolds, [Next]_vars PROVE UpHolds' OBVIOUS
  <2>1. CASE UNCHANGED vars
    <3>1. Kept => Kept' BY <2>1, StaysKept DEF vars, HoldsStopped
    <3> QED BY <2>1, <3>1 DEF vars, UpHolds, Resumed, At
  <2>2. CASE Begins \/ Abandons \/ Parks \/ ParkFails \/ \E c \in Calls : Sends(c)
    BY <2>2, PlaneUp
  <2>3. CASE ServiceDies \/ MachineDies BY <2>3, DyingUp
  <2>4. ASSUME NEW c \in Calls, OwnerCalls(c) \/ CallStep(c) \/ Onboards(c)
        PROVE  UpHolds'
    <3>1. CASE Configures(c)
      <4>1. \/ \E ok \in BOOLEAN : Ends(c, ok)
            \/ Goto(c, "restarting") /\ plane' = plane
        BY <3>1 DEF Configures
      <4> QED BY <3>1, <4>1, EndingUp, MovingUp
    <3>2. CASE ~Configures(c) BY <2>4, <3>2, EndingUp, MovingUp DEF CallStep
    <3> QED BY <3>1, <3>2
  <2> QED BY <2>1, <2>2, <2>3, <2>4 DEF Next
<1>3. IInv /\ UpHolds => ServedIsUp
  <2> SUFFICES ASSUME IInv, UpHolds, plane.state = "serving" PROVE
         ~suspended /\ (gateway.runs \/ lost \/ \E c \in Calls : lock = c /\ HoldsStopped(c))
    BY DEF ServedIsUp
  <2>1. \A c \in Calls : HoldsStopped(c) => lock = c
    BY DEF HoldsStopped, IInv, TurnsHeld, Turn
  <2> QED BY <2>1 DEF UpHolds, Kept
<1> QED BY TenantHostInvariant, <1>1, <1>2, <1>3, PTL DEF Spec
=============================================================================
