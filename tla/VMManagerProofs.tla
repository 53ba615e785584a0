--------------------------- MODULE VMManagerProofs ---------------------------
(***************************************************************************)
(* Theorems about VMManager, for any number of callers, processes and      *)
(* accelerators, with and without RestartOnCrash.                          *)
(***************************************************************************)
EXTENDS VMManager, TLAPS

\* launch has started its process once it dials, and has both a process and a
\* QMP client when it publishes them.
LaunchHasProc ==
    \A a \in Actors :
        /\ pc[a] \in {"dialing", "reap", "publish"} => proc[a] \in Procs
        /\ pc[a] = "publish" => dial[a] \in Procs

\* ForceStop holds the process it found published and its channel.
ForceStopHolds ==
    \A t \in Threads :
        pc[t] \in {"force2", "force3"} => proc[t] \in Procs /\ chan[t] = proc[t]

IInv == TypeOK /\ LaunchHasProc /\ ForceStopHolds /\ RunningHasGuest

-----------------------------------------------------------------------------
\* Nothing is published and nobody is inside the manager initially.
LEMMA InitIInv == Init => IInv
<1> SUFFICES ASSUME Init PROVE IInv
  OBVIOUS
<1> USE VMAssumption DEF Init, Actors, MaybeProc
<1>1. TypeOK
  <2>1. try \in [Actors -> 1 .. Accels]
    OBVIOUS
  <2>2. pc \in [Actors -> ThreadPCs \cup ProcPCs]
    BY DEF ThreadPCs, ProcPCs
  <2>3. client \in [Procs -> BOOLEAN]
    OBVIOUS
  <2> QED BY <2>1, <2>2, <2>3 DEF TypeOK, States, Dead
<1>2. LaunchHasProc /\ ForceStopHolds /\ RunningHasGuest
  BY DEF LaunchHasProc, ForceStopHolds, RunningHasGuest
<1> QED BY <1>1, <1>2 DEF IInv

\* Every step of Start and launch keeps the invariant.
LEMMA StartStepIInv ==
    ASSUME IInv, NEW a \in Actors, StartSteps(a) PROVE IInv'
<1> USE VMAssumption
    DEF IInv, TypeOK, LaunchHasProc, ForceStopHolds, RunningHasGuest, Actors,
        MaybeProc, States, Dead, StartPCs, ThreadPCs, ProcPCs,
        manager, world, locals, Returned
<1>1. CASE StartRefused(a)
  BY <1>1 DEF StartRefused
<1>2. CASE StartBegins(a)
  BY <1>2 DEF StartBegins
<1>3. CASE ChecksPass(a) \/ ChecksFail(a)
  BY <1>3 DEF ChecksPass, ChecksFail
<1>4. CASE Fail(a)
  BY <1>4 DEF Fail, Finish
<1>5. CASE SpawnFails(a)
  BY <1>5 DEF SpawnFails, NextAccel
<1>6. ASSUME NEW p \in Procs, Spawn(a, p) PROVE IInv'
  BY <1>6 DEF Spawn, Forgotten
<1>7. CASE LaunchSeesExit(a)
  BY <1>7 DEF LaunchSeesExit, NextAccel
<1>8. CASE LaunchKills(a)
  BY <1>8 DEF LaunchKills, Kill
<1>9. CASE LaunchReaps(a)
  BY <1>9 DEF LaunchReaps, NextAccel
<1>10. CASE PasswordSet(a)
  BY <1>10 DEF PasswordSet
<1>11. CASE PasswordFails(a)
  BY <1>11 DEF PasswordFails, NextAccel, Kill
<1>12. CASE Publish(a)
  BY <1>12 DEF Publish, Finish
<1> QED
  BY <1>1, <1>2, <1>3, <1>4, <1>5, <1>6, <1>7, <1>8, <1>9, <1>10, <1>11, <1>12
     DEF StartSteps

\* Every step of Shutdown, ForceStop and Stop keeps the invariant.
LEMMA StopStepIInv ==
    ASSUME IInv, NEW t \in Threads, StopSteps(t) PROVE IInv'
<1> USE VMAssumption
    DEF IInv, TypeOK, LaunchHasProc, ForceStopHolds, RunningHasGuest, Actors,
        MaybeProc, States, Dead, StartPCs, ThreadPCs, ProcPCs,
        manager, world, locals, Return, ShutdownError
<1>1. CASE ShutdownClient(t)
  <2>1. TypeOK'
    BY <1>1 DEF ShutdownClient
  <2>2. LaunchHasProc' /\ ForceStopHolds' /\ RunningHasGuest'
    BY <1>1 DEF ShutdownClient
  <2> QED BY <2>1, <2>2
<1>2. CASE ShutdownMarks(t)
  <2>1. TypeOK'
    BY <1>2 DEF ShutdownMarks
  <2>2. LaunchHasProc' /\ ForceStopHolds' /\ RunningHasGuest'
    BY <1>2 DEF ShutdownMarks
  <2> QED BY <2>1, <2>2
<1>3. CASE PowerdownSent(t)
  <2>1. TypeOK'
    BY <1>3 DEF PowerdownSent
  <2>2. LaunchHasProc' /\ ForceStopHolds' /\ RunningHasGuest'
    BY <1>3 DEF PowerdownSent
  <2> QED BY <2>1, <2>2
<1>4. CASE PowerdownFails(t)
  <2>1. TypeOK'
    BY <1>4 DEF PowerdownFails
  <2>2. LaunchHasProc' /\ ForceStopHolds' /\ RunningHasGuest'
    BY <1>4 DEF PowerdownFails
  <2> QED BY <2>1, <2>2
<1>5. CASE ForceStopBegins(t)
  <2>1. CASE cmd = NoProc
    <3>1. /\ pc[t] = "force1" /\ Return(t)
          /\ UNCHANGED <<manager, world, try>>
      BY <1>5, <2>1 DEF ForceStopBegins
    <3> QED BY <3>1
  <2>2. CASE cmd # NoProc
    BY <1>5, <2>2 DEF ForceStopBegins
  <2> QED BY <2>1, <2>2
<1>6. CASE ForceStopKills(t)
  <2>1. TypeOK'
    BY <1>6 DEF ForceStopKills, Kill
  <2>2. LaunchHasProc' /\ ForceStopHolds' /\ RunningHasGuest'
    BY <1>6 DEF ForceStopKills, Kill
  <2> QED BY <2>1, <2>2
<1>7. CASE ForceStopTooLate(t) \/ ForceStopReturns(t)
  <2>1. /\ pc[t] \in {"force2", "force3"} /\ Return(t)
        /\ UNCHANGED <<manager, world, try>>
    BY <1>7 DEF ForceStopTooLate, ForceStopReturns
  <2>2. TypeOK'
    BY <2>1
  <2>3. LaunchHasProc' /\ ForceStopHolds' /\ RunningHasGuest'
    BY <2>1
  <2> QED BY <2>2, <2>3
<1>8. CASE StopBegins(t)
  <2>1. TypeOK'
    BY <1>8 DEF StopBegins
  <2>2. LaunchHasProc' /\ ForceStopHolds' /\ RunningHasGuest'
    BY <1>8 DEF StopBegins
  <2> QED BY <2>1, <2>2
<1>9. CASE StopSeesExit(t)
  <2>1. TypeOK'
    BY <1>9 DEF StopSeesExit
  <2>2. LaunchHasProc' /\ ForceStopHolds' /\ RunningHasGuest'
    BY <1>9 DEF StopSeesExit
  <2> QED BY <2>1, <2>2
<1>10. CASE StopGraceOver(t)
  <2>1. TypeOK'
    BY <1>10 DEF StopGraceOver
  <2>2. LaunchHasProc' /\ ForceStopHolds' /\ RunningHasGuest'
    BY <1>10 DEF StopGraceOver
  <2> QED BY <2>1, <2>2
<1> QED
  BY <1>1, <1>2, <1>3, <1>4, <1>5, <1>6, <1>7, <1>8, <1>9, <1>10 DEF StopSteps

\* Every step of the whole system keeps the invariant.
LEMMA StepIInv == IInv /\ [Next]_vars => IInv'
<1> SUFFICES ASSUME IInv, [Next]_vars PROVE IInv'
  OBVIOUS
<1> USE VMAssumption
<1>1. ASSUME NEW p \in Procs, Qemu(p) PROVE IInv'
  <2>1. /\ UNCHANGED <<manager, pc, locals>>
        /\ \E how \in {"listening", "crashed", "clean"} :
               phase' = [phase EXCEPT ![p] = how]
        /\ doomed' \in {doomed, doomed \ {p}}
        /\ client' \in {client, [client EXCEPT ![p] = FALSE]}
    BY <1>1 DEF Qemu, Bind, Crash, PowerOff, Gone
  <2>2. TypeOK'
    BY <2>1 DEF IInv, TypeOK, Dead, manager, locals
  <2>3. LaunchHasProc' /\ ForceStopHolds' /\ RunningHasGuest'
    BY <2>1 DEF IInv, LaunchHasProc, ForceStopHolds, RunningHasGuest, manager, locals
  <2> QED BY <2>2, <2>3 DEF IInv
<1>2. ASSUME NEW p \in Procs, WaitSteps(p) PROVE IInv'
  <2> USE DEF IInv, TypeOK, LaunchHasProc, ForceStopHolds, RunningHasGuest, Actors,
      MaybeProc, States, Dead, StartPCs, ThreadPCs, ProcPCs, manager, world, locals
  <2>1. CASE ExitIgnored(p)
    BY <2>1 DEF ExitIgnored
  <2>2. CASE OnExit(p)
    BY <2>2 DEF OnExit
  <2>3. CASE CloseExited(p)
    BY <2>3 DEF CloseExited
  <2> QED BY <1>2, <2>1, <2>2, <2>3 DEF WaitSteps
<1>3. ASSUME NEW a \in Actors, DialFails(a) PROVE IInv'
  BY <1>3 DEF DialFails, IInv, TypeOK, LaunchHasProc, ForceStopHolds, RunningHasGuest,
     Actors, MaybeProc, manager, world
<1>4. ASSUME NEW a \in Actors, NEW p \in Procs, DialConnects(a, p) PROVE IInv'
  BY <1>4 DEF DialConnects, IInv, TypeOK, LaunchHasProc, ForceStopHolds,
     RunningHasGuest, Actors, MaybeProc, manager
<1>5. ASSUME NEW t \in Threads, NEW m \in DOMAIN Entry, Call(t, m) PROVE IInv'
  BY <1>5 DEF Call, Entry, IInv, TypeOK, LaunchHasProc, ForceStopHolds,
     RunningHasGuest, Actors, MaybeProc, StartPCs, ThreadPCs, ProcPCs, manager, world
<1>6. CASE UNCHANGED vars
  BY <1>6 DEF vars, manager, world, locals, IInv, TypeOK, LaunchHasProc,
     ForceStopHolds, RunningHasGuest
<1> QED
  BY <1>1, <1>2, <1>3, <1>4, <1>5, <1>6, StartStepIInv, StopStepIInv DEF Next

\* The inductive invariant, for the specification.
LEMMA VMInductive == Spec => []IInv
BY InitIInv, StepIInv, PTL DEF Spec

-----------------------------------------------------------------------------
\* Every variable of the manager and of its goroutines keeps its type.
THEOREM VMTypeCorrect == Spec => []TypeOK
<1>1. IInv => TypeOK
  BY DEF IInv
<1> QED BY <1>1, VMInductive, PTL

\* The process, its QMP client, its password and its exited channel are published
\* and withdrawn together, and "running" is never shown without them, however
\* many starts, stops and exits race.
THEOREM RunningGuestComplete == Spec => []RunningHasGuest
<1>1. IInv => RunningHasGuest
  BY DEF IInv
<1> QED BY <1>1, VMInductive, PTL

\* ForceStop waits for the channel of the process it kills.
THEOREM ForceStopChannel == Spec => []ForceStopOwnChannel
<1>1. IInv => ForceStopOwnChannel
  BY DEF IInv, ForceStopHolds, ForceStopOwnChannel
<1> QED BY <1>1, VMInductive, PTL

\* Only the exit of the published process itself withdraws it.
THEOREM ExitErasesOwn == Spec => OnlyOwnExitErases
<1>1. IInv /\ [Next]_vars => [cmd # NoProc /\ cmd' = NoProc => phase[cmd] \in Dead]_vars
  <2> SUFFICES ASSUME IInv, Next, cmd # NoProc, cmd' = NoProc
               PROVE  phase[cmd] \in Dead
    OBVIOUS
  <2> USE VMAssumption DEF manager, world, locals
  <2>1. ASSUME NEW p \in Procs, Qemu(p) PROVE FALSE
    BY <2>1 DEF Qemu, Bind, Crash, PowerOff, Gone
  <2>2. ASSUME NEW p \in Procs, WaitSteps(p) PROVE phase[cmd] \in Dead
    BY <2>2 DEF WaitSteps, ExitIgnored, OnExit, CloseExited
  <2>3. ASSUME NEW a \in Actors, DialFails(a) PROVE FALSE
    BY <2>3 DEF DialFails
  <2>4. ASSUME NEW a \in Actors, NEW p \in Procs, DialConnects(a, p) PROVE FALSE
    BY <2>4 DEF DialConnects
  <2>5. ASSUME NEW t \in Threads, NEW m \in DOMAIN Entry, Call(t, m) PROVE FALSE
    BY <2>5 DEF Call
  <2>6. ASSUME NEW t \in Threads, StopSteps(t) PROVE FALSE
    BY <2>6 DEF StopSteps, ShutdownClient, ShutdownMarks, PowerdownSent,
       PowerdownFails, ForceStopBegins, ForceStopKills, ForceStopTooLate,
       ForceStopReturns, StopBegins, StopSeesExit, StopGraceOver
  <2>7. ASSUME NEW a \in Actors, StartSteps(a) PROVE FALSE
    <3>1. CASE Publish(a)
      BY <3>1 DEF Publish, IInv, LaunchHasProc
    <3> QED
      BY <2>7, <3>1 DEF StartSteps, StartRefused, StartBegins, ChecksPass, ChecksFail,
         Fail, SpawnFails, Spawn, LaunchSeesExit, LaunchKills, LaunchReaps,
         PasswordSet, PasswordFails
  <2> QED BY <2>1, <2>2, <2>3, <2>4, <2>5, <2>6, <2>7 DEF Next
<1> QED BY <1>1, VMInductive, PTL DEF Spec, OnlyOwnExitErases

-----------------------------------------------------------------------------
(* One caller at a time and no RestartOnCrash, for any number of processes *)
(* and accelerators.                                                       *)

\* The goroutine of a process never calls Start, and a process it has waited for is
\* dead.
WaitersOnly ==
    \A p \in Procs :
        /\ pc[p] \in {"none", "waiting", "closing", "closed"}
        /\ pc[p] # "waiting" => ~Alive(p)

\* The ports belong to one process.
OneListens ==
    \A p, q \in Procs : phase[p] = "listening" /\ phase[q] = "listening" => p = q

\* A process that nobody has told to die.
Loose(p) == Alive(p) /\ p \notin doomed

\* Only the process that launch waits for may have yet to bind the ports, and none is
\* loose once they were found free.
Held ==
    \A t \in Threads, p \in Procs : Loose(p) =>
        /\ pc[t] \notin {"spawn", "reap"}
        /\ pc[t] \in {"dialing", "publish"} => p = proc[t]
        /\ pc[t] # "dialing" => phase[p] = "listening"

\* DialQMP has reached the process that launch has started.
DialsItsOwn ==
    \A t \in Threads :
        /\ pc[t] \notin {"dialing", "reap", "publish", "shut2", "shut3"} => dial[t] = NoProc
        /\ pc[t] = "dialing" => dial[t] \in {NoProc, DialFailed, proc[t]}
        /\ pc[t] = "publish" => dial[t] = proc[t]

\* The guest that Stop has found is published or dead until Stop has killed it.
StopFollows ==
    \A t \in Threads :
        /\ pc[t] \in {"idle", "stop"} \cup StartPCs => chan[t] = NoProc
        /\ pc[t] \in {"idle"} \cup StartPCs => t \notin inStop
        /\ t \in inStop /\ chan[t] # NoProc =>
            /\ pc[t] \in {"shut1", "shut2", "shut3", "grace", "force1"}
                   => cmd = chan[t] \/ ~Alive(chan[t])
            /\ pc[t] = "force3" => ~Alive(chan[t]) \/ chan[t] \in doomed

OneInv ==
    WaitersOnly /\ OneListens /\ Held /\ DialsItsOwn /\ StopFollows /\ QmpMatchesCmd

\* One caller, which Procs do not imitate.
OneCaller(t) == Threads = {t} /\ RestartOnCrash = FALSE

-----------------------------------------------------------------------------
\* Nobody has called the manager initially.
LEMMA InitOneInv == Init => OneInv
BY VMAssumption
   DEF Init, OneInv, WaitersOnly, OneListens, Held, Loose, Alive, DialsItsOwn, StopFollows,
       QmpMatchesCmd, Actors, StartPCs

\* Every step of Start and launch keeps the invariant.
LEMMA StartStepOneInv ==
    ASSUME NEW t, OneCaller(t), IInv, OneInv, NEW a \in Actors, StartSteps(a) PROVE OneInv'
<1> USE VMAssumption DEF OneCaller, IInv, OneInv, TypeOK, Actors, manager, world, locals,
    StartPCs, PortsTaken, NextAccel, Finish, Returned, Kill, Dead, LaunchHasProc,
    WaitersOnly, OneListens, Held, DialsItsOwn, StopFollows, QmpMatchesCmd, Alive, Loose
<1>0. a = t
  BY DEF StartSteps, StartRefused, StartBegins, ChecksPass, ChecksFail, Fail, SpawnFails,
     Spawn, LaunchSeesExit, LaunchKills, LaunchReaps, PasswordSet, PasswordFails, Publish,
     WaitersOnly
<1>1. ASSUME StartRefused(t) PROVE OneInv'
  BY <1>1 DEF StartRefused
<1>2. ASSUME StartBegins(t) PROVE OneInv'
  BY <1>2 DEF StartBegins
<1>3. ASSUME ChecksPass(t) PROVE OneInv'
  BY <1>3 DEF ChecksPass
<1>4. ASSUME ChecksFail(t) PROVE OneInv'
  BY <1>4 DEF ChecksFail
<1>5. ASSUME Fail(t) PROVE OneInv'
  BY <1>5 DEF Fail
<1>6. ASSUME SpawnFails(t) PROVE OneInv'
  BY <1>6 DEF SpawnFails
<1>7. ASSUME LaunchSeesExit(t) PROVE OneInv'
  BY <1>7 DEF LaunchSeesExit
<1>8. ASSUME LaunchKills(t) PROVE OneInv'
  BY <1>8 DEF LaunchKills
<1>9. ASSUME LaunchReaps(t) PROVE OneInv'
  BY <1>9 DEF LaunchReaps
<1>10. ASSUME PasswordSet(t) PROVE OneInv'
  BY <1>10 DEF PasswordSet
<1>11. ASSUME PasswordFails(t) PROVE OneInv'
  BY <1>11 DEF PasswordFails
<1>12. ASSUME Publish(t) PROVE OneInv'
  BY <1>12 DEF Publish
<1>13. ASSUME NEW p \in Procs, Spawn(t, p) PROVE OneInv'
  BY <1>13 DEF Spawn, Forgotten
<1> QED
  BY <1>0, <1>1, <1>2, <1>3, <1>4, <1>5, <1>6, <1>7, <1>8, <1>9, <1>10, <1>11, <1>12,
     <1>13 DEF StartSteps

\* Every step of Shutdown, ForceStop and Stop keeps the invariant.
LEMMA StopStepOneInv ==
    ASSUME NEW t, OneCaller(t), IInv, OneInv, StopSteps(t) PROVE OneInv'
<1> USE VMAssumption DEF OneCaller, IInv, OneInv, TypeOK, Actors, manager, world, locals,
    StartPCs, Kill, Dead, ForceStopHolds, RunningHasGuest, Return,
    ShutdownError, WaitersOnly, OneListens,
    Held, DialsItsOwn, StopFollows, QmpMatchesCmd, Alive, Loose
<1>1. ASSUME ShutdownClient(t) PROVE OneInv'
  BY <1>1 DEF ShutdownClient
<1>2. ASSUME ShutdownMarks(t) PROVE OneInv'
  BY <1>2 DEF ShutdownMarks
<1>3. ASSUME PowerdownSent(t) PROVE OneInv'
  BY <1>3 DEF PowerdownSent
<1>4. ASSUME PowerdownFails(t) PROVE OneInv'
  BY <1>4 DEF PowerdownFails
<1>5. ASSUME ForceStopBegins(t) PROVE OneInv'
  BY <1>5 DEF ForceStopBegins
<1>6. ASSUME ForceStopKills(t) PROVE OneInv'
  BY <1>6 DEF ForceStopKills
<1>7. ASSUME ForceStopTooLate(t) PROVE OneInv'
  BY <1>7 DEF ForceStopTooLate
<1>8. ASSUME ForceStopReturns(t) PROVE OneInv'
  BY <1>8 DEF ForceStopReturns
<1>9. ASSUME StopBegins(t) PROVE OneInv'
  BY <1>9 DEF StopBegins
<1>10. ASSUME StopSeesExit(t) PROVE OneInv'
  BY <1>10 DEF StopSeesExit
<1>11. ASSUME StopGraceOver(t) PROVE OneInv'
  BY <1>11 DEF StopGraceOver
<1> QED BY <1>1, <1>2, <1>3, <1>4, <1>5, <1>6, <1>7, <1>8, <1>9, <1>10, <1>11 DEF StopSteps

\* Every step of the whole system keeps the invariant.
LEMMA StepOneInv ==
    ASSUME NEW t, OneCaller(t), IInv, OneInv, [Next]_vars PROVE OneInv'
<1> USE VMAssumption DEF OneCaller, IInv, OneInv, TypeOK, Actors, manager, world, locals,
    StartPCs, Dead, RunningHasGuest, WaitersOnly, OneListens,
    Held, DialsItsOwn, StopFollows, QmpMatchesCmd, Alive, Loose
<1>1. ASSUME NEW p \in Procs, Bind(p) PROVE OneInv'
  BY <1>1 DEF Bind, PortsTaken
<1>2. ASSUME NEW p \in Procs, Crash(p) \/ PowerOff(p) PROVE OneInv'
  <2>1. PICK how \in {"crashed", "clean"} : Alive(p) /\ Gone(p, how)
    BY <1>2 DEF Crash, PowerOff
  <2>2. /\ \A q \in Procs : /\ ~Alive(p)'
                            /\ q # p => phase'[q] = phase[q]
                            /\ q # p /\ q \in doomed => q \in doomed'
        /\ UNCHANGED <<manager, pc, locals>>
    BY <2>1 DEF Gone
  <2>3. WaitersOnly' /\ OneListens' /\ Held' /\ DialsItsOwn' /\ QmpMatchesCmd'
    BY <2>1, <2>2 DEF Gone
  <2>4. chan[t] # NoProc => chan[t] \in Procs
    BY DEF MaybeProc
  <2>5. StopFollows'
    BY <2>2, <2>4
  <2> QED BY <2>3, <2>5
<1>3. ASSUME NEW p \in Procs, ExitIgnored(p) PROVE OneInv'
  BY <1>3 DEF ExitIgnored
<1>4. ASSUME NEW p \in Procs, OnExit(p) PROVE OneInv'
  BY <1>4 DEF OnExit
<1>5. ASSUME NEW p \in Procs, CloseExited(p) PROVE OneInv'
  BY <1>5 DEF CloseExited
<1>6. ASSUME NEW a \in Actors, DialFails(a) PROVE OneInv'
  BY <1>6 DEF DialFails
<1>7. ASSUME NEW a \in Actors, NEW p \in Procs, DialConnects(a, p) PROVE OneInv'
  BY <1>7 DEF DialConnects
<1>8. ASSUME NEW m \in DOMAIN Entry, Call(t, m) PROVE OneInv'
  BY <1>8 DEF Call, Entry
<1>9. CASE UNCHANGED vars
  BY <1>9 DEF vars
<1>10. ASSUME NEW a \in Actors, StartSteps(a) PROVE OneInv'
  BY <1>10, StartStepOneInv
<1>11. ASSUME StopSteps(t) PROVE OneInv'
  BY <1>11, StopStepOneInv
<1> HIDE DEF OneInv, IInv, TypeOK, manager, world, locals
<1> QED
  BY <1>1, <1>2, <1>3, <1>4, <1>5, <1>6, <1>7, <1>8, <1>9, <1>10, <1>11
     DEF Next, Qemu, WaitSteps

-----------------------------------------------------------------------------
\* With one caller of Start, Shutdown, ForceStop and Stop at a time, two guests never
\* live side by side unless one of them was sent its kill.
THEOREM OneGuestAtATime == ASSUME NEW t, OneCaller(t) PROVE Spec => []SingleGuest
<1>1. OneInv => SingleGuest
  BY DEF OneCaller, OneInv, Held, OneListens, Loose, SingleGuest
<1>2. IInv /\ OneInv /\ [Next]_vars => OneInv'
  BY StepOneInv
<1> QED BY <1>1, <1>2, InitOneInv, VMInductive, PTL DEF Spec

\* The QMP client and the VNC password are those of the published process, although
\* DialQMP connects to whoever has the port: launch has found the port free before.
THEOREM ClientOfItsGuest == ASSUME NEW t, OneCaller(t) PROVE Spec => []QmpMatchesCmd
<1>1. OneInv => QmpMatchesCmd
  BY DEF OneInv
<1>2. IInv /\ OneInv /\ [Next]_vars => OneInv'
  BY StepOneInv
<1> QED BY <1>1, <1>2, InitOneInv, VMInductive, PTL DEF Spec

\* Stop returns only when the guest it has found running is dead or was sent its kill.
THEOREM StopEndsGuest == ASSUME NEW c, OneCaller(c) PROVE Spec => StopEndsItsGuest
<1>1. IInv /\ OneInv /\ [Next]_vars =>
        [\A t \in Threads :
             t \in inStop \ inStop' /\ chan[t] # NoProc
                => ~Alive(chan[t]) \/ chan[t] \in doomed']_vars
  <2> SUFFICES ASSUME IInv, OneInv, Next, NEW t \in Threads, t \in inStop, t \notin inStop',
                      chan[t] # NoProc
               PROVE  ~Alive(chan[t]) \/ chan[t] \in doomed'
    OBVIOUS
  <2> USE VMAssumption DEF OneCaller, manager, world, locals
  <2>1. StopSteps(t)
    <3>1. ASSUME NEW p \in Procs, Qemu(p) \/ WaitSteps(p) PROVE FALSE
      BY <3>1 DEF Qemu, Bind, Crash, PowerOff, Gone, WaitSteps, ExitIgnored, OnExit,
         CloseExited
    <3>2. ASSUME NEW a \in Actors, StartSteps(a) \/ DialFails(a) PROVE FALSE
      BY <3>2 DEF StartSteps, StartRefused, StartBegins, ChecksPass, ChecksFail, Fail,
         SpawnFails, Spawn, LaunchSeesExit, LaunchKills, LaunchReaps, PasswordSet,
         PasswordFails, Publish, DialFails
    <3>3. ASSUME NEW a \in Actors, NEW p \in Procs, DialConnects(a, p) PROVE FALSE
      BY <3>3 DEF DialConnects
    <3>4. ASSUME NEW m \in DOMAIN Entry, Call(t, m) PROVE FALSE
      BY <3>4 DEF Call
    <3> QED BY <3>1, <3>2, <3>3, <3>4 DEF Next
  <2>2. chan[t] \in Procs
    BY DEF IInv, TypeOK, MaybeProc
  <2>3. pc[t] \in {"stop", "shut1", "shut3", "grace", "force1", "force2", "force3"}
        /\ doomed' = doomed
    BY <2>1 DEF StopSteps, ShutdownClient, ShutdownMarks, PowerdownSent, PowerdownFails,
       ForceStopBegins, ForceStopKills, ForceStopTooLate, ForceStopReturns, StopBegins,
       StopSeesExit, StopGraceOver, ShutdownError, Return
  <2>4. CASE pc[t] = "force1"
    <3>1. cmd = NoProc
      BY <2>1, <2>4 DEF StopSteps, ShutdownClient, ShutdownMarks, PowerdownSent,
         PowerdownFails, ForceStopBegins, ForceStopKills, ForceStopTooLate,
         ForceStopReturns, StopBegins, StopSeesExit, StopGraceOver
    <3> QED BY <2>2, <2>4, <3>1 DEF OneInv, StopFollows
  <2>5. CASE pc[t] = "force2"
    <3>1. phase[proc[t]] \in Dead
      BY <2>1, <2>5 DEF StopSteps, ShutdownClient, ShutdownMarks, PowerdownSent,
         PowerdownFails, ForceStopBegins, ForceStopKills, ForceStopTooLate,
         ForceStopReturns, StopBegins, StopSeesExit, StopGraceOver
    <3> QED BY <2>5, <3>1 DEF IInv, ForceStopHolds, Alive, Dead
  <2>6. CASE pc[t] = "force3"
    BY <2>3, <2>6 DEF OneInv, StopFollows
  <2>7. CASE pc[t] = "grace"
    <3>1. pc[chan[t]] = "closed"
      BY <2>1, <2>7 DEF StopSteps, ShutdownClient, ShutdownMarks, PowerdownSent,
         PowerdownFails, ForceStopBegins, ForceStopKills, ForceStopTooLate,
         ForceStopReturns, StopBegins, StopSeesExit, StopGraceOver
    <3> QED BY <2>2, <3>1 DEF OneInv, WaitersOnly
  <2>8. CASE pc[t] \in {"shut1", "shut3"}
    BY <2>1, <2>8 DEF StopSteps, ShutdownClient, ShutdownMarks, PowerdownSent,
       PowerdownFails, ForceStopBegins, ForceStopKills, ForceStopTooLate,
       ForceStopReturns, StopBegins, StopSeesExit, StopGraceOver, ShutdownError
  <2>9. CASE pc[t] = "stop"
    BY <2>9 DEF OneInv, StopFollows
  <2> QED BY <2>3, <2>4, <2>5, <2>6, <2>7, <2>8, <2>9
<1>2. IInv /\ OneInv /\ [Next]_vars => OneInv'
  BY StepOneInv
<1> QED BY <1>1, <1>2, InitOneInv, VMInductive, PTL DEF Spec, StopEndsItsGuest
=============================================================================
