------------------------------ MODULE VMManager ------------------------------
(***************************************************************************)
(* internal/vm.Manager: the supervisor of the QEMU process.                *)
(*                                                                         *)
(* Threads are goroutines that call Start, Shutdown, ForceStop or Stop     *)
(* (API requests, main).  Each process p that launch spawns also has a     *)
(* goroutine, named p here, that waits for it, runs onExit and closes the  *)
(* exited channel of p; with RestartOnCrash that goroutine itself calls    *)
(* Start from onExit, before it closes the channel.  Every critical        *)
(* section of the manager's mutex is one action, and so is every blocking  *)
(* call between two of them.                                               *)
(*                                                                         *)
(* QEMU and its loopback ports are external: a process binds the QMP and   *)
(* VNC ports if no other process has them, serves one QMP client at a time *)
(* and may exit at any moment.                                             *)
(***************************************************************************)
EXTENDS Naturals

CONSTANTS
    Threads,         \* goroutines that call the manager
    Procs,           \* QEMU processes; one is used again once forgotten
    NoProc,          \* nil
    DialFailed,      \* DialQMP returned an error
    Accels,          \* number of accelerators: 2 with accel "auto", else 1
    RestartOnCrash   \* cfg.RestartOnCrash

ASSUME VMAssumption ==
    /\ Accels \in Nat \ {0}
    /\ RestartOnCrash \in BOOLEAN
    /\ \A t \in Threads : t \notin Procs
    /\ NoProc \notin Procs /\ DialFailed \notin Procs /\ NoProc # DialFailed

VARIABLES
    state,    \* Manager.state
    cmd,      \* Manager.cmd: the published process
    qmp,      \* Manager.qmp and vncPassword: the process they belong to
    exited,   \* Manager.exited: the channel of which process
    stopping, \* Manager.stopping
    phase,    \* what each process is doing
    doomed,   \* processes that were sent a kill
    client,   \* the QMP slot of the process is taken
    pc,       \* where each goroutine stands
    inStop,   \* threads inside Stop, which calls Shutdown and ForceStop
    try,      \* index of the accelerator in Start's loop
    proc,     \* the local cmd of launch and ForceStop
    chan,     \* the local exited of ForceStop and Stop
    dial      \* what DialQMP has given to launch; the local q of Shutdown

manager == <<state, cmd, qmp, exited, stopping>>
world   == <<phase, doomed, client>>
locals  == <<inStop, try, proc, chan, dial>>
vars    == <<manager, world, pc, locals>>

Actors == Threads \cup Procs
MaybeProc == Procs \cup {NoProc}

States == {"stopped", "starting", "running", "stopping", "crashed"}
Dead   == {"clean", "crashed", "reaped"}
Alive(p) == phase[p] \in {"booting", "listening"}

StartPCs  == {"begin", "check", "spawn", "dialing", "reap", "publish", "failing"}
ThreadPCs == {"idle", "stop", "shut1", "shut2", "shut3", "grace",
              "force1", "force2", "force3"} \cup StartPCs
ProcPCs   == {"none", "waiting", "closing", "closed"} \cup StartPCs

TypeOK ==
    /\ state \in States
    /\ cmd \in MaybeProc /\ qmp \in MaybeProc /\ exited \in MaybeProc
    /\ stopping \in BOOLEAN
    /\ phase \in [Procs -> {"unborn", "booting", "listening"} \cup Dead]
    /\ doomed \in SUBSET Procs
    /\ client \in [Procs -> BOOLEAN]
    /\ pc \in [Actors -> ThreadPCs \cup ProcPCs]
    /\ inStop \in SUBSET Threads
    /\ try \in [Actors -> 1 .. Accels]
    /\ proc \in [Actors -> MaybeProc]
    /\ chan \in [Threads -> MaybeProc]
    /\ dial \in [Actors -> MaybeProc \cup {DialFailed}]

Init ==
    /\ state = "stopped" /\ stopping = FALSE
    /\ cmd = NoProc /\ qmp = NoProc /\ exited = NoProc
    /\ phase = [p \in Procs |-> "unborn"]
    /\ doomed = {}
    /\ client = [p \in Procs |-> FALSE]
    /\ pc = [a \in Actors |-> IF a \in Threads THEN "idle" ELSE "none"]
    /\ inStop = {}
    /\ try = [a \in Actors |-> 1]
    /\ proc = [a \in Actors |-> NoProc]
    /\ chan = [t \in Threads |-> NoProc]
    /\ dial = [a \in Actors |-> NoProc]

-----------------------------------------------------------------------------
(***************************************************************************)
(* QEMU, as launch, DialQMP and Kill use it.                               *)
(***************************************************************************)
PortsTaken == \E p \in Procs : phase[p] = "listening"

\* A second process that finds the ports taken can only exit.
Bind(p) ==
    /\ phase[p] = "booting" /\ p \notin doomed /\ ~PortsTaken
    /\ phase' = [phase EXCEPT ![p] = "listening"]
    /\ UNCHANGED <<manager, doomed, client, pc, locals>>

\* The process ends, and with it its connections.
Gone(p, how) ==
    /\ phase' = [phase EXCEPT ![p] = how]
    /\ doomed' = doomed \ {p}
    /\ client' = [client EXCEPT ![p] = FALSE]
    /\ UNCHANGED <<manager, pc, locals>>

Crash(p) ==
    /\ Alive(p)
    /\ Gone(p, "crashed")

\* The guest powers off; QEMU exits with status 0.
PowerOff(p) ==
    /\ phase[p] = "listening" /\ p \notin doomed
    /\ Gone(p, "clean")

Kill(p) == doomed' = IF Alive(p) THEN doomed \cup {p} ELSE doomed

\* No variable refers to p any more, so its name can stand for a new process.
Forgotten(p) ==
    /\ pc[p] \in {"none", "closed"}
    /\ p \notin {cmd, qmp, exited}
    /\ \A a \in Actors : p \notin {proc[a], dial[a]}
    /\ \A t \in Threads : chan[t] # p

-----------------------------------------------------------------------------
(***************************************************************************)
(* Start and launch, for a thread or for the goroutine of a process.       *)
(***************************************************************************)
Returned(a) == IF a \in Threads THEN "idle" ELSE "closing"

\* Start returns to its caller; its locals are gone.
Finish(a) ==
    /\ pc' = [pc EXCEPT ![a] = Returned(a)]
    /\ try' = [try EXCEPT ![a] = 1]
    /\ proc' = [proc EXCEPT ![a] = NoProc]
    /\ dial' = [dial EXCEPT ![a] = NoProc]

\* Bug: the last accelerator is never tried.
NextAccelTooFew(a) ==
    /\ IF try[a] + 1 < Accels
       THEN /\ try' = [try EXCEPT ![a] = try[a] + 1]
            /\ pc' = [pc EXCEPT ![a] = "spawn"]
       ELSE /\ UNCHANGED try
            /\ pc' = [pc EXCEPT ![a] = "failing"]
    /\ proc' = [proc EXCEPT ![a] = NoProc]
    /\ dial' = [dial EXCEPT ![a] = NoProc]

\* launch returned an error: the next accelerator, or fail(lastErr).
NextAccel(a) ==
    /\ IF try[a] < Accels
       THEN /\ try' = [try EXCEPT ![a] = try[a] + 1]
            /\ pc' = [pc EXCEPT ![a] = "spawn"]
       ELSE /\ UNCHANGED try
            /\ pc' = [pc EXCEPT ![a] = "failing"]
    /\ proc' = [proc EXCEPT ![a] = NoProc]
    /\ dial' = [dial EXCEPT ![a] = NoProc]

StartRefused(a) ==
    /\ pc[a] = "begin" /\ state \in {"running", "starting"}
    /\ pc' = [pc EXCEPT ![a] = Returned(a)]
    /\ UNCHANGED <<manager, world, locals>>

StartBegins(a) ==
    /\ pc[a] = "begin" /\ state \notin {"running", "starting"}
    /\ state' = "starting" /\ stopping' = FALSE
    /\ pc' = [pc EXCEPT ![a] = "check"]
    /\ UNCHANGED <<cmd, qmp, exited, world, locals>>

\* Bug: the ports are not probed.
ChecksPassUnprobed(a) ==
    /\ pc[a] = "check"
    /\ pc' = [pc EXCEPT ![a] = "spawn"]
    /\ UNCHANGED <<manager, world, locals>>

\* The disk image and the binary are there, and portFree finds both ports free.
ChecksPass(a) ==
    /\ pc[a] = "check" /\ ~PortsTaken
    /\ pc' = [pc EXCEPT ![a] = "spawn"]
    /\ UNCHANGED <<manager, world, locals>>

\* One of them is missing, or a port is taken, by QEMU or another program.
ChecksFail(a) ==
    /\ pc[a] = "check"
    /\ pc' = [pc EXCEPT ![a] = "failing"]
    /\ UNCHANGED <<manager, world, locals>>

\* fail(err)
Fail(a) ==
    /\ pc[a] = "failing"
    /\ state' = "stopped"
    /\ Finish(a)
    /\ UNCHANGED <<cmd, qmp, exited, stopping, world, inStop, chan>>

\* cmd.Start() succeeds; the goroutines for Wait and DialQMP are started.
Spawn(a, p) ==
    /\ pc[a] = "spawn" /\ Forgotten(p) /\ p # a
    /\ phase' = [phase EXCEPT ![p] = "booting"]
    /\ pc' = [pc EXCEPT ![a] = "dialing", ![p] = "waiting"]
    /\ proc' = [proc EXCEPT ![a] = p]
    /\ UNCHANGED <<manager, doomed, client, inStop, try, chan, dial>>

SpawnFails(a) ==
    /\ pc[a] = "spawn"
    /\ NextAccel(a)
    /\ UNCHANGED <<manager, world, inStop, chan>>

\* DialQMP reaches whatever process has the port and no client yet.
DialConnects(a, p) ==
    /\ pc[a] = "dialing" /\ dial[a] = NoProc
    /\ phase[p] = "listening" /\ p \notin doomed /\ ~client[p]
    /\ dial' = [dial EXCEPT ![a] = p]
    /\ client' = [client EXCEPT ![p] = TRUE]
    /\ UNCHANGED <<manager, phase, doomed, pc, inStop, try, proc, chan>>

\* Refused or unanswered until dialCtx expires, or the greeting fails.
DialFails(a) ==
    /\ pc[a] = "dialing" /\ dial[a] = NoProc
    /\ dial' = [dial EXCEPT ![a] = DialFailed]
    /\ UNCHANGED <<manager, world, pc, inStop, try, proc, chan>>

\* select: case <-exited
LaunchSeesExit(a) ==
    /\ pc[a] = "dialing" /\ pc[proc[a]] = "closed"
    /\ NextAccel(a)
    /\ UNCHANGED <<manager, world, inStop, chan>>

\* Bug: a dial that timed out moves on, and the process is not killed.
LaunchAbandons(a) ==
    /\ pc[a] = "dialing" /\ dial[a] = DialFailed
    /\ NextAccel(a)
    /\ UNCHANGED <<manager, world, inStop, chan>>

\* Bug: a dial that timed out waits for a process it has not killed.
LaunchWaitsOnly(a) ==
    /\ pc[a] = "dialing" /\ dial[a] = DialFailed
    /\ pc' = [pc EXCEPT ![a] = "reap"]
    /\ UNCHANGED <<manager, world, locals>>

\* select: case err := <-qmpDone, with an error: Kill, then wait for exited.
LaunchKills(a) ==
    /\ pc[a] = "dialing" /\ dial[a] = DialFailed
    /\ Kill(proc[a])
    /\ pc' = [pc EXCEPT ![a] = "reap"]
    /\ UNCHANGED <<manager, phase, client, locals>>

LaunchReaps(a) ==
    /\ pc[a] = "reap" /\ pc[proc[a]] = "closed"
    /\ NextAccel(a)
    /\ UNCHANGED <<manager, world, inStop, chan>>

\* select: case <-qmpDone without error, and set_password is answered.
PasswordSet(a) ==
    /\ pc[a] = "dialing" /\ dial[a] \in Procs
    /\ phase[dial[a]] = "listening" /\ dial[a] \notin doomed
    /\ pc' = [pc EXCEPT ![a] = "publish"]
    /\ UNCHANGED <<manager, world, locals>>

\* set_password fails (the connection is lost, or ctx is done): the process is
\* killed and launch returns without waiting for it.
PasswordFails(a) ==
    /\ pc[a] = "dialing" /\ dial[a] \in Procs
    /\ Kill(proc[a])
    /\ NextAccel(a)
    /\ UNCHANGED <<manager, phase, client, inStop, chan>>

Publish(a) ==
    /\ pc[a] = "publish"
    /\ cmd' = proc[a] /\ qmp' = dial[a] /\ exited' = proc[a]
    /\ state' = "running"
    /\ Finish(a)
    /\ UNCHANGED <<stopping, world, inStop, chan>>

-----------------------------------------------------------------------------
(***************************************************************************)
(* The goroutine of process p: Wait, onExit, close(exited).                *)
(***************************************************************************)
\* onExit of a process other than the published one.
ExitIgnored(p) ==
    /\ pc[p] = "waiting" /\ phase[p] \in Dead
    /\ cmd \notin {p, NoProc}
    /\ phase' = [phase EXCEPT ![p] = "reaped"]
    /\ pc' = [pc EXCEPT ![p] = "closing"]
    /\ UNCHANGED <<manager, doomed, client, locals>>

\* Bug: onExit keeps m.qmp and m.vncPassword.
OnExitKeepsQMP(p) ==
    /\ pc[p] = "waiting" /\ phase[p] \in Dead
    /\ cmd \in {p, NoProc}
    /\ cmd' = NoProc
    /\ client' = [q \in Procs |-> client[q] /\ q # qmp]
    /\ LET crash == ~stopping /\ phase[p] = "crashed" IN
       /\ state' = IF crash THEN "crashed" ELSE "stopped"
       /\ pc' = [pc EXCEPT ![p] = IF crash /\ RestartOnCrash THEN "begin" ELSE "closing"]
    /\ phase' = [phase EXCEPT ![p] = "reaped"]
    /\ UNCHANGED <<qmp, exited, stopping, doomed, locals>>

\* Bug: onExit does not compare m.cmd with the process that exited.
OnExitOfAny(p) ==
    /\ pc[p] = "waiting" /\ phase[p] \in Dead
    /\ cmd' = NoProc /\ qmp' = NoProc
    /\ client' = [q \in Procs |-> client[q] /\ q # qmp]
    /\ LET crash == ~stopping /\ phase[p] = "crashed" IN
       /\ state' = IF crash THEN "crashed" ELSE "stopped"
       /\ pc' = [pc EXCEPT ![p] = IF crash /\ RestartOnCrash THEN "begin" ELSE "closing"]
    /\ phase' = [phase EXCEPT ![p] = "reaped"]
    /\ UNCHANGED <<exited, stopping, doomed, locals>>

\* onExit of the published process, or of any process while none is published.
\* The QMP connection is closed and the process at its other end gets its slot
\* back.
OnExit(p) ==
    /\ pc[p] = "waiting" /\ phase[p] \in Dead
    /\ cmd \in {p, NoProc}
    /\ cmd' = NoProc /\ qmp' = NoProc
    /\ client' = [q \in Procs |-> client[q] /\ q # qmp]
    /\ LET crash == ~stopping /\ phase[p] = "crashed" IN
       /\ state' = IF crash THEN "crashed" ELSE "stopped"
       /\ pc' = [pc EXCEPT ![p] = IF crash /\ RestartOnCrash THEN "begin" ELSE "closing"]
    /\ phase' = [phase EXCEPT ![p] = "reaped"]
    /\ UNCHANGED <<exited, stopping, doomed, locals>>

CloseExited(p) ==
    /\ pc[p] = "closing"
    /\ pc' = [pc EXCEPT ![p] = "closed"]
    /\ UNCHANGED <<manager, world, locals>>

-----------------------------------------------------------------------------
(***************************************************************************)
(* Shutdown, ForceStop and Stop, for thread t.                             *)
(***************************************************************************)
Entry == [start |-> "begin", shutdown |-> "shut1", force |-> "force1", stop |-> "stop"]

Call(t, m) ==
    /\ pc[t] = "idle"
    /\ pc' = [pc EXCEPT ![t] = Entry[m]]
    /\ inStop' = IF m = "stop" THEN inStop \cup {t} ELSE inStop
    /\ UNCHANGED <<manager, world, try, proc, chan, dial>>

\* The method returns; its locals are gone.
Return(t) ==
    /\ pc' = [pc EXCEPT ![t] = "idle"]
    /\ inStop' = inStop \ {t}
    /\ proc' = [proc EXCEPT ![t] = NoProc]
    /\ chan' = [chan EXCEPT ![t] = NoProc]
    /\ dial' = [dial EXCEPT ![t] = NoProc]

\* Shutdown failed: Stop goes on to ForceStop, Shutdown itself returns.
ShutdownError(t) ==
    IF t \in inStop
    THEN /\ pc' = [pc EXCEPT ![t] = "force1"]
         /\ dial' = [dial EXCEPT ![t] = NoProc]
         /\ UNCHANGED <<inStop, proc, chan>>
    ELSE Return(t)

\* qmpClient()
ShutdownClient(t) ==
    /\ pc[t] = "shut1"
    /\ IF state = "running" /\ qmp # NoProc
       THEN /\ dial' = [dial EXCEPT ![t] = qmp]
            /\ pc' = [pc EXCEPT ![t] = "shut2"]
            /\ UNCHANGED <<inStop, proc, chan>>
       ELSE ShutdownError(t)
    /\ UNCHANGED <<manager, world, try>>

\* The second critical section, after the first was left.
ShutdownMarks(t) ==
    /\ pc[t] = "shut2"
    /\ stopping' = TRUE /\ state' = "stopping"
    /\ pc' = [pc EXCEPT ![t] = "shut3"]
    /\ UNCHANGED <<cmd, qmp, exited, world, locals>>

\* system_powerdown is answered; the guest may or may not heed it.
PowerdownSent(t) ==
    /\ pc[t] = "shut3"
    /\ phase[dial[t]] = "listening" /\ dial[t] \notin doomed
    /\ IF t \in inStop
       THEN /\ pc' = [pc EXCEPT ![t] = "grace"]
            /\ dial' = [dial EXCEPT ![t] = NoProc]
            /\ UNCHANGED <<inStop, proc, chan>>
       ELSE Return(t)
    /\ UNCHANGED <<manager, world, try>>

\* The connection is lost, QEMU answers with an error, or ctx is done.
PowerdownFails(t) ==
    /\ pc[t] = "shut3"
    /\ ShutdownError(t)
    /\ UNCHANGED <<manager, world, try>>

ForceStopBegins(t) ==
    /\ pc[t] = "force1"
    /\ IF cmd = NoProc
       THEN /\ Return(t)
            /\ UNCHANGED <<state, stopping>>
       ELSE /\ pc' = [pc EXCEPT ![t] = "force2"]
            /\ proc' = [proc EXCEPT ![t] = cmd]
            /\ chan' = [chan EXCEPT ![t] = exited]
            /\ state' = "stopping" /\ stopping' = TRUE
            /\ UNCHANGED <<inStop, dial>>
    /\ UNCHANGED <<cmd, qmp, exited, world, try>>

ForceStopKills(t) ==
    /\ pc[t] = "force2"
    /\ Kill(proc[t])
    /\ pc' = [pc EXCEPT ![t] = "force3"]
    /\ UNCHANGED <<manager, phase, client, locals>>

\* Kill reports that the process has already finished.
ForceStopTooLate(t) ==
    /\ pc[t] = "force2" /\ phase[proc[t]] \in Dead
    /\ Return(t)
    /\ UNCHANGED <<manager, world, try>>

\* The exited channel is closed, or 10 seconds have passed.
ForceStopReturns(t) ==
    /\ pc[t] = "force3"
    /\ Return(t)
    /\ UNCHANGED <<manager, world, try>>

StopBegins(t) ==
    /\ pc[t] = "stop"
    /\ IF state = "running"
       THEN /\ chan' = [chan EXCEPT ![t] = exited]
            /\ pc' = [pc EXCEPT ![t] = "shut1"]
            /\ UNCHANGED <<inStop, proc, dial>>
       ELSE Return(t)
    /\ UNCHANGED <<manager, world, try>>

StopSeesExit(t) ==
    /\ pc[t] = "grace" /\ pc[chan[t]] = "closed"
    /\ Return(t)
    /\ UNCHANGED <<manager, world, try>>

\* Bug: the guest is not killed.
StopGraceIgnored(t) ==
    /\ pc[t] = "grace"
    /\ Return(t)
    /\ UNCHANGED <<manager, world, try>>

StopGraceOver(t) ==
    /\ pc[t] = "grace"
    /\ pc' = [pc EXCEPT ![t] = "force1"]
    /\ UNCHANGED <<manager, world, locals>>

-----------------------------------------------------------------------------
\* The steps of Start that wait for nothing but the scheduler, a timeout or the
\* close of a channel.
StartSteps(a) ==
    \/ StartRefused(a) \/ StartBegins(a) \/ ChecksPass(a) \/ ChecksFail(a)
    \/ Fail(a) \/ SpawnFails(a) \/ (\E p \in Procs : Spawn(a, p))
    \/ LaunchSeesExit(a) \/ LaunchKills(a) \/ LaunchReaps(a)
    \/ PasswordSet(a) \/ PasswordFails(a) \/ Publish(a)

StopSteps(t) ==
    \/ ShutdownClient(t) \/ ShutdownMarks(t) \/ PowerdownSent(t) \/ PowerdownFails(t)
    \/ ForceStopBegins(t) \/ ForceStopKills(t) \/ ForceStopTooLate(t)
    \/ ForceStopReturns(t)
    \/ StopBegins(t) \/ StopSeesExit(t) \/ StopGraceOver(t)

WaitSteps(p) == ExitIgnored(p) \/ OnExit(p) \/ CloseExited(p)

Qemu(p) == Bind(p) \/ Crash(p) \/ PowerOff(p)

Next ==
    \/ \E p \in Procs : Qemu(p) \/ WaitSteps(p)
    \/ \E a \in Actors : StartSteps(a) \/ DialFails(a)
    \/ \E a \in Actors, p \in Procs : DialConnects(a, p)
    \/ \E t \in Threads : StopSteps(t)
    \/ \E t \in Threads, m \in DOMAIN Entry : Call(t, m)

Spec == Init /\ [][Next]_vars

\* Goroutines are scheduled, DialQMP gives up after 20 seconds, QEMU answers or
\* drops its connection, and a killed process dies.  Nothing is assumed of a
\* guest, nor that anybody calls the manager.
Fairness ==
    /\ \A a \in Actors : WF_vars(StartSteps(a)) /\ WF_vars(DialFails(a))
    /\ \A t \in Threads : WF_vars(StopSteps(t))
    /\ \A p \in Procs : WF_vars(WaitSteps(p)) /\ WF_vars(p \in doomed /\ Crash(p))

FairSpec == Spec /\ Fairness

-----------------------------------------------------------------------------
(***************************************************************************)
(* Properties that hold for any number of callers.                         *)
(***************************************************************************)

\* The published process, its QMP client with the VNC password and its exited
\* channel come and go together, and the state "running" is never shown without
\* them: VNCCredentials never hands out an empty password.
RunningHasGuest ==
    /\ state = "running" => cmd # NoProc
    /\ cmd = NoProc <=> qmp = NoProc
    /\ cmd # NoProc => exited = cmd

\* The exit of one QEMU never erases the record of another: while several
\* processes are launched and die, the published one is forgotten only when it
\* is dead itself, or replaced by a later Start.
OnlyOwnExitErases == [][cmd # NoProc /\ cmd' = NoProc => phase[cmd] \in Dead]_vars

\* A caller of ForceStop waits for the very process it killed.
ForceStopOwnChannel ==
    \A t \in Threads : pc[t] \in {"force2", "force3"} => chan[t] = proc[t]

(***************************************************************************)
(* Properties that hold for one caller at a time without RestartOnCrash.   *)
(***************************************************************************)

\* Package comment: the manager "supervises a single QEMU guest".  A process that
\* has been sent a kill may still be dying beside the next one.
SingleGuest == \A p, q \in Procs : Alive(p) /\ Alive(q) => p = q \/ {p, q} \cap doomed # {}

\* The QMP client and the VNC password belong to the process they are published
\* with, although DialQMP connects to whoever has the port.
QmpMatchesCmd == cmd # NoProc => qmp = cmd

\* Stop "force-kills it if it is still running after the grace period": a Stop that
\* found the guest running returns only when that guest is dead or was killed,
\* whether the guest heeds the power button, ignores it, dies or drops QMP.
StopEndsItsGuest ==
    [][\A t \in Threads :
         t \in inStop \ inStop' /\ chan[t] # NoProc
            => ~Alive(chan[t]) \/ chan[t] \in doomed']_vars

\* If QEMU exits early under one accelerator, Start goes on to the next.
FallbackTried ==
    \A t \in Threads :
        (pc[t] = "dialing" /\ phase[proc[t]] \in Dead /\ try[t] < Accels)
            ~> (try[t] > 1)

\* Start returns, whatever QEMU does.
StartReturns == \A t \in Threads : (pc[t] \in StartPCs) ~> (pc[t] = "idle")
=============================================================================
