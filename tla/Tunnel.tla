-------------------------------- MODULE Tunnel --------------------------------
(***************************************************************************)
(* internal/tunnel.Manager: the supervisor of cloudflared.                 *)
(*                                                                         *)
(* A run is one goroutine that executes supervise, with the context that   *)
(* Start made for it and the process it has launched last.  Start leaves   *)
(* the mutex to call Stop, and Stop waits for a process but not for the    *)
(* run, so that an old run and a new one overlap.  Every critical section  *)
(* is one action, and so is every test of a context.                       *)
(***************************************************************************)
EXTENDS Naturals

CONSTANTS
    Starters,      \* goroutines that call Start: apiTunnel, one at a time
    Stoppers,      \* goroutines that call Stop: main
    Runs,          \* runs of supervise; one is used again once forgotten
    NoRun,         \* nil
    AutoDownload   \* cfg.AutoDownload

ASSUME TunnelAssumption ==
    /\ NoRun \notin Runs
    /\ AutoDownload \in BOOLEAN
    /\ Starters \cap Stoppers = {}

VARIABLES
    state,     \* Manager.state
    cancel,    \* Manager.cancel: the run whose context it cancels
    cmd,       \* Manager.cmd: the run whose process it is
    pc,        \* where each caller stands
    oldCancel, \* the local cancel of Stop
    oldCmd,    \* the local cmd of Stop
    at,        \* where each run stands
    cancelled, \* runs whose context is cancelled
    proc,      \* runs whose process is alive
    part,      \* the partly downloaded file exists
    binary     \* cloudflared can be found

manager == <<state, cancel, cmd>>
callers == <<pc, oldCancel, oldCmd>>
runs    == <<at, cancelled, proc>>
files   == <<part, binary>>
vars    == <<manager, callers, runs, files>>

Callers  == Starters \cup Stoppers
MaybeRun == Runs \cup {NoRun}
States   == {"disabled", "downloading", "starting", "connected", "error", "stopped"}
Ended    == {"unused", "done", "hung"}
RunPlaces == Ended \cup {"find", "request", "copying", "looping", "starting", "launched",
                         "scanning", "exited", "sayStopped", "sayRetry", "sayFailed",
                         "backoff"}

\* The cancel function that is stored has not been called yet.
TypeOK ==
    /\ state \in States
    /\ cancel \in MaybeRun /\ cmd \in MaybeRun
    /\ cancel # NoRun => cancel \notin cancelled
    /\ pc \in [Callers -> {"idle", "stop", "cancelling", "reaping", "stopped", "install"}]
    /\ oldCancel \in [Callers -> MaybeRun] /\ oldCmd \in [Callers -> MaybeRun]
    /\ at \in [Runs -> RunPlaces]
    /\ cancelled \in SUBSET Runs /\ proc \in SUBSET Runs
    /\ part \in BOOLEAN /\ binary \in BOOLEAN

Init ==
    /\ state = "disabled" /\ cancel = NoRun /\ cmd = NoRun
    /\ pc = [t \in Callers |-> "idle"]
    /\ oldCancel = [t \in Callers |-> NoRun] /\ oldCmd = [t \in Callers |-> NoRun]
    /\ at = [r \in Runs |-> "unused"]
    /\ cancelled = {} /\ proc = {}
    /\ part = FALSE /\ binary \in BOOLEAN

-----------------------------------------------------------------------------
(***************************************************************************)
(* Start and Stop, for caller t.                                           *)
(***************************************************************************)
\* A goroutine nobody refers to any more.
Forgotten(r) ==
    /\ at[r] \in Ended /\ r \notin proc
    /\ cmd # r /\ \A t \in Callers : r \notin {oldCmd[t], oldCancel[t]}

\* The critical section that ends Start, with sharing enabled or not.
Install(t) ==
    /\ pc' = [pc EXCEPT ![t] = "idle"]
    /\ \/ state' = "disabled" /\ UNCHANGED <<cancel, runs>>
       \/ \E r \in Runs :
             /\ Forgotten(r)
             /\ state' = "starting" /\ cancel' = r
             /\ at' = [at EXCEPT ![r] = "find"]
             /\ cancelled' = cancelled \ {r}
             /\ UNCHANGED proc
    /\ UNCHANGED <<cmd, oldCancel, oldCmd, files>>

\* Bug: the run that is there is not stopped.
StartBeside(t) == pc[t] = "idle" /\ Install(t)

\* Start: when there is a run, the mutex is left and Stop is called.
Start(t) ==
    /\ pc[t] = "idle"
    /\ IF cancel = NoRun
       THEN Install(t)
       ELSE /\ pc' = [pc EXCEPT ![t] = "stop"]
            /\ UNCHANGED <<manager, oldCancel, oldCmd, runs, files>>

\* Start goes on after Stop, and does not look at cancel again.
StartResumes(t) == pc[t] = "install" /\ Install(t)

StopCalled(t) ==
    /\ pc[t] = "idle"
    /\ pc' = [pc EXCEPT ![t] = "stop"]
    /\ UNCHANGED <<manager, oldCancel, oldCmd, runs, files>>

StopBegins(t) ==
    /\ pc[t] = "stop"
    /\ oldCancel' = [oldCancel EXCEPT ![t] = cancel]
    /\ oldCmd' = [oldCmd EXCEPT ![t] = cmd]
    /\ cancel' = NoRun /\ cmd' = NoRun
    /\ pc' = [pc EXCEPT ![t] = "cancelling"]
    /\ UNCHANGED <<state, runs, files>>

StopCancels(t) ==
    /\ pc[t] = "cancelling"
    /\ cancelled' = cancelled \cup ({oldCancel[t]} \ {NoRun})
    /\ oldCancel' = [oldCancel EXCEPT ![t] = NoRun]
    /\ pc' = [pc EXCEPT ![t] = "reaping"]
    /\ UNCHANGED <<manager, oldCmd, at, proc, files>>

\* The process has ended, or it is killed after 5 seconds.
StopReaps(t) ==
    /\ pc[t] = "reaping"
    /\ proc' = proc \ {oldCmd[t]}
    /\ oldCmd' = [oldCmd EXCEPT ![t] = NoRun]
    /\ pc' = [pc EXCEPT ![t] = "stopped"]
    /\ UNCHANGED <<manager, oldCancel, at, cancelled, files>>

\* setState(StateStopped), for Start or for the caller of Stop.
StopReturns(t) ==
    /\ pc[t] = "stopped"
    /\ state' = "stopped"
    /\ pc' = [pc EXCEPT ![t] = IF t \in Starters THEN "install" ELSE "idle"]
    /\ UNCHANGED <<cancel, cmd, oldCancel, oldCmd, runs, files>>

-----------------------------------------------------------------------------
(***************************************************************************)
(* supervise and runOnce, for run r.  A run goes from one place to another *)
(* with Goes; what it says is its call of setState.                        *)
(***************************************************************************)
Goes(r, from, to) == at[r] = from /\ at' = [at EXCEPT ![r] = to]

\* cloudflared is looked for in the configured, bundle and data directories.
Find(r) ==
    /\ \/ binary /\ Goes(r, "find", "looping") /\ UNCHANGED state
       \/ ~binary /\ ~AutoDownload /\ Goes(r, "find", "sayFailed") /\ UNCHANGED state
       \/ ~binary /\ AutoDownload /\ Goes(r, "find", "request") /\ state' = "downloading"
    /\ UNCHANGED <<cancel, cmd, callers, cancelled, proc, files>>

\* The answer of the download site: the partial file is opened, or an error.
Request(r) ==
    /\ \/ r \notin cancelled /\ Goes(r, "request", "copying") /\ part' = TRUE
       \/ Goes(r, "request", "sayFailed") /\ UNCHANGED part
    /\ UNCHANGED <<manager, callers, cancelled, proc, binary>>

\* io.Copy fails, because of the network or of the context: os.Remove.
CopyFails(r) ==
    /\ Goes(r, "copying", "sayFailed")
    /\ part' = FALSE
    /\ UNCHANGED <<manager, callers, cancelled, proc, binary>>

\* The partial file is renamed, when no other download has taken it away.
DownloadDone(r) ==
    /\ Goes(r, "copying", IF part THEN "looping" ELSE "sayFailed")
    /\ binary' = (binary \/ part)
    /\ part' = FALSE
    /\ UNCHANGED <<manager, callers, cancelled, proc>>

SayFailed(r) ==
    /\ Goes(r, "sayFailed", "done")
    /\ state' = "error"
    /\ UNCHANGED <<cancel, cmd, callers, cancelled, proc, files>>

\* The condition of the loop; a run that it ends says nothing.
Loop(r) ==
    /\ Goes(r, "looping", IF r \in cancelled THEN "done" ELSE "starting")
    /\ UNCHANGED <<manager, callers, cancelled, proc, files>>

\* cmd.Start, which refuses a context that is cancelled.
Launch(r) ==
    /\ \/ r \notin cancelled /\ Goes(r, "starting", "launched") /\ proc' = proc \cup {r}
       \/ Goes(r, "starting", "exited") /\ UNCHANGED proc
    /\ UNCHANGED <<manager, callers, cancelled, files>>

\* The process becomes the manager's, even when the run was stopped meanwhile.
Register(r) ==
    /\ Goes(r, "launched", "scanning")
    /\ cmd' = r /\ state' = "starting"
    /\ UNCHANGED <<cancel, callers, cancelled, proc, files>>

\* A line announces the tunnel; it may come from a process that has ended.
Report(r) ==
    /\ at[r] = "scanning"
    /\ state' = "connected"
    /\ UNCHANGED <<cancel, cmd, callers, runs, files>>

\* The output has ended and cmd.Wait returns.
RunEnds(r) ==
    /\ r \notin proc
    /\ Goes(r, "scanning", "exited")
    /\ UNCHANGED <<manager, callers, cancelled, proc, files>>

\* Stop waits for the same exec.Cmd: the two calls of Wait race, and the one
\* that finds the result taken waits for ever.
WaitHangs(r) ==
    /\ r \notin proc
    /\ \E t \in Callers : pc[t] = "reaping" /\ oldCmd[t] = r
    /\ Goes(r, "scanning", "hung")
    /\ UNCHANGED <<manager, callers, cancelled, proc, files>>

\* After runOnce, and while the run waits to try again.
AfterRun(r) ==
    /\ Goes(r, "exited", IF r \in cancelled THEN "sayStopped" ELSE "sayRetry")
    /\ UNCHANGED <<manager, callers, cancelled, proc, files>>

\* Bug: the run ends and leaves the state as it was.
SayNothing(r) ==
    /\ Goes(r, "sayStopped", "done")
    /\ UNCHANGED <<manager, callers, cancelled, proc, files>>

SayStopped(r) ==
    /\ Goes(r, "sayStopped", "done")
    /\ state' = "stopped"
    /\ UNCHANGED <<cancel, cmd, callers, cancelled, proc, files>>

SayRetry(r) ==
    /\ Goes(r, "sayRetry", "backoff")
    /\ state' = "error"
    /\ UNCHANGED <<cancel, cmd, callers, cancelled, proc, files>>

Backoff(r) ==
    /\ \/ Goes(r, "backoff", "looping")
       \/ r \in cancelled /\ Goes(r, "backoff", "sayStopped")
    /\ UNCHANGED <<manager, callers, cancelled, proc, files>>

\* cloudflared ends by itself.
ProcEnds(r) ==
    /\ r \in proc
    /\ proc' = proc \ {r}
    /\ UNCHANGED <<manager, callers, at, cancelled, files>>

\* Bug: exec.Command, which no context kills.
NoContext(r) == FALSE /\ UNCHANGED vars

\* exec.CommandContext kills the process of a context that is cancelled.
CtxKills(r) == r \in cancelled /\ ProcEnds(r)

-----------------------------------------------------------------------------
StartSteps(t) == Start(t) \/ StartResumes(t)
StopSteps(t)  == StopBegins(t) \/ StopCancels(t) \/ StopReaps(t) \/ StopReturns(t)
RunSteps(r)   == \/ Find(r) \/ Request(r) \/ CopyFails(r) \/ DownloadDone(r) \/ SayFailed(r)
                 \/ Loop(r) \/ Launch(r) \/ Register(r) \/ RunEnds(r) \/ WaitHangs(r)
                 \/ AfterRun(r) \/ SayStopped(r) \/ SayRetry(r) \/ Backoff(r)

Next ==
    \/ \E t \in Starters : StartSteps(t)
    \/ \E t \in Stoppers : StopCalled(t)
    \/ \E t \in Callers : StopSteps(t)
    \/ \E r \in Runs : RunSteps(r) \/ Report(r) \/ ProcEnds(r) \/ CtxKills(r)

\* Goroutines that can run do run, a download ends, timers fire and the
\* kernel kills.  Nobody has to call Start or Stop.
Fairness ==
    /\ \A t \in Callers : WF_vars(StopSteps(t))
    /\ \A t \in Starters : WF_vars(StartResumes(t))
    /\ \A r \in Runs : WF_vars(RunSteps(r)) /\ WF_vars(CtxKills(r))

Spec == Init /\ [][Next]_vars /\ Fairness

-----------------------------------------------------------------------------
(***************************************************************************)
(* Properties.                                                             *)
(***************************************************************************)
\* No supervisor is lost: one that is not cancelled can be cancelled by the
\* manager, or is in the hands of a Stop that is about to (Start and Stop).
OnlyCurrentRuns ==
    \A r \in Runs \ cancelled :
        at[r] \notin Ended => cancel = r \/ \E t \in Callers : oldCancel[t] = r

\* A run that is stopped ends its process and launches none after it, even
\* when Stop came between the launch and the registration of the process,
\* and found no process to wait for (exec.CommandContext in runOnce).
StoppedDies ==
    \A r \in Runs : r \in cancelled ~> (r \notin proc /\ at[r] \in Ended) \/ r \notin cancelled

\* With nothing to run, the page does not go on showing a tunnel that is
\* connected: what an old run reports late it takes back when it ends
\* (setState at the returns of supervise, against the one at the end of Stop).
NotShownConnected ==
    (cancel = NoRun /\ state = "connected") ~> (cancel # NoRun \/ state # "connected")
=============================================================================
