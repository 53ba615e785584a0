---------------------------- MODULE TunnelProofs ----------------------------
(***************************************************************************)
(* The type invariant of Tunnel and OnlyCurrentRuns, for any number of     *)
(* runs and of goroutines that call Stop, when one goroutine at a time     *)
(* calls Start, as the settings API does.                                  *)
(***************************************************************************)
EXTENDS Tunnel, TLAPS

\* The configuration lock makes the callers of Start one (apiTunnel).
OneStarter == \A a, b \in Starters : a = b

\* Stop holds a cancel function only between its critical section and the call.
HeldWhileCancelling == \A t \in Callers : pc[t] # "cancelling" => oldCancel[t] = NoRun

\* A run that Stop holds is not the manager's any more.
TakenOnce == \A t \in Callers : oldCancel[t] = NoRun \/ oldCancel[t] # cancel

\* Between its two critical sections, Start finds no run of another caller.
GapIsEmpty ==
    \A t \in Starters : pc[t] \in {"cancelling", "reaping", "stopped", "install"} => cancel = NoRun

IInv == TypeOK /\ HeldWhileCancelling /\ TakenOnce /\ GapIsEmpty /\ OnlyCurrentRuns

-----------------------------------------------------------------------------
LEMMA InitIInv == Init => IInv
BY TunnelAssumption DEF Init, IInv, TypeOK, HeldWhileCancelling, TakenOnce, GapIsEmpty,
   OnlyCurrentRuns, States, MaybeRun, RunPlaces, Ended, Callers

\* Starting a run keeps the invariant, when there is none.
LEMMA InstallIInv ==
    ASSUME IInv, OneStarter, NEW t \in Starters, pc[t] \in {"idle", "install"},
           cancel = NoRun, Install(t)
    PROVE  IInv'
<1>. USE TunnelAssumption DEF Callers, MaybeRun
<1>1. TypeOK'
  BY DEF IInv, TypeOK, Install, States, RunPlaces, Ended, runs, files
<1>2. HeldWhileCancelling' /\ TakenOnce'
  BY DEF IInv, TypeOK, HeldWhileCancelling, TakenOnce, Install, Forgotten
<1>3. GapIsEmpty'
  BY DEF IInv, TypeOK, GapIsEmpty, Install, OneStarter
<1>4. OnlyCurrentRuns'
  BY DEF IInv, TypeOK, OnlyCurrentRuns, Install, runs
<1>. QED  BY <1>1, <1>2, <1>3, <1>4 DEF IInv

\* The steps of the callers.
LEMMA CallersIInv ==
    ASSUME IInv, OneStarter,
           \/ \E t \in Starters : StartSteps(t)
           \/ \E t \in Stoppers : StopCalled(t)
           \/ \E t \in Callers : StopSteps(t)
    PROVE  IInv'
<1>. USE TunnelAssumption DEF Callers, MaybeRun, manager, runs, files
<1>1. ASSUME NEW t \in Starters, Start(t)  PROVE IInv'
  <2>1. CASE cancel = NoRun
    BY <1>1, <2>1, InstallIInv DEF Start
  <2>2. CASE cancel # NoRun
    BY <1>1, <2>2 DEF Start, IInv, TypeOK, HeldWhileCancelling, TakenOnce, GapIsEmpty,
       OnlyCurrentRuns
  <2>. QED  BY <2>1, <2>2
<1>2. ASSUME NEW t \in Starters, StartResumes(t)  PROVE IInv'
  BY <1>2, InstallIInv DEF StartResumes, IInv, GapIsEmpty
<1>3. ASSUME NEW t \in Stoppers, StopCalled(t)  PROVE IInv'
  BY <1>3 DEF StopCalled, IInv, TypeOK, HeldWhileCancelling, TakenOnce, GapIsEmpty,
     OnlyCurrentRuns
<1>4. ASSUME NEW t \in Callers, StopBegins(t)  PROVE IInv'
  BY <1>4 DEF StopBegins, IInv, TypeOK, HeldWhileCancelling, TakenOnce, GapIsEmpty,
     OnlyCurrentRuns
<1>5. ASSUME NEW t \in Callers, StopCancels(t)  PROVE IInv'
  BY <1>5 DEF StopCancels, IInv, TypeOK, HeldWhileCancelling, TakenOnce, GapIsEmpty,
     OnlyCurrentRuns
<1>6. ASSUME NEW t \in Callers, StopReaps(t)  PROVE IInv'
  BY <1>6 DEF StopReaps, IInv, TypeOK, HeldWhileCancelling, TakenOnce, GapIsEmpty,
     OnlyCurrentRuns
<1>7. ASSUME NEW t \in Callers, StopReturns(t)  PROVE IInv'
  BY <1>7 DEF StopReturns, IInv, TypeOK, HeldWhileCancelling, TakenOnce, GapIsEmpty,
     OnlyCurrentRuns, States
<1>. QED  BY <1>1, <1>2, <1>3, <1>4, <1>5, <1>6, <1>7 DEF StartSteps, StopSteps

\* The steps of a run leave the callers and the contexts alone, and a run
\* that has ended does not come back.
LEMMA RunsIInv ==
    ASSUME IInv, NEW r \in Runs, RunSteps(r) \/ Report(r) \/ ProcEnds(r) \/ CtxKills(r)
    PROVE  IInv'
<1>. USE DEF callers, runs, files, manager
<1>1. UNCHANGED <<cancel, callers, cancelled>>
  BY DEF RunSteps, Find, Request, CopyFails, DownloadDone, SayFailed, Loop, Launch, Register,
     RunEnds, WaitHangs, AfterRun, SayStopped, SayRetry, Backoff, Report, ProcEnds, CtxKills
<1>2. \/ at' = at
      \/ at[r] \notin Ended /\ \E to \in RunPlaces : at' = [at EXCEPT ![r] = to]
  BY DEF Goes, RunPlaces, Ended, RunSteps, Find, Request, CopyFails, DownloadDone, SayFailed,
     Loop, Launch, Register, RunEnds, WaitHangs, AfterRun, SayStopped, SayRetry, Backoff,
     Report, ProcEnds, CtxKills
<1>3. state' \in States /\ cmd' \in MaybeRun /\ proc' \in SUBSET Runs
      /\ part' \in BOOLEAN /\ binary' \in BOOLEAN
  BY DEF IInv, TypeOK, States, MaybeRun, RunSteps, Find, Request, CopyFails, DownloadDone,
     SayFailed, Loop, Launch, Register, RunEnds, WaitHangs, AfterRun, SayStopped, SayRetry,
     Backoff, Report, ProcEnds, CtxKills
<1>4. TypeOK'
  BY <1>1, <1>2, <1>3 DEF IInv, TypeOK
<1>5. HeldWhileCancelling' /\ TakenOnce' /\ GapIsEmpty'
  BY <1>1 DEF IInv, HeldWhileCancelling, TakenOnce, GapIsEmpty
<1>6. OnlyCurrentRuns'
  BY <1>1, <1>2 DEF IInv, TypeOK, OnlyCurrentRuns
<1>. QED  BY <1>4, <1>5, <1>6 DEF IInv

LEMMA NextIInv == ASSUME IInv, OneStarter, [Next]_vars PROVE IInv'
<1>1. CASE UNCHANGED vars
  BY <1>1 DEF vars, manager, callers, runs, files, IInv, TypeOK, HeldWhileCancelling,
     TakenOnce, GapIsEmpty, OnlyCurrentRuns
<1>2. CASE Next
  BY <1>2, CallersIInv, RunsIInv DEF Next
<1>. QED  BY <1>1, <1>2

-----------------------------------------------------------------------------
\* With one caller of Start, every variable keeps its type, and the cancel
\* function that is stored was never called (Start, Stop).
THEOREM TunnelTypeCorrect == ASSUME OneStarter PROVE Spec => []TypeOK
<1>1. Init => IInv
  BY InitIInv
<1>2. IInv /\ [Next]_vars => IInv'
  BY NextIInv
<1>3. IInv => TypeOK
  BY DEF IInv
<1>. QED  BY <1>1, <1>2, <1>3, PTL DEF Spec

\* With one caller of Start, no supervisor is ever lost: whoever is not
\* cancelled can be, however many goroutines call Stop meanwhile.
THEOREM NoRunIsLost == ASSUME OneStarter PROVE Spec => []OnlyCurrentRuns
<1>1. Init => IInv
  BY InitIInv
<1>2. IInv /\ [Next]_vars => IInv'
  BY NextIInv
<1>3. IInv => OnlyCurrentRuns
  BY DEF IInv
<1>. QED  BY <1>1, <1>2, <1>3, PTL DEF Spec
=============================================================================
