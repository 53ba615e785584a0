-------------------------- MODULE ControlSeatProofs --------------------------
(***************************************************************************)
(* Theorems about ControlSeat, for every set of sessions and every finite  *)
(* set of connections.                                                     *)
(***************************************************************************)
EXTENDS ControlSeat, FiniteSetTheorems, TLAPS

\* A handler that has been given a session was given one that exists; one that
\* has not begun has none, and nobody has cancelled its context.
HandlersStarted ==
    \A c \in Conns : /\ pc[c] # "unused" => sess[c] \in Sessions
                     /\ pc[c] \in {"unused", "upgraded"} => ~cancelled[c]

\* The inductive invariant: SeatCancelLive is preserved by Acquire only because
\* the context of a handler that has not acquired yet is not cancelled, and
\* viewers stays a natural number only because it counts its handlers exactly.
IInv == TypeOK /\ HandlersStarted /\ SeatCancelLive /\ ViewersExact

-----------------------------------------------------------------------------
\* Every action keeps the session table well typed.
LEMMA StatusType ==
    ASSUME SL!TypeOK,
           NEW s \in Sessions,
           SL!Login(s) \/ SL!Age \/ SL!Touch(s) \/ SL!Seen(s) \/ SL!Delete(s)
    PROVE  SL!TypeOK'
BY DEF SL!TypeOK, SL!Statuses, SL!Login, SL!Age, SL!Touch, SL!Seen, SL!Delete

\* The set of viewing handlers is finite, and its size is a natural number.
LEMMA ViewingFinite == IsFiniteSet(Viewing) /\ Cardinality(Viewing) \in Nat
<1>1. IsFiniteSet(Viewing)
  BY SeatAssumption, FS_Subset DEF Viewing
<1> QED BY <1>1, FS_CardinalityType

\* A step that changes neither who is inside the bridge nor who is view-only
\* leaves the count exact.
LEMMA CountSame ==
    ASSUME ViewersExact, viewers' = viewers,
           \A c \in Conns : (pc'[c] \in Inside /\ viewOnly'[c])
                                <=> (pc[c] \in Inside /\ viewOnly[c])
    PROVE  ViewersExact'
<1>1. Viewing' = Viewing
  BY DEF Viewing
<1> QED BY <1>1 DEF ViewersExact

\* addViewer(1) by a handler that was not counted keeps the count exact.
LEMMA CountUp ==
    ASSUME ViewersExact, viewers' = viewers + 1, NEW c \in Conns,
           c \notin Viewing, Viewing' = Viewing \cup {c}
    PROVE  ViewersExact' /\ viewers' \in Nat
<1>1. Cardinality(Viewing') = Cardinality(Viewing) + 1
  BY ViewingFinite, FS_AddElement
<1> QED BY <1>1, ViewingFinite DEF ViewersExact

\* addViewer(-1) by a handler that was counted keeps the count exact, and the
\* count was not zero.
LEMMA CountDown ==
    ASSUME ViewersExact, viewers' = viewers - 1, NEW c \in Conns,
           c \in Viewing, Viewing' = Viewing \ {c}
    PROVE  ViewersExact' /\ viewers' \in Nat
<1>1. /\ IsFiniteSet(Viewing')
      /\ Cardinality(Viewing') = Cardinality(Viewing) - 1
  BY ViewingFinite, FS_RemoveElement
<1>2. Cardinality(Viewing') \in Nat
  BY <1>1, FS_CardinalityType
<1> QED BY <1>1, <1>2, ViewingFinite DEF ViewersExact

\* The inductive invariant holds initially.
LEMMA InitIInv == Init => IInv
<1> SUFFICES ASSUME Init PROVE IInv
  OBVIOUS
<1>1. TypeOK /\ HandlersStarted /\ SeatCancelLive
  BY SeatAssumption
     DEF Init, TypeOK, HandlersStarted, SeatCancelLive, SL!Init, SL!TypeOK,
         SL!Statuses, Inside
<1>2. Viewing = {}
  BY DEF Init, Viewing, Inside
<1>3. ViewersExact
  BY <1>2, FS_EmptySet DEF ViewersExact, Init
<1> QED BY <1>1, <1>3 DEF IInv

\* Every step of the controller, the handlers, the bridges and the API keeps
\* the inductive invariant.
LEMMA StepIInv == IInv /\ [Next]_vars => IInv'
<1> SUFFICES ASSUME IInv, [Next]_vars PROVE IInv'
  OBVIOUS
<1> USE SeatAssumption DEF IInv, TypeOK, HandlersStarted, SeatCancelLive, Inside,
        seat, handler
<1>0. ASSUME UNCHANGED <<viewers, pc, viewOnly>> PROVE ViewersExact'
  BY <1>0, CountSame
<1>1. ASSUME NEW s \in Sessions, Login(s) PROVE IInv'
  BY <1>1, <1>0 DEF Login, SL!TypeOK, SL!Login, SL!Statuses
<1>2. CASE Age
  BY <1>2, <1>0 DEF Age, SL!TypeOK, SL!Age
<1>3. ASSUME NEW s \in Sessions, TakeControl(s) PROVE IInv'
  BY <1>3, <1>0 DEF TakeControl, Taken, SL!TypeOK
<1>4. ASSUME NEW s \in Sessions, ReleaseControl(s) PROVE IInv'
  BY <1>4, <1>0 DEF ReleaseControl, Released, SL!TypeOK
<1>5. ASSUME NEW s \in Sessions, LogoutRelease(s) PROVE IInv'
  BY <1>5, <1>0 DEF LogoutRelease, Released, SL!TypeOK, Kinds
<1>6. ASSUME NEW s \in Sessions, LogoutDelete(s) PROVE IInv'
  BY <1>6, <1>0 DEF LogoutDelete, SL!Delete, SL!TypeOK, SL!Statuses
<1>7. ASSUME NEW s \in Sessions, NEW k \in Kinds, Request(k, s) PROVE IInv'
  BY <1>7, <1>0 DEF Request, SL!Seen, SL!TypeOK
<1>8. ASSUME NEW c \in Conns, NEW s \in Sessions, NEW w \in BOOLEAN,
             Upgrade(c, s, w)
      PROVE IInv'
  <2>1. (TypeOK /\ HandlersStarted /\ SeatCancelLive)'
    BY <1>8 DEF Upgrade, SL!Seen, SL!TypeOK
  <2> QED BY <2>1, <1>8, CountSame DEF Upgrade
<1>9. ASSUME NEW c \in Conns, Handle(c) PROVE IInv'
  <2>1. CASE Acquire(c)
    <3>1. (TypeOK /\ HandlersStarted /\ SeatCancelLive)'
      BY <2>1 DEF Acquire, CanAcquire, SL!TypeOK
    <3> QED BY <3>1, <2>1, CountSame DEF Acquire
  <2>2. CASE JoinAsViewer(c)
    <3>1. c \notin Viewing /\ Viewing' = Viewing \cup {c}
      BY <2>2 DEF JoinAsViewer, Viewing
    <3>2. ViewersExact' /\ viewers' \in Nat
      BY <3>1, <2>2, CountUp DEF JoinAsViewer
    <3> QED BY <3>2, <2>2 DEF JoinAsViewer, SL!TypeOK
  <2>3. CASE BridgeFails(c)
    <3>1. (TypeOK /\ HandlersStarted /\ SeatCancelLive)'
      BY <2>3 DEF BridgeFails, SL!TypeOK
    <3> QED BY <3>1, <2>3, CountSame DEF BridgeFails
  <2>4. CASE BridgeStarts(c)
    <3>1. (TypeOK /\ HandlersStarted /\ SeatCancelLive)'
      BY <2>4 DEF BridgeStarts, SL!TypeOK
    <3> QED BY <3>1, <2>4, CountSame DEF BridgeStarts
  <2>5. CASE RelayEnds(c) \/ PollExpired(c)
    <3>1. pc[c] = "relaying" /\ TornDown(c)
      BY <2>5 DEF RelayEnds, PollExpired
    <3>2. (TypeOK /\ HandlersStarted /\ SeatCancelLive)'
      BY <3>1 DEF TornDown, SL!TypeOK
    <3> QED BY <3>1, <3>2, CountSame DEF TornDown
  <2>6. CASE PollerQuits(c)
    BY <2>6, <1>0 DEF PollerQuits, SL!TypeOK
  <2>7. CASE Touch(c)
    BY <2>7, <1>0 DEF Touch, SL!Touch, SL!TypeOK, SL!Statuses
  <2>8. CASE Return(c) /\ viewOnly[c]
    <3>1. c \in Viewing /\ Viewing' = Viewing \ {c}
      BY <2>8 DEF Return, Viewing
    <3>2. ViewersExact' /\ viewers' \in Nat
      BY <3>1, <2>8, CountDown DEF Return
    <3> QED BY <3>2, <2>8 DEF Return, SL!TypeOK
  <2>9. CASE Return(c) /\ ~viewOnly[c]
    <3>1. (TypeOK /\ HandlersStarted /\ SeatCancelLive)'
      BY <2>9 DEF Return, Released, SL!TypeOK
    <3> QED BY <3>1, <2>9, CountSame DEF Return
  <2> QED
    BY <1>9, <2>1, <2>2, <2>3, <2>4, <2>5, <2>6, <2>7, <2>8, <2>9 DEF Handle
<1>10. CASE UNCHANGED vars
  BY <1>10, <1>0 DEF vars, SL!TypeOK
<1> QED
  BY <1>1, <1>2, <1>3, <1>4, <1>5, <1>6, <1>7, <1>8, <1>9, <1>10 DEF Next, Api

\* The inductive invariant, for the specification.
LEMMA SeatInductive == Spec => []IInv
BY InitIInv, StepIInv, PTL DEF Spec

-----------------------------------------------------------------------------
\* Every variable of the controller and of the handlers keeps its type;
\* controller.viewers never goes negative.
THEOREM SeatTypeCorrect == Spec => []TypeOK
<1>1. IInv => TypeOK
  BY DEF IInv
<1> QED BY <1>1, SeatInductive, PTL

\* The cancel function in the seat always belongs to a live, uncancelled,
\* controlling handler of the session that holds the seat, for any number of
\* sessions, sockets and requests in flight.
THEOREM SeatCancelIsLive == Spec => []SeatCancelLive
<1>1. IInv => SeatCancelLive
  BY DEF IInv
<1> QED BY <1>1, SeatInductive, PTL

\* The viewer count is exact on every path through handleVNC.
THEOREM ViewerCountExact == Spec => []ViewersExact
<1>1. IInv => ViewersExact
  BY DEF IInv
<1> QED BY <1>1, SeatInductive, PTL

\* Nobody but a taker or the holder's own session can end a hold on the seat.
THEOREM SeatNeverStolen == Spec => NoTheftByExit
<1> DEFINE A == \A s \in Sessions : sessionID = s /\ sessionID' # s => SeatLeaves(s)
<1>1. ASSUME IInv, Next PROVE A
  <2> SUFFICES ASSUME NEW h \in Sessions, sessionID = h, sessionID' # h
               PROVE  SeatLeaves(h)
    OBVIOUS
  <2> USE SeatAssumption DEF IInv, TypeOK, HandlersStarted, Inside, seat, handler
  <2>1. ASSUME NEW s \in Sessions, Login(s) \/ LogoutDelete(s) PROVE FALSE
    BY <2>1 DEF Login, LogoutDelete
  <2>2. CASE Age
    BY <2>2 DEF Age
  <2>3. ASSUME NEW s \in Sessions, TakeControl(s) PROVE SeatLeaves(h)
    BY <2>3 DEF TakeControl, Taken, SeatLeaves
  <2>4. ASSUME NEW s \in Sessions, ReleaseControl(s) \/ LogoutRelease(s)
        PROVE  SeatLeaves(h)
    BY <2>4 DEF ReleaseControl, LogoutRelease, Released, SeatLeaves
  <2>5. ASSUME NEW s \in Sessions, NEW k \in Kinds, Request(k, s) PROVE FALSE
    BY <2>5 DEF Request
  <2>6. ASSUME NEW c \in Conns, NEW s \in Sessions, NEW w \in BOOLEAN,
               Upgrade(c, s, w)
        PROVE  FALSE
    BY <2>6 DEF Upgrade
  <2>7. ASSUME NEW c \in Conns, Handle(c) PROVE SeatLeaves(h)
    <3>1. CASE Return(c)
      <4>1. sess[c] = h /\ sessionID' = NoSession
        BY <3>1 DEF Return, Released
      <4>2. pc[c] = "returning" /\ pc'[c] = "done"
        BY <1>1, <3>1 DEF Return
      <4> QED BY <4>1, <4>2 DEF SeatLeaves
    <3>2. CASE Acquire(c)
      BY <3>2 DEF Acquire, CanAcquire
    <3> QED
      BY <2>7, <3>1, <3>2 DEF Handle, JoinAsViewer, BridgeFails, BridgeStarts,
         RelayEnds, PollExpired, TornDown, PollerQuits, Touch
  <2> QED BY <1>1, <2>1, <2>2, <2>3, <2>4, <2>5, <2>6, <2>7 DEF Next, Api
<1>2. IInv /\ [Next]_vars => [A]_vars
  BY <1>1
<1> QED BY <1>2, SeatInductive, PTL DEF Spec, NoTheftByExit
=============================================================================
