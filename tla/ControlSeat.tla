----------------------------- MODULE ControlSeat -----------------------------
(***************************************************************************)
(* The control seat of the console: which browser session owns keyboard    *)
(* and mouse.                                                              *)
(*                                                                         *)
(* Modelled code: the controller type and the handlers handleVNC,          *)
(* apiTakeControl, apiReleaseControl and handleLogout of                   *)
(* internal/httpserver, the goroutines of proxy.Bridge, and what these     *)
(* see of the session table of internal/auth (see SessionLife).            *)
(*                                                                         *)
(* An HTTP request is two steps, as in the code: requireAuth looks the     *)
(* session up, and the handler acts on the copy it got, possibly after     *)
(* other requests and bridges have moved.  Every critical section of the   *)
(* controller's mutex is one action.                                       *)
(***************************************************************************)
EXTENDS Naturals, FiniteSets

CONSTANTS
    Sessions,   \* session ids that logins may create
    Conns,      \* WebSocket requests: each is one invocation of handleVNC
    MaxRequests,\* bound: API requests in flight at any one time
    NoSession,  \* sessionID = "": the seat is free
    NoConn      \* cancel = nil: no socket is attached to the seat

ASSUME SeatAssumption ==
    /\ IsFiniteSet(Conns)
    /\ MaxRequests \in Nat
    /\ NoSession \notin Sessions
    /\ NoConn \notin Conns

VARIABLES
    status,     \* what auth.Manager says of each session
    pending,    \* authenticated API requests whose handler has not acted yet
    sessionID,  \* controller.sessionID
    cancel,     \* controller.cancel, named by the connection it belongs to
    viewers,    \* controller.viewers
    pc,         \* where each handleVNC invocation stands
    sess,       \* the session copy each invocation was given by requireAuth
    viewOnly,   \* opts.ViewOnly of the invocation (want, until decided)
    cancelled,  \* ctx.Err() # nil for the invocation's context
    poller,     \* the ping/poll goroutine of the bridge is running
    ws          \* the WebSocket of the invocation

seat    == <<sessionID, cancel, viewers>>
handler == <<pc, sess, viewOnly, cancelled, poller, ws>>
vars    == <<status, pending, seat, handler>>

SL == INSTANCE SessionLife

Kinds == {"take", "release", "logout", "logoutDelete"}

\* The places where handleVNC is past the decision acquire / addViewer(1) and
\* has not yet run its deferred release / addViewer(-1).
Inside == {"bridging", "relaying", "returning"}

TypeOK ==
    /\ SL!TypeOK
    /\ pending \in SUBSET (Kinds \X Sessions)
    /\ sessionID \in Sessions \cup {NoSession}
    /\ cancel \in Conns \cup {NoConn}
    /\ viewers \in Nat
    /\ pc \in [Conns -> {"unused", "upgraded", "done"} \cup Inside]
    /\ sess \in [Conns -> Sessions \cup {NoSession}]
    /\ viewOnly \in [Conns -> BOOLEAN]
    /\ cancelled \in [Conns -> BOOLEAN]
    /\ poller \in [Conns -> BOOLEAN]
    /\ ws \in [Conns -> {"none", "open", "closed"}]

Init ==
    /\ SL!Init
    /\ pending = {}
    /\ sessionID = NoSession /\ cancel = NoConn /\ viewers = 0
    /\ pc        = [c \in Conns |-> "unused"]
    /\ sess      = [c \in Conns |-> NoSession]
    /\ viewOnly  = [c \in Conns |-> TRUE]
    /\ cancelled = [c \in Conns |-> FALSE]
    /\ poller    = [c \in Conns |-> FALSE]
    /\ ws        = [c \in Conns |-> "none"]

-----------------------------------------------------------------------------
(***************************************************************************)
(* Sessions, as auth.Manager reports them.                                 *)
(***************************************************************************)
Login(s) == SL!Login(s) /\ UNCHANGED <<pending, seat, handler>>

\* Sessions idle out, reach their TTL, are reaped.
Age == SL!Age /\ UNCHANGED <<pending, seat, handler>>

\* OnTraffic: server-to-browser data refreshes LastSeen, also of a session
\* that has idled out but has not been reaped.
Touch(c) ==
    /\ pc[c] = "relaying"
    /\ SL!Touch(sess[c])
    /\ UNCHANGED <<pending, seat, handler>>

-----------------------------------------------------------------------------
(***************************************************************************)
(* The critical sections of the controller.                                *)
(***************************************************************************)
CanAcquire(s) == sessionID \in {NoSession, s}

\* acquire, on success: a socket of the same session is cancelled.
Acquire(c) ==
    /\ pc[c] = "upgraded" /\ ~viewOnly[c]
    /\ CanAcquire(sess[c])
    /\ cancelled' = IF sessionID = sess[c] /\ cancel # NoConn
                    THEN [cancelled EXCEPT ![cancel] = TRUE]
                    ELSE cancelled
    /\ sessionID' = sess[c] /\ cancel' = c
    /\ pc' = [pc EXCEPT ![c] = "bridging"]
    /\ UNCHANGED <<status, pending, viewers, sess, viewOnly, poller, ws>>

\* Bug: addViewer(1) only for those who asked for view mode.
JoinUncounted(c) ==
    /\ pc[c] = "upgraded"
    /\ viewOnly[c] \/ ~CanAcquire(sess[c])
    /\ viewOnly' = [viewOnly EXCEPT ![c] = TRUE]
    /\ viewers' = IF viewOnly[c] THEN viewers + 1 ELSE viewers
    /\ pc' = [pc EXCEPT ![c] = "bridging"]
    /\ UNCHANGED <<status, pending, sessionID, cancel, sess, cancelled, poller, ws>>

\* acquire was not wanted, or refused: addViewer(1).
JoinAsViewer(c) ==
    /\ pc[c] = "upgraded"
    /\ viewOnly[c] \/ ~CanAcquire(sess[c])
    /\ viewOnly' = [viewOnly EXCEPT ![c] = TRUE]
    /\ viewers' = viewers + 1
    /\ pc' = [pc EXCEPT ![c] = "bridging"]
    /\ UNCHANGED <<status, pending, sessionID, cancel, sess, cancelled, poller, ws>>

\* Bug: release keeps the stored cancel function.
ReleasedKeepCancel(id) ==
    /\ sessionID' = IF sessionID = id THEN NoSession ELSE sessionID
    /\ UNCHANGED cancel

\* Bug: release does not compare the session.
ReleasedUnchecked(id) ==
    /\ id \in Sessions
    /\ sessionID' = NoSession /\ cancel' = NoConn

\* release(id): only the session that has the seat can free it.
Released(id) ==
    IF sessionID = id THEN sessionID' = NoSession /\ cancel' = NoConn
                      ELSE UNCHANGED <<sessionID, cancel>>

\* take(s): cancel another session's socket, reserve the seat for s.
Taken(s) ==
    /\ cancelled' = IF cancel # NoConn /\ sessionID # s
                    THEN [cancelled EXCEPT ![cancel] = TRUE]
                    ELSE cancelled
    /\ sessionID' = s /\ cancel' = NoConn

-----------------------------------------------------------------------------
(***************************************************************************)
(* handleVNC and proxy.Bridge, for one WebSocket request.                  *)
(***************************************************************************)

\* requireAuth, VNCCredentials and Upgrade succeed.
Upgrade(c, s, wantControl) ==
    /\ pc[c] = "unused"
    /\ SL!Seen(s)
    /\ pc' = [pc EXCEPT ![c] = "upgraded"]
    /\ sess' = [sess EXCEPT ![c] = s]
    /\ viewOnly' = [viewOnly EXCEPT ![c] = ~wantControl]
    /\ ws' = [ws EXCEPT ![c] = "open"]
    /\ UNCHANGED <<pending, seat, cancelled, poller>>

\* Dial, VNC authentication or the browser's handshake fails: Bridge returns
\* before it reaches ws.Close().
BridgeFails(c) ==
    /\ pc[c] = "bridging"
    /\ pc' = [pc EXCEPT ![c] = "returning"]
    /\ UNCHANGED <<status, pending, seat, sess, viewOnly, cancelled, poller, ws>>

\* Both handshakes are through: the three goroutines start.
BridgeStarts(c) ==
    /\ pc[c] = "bridging"
    /\ pc' = [pc EXCEPT ![c] = "relaying"]
    /\ poller' = [poller EXCEPT ![c] = TRUE]
    /\ UNCHANGED <<status, pending, seat, sess, viewOnly, cancelled, ws>>

\* After err = <-errc: cancel(), vnc.Close(), ws.Close().  The bridge's cancel
\* ends the poller.
TornDown(c) ==
    /\ pc' = [pc EXCEPT ![c] = "returning"]
    /\ poller' = [poller EXCEPT ![c] = FALSE]
    /\ ws' = [ws EXCEPT ![c] = "closed"]
    /\ UNCHANGED <<status, pending, seat, sess, viewOnly, cancelled>>

\* One of the two copying goroutines meets an error or the end of a stream.
RelayEnds(c) == pc[c] = "relaying" /\ TornDown(c)

\* Bug: the poller stops on an invalid session without telling errc.
PollSilent(c) ==
    /\ pc[c] = "relaying" /\ poller[c]
    /\ ~SL!Valid(sess[c])
    /\ poller' = [poller EXCEPT ![c] = FALSE]
    /\ UNCHANGED <<status, pending, seat, pc, sess, viewOnly, cancelled, ws>>

\* The ticker fires and SessionValid() is false.
PollExpired(c) ==
    /\ pc[c] = "relaying" /\ poller[c]
    /\ ~SL!Valid(sess[c])
    /\ TornDown(c)

\* The ticker's select sees ctx.Done(): the goroutine returns and says nothing
\* on errc, so the bridge itself goes on.
PollerQuits(c) ==
    /\ pc[c] = "relaying" /\ poller[c] /\ cancelled[c]
    /\ poller' = [poller EXCEPT ![c] = FALSE]
    /\ UNCHANGED <<status, pending, seat, pc, sess, viewOnly, cancelled, ws>>

\* Bug: no deferred release.
ReturnKeepsSeat(c) ==
    /\ pc[c] = "returning"
    /\ viewers' = IF viewOnly[c] THEN viewers - 1 ELSE viewers
    /\ cancelled' = [cancelled EXCEPT ![c] = TRUE]
    /\ pc' = [pc EXCEPT ![c] = "done"]
    /\ UNCHANGED <<status, pending, sessionID, cancel, sess, viewOnly, poller, ws>>

\* The deferred calls: addViewer(-1) or release(sess.ID), then cancel().
Return(c) ==
    /\ pc[c] = "returning"
    /\ IF viewOnly[c]
       THEN viewers' = viewers - 1 /\ UNCHANGED <<sessionID, cancel>>
       ELSE Released(sess[c]) /\ UNCHANGED viewers
    /\ cancelled' = [cancelled EXCEPT ![c] = TRUE]
    /\ pc' = [pc EXCEPT ![c] = "done"]
    /\ UNCHANGED <<status, pending, sess, viewOnly, poller, ws>>

-----------------------------------------------------------------------------
(***************************************************************************)
(* The API handlers.  Request(k, s) is requireAuth (or, for a logout, the  *)
(* SessionFromRequest of handleLogout).                                    *)
(***************************************************************************)
Request(k, s) ==
    /\ k # "logoutDelete"
    /\ Cardinality(pending) < MaxRequests
    /\ SL!Seen(s)
    /\ pending' = pending \cup {<<k, s>>}
    /\ UNCHANGED <<seat, handler>>

TakeControl(s) ==
    /\ <<"take", s>> \in pending
    /\ pending' = pending \ {<<"take", s>>}
    /\ Taken(s)
    /\ UNCHANGED <<status, viewers, pc, sess, viewOnly, poller, ws>>

ReleaseControl(s) ==
    /\ <<"release", s>> \in pending
    /\ pending' = pending \ {<<"release", s>>}
    /\ Released(s)
    /\ UNCHANGED <<status, viewers, handler>>

\* handleLogout frees the seat first and deletes the session afterwards.
LogoutRelease(s) ==
    /\ <<"logout", s>> \in pending
    /\ pending' = (pending \ {<<"logout", s>>}) \cup {<<"logoutDelete", s>>}
    /\ Released(s)
    /\ UNCHANGED <<status, viewers, handler>>

LogoutDelete(s) ==
    /\ <<"logoutDelete", s>> \in pending
    /\ pending' = pending \ {<<"logoutDelete", s>>}
    /\ SL!Delete(s)
    /\ UNCHANGED <<seat, handler>>

-----------------------------------------------------------------------------
Handle(c) ==
    \/ Acquire(c) \/ JoinAsViewer(c)
    \/ BridgeFails(c) \/ BridgeStarts(c) \/ RelayEnds(c)
    \/ PollExpired(c) \/ PollerQuits(c) \/ Touch(c)
    \/ Return(c)

Api(s) ==
    \/ TakeControl(s) \/ ReleaseControl(s)
    \/ LogoutRelease(s) \/ LogoutDelete(s)

Next ==
    \/ Age
    \/ \E s \in Sessions : Login(s) \/ Api(s)
    \/ \E s \in Sessions, k \in Kinds : Request(k, s)
    \/ \E c \in Conns, s \in Sessions, w \in BOOLEAN : Upgrade(c, s, w)
    \/ \E c \in Conns : Handle(c)

Spec == Init /\ [][Next]_vars

\* The goroutines of the server that wait for nobody: the handler between its
\* calls, its deferred calls, and the 15-second ticker.  What needs the browser
\* or the VNC server (handshakes, an end of the relay) is not assumed.
Fairness ==
    /\ \A c \in Conns : /\ WF_vars(Acquire(c) \/ JoinAsViewer(c))
                        /\ WF_vars(PollExpired(c))
                        /\ WF_vars(PollerQuits(c))
                        /\ WF_vars(Return(c))
    /\ \A s \in Sessions : WF_vars(Api(s))

FairSpec == Spec /\ Fairness

-----------------------------------------------------------------------------
(***************************************************************************)
(* Properties that hold.                                                   *)
(***************************************************************************)

\* The handlers that may send keyboard and mouse to the guest.
Controlling(c) == pc[c] = "relaying" /\ ~viewOnly[c]

\* The cancel function stored in the seat is never that of a handler that has
\* returned, of a viewer, of another session, or one already called, although
\* sockets, takes, releases and logouts interleave: whoever next takes the seat
\* cancels the right context.
SeatCancelLive ==
    /\ sessionID = NoSession => cancel = NoConn
    /\ cancel # NoConn => /\ pc[cancel] \in Inside
                          /\ ~viewOnly[cancel]
                          /\ ~cancelled[cancel]
                          /\ sess[cancel] = sessionID

\* The view-only handlers between addViewer(1) and addViewer(-1).
Viewing == {c \in Conns : pc[c] \in Inside /\ viewOnly[c]}

\* The viewer count shown to users is exactly the number of view-only handlers
\* between addViewer(1) and the deferred addViewer(-1), on every path out of
\* Bridge; it never drifts or goes negative.
ViewersExact == viewers = Cardinality(Viewing)

\* The seat leaves a session only by a take of another session, or by something
\* its own session did (a socket of it ending, its release, its logout): the
\* exit of an evicted controller never frees the new holder's seat.
SeatLeaves(s) ==
    \/ \E t \in Sessions \ {s} : <<"take", t>> \in pending /\ sessionID' = t
    \/ /\ sessionID' = NoSession
       /\ \/ \E k \in {"release", "logout"} : <<k, s>> \in pending \ pending'
          \/ \E c \in Conns : sess[c] = s /\ pc[c] = "returning" /\ pc'[c] = "done"

NoTheftByExit ==
    [][\A s \in Sessions : sessionID = s /\ sessionID' # s => SeatLeaves(s)]_vars

\* The bridge of a session that has logged out or expired is torn down, as long
\* as nobody has cancelled its context.
ExpiredBridgeEnds ==
    \A c \in Conns :
        (pc[c] = "relaying" /\ sess[c] \in Sessions /\ status[sess[c]] = "gone")
            ~> (pc[c] # "relaying" \/ cancelled[c])

\* A dead session does not keep the seat through its socket: if the socket in
\* the seat belongs to a session that is gone, and it is past the handshakes,
\* the seat passes on without anybody's help.
DeadHolderLosesSeat ==
    \A c \in Conns :
        (cancel = c /\ pc[c] = "relaying" /\ status[sess[c]] = "gone")
            ~> (cancel # c)

-----------------------------------------------------------------------------
(***************************************************************************)
(* What comments, tests and the README say, and the code does not do.      *)
(***************************************************************************)

\* README.md: "Only one signed-in session controls input at a time", "enforced
\* server-side": sockets of two sessions never both feed input to the guest.
ExclusiveControl ==
    \A c, d \in Conns : Controlling(c) /\ Controlling(d) => sess[c] = sess[d]
=============================================================================
