------------------------------- MODULE Viewer -------------------------------
(***************************************************************************)
(* One console page: web/static/console.js, the connection states of       *)
(* noVNC's RFB and Websock objects, and what the page sees of the server.  *)
(*                                                                         *)
(* The page makes an RFB object for every connection.  Each has a state of *)
(* its own, a WebSocket, and a handler at the server, and the three change *)
(* apart: an object that was told to disconnect lives on until its socket  *)
(* has closed or three seconds have passed, and then tells the page.       *)
(* The page learns the state of the VM and of the control seat from fetch  *)
(* calls, whose replies may be handled late and out of order.              *)
(*                                                                         *)
(* All that JavaScript does in one turn is one action.  tab is what those  *)
(* turns change, and the functions connect, disconnect, applyControl and   *)
(* applyVMStatus are operators from tab to tab.                            *)
(***************************************************************************)
EXTENDS Naturals, FiniteSets

CONSTANTS
    Conns,       \* bound: RFB objects that exist at any one time
    NoRFB,       \* rfb = null
    Blocked,     \* there is no object left: the step is outside the bound
    MaxFetches,  \* bound: fetch calls in flight
    MaxChanges   \* bound: what users, guests and networks do

ASSUME ViewerAssumption ==
    /\ IsFiniteSet(Conns) /\ Conns # {} /\ NoRFB \notin Conns /\ Blocked \notin Conns \cup {NoRFB}
    /\ MaxFetches \in Nat /\ MaxChanges \in Nat

VARIABLES
    tab,      \* the page: rfb, mode, its reconnect timer, and its RFB objects
    fetches,  \* calls of fetch, with the server's answer once there is one
    role,     \* the handler of each WebSocket at the server
    seat,     \* controller.sessionID: free, this page's session or another's
    vm,       \* the VM runs
    changes   \* counts what users, guests and networks did

vars == <<tab, fetches, role, seat, vm, changes>>

Modes == {"control", "view"}
Kinds == {"poll", "retry", "take", "vm"}
NoAnswer == [vm |-> FALSE, seat |-> "none"]
Answers  == [vm : BOOLEAN, seat : {"free", "me", "other"}]

\* An RFB object: its connection state, WebSocket, viewOnly property and URL.
Objects == [st : {"none", "connecting", "connected", "disconnecting", "disconnected"},
            sock : {"none", "connecting", "open", "closing", "closed"},
            viewOnly : BOOLEAN, url : Modes]
NoObject == [st |-> "none", sock |-> "none", viewOnly |-> FALSE, url |-> "control"]

\* The variable rfb refers to an object that has not begun to disconnect.
TypeOK ==
    /\ tab \in [rfb : Conns \cup {NoRFB}, mode : Modes, timer : BOOLEAN,
                running : BOOLEAN, conn : [Conns -> Objects]]
    /\ tab.rfb # NoRFB => tab.conn[tab.rfb].st \in {"connecting", "connected"}
    /\ fetches \subseteq [kind : Kinds, answer : Answers \cup {NoAnswer}]
    /\ role \in [Conns -> {"none", "control", "viewer", "over"}]
    /\ seat \in {"free", "me", "other"}
    /\ vm \in BOOLEAN
    /\ changes \in 0..MaxChanges

-----------------------------------------------------------------------------
(***************************************************************************)
(* RFB objects: what a call does to the state and the socket of one.       *)
(***************************************************************************)
SockClosing(k) ==
    IF k.sock \in {"connecting", "open"} THEN [k EXCEPT !.sock = "closing"] ELSE k

\* _updateConnectionState("disconnecting"), from a state that allows it.
Disconnecting(k) ==
    IF k.st \in {"connecting", "connected"}
    THEN SockClosing([k EXCEPT !.st = "disconnecting"])
    ELSE k

\* _updateConnectionState("disconnected"): permanent.
Disconnected(k) ==
    IF k.st = "disconnecting" THEN [k EXCEPT !.st = "disconnected"] ELSE k

-----------------------------------------------------------------------------
(***************************************************************************)
(* console.js.                                                             *)
(***************************************************************************)
Unused(t) == {c \in Conns : t.conn[c].st = "none" /\ role[c] = "none"}

\* An object that opens the URL of the page's mode.
NewObject(t) == [st |-> "connecting", sock |-> "connecting",
                 viewOnly |-> t.mode = "view", url |-> t.mode]

connect(t) ==
    IF t.rfb # NoRFB THEN t
    ELSE IF Unused(t) = {} THEN [t EXCEPT !.rfb = Blocked]
    ELSE LET c == CHOOSE c \in Unused(t) : TRUE
         IN  [t EXCEPT !.rfb = c, !.timer = FALSE, !.conn[c] = NewObject(t)]

\* Bug: the variable is left for the event to clear.
disconnectLater(t) ==
    IF t.rfb \notin Conns THEN t ELSE [t EXCEPT !.conn[t.rfb] = Disconnecting(@)]

disconnect(t) ==
    IF t.rfb \notin Conns THEN t
    ELSE [t EXCEPT !.rfb = NoRFB, !.conn[t.rfb] = Disconnecting(@)]

SetViewOnly(t, on) ==
    IF t.rfb \notin Conns THEN t ELSE [t EXCEPT !.conn[t.rfb].viewOnly = on]

\* Bug: the listener leaves rfb alone and waits for the timer.
DisconnectEventKeeps(t) == [t EXCEPT !.timer = TRUE]

\* The listener of "disconnect", whichever object the event is from.
DisconnectEvent(t) == [t EXCEPT !.rfb = NoRFB, !.timer = TRUE]

\* Bug: the mode is changed, and the connection kept.
TurnToControlInPlace(t) == [t EXCEPT !.mode = "control"]

\* mode becomes control: the old socket is given up for a new one.
TurnToControl(t) ==
    IF t.mode = "control" THEN t
    ELSE connect(disconnect([t EXCEPT !.mode = "control"]))

\* Bug: the page is told, the RFB object is not.
applyControlBanner(t, holder) ==
    IF ~t.running THEN t
    ELSE CASE holder = "me"    -> SetViewOnly(TurnToControl(t), FALSE)
           [] holder = "other" -> t
           [] OTHER            -> TurnToControl(t)

applyControl(t, holder) ==
    IF ~t.running THEN t
    ELSE CASE holder = "me"    -> SetViewOnly(TurnToControl(t), FALSE)
           [] holder = "other" -> [SetViewOnly(t, TRUE) EXCEPT !.mode = "view"]
           [] OTHER            -> TurnToControl(t)

applyVMStatus(t, running) ==
    LET u == [t EXCEPT !.running = running]
    IN  IF running THEN connect(u) ELSE disconnect(u)

\* What is done with an answer, by the kind of the call.
AfterRefresh(t, a) == applyControl(applyVMStatus(t, a.vm), a.seat)

\* The callback of scheduleReconnect, after its refreshStatus.
AfterRetry(t) == IF t.running THEN connect(t) ELSE [t EXCEPT !.timer = TRUE]

\* btnControl.onclick, after the answer of the server.
AfterTake(t, a) == applyControl(connect(disconnect([t EXCEPT !.mode = "control"])), a.seat)

Handled(t, f) ==
    CASE f.kind = "poll"  -> AfterRefresh(t, f.answer)
      [] f.kind = "retry" -> AfterRetry(AfterRefresh(t, f.answer))
      [] f.kind = "take"  -> AfterTake(t, f.answer)
      [] OTHER            -> applyVMStatus(t, f.answer.vm)

-----------------------------------------------------------------------------
(***************************************************************************)
(* Turns of the page.                                                      *)
(***************************************************************************)
Call(kind) == [kind |-> kind, answer |-> NoAnswer]

\* A call that the server has answered with the state it left behind.  Nothing
\* in the page depends on when it was made, so that call and answer are one
\* step; only the callback of the timer has begun before its call is answered.
Answered(kind) == [kind |-> kind, answer |-> [vm |-> vm', seat |-> seat']]

\* Something that nobody has to do, and does only so often.
Change == changes < MaxChanges /\ changes' = changes + 1

Room == Cardinality(fetches) < MaxFetches

\* setInterval(refreshStatus), and the clicks that call it.
Poll ==
    /\ Room /\ UNCHANGED <<tab, role, seat, vm, changes>>
    /\ fetches' = fetches \cup {Answered("poll")}

\* The reconnect timer fires, and its refreshStatus is answered.
RetryFires ==
    /\ tab.timer /\ Room
    /\ tab' = [tab EXCEPT !.timer = FALSE]
    /\ fetches' = fetches \cup {Call("retry")}
    /\ UNCHANGED <<role, seat, vm, changes>>

RetryAnswered ==
    /\ Call("retry") \in fetches /\ UNCHANGED <<tab, role, seat, vm, changes>>
    /\ fetches' = (fetches \ {Call("retry")}) \cup {Answered("retry")}

\* The button that takes control, which is hidden in control mode.
ClickTake ==
    /\ tab.mode = "view" /\ Room /\ Change
    /\ seat' = "me" /\ UNCHANGED <<tab, role, vm>>
    /\ fetches' = fetches \cup {Answered("take")}

\* The buttons that start and stop the VM: vmAction.
ClickVM ==
    /\ Room /\ Change
    /\ vm' = ~vm /\ UNCHANGED <<tab, role, seat>>
    /\ fetches' = fetches \cup {Answered("vm")}

\* An answer arrives; the answers may arrive in any order.
Reply(f) ==
    /\ f \in fetches /\ f.answer # NoAnswer
    /\ tab' = Handled(tab, f) /\ tab'.rfb # Blocked
    /\ fetches' = fetches \ {f}
    /\ UNCHANGED <<role, seat, vm, changes>>

\* fetch throws.  refreshStatus catches it, and its callers go on.
FetchFails(f) ==
    /\ f \in fetches /\ Change
    /\ tab' = (IF f.kind = "retry" THEN AfterRetry(tab) ELSE tab) /\ tab'.rfb # Blocked
    /\ fetches' = fetches \ {f}
    /\ UNCHANGED <<role, seat, vm>>

\* The handshakes are through: the event "connect".  Its listener calls
\* rfb.focus, which throws when rfb is null, and then refreshStatus.
HandshakeDone(c) ==
    /\ tab.conn[c].st = "connecting" /\ tab.conn[c].sock = "open"
    /\ role[c] \in {"control", "viewer"}
    /\ tab' = [tab EXCEPT !.conn[c].st = "connected"]
    /\ UNCHANGED <<role, seat, vm, changes>>
    /\ fetches' = IF tab.rfb = NoRFB THEN fetches ELSE fetches \cup {Answered("poll")}

\* _fail, during the handshake or later.
Fail(c) ==
    /\ tab.conn[c].st \in {"connecting", "connected"} /\ tab.conn[c].sock = "open"
    /\ Change
    /\ tab' = DisconnectEvent([tab EXCEPT !.conn[c] = Disconnected(Disconnecting(@))])
    /\ UNCHANGED <<fetches, role, seat, vm>>

\* The close event of the socket: _socketClose, unless the object was
\* disconnected before and the listener is gone.
Closed(c) ==
    LET k == [tab.conn[c] EXCEPT !.sock = "closed"]
        t == [tab EXCEPT !.conn[c] = Disconnected(Disconnecting(k))]
    IN  tab' = IF k.st = "disconnected" THEN t ELSE DisconnectEvent(t)

\* The browser gives up a connection that was refused, that the server has
\* closed, or that it was told to close.
CloseEvent(c) ==
    /\ \/ tab.conn[c].sock = "connecting" /\ role[c] = "none" /\ ~vm
       \/ tab.conn[c].sock = "open" /\ role[c] = "over"
       \/ tab.conn[c].sock = "closing"
    /\ Closed(c)
    /\ UNCHANGED <<fetches, role, seat, vm, changes>>

\* The network fails under a socket.
ConnectionLost(c) ==
    /\ tab.conn[c].sock \in {"connecting", "open"} /\ Change
    /\ Closed(c)
    /\ UNCHANGED <<fetches, role, seat, vm>>

\* Bug: the timer of DISCONNECT_TIMEOUT is not started.
NoTimeout(c) == FALSE /\ UNCHANGED vars

\* DISCONNECT_TIMEOUT: the object does not wait for its socket any longer.
DisconnectTimeout(c) ==
    /\ tab.conn[c].st = "disconnecting"
    /\ tab' = DisconnectEvent([tab EXCEPT !.conn[c] = Disconnected(@)])
    /\ UNCHANGED <<fetches, role, seat, vm, changes>>

\* Nothing can happen to an object any more, neither here nor at the server.
Collected(c) ==
    /\ tab.conn[c].st = "disconnected" /\ tab.conn[c].sock \in {"closing", "closed"}
    /\ role[c] \in {"none", "over"}
    /\ tab' = [tab EXCEPT !.conn[c] = NoObject]
    /\ role' = [role EXCEPT ![c] = "none"]
    /\ UNCHANGED <<fetches, seat, vm, changes>>

-----------------------------------------------------------------------------
(***************************************************************************)
(* The server, and the users of other pages.                               *)
(***************************************************************************)
\* handleVNC: the upgrade, and acquire for those who want control.
Upgrade(c) ==
    /\ tab.conn[c].sock \in {"connecting", "closing"} /\ role[c] = "none" /\ vm
    /\ IF tab.conn[c].url = "control" /\ seat # "other"
       THEN role' = [role EXCEPT ![c] = "control"] /\ seat' = "me"
       ELSE role' = [role EXCEPT ![c] = "viewer"] /\ UNCHANGED seat
    /\ tab' = [tab EXCEPT !.conn[c].sock = IF @ = "connecting" THEN "open" ELSE @]
    /\ UNCHANGED <<fetches, vm, changes>>

\* Bridge returns, because the browser or the guest has gone; the deferred
\* release frees the seat of the session, whichever socket took it last.
BridgeEnds(c) ==
    /\ role[c] \in {"control", "viewer"}
    /\ ~vm \/ tab.conn[c].sock \in {"closing", "closed"}
    /\ role' = [role EXCEPT ![c] = "over"]
    /\ seat' = IF role[c] = "control" /\ seat = "me" THEN "free" ELSE seat
    /\ UNCHANGED <<tab, fetches, vm, changes>>

\* Another session takes the seat, or gives it up.
OtherTakes ==
    /\ seat # "other" /\ Change
    /\ seat' = "other"
    /\ UNCHANGED <<tab, fetches, role, vm>>

OtherLeaves ==
    /\ seat = "other" /\ Change
    /\ seat' = "free"
    /\ UNCHANGED <<tab, fetches, role, vm>>

\* The guest shuts down or crashes, or another user starts it.
VMChanges ==
    /\ Change
    /\ vm' = ~vm
    /\ UNCHANGED <<tab, fetches, role, seat>>

-----------------------------------------------------------------------------
\* boot.status is rendered into the page, and applied when it is loaded.
Init ==
    /\ vm \in BOOLEAN
    /\ role = [c \in Conns |-> "none"]
    /\ tab = applyVMStatus([rfb |-> NoRFB, mode |-> "control", timer |-> FALSE,
                            running |-> vm, conn |-> [c \in Conns |-> NoObject]], vm)
    /\ fetches = {}
    /\ seat \in {"free", "me", "other"}
    /\ changes = 0

Next ==
    \/ Poll \/ RetryFires \/ RetryAnswered \/ ClickTake \/ ClickVM
    \/ \E f \in fetches : Reply(f) \/ FetchFails(f)
    \/ \E c \in Conns : \/ HandshakeDone(c) \/ Fail(c) \/ CloseEvent(c) \/ ConnectionLost(c)
                        \/ DisconnectTimeout(c) \/ Collected(c) \/ Upgrade(c) \/ BridgeEnds(c)
    \/ OtherTakes \/ OtherLeaves \/ VMChanges

Spec == Init /\ [][Next]_vars

\* Timers fire, the server and the network work when nothing says otherwise.
\* A socket that is closing need never close, and nobody has to click.
Calls == [kind : Kinds, answer : Answers]
Fairness ==
    /\ WF_vars(Poll) /\ WF_vars(RetryFires) /\ WF_vars(RetryAnswered)
    /\ \A f \in Calls : WF_vars(Reply(f))
    /\ \A c \in Conns : /\ WF_vars(HandshakeDone(c)) /\ WF_vars(DisconnectTimeout(c))
                        /\ WF_vars(Collected(c)) /\ WF_vars(Upgrade(c)) /\ WF_vars(BridgeEnds(c))
                        /\ WF_vars(tab.conn[c].sock # "closing" /\ CloseEvent(c))

FairSpec == Spec /\ Fairness

-----------------------------------------------------------------------------
(***************************************************************************)
(* Properties.                                                             *)
(***************************************************************************)
\* The object the page drives mutes keyboard and mouse exactly when the page
\* is in view mode, and one that is to control has asked the server for it,
\* although mode changes in answers that come late, between reconnections
\* (applyControl, btnControl.onclick and connect).
RFBFollowsMode ==
    tab.rfb # NoRFB =>
        /\ tab.conn[tab.rfb].viewOnly <=> tab.mode = "view"
        /\ tab.mode = "control" => tab.conn[tab.rfb].url = "control"

\* The page ends up connected to a VM that goes on running and disconnected
\* from one that stays off, whatever was lost, late or clicked before, and
\* although the event of an old connection clears the variable of a new one
\* (scheduleReconnect, the poll, and the listeners of connect).
FollowsVM ==
    /\ <>[]vm => <>[](tab.rfb # NoRFB /\ tab.conn[tab.rfb].st = "connected")
    /\ <>[]~vm => <>[](tab.rfb = NoRFB)

\* When another session keeps the seat, the connection of the page ends up
\* muted (applyControl, on the poll).
QuietWhenEvicted ==
    <>[](vm /\ seat = "other")
        => <>[](tab.rfb # NoRFB /\ tab.conn[tab.rfb].viewOnly)

\* disconnect() comes to an end although the socket may never close
\* (DISCONNECT_TIMEOUT in _updateConnectionState).
DisconnectEnds ==
    \A c \in Conns : tab.conn[c].st = "disconnecting" ~> tab.conn[c].st # "disconnecting"

-----------------------------------------------------------------------------
\* console.js, applyControl: "Seat is free; grab it."  A seat does not stay
\* free beside a page that is connected to a running VM.
FreeSeatIsGrabbed == (vm /\ seat = "free") ~> (~vm \/ seat # "free")
=============================================================================
