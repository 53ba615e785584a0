---------------------------- MODULE BrowserProofs ----------------------------
(***************************************************************************)
(* Theorems about what runs in the browser: the page of console.js and the *)
(* input that noVNC takes from the user's hands.                           *)
(*                                                                         *)
(* The first part is about Viewer, one console page: its types, and that   *)
(* the RFB object it drives is muted exactly in view mode.  The functions  *)
(* of console.js are operators from tab to tab, so that most of the        *)
(* argument is a lemma for each of them: it takes a sound tab to a sound   *)
(* tab.  In the middle of a turn the mode may be ahead of the object,      *)
(* which is why some lemmas ask for less than they give.                   *)
(*                                                                         *)
(* The second part is about Input: what the server holds down is what the  *)
(* user holds down, and the gesture handler's book of the fingers.         *)
(***************************************************************************)
EXTENDS Viewer, Input, TLAPS

------------------------------------------------------------------------------
(* The page: definitions.                                                  *)


\* A tab in the middle of a turn, in which connect may have found no object.
Tabs == [rfb : Conns \cup {NoRFB, Blocked}, mode : Modes, timer : BOOLEAN,
         running : BOOLEAN, conn : [Conns -> Objects]]

\* The object that rfb refers to has not begun to disconnect.
Live(t) == t.rfb \in Conns => t.conn[t.rfb].st \in {"connecting", "connected"}

\* An object that is to control has asked for it.
Asked(t) == t.rfb \in Conns /\ t.mode = "control" => t.conn[t.rfb].url = "control"

Muted(t) == t.rfb \in Conns => (t.conn[t.rfb].viewOnly <=> t.mode = "view")

Sound(t) == t \in Tabs /\ Live(t) /\ Asked(t) /\ Muted(t)

LEMMA DisconnectingTyped ==
    ASSUME NEW k \in Objects
    PROVE  /\ Disconnecting(k) \in Objects
           /\ Disconnected(k) \in Objects
           /\ Disconnected(Disconnecting(k)) \in Objects
<1>1. \A o \in Objects : SockClosing(o) \in Objects
  BY DEF SockClosing, Objects
<1>2. \A o \in Objects : Disconnecting(o) \in Objects
  <2> SUFFICES ASSUME NEW o \in Objects PROVE Disconnecting(o) \in Objects
    OBVIOUS
  <2>1. [o EXCEPT !.st = "disconnecting"] \in Objects
    BY DEF Objects
  <2>2. QED
    BY <1>1, <2>1 DEF Disconnecting
<1>3. \A o \in Objects : Disconnected(o) \in Objects
  BY DEF Disconnected, Objects
<1>4. QED
  BY <1>2, <1>3

LEMMA ConnChanged ==
    ASSUME NEW f \in [Conns -> Objects], NEW c \in Conns, NEW k \in Objects
    PROVE  [f EXCEPT ![c] = k] \in [Conns -> Objects] /\ [f EXCEPT ![c] = k][c] = k
OBVIOUS

\* disconnect gives up the object of any tab, so that no mode is wrong.
LEMMA DisconnectSound ==
    ASSUME NEW t \in Tabs
    PROVE  Sound(disconnect(t)) /\ disconnect(t).mode = t.mode
<1>1. CASE t.rfb \in Conns
  <2>1. t.conn[t.rfb] \in Objects
    BY <1>1 DEF Tabs
  <2>2. Disconnecting(t.conn[t.rfb]) \in Objects
    BY <2>1, DisconnectingTyped
  <2> DEFINE conn == [t.conn EXCEPT ![t.rfb] = Disconnecting(t.conn[t.rfb])]
  <2>3. disconnect(t) = [t EXCEPT !.rfb = NoRFB, !.conn = conn]
    BY <1>1 DEF disconnect
  <2>4. conn \in [Conns -> Objects]
    BY <1>1, <2>2, ConnChanged DEF Tabs
  <2> HIDE DEF conn
  <2>5. disconnect(t) \in Tabs /\ disconnect(t).rfb = NoRFB /\ disconnect(t).mode = t.mode
    BY <2>3, <2>4 DEF Tabs
  <2>6. QED
    BY <2>5, ViewerAssumption DEF Sound, Live, Asked, Muted
<1>2. CASE t.rfb \notin Conns
  BY <1>2 DEF disconnect, Sound, Live, Asked, Muted
<1>3. QED
  BY <1>1, <1>2

\* A new object follows the mode of the page.
LEMMA ConnectSound ==
    ASSUME NEW t, Sound(t)
    PROVE  Sound(connect(t)) /\ connect(t).mode = t.mode
<1>1. CASE t.rfb # NoRFB
  BY <1>1 DEF connect
<1>2. CASE t.rfb = NoRFB /\ Unused(t) = {}
  <2>1. connect(t) = [t EXCEPT !.rfb = Blocked]
    BY <1>2 DEF connect
  <2>2. connect(t) \in Tabs /\ connect(t).rfb = Blocked /\ connect(t).mode = t.mode
    BY <2>1 DEF Sound, Tabs
  <2>3. QED
    BY <2>2, ViewerAssumption DEF Sound, Live, Asked, Muted
<1>3. CASE t.rfb = NoRFB /\ Unused(t) # {}
  <2> DEFINE c == CHOOSE c \in Unused(t) : TRUE
             u == connect(t)
  <2>1. c \in Conns
    BY <1>3 DEF Unused
  <2> DEFINE conn == [t.conn EXCEPT ![c] = NewObject(t)]
  <2>2. u = [t EXCEPT !.rfb = c, !.timer = FALSE, !.conn = conn]
    BY <1>3 DEF connect
  <2>3. NewObject(t) \in Objects
    BY DEF NewObject, Objects, Sound, Tabs, Modes
  <2>4. conn \in [Conns -> Objects] /\ conn[c] = NewObject(t)
    BY <2>1, <2>3, ConnChanged DEF Sound, Tabs
  <2> HIDE DEF c, conn
  <2>5. u \in Tabs /\ u.rfb = c /\ u.mode = t.mode /\ u.conn[c] = NewObject(t)
    BY <2>1, <2>2, <2>4 DEF Sound, Tabs
  <2>6. /\ u.conn[c].st = "connecting" /\ u.conn[c].url = t.mode
        /\ u.conn[c].viewOnly = (t.mode = "view")
    BY <2>5 DEF NewObject
  <2>7. Live(u) /\ Asked(u)
    BY <2>5, <2>6 DEF Live, Asked
  <2>8. Muted(u)
    BY <2>5, <2>6, Zenon DEF Muted
  <2>9. QED
    BY <2>5, <2>7, <2>8 DEF Sound
<1>4. QED
  BY <1>1, <1>2, <1>3

\* A switch to control gives up the old object for one with the right URL.
LEMMA SwitchSound ==
    ASSUME NEW t \in Tabs
    PROVE  LET u == connect(disconnect([t EXCEPT !.mode = "control"]))
           IN  Sound(u) /\ u.mode = "control"
<1> DEFINE s == [t EXCEPT !.mode = "control"]
<1>1. s \in Tabs /\ s.mode = "control"
  BY DEF Tabs, Modes
<1> HIDE DEF s
<1>2. Sound(disconnect(s)) /\ disconnect(s).mode = "control"
  BY <1>1, DisconnectSound
<1>3. Sound(connect(disconnect(s))) /\ connect(disconnect(s)).mode = "control"
  BY <1>2, ConnectSound
<1>4. QED
  BY <1>3 DEF s

LEMMA TurnToControlSound ==
    ASSUME NEW t, Sound(t)
    PROVE  Sound(TurnToControl(t)) /\ TurnToControl(t).mode = "control"
BY SwitchSound DEF TurnToControl, Sound

\* Unmuting an object that controls.
LEMMA UnmuteSound ==
    ASSUME NEW t, Sound(t), t.mode = "control"
    PROVE  Sound(SetViewOnly(t, FALSE))
<1> DEFINE u == SetViewOnly(t, FALSE)
<1>1. CASE t.rfb \in Conns
  <2> DEFINE k == [t.conn[t.rfb] EXCEPT !.viewOnly = FALSE]
             conn == [t.conn EXCEPT ![t.rfb] = k]
  <2>1. u = [t EXCEPT !.conn = conn]
    BY <1>1 DEF SetViewOnly
  <2>2. t.conn \in [Conns -> Objects] /\ t.conn[t.rfb] \in Objects
    BY <1>1 DEF Sound, Tabs
  <2>3. k \in Objects
    BY <2>2 DEF Objects
  <2>4. conn \in [Conns -> Objects] /\ conn[t.rfb] = k
    BY <1>1, <2>2, <2>3, ConnChanged
  <2>5. /\ k.st = t.conn[t.rfb].st /\ k.url = t.conn[t.rfb].url
        /\ k.viewOnly = FALSE
    BY <2>2 DEF Objects
  <2> HIDE DEF conn, k
  <2>6. u \in Tabs /\ u.rfb = t.rfb /\ u.mode = "control" /\ u.conn[t.rfb] = k
    BY <2>1, <2>4 DEF Sound, Tabs
  <2>7. QED
    BY <1>1, <2>6, <2>5 DEF Sound, Live, Asked, Muted
<1>2. CASE t.rfb \notin Conns
  BY <1>2 DEF SetViewOnly
<1>3. QED
  BY <1>1, <1>2

\* Muting an object and turning the page to view mode.
LEMMA MuteSound ==
    ASSUME NEW t \in Tabs, Live(t)
    PROVE  Sound([SetViewOnly(t, TRUE) EXCEPT !.mode = "view"])
<1> DEFINE s == SetViewOnly(t, TRUE)
           u == [s EXCEPT !.mode = "view"]
<1>1. CASE t.rfb \in Conns
  <2> DEFINE k == [t.conn[t.rfb] EXCEPT !.viewOnly = TRUE]
             conn == [t.conn EXCEPT ![t.rfb] = k]
  <2>1. s = [t EXCEPT !.conn = conn]
    BY <1>1 DEF SetViewOnly
  <2>2. t.conn \in [Conns -> Objects] /\ t.conn[t.rfb] \in Objects
    BY <1>1 DEF Tabs
  <2>3. k \in Objects
    BY <2>2 DEF Objects
  <2>4. conn \in [Conns -> Objects] /\ conn[t.rfb] = k
    BY <1>1, <2>2, <2>3, ConnChanged
  <2>5. k.st = t.conn[t.rfb].st /\ k.viewOnly = TRUE
    BY <2>2 DEF Objects
  <2> HIDE DEF conn, k
  <2>6. s \in Tabs /\ s.rfb = t.rfb /\ s.conn[t.rfb] = k
    BY <2>1, <2>4 DEF Tabs
  <2> HIDE DEF s
  <2>7. u \in Tabs /\ u.rfb = t.rfb /\ u.mode = "view" /\ u.conn[t.rfb] = k
    BY <2>6 DEF Tabs, Modes
  <2> HIDE DEF u
  <2>8. Live(u) /\ Asked(u)
    BY <1>1, <2>7, <2>5 DEF Live, Asked
  <2>9. Muted(u)
    BY <2>7, <2>5, Zenon DEF Muted
  <2>10. Sound(u)
    BY <2>7, <2>8, <2>9 DEF Sound
  <2>11. QED
    BY <2>10 DEF u, s
<1>2. CASE t.rfb \notin Conns
  <2>1. s = t
    BY <1>2 DEF SetViewOnly
  <2>2. u \in Tabs /\ u.rfb \notin Conns
    BY <1>2, <2>1 DEF Tabs, Modes
  <2>3. QED
    BY <2>2 DEF Sound, Live, Asked, Muted
<1>3. QED
  BY <1>1, <1>2

LEMMA ApplyControlSound ==
    ASSUME NEW t, Sound(t), NEW holder
    PROVE  Sound(applyControl(t, holder))
<1>1. CASE ~t.running
  BY <1>1 DEF applyControl
<1>2. CASE t.running /\ holder = "me"
  <2>1. applyControl(t, holder) = SetViewOnly(TurnToControl(t), FALSE)
    BY <1>2 DEF applyControl
  <2>2. QED
    BY <2>1, TurnToControlSound, UnmuteSound
<1>3. CASE t.running /\ holder = "other"
  <2>1. applyControl(t, holder) = [SetViewOnly(t, TRUE) EXCEPT !.mode = "view"]
    BY <1>3 DEF applyControl
  <2>2. QED
    BY <2>1, MuteSound DEF Sound
<1>4. CASE t.running /\ holder # "me" /\ holder # "other"
  <2>1. applyControl(t, holder) = TurnToControl(t)
    BY <1>4 DEF applyControl
  <2>2. QED
    BY <2>1, TurnToControlSound
<1>5. QED
  BY <1>1, <1>2, <1>3, <1>4

LEMMA ApplyVMStatusSound ==
    ASSUME NEW t, Sound(t), NEW running \in BOOLEAN
    PROVE  Sound(applyVMStatus(t, running))
<1> DEFINE u == [t EXCEPT !.running = running]
<1>1. u \in Tabs /\ Sound(u)
  BY DEF Sound, Tabs, Live, Asked, Muted
<1>2. Sound(connect(u)) /\ Sound(disconnect(u))
  BY <1>1, ConnectSound, DisconnectSound
<1>3. QED
  BY <1>2 DEF applyVMStatus

LEMMA AfterRetrySound ==
    ASSUME NEW t, Sound(t)
    PROVE  Sound(AfterRetry(t))
<1>1. Sound([t EXCEPT !.timer = TRUE])
  BY DEF Sound, Tabs, Live, Asked, Muted
<1>2. QED
  BY <1>1, ConnectSound DEF AfterRetry

\* The whole callback of a call, whatever the server answered and however late.
LEMMA HandledSound ==
    ASSUME NEW t, Sound(t), NEW f, f.kind \in Kinds, f.answer \in Answers
    PROVE  Sound(Handled(t, f))
<1>1. f.answer.vm \in BOOLEAN
  BY DEF Answers
<1>2. Sound(AfterRefresh(t, f.answer))
  BY <1>1, ApplyVMStatusSound, ApplyControlSound DEF AfterRefresh
<1>3. Sound(AfterRetry(AfterRefresh(t, f.answer)))
  BY <1>2, AfterRetrySound
<1>4. Sound(AfterTake(t, f.answer))
  BY SwitchSound, ApplyControlSound DEF AfterTake, Sound
<1>5. Sound(applyVMStatus(t, f.answer.vm))
  BY <1>1, ApplyVMStatusSound
<1>6. QED
  BY <1>2, <1>3, <1>4, <1>5 DEF Handled

\* The disconnect event leaves the page without an object.
LEMMA DisconnectEventSound ==
    ASSUME NEW t \in Tabs
    PROVE  Sound(DisconnectEvent(t)) /\ DisconnectEvent(t).rfb = NoRFB
<1>1. DisconnectEvent(t) \in Tabs /\ DisconnectEvent(t).rfb = NoRFB
  BY DEF DisconnectEvent, Tabs
<1>2. QED
  BY <1>1, ViewerAssumption DEF Sound, Live, Asked, Muted

\* A step of one object keeps the tab sound if the object is not the page's, or
\* does not begin to disconnect and keeps its properties.
LEMMA ObjectChanged ==
    ASSUME NEW t, Sound(t), NEW c \in Conns, NEW k \in Objects,
           \/ c # t.rfb
           \/ /\ k.viewOnly = t.conn[c].viewOnly /\ k.url = t.conn[c].url
              /\ k.st = t.conn[c].st \/ k.st \in {"connecting", "connected"}
    PROVE  Sound([t EXCEPT !.conn = [t.conn EXCEPT ![c] = k]])
<1> DEFINE conn == [t.conn EXCEPT ![c] = k]
           u == [t EXCEPT !.conn = conn]
<1>1. conn \in [Conns -> Objects] /\ conn[c] = k
  BY ConnChanged DEF Sound, Tabs
<1>2. \A d \in Conns : d # c => conn[d] = t.conn[d]
  BY DEF Sound, Tabs
<1> HIDE DEF conn
<1>3. u \in Tabs /\ u.rfb = t.rfb /\ u.mode = t.mode /\ u.conn = conn
  BY <1>1 DEF Sound, Tabs
<1> HIDE DEF u
<1>4. Live(u)
  BY <1>1, <1>2, <1>3 DEF Sound, Live
<1>5. Asked(u)
  BY <1>1, <1>2, <1>3 DEF Sound, Asked
<1>6. Muted(u)
  <2>1. u.rfb \in Conns => u.conn[u.rfb].viewOnly = t.conn[t.rfb].viewOnly
    BY <1>1, <1>2, <1>3
  <2>2. QED
    BY <1>3, <2>1, Zenon DEF Sound, Muted
<1>7. Sound(u)
  BY <1>3, <1>4, <1>5, <1>6 DEF Sound
<1>8. QED
  BY <1>7 DEF u, conn

-----------------------------------------------------------------------------
(***************************************************************************)
(* The inductive invariant: the tab is sound, and what it knows of the     *)
(* server, and the server's own state, keep their types.                   *)
(***************************************************************************)
ServerTyped ==
    /\ fetches \subseteq [kind : Kinds, answer : Answers \cup {NoAnswer}]
    /\ role \in [Conns -> {"none", "control", "viewer", "over"}]
    /\ seat \in {"free", "me", "other"}
    /\ vm \in BOOLEAN
    /\ changes \in 0..MaxChanges

TabSound == Sound(tab) /\ tab.rfb # Blocked

IInv == TabSound /\ ServerTyped

LEMMA InvImplies == IInv => TypeOK /\ RFBFollowsMode
<1> SUFFICES ASSUME IInv PROVE TypeOK /\ RFBFollowsMode
  OBVIOUS
<1>1. tab \in Tabs /\ tab.rfb \in Conns \cup {NoRFB}
  BY DEF IInv, TabSound, Sound, Tabs
<1>2. tab \in [rfb : Conns \cup {NoRFB}, mode : Modes, timer : BOOLEAN,
               running : BOOLEAN, conn : [Conns -> Objects]]
  BY <1>1 DEF Tabs
<1>3. tab.rfb # NoRFB => tab.rfb \in Conns
  BY <1>1
<1>4. TypeOK
  BY <1>2, <1>3 DEF IInv, TabSound, ServerTyped, Sound, Live, TypeOK
<1>5. RFBFollowsMode
  BY <1>3, Zenon DEF IInv, TabSound, Sound, Muted, Asked, RFBFollowsMode
<1>6. QED
  BY <1>4, <1>5

LEMMA InitSound == Init => IInv
<1> SUFFICES ASSUME Init PROVE IInv
  OBVIOUS
<1> DEFINE t == [rfb |-> NoRFB, mode |-> "control", timer |-> FALSE,
                 running |-> vm, conn |-> [c \in Conns |-> NoObject]]
<1>1. NoObject \in Objects
  BY DEF NoObject, Objects, Modes
<1>2. t \in Tabs /\ t.rfb = NoRFB
  BY <1>1 DEF Init, Tabs, Modes
<1>3. Sound(t)
  BY <1>2, ViewerAssumption DEF Sound, Live, Asked, Muted
<1>4. Sound(tab)
  BY <1>3, ApplyVMStatusSound DEF Init
<1>5. tab.rfb # Blocked
  <2> DEFINE u == [t EXCEPT !.running = vm]
  <2>1. u.rfb = NoRFB /\ u.conn = [c \in Conns |-> NoObject]
    OBVIOUS
  <2>2. Unused(u) # {}
    BY <2>1, ViewerAssumption DEF Unused, Init, NoObject
  <2>3. (CHOOSE c \in Unused(u) : TRUE) \in Conns
    BY <2>2 DEF Unused
  <2>4. tab = IF vm THEN connect(u) ELSE disconnect(u)
    BY DEF Init, applyVMStatus
  <2> HIDE DEF u
  <2>5. connect(u) = LET c == CHOOSE c \in Unused(u) : TRUE
                     IN  [u EXCEPT !.rfb = c, !.timer = FALSE, !.conn[c] = NewObject(u)]
    BY <2>1, <2>2 DEF connect
  <2>6. u \in Tabs
    BY <1>2 DEF Init, Tabs, u
  <2>7. connect(u).rfb \in Conns
    BY <2>3, <2>5, <2>6 DEF Tabs
  <2>8. disconnect(u).rfb = NoRFB
    BY <2>1, ViewerAssumption DEF disconnect
  <2>9. QED
    BY <2>4, <2>7, <2>8, ViewerAssumption
<1>6. ServerTyped
  BY ViewerAssumption DEF Init, ServerTyped
<1>7. QED
  BY <1>4, <1>5, <1>6 DEF IInv, TabSound

-----------------------------------------------------------------------------
(***************************************************************************)
(* Every step preserves it: first the types of the server's state and of   *)
(* the calls, then the tab.                                                *)
(***************************************************************************)
LEMMA AnsweredTyped ==
    ASSUME vm' \in BOOLEAN, seat' \in {"free", "me", "other"}, NEW kind \in Kinds
    PROVE  Answered(kind) \in [kind : Kinds, answer : Answers \cup {NoAnswer}]
BY DEF Answered, Answers

LEMMA ServerStep == IInv /\ Next => ServerTyped'
<1> SUFFICES ASSUME IInv, Next PROVE ServerTyped'
  OBVIOUS
<1> USE DEF IInv, ServerTyped
<1>1. changes' \in 0..MaxChanges
  <2>1. changes' = changes \/ Change
    BY DEF Next, Poll, RetryFires, RetryAnswered, ClickTake, ClickVM,
       Reply, FetchFails, HandshakeDone, Fail, CloseEvent, ConnectionLost, DisconnectTimeout,
       Collected, Upgrade, BridgeEnds, OtherTakes, OtherLeaves, VMChanges
  <2>2. QED
    BY <2>1, ViewerAssumption DEF Change
<1>2. vm' \in BOOLEAN
  BY Zenon DEF Next, Poll, RetryFires, RetryAnswered, ClickTake, ClickVM,
     Reply, FetchFails, HandshakeDone, Fail, CloseEvent, ConnectionLost, DisconnectTimeout,
     Collected, Upgrade, BridgeEnds, OtherTakes, OtherLeaves, VMChanges
<1>3. seat' \in {"free", "me", "other"}
  BY DEF Next, Poll, RetryFires, RetryAnswered, ClickTake, ClickVM,
     Reply, FetchFails, HandshakeDone, Fail, CloseEvent, ConnectionLost, DisconnectTimeout,
     Collected, Upgrade, BridgeEnds, OtherTakes, OtherLeaves, VMChanges
<1>4. role' \in [Conns -> {"none", "control", "viewer", "over"}]
  BY DEF Next, Poll, RetryFires, RetryAnswered, ClickTake, ClickVM,
     Reply, FetchFails, HandshakeDone, Fail, CloseEvent, ConnectionLost, DisconnectTimeout,
     Collected, Upgrade, BridgeEnds, OtherTakes, OtherLeaves, VMChanges
<1>5. fetches' \subseteq [kind : Kinds, answer : Answers \cup {NoAnswer}]
  <2>1. \A kind \in Kinds :
           Answered(kind) \in [kind : Kinds, answer : Answers \cup {NoAnswer}]
    BY <1>2, <1>3, AnsweredTyped
  <2>2. Call("retry") \in [kind : Kinds, answer : Answers \cup {NoAnswer}]
    BY DEF Call, Kinds
  <2>3. \/ fetches' \subseteq fetches
        \/ fetches' \subseteq fetches \cup {Call("retry")}
        \/ \E kind \in Kinds : fetches' \subseteq fetches \cup {Answered(kind)}
    BY DEF Next, Poll, RetryFires, RetryAnswered, ClickTake, ClickVM,
       Reply, FetchFails, HandshakeDone, Fail, CloseEvent, ConnectionLost, DisconnectTimeout,
       Collected, Upgrade, BridgeEnds, OtherTakes, OtherLeaves, VMChanges, Kinds
  <2>4. QED
    BY <2>1, <2>2, <2>3
<1>6. QED
  BY <1>1, <1>2, <1>3, <1>4, <1>5

LEMMA ClosedSound ==
    ASSUME TabSound, NEW c \in Conns, Closed(c)
    PROVE  TabSound'
<1> DEFINE k == [tab.conn[c] EXCEPT !.sock = "closed"]
           t == [tab EXCEPT !.conn[c] = Disconnected(Disconnecting(k))]
<1>1. k \in Objects /\ k.st = tab.conn[c].st
  BY DEF TabSound, Sound, Tabs, Objects
<1>2. Disconnected(Disconnecting(k)) \in Objects
  BY <1>1, DisconnectingTyped
<1>3. CASE k.st = "disconnected"
  <2>1. c # tab.rfb
    BY <1>1, <1>3 DEF TabSound, Sound, Live
  <2>2. tab' = [tab EXCEPT !.conn = [tab.conn EXCEPT ![c] = Disconnected(Disconnecting(k))]]
    BY <1>3 DEF Closed
  <2>3. Sound([tab EXCEPT !.conn = [tab.conn EXCEPT ![c] = Disconnected(Disconnecting(k))]])
    BY <1>2, <2>1, ObjectChanged DEF TabSound
  <2>4. Sound(tab')
    BY <2>2, <2>3
  <2>5. tab'.rfb = tab.rfb
    BY <2>2 DEF TabSound, Sound, Tabs
  <2>6. QED
    BY <2>4, <2>5 DEF TabSound, Sound, Tabs, Live, Asked, Muted
<1>4. CASE k.st # "disconnected"
  <2>1. t \in Tabs
    BY <1>2 DEF TabSound, Sound, Tabs
  <2>2. tab' = DisconnectEvent(t)
    BY <1>4 DEF Closed
  <2> HIDE DEF t
  <2>3. Sound(tab') /\ tab'.rfb = NoRFB
    BY <2>1, <2>2, DisconnectEventSound
  <2>4. QED
    BY <2>3, ViewerAssumption DEF TabSound, Sound, Tabs, Live, Asked, Muted
<1>5. QED
  BY <1>3, <1>4

\* A step that leaves the tab, or only its timer, as it was.
LEMMA TabKept ==
    ASSUME TabSound, NEW on \in BOOLEAN, tab' = tab \/ tab' = [tab EXCEPT !.timer = on]
    PROVE  TabSound'
<1>1. /\ tab' \in Tabs /\ tab'.rfb = tab.rfb /\ tab'.mode = tab.mode
      /\ tab'.conn = tab.conn
  BY DEF TabSound, Sound, Tabs
<1>2. QED
  BY <1>1 DEF TabSound, Sound, Tabs, Live, Asked, Muted

\* A step of one object, as in ObjectChanged.
LEMMA ObjectStep ==
    ASSUME TabSound, NEW c \in Conns, NEW k \in Objects,
           tab' = [tab EXCEPT !.conn = [tab.conn EXCEPT ![c] = k]],
           \/ c # tab.rfb
           \/ /\ k.viewOnly = tab.conn[c].viewOnly /\ k.url = tab.conn[c].url
              /\ k.st = tab.conn[c].st \/ k.st \in {"connecting", "connected"}
    PROVE  TabSound'
<1>1. Sound(tab')
  BY ObjectChanged DEF TabSound
<1>2. tab'.rfb = tab.rfb
  BY DEF TabSound, Sound, Tabs
<1>3. QED
  BY <1>1, <1>2 DEF TabSound, Sound, Tabs, Live, Asked, Muted

\* A step that ends in the disconnect event.
LEMMA EventStep ==
    ASSUME TabSound, NEW c \in Conns, NEW k \in Objects,
           tab' = DisconnectEvent([tab EXCEPT !.conn[c] = k])
    PROVE  TabSound'
<1> DEFINE t == [tab EXCEPT !.conn[c] = k]
<1>1. t \in Tabs
  BY DEF TabSound, Sound, Tabs
<1> HIDE DEF t
<1>2. Sound(tab') /\ tab'.rfb = NoRFB
  BY <1>1, DisconnectEventSound DEF t
<1>3. QED
  BY <1>2, ViewerAssumption DEF TabSound, Sound, Tabs, Live, Asked, Muted

LEMMA TabStep == IInv /\ [Next]_vars => TabSound'
<1> SUFFICES ASSUME IInv, [Next]_vars PROVE TabSound'
  OBVIOUS
<1> USE DEF IInv
<1>1. CASE \/ Poll \/ RetryAnswered \/ ClickTake \/ ClickVM
           \/ OtherTakes \/ OtherLeaves \/ VMChanges \/ UNCHANGED vars
  <2>1. tab' = tab
    BY <1>1 DEF Poll, RetryAnswered, ClickTake, ClickVM, OtherTakes, OtherLeaves, VMChanges, vars
  <2>2. QED
    BY <2>1, TabKept
<1>2. CASE RetryFires
  BY <1>2, TabKept DEF RetryFires
<1>3. ASSUME NEW f \in fetches, Reply(f) PROVE TabSound'
  <2>1. f.kind \in Kinds /\ f.answer \in Answers
    BY <1>3 DEF ServerTyped, Reply
  <2>2. Sound(Handled(tab, f))
    BY <2>1, HandledSound DEF TabSound
  <2>3. Sound(tab') /\ tab'.rfb # Blocked
    BY <1>3, <2>2 DEF Reply
  <2>4. QED
    BY <2>3 DEF TabSound, Sound, Tabs, Live, Asked, Muted
<1>4. ASSUME NEW f \in fetches, FetchFails(f) PROVE TabSound'
  <2>1. Sound(tab') /\ tab'.rfb # Blocked
    BY <1>4, AfterRetrySound DEF FetchFails, TabSound
  <2>2. QED
    BY <2>1 DEF TabSound, Sound, Tabs, Live, Asked, Muted
<1>5. ASSUME NEW c \in Conns, HandshakeDone(c) PROVE TabSound'
  <2> DEFINE k == [tab.conn[c] EXCEPT !.st = "connected"]
  <2>1. /\ k \in Objects /\ k.st = "connected"
        /\ k.viewOnly = tab.conn[c].viewOnly /\ k.url = tab.conn[c].url
    BY DEF TabSound, Sound, Tabs, Objects
  <2>2. tab' = [tab EXCEPT !.conn = [tab.conn EXCEPT ![c] = k]]
    BY <1>5 DEF HandshakeDone
  <2> HIDE DEF k
  <2>3. QED
    BY <2>1, <2>2, ObjectStep
<1>6. ASSUME NEW c \in Conns, Fail(c) PROVE TabSound'
  <2>1. Disconnected(Disconnecting(tab.conn[c])) \in Objects
    BY DisconnectingTyped DEF TabSound, Sound, Tabs
  <2>2. QED
    BY <1>6, <2>1, EventStep DEF Fail
<1>7. ASSUME NEW c \in Conns, CloseEvent(c) \/ ConnectionLost(c) PROVE TabSound'
  BY <1>7, ClosedSound DEF CloseEvent, ConnectionLost
<1>8. ASSUME NEW c \in Conns, DisconnectTimeout(c) PROVE TabSound'
  <2>1. Disconnected(tab.conn[c]) \in Objects
    BY DisconnectingTyped DEF TabSound, Sound, Tabs
  <2>2. QED
    BY <1>8, <2>1, EventStep DEF DisconnectTimeout
<1>9. ASSUME NEW c \in Conns, Collected(c) PROVE TabSound'
  <2>1. NoObject \in Objects
    BY DEF NoObject, Objects, Modes
  <2>2. c # tab.rfb
    BY <1>9 DEF Collected, TabSound, Sound, Live
  <2>3. tab' = [tab EXCEPT !.conn = [tab.conn EXCEPT ![c] = NoObject]]
    BY <1>9 DEF Collected
  <2>4. QED
    BY <2>1, <2>2, <2>3, ObjectStep
<1>10. ASSUME NEW c \in Conns, Upgrade(c) PROVE TabSound'
  <2> DEFINE k == [tab.conn[c] EXCEPT !.sock = IF @ = "connecting" THEN "open" ELSE @]
  <2>1. /\ k \in Objects /\ k.st = tab.conn[c].st
        /\ k.viewOnly = tab.conn[c].viewOnly /\ k.url = tab.conn[c].url
    BY DEF TabSound, Sound, Tabs, Objects
  <2>2. tab' = [tab EXCEPT !.conn = [tab.conn EXCEPT ![c] = k]]
    BY <1>10 DEF Upgrade
  <2> HIDE DEF k
  <2>3. QED
    BY <2>1, <2>2, ObjectStep
<1>11. ASSUME NEW c \in Conns, BridgeEnds(c) PROVE TabSound'
  BY <1>11, TabKept DEF BridgeEnds
<1>12. QED
  BY <1>1, <1>2, <1>3, <1>4, <1>5, <1>6, <1>7, <1>8, <1>9, <1>10, <1>11 DEF Next

LEMMA IInvInvariant == Spec => []IInv
<1>1. Init => IInv
  BY InitSound
<1>2. IInv /\ [Next]_vars => IInv'
  <2> SUFFICES ASSUME IInv, [Next]_vars PROVE IInv'
    OBVIOUS
  <2>1. TabSound'
    BY TabStep
  <2>2. ServerTyped'
    <3>1. CASE Next
      BY <3>1, ServerStep
    <3>2. CASE UNCHANGED vars
      BY <3>2 DEF IInv, ServerTyped, vars
    <3>3. QED
      BY <3>1, <3>2
  <2>3. QED
    BY <2>1, <2>2 DEF IInv
<1>3. QED
  BY <1>1, <1>2, PTL DEF Spec

\* The variables of the page and of what it sees keep their types; rfb refers
\* to no object that has begun to disconnect (disconnect and the listener of
\* the disconnect event clear it).
THEOREM ViewerTypeCorrect == Spec => []TypeOK
<1>1. IInv => TypeOK
  BY InvImplies
<1>2. QED
  BY <1>1, IInvInvariant, PTL

\* The object the page drives is muted exactly in view mode, and one that is
\* to control has asked for it, for any number of objects and late answers
\* (connect, applyControl and btnControl.onclick).
THEOREM ObjectFollowsMode == Spec => []RFBFollowsMode
<1>1. IInv => RFBFollowsMode
  BY InvImplies
<1>2. QED
  BY <1>1, IInvInvariant, PTL

------------------------------------------------------------------------------
(* The Keyboard.  "Held down at the other end" is always in its list.      *)

KeySyms == UNION {Keysyms[c] : c \in DOMAIN Keysyms}
MacSyms == {MacKeysyms[s] : s \in DOMAIN MacKeysyms}
Syms == KeySyms \cup MacSyms \cup {"Control_L", "ISO_Level3_Shift", "Caps_Lock", "v"}
Names == Keys \cup shifts \cup {"ControlLeft", "CapsLock", "Unidentified"}
Lists == UNION {[D -> Syms] : D \in SUBSET Names}
Boards == [list : Lists, armed : BOOLEAN, down : SUBSET Syms]

Listed(k) == {k.list[c] : c \in Codes(k)}

\* What is down is listed, and an armed Control is not.
SoundKeyboard(k) ==
    /\ k \in Boards
    /\ k.down \subseteq Listed(k)
    /\ k.armed => "ControlLeft" \notin Codes(k)

\* A list is a function from names of keys to keysyms.
LEMMA ListsAreFunctions ==
    ASSUME NEW f \in Lists
    PROVE  /\ DOMAIN f \subseteq Names
           /\ \A c \in DOMAIN f : f[c] \in Syms
           /\ f = [c \in DOMAIN f |-> f[c]]
BY DEF Lists

\* And a function from names of keys to keysyms is a list.
LEMMA FunctionsAreLists ==
    ASSUME NEW D, D \subseteq Names, NEW f, f = [c \in D |-> f[c]], \A c \in D : f[c] \in Syms
    PROVE  f \in Lists
<1>1. f \in [D -> Syms]  OBVIOUS
<1>2. QED  BY <1>1 DEF Lists

\* _sendKeyEvent with a key that goes down.
LEMMA SendKeyDownSound ==
    ASSUME NEW k, SoundKeyboard(k), ~k.armed, NEW sym \in Syms, NEW code \in Names,
           code \in Codes(k) => k.list[code] = sym
    PROVE  LET r == sendKeyDown(k, sym, code)
           IN  SoundKeyboard(r) /\ ~r.armed /\ Codes(r) = Codes(k) \cup {code} /\ r.list[code] = sym
<1> DEFINE r == sendKeyDown(k, sym, code)
           D == Codes(k) \cup {code}
           f == [c \in D |-> IF c = code THEN sym ELSE k.list[c]]
<1>1. k \in Boards /\ k.down \subseteq Listed(k)  BY DEF SoundKeyboard
<1>2. r = [list |-> f, armed |-> k.armed, down |-> k.down \cup {sym}]
  <2>1. k = [list |-> k.list, armed |-> k.armed, down |-> k.down]  BY <1>1 DEF Boards
  <2>2. r = [k EXCEPT !.list = f, !.down = k.down \cup {sym}]  BY DEF sendKeyDown
  <2> HIDE DEF r, f
  <2>3. QED  BY <2>1, <2>2
<1>3. k.list \in Lists /\ k.armed \in BOOLEAN /\ k.down \in SUBSET Syms  BY <1>1 DEF Boards
<1>4. D \subseteq Names /\ \A c \in Codes(k) : k.list[c] \in Syms
  BY <1>3, ListsAreFunctions DEF Codes
<1>5. f \in Lists
  <2>1. \A c \in D : f[c] \in Syms  BY <1>4
  <2> HIDE DEF D
  <2>2. f = [c \in D |-> f[c]]  OBVIOUS
  <2>3. QED  BY <1>4, <2>1, <2>2, FunctionsAreLists
<1>6. r \in Boards  BY <1>2, <1>3, <1>5 DEF Boards
<1>7. Codes(r) = D /\ \A c \in D : r.list[c] = IF c = code THEN sym ELSE k.list[c]
  BY <1>2 DEF Codes
<1>8. r.down \subseteq Listed(r)
  <2>1. \A c \in Codes(k) : r.list[c] = k.list[c]  BY <1>7
  <2>2. Listed(k) \subseteq Listed(r) /\ r.list[code] = sym  BY <1>7, <2>1 DEF Listed
  <2>3. sym \in Listed(r)  BY <1>7, <2>2 DEF Listed
  <2>4. r.down = k.down \cup {sym}  BY <1>2
  <2> HIDE DEF r
  <2>5. QED  BY <1>1, <2>2, <2>3, <2>4
<1>9. QED  BY <1>2, <1>6, <1>7, <1>8 DEF SoundKeyboard

\* _sendKeyEvent with a key that goes up.
LEMMA SendKeyUpSound ==
    ASSUME NEW k, SoundKeyboard(k), NEW code
    PROVE  LET r == sendKeyUp(k, code)
           IN  SoundKeyboard(r) /\ r.armed = k.armed /\ Codes(r) = Codes(k) \ {code}
<1> DEFINE r == sendKeyUp(k, code)
           D == Codes(k) \ {code}
           f == [c \in D |-> k.list[c]]
<1>1. k \in Boards /\ k.down \subseteq Listed(k)  BY DEF SoundKeyboard
<1>2. CASE code \notin Codes(k)  BY <1>2 DEF sendKeyUp
<1>3. CASE code \in Codes(k)
  <2>1. r = [list |-> f, armed |-> k.armed, down |-> k.down \ {k.list[code]}]
    BY <1>1, <1>3 DEF sendKeyUp, Boards
  <2>2. k.list \in Lists /\ k.armed \in BOOLEAN /\ k.down \in SUBSET Syms  BY <1>1 DEF Boards
  <2>3. D \subseteq Names /\ \A c \in Codes(k) : k.list[c] \in Syms
    BY <2>2, ListsAreFunctions DEF Codes
  <2>4. f \in Lists
    <3>1. \A c \in D : f[c] \in Syms  BY <2>3
    <3> HIDE DEF D
    <3>2. f = [c \in D |-> f[c]]  OBVIOUS
    <3>3. QED  BY <2>3, <3>1, <3>2, FunctionsAreLists
  <2>5. r \in Boards  BY <2>1, <2>2, <2>4 DEF Boards
  <2>6. Codes(r) = D /\ \A c \in D : r.list[c] = k.list[c]  BY <2>1 DEF Codes
  <2>7. r.down \subseteq Listed(r)
    <3>1. r.down = k.down \ {k.list[code]}  BY <2>1
    <3> HIDE DEF r
    <3>2. QED  BY <1>1, <2>6, <3>1 DEF Listed
  <2>8. QED  BY <2>1, <2>5, <2>6, <2>7 DEF SoundKeyboard
<1>4. QED  BY <1>2, <1>3

\* A key whose release will not come: it goes down and up, and is not listed.
LEMMA PressAndReleaseSound ==
    ASSUME NEW k, SoundKeyboard(k), ~k.armed, NEW sym \in Syms, NEW code \in Names,
           code \in Codes(k) => k.list[code] = sym
    PROVE  LET r == PressAndRelease(k, sym, code)
           IN  SoundKeyboard(r) /\ ~r.armed /\ Codes(r) = Codes(k) \ {code}
<1> DEFINE d == sendKeyDown(k, sym, code)
<1>1. SoundKeyboard(d) /\ ~d.armed /\ Codes(d) = Codes(k) \cup {code}  BY SendKeyDownSound
<1> HIDE DEF d
<1>2. SoundKeyboard(sendKeyUp(d, code)) /\ ~sendKeyUp(d, code).armed
      /\ Codes(sendKeyUp(d, code)) = Codes(d) \ {code}
  BY <1>1, SendKeyUpSound
<1>3. QED  BY <1>1, <1>2 DEF PressAndRelease, d

\* The wait for AltGr ends without a Control.
LEMMA DisarmedSound ==
    ASSUME NEW k, SoundKeyboard(k)
    PROVE  LET r == [k EXCEPT !.armed = FALSE]
           IN  SoundKeyboard(r) /\ ~r.armed /\ r.list = k.list /\ Codes(r) = Codes(k)
<1> DEFINE r == [k EXCEPT !.armed = FALSE]
<1>1. k \in Boards /\ k.down \subseteq Listed(k)  BY DEF SoundKeyboard
<1>2. r = [list |-> k.list, armed |-> FALSE, down |-> k.down]
  <2>1. k = [list |-> k.list, armed |-> k.armed, down |-> k.down]  BY <1>1 DEF Boards
  <2>2. r = [k EXCEPT !.armed = FALSE]  OBVIOUS
  <2> HIDE DEF r
  <2>3. QED  BY <2>1, <2>2
<1>3. r \in Boards /\ Codes(r) = Codes(k) /\ Listed(r) = Listed(k)
  BY <1>1, <1>2 DEF Boards, Codes, Listed
<1>4. QED  BY <1>1, <1>2, <1>3 DEF SoundKeyboard

\* The Control that was held back is down after all.
Interrupted(k) == Codes(k) \cup IF k.armed THEN {"ControlLeft"} ELSE {}

\* _interruptAltGrSequence lists the Control that was held back.
LEMMA InterruptSound ==
    ASSUME NEW k, SoundKeyboard(k)
    PROVE  LET r == interruptAltGrSequence(k)
           IN  SoundKeyboard(r) /\ ~r.armed /\ Codes(r) = Interrupted(k)
<1> DEFINE d == [k EXCEPT !.armed = FALSE]
<1>1. CASE ~k.armed  BY <1>1 DEF interruptAltGrSequence, Interrupted
<1>2. CASE k.armed
  <2>1. SoundKeyboard(d) /\ ~d.armed /\ Codes(d) = Codes(k)  BY DisarmedSound
  <2>2. "ControlLeft" \notin Codes(d)  BY <1>2, <2>1 DEF SoundKeyboard
  <2>3. "ControlLeft" \in Names   BY DEF Names
  <2>4. "Control_L" \in Syms  BY DEF Syms
  <2> HIDE DEF d
  <2>5. LET r == sendKeyDown(d, "Control_L", "ControlLeft")
        IN  SoundKeyboard(r) /\ ~r.armed /\ Codes(r) = Codes(d) \cup {"ControlLeft"}
    BY <2>1, <2>2, <2>3, <2>4, SendKeyDownSound
  <2>6. QED  BY <1>2, <2>1, <2>5 DEF interruptAltGrSequence, Interrupted, d
<1>3. QED  BY <1>1, <1>2

\* After the start of a key press nothing waits for AltGr.
LEMMA AltGrEndsSound ==
    ASSUME NEW k, SoundKeyboard(k), NEW code, NEW quick \in BOOLEAN
    PROVE  LET r == AltGrEnds(k, code, quick)
           IN  /\ SoundKeyboard(r) /\ ~r.armed
               /\ Codes(r) = IF code = "AltRight" /\ quick THEN Codes(k) ELSE Interrupted(k)
<1>1. CASE code = "AltRight" /\ quick  BY <1>1, DisarmedSound DEF AltGrEnds
<1>2. CASE ~(code = "AltRight" /\ quick)  BY <1>2, InterruptSound DEF AltGrEnds
<1>3. QED  BY <1>1, <1>2

\* A key that is down goes on with the keysym it is down with.
LEMMA KeysymOfSound ==
    ASSUME NEW k, SoundKeyboard(k), NEW plat, NEW sym \in Syms, NEW code, NEW quick \in BOOLEAN
    PROVE  LET j == AltGrEnds(k, code, quick)
               key == KeysymOf(k, plat, sym, code, quick)
           IN  /\ key \in Syms
               /\ code \in Codes(j) => j.list[code] = key
               /\ plat # "mac" /\ code \notin Codes(j) /\ code # "AltRight" => key = sym
<1> DEFINE j == AltGrEnds(k, code, quick)
           key == KeysymOf(k, plat, sym, code, quick)
<1>1. SoundKeyboard(j)  BY AltGrEndsSound
<1>2. j.list \in Lists  BY <1>1 DEF SoundKeyboard, Boards
<1>3. \A c \in Codes(j) : j.list[c] \in Syms  BY <1>2, ListsAreFunctions DEF Codes
<1>4. "ISO_Level3_Shift" \in Syms  BY DEF Syms
<1>5. \A s \in DOMAIN MacKeysyms : MacKeysyms[s] \in Syms  BY DEF Syms, MacSyms
<1>6. key = CASE code \in Codes(j) -> j.list[code]
              [] code \notin Codes(j) /\ k.armed /\ code = "AltRight" /\ quick -> "ISO_Level3_Shift"
              [] code \notin Codes(j) /\ plat = "mac" /\ sym \in DOMAIN MacKeysyms -> MacKeysyms[sym]
              [] OTHER -> sym
  BY DEF KeysymOf, Codes
<1> HIDE DEF j, key
<1>7. key \in Syms /\ (code \in Codes(j) => j.list[code] = key)  BY <1>3, <1>4, <1>5, <1>6
<1>8. plat # "mac" /\ code \notin Codes(j) /\ code # "AltRight" => key = sym  BY <1>6
<1>9. QED  BY <1>7, <1>8 DEF j, key

\* _handleKeyDown lists at most this key and the Control that was held back,
\* and never a key whose release it does not expect.
LEMMA KeyDownSound ==
    ASSUME NEW k, SoundKeyboard(k), NEW plat, NEW sym \in Syms, NEW code \in Names,
           NEW quick \in BOOLEAN, NEW meta \in BOOLEAN,
           "Unidentified" \notin Codes(k), plat = "mac" => "CapsLock" \notin Codes(k)
    PROVE  LET r == handleKeyDown(k, plat, sym, code, quick, meta)
           IN  /\ SoundKeyboard(r)
               /\ Codes(r) \subseteq Interrupted(k) \cup {code}
               /\ "Unidentified" \notin Codes(r)
               /\ r.armed => code = "ControlLeft" /\ plat = "windows"
               /\ plat = "mac" /\ ((meta /\ code \notin metas) \/ code = "CapsLock") =>
                     code \notin Codes(r)
               /\ /\ plat = "windows" /\ sym \in jpBadKeys
                  /\ code \notin Codes(k) \cup {"AltRight", "ControlLeft"}
                  => code \notin Codes(r)
<1> DEFINE j == AltGrEnds(k, code, quick)
           key == KeysymOf(k, plat, sym, code, quick)
           r == handleKeyDown(k, plat, sym, code, quick, meta)
           Goal == /\ SoundKeyboard(r)
                   /\ Codes(r) \subseteq Interrupted(k) \cup {code}
                   /\ "Unidentified" \notin Codes(r)
                   /\ r.armed => code = "ControlLeft" /\ plat = "windows"
                   /\ plat = "mac" /\ ((meta /\ code \notin metas) \/ code = "CapsLock") =>
                         code \notin Codes(r)
                   /\ /\ plat = "windows" /\ sym \in jpBadKeys
                      /\ code \notin Codes(k) \cup {"AltRight", "ControlLeft"}
                      => code \notin Codes(r)
<1>1. /\ SoundKeyboard(j) /\ ~j.armed
      /\ Codes(j) \subseteq Interrupted(k)
      /\ "Unidentified" \notin Codes(j)
      /\ plat = "mac" /\ code = "CapsLock" => code \notin Codes(j)
      /\ code \notin Codes(k) \cup {"ControlLeft"} => code \notin Codes(j)
  BY AltGrEndsSound DEF Interrupted
<1>2. /\ key \in Syms
      /\ code \in Codes(j) => j.list[code] = key
      /\ plat # "mac" /\ code \notin Codes(j) /\ code # "AltRight" => key = sym
  BY KeysymOfSound
<1>3. r = IF code = "Unidentified" THEN PressAndRelease(j, sym, code)
          ELSE IF ReleasedAtOnce(plat, key, code, meta) THEN PressAndRelease(j, key, code)
          ELSE IF plat = "mac" /\ code = "CapsLock" THEN PressAndRelease(j, "Caps_Lock", code)
          ELSE IF code = "ControlLeft" /\ plat = "windows" /\ code \notin Codes(j)
          THEN [j EXCEPT !.armed = TRUE]
          ELSE sendKeyDown(j, key, code)
  BY DEF handleKeyDown
<1>4. "Caps_Lock" \in Syms  BY DEF Syms
<1> SUFFICES Goal  OBVIOUS
<1> HIDE DEF j, key, r
<1>5. CASE \E s \in Syms : /\ r = PressAndRelease(j, s, code)
                           /\ code \in Codes(j) => j.list[code] = s
  <2>1. SoundKeyboard(r) /\ ~r.armed /\ Codes(r) = Codes(j) \ {code}  BY <1>1, <1>5, PressAndReleaseSound
  <2>2. QED  BY <1>1, <2>1
<1>6. CASE r = [j EXCEPT !.armed = TRUE] /\ code = "ControlLeft" /\ plat = "windows"
           /\ code \notin Codes(j)
  <2>1. j = [list |-> j.list, armed |-> j.armed, down |-> j.down]  BY <1>1 DEF SoundKeyboard, Boards
  <2>2. r = [list |-> j.list, armed |-> TRUE, down |-> j.down]  BY <1>6, <2>1
  <2>3. r \in Boards /\ Codes(r) = Codes(j) /\ Listed(r) = Listed(j) /\ r.down = j.down
    BY <1>1, <2>2 DEF SoundKeyboard, Boards, Codes, Listed
  <2>4. SoundKeyboard(r)  BY <1>1, <1>6, <2>3 DEF SoundKeyboard
  <2>5. QED  BY <1>1, <1>6, <2>3, <2>4
<1>7. CASE /\ r = sendKeyDown(j, key, code) /\ code # "Unidentified"
           /\ ~ReleasedAtOnce(plat, key, code, meta) /\ ~(plat = "mac" /\ code = "CapsLock")
  <2>1. SoundKeyboard(r) /\ ~r.armed /\ Codes(r) = Codes(j) \cup {code}
    BY <1>1, <1>2, <1>7, SendKeyDownSound
  <2>2. /\ ~(plat = "mac" /\ meta /\ code \notin metas)
        /\ ~(plat = "windows" /\ key \in jpBadKeys)
    BY <1>7 DEF ReleasedAtOnce
  <2>3. QED  BY <1>1, <1>2, <1>7, <2>1, <2>2
<1>8. QED  BY <1>1, <1>2, <1>3, <1>4, <1>5, <1>6, <1>7

\* _handleKeyUp unlists this key and, on Windows, both Shifts.
LEMMA KeyUpSound ==
    ASSUME NEW k, SoundKeyboard(k), NEW plat, NEW code \in Names,
           plat = "mac" => "CapsLock" \notin Codes(k)
    PROVE  LET r == handleKeyUp(k, plat, code)
           IN  /\ SoundKeyboard(r) /\ ~r.armed
               /\ Codes(r) \subseteq Interrupted(k) \ {code}
               /\ plat = "windows" /\ code \in shifts => Codes(r) \cap shifts = {}
<1> DEFINE j == interruptAltGrSequence(k)
           r == handleKeyUp(k, plat, code)
<1>1. SoundKeyboard(j) /\ ~j.armed /\ Codes(j) = Interrupted(k)  BY InterruptSound
<1>2. r = IF plat = "mac" /\ code = "CapsLock" THEN PressAndRelease(j, "Caps_Lock", code)
          ELSE BothShifts(sendKeyUp(j, code), plat, code)
  BY DEF handleKeyUp
<1> HIDE DEF j, r
<1>3. CASE plat = "mac" /\ code = "CapsLock"
  <2>1. "Caps_Lock" \in Syms /\ code \notin Codes(j)  BY <1>1, <1>3 DEF Syms, Interrupted
  <2>2. SoundKeyboard(r) /\ ~r.armed /\ Codes(r) = Codes(j) \ {code}
    BY <1>1, <1>2, <1>3, <2>1, PressAndReleaseSound
  <2>3. QED  BY <1>1, <1>3, <2>2 DEF r
<1>4. CASE ~(plat = "mac" /\ code = "CapsLock")
  <2> DEFINE u == sendKeyUp(j, code)
             v == sendKeyUp(u, "ShiftRight")
             w == sendKeyUp(v, "ShiftLeft")
  <2>1. SoundKeyboard(u) /\ ~u.armed /\ Codes(u) = Codes(j) \ {code}  BY <1>1, SendKeyUpSound
  <2>2. r = IF plat = "windows" /\ code \in shifts THEN w ELSE u  BY <1>2, <1>4 DEF BothShifts
  <2> HIDE DEF u
  <2>3. SoundKeyboard(v) /\ ~v.armed /\ Codes(v) = Codes(u) \ {"ShiftRight"}  BY <2>1, SendKeyUpSound
  <2> HIDE DEF v
  <2>4. SoundKeyboard(w) /\ ~w.armed /\ Codes(w) = Codes(v) \ {"ShiftLeft"}  BY <2>3, SendKeyUpSound
  <2> HIDE DEF w
  <2>5. /\ SoundKeyboard(r) /\ ~r.armed
        /\ Codes(r) \subseteq Interrupted(k) \ {code}
        /\ plat = "windows" /\ code \in shifts => Codes(r) \cap shifts = {}
    BY <1>1, <2>1, <2>2, <2>3, <2>4 DEF shifts
  <2>6. QED  BY <2>5 DEF r
<1>5. QED  BY <1>3, <1>4

\* _allKeysUp leaves nothing down.
LEMMA AllKeysUpSound ==
    ASSUME NEW k, SoundKeyboard(k)
    PROVE  allKeysUp(k) = NewKeyboard
<1> DEFINE j == interruptAltGrSequence(k)
<1>1. SoundKeyboard(j) /\ ~j.armed  BY InterruptSound
<1>2. allKeysUp(k) = [j EXCEPT !.list = <<>>, !.down = @ \ Listed(j)]  BY DEF allKeysUp, Listed
<1> HIDE DEF j
<1>3. j = [list |-> j.list, armed |-> j.armed, down |-> j.down]  BY <1>1 DEF SoundKeyboard, Boards
<1>4. j.armed = FALSE /\ j.down \ Listed(j) = {}  BY <1>1 DEF SoundKeyboard, Boards
<1>5. allKeysUp(k) = [list |-> <<>>, armed |-> j.armed, down |-> j.down \ Listed(j)]
  BY <1>2, <1>3
<1>6. QED  BY <1>4, <1>5 DEF NewKeyboard

\* A new Keyboard lists nothing.
LEMMA NewKeyboardSound ==
    SoundKeyboard(NewKeyboard) /\ Codes(NewKeyboard) = {} /\ ~NewKeyboard.armed
<1>1. DOMAIN <<>> = {}  OBVIOUS
<1>2. <<>> \in Lists
  <2>1. <<>> \in [{} -> Syms]  OBVIOUS
  <2>2. QED  BY <2>1 DEF Lists
<1>3. QED  BY <1>1, <1>2 DEF SoundKeyboard, NewKeyboard, Boards, Codes, Listed

------------------------------------------------------------------------------
(* The messages to the server: what the handlers of rfb.js do to the       *)
(* buttons and, for a pinch, to Control.                                   *)

ButtonNames == Buttons \cup {"left", "right", "middle", "wheel"}
Points == Places \cup {"outside", "none"}
Servers == [keys : SUBSET Syms, mask : SUBSET ButtonNames, pos : Points]
Connections == [con : {"live", "view", "gone"}, mask : SUBSET ButtonNames, pos : Points,
                timer : BOOLEAN, recent : BOOLEAN, srv : Servers]

\* The same connection, with no key down that was not.
Keeps(r, s) == s \in Connections /\ s.con = r.con /\ s.srv.keys \subseteq r.srv.keys

\* Buttons that are down, or will be when the timer fires.
Pressed(r) == r.mask \cup r.srv.mask

\* RFB.messages.pointerEvent tells the server of these buttons.
LEMMA SendMouseEffect ==
    ASSUME NEW r \in Connections, NEW p \in Points, NEW mask \in SUBSET ButtonNames
    PROVE  LET s == sendMouse(r, p, mask)
           IN  /\ Keeps(r, s) /\ s.mask = r.mask
               /\ s.srv.mask = IF r.con = "live" THEN mask ELSE r.srv.mask
BY DEF sendMouse, Keeps, Connections, Servers

\* A delayed move goes out with the buttons that were named last.
LEMMA FlushEffect ==
    ASSUME NEW r \in Connections, NEW p \in Points
    PROVE  LET s == flushMouseMoveTimer(r, p)
           IN  Keeps(r, s) /\ s.mask = r.mask /\ s.srv.mask \in {r.mask, r.srv.mask}
BY DEF flushMouseMoveTimer, sendMouse, Keeps, Connections, Servers

\* _handleMouseButton: the buttons it names are those that are down.
LEMMA MouseButtonEffect ==
    ASSUME NEW r \in Connections, NEW p \in Points, NEW mask \in SUBSET ButtonNames
    PROVE  LET s == handleMouseButton(r, p, mask)
           IN  Keeps(r, s) /\ s.mask = mask /\ (r.con = "live" => s.srv.mask = mask)
<1> DEFINE f == flushMouseMoveTimer(r, p)
           q == [f EXCEPT !.mask = mask]
<1>1. Keeps(r, f)  BY FlushEffect
<1> HIDE DEF f
<1>2. Keeps(f, q) /\ q.mask = mask  BY <1>1 DEF Keeps, Connections
<1> HIDE DEF q
<1>3. LET s == sendMouse(q, p, mask)
      IN  Keeps(q, s) /\ s.mask = q.mask
          /\ s.srv.mask = IF q.con = "live" THEN mask ELSE q.srv.mask
  BY <1>2, SendMouseEffect DEF Keeps
<1>4. QED  BY <1>1, <1>2, <1>3 DEF handleMouseButton, Keeps, q, f

\* _handleMouseMove, sent or delayed, names no new button.
LEMMA MouseMoveEffect ==
    ASSUME NEW r \in Connections, NEW p \in Points
    PROVE  LET s == handleMouseMove(r, p)
           IN  Keeps(r, s) /\ s.mask = r.mask /\ s.srv.mask \in {r.mask, r.srv.mask}
BY DEF handleMouseMove, sendMouse, Keeps, Connections, Servers

\* A step of the wheel leaves the buttons that were named.
LEMMA WheelEffect ==
    ASSUME NEW r \in Connections, NEW p \in Points, NEW mask \in SUBSET ButtonNames
    PROVE  LET s == WheelStep(r, p, mask)
           IN  Keeps(r, s) /\ s.mask = mask /\ (r.con = "live" => s.srv.mask = mask)
<1> DEFINE d == handleMouseButton(r, p, mask \cup {"wheel"})
<1>1. mask \cup {"wheel"} \in SUBSET ButtonNames  BY DEF ButtonNames
<1>2. Keeps(r, d)  BY <1>1, MouseButtonEffect
<1> HIDE DEF d
<1>3. LET s == handleMouseButton(d, p, mask)
      IN  Keeps(d, s) /\ s.mask = mask /\ (d.con = "live" => s.srv.mask = mask)
  BY <1>2, MouseButtonEffect DEF Keeps
<1>4. QED  BY <1>2, <1>3 DEF WheelStep, Keeps, d

\* What an event of a gesture may add to the buttons.
LEMMA TapEffect ==
    ASSUME NEW r \in Connections, NEW p \in Points, NEW button \in ButtonNames
    PROVE  LET s == handleTapEvent(r, p, button)
           IN  Keeps(r, s) /\ (r.con = "live" => Pressed(s) = {})
<1> DEFINE m == handleMouseMove(r, p)
           d == handleMouseButton(m, p, {button})
<1>1. Keeps(r, m)  BY MouseMoveEffect
<1> HIDE DEF m
<1>2. Keeps(m, d)  BY <1>1, MouseButtonEffect DEF Keeps
<1> HIDE DEF d
<1>3. LET s == handleMouseButton(d, p, {})
      IN  Keeps(d, s) /\ s.mask = {} /\ (d.con = "live" => s.srv.mask = {})
  BY <1>2, MouseButtonEffect DEF Keeps
<1>4. QED  BY <1>1, <1>2, <1>3 DEF handleTapEvent, Keeps, Pressed, m, d

\* A move and then the buttons of a gesture.
LEMMA MoveThenButton ==
    ASSUME NEW r \in Connections, NEW p \in Points, NEW mask \in SUBSET ButtonNames
    PROVE  LET s == handleMouseButton(handleMouseMove(r, p), p, mask)
           IN  Keeps(r, s) /\ (r.con = "live" => Pressed(s) = mask)
<1> DEFINE m == handleMouseMove(r, p)
<1>1. Keeps(r, m)  BY MouseMoveEffect
<1> HIDE DEF m
<1>2. LET s == handleMouseButton(m, p, mask)
      IN  Keeps(m, s) /\ s.mask = mask /\ (m.con = "live" => s.srv.mask = mask)
  BY <1>1, MouseButtonEffect DEF Keeps
<1>3. QED  BY <1>1, <1>2 DEF Keeps, Pressed, m

ButtonOf(state) ==
    (IF state = {"drag"} THEN {"left"} ELSE {}) \cup (IF state = {"longpress"} THEN {"right"} ELSE {})

\* The start of a gesture leaves down only the button of that gesture.
LEMMA GestureStartEffect ==
    ASSUME NEW r \in Connections, NEW p \in Points, NEW gesture
    PROVE  LET s == GestureStart(r, gesture, p)
           IN  Keeps(r, s) /\ (r.con = "live" => Pressed(s) \subseteq Pressed(r) \cup ButtonOf({gesture}))
<1> DEFINE s == GestureStart(r, gesture, p)
<1>1. /\ "left" \in ButtonNames /\ "right" \in ButtonNames /\ "middle" \in ButtonNames
      /\ {"left"} \in SUBSET ButtonNames /\ {"right"} \in SUBSET ButtonNames
  BY DEF ButtonNames
<1>2. CASE gesture = "onetap"  BY <1>1, <1>2, TapEffect DEF GestureStart
<1>3. CASE gesture = "twotap"  BY <1>1, <1>3, TapEffect DEF GestureStart
<1>4. CASE gesture = "threetap"  BY <1>1, <1>4, TapEffect DEF GestureStart
<1>5. CASE gesture = "drag"
  <2>1. s = handleMouseButton(handleMouseMove(r, p), p, {"left"})  BY <1>5 DEF GestureStart
  <2>2. ButtonOf({gesture}) = {"left"}  BY <1>5 DEF ButtonOf
  <2>3. QED  BY <1>1, <2>1, <2>2, MoveThenButton
<1>6. CASE gesture = "longpress"
  <2>1. s = handleMouseButton(handleMouseMove(r, p), p, {"right"})  BY <1>6 DEF GestureStart
  <2>2. ButtonOf({gesture}) = {"right"}  BY <1>6 DEF ButtonOf
  <2>3. QED  BY <1>1, <2>1, <2>2, MoveThenButton
<1>7. CASE gesture \notin {"onetap", "twotap", "threetap", "drag", "longpress"}
  <2>1. s = handleMouseMove(r, p)  BY <1>7 DEF GestureStart
  <2>2. QED  BY <2>1, MouseMoveEffect DEF Pressed
<1>8. QED  BY <1>2, <1>3, <1>4, <1>5, <1>6, <1>7

\* A scroll leaves no button down.
LEMMA ScrolledEffect ==
    ASSUME NEW r \in Connections, NEW p \in Points, NEW far \in BOOLEAN
    PROVE  LET s == Scrolled(r, p, far)
           IN  Keeps(r, s) /\ (r.con = "live" => Pressed(s) \subseteq Pressed(r))
<1>1. CASE far  BY <1>1, WheelEffect DEF Scrolled, Pressed
<1>2. CASE ~far  BY <1>2 DEF Scrolled, Keeps
<1>3. QED  BY <1>1, <1>2

\* A pinch presses Control and releases it.
LEMMA ZoomedEffect ==
    ASSUME NEW r \in Connections, NEW p \in Points, NEW far \in BOOLEAN
    PROVE  LET s == Zoomed(r, p, far)
           IN  Keeps(r, s) /\ (r.con = "live" => Pressed(s) \subseteq Pressed(r))
<1> DEFINE c == IF far THEN sendKey(r, "Control_L", TRUE) ELSE r
           w == Scrolled(c, p, far)
           s == sendKey(w, "Control_L", FALSE)
<1>1. "Control_L" \in Syms  BY DEF Syms
<1>2. /\ c \in Connections /\ c.con = r.con /\ Pressed(c) = Pressed(r)
      /\ c.srv.keys \subseteq r.srv.keys \cup {"Control_L"}
      /\ r.con # "live" => c = r
  BY <1>1 DEF sendKey, Connections, Servers, Pressed
<1> HIDE DEF c
<1>3. Keeps(c, w) /\ (c.con = "live" => Pressed(w) \subseteq Pressed(c))  BY <1>2, ScrolledEffect
<1> HIDE DEF w
<1>4. /\ s \in Connections /\ s.con = w.con /\ Pressed(s) = Pressed(w)
      /\ s.srv.keys \subseteq w.srv.keys
      /\ w.con = "live" => "Control_L" \notin s.srv.keys
  BY <1>3 DEF sendKey, Connections, Servers, Pressed, Keeps
<1>5. Zoomed(r, p, far) = s  BY DEF Zoomed, c, w
<1>6. QED  BY <1>2, <1>3, <1>4, <1>5 DEF Keeps

\* The move of a gesture presses nothing for good.
LEMMA GestureMoveEffect ==
    ASSUME NEW r \in Connections, NEW p \in Points, NEW far \in BOOLEAN, NEW gesture
    PROVE  LET s == GestureMove(r, gesture, p, far)
           IN  Keeps(r, s) /\ (r.con = "live" => Pressed(s) \subseteq Pressed(r))
<1> DEFINE m == handleMouseMove(r, p)
           s == GestureMove(r, gesture, p, far)
<1>1. Keeps(r, m) /\ Pressed(m) \subseteq Pressed(r)  BY MouseMoveEffect DEF Pressed
<1>2. s = r \/ s = m \/ s = Scrolled(m, p, far) \/ s = Zoomed(m, p, far)  BY DEF GestureMove
<1> HIDE DEF m, s
<1>3. CASE s = r \/ s = m  BY <1>1, <1>3 DEF Keeps, s
<1>4. CASE s = Scrolled(m, p, far)
  <2>1. Keeps(m, s) /\ (m.con = "live" => Pressed(s) \subseteq Pressed(m))
    BY <1>1, <1>4, ScrolledEffect DEF Keeps
  <2>2. QED  BY <1>1, <2>1 DEF Keeps, s
<1>5. CASE s = Zoomed(m, p, far)
  <2>1. Keeps(m, s) /\ (m.con = "live" => Pressed(s) \subseteq Pressed(m))
    BY <1>1, <1>5, ZoomedEffect DEF Keeps
  <2>2. QED  BY <1>1, <2>1 DEF Keeps, s
<1>6. QED  BY <1>2, <1>3, <1>4, <1>5

Events == [type : {"gesturestart", "gesturemove", "gestureend"}, gesture : GH_INITSTATE]

\* The button that an event presses, and the events that release it.
Presses(ev) == IF ev.type = "gesturestart" THEN ButtonOf({ev.gesture}) ELSE {}
Releases(ev) == ev.type = "gestureend" /\ ev.gesture \in {"drag", "longpress"}

\* One event of a gesture: what it may press, and when it releases.
LEMMA HandleGestureEffect ==
    ASSUME NEW r \in Connections, NEW p \in Points, NEW far \in BOOLEAN, NEW ev \in Events
    PROVE  LET s == handleGesture(r, ev, p, far)
           IN  /\ Keeps(r, s)
               /\ r.con = "live" => Pressed(s) \subseteq Pressed(r) \cup Presses(ev)
               /\ r.con = "live" /\ Releases(ev) => Pressed(s) = {}
<1>0. ev.type \in {"gesturestart", "gesturemove", "gestureend"}  BY DEF Events
<1>1. CASE ev.type = "gesturestart"
  <2>1. handleGesture(r, ev, p, far) = GestureStart(r, ev.gesture, p)  BY <1>1 DEF handleGesture
  <2>2. Presses(ev) = ButtonOf({ev.gesture}) /\ ~Releases(ev)  BY <1>1 DEF Presses, Releases
  <2>3. QED  BY <2>1, <2>2, GestureStartEffect
<1>2. CASE ev.type = "gesturemove"
  <2>1. handleGesture(r, ev, p, far) = GestureMove(r, ev.gesture, p, far)
    BY <1>2 DEF handleGesture
  <2>2. ~Releases(ev)  BY <1>2 DEF Releases
  <2>3. QED  BY <2>1, <2>2, GestureMoveEffect
<1>3. CASE ev.type = "gestureend"
  <2>1. handleGesture(r, ev, p, far) = GestureEnd(r, ev.gesture, p)  BY <1>3 DEF handleGesture
  <2>2. CASE Releases(ev)
    <3>1. GestureEnd(r, ev.gesture, p) = handleMouseButton(handleMouseMove(r, p), p, {})
      BY <2>2 DEF GestureEnd, Releases
    <3>2. {} \in SUBSET ButtonNames  OBVIOUS
    <3>3. QED  BY <2>1, <3>1, <3>2, MoveThenButton
  <2>3. CASE ~Releases(ev)
    <3>1. GestureEnd(r, ev.gesture, p) = r  BY <1>3, <2>3 DEF GestureEnd, Releases
    <3>2. QED  BY <2>1, <2>3, <3>1 DEF Keeps
  <2>4. QED  BY <2>2, <2>3
<1>4. QED  BY <1>0, <1>1, <1>2, <1>3

\* The events of one call of the gesture handler.
LEMMA HandledEffect ==
    ASSUME NEW r \in Connections, NEW p \in Points, NEW far \in BOOLEAN,
           NEW events \in Seq(Events), Len(events) <= 2, NEW B,
           \A k \in 1..Len(events) : Presses(events[k]) \subseteq B
    PROVE  LET s == GesturesHandled(r, events, p, far)
           IN  /\ Keeps(r, s)
               /\ r.con = "live" => Pressed(s) \subseteq Pressed(r) \cup B
               /\ r.con = "live" /\ Len(events) = 1 /\ Releases(events[1]) => Pressed(s) = {}
<1>1. Len(events) \in {0, 1, 2}
  <2>1. Len(events) \in Nat  OBVIOUS
  <2>2. \A n \in Nat : n <= 2 => n \in {0, 1, 2}  OBVIOUS
  <2>3. QED  BY <2>1, <2>2
<1>2. CASE Len(events) = 0  BY <1>2 DEF GesturesHandled, Keeps
<1>3. CASE Len(events) = 1
  <2>1. GesturesHandled(r, events, p, far) = handleGesture(r, events[1], p, far)  BY <1>3 DEF GesturesHandled
  <2>2. events[1] \in Events /\ Presses(events[1]) \subseteq B  BY <1>3
  <2>3. QED  BY <2>1, <2>2, HandleGestureEffect
<1>4. CASE Len(events) = 2
  <2> DEFINE m == handleGesture(r, events[1], p, far)
             s == handleGesture(m, events[2], p, far)
  <2>1. GesturesHandled(r, events, p, far) = s  BY <1>4 DEF GesturesHandled
  <2>2. /\ events[1] \in Events /\ Presses(events[1]) \subseteq B
        /\ events[2] \in Events /\ Presses(events[2]) \subseteq B
    BY <1>4
  <2>3. Keeps(r, m) /\ (r.con = "live" => Pressed(m) \subseteq Pressed(r) \cup B)
    BY <2>2, HandleGestureEffect
  <2> HIDE DEF m
  <2>4. Keeps(m, s) /\ (m.con = "live" => Pressed(s) \subseteq Pressed(m) \cup B)
    BY <2>2, <2>3, HandleGestureEffect DEF Keeps
  <2>5. QED  BY <1>4, <2>1, <2>3, <2>4 DEF Keeps
<1>5. QED  BY <1>1, <1>2, <1>3, <1>4

------------------------------------------------------------------------------
(* The gesture handler.  Book holds between calls.                         *)

Touched == [id : Fingers, active : BOOLEAN, far : BOOLEAN]
Handlers ==
    [state : SUBSET GH_INITSTATE, tracked : Seq(Touched), ignored : SUBSET Fingers,
     waitingRelease : BOOLEAN, late : BOOLEAN, age : 0..2, longpress : BOOLEAN,
     twoTouch : {"off", "running", "fired"}, error : BOOLEAN, out : Seq(Events)]

\* The states that the number of touches, and a release, narrow down to.
TwoStart == {"twotap", "threetap", "twodrag", "pinch"}
TwoMoved == {"twodrag", "pinch"}
Alone == {{}, {"twodrag"}, {"pinch"}}
TapStates == {{"onetap"}, {"twotap"}, {"threetap"}}

Narrowing(g) ==
    IF g.waitingRelease THEN g.state \in Alone \cup TapStates
    ELSE \/ Len(g.tracked) = 1 /\ g.state \in {GH_INITSTATE, {}, {"drag"}, {"longpress"}}
         \/ Len(g.tracked) = 2 /\ g.state \in Alone \cup {TwoStart, TwoMoved}
         \/ Len(g.tracked) = 3 /\ g.state \in Alone \cup {{"threetap"}}
         \/ Len(g.tracked) > 3 /\ g.state \in Alone

\* Each touch is tracked once, and while one is tracked one is active.
Tracking(g) ==
    /\ \A i, j \in 1..Len(g.tracked) : g.tracked[i].id = g.tracked[j].id => i = j
    /\ ~g.waitingRelease => \A i \in 1..Len(g.tracked) : g.tracked[i].active
    /\ g.tracked # <<>> => \E i \in 1..Len(g.tracked) : g.tracked[i].active

\* Nothing is tracked: a new gesture, or the last fingers of an old one.
Idle(g) ==
    g.tracked = <<>> =>
        /\ g.state = IF g.ignored = {} THEN GH_INITSTATE ELSE {}
        /\ g.ignored = {} => ~g.waitingRelease

\* What the two timers rest on.
Timers(g) ==
    /\ g.longpress => Len(g.tracked) = 1 /\ g.state \in {GH_INITSTATE, {}} /\ ~g.waitingRelease
    /\ g.twoTouch = "running" => Len(g.tracked) >= 2 /\ g.state \in {{}, TwoMoved}

Book(g) ==
    /\ g \in Handlers /\ ~g.error
    /\ Tracking(g) /\ Idle(g) /\ Timers(g)
    /\ g.tracked # <<>> => Narrowing(g)
    /\ Active(g) \cap g.ignored = {}

Known(g) == Active(g) \cup g.ignored

\* The events of a call fit what it did to the state.
Fitting(g, h) ==
    /\ Len(h.out) <= 2
    /\ \/ Len(h.out) = 1 /\ Releases(h.out[1])
       \/ /\ ButtonOf(g.state) \subseteq ButtonOf(h.state)
          /\ \A k \in 1..Len(h.out) : Presses(h.out[k]) \subseteq ButtonOf(h.state)

\* A state with no bit or more than one is no gesture, and has no button.
LEMMA Undecided ==
    /\ \A S \in {{}, GH_INITSTATE, TwoStart, TwoMoved} : \A s : S # {s}
    /\ \A S \in {{}, GH_INITSTATE, TwoStart, TwoMoved} : ButtonOf(S) = {}
    /\ \A s : s \notin {"drag", "longpress"} => ButtonOf({s}) = {}
    /\ \A S \in {{}, TwoStart, TwoMoved} \cup Alone \cup TapStates
             \cup {{"drag"}, {"longpress"}, {"threetap"}, GH_INITSTATE} : S \in SUBSET GH_INITSTATE
<1>1. \A S \in {{}, GH_INITSTATE, TwoStart, TwoMoved} : \A s : S # {s}
  <2>1. "twodrag" \in GH_INITSTATE /\ "pinch" \in GH_INITSTATE  BY DEF GH_INITSTATE
  <2>2. QED  BY <2>1 DEF TwoStart, TwoMoved
<1>2. \A S \in {{}, GH_INITSTATE, TwoStart, TwoMoved} : ButtonOf(S) = {}  BY <1>1 DEF ButtonOf
<1>3. \A s : s \notin {"drag", "longpress"} => ButtonOf({s}) = {}  BY DEF ButtonOf
<1>4. \A S \in {{}, TwoStart, TwoMoved} \cup Alone \cup TapStates
             \cup {{"drag"}, {"longpress"}, {"threetap"}, GH_INITSTATE} : S \in SUBSET GH_INITSTATE
  BY DEF GH_INITSTATE, taps, TwoStart, TwoMoved, Alone, TapStates
<1>5. QED  BY <1>1, <1>2, <1>3, <1>4

\* The active fingers are those of the touches that are marked active.
LEMMA ActiveMembers ==
    ASSUME NEW g
    PROVE  \A x : x \in Active(g) <=>
               \E k \in 1..Len(g.tracked) : g.tracked[k].active /\ g.tracked[k].id = x
BY DEF Active

\* A gesture is recognised: one bit is left and, of a tap, no touch.
LEMMA DetectedCases ==
    ASSUME NEW g
    PROVE  /\ hasDetectedGesture(g) => \E s \in g.state : g.state = {s}
           /\ (\E s : g.state = {s} /\ s \notin taps) => hasDetectedGesture(g)
           /\ Active(g) # {} /\ g.state \subseteq taps => ~hasDetectedGesture(g)
           /\ Active(g) = {} /\ (\E s : g.state = {s}) => hasDetectedGesture(g)
BY DEF hasDetectedGesture, Decided

\* Alike in all but the events and the clock: the book sees no difference.
Alike(g, h) ==
    /\ h.state = g.state /\ h.tracked = g.tracked /\ h.ignored = g.ignored
    /\ h.waitingRelease = g.waitingRelease /\ h.longpress = g.longpress
    /\ h.twoTouch = g.twoTouch /\ h.error = g.error

\* The book does not depend on the events and on the clock.
LEMMA AlikeBook ==
    ASSUME NEW g, NEW h \in Handlers, Alike(g, h)
    PROVE  Active(h) = Active(g) /\ Known(h) = Known(g) /\ (Book(g) => Book(h))
<1>1. Active(h) = Active(g) /\ Known(h) = Known(g)  BY DEF Alike, Active, Known
<1>2. Book(g) => Book(h)  BY <1>1 DEF Alike, Book, Tracking, Idle, Timers, Narrowing
<1>3. QED  BY <1>1, <1>2

Event(type, gesture) == [type |-> type, gesture |-> gesture]
EventTypes == {"gesturestart", "gesturemove", "gestureend"}

\* pushEvent, of a decided gesture with a touch, adds its event and throws
\* nothing.
LEMMA PushEffect ==
    ASSUME NEW g \in Handlers, NEW s, g.state = {s}, g.tracked # <<>>, NEW type \in EventTypes
    PROVE  LET h == pushEvent(g, type)
           IN  h \in Handlers /\ Alike(g, h) /\ h.out = Append(g.out, Event(type, s))
<1> DEFINE o == Append(g.out, Event(type, s))
           h == pushEvent(g, type)
<1>1. Decided(g) /\ (CHOOSE x \in g.state : TRUE) = s  BY DEF Decided
<1>2. s \in GH_INITSTATE /\ g.out \in Seq(Events)  BY DEF Handlers
<1>3. Event(type, s) \in Events  BY <1>2 DEF Events, Event, EventTypes
<1>4. h = [g EXCEPT !.out = o]  BY <1>1 DEF pushEvent, Event
<1>5. o \in Seq(Events)  BY <1>2, <1>3
<1> HIDE DEF o, h
<1>6. h \in Handlers /\ Alike(g, h) /\ h.out = o  BY <1>4, <1>5 DEF Handlers, Alike
<1>7. QED  BY <1>6 DEF o, h

\* The first event of a call.
LEMMA PushOnce ==
    ASSUME NEW g \in Handlers, NEW s, g.state = {s}, g.tracked # <<>>, g.out = <<>>,
           NEW type \in EventTypes
    PROVE  LET h == pushEvent(g, type)
           IN  h \in Handlers /\ Alike(g, h) /\ Len(h.out) = 1 /\ h.out[1] = Event(type, s)
<1> DEFINE e == Event(type, s)
<1> HIDE DEF e
<1>1. Append(<<>>, e) = <<e>> /\ Len(<<e>>) = 1 /\ <<e>>[1] = e  OBVIOUS
<1>2. QED  BY <1>1, PushEffect DEF e

\* Append adds one element at the end.
LEMMA AppendFacts ==
    ASSUME NEW S, NEW s \in Seq(S), NEW x \in S
    PROVE  /\ Append(s, x) \in Seq(S) /\ Len(Append(s, x)) = Len(s) + 1
           /\ Append(s, x)[Len(s) + 1] = x
           /\ \A k \in 1..Len(s) : Append(s, x)[k] = s[k]
OBVIOUS

\* The two events of a call.
LEMMA PushTwice ==
    ASSUME NEW g \in Handlers, NEW s, g.state = {s}, g.tracked # <<>>, g.out = <<>>,
           NEW first \in EventTypes, NEW second \in EventTypes
    PROVE  LET h == pushEvent(pushEvent(g, first), second)
           IN  /\ h \in Handlers /\ Alike(g, h) /\ Len(h.out) = 2
               /\ h.out[1] = Event(first, s) /\ h.out[2] = Event(second, s)
<1> DEFINE d == Event(first, s)
           e == Event(second, s)
           p == pushEvent(g, first)
           h == pushEvent(p, second)
<1>1. p \in Handlers /\ Alike(g, p) /\ p.out = Append(<<>>, d)  BY PushEffect
<1>2. p.state = {s} /\ p.tracked # <<>>  BY <1>1 DEF Alike
<1> HIDE DEF p
<1>3. h \in Handlers /\ Alike(p, h) /\ h.out = Append(p.out, e)  BY <1>1, <1>2, PushEffect
<1> HIDE DEF d, e, h
<1>4. LET o == Append(Append(<<>>, d), e) IN Len(o) = 2 /\ o[1] = d /\ o[2] = e
  <2> DEFINE q == Append(<<>>, d)
             o == Append(q, e)
  <2>1. <<>> \in Seq({d, e}) /\ Len(<<>>) = 0  OBVIOUS
  <2>2. q \in Seq({d, e}) /\ Len(q) = 1 /\ q[1] = d  BY <2>1, AppendFacts
  <2> HIDE DEF q
  <2>3. e \in {d, e} /\ q \in Seq({d, e})  BY <2>2
  <2>4. Len(o) = Len(q) + 1 /\ o[Len(q) + 1] = e /\ \A k \in 1..Len(q) : o[k] = q[k]
    BY <2>3, AppendFacts
  <2> HIDE DEF o
  <2>5. Len(o) = 2 /\ o[2] = e /\ o[1] = q[1]  BY <2>2, <2>4
  <2>6. QED  BY <2>2, <2>5 DEF q, o
<1>5. Alike(g, h)  BY <1>1, <1>3 DEF Alike
<1>6. QED  BY <1>1, <1>3, <1>4, <1>5 DEF d, e, h, p

\* A gesture begins: what it presses is what its state stands for.
LEMMA BeginFitting ==
    ASSUME NEW g, NEW h, NEW s, h.state = {s}, ButtonOf(g.state) = {},
           \/ Len(h.out) = 1 /\ h.out[1] = Event("gesturestart", s)
           \/ /\ Len(h.out) = 2 /\ h.out[1] = Event("gesturestart", s)
              /\ h.out[2] = Event("gesturemove", s)
    PROVE  Fitting(g, h)
<1>1. /\ Presses(Event("gesturestart", s)) = ButtonOf(h.state)
      /\ Presses(Event("gesturemove", s)) = {}
  BY DEF Presses, Event
<1>2. CASE Len(h.out) = 1
  <2>1. \A k \in 1..1 : k = 1  OBVIOUS
  <2>2. QED  BY <1>1, <1>2, <2>1 DEF Fitting
<1>3. CASE Len(h.out) = 2
  <2>1. \A k \in 1..2 : k = 1 \/ k = 2  OBVIOUS
  <2>2. QED  BY <1>1, <1>3, <2>1 DEF Fitting
<1>4. QED  BY <1>2, <1>3

\* The end of a gesture.
LEMMA LetGoBook ==
    ASSUME NEW g \in Handlers, ~g.error, ~g.longpress, g.twoTouch # "running", NEW id
    PROVE  LET h == LetGo(g, id)
           IN  /\ Book(h) /\ Known(h) = Known(g) \ {id} /\ h.out = g.out
               /\ ButtonOf(h.state) = {}
<1> DEFINE left == (g.ignored \cup Active(g)) \ {id}
           h == LetGo(g, id)
<1>1. Active(g) \subseteq Fingers
  <2>1. g.tracked \in Seq(Touched)  BY DEF Handlers
  <2>2. \A k \in 1..Len(g.tracked) : g.tracked[k] \in Touched  BY <2>1
  <2>3. \A k \in 1..Len(g.tracked) : g.tracked[k].id \in Fingers  BY <2>2 DEF Touched
  <2>4. QED  BY <2>3, ActiveMembers
<1>2. left \in SUBSET Fingers  BY <1>1 DEF Handlers
<1>3. h = [g EXCEPT !.ignored = left, !.tracked = <<>>, !.late = FALSE, !.age = 0,
                    !.state = IF left = {} THEN GH_INITSTATE ELSE {},
                    !.waitingRelease = g.waitingRelease /\ left # {}]
  BY DEF LetGo
<1> HIDE DEF left, h
<1>4. /\ h.ignored = left /\ h.tracked = <<>>
      /\ h.state = IF left = {} THEN GH_INITSTATE ELSE {}
      /\ h.waitingRelease = (g.waitingRelease /\ left # {})
      /\ h.error = g.error /\ h.longpress = g.longpress /\ h.twoTouch = g.twoTouch
      /\ h.out = g.out
  BY <1>3 DEF Handlers
<1>5. h \in Handlers
  <2>1. (IF left = {} THEN GH_INITSTATE ELSE {}) \in SUBSET GH_INITSTATE  OBVIOUS
  <2>2. <<>> \in Seq(Touched) /\ 0 \in 0..2  OBVIOUS
  <2>3. (g.waitingRelease /\ left # {}) \in BOOLEAN  OBVIOUS
  <2>4. QED  BY <1>2, <1>3, <2>1, <2>2, <2>3 DEF Handlers
<1>6. Active(h) = {} /\ Len(h.tracked) = 0  BY <1>4 DEF Active
<1>7. Known(h) = left /\ Known(g) \ {id} = left  BY <1>4, <1>6 DEF Known, left
<1>8. ButtonOf(h.state) = {}  BY <1>4, Undecided
<1>9. Tracking(h) /\ Idle(h) /\ Timers(h)
  <2>1. Tracking(h)  BY <1>4, <1>6 DEF Tracking
  <2>2. Idle(h)  BY <1>4 DEF Idle
  <2>3. Timers(h)  BY <1>4 DEF Timers
  <2>4. QED  BY <2>1, <2>2, <2>3
<1>10. QED  BY <1>4, <1>5, <1>6, <1>7, <1>8, <1>9 DEF Book, h

\* How touches are counted: one, two, three, or more.
LEMMA Counting ==
    \A m \in Nat : m > 0 => /\ m = 1 \/ m >= 2
                            /\ m = 1 \/ m = 2 \/ m > 2
                            /\ m = 1 \/ m = 2 \/ m = 3 \/ m > 3
OBVIOUS

\* A recognised gesture is not one of the states in which more than one, or no,
\* gesture is possible.
LEMMA NotDetected ==
    ASSUME NEW g, Book(g), g.tracked # <<>> => Active(g) # {}
    PROVE  /\ g.state \in {{}, GH_INITSTATE, TwoStart, TwoMoved} \cup TapStates /\ g.tracked # <<>> =>
                 ~hasDetectedGesture(g)
           /\ g.tracked = <<>> => ~hasDetectedGesture(g)
           /\ g.state \in {{"drag"}, {"longpress"}, {"twodrag"}, {"pinch"}} => hasDetectedGesture(g)
<1>1. \A S \in TapStates : S \subseteq taps  BY DEF TapStates, taps
<1>2. "drag" \notin taps /\ "longpress" \notin taps /\ "twodrag" \notin taps /\ "pinch" \notin taps
  BY DEF taps
<1>3. g.tracked = <<>> => g.state \in {{}, GH_INITSTATE}  BY DEF Book, Idle
<1>4. QED  BY <1>1, <1>2, <1>3, Undecided, DetectedCases

\* Some touch is active while one is tracked, and all ids are of fingers.
LEMMA BookActive ==
    ASSUME NEW g, Book(g)
    PROVE  /\ g.tracked # <<>> => Active(g) # {}
           /\ g.tracked = <<>> => Active(g) = {}
           /\ g.tracked \in Seq(Touched) /\ Len(g.tracked) \in Nat
           /\ g.tracked # <<>> <=> Len(g.tracked) > 0
           /\ \A k \in 1..Len(g.tracked) : g.tracked[k] \in Touched
<1>1. g.tracked # <<>> => Active(g) # {}  BY ActiveMembers DEF Book, Tracking
<1>2. g.tracked = <<>> => Active(g) = {}  BY DEF Active
<1>3. g.tracked \in Seq(Touched)  BY DEF Book, Handlers
<1>4. QED  BY <1>1, <1>2, <1>3

\* Nothing recognised: no button is pressed for it.
LEMMA NoButton ==
    ASSUME NEW g, ~hasDetectedGesture(g)
    PROVE  ButtonOf(g.state) = {}
<1>1. "drag" \notin taps /\ "longpress" \notin taps  BY DEF taps
<1>2. g.state # {"drag"} /\ g.state # {"longpress"}  BY <1>1, DetectedCases
<1>3. QED  BY <1>2 DEF ButtonOf

\* A call without events fits when no button needs to be released.
LEMMA QuietFitting ==
    ASSUME NEW g, NEW h, h.out = <<>>, ButtonOf(g.state) \subseteq ButtonOf(h.state)
    PROVE  Fitting(g, h)
<1>1. Len(h.out) = 0 /\ 1..Len(h.out) = {}  OBVIOUS
<1>2. QED  BY <1>1 DEF Fitting

\* _touchStart: the finger is part of the gesture, or ignored.
LEMMA TouchStartBook ==
    ASSUME NEW g, Book(g), g.out = <<>>, NEW id \in Fingers, id \notin Known(g)
    PROVE  LET h == touchStart(g, id)
           IN  Book(h) /\ Known(h) = Known(g) \cup {id} /\ Fitting(g, h)
<1> DEFINE h == touchStart(g, id)
           n == Len(g.tracked) + 1
<1>0. /\ g \in Handlers /\ ~g.error /\ Tracking(g) /\ Idle(g) /\ Timers(g)
      /\ g.tracked # <<>> => Narrowing(g)
      /\ Active(g) \cap g.ignored = {} /\ id \notin Active(g) /\ id \notin g.ignored
  BY DEF Book, Known
<1>1. CASE hasDetectedGesture(g) \/ g.state = {}
  <2>1. h = [g EXCEPT !.ignored = @ \cup {id}]  BY <1>1 DEF touchStart, Ignore
  <2> HIDE DEF h
  <2>2. /\ h \in Handlers /\ ~h.error /\ h.state = g.state /\ h.tracked = g.tracked
        /\ h.ignored = g.ignored \cup {id} /\ h.waitingRelease = g.waitingRelease
        /\ h.longpress = g.longpress /\ h.twoTouch = g.twoTouch /\ h.out = <<>>
    BY <1>0, <2>1 DEF Handlers
  <2>3. Active(h) = Active(g)  BY <2>2 DEF Active
  <2>4. Tracking(h) /\ Timers(h) /\ (h.tracked # <<>> => Narrowing(h))
    BY <1>0, <2>2 DEF Tracking, Timers, Narrowing
  <2>5. Idle(h)
    <3>1. g.tracked = <<>> => g.state = {}  BY <1>1, BookActive, NotDetected
    <3>2. QED  BY <2>2, <3>1 DEF Idle
  <2>6. Book(h) /\ Known(h) = Known(g) \cup {id}
    BY <1>0, <2>2, <2>3, <2>4, <2>5 DEF Book, Known
  <2>7. Fitting(g, h)  BY <2>2, QuietFitting
  <2>8. QED  BY <2>6, <2>7 DEF h
<1>2. CASE /\ ~(hasDetectedGesture(g) \/ g.state = {})
           /\ (g.tracked # <<>> /\ g.age > 0) \/ g.waitingRelease
  <2>1. h = [g EXCEPT !.state = {}, !.ignored = @ \cup {id}]
    <3>1. h = Ignore([g EXCEPT !.state = {}], id)  BY <1>2 DEF touchStart
    <3>2. QED  BY <1>0, <3>1 DEF Ignore, Handlers
  <2> HIDE DEF h
  <2>2. /\ h \in Handlers /\ ~h.error /\ h.state = {} /\ h.tracked = g.tracked
        /\ h.ignored = g.ignored \cup {id} /\ h.waitingRelease = g.waitingRelease
        /\ h.longpress = g.longpress /\ h.twoTouch = g.twoTouch /\ h.out = <<>>
    BY <1>0, <2>1 DEF Handlers
  <2>3. Active(h) = Active(g)  BY <2>2 DEF Active
  <2>4. g.tracked # <<>>  BY <1>0, <1>2 DEF Idle
  <2>5. Tracking(h) /\ Idle(h)  BY <1>0, <2>2, <2>4 DEF Tracking, Idle
  <2>6. Timers(h)  BY <1>0, <2>2 DEF Timers
  <2>7. Narrowing(h)  BY <1>0, <2>2, <2>4, BookActive DEF Narrowing, Alone
  <2>8. Book(h) /\ Known(h) = Known(g) \cup {id}
    BY <1>0, <2>2, <2>3, <2>5, <2>6, <2>7 DEF Book, Known
  <2>9. Fitting(g, h)  BY <1>2, <2>2, NoButton, QuietFitting
  <2>10. QED  BY <2>8, <2>9 DEF h
<1>3. CASE /\ ~(hasDetectedGesture(g) \/ g.state = {})
           /\ ~((g.tracked # <<>> /\ g.age > 0) \/ g.waitingRelease)
  <2> DEFINE T == Append(g.tracked, Touch(id))
  <2>1. h = [g EXCEPT !.tracked = T, !.state = StateOfTouches(g, n),
                      !.age = IF n = 1 THEN 0 ELSE @,
                      !.longpress = IF n < 3 THEN n = 1 ELSE @]
    BY <1>3 DEF touchStart
  <2>2. Touch(id) = [id |-> id, active |-> TRUE, far |-> FALSE] /\ Touch(id) \in Touched
    BY DEF Touch, Touched
  <2>3. /\ T \in Seq(Touched) /\ Len(T) = n /\ n \in Nat /\ n > 0
        /\ \A k \in 1..Len(g.tracked) : T[k] = g.tracked[k]
        /\ T[n] = Touch(id) /\ T # <<>>
    BY <2>2, BookActive
  <2> HIDE DEF h, T
  <2>4. StateOfTouches(g, n) \in SUBSET GH_INITSTATE  BY <1>0 DEF StateOfTouches, Handlers
  <2>5. /\ h.tracked = T /\ h.state = StateOfTouches(g, n)
        /\ h.longpress = IF n < 3 THEN n = 1 ELSE g.longpress
        /\ ~h.error /\ h.ignored = g.ignored /\ ~h.waitingRelease
        /\ h.twoTouch = g.twoTouch /\ h.out = <<>>
    BY <1>0, <1>3, <2>1 DEF Handlers
  <2>6. h \in Handlers
    <3>1. (IF n = 1 THEN 0 ELSE g.age) \in 0..2  BY <1>0 DEF Handlers
    <3>2. (IF n < 3 THEN n = 1 ELSE g.longpress) \in BOOLEAN  BY <1>0 DEF Handlers
    <3> HIDE DEF n
    <3>3. QED  BY <1>0, <2>1, <2>3, <2>4, <3>1, <3>2 DEF Handlers
  <2>7. \A k \in 1..n : T[k].active /\ (k # n => T[k].id = g.tracked[k].id) /\ (k = n => T[k].id = id)
    <3>1. \A k \in 1..n : k = n \/ k \in 1..Len(g.tracked)  BY <2>3
    <3>2. \A k \in 1..Len(g.tracked) : g.tracked[k].active  BY <1>0, <1>3 DEF Tracking
    <3>3. QED  BY <2>2, <2>3, <3>1, <3>2
  <2>8. Active(h) = Active(g) \cup {id}
    <3>1. \A x : x \in Active(h) <=> \E k \in 1..n : T[k].id = x
      BY <2>3, <2>5, <2>7, ActiveMembers
    <3>2. \A x : x \in Active(g) <=> \E k \in 1..Len(g.tracked) : g.tracked[k].id = x
      BY <1>0, <1>3, ActiveMembers DEF Tracking
    <3>3. \A k : k \in 1..n <=> k \in 1..Len(g.tracked) \/ k = n  BY <2>3, BookActive
    <3>4. n \notin 1..Len(g.tracked)  BY BookActive
    <3> HIDE DEF n
    <3>5. QED  BY <2>7, <3>1, <3>2, <3>3, <3>4
  <2>9. Tracking(h)
    <3>1. \A k \in 1..Len(g.tracked) : g.tracked[k].id # id
      BY <1>0, <1>3, ActiveMembers DEF Tracking
    <3>2. \A k \in 1..n : k = n \/ k \in 1..Len(g.tracked)  BY <2>3, BookActive
    <3>3. \A i, j \in 1..n : T[i].id = T[j].id => i = j
      BY <1>0, <2>7, <3>1, <3>2 DEF Tracking
    <3>4. n \in 1..n  BY <2>3
    <3> HIDE DEF n
    <3>5. QED  BY <2>3, <2>5, <2>7, <3>3, <3>4 DEF Tracking
  <2>10. Narrowing(h) /\ Timers(h)
    <3>1. CASE g.tracked = <<>>
      <4>1. g.state = GH_INITSTATE /\ n = 1 /\ g.twoTouch # "running"
        BY <1>0, <1>3, <3>1 DEF Idle, Timers
      <4>2. h.state = GH_INITSTATE  BY <2>5, <4>1 DEF StateOfTouches
      <4> HIDE DEF n
      <4>3. QED  BY <2>3, <2>5, <4>1, <4>2 DEF Narrowing, Timers
    <3>2. CASE Len(g.tracked) = 1
      <4>1. g.state = GH_INITSTATE /\ n = 2 /\ g.twoTouch # "running"
        BY <1>0, <1>3, <3>2, BookActive, NotDetected DEF Narrowing, Timers
      <4>2. h.state = TwoStart
        BY <2>5, <4>1 DEF StateOfTouches, GH_INITSTATE, taps, TwoStart
      <4> HIDE DEF n
      <4>3. Len(h.tracked) = 2 /\ ~h.waitingRelease /\ h.twoTouch # "running"
        BY <2>3, <2>5, <4>1
      <4>4. ~h.longpress
        <5>1. n < 3 /\ n # 1  BY <4>1
        <5>2. QED  BY <2>5, <5>1
      <4>5. Narrowing(h)  BY <4>2, <4>3 DEF Narrowing
      <4>6. QED  BY <4>3, <4>4, <4>5 DEF Timers
    <3>3. CASE Len(g.tracked) = 2
      <4>1. g.state \in {TwoStart, TwoMoved} /\ n = 3 /\ ~g.longpress
        BY <1>0, <1>3, <3>3, BookActive, NotDetected DEF Narrowing, Timers, Alone
      <4>2. h.state = g.state \ {"twotap", "twodrag", "pinch"}  BY <2>5, <4>1 DEF StateOfTouches
      <4>3. /\ g.state = TwoStart => h.state = {"threetap"}
            /\ g.state = TwoMoved => h.state = {}
        BY <4>2 DEF TwoStart, TwoMoved
      <4>4. g.twoTouch = "running" => g.state = TwoMoved
        BY <1>0, <1>3 DEF Timers
      <4> HIDE DEF n
      <4>5. Len(h.tracked) = 3 /\ ~h.waitingRelease /\ ~h.longpress
        BY <2>3, <2>5, <4>1
      <4>6. Narrowing(h)  BY <4>1, <4>3, <4>5 DEF Narrowing, Alone
      <4>7. h.twoTouch = "running" => h.state = {}  BY <2>5, <4>3, <4>4
      <4>8. QED  BY <4>5, <4>6, <4>7 DEF Timers
    <3>4. CASE Len(g.tracked) > 2
      <4>1. h.state = {} /\ n > 3 /\ ~g.longpress
        BY <1>0, <2>3, <2>5, <3>4, BookActive DEF StateOfTouches, Timers
      <4> HIDE DEF n
      <4>2. Len(h.tracked) > 3 /\ ~h.waitingRelease /\ ~h.longpress  BY <2>3, <2>5, <4>1
      <4>3. Narrowing(h)  BY <4>1, <4>2 DEF Narrowing, Alone
      <4>4. Len(h.tracked) >= 2  BY <2>3, <2>5, <4>1
      <4>5. QED  BY <4>1, <4>2, <4>3, <4>4 DEF Timers
    <3>5. g.tracked = <<>> \/ Len(g.tracked) = 1 \/ Len(g.tracked) = 2 \/ Len(g.tracked) > 2
      BY BookActive, Counting
    <3>6. QED  BY <3>1, <3>2, <3>3, <3>4, <3>5
  <2>11. Book(h) /\ Known(h) = Known(g) \cup {id}
    BY <1>0, <2>3, <2>5, <2>6, <2>8, <2>9, <2>10 DEF Book, Known, Idle
  <2>12. Fitting(g, h)  BY <1>3, <2>5, NoButton, QuietFitting
  <2>13. QED  BY <2>11, <2>12 DEF h
<1>4. QED  BY <1>1, <1>2, <1>3

\* The same touches, as far as the book tells them apart.
LEMMA SameTouches ==
    ASSUME NEW g \in Handlers, NEW h,
           Len(h.tracked) = Len(g.tracked), h.tracked \in Seq(Touched),
           \A i \in 1..Len(g.tracked) : /\ h.tracked[i].id = g.tracked[i].id
                                        /\ h.tracked[i].active = g.tracked[i].active
    PROVE  /\ Active(h) = Active(g)
           /\ h.tracked = <<>> <=> g.tracked = <<>>
           /\ Tracking(g) /\ h.waitingRelease = g.waitingRelease => Tracking(h)
<1>1. g.tracked \in Seq(Touched)  BY DEF Handlers
<1>2. h.tracked = <<>> <=> g.tracked = <<>>
  <2>1. \A s \in Seq(Touched) : s = <<>> <=> Len(s) = 0  OBVIOUS
  <2>2. QED  BY <1>1, <2>1
<1>3. Active(h) = Active(g)
  <2>1. \A x : x \in Active(h) <=> x \in Active(g)  BY ActiveMembers
  <2>2. QED  BY <2>1
<1>4. Tracking(g) /\ h.waitingRelease = g.waitingRelease => Tracking(h)  BY <1>2 DEF Tracking
<1>5. QED  BY <1>2, <1>3, <1>4

\* Two touches that moved.
LEMMA TwoTouchesEffect ==
    ASSUME NEW g \in Handlers, Len(g.tracked) = 2, NEW id \in Fingers, NEW apart \in BOOLEAN,
           g.state \in {{}, TwoMoved}
    PROVE  LET h == TwoTouches(g, id, apart)
           IN  /\ h \in Handlers
               /\ \/ h.state \in {{}, {"twodrag"}, {"pinch"}} /\ h.twoTouch = "off"
                  \/ h.state = g.state
               /\ h.tracked = g.tracked /\ h.ignored = g.ignored
               /\ h.waitingRelease = g.waitingRelease /\ h.longpress = g.longpress
               /\ h.error = g.error /\ h.out = g.out
<1> DEFINE prev == CHOOSE k \in 1..2 : g.tracked[k].id # id
           gone == {IF apart THEN "twodrag" ELSE "pinch"}
           h == TwoTouches(g, id, apart)
<1>1. CASE g.tracked[prev].far
  <2>1. h = [g EXCEPT !.state = @ \ gone, !.twoTouch = "off"]  BY <1>1 DEF TwoTouches
  <2>2. g.state \ gone \in {{}, {"twodrag"}, {"pinch"}}  BY DEF TwoMoved
  <2>3. g.state \ gone \in SUBSET GH_INITSTATE  BY DEF Handlers
  <2> HIDE DEF h, gone
  <2>4. /\ h \in Handlers /\ h.state = g.state \ gone /\ h.twoTouch = "off"
        /\ h.tracked = g.tracked /\ h.ignored = g.ignored
        /\ h.waitingRelease = g.waitingRelease /\ h.longpress = g.longpress
        /\ h.error = g.error /\ h.out = g.out
    BY <2>1, <2>3 DEF Handlers
  <2>5. QED  BY <2>2, <2>4 DEF h
<1>2. CASE ~g.tracked[prev].far /\ g.twoTouch = "off"
  <2>1. h = [g EXCEPT !.twoTouch = "running"]  BY <1>2 DEF TwoTouches
  <2> HIDE DEF h
  <2>2. QED  BY <2>1 DEF Handlers, h
<1>3. CASE ~g.tracked[prev].far /\ g.twoTouch # "off"
  <2>1. h = g  BY <1>3 DEF TwoTouches
  <2>2. QED  BY <2>1
<1>4. QED  BY <1>1, <1>2, <1>3

\* What a move that was far enough leaves of the state.
LEMMA NarrowedEffect ==
    ASSUME NEW g, Book(g), ~hasDetectedGesture(g), g.tracked # <<>>,
           NEW id \in Fingers, NEW apart \in BOOLEAN
    PROVE  LET h == Narrowed(g, id, apart)
           IN  /\ Book(h) /\ h.tracked = g.tracked /\ h.ignored = g.ignored
               /\ h.out = g.out
               /\ h.state \in {{}, TwoMoved, {"drag"}, {"twodrag"}, {"pinch"}}
<1> DEFINE n == Len(g.tracked)
           ruled == taps \cup {"longpress"}
                    \cup (IF n # 1 THEN {"drag"} ELSE {})
                    \cup (IF n # 2 THEN {"twodrag", "pinch"} ELSE {})
           m == [g EXCEPT !.state = @ \ ruled, !.longpress = FALSE]
           h == Narrowed(g, id, apart)
<1>0. /\ g \in Handlers /\ ~g.error /\ Tracking(g) /\ Idle(g) /\ Timers(g) /\ Narrowing(g)
      /\ Active(g) \cap g.ignored = {}
  BY DEF Book
<1>1. h = IF n = 2 THEN TwoTouches(m, id, apart) ELSE m  BY DEF Narrowed
<1>2. n \in Nat /\ n > 0  BY BookActive
<1>3. /\ m \in Handlers /\ m.state = g.state \ ruled /\ ~m.longpress
      /\ m.tracked = g.tracked /\ m.ignored = g.ignored /\ m.waitingRelease = g.waitingRelease
      /\ m.twoTouch = g.twoTouch /\ ~m.error /\ m.out = g.out
  <2> HIDE DEF ruled
  <2>1. g.state \ ruled \in SUBSET GH_INITSTATE  BY <1>0 DEF Handlers
  <2>2. QED  BY <1>0, <2>1 DEF Handlers
<1>4. /\ n = 1 => m.state \in {{}, {"drag"}}
      /\ n = 2 => m.state \in {{}, TwoMoved}
      /\ n > 2 => m.state = {}
      /\ g.waitingRelease => m.state = {}
      /\ g.twoTouch = "running" => m.state \in {{}, TwoMoved}
  <2>0. /\ g.state # {"drag"} /\ g.state # {"longpress"}
        /\ g.state # {"twodrag"} /\ g.state # {"pinch"}
    BY BookActive, NotDetected
  <2>1. CASE g.state \in {{}} \cup TapStates
    <3>1. g.state \ ruled = {}  BY <2>1 DEF TapStates, taps
    <3>2. QED  BY <1>3, <3>1
  <2>2. CASE n = 1 /\ g.state = GH_INITSTATE /\ ~g.waitingRelease
    <3>1. g.state \ ruled = {"drag"}  BY <2>2 DEF GH_INITSTATE, taps
    <3>2. g.twoTouch # "running"  BY <1>0, <2>2 DEF Timers
    <3> HIDE DEF ruled, m
    <3>3. QED  BY <1>3, <2>2, <3>1, <3>2
  <2>3. CASE n = 2 /\ g.state \in {TwoStart, TwoMoved} /\ ~g.waitingRelease
    <3>1. g.state \ ruled = TwoMoved  BY <2>3 DEF TwoStart, TwoMoved, taps
    <3> HIDE DEF ruled, m
    <3>2. QED  BY <1>3, <2>3, <3>1
  <2>4. \/ g.state \in {{}} \cup TapStates
        \/ n = 1 /\ g.state = GH_INITSTATE /\ ~g.waitingRelease
        \/ n = 2 /\ g.state \in {TwoStart, TwoMoved} /\ ~g.waitingRelease
    BY <1>0, <2>0 DEF Narrowing, Alone, TapStates
  <2>5. QED  BY <2>1, <2>2, <2>3, <2>4
<1> HIDE DEF m, h, ruled
<1>5. /\ h \in Handlers /\ ~h.error /\ ~h.longpress
      /\ h.tracked = g.tracked /\ h.ignored = g.ignored /\ h.waitingRelease = g.waitingRelease
      /\ h.out = g.out
      /\ n = 1 => h.state \in {{}, {"drag"}} /\ h.twoTouch = g.twoTouch
      /\ n = 2 => h.state \in {{}, TwoMoved, {"twodrag"}, {"pinch"}}
      /\ n > 2 => h.state = {}
      /\ h.twoTouch = "running" => h.state \in {{}, TwoMoved}
  <2>1. CASE n = 2
    <3> DEFINE t == TwoTouches(m, id, apart)
    <3>1. h = t  BY <1>1, <2>1
    <3>2. m.state \in {{}, TwoMoved} /\ Len(m.tracked) = 2  BY <1>3, <1>4, <2>1
    <3>3. /\ t \in Handlers
          /\ \/ t.state \in {{}, {"twodrag"}, {"pinch"}} /\ t.twoTouch = "off"
             \/ t.state = m.state
          /\ t.tracked = m.tracked /\ t.ignored = m.ignored
          /\ t.waitingRelease = m.waitingRelease /\ t.longpress = m.longpress
          /\ t.error = m.error /\ t.out = m.out
      BY <1>3, <3>2, TwoTouchesEffect
    <3> HIDE DEF t, n
    <3>4. t.state \in {{}, TwoMoved, {"twodrag"}, {"pinch"}}  BY <3>2, <3>3
    <3>5. t.twoTouch = "running" => t.state \in {{}, TwoMoved}  BY <3>2, <3>3
    <3>6. QED  BY <1>3, <2>1, <3>1, <3>3, <3>4, <3>5
  <2>2. CASE n # 2
    <3>1. h = m  BY <1>1, <2>2
    <3> HIDE DEF n
    <3>2. QED  BY <1>3, <1>4, <2>2, <3>1
  <2>3. QED  BY <2>1, <2>2
<1>6. h.state \in {{}, TwoMoved, {"drag"}, {"twodrag"}, {"pinch"}}
  <2>1. n = 1 \/ n = 2 \/ n > 2  BY <1>2, Counting
  <2> HIDE DEF n
  <2>2. QED  BY <1>5, <2>1
<1>7. g.waitingRelease => h.state \in Alone
  <2>1. CASE n = 2  BY <1>3, <1>4, <1>5, <1>1, <2>1, TwoTouchesEffect DEF Alone
  <2>2. CASE n # 2  BY <1>1, <1>4, <2>2 DEF Alone
  <2>3. QED  BY <2>1, <2>2
<1>8. Narrowing(h)
  <2>1. n = 1 \/ n = 2 \/ n = 3 \/ n > 3  BY <1>2, Counting
  <2>2. CASE g.waitingRelease  BY <1>5, <1>7, <2>2 DEF Narrowing
  <2>3. CASE ~g.waitingRelease
    <3>1. CASE n = 1  BY <1>5, <2>3, <3>1 DEF Narrowing
    <3>2. CASE n = 2  BY <1>5, <2>3, <3>2 DEF Narrowing, Alone
    <3>3. CASE n = 3
      <4>1. h.state = {}  BY <1>5, <3>3
      <4>2. QED  BY <1>5, <2>3, <3>3, <4>1 DEF Narrowing, Alone
    <3>4. CASE n > 3
      <4>1. h.state = {}  BY <1>2, <1>5, <3>4
      <4>2. QED  BY <1>5, <2>3, <3>4, <4>1 DEF Narrowing, Alone
    <3>5. QED  BY <2>1, <3>1, <3>2, <3>3, <3>4
  <2>4. QED  BY <2>2, <2>3
<1>9. Timers(h)
  <2>1. h.twoTouch = "running" => n >= 2
    <3>1. n = 1 => g.twoTouch # "running"  BY <1>0 DEF Timers
    <3>2. n = 1 \/ n >= 2  BY <1>2, Counting
    <3> HIDE DEF n
    <3>3. QED  BY <1>5, <3>1, <3>2
  <2>2. QED  BY <1>5, <2>1 DEF Timers
<1>10. Tracking(h) /\ Idle(h) /\ Active(h) = Active(g)
  BY <1>0, <1>5 DEF Tracking, Idle, Active
<1>11. Book(h)  BY <1>0, <1>5, <1>8, <1>9, <1>10 DEF Book
<1>12. QED  BY <1>5, <1>6, <1>11 DEF h

\* _touchMove: the fingers stay the same.
LEMMA TouchMoveBook ==
    ASSUME NEW g, Book(g), g.out = <<>>, NEW id \in Fingers,
           NEW far \in BOOLEAN, NEW apart \in BOOLEAN
    PROVE  LET h == touchMove(g, id, far, apart)
           IN  Book(h) /\ Known(h) = Known(g) /\ Fitting(g, h)
<1> DEFINE h == touchMove(g, id, far, apart)
           k == CHOOSE j \in IndexOf(g, id) : TRUE
           m == [g EXCEPT !.tracked[k].far = far]
           N == Narrowed(m, id, apart)
<1>0. g \in Handlers /\ ~g.error /\ Tracking(g) /\ Idle(g) /\ Timers(g) /\ Active(g) \cap g.ignored = {}
      /\ (g.tracked # <<>> => Narrowing(g))
  BY DEF Book
<1>1. CASE IndexOf(g, id) = {}
  <2>1. h = g  BY <1>1 DEF touchMove
  <2>2. QED  BY <2>1, QuietFitting
<1>2. CASE IndexOf(g, id) # {}
  <2>1. k \in 1..Len(g.tracked)  BY <1>2 DEF IndexOf
  <2>2. g.tracked # <<>> /\ g.tracked[k] \in Touched  BY <2>1, BookActive
  <2>3. h = CASE hasDetectedGesture(g) -> pushEvent(m, "gesturemove")
              [] ~hasDetectedGesture(g) /\ ~far -> m
              [] OTHER -> IF ~hasDetectedGesture(N) THEN N
                          ELSE pushEvent(pushEvent(N, "gesturestart"), "gesturemove")
    BY <1>2 DEF touchMove
  <2> HIDE DEF k, h
  <2> DEFINE T == [g.tracked EXCEPT ![k] = [@ EXCEPT !.far = far]]
  <2>4. T \in Seq(Touched) /\ Len(T) = Len(g.tracked)
        /\ \A i \in 1..Len(g.tracked) : T[i].id = g.tracked[i].id /\ T[i].active = g.tracked[i].active
    <3>1. g.tracked \in Seq(Touched)  BY BookActive
    <3>2. [g.tracked[k] EXCEPT !.far = far] \in Touched
          /\ [g.tracked[k] EXCEPT !.far = far].id = g.tracked[k].id
          /\ [g.tracked[k] EXCEPT !.far = far].active = g.tracked[k].active
      BY <2>2 DEF Touched
    <3>3. QED  BY <2>1, <3>1, <3>2
  <2>5. m = [g EXCEPT !.tracked = T]  BY <1>0 DEF Handlers
  <2> HIDE DEF m, T
  <2>6. /\ m \in Handlers /\ ~m.error /\ m.state = g.state /\ m.tracked = T
        /\ m.ignored = g.ignored /\ m.waitingRelease = g.waitingRelease
        /\ m.longpress = g.longpress /\ m.twoTouch = g.twoTouch /\ m.out = <<>>
    BY <1>0, <2>4, <2>5 DEF Handlers
  <2>7. Active(m) = Active(g) /\ (m.tracked = <<>> <=> g.tracked = <<>>) /\ Tracking(m)
    BY <1>0, <2>4, <2>6, SameTouches
  <2>8. Idle(m) /\ Timers(m) /\ Narrowing(m)
    BY <1>0, <2>2, <2>4, <2>6, <2>7 DEF Idle, Timers, Narrowing
  <2>9. Book(m) /\ Known(m) = Known(g)  BY <1>0, <2>6, <2>7, <2>8 DEF Book, Known
  <2>10. hasDetectedGesture(m) = hasDetectedGesture(g)
    BY <2>6, <2>7 DEF hasDetectedGesture, Decided
  <2>11. CASE hasDetectedGesture(g)
    <3>1. PICK s \in m.state : m.state = {s}  BY <2>10, <2>11, DetectedCases
    <3>2. h = pushEvent(m, "gesturemove")  BY <2>3, <2>11
    <3>3. h \in Handlers /\ Alike(m, h) /\ Len(h.out) = 1 /\ h.out[1] = Event("gesturemove", s)
      BY <2>2, <2>6, <2>7, <3>1, <3>2, PushOnce DEF EventTypes
    <3>4. Book(h) /\ Known(h) = Known(m)  BY <2>9, <3>3, AlikeBook
    <3>5. h.state = g.state  BY <2>6, <3>3 DEF Alike
    <3>6. Presses(h.out[1]) = {}  BY <3>3 DEF Presses, Event
    <3>7. \A i \in 1..1 : i = 1  OBVIOUS
    <3>8. Fitting(g, h)  BY <3>3, <3>5, <3>6, <3>7 DEF Fitting
    <3>9. QED  BY <2>9, <3>4, <3>8 DEF h
  <2>12. CASE ~hasDetectedGesture(g) /\ ~far
    <3>1. h = m  BY <2>3, <2>12
    <3>2. QED  BY <2>6, <2>9, <3>1, QuietFitting DEF h
  <2>13. CASE ~hasDetectedGesture(g) /\ far
    <3>1. /\ Book(N) /\ N.tracked = m.tracked /\ N.ignored = m.ignored /\ N.out = <<>>
          /\ N.state \in {{}, TwoMoved, {"drag"}, {"twodrag"}, {"pinch"}}
      BY <2>2, <2>6, <2>7, <2>9, <2>10, <2>13, NarrowedEffect
    <3>2. h = IF ~hasDetectedGesture(N) THEN N
              ELSE pushEvent(pushEvent(N, "gesturestart"), "gesturemove")
      BY <2>3, <2>13
    <3> HIDE DEF N
    <3>3. Known(N) = Known(g) /\ N.tracked # <<>>
      BY <2>2, <2>7, <2>9, <3>1 DEF Known, Active
    <3>4. ButtonOf(g.state) = {}  BY <2>13, NoButton
    <3>5. CASE ~hasDetectedGesture(N)
      <4>1. h = N  BY <3>2, <3>5
      <4>2. QED  BY <3>1, <3>3, <3>4, <4>1, QuietFitting DEF h
    <3>6. CASE hasDetectedGesture(N)
      <4>1. PICK s \in N.state : N.state = {s}  BY <3>6, DetectedCases
      <4>2. h = pushEvent(pushEvent(N, "gesturestart"), "gesturemove")  BY <3>2, <3>6
      <4>3. /\ h \in Handlers /\ Alike(N, h) /\ Len(h.out) = 2
            /\ h.out[1] = Event("gesturestart", s) /\ h.out[2] = Event("gesturemove", s)
        BY <3>1, <3>3, <4>1, <4>2, PushTwice DEF EventTypes, Book
      <4>4. Book(h) /\ Known(h) = Known(g)  BY <3>1, <3>3, <4>3, AlikeBook
      <4>5. h.state = {s}  BY <4>1, <4>3 DEF Alike
      <4>6. Fitting(g, h)  BY <3>4, <4>3, <4>5, BeginFitting
      <4>7. QED  BY <4>4, <4>6 DEF h
    <3>7. QED  BY <3>5, <3>6
  <2>14. QED  BY <2>11, <2>12, <2>13
<1>3. QED  BY <1>1, <1>2

\* The timers of the long press and of the two touches.
LEMMA LongpressBook ==
    ASSUME NEW g, Book(g), g.out = <<>>, g.longpress
    PROVE  LET h == longpressTimeout(g)
           IN  Book(h) /\ Known(h) = Known(g) /\ Fitting(g, h)
<1> DEFINE h == longpressTimeout(g)
           m == [g EXCEPT !.state = {"longpress"}, !.longpress = FALSE]
<1>0. /\ g \in Handlers /\ ~g.error /\ Tracking(g) /\ Idle(g) /\ Timers(g)
      /\ Active(g) \cap g.ignored = {}
      /\ Len(g.tracked) = 1 /\ g.state \in {GH_INITSTATE, {}} /\ ~g.waitingRelease
      /\ g.twoTouch # "running" /\ g.tracked # <<>>
  <2>1. Len(g.tracked) = 1 /\ g.state \in {GH_INITSTATE, {}} /\ ~g.waitingRelease
    BY DEF Book, Timers
  <2>2. g.tracked # <<>>
    <3>1. \A n \in Nat : n = 1 => n > 0  OBVIOUS
    <3>2. QED  BY <2>1, <3>1, BookActive
  <2>3. g.twoTouch # "running"  BY <2>1 DEF Book, Timers
  <2>4. QED  BY <2>1, <2>2, <2>3 DEF Book
<1>1. ~hasDetectedGesture(g)  BY <1>0, BookActive, NotDetected
<1>2. /\ m \in Handlers /\ ~m.error /\ m.state = {"longpress"} /\ m.tracked = g.tracked
      /\ m.ignored = g.ignored /\ m.waitingRelease = g.waitingRelease
      /\ ~m.longpress /\ m.twoTouch = g.twoTouch /\ m.out = <<>>
  <2>1. {"longpress"} \in SUBSET GH_INITSTATE  BY DEF GH_INITSTATE
  <2>2. QED  BY <1>0, <2>1 DEF Handlers
<1>3. h = pushEvent(m, "gesturestart")  BY <1>1 DEF longpressTimeout
<1> HIDE DEF m, h
<1>4. Tracking(m) /\ Idle(m) /\ Timers(m) /\ Narrowing(m) /\ Active(m) = Active(g)
  BY <1>0, <1>2 DEF Tracking, Idle, Timers, Narrowing, Active
<1>5. Book(m) /\ Known(m) = Known(g)  BY <1>0, <1>2, <1>4 DEF Book, Known
<1>6. h \in Handlers /\ Alike(m, h) /\ Len(h.out) = 1
      /\ h.out[1] = Event("gesturestart", "longpress")
  BY <1>0, <1>2, <1>3, PushOnce DEF EventTypes
<1>7. Book(h) /\ Known(h) = Known(g) /\ h.state = {"longpress"}
  BY <1>2, <1>5, <1>6, AlikeBook DEF Alike
<1>8. Fitting(g, h)  BY <1>1, <1>6, <1>7, NoButton, BeginFitting
<1>9. QED  BY <1>7, <1>8 DEF h

\* _twoTouchTimeout: there are two touches, and it tells which gesture they
\* make.
LEMMA TwoTouchBook ==
    ASSUME NEW g, Book(g), g.out = <<>>, g.twoTouch = "running", NEW pinch \in BOOLEAN
    PROVE  LET h == twoTouchTimeout(g, pinch)
           IN  Book(h) /\ Known(h) = Known(g) /\ Fitting(g, h)
<1> DEFINE h == twoTouchTimeout(g, pinch)
           s == IF pinch THEN "pinch" ELSE "twodrag"
           m == [g EXCEPT !.state = {s}, !.twoTouch = "fired"]
<1>0. /\ g \in Handlers /\ ~g.error /\ Tracking(g) /\ Idle(g) /\ Timers(g) /\ ~g.longpress
      /\ Active(g) \cap g.ignored = {}
      /\ Len(g.tracked) >= 2 /\ g.state \in {{}, TwoMoved}
      /\ g.tracked # <<>>
  <2>1. Len(g.tracked) >= 2 /\ Len(g.tracked) \in Nat  BY BookActive DEF Book, Timers
  <2>2. \A n \in Nat : n >= 2 => n > 0 /\ n # 1  OBVIOUS
  <2>3. QED  BY <2>1, <2>2, BookActive DEF Book, Timers
<1>1. ~hasDetectedGesture(g)  BY <1>0, BookActive, NotDetected
<1>2. s \in GH_INITSTATE /\ s \notin {"drag", "longpress"} /\ {s} \in Alone
  BY DEF GH_INITSTATE, Alone
<1>3. h = pushEvent(pushEvent(m, "gesturestart"), "gesturemove")  BY <1>0 DEF twoTouchTimeout
<1> HIDE DEF s
<1>4. /\ m \in Handlers /\ ~m.error /\ m.state = {s} /\ m.tracked = g.tracked
      /\ m.ignored = g.ignored /\ m.waitingRelease = g.waitingRelease
      /\ ~m.longpress /\ m.twoTouch = "fired" /\ m.out = <<>>
  BY <1>0, <1>2 DEF Handlers
<1> HIDE DEF m, h
<1>5. Tracking(m) /\ Idle(m) /\ Timers(m) /\ Active(m) = Active(g)
  BY <1>0, <1>4 DEF Tracking, Idle, Timers, Active
<1>6. Narrowing(m)
  <2>1. \A n \in Nat : n >= 2 => n = 2 \/ n = 3 \/ n > 3  OBVIOUS
  <2>2. Len(g.tracked) = 2 \/ Len(g.tracked) = 3 \/ Len(g.tracked) > 3
    BY <1>0, <2>1, BookActive
  <2>3. QED  BY <1>2, <1>4, <2>2 DEF Narrowing
<1>7. Book(m) /\ Known(m) = Known(g)  BY <1>0, <1>4, <1>5, <1>6 DEF Book, Known
<1>8. /\ h \in Handlers /\ Alike(m, h) /\ Len(h.out) = 2
      /\ h.out[1] = Event("gesturestart", s) /\ h.out[2] = Event("gesturemove", s)
  BY <1>0, <1>3, <1>4, PushTwice DEF EventTypes
<1>9. Book(h) /\ Known(h) = Known(g) /\ h.state = {s}
  BY <1>4, <1>7, <1>8, AlikeBook DEF Alike
<1>10. Fitting(g, h)  BY <1>1, <1>8, <1>9, NoButton, BeginFitting
<1>11. QED  BY <1>9, <1>10 DEF h

\* What the first release leaves of an undecided gesture.
LEMMA FirstReleaseEffect ==
    ASSUME NEW g, Book(g), g.out = <<>>, ~hasDetectedGesture(g), g.tracked # <<>>
    PROVE  LET f == FirstRelease(BeforeTimer(g))
           IN  /\ f \in Handlers /\ ~f.error /\ f.out = <<>>
               /\ f.tracked = g.tracked /\ f.ignored = g.ignored
               /\ f.state \in {{}} \cup TapStates /\ f.waitingRelease
               /\ ~f.longpress /\ f.twoTouch = "off"
<1> DEFINE b == BeforeTimer(g)
           few == CASE Len(g.tracked) = 1 -> {"twotap", "threetap"}
                    [] Len(g.tracked) = 2 -> {"onetap", "threetap"}
                    [] OTHER -> {}
           ruled == {"drag", "twodrag", "pinch", "longpress"}
                    \cup (IF g.waitingRelease THEN {} ELSE few)
           f == FirstRelease(b)
<1>0. g \in Handlers /\ ~g.error /\ Narrowing(g)  BY DEF Book
<1>1. /\ b \in Handlers /\ ~b.error /\ b.out = <<>> /\ b.tracked = g.tracked
      /\ b.ignored = g.ignored /\ b.waitingRelease = g.waitingRelease
      /\ b.state \in {g.state, {}} /\ b.twoTouch = "off"
  <2>1. CASE g.twoTouch = "off"  BY <1>0, <2>1 DEF BeforeTimer
  <2>2. CASE g.twoTouch # "off"
    <3>1. b = [g EXCEPT !.twoTouch = "off", !.state = {}]  BY <2>2 DEF BeforeTimer
    <3> HIDE DEF b
    <3>2. QED  BY <1>0, <3>1 DEF Handlers
  <2>3. QED  BY <2>1, <2>2
<1>2. ~hasDetectedGesture(b)
  <2>1. CASE b.state = g.state  BY <1>1, <2>1 DEF hasDetectedGesture, Decided, Active
  <2>2. CASE b.state = {}  BY <2>2, Undecided, DetectedCases
  <2>3. QED  BY <1>1, <2>1, <2>2
<1> HIDE DEF b
<1>3. f = [b EXCEPT !.longpress = FALSE, !.waitingRelease = TRUE, !.state = @ \ ruled]
  BY <1>1, <1>2 DEF FirstRelease
<1>4. b.state \ ruled \in {{}} \cup TapStates
  <2>0. /\ g.state # {"drag"} /\ g.state # {"longpress"}
        /\ g.state # {"twodrag"} /\ g.state # {"pinch"}
    BY BookActive, NotDetected
  <2>1. CASE b.state = {}  BY <2>1
  <2>2. CASE b.state = g.state /\ g.waitingRelease
    <3>1. g.state \in {{}} \cup TapStates  BY <1>0, <2>0, <2>2 DEF Narrowing, Alone
    <3>2. g.state \ ruled = g.state  BY <2>2, <3>1 DEF TapStates
    <3>3. QED  BY <2>2, <3>1, <3>2
  <2>3. CASE b.state = g.state /\ ~g.waitingRelease /\ g.state # {}
    <3>1. CASE Len(g.tracked) = 1
      <4>1. g.state = GH_INITSTATE  BY <1>0, <2>0, <2>3, <3>1 DEF Narrowing
      <4>2. g.state \ ruled = {"onetap"}  BY <2>3, <3>1, <4>1 DEF GH_INITSTATE, taps
      <4>3. QED  BY <2>3, <4>2 DEF TapStates
    <3>2. CASE Len(g.tracked) = 2
      <4>1. g.state \in {TwoStart, TwoMoved}  BY <1>0, <2>0, <2>3, <3>2 DEF Narrowing, Alone
      <4>2. g.state \ ruled \in {{"twotap"}, {}}
        BY <2>3, <3>2, <4>1 DEF TwoStart, TwoMoved
      <4>3. QED  BY <2>3, <4>2 DEF TapStates
    <3>3. CASE Len(g.tracked) # 1 /\ Len(g.tracked) # 2
      <4>1. g.state = {"threetap"}  BY <1>0, <2>0, <2>3, <3>3 DEF Narrowing, Alone
      <4>2. g.state \ ruled = {"threetap"}  BY <2>3, <3>3, <4>1
      <4>3. QED  BY <2>3, <4>2 DEF TapStates
    <3>4. QED  BY <3>1, <3>2, <3>3
  <2>4. QED  BY <1>1, <2>1, <2>2, <2>3
<1>5. b.state \ ruled \in SUBSET GH_INITSTATE  BY <1>4, Undecided
<1> HIDE DEF f, ruled
<1>6. /\ f \in Handlers /\ ~f.error /\ f.out = <<>>
      /\ f.tracked = b.tracked /\ f.ignored = b.ignored
      /\ f.state = b.state \ ruled /\ f.waitingRelease
      /\ ~f.longpress /\ f.twoTouch = "off"
  BY <1>1, <1>3, <1>5 DEF Handlers
<1>7. QED  BY <1>1, <1>4, <1>6 DEF f, b

\* A touch that is let go while the others are waited for.
LEMMA ReleasedEffect ==
    ASSUME NEW g \in Handlers, Tracking(g), NEW id, id \in Active(g)
    PROVE  LET h == Released(g, id)
           IN  /\ IndexOf(g, id) # {}
               /\ h \in Handlers /\ h.tracked # <<>> /\ Len(h.tracked) = Len(g.tracked)
               /\ h.state \in {g.state, {}} /\ Active(h) = Active(g) \ {id}
               /\ \A i, j \in 1..Len(h.tracked) : h.tracked[i].id = h.tracked[j].id => i = j
               /\ h.ignored = g.ignored /\ h.waitingRelease = g.waitingRelease
               /\ h.longpress = g.longpress /\ h.twoTouch = g.twoTouch
               /\ h.error = g.error /\ h.out = g.out
<1> DEFINE k == CHOOSE j \in IndexOf(g, id) : TRUE
           T == [g.tracked EXCEPT ![k] = [@ EXCEPT !.active = FALSE]]
           st == IF g.late \/ g.age = 2 THEN {} ELSE g.state
           h == Released(g, id)
<1>1. PICK a \in 1..Len(g.tracked) : g.tracked[a].active /\ g.tracked[a].id = id
  BY ActiveMembers
<1>2. k \in 1..Len(g.tracked) /\ g.tracked[k].id = id /\ IndexOf(g, id) # {}
  BY <1>1 DEF IndexOf
<1>3. k = a  BY <1>1, <1>2 DEF Tracking
<1>4. h = [g EXCEPT !.tracked[k].active = FALSE, !.state = st]  BY DEF Released
<1> HIDE DEF k, h
<1>5. g.tracked \in Seq(Touched) /\ g.tracked[k] \in Touched
  <2>1. g.tracked \in Seq(Touched)  BY DEF Handlers
  <2>2. QED  BY <1>2, <2>1
<1>6. T \in Seq(Touched) /\ Len(T) = Len(g.tracked)
      /\ \A i \in 1..Len(g.tracked) : /\ T[i].id = g.tracked[i].id
                                      /\ T[i].active = (g.tracked[i].active /\ i # k)
  <2>1. /\ [g.tracked[k] EXCEPT !.active = FALSE] \in Touched
        /\ [g.tracked[k] EXCEPT !.active = FALSE].id = g.tracked[k].id
        /\ [g.tracked[k] EXCEPT !.active = FALSE].active = FALSE
    BY <1>5 DEF Touched
  <2>2. \A i \in 1..Len(g.tracked) : g.tracked[i].active \in BOOLEAN
    <3>1. \A i \in 1..Len(g.tracked) : g.tracked[i] \in Touched  BY <1>5
    <3>2. QED  BY <3>1 DEF Touched
  <2>3. T \in Seq(Touched) /\ Len(T) = Len(g.tracked)  BY <1>2, <1>5, <2>1
  <2>4. T[k] = [g.tracked[k] EXCEPT !.active = FALSE]  BY <1>2, <1>5
  <2>5. \A i \in 1..Len(g.tracked) : i # k => T[i] = g.tracked[i]  BY <1>5
  <2> HIDE DEF T
  <2>6. QED  BY <2>1, <2>2, <2>3, <2>4, <2>5
<1>7. h = [g EXCEPT !.tracked = T, !.state = st]  BY <1>4 DEF Handlers
<1>8. st \in {g.state, {}} /\ st \in SUBSET GH_INITSTATE  BY DEF Handlers
<1> HIDE DEF T, st
<1>9. /\ h \in Handlers /\ h.tracked = T /\ h.state = st
      /\ h.ignored = g.ignored /\ h.waitingRelease = g.waitingRelease
      /\ h.longpress = g.longpress /\ h.twoTouch = g.twoTouch
      /\ h.error = g.error /\ h.out = g.out
  BY <1>6, <1>7, <1>8 DEF Handlers
<1>10. /\ Len(h.tracked) = Len(g.tracked)
       /\ \A i \in 1..Len(g.tracked) : /\ h.tracked[i].id = g.tracked[i].id
                                       /\ h.tracked[i].active <=> g.tracked[i].active /\ i # k
  BY <1>6, <1>9
<1>11. Active(h) = Active(g) \ {id}
  <2>1. \A x : x \in Active(h) <=>
               \E i \in 1..Len(g.tracked) : g.tracked[i].active /\ i # k /\ g.tracked[i].id = x
    <3>1. \A x : x \in Active(h) <=>
                 \E i \in 1..Len(h.tracked) : h.tracked[i].active /\ h.tracked[i].id = x
      BY ActiveMembers
    <3>2. QED  BY <1>10, <3>1
  <2>2. \A i \in 1..Len(g.tracked) : i # k <=> g.tracked[i].id # id  BY <1>2 DEF Tracking
  <2>3. \A x : x \in Active(h) <=> x \in Active(g) /\ x # id  BY <2>1, <2>2, ActiveMembers
  <2>4. QED  BY <2>3
<1>12. h.tracked # <<>>
  <2>1. \A s \in Seq(Touched) : 1..Len(s) # {} => s # <<>>  OBVIOUS
  <2>2. 1..Len(T) # {}  BY <1>2, <1>6
  <2>3. QED  BY <1>6, <1>9, <2>1, <2>2
<1>13. \A i, j \in 1..Len(h.tracked) : h.tracked[i].id = h.tracked[j].id => i = j
  BY <1>10 DEF Tracking
<1>14. QED  BY <1>2, <1>8, <1>9, <1>10, <1>11, <1>12, <1>13 DEF h

\* A gesture that is over releases its button, or has none.
LEMMA EndFitting ==
    ASSUME NEW g, NEW h, NEW s, ButtonOf(h.state) = {},
           \/ Len(h.out) = 0 /\ ButtonOf(g.state) = {}
           \/ Len(h.out) = 1 /\ h.out[1] = Event("gestureend", s) /\ g.state = {s}
           \/ /\ Len(h.out) = 2 /\ h.out[1] = Event("gesturestart", s)
              /\ h.out[2] = Event("gestureend", s)
              /\ s \notin {"drag", "longpress"} /\ ButtonOf(g.state) = {}
    PROVE  Fitting(g, h)
<1>1. /\ Presses(Event("gesturestart", s)) = ButtonOf({s})
      /\ Presses(Event("gestureend", s)) = {}
      /\ s \in {"drag", "longpress"} => Releases(Event("gestureend", s))
  BY DEF Presses, Releases, Event
<1>2. CASE Len(h.out) = 0 /\ ButtonOf(g.state) = {}
  <2>1. 1..0 = {}  OBVIOUS
  <2>2. QED  BY <1>2, <2>1 DEF Fitting
<1>3. CASE Len(h.out) = 1 /\ h.out[1] = Event("gestureend", s) /\ g.state = {s}
  <2>1. CASE s \in {"drag", "longpress"}  BY <1>1, <1>3, <2>1 DEF Fitting
  <2>2. CASE s \notin {"drag", "longpress"}
    <3>1. ButtonOf(g.state) = {}  BY <1>3, <2>2, Undecided
    <3>2. \A k \in 1..1 : k = 1  OBVIOUS
    <3>3. QED  BY <1>1, <1>3, <3>1, <3>2 DEF Fitting
  <2>3. QED  BY <2>1, <2>2
<1>4. CASE /\ Len(h.out) = 2 /\ h.out[1] = Event("gesturestart", s)
           /\ h.out[2] = Event("gestureend", s)
           /\ s \notin {"drag", "longpress"} /\ ButtonOf(g.state) = {}
  <2>1. \A k \in 1..2 : k = 1 \/ k = 2  OBVIOUS
  <2>2. ButtonOf({s}) = {}  BY <1>4, Undecided
  <2>3. QED  BY <1>1, <1>4, <2>1, <2>2 DEF Fitting
<1>5. QED  BY <1>2, <1>3, <1>4

\* _touchEnd: the finger is forgotten, and no other.
LEMMA TouchEndBook ==
    ASSUME NEW g, Book(g), g.out = <<>>, NEW id \in Known(g)
    PROVE  LET h == touchEnd(g, id)
           IN  Book(h) /\ Known(h) = Known(g) \ {id} /\ Fitting(g, h)
<1> DEFINE h == touchEnd(g, id)
           first == FirstRelease(BeforeTimer(g))
           rel == Released(first, id)
<1>0. /\ g \in Handlers /\ ~g.error /\ Tracking(g) /\ Idle(g) /\ Timers(g)
      /\ g.tracked # <<>> => Narrowing(g)
      /\ Active(g) \cap g.ignored = {}
  BY DEF Book
<1>1. CASE id \in g.ignored
  <2> DEFINE m == [g EXCEPT !.ignored = @ \ {id}]
  <2>1. /\ m \in Handlers /\ ~m.error /\ m.state = g.state /\ m.tracked = g.tracked
        /\ m.ignored = g.ignored \ {id} /\ m.waitingRelease = g.waitingRelease
        /\ m.longpress = g.longpress /\ m.twoTouch = g.twoTouch /\ m.out = <<>>
    BY <1>0 DEF Handlers
  <2>2. h = IF m.ignored = {} /\ m.tracked = <<>>
            THEN [m EXCEPT !.state = GH_INITSTATE, !.waitingRelease = FALSE] ELSE m
    BY <1>1 DEF touchEnd, EndIgnored
  <2> HIDE DEF m, h
  <2>3. /\ h \in Handlers /\ ~h.error /\ h.tracked = g.tracked
        /\ h.ignored = g.ignored \ {id}
        /\ h.longpress = g.longpress /\ h.twoTouch = g.twoTouch /\ h.out = <<>>
        /\ h.ignored = {} /\ h.tracked = <<>> => h.state = GH_INITSTATE /\ ~h.waitingRelease
        /\ ~(h.ignored = {} /\ h.tracked = <<>>) =>
              h.state = g.state /\ h.waitingRelease = g.waitingRelease
    BY <2>1, <2>2 DEF Handlers
  <2>4. Active(h) = Active(g) /\ id \notin Active(g)  BY <1>0, <1>1, <2>3 DEF Active
  <2>5. g.tracked = <<>> => g.state = {}  BY <1>0, <1>1 DEF Idle
  <2>6. Idle(h)  BY <2>3, <2>5 DEF Idle
  <2>7. CASE g.tracked = <<>>
    <3>1. Tracking(h)
      <4>1. 1..Len(<<>>) = {}  OBVIOUS
      <4>2. QED  BY <2>3, <2>7, <4>1 DEF Tracking
    <3>2. ~g.longpress /\ g.twoTouch # "running"  BY <1>0, <2>7 DEF Timers
    <3>3. Timers(h)  BY <2>3, <3>2 DEF Timers
    <3>4. Book(h) /\ Known(h) = Known(g) \ {id}
      BY <1>0, <2>3, <2>4, <2>6, <2>7, <3>1, <3>3 DEF Book, Known
    <3>5. ButtonOf(g.state) = {}  BY <2>5, <2>7, Undecided
    <3>6. QED  BY <2>3, <3>4, <3>5, QuietFitting DEF h
  <2>8. CASE g.tracked # <<>>
    <3>1. Tracking(h) /\ Timers(h) /\ Narrowing(h)
      BY <1>0, <2>3, <2>8 DEF Tracking, Timers, Narrowing
    <3>2. Book(h) /\ Known(h) = Known(g) \ {id}
      BY <1>0, <2>3, <2>4, <2>6, <3>1 DEF Book, Known
    <3>3. QED  BY <2>3, <2>8, <3>2, QuietFitting DEF h
  <2>9. QED  BY <2>7, <2>8
<1>2. CASE id \notin g.ignored /\ hasDetectedGesture(g)
  <2>1. id \in Active(g) /\ g.tracked # <<>>  BY <1>2, BookActive DEF Known
  <2>2. PICK s \in g.state : g.state = {s}  BY <1>2, DetectedCases
  <2>3. ~g.longpress /\ g.twoTouch # "running"  BY <1>0, <2>2, Undecided DEF Timers
  <2>4. BeforeTimer(g) = g  BY <1>2 DEF BeforeTimer
  <2>5. first = g  BY <1>2, <2>4 DEF FirstRelease
  <2>6. CASE ~g.waitingRelease
    <3> DEFINE p == pushEvent(g, "gestureend")
    <3>1. h = LetGo(p, id)  BY <1>2, <2>5, <2>6 DEF touchEnd
    <3>2. p \in Handlers /\ Alike(g, p) /\ Len(p.out) = 1 /\ p.out[1] = Event("gestureend", s)
      BY <1>0, <2>1, <2>2, PushOnce DEF EventTypes
    <3> HIDE DEF p, h
    <3>3. ~p.error /\ ~p.longpress /\ p.twoTouch # "running" /\ Known(p) = Known(g)
      BY <1>0, <2>3, <3>2, AlikeBook DEF Alike
    <3>4. Book(h) /\ Known(h) = Known(g) \ {id} /\ h.out = p.out /\ ButtonOf(h.state) = {}
      BY <3>1, <3>2, <3>3, LetGoBook
    <3>5. Fitting(g, h)  BY <2>2, <3>2, <3>4, EndFitting
    <3>6. QED  BY <3>4, <3>5 DEF h
  <2>7. CASE g.waitingRelease
    <3>1. s \notin taps /\ s \notin {"drag", "longpress"}
      <4>1. g.state \in Alone \cup TapStates  BY <1>0, <2>1, <2>7 DEF Narrowing
      <4>2. g.state \notin TapStates  BY <1>2, <2>1, BookActive, NotDetected
      <4>3. g.state \in {{"twodrag"}, {"pinch"}}  BY <2>2, <4>1, <4>2 DEF Alone
      <4>4. QED  BY <2>2, <4>3 DEF taps
    <3>2. ButtonOf(g.state) = {}  BY <2>2, <3>1, Undecided
    <3>3. /\ IndexOf(g, id) # {}
          /\ rel \in Handlers /\ rel.tracked # <<>>
          /\ rel.state \in {g.state, {}} /\ Active(rel) = Active(g) \ {id}
          /\ rel.ignored = g.ignored /\ rel.waitingRelease = g.waitingRelease
          /\ rel.longpress = g.longpress /\ rel.twoTouch = g.twoTouch
          /\ rel.error = g.error /\ rel.out = g.out
      BY <1>0, <2>1, <2>5, ReleasedEffect
    <3>4. h = IF hasDetectedGesture(rel)
              THEN LetGo(pushEvent(pushEvent(rel, "gesturestart"), "gestureend"), id)
              ELSE IF rel.state = {} THEN LetGo(rel, id) ELSE rel
      BY <1>2, <2>5, <2>7, <3>3 DEF touchEnd
    <3> HIDE DEF rel, first, h
    <3>5. Known(rel) \ {id} = Known(g) \ {id}  BY <3>3 DEF Known
    <3>6. CASE rel.state = {}
      <4>1. h = LetGo(rel, id)  BY <3>4, <3>6, Undecided, DetectedCases
      <4>2. Book(h) /\ Known(h) = Known(rel) \ {id} /\ h.out = rel.out /\ ButtonOf(h.state) = {}
        BY <1>0, <2>3, <3>3, <4>1, LetGoBook
      <4>3. Fitting(g, h)  BY <3>2, <3>3, <4>2, QuietFitting
      <4>4. QED  BY <3>5, <4>2, <4>3 DEF h
    <3>7. CASE rel.state = g.state
      <4> DEFINE p == pushEvent(pushEvent(rel, "gesturestart"), "gestureend")
      <4>1. hasDetectedGesture(rel)  BY <2>2, <3>1, <3>7, DetectedCases
      <4>2. h = LetGo(p, id)  BY <3>4, <4>1
      <4>3. /\ p \in Handlers /\ Alike(rel, p) /\ Len(p.out) = 2
            /\ p.out[1] = Event("gesturestart", s) /\ p.out[2] = Event("gestureend", s)
        BY <2>2, <3>3, <3>7, PushTwice DEF EventTypes
      <4> HIDE DEF p
      <4>4. ~p.error /\ ~p.longpress /\ p.twoTouch # "running" /\ Known(p) = Known(rel)
        BY <1>0, <2>3, <3>3, <4>3, AlikeBook DEF Alike
      <4>5. Book(h) /\ Known(h) = Known(p) \ {id} /\ h.out = p.out /\ ButtonOf(h.state) = {}
        BY <4>2, <4>3, <4>4, LetGoBook
      <4>6. Fitting(g, h)  BY <3>1, <3>2, <4>3, <4>5, EndFitting
      <4>7. QED  BY <3>5, <4>4, <4>5, <4>6 DEF h
    <3>8. QED  BY <3>3, <3>6, <3>7
  <2>8. QED  BY <2>6, <2>7
<1>3. CASE id \notin g.ignored /\ ~hasDetectedGesture(g)
  <2>1. id \in Active(g) /\ g.tracked # <<>>  BY <1>3, BookActive DEF Known
  <2>2. /\ first \in Handlers /\ ~first.error /\ first.out = <<>>
        /\ first.tracked = g.tracked /\ first.ignored = g.ignored
        /\ first.state \in {{}} \cup TapStates /\ first.waitingRelease
        /\ ~first.longpress /\ first.twoTouch = "off"
    BY <1>3, <2>1, FirstReleaseEffect
  <2>3. h = IF IndexOf(g, id) = {} THEN [g EXCEPT !.error = TRUE]
            ELSE IF hasDetectedGesture(rel)
            THEN LetGo(pushEvent(pushEvent(rel, "gesturestart"), "gestureend"), id)
            ELSE IF rel.state = {} THEN LetGo(rel, id) ELSE rel
    BY <1>3, <2>2 DEF touchEnd
  <2> HIDE DEF first, h
  <2>4. Active(first) = Active(g) /\ Tracking(first)
    BY <1>0, <2>1, <2>2 DEF Active, Tracking
  <2>5. IndexOf(first, id) = IndexOf(g, id)  BY <2>2 DEF IndexOf
  <2>6. /\ IndexOf(g, id) # {}
        /\ rel \in Handlers /\ rel.tracked # <<>> /\ Len(rel.tracked) = Len(first.tracked)
        /\ rel.state \in {first.state, {}} /\ Active(rel) = Active(g) \ {id}
        /\ \A i, j \in 1..Len(rel.tracked) : rel.tracked[i].id = rel.tracked[j].id => i = j
        /\ rel.ignored = g.ignored /\ rel.waitingRelease
        /\ ~rel.longpress /\ rel.twoTouch = "off"
        /\ ~rel.error /\ rel.out = <<>>
    BY <2>1, <2>2, <2>4, <2>5, ReleasedEffect
  <2> HIDE DEF rel
  <2>7. Known(rel) \ {id} = Known(g) \ {id} /\ Known(rel) = Known(g) \ {id}
    BY <1>3, <2>6 DEF Known
  <2>8. ButtonOf(g.state) = {}  BY <1>3, NoButton
  <2>9. CASE rel.state = {}
    <3>1. h = LetGo(rel, id)  BY <2>3, <2>6, <2>9, Undecided, DetectedCases
    <3>2. Book(h) /\ Known(h) = Known(rel) \ {id} /\ h.out = rel.out /\ ButtonOf(h.state) = {}
      BY <2>6, <3>1, LetGoBook
    <3>3. Fitting(g, h)  BY <2>6, <2>8, <3>2, QuietFitting
    <3>4. QED  BY <2>7, <3>2, <3>3 DEF h
  <2>10. CASE rel.state \in TapStates /\ Active(rel) = {}
    <3>1. PICK s \in taps : rel.state = {s}  BY <2>10 DEF TapStates, taps
    <3> DEFINE p == pushEvent(pushEvent(rel, "gesturestart"), "gestureend")
    <3>2. s \notin {"drag", "longpress"}  BY <3>1 DEF taps
    <3>3. hasDetectedGesture(rel)  BY <2>10, <3>1, DetectedCases
    <3>4. h = LetGo(p, id)  BY <2>3, <2>6, <3>3
    <3>5. /\ p \in Handlers /\ Alike(rel, p) /\ Len(p.out) = 2
          /\ p.out[1] = Event("gesturestart", s) /\ p.out[2] = Event("gestureend", s)
      <4>1. rel \in Handlers /\ rel.tracked # <<>> /\ rel.out = <<>>  BY <2>6
      <4>2. "gesturestart" \in EventTypes /\ "gestureend" \in EventTypes  BY DEF EventTypes
      <4>3. QED  BY <3>1, <4>1, <4>2, PushTwice
    <3> HIDE DEF p
    <3>6. ~p.error /\ ~p.longpress /\ p.twoTouch # "running" /\ Known(p) = Known(rel)
      BY <2>6, <3>5, AlikeBook DEF Alike
    <3>7. Book(h) /\ Known(h) = Known(p) \ {id} /\ h.out = p.out /\ ButtonOf(h.state) = {}
      BY <3>4, <3>5, <3>6, LetGoBook
    <3>8. Fitting(g, h)  BY <2>8, <3>2, <3>5, <3>7, EndFitting
    <3>9. QED  BY <2>7, <3>6, <3>7, <3>8 DEF h
  <2>11. CASE rel.state \in TapStates /\ Active(rel) # {}
    <3>1. rel.state \subseteq taps /\ rel.state # {}  BY <2>11 DEF TapStates, taps
    <3>2. h = rel  BY <2>3, <2>6, <2>11, <3>1, DetectedCases
    <3>3. Tracking(rel)
      <4>1. \E k \in 1..Len(rel.tracked) : rel.tracked[k].active  BY <2>11, ActiveMembers
      <4>2. QED  BY <2>6, <4>1 DEF Tracking
    <3>4. Idle(rel) /\ Timers(rel) /\ Narrowing(rel)
      BY <2>6, <2>11 DEF Idle, Timers, Narrowing
    <3>5. Book(rel)  BY <1>0, <2>6, <3>3, <3>4 DEF Book
    <3>6. Fitting(g, rel)  BY <2>6, <2>8, QuietFitting
    <3>7. QED  BY <2>7, <3>2, <3>5, <3>6 DEF h
  <2>12. QED  BY <2>2, <2>6, <2>9, <2>10, <2>11
<1>4. QED  BY <1>1, <1>2, <1>3

------------------------------------------------------------------------------
(* The state of Input, in four parts that each action keeps.               *)

Types ==
    /\ setup \in Setups /\ platform \in Platforms
    /\ client \in Connections /\ keyboard \in Boards /\ gestures \in Handlers
    /\ held \subseteq Keys /\ muted \subseteq Keys /\ focus \in {"canvas", "page", "away"}
    /\ buttons \subseteq Buttons /\ at \in Places \cup {"outside"} /\ captured \in BOOLEAN
    /\ fingers \subseteq Fingers /\ missed \subseteq Keys \cup Buttons /\ aim \in Points

\* A key in the list is one whose release will come, or was missed; so is a
\* Control that waits.
Expected ==
    /\ Codes(keyboard) \subseteq KeysOf[platform] \ {"Unidentified"}
    /\ Codes(keyboard) \subseteq
          held \cup missed \cup (IF platform = "windows" /\ held \cap shifts # {} THEN shifts ELSE {})
    /\ keyboard.armed =>
          platform = "windows" /\ "ControlLeft" \in (held \cup missed) \cap KeysOf[platform]
    /\ platform = "mac" => "CapsLock" \notin Codes(keyboard) /\ Codes(keyboard) \cap muted \subseteq missed
    /\ platform = "windows" => \A c \in Codes(keyboard) : Keysyms[c] \cap jpBadKeys = {}

\* Keys are muted only while a Meta is held.
Muting ==
    /\ muted \subseteq held \ metas
    /\ muted # {} => platform = "mac" /\ metas \cap held # {}

KeyBook ==
    /\ SoundKeyboard(keyboard) /\ keyboard.down = {}
    /\ Expected /\ Muting
    /\ client.con = "live" => client.srv.keys \subseteq Listed(keyboard)
    /\ client.con # "live" => keyboard = NewKeyboard

\* What the server was told, and what it will be told of the mouse.
ButtonBook ==
    client.con = "live" =>
        Pressed(client) \subseteq buttons \cup (missed \cap Buttons) \cup ButtonOf(gestures.state)

FingerBook == gestures.out = <<>> /\ Book(gestures) /\ fingers = Known(gestures)

InputIInv == Types /\ KeyBook /\ ButtonBook /\ FingerBook

\* Keys are keys of the keyboard, and no mouse button is a key.
LEMMA KeysAndButtons ==
    /\ Platforms = {"windows", "mac", "other"}
    /\ \A p \in Platforms : KeysOf[p] \subseteq Keys
    /\ Keys \subseteq DOMAIN Keysyms /\ Keys \subseteq Names
    /\ Keys \cap Buttons = {}
    /\ Buttons \subseteq ButtonNames
    /\ Places \cup {"outside"} \subseteq Points
    /\ \A s \in Setups : FingersOf[s] \subseteq Fingers
    /\ \A c \in DOMAIN Keysyms : Keysyms[c] \subseteq Syms
BY InputAssumption DEF Platforms, Keys, Names, ButtonNames, Points, Fingers, Syms, KeySyms

\* A new GestureHandler knows no finger.
LEMMA NewHandlerBook ==
    Book(NewHandler) /\ Known(NewHandler) = {} /\ NewHandler.out = <<>>
    /\ ButtonOf(NewHandler.state) = {}
<1> DEFINE g == NewHandler
<1>1. /\ g.state = GH_INITSTATE /\ g.tracked = <<>> /\ g.ignored = {} /\ ~g.waitingRelease
      /\ ~g.longpress /\ g.twoTouch = "off" /\ ~g.error /\ g.out = <<>>
  BY DEF NewHandler
<1>2. g \in Handlers
  <2>1. <<>> \in Seq(Touched) /\ <<>> \in Seq(Events)  OBVIOUS
  <2>2. QED  BY <2>1 DEF NewHandler, Handlers
<1> HIDE DEF g
<1>3. Active(g) = {}  BY <1>1 DEF Active
<1>4. Tracking(g) /\ Idle(g) /\ Timers(g)
  <2>1. 1..Len(g.tracked) = {}  BY <1>1
  <2>2. QED  BY <1>1, <2>1 DEF Tracking, Idle, Timers
<1>5. QED  BY <1>1, <1>2, <1>3, <1>4, Undecided DEF Book, Known, g

\* The invariant holds at first.
LEMMA InitBooks == InputInit => InputIInv
<1> SUFFICES ASSUME InputInit PROVE InputIInv  OBVIOUS
<1>1. "other" \in Platforms /\ "none" \in Points /\ "outside" \in Points
  BY DEF Platforms, Points
<1>2. Types
  <2>1. client \in Connections  BY <1>1 DEF InputInit, Connections, Servers
  <2>2. keyboard \in Boards  BY NewKeyboardSound DEF InputInit, SoundKeyboard
  <2>3. gestures \in Handlers  BY NewHandlerBook DEF InputInit, Book
  <2>4. QED  BY <1>1, <2>1, <2>2, <2>3 DEF InputInit, Types
<1>3. KeyBook
  <2>1. keyboard = NewKeyboard /\ muted = {} /\ client.con = "live" /\ client.srv.keys = {}
    BY DEF InputInit
  <2>2. NewKeyboard.down = {}  BY DEF NewKeyboard
  <2>3. QED  BY <2>1, <2>2, NewKeyboardSound DEF KeyBook, Expected, Muting
<1>4. ButtonBook  BY DEF InputInit, ButtonBook, Pressed
<1>5. FingerBook  BY NewHandlerBook DEF InputInit, FingerBook
<1>6. QED  BY <1>2, <1>3, <1>4, <1>5 DEF InputIInv

------------------------------------------------------------------------------
(* What leaves a part of the invariant alone.                              *)

\* The gestures and the mouse send no key that was not down.
LEMMA QuietKeys ==
    ASSUME InputIInv, UNCHANGED <<platform, keyboard, held, muted>>,
           missed \ Buttons \subseteq missed', Keeps(client, client')
    PROVE  KeyBook'
<1>1. /\ SoundKeyboard(keyboard) /\ keyboard.down = {} /\ Expected /\ Muting
      /\ client.con = "live" => client.srv.keys \subseteq Listed(keyboard)
      /\ client.con # "live" => keyboard = NewKeyboard
      /\ platform \in Platforms
  BY DEF InputIInv, KeyBook, Types
<1>2. KeysOf[platform] \cap Buttons = {}  BY <1>1, KeysAndButtons
<1>3. /\ Codes(keyboard)' = Codes(keyboard) /\ Listed(keyboard)' = Listed(keyboard)
      /\ SoundKeyboard(keyboard)'
  BY <1>1 DEF Codes, Listed, SoundKeyboard
<1>4. Expected'  BY <1>1, <1>2, <1>3 DEF Expected
<1>5. Muting'  BY <1>1 DEF Muting
<1>6. client'.con = client.con /\ client'.srv.keys \subseteq client.srv.keys  BY DEF Keeps
<1>7. QED  BY <1>1, <1>3, <1>4, <1>5, <1>6 DEF KeyBook

\* The keyboard presses no button.
LEMMA QuietButtons ==
    ASSUME InputIInv, UNCHANGED <<gestures, buttons>>, missed \cap Buttons \subseteq missed',
           client'.con = "live" => client.con = "live" /\ Pressed(client') \subseteq Pressed(client)
    PROVE  ButtonBook'
<1>1. Pressed(client)' = Pressed(client')  BY DEF Pressed
<1>2. QED  BY <1>1 DEF InputIInv, ButtonBook, ButtonOf

\* The keyboard and the mouse move no finger.
LEMMA QuietFingers ==
    ASSUME InputIInv, UNCHANGED <<gestures, fingers>>
    PROVE  FingerBook'
BY DEF InputIInv, FingerBook, Book, Known, Active, Tracking, Idle, Timers, Narrowing

------------------------------------------------------------------------------
(* The actions of the keyboard.                                            *)

\* The keyboard that a call finds.
LEMMA BoardSound ==
    ASSUME InputIInv, client.con = "live"
    PROVE  /\ SoundKeyboard(Board) /\ Codes(Board) = Codes(keyboard) /\ Board.armed = keyboard.armed
           /\ Interrupted(Board) = Interrupted(keyboard)
<1>1. /\ keyboard \in Boards /\ client.srv.keys \subseteq Listed(keyboard)
      /\ keyboard.armed => "ControlLeft" \notin Codes(keyboard)
  BY DEF InputIInv, KeyBook, SoundKeyboard
<1>2. client.srv.keys \in SUBSET Syms  BY DEF InputIInv, Types, Connections, Servers
<1>3. Board = [list |-> keyboard.list, armed |-> keyboard.armed, down |-> client.srv.keys]
  <2>1. keyboard = [list |-> keyboard.list, armed |-> keyboard.armed, down |-> keyboard.down]
    BY <1>1 DEF Boards
  <2>2. QED  BY <2>1 DEF Board
<1>4. Board \in Boards  BY <1>1, <1>2, <1>3 DEF Boards
<1>5. Codes(Board) = Codes(keyboard) /\ Listed(Board) = Listed(keyboard)
  BY <1>3 DEF Codes, Listed
<1>6. QED  BY <1>1, <1>3, <1>4, <1>5 DEF SoundKeyboard, Interrupted

\* What the keyboard sends, and the keyboard it leaves.
LEMMA SendKeysEffect ==
    ASSUME InputIInv, client.con = "live", NEW k, SoundKeyboard(k), SendKeys(k)
    PROVE  /\ SoundKeyboard(keyboard)' /\ keyboard'.down = {}
           /\ Codes(keyboard)' = Codes(k) /\ keyboard'.armed = k.armed
           /\ client' \in Connections /\ client'.con = "live" /\ Pressed(client') = Pressed(client)
           /\ client'.srv.keys \subseteq Listed(keyboard')
<1>1. /\ k \in Boards /\ k.down \subseteq Listed(k)
      /\ k.armed => "ControlLeft" \notin Codes(k)
  BY DEF SoundKeyboard
<1>2. keyboard' = [list |-> k.list, armed |-> k.armed, down |-> {}]
  <2>1. k = [list |-> k.list, armed |-> k.armed, down |-> k.down]  BY <1>1 DEF Boards
  <2>2. QED  BY <2>1 DEF SendKeys
<1>3. keyboard' \in Boards /\ Codes(keyboard)' = Codes(k) /\ Listed(keyboard') = Listed(k)
  BY <1>1, <1>2 DEF Boards, Codes, Listed
<1>4. SoundKeyboard(keyboard)'  BY <1>1, <1>2, <1>3 DEF SoundKeyboard, Listed
<1>5. client \in Connections /\ k.down \in SUBSET Syms  BY <1>1 DEF InputIInv, Types, Boards
<1>6. /\ client' \in Connections /\ client'.con = "live" /\ client'.srv.keys = k.down
      /\ client'.mask = client.mask /\ client'.srv.mask = client.srv.mask
  BY <1>5 DEF SendKeys, Connections, Servers
<1>7. QED  BY <1>1, <1>2, <1>3, <1>4, <1>6 DEF Pressed

\* A key that goes down is one the user holds, and is listed only if its
\* release will come.
LEMMA KeyDownKeys ==
    ASSUME InputIInv, NEW code \in Keys, KeyDown(code)
    PROVE  Types' /\ KeyBook'
<1>1. /\ platform \in Platforms /\ code \in KeysOf[platform] /\ code \in DOMAIN Keysyms
      /\ code \in Names /\ held' = held \cup {code} /\ UNCHANGED platform
      /\ held \subseteq Keys /\ muted \subseteq Keys
      /\ Expected /\ Muting
  BY KeysAndButtons DEF KeyDown, InputIInv, Types, KeyBook
<1>2. muted' = IF platform = "mac" /\ metas \cap held # {} /\ code \notin held \cup metas
               THEN muted \cup {code} ELSE muted
  BY DEF KeyDown
<1>3. Muting'  BY <1>1, <1>2 DEF Muting
<1>4. held' \subseteq Keys /\ muted' \subseteq Keys  BY <1>1, <1>2
<1>5. CASE ~Grabbed
  <2>1. UNCHANGED <<client, keyboard, missed>>  BY <1>5 DEF KeyDown
  <2>2. Expected'  BY <1>1, <1>2, <2>1 DEF Expected, Codes
  <2>3. KeyBook'  BY <1>3, <2>1, <2>2 DEF InputIInv, KeyBook, SoundKeyboard, Codes, Listed
  <2>4. Types'  BY <1>4, <2>1 DEF InputIInv, Types, KeyDown, mouseUser
  <2>5. QED  BY <2>3, <2>4
<1>6. CASE Grabbed
  <2>0. client.con = "live" /\ UNCHANGED missed  BY <1>6 DEF Grabbed, KeyDown
  <2>1. /\ SoundKeyboard(Board) /\ Codes(Board) = Codes(keyboard)
        /\ Interrupted(Board) = Codes(keyboard) \cup IF keyboard.armed THEN {"ControlLeft"} ELSE {}
    BY <2>0, BoardSound DEF Interrupted
  <2>2. /\ "Unidentified" \notin Codes(Board)
        /\ platform = "mac" => "CapsLock" \notin Codes(Board)
    BY <1>1, <2>1 DEF Expected
  <2>3. ASSUME NEW k, SoundKeyboard(k), SendKeys(k), Expected'
        PROVE  Types' /\ KeyBook'
    <3>1. /\ SoundKeyboard(keyboard)' /\ keyboard'.down = {}
          /\ client' \in Connections /\ client'.con = "live"
          /\ client'.srv.keys \subseteq Listed(keyboard')
      BY <2>0, <2>3, SendKeysEffect
    <3>2. KeyBook'  BY <1>3, <2>3, <3>1 DEF KeyBook, Listed, Codes
    <3>3. Types'  BY <1>4, <2>0, <3>1 DEF InputIInv, Types, KeyDown, mouseUser, SoundKeyboard
    <3>4. QED  BY <3>2, <3>3
  <2>4. ASSUME NEW sym \in Keysyms[code], NEW quick \in BOOLEAN,
               SendKeys(handleKeyDown(Board, platform, sym, code, quick, metas \cap held # {}))
        PROVE  Types' /\ KeyBook'
    <3> DEFINE meta == metas \cap held # {}
               k == handleKeyDown(Board, platform, sym, code, quick, meta)
    <3>1. sym \in Syms /\ meta \in BOOLEAN  BY <1>1, KeysAndButtons
    <3>0. meta = (metas \cap held # {})  OBVIOUS
    <3> HIDE DEF meta
    <3>2. /\ SoundKeyboard(k)
          /\ Codes(k) \subseteq Interrupted(Board) \cup {code}
          /\ "Unidentified" \notin Codes(k)
          /\ k.armed => code = "ControlLeft" /\ platform = "windows"
          /\ platform = "mac" /\ ((meta /\ code \notin metas) \/ code = "CapsLock") =>
                code \notin Codes(k)
          /\ /\ platform = "windows" /\ sym \in jpBadKeys
             /\ code \notin Codes(Board) \cup {"AltRight", "ControlLeft"}
             => code \notin Codes(k)
      <4>1. code \in Names /\ SoundKeyboard(Board)  BY <1>1, <2>1
      <4>2. QED  BY <2>2, <3>1, <4>1, KeyDownSound
    <3>3. SendKeys(k)  BY <2>4, <3>0
    <3> HIDE DEF k
    <3>4. Codes(keyboard)' = Codes(k) /\ keyboard'.armed = k.armed
      BY <2>0, <3>2, <3>3, SendKeysEffect
    <3>5. Expected'
      <4>1. Codes(k) \subseteq KeysOf[platform] \ {"Unidentified"}
        BY <1>1, <2>1, <3>2 DEF Expected
      <4>2. Codes(k) \subseteq held' \cup missed' \cup
               (IF platform = "windows" /\ held' \cap shifts # {} THEN shifts ELSE {})
        BY <1>1, <2>0, <2>1, <3>2 DEF Expected
      <4>3. k.armed => platform = "windows" /\ "ControlLeft" \in (held' \cup missed') \cap KeysOf[platform]
        BY <1>1, <3>2
      <4>4. platform = "mac" => "CapsLock" \notin Codes(k)
        BY <1>1, <2>1, <3>2 DEF Expected
      <4>5. platform = "mac" => Codes(k) \cap muted' \subseteq missed'
        <5> SUFFICES ASSUME platform = "mac", NEW c \in Codes(k) \cap muted' PROVE c \in missed'
          OBVIOUS
        <5>1. c \in Codes(keyboard) \/ c = code  BY <1>1, <2>1, <3>2 DEF Expected
        <5>2. CASE c # code  BY <1>1, <1>2, <2>0, <5>1, <5>2 DEF Expected
        <5>3. CASE c = code
          <6>1. metas \cap held # {} /\ code \notin metas  BY <1>1, <1>2, <3>0, <5>3 DEF Muting
          <6>2. QED  BY <3>2, <3>0, <5>3, <6>1
        <5>4. QED  BY <5>2, <5>3
      <4>6. platform = "windows" => \A c \in Codes(k) : Keysyms[c] \cap jpBadKeys = {}
        <5> SUFFICES ASSUME platform = "windows", NEW c \in Codes(k)
                     PROVE  Keysyms[c] \cap jpBadKeys = {}
          OBVIOUS
        <5>1. CASE c \in Codes(keyboard)  BY <1>1, <5>1 DEF Expected
        <5>2. CASE keyboard.armed /\ c = "ControlLeft"
          <6>1. c \in DOMAIN Keysyms  BY <1>1, <5>2, KeysAndButtons DEF Expected
          <6>2. QED  BY <5>2, <6>1, InputAssumption
        <5>3. CASE c = code /\ c \notin Codes(keyboard)
          <6>1. SUFFICES ASSUME Keysyms[code] \cap jpBadKeys # {} PROVE FALSE  BY <5>3
          <6>2. sym \in jpBadKeys /\ code \notin {"ControlLeft", "AltRight"}
            BY <1>1, <6>1, InputAssumption
          <6>3. QED  BY <2>1, <3>2, <5>3, <6>2
        <5>4. QED  BY <2>1, <3>2, <5>1, <5>2, <5>3
      <4>7. QED  BY <1>1, <3>4, <4>1, <4>2, <4>3, <4>4, <4>5, <4>6 DEF Expected
    <3>6. QED  BY <2>3, <3>2, <3>3, <3>5
  <2>5. ASSUME platform = "mac", code = "CapsLock",
               SendKeys(handleKeyUp(Board, platform, code))
        PROVE  Types' /\ KeyBook'
    <3> DEFINE k == handleKeyUp(Board, platform, code)
    <3>1. SoundKeyboard(k) /\ ~k.armed /\ Codes(k) \subseteq Interrupted(Board) \ {code}
      BY <1>1, <2>1, <2>2, KeyUpSound
    <3>2. SendKeys(k)  BY <2>5
    <3> HIDE DEF k
    <3>3. Codes(keyboard)' = Codes(k) /\ keyboard'.armed = k.armed
      BY <2>0, <3>1, <3>2, SendKeysEffect
    <3>4. Codes(k) \subseteq Codes(keyboard)  BY <1>1, <2>1, <2>5, <3>1 DEF Expected
    <3>5. Expected'
      <4>1. code \notin Codes(k)  BY <3>1
      <4>2. QED  BY <1>1, <1>2, <2>0, <2>5, <3>1, <3>3, <3>4, <4>1 DEF Expected
    <3>6. QED  BY <2>3, <3>1, <3>2, <3>5
  <2>6. QED  BY <1>6, <2>4, <2>5 DEF KeyDown
<1>7. QED  BY <1>5, <1>6

\* A key that the user lets go of is unlisted, or its release is missed, or
\* Windows waits for the other Shift.
LEMMA KeyUpKeys ==
    ASSUME InputIInv, NEW code \in Keys, KeyUp(code)
    PROVE  Types' /\ KeyBook'
<1>1. /\ platform \in Platforms /\ code \in held /\ code \in Names /\ code \in DOMAIN Keysyms
      /\ code \notin Buttons
      /\ held' = held \ {code} /\ UNCHANGED platform
      /\ held \subseteq Keys /\ muted \subseteq Keys /\ missed \subseteq Keys \cup Buttons
      /\ Expected /\ Muting
  BY KeysAndButtons DEF KeyUp, InputIInv, Types, KeyBook
<1>2. muted' = IF metas \cap held \subseteq {code} THEN {} ELSE muted \ {code}
  BY DEF KeyUp
<1>3. Muting'  BY <1>1, <1>2 DEF Muting
<1>4. held' \subseteq Keys /\ muted' \subseteq Keys  BY <1>1, <1>2
<1>5. CASE ~Told(code)
  <2>1. UNCHANGED <<client, keyboard, missed>>  BY <1>5 DEF KeyUp
  <2>2. platform \in {"mac", "windows"}  BY <1>1, <1>5, KeysAndButtons DEF Told
  <2>3. Expected'
    <3>1. CASE platform = "mac"
      <4>1. code \in muted \/ code = "CapsLock"  BY <1>5, <3>1 DEF Told
      <4>2. Codes(keyboard) \subseteq held' \cup missed  BY <1>1, <3>1, <4>1 DEF Expected
      <4>3. QED  BY <1>1, <1>2, <2>1, <3>1, <4>2 DEF Expected, Codes
    <3>2. CASE platform = "windows"
      <4>1. \/ Keysyms[code] \cap jpBadKeys # {}
            \/ code \in shifts /\ held' \cap shifts # {}
        BY <1>1, <1>5, <3>2 DEF Told
      <4>2. code # "ControlLeft"  BY <1>1, <4>1, InputAssumption DEF shifts
      <4>3. /\ held \cap shifts # {} => held' \cap shifts # {}
            /\ code \in Codes(keyboard) => held' \cap shifts # {} /\ code \in shifts
        BY <1>1, <3>2, <4>1, InputAssumption DEF Expected
      <4>4. QED  BY <1>1, <1>2, <2>1, <3>2, <4>2, <4>3 DEF Expected, Codes
    <3>3. QED  BY <2>2, <3>1, <3>2
  <2>4. KeyBook'  BY <1>3, <2>1, <2>3 DEF InputIInv, KeyBook, SoundKeyboard, Codes, Listed
  <2>5. Types'  BY <1>4, <2>1 DEF InputIInv, Types, KeyUp, mouseUser
  <2>6. QED  BY <2>4, <2>5
<1>6. CASE Told(code) /\ Grabbed
  <2> DEFINE k == handleKeyUp(Board, platform, code)
  <2>1. client.con = "live" /\ SendKeys(k) /\ missed' = missed \ {code}
    BY <1>6 DEF Grabbed, KeyUp
  <2>2. /\ SoundKeyboard(Board) /\ Codes(Board) = Codes(keyboard)
        /\ Interrupted(Board) = Codes(keyboard) \cup IF keyboard.armed THEN {"ControlLeft"} ELSE {}
    BY <2>1, BoardSound DEF Interrupted
  <2>3. platform = "mac" => "CapsLock" \notin Codes(Board)  BY <1>1, <2>2 DEF Expected
  <2>4. /\ SoundKeyboard(k) /\ ~k.armed /\ Codes(k) \subseteq Interrupted(Board) \ {code}
        /\ platform = "windows" /\ code \in shifts => Codes(k) \cap shifts = {}
    BY <1>1, <2>2, <2>3, KeyUpSound
  <2> HIDE DEF k
  <2>5. /\ SoundKeyboard(keyboard)' /\ keyboard'.down = {}
        /\ Codes(keyboard)' = Codes(k) /\ keyboard'.armed = k.armed
        /\ client' \in Connections /\ client'.con = "live"
        /\ client'.srv.keys \subseteq Listed(keyboard')
    BY <2>1, <2>4, SendKeysEffect
  <2>6. Expected'
    <3>1. Codes(k) \subseteq KeysOf[platform] \ {"Unidentified"}
      BY <1>1, <2>2, <2>4 DEF Expected
    <3>2. Codes(k) \subseteq held' \cup missed' \cup
             (IF platform = "windows" /\ held' \cap shifts # {} THEN shifts ELSE {})
      <4>1. SUFFICES ASSUME NEW c \in Codes(k), c \notin held \cup missed
                     PROVE  /\ platform = "windows" /\ held' \cap shifts # {}
                            /\ c \in shifts
        BY <1>1, <2>1, <2>4
      <4>2. c \in Codes(keyboard)  BY <1>1, <2>2, <2>4, <4>1 DEF Expected
      <4>3. platform = "windows" /\ held \cap shifts # {} /\ c \in shifts
        BY <1>1, <4>1, <4>2 DEF Expected
      <4>4. code \notin shifts  BY <2>4, <4>1, <4>3
      <4>5. QED  BY <1>1, <4>3, <4>4
    <3>3. platform = "mac" => "CapsLock" \notin Codes(k) /\ Codes(k) \cap muted' \subseteq missed'
      BY <1>1, <1>2, <2>1, <2>2, <2>4 DEF Expected
    <3>4. platform = "windows" => \A c \in Codes(k) : Keysyms[c] \cap jpBadKeys = {}
      <4>1. keyboard.armed => Keysyms["ControlLeft"] \cap jpBadKeys = {}
        BY <1>1, KeysAndButtons, InputAssumption DEF Expected
      <4>2. QED  BY <1>1, <2>2, <2>4, <4>1 DEF Expected
    <3>5. QED  BY <1>1, <2>4, <2>5, <3>1, <3>2, <3>3, <3>4 DEF Expected
  <2>7. KeyBook'  BY <1>3, <2>5, <2>6 DEF KeyBook, Listed, Codes
  <2>8. Types'  BY <1>1, <1>4, <2>1, <2>5 DEF InputIInv, Types, KeyUp, mouseUser, SoundKeyboard
  <2>9. QED  BY <2>7, <2>8
<1>7. CASE Told(code) /\ ~Grabbed
  <2> DEFINE down == Codes(keyboard) \cup IF keyboard.armed THEN {"ControlLeft"} ELSE {}
  <2>1. UNCHANGED <<client, keyboard>> /\ missed' = missed \cup (down \ held')
    BY <1>7 DEF KeyUp, Unheard
  <2>2. down \subseteq KeysOf[platform] /\ down \subseteq held' \cup missed'
    BY <1>1, <2>1 DEF Expected
  <2>3. down \subseteq Keys  BY <1>1, <2>2, KeysAndButtons
  <2>4. Expected'
    <3>1. /\ Codes(keyboard)' = Codes(keyboard) /\ Codes(keyboard) \subseteq held' \cup missed'
          /\ keyboard.armed => "ControlLeft" \in held' \cup missed'
      BY <2>1, <2>2 DEF Codes
    <3>2. missed \subseteq missed' /\ muted' \subseteq muted  BY <1>2, <2>1
    <3> HIDE DEF down
    <3>3. QED  BY <1>1, <2>1, <3>1, <3>2 DEF Expected
  <2>5. KeyBook'  BY <1>3, <2>1, <2>4 DEF InputIInv, KeyBook, SoundKeyboard, Codes, Listed
  <2>6. missed' \subseteq Keys \cup Buttons  BY <1>1, <2>1, <2>3
  <2> HIDE DEF down
  <2>7. Types'  BY <1>4, <2>1, <2>6 DEF InputIInv, Types, KeyUp, mouseUser
  <2>8. QED  BY <2>5, <2>7
<1>8. QED  BY <1>5, <1>6, <1>7

\* The end of a wait for AltGr, and a key of an on-screen keyboard.
LEMMA OtherKeys ==
    ASSUME InputIInv, VirtualKey \/ AltGrTimeout
    PROVE  Types' /\ KeyBook' /\ client.con = "live" /\ Pressed(client') = Pressed(client)
<1>1. /\ platform \in Platforms /\ Expected /\ Muting
      /\ UNCHANGED <<setup, platform, gestures, user, aim>>
  BY DEF InputIInv, Types, KeyBook, VirtualKey, AltGrTimeout
<1>2. client.con = "live"
  <2>1. VirtualKey => client.con = "live"  BY DEF VirtualKey, Grabbed
  <2>2. AltGrTimeout => client.con = "live"
    BY NewKeyboardSound DEF AltGrTimeout, InputIInv, KeyBook
  <2>3. QED  BY <2>1, <2>2
<1>3. /\ SoundKeyboard(Board) /\ Codes(Board) = Codes(keyboard)
      /\ Interrupted(Board) = Codes(keyboard) \cup IF keyboard.armed THEN {"ControlLeft"} ELSE {}
  BY <1>2, BoardSound DEF Interrupted
<1>4. /\ "Unidentified" \notin Codes(Board) /\ "Unidentified" \in Names
      /\ platform = "mac" => "CapsLock" \notin Codes(Board)
      /\ "v" \in Syms
  BY <1>1, <1>3 DEF Expected, Names, Syms
<1>5. PICK k : /\ SendKeys(k) /\ SoundKeyboard(k) /\ ~k.armed
               /\ Codes(k) \subseteq Interrupted(Board) \ {"Unidentified"}
  <2>1. CASE VirtualKey
    <3> DEFINE d == handleKeyDown(Board, platform, "v", "Unidentified", FALSE, FALSE)
    <3>1. SendKeys(d)  BY <2>1 DEF VirtualKey
    <3>2. SoundKeyboard(d) /\ ~d.armed /\ Codes(d) \subseteq Interrupted(Board) \ {"Unidentified"}
      <4> DEFINE i == interruptAltGrSequence(Board)
      <4>1. SoundKeyboard(i) /\ ~i.armed /\ Codes(i) = Interrupted(Board)  BY <1>3, InterruptSound
      <4>2. "Unidentified" \notin Codes(i)  BY <1>3, <1>4, <4>1
      <4>3. d = PressAndRelease(i, "v", "Unidentified")  BY DEF handleKeyDown, AltGrEnds
      <4> HIDE DEF d, i
      <4>4. SoundKeyboard(d) /\ ~d.armed /\ Codes(d) = Codes(i) \ {"Unidentified"}
        BY <1>4, <4>1, <4>2, <4>3, PressAndReleaseSound
      <4>5. QED  BY <4>1, <4>4
    <3> HIDE DEF d
    <3>3. QED  BY <3>1, <3>2
  <2>2. CASE AltGrTimeout
    <3> DEFINE d == interruptAltGrSequence(Board)
    <3>1. SendKeys(d)  BY <2>2 DEF AltGrTimeout
    <3>2. SoundKeyboard(d) /\ ~d.armed /\ Codes(d) = Interrupted(Board)  BY <1>3, InterruptSound
    <3> HIDE DEF d
    <3>3. "Unidentified" \notin Codes(d)  BY <1>3, <1>4, <3>2
    <3>4. QED  BY <3>1, <3>2, <3>3
  <2>3. QED  BY <2>1, <2>2
<1>6. /\ SoundKeyboard(keyboard)' /\ keyboard'.down = {}
      /\ Codes(keyboard)' = Codes(k) /\ keyboard'.armed = k.armed
      /\ client' \in Connections /\ client'.con = "live" /\ Pressed(client') = Pressed(client)
      /\ client'.srv.keys \subseteq Listed(keyboard')
  BY <1>2, <1>5, SendKeysEffect
<1>7. UNCHANGED <<held, muted, missed, focus, buttons, at, captured, fingers>>  BY <1>1 DEF user
<1>8. Expected'
  <2>1. Codes(k) \subseteq Codes(keyboard) \cup IF keyboard.armed THEN {"ControlLeft"} ELSE {}
    BY <1>3, <1>5
  <2>2. keyboard.armed => Keysyms["ControlLeft"] \cap jpBadKeys = {}
    BY <1>1, KeysAndButtons, InputAssumption DEF Expected
  <2>3. /\ Codes(k) \subseteq KeysOf[platform] \ {"Unidentified"}
        /\ Codes(k) \subseteq held \cup missed \cup
             (IF platform = "windows" /\ held \cap shifts # {} THEN shifts ELSE {})
    BY <1>1, <1>5, <2>1 DEF Expected
  <2>4. platform = "mac" => "CapsLock" \notin Codes(k) /\ Codes(k) \cap muted \subseteq missed
    BY <1>1, <2>1 DEF Expected
  <2>5. platform = "windows" => \A c \in Codes(k) : Keysyms[c] \cap jpBadKeys = {}
    BY <1>1, <2>1, <2>2 DEF Expected
  <2>6. QED  BY <1>1, <1>5, <1>6, <1>7, <2>3, <2>4, <2>5 DEF Expected
<1>9. KeyBook'  BY <1>1, <1>6, <1>7, <1>8 DEF KeyBook, Muting, Listed, Codes
<1>10. Types'  BY <1>1, <1>6, <1>7 DEF InputIInv, Types, SoundKeyboard
<1>11. QED  BY <1>2, <1>6, <1>9, <1>10

\* The window loses the focus, or the focus moves on the page.
LEMMA FocusKeys ==
    ASSUME InputIInv, NEW place \in {"canvas", "page", "away"}, Focus(place)
    PROVE  Types' /\ KeyBook' /\ client'.con = client.con /\ Pressed(client') = Pressed(client)
           /\ missed \cap Buttons \subseteq missed'
<1>1. /\ UNCHANGED <<setup, platform, gestures, held, muted, buttons, at, captured, fingers, aim>>
      /\ focus' = place /\ missed \subseteq Keys \cup Buttons
  BY DEF Focus, mouseUser, InputIInv, Types
<1>2. CASE place = "away" /\ client.con = "live"
  <2>1. SoundKeyboard(Board)  BY <1>2, BoardSound
  <2>2. SendKeys(NewKeyboard) /\ missed' = missed \cap Buttons
    BY <1>2, <2>1, AllKeysUpSound DEF Focus
  <2>3. /\ SoundKeyboard(keyboard)' /\ keyboard'.down = {}
        /\ Codes(keyboard)' = {} /\ ~keyboard'.armed
        /\ client' \in Connections /\ client'.con = "live" /\ Pressed(client') = Pressed(client)
        /\ client'.srv.keys \subseteq Listed(keyboard')
    BY <1>2, <2>2, NewKeyboardSound, SendKeysEffect
  <2>4. Expected' /\ Muting'
    BY <1>1, <2>3 DEF Expected, Muting, InputIInv, KeyBook
  <2>5. KeyBook'  BY <2>3, <2>4 DEF KeyBook, Listed, Codes
  <2>6. Types'  BY <1>1, <2>2, <2>3 DEF InputIInv, Types, SoundKeyboard
  <2>7. QED  BY <1>2, <2>2, <2>3, <2>5, <2>6
<1>3. CASE ~(place = "away" /\ client.con = "live")
  <2>1. UNCHANGED <<client, keyboard, missed>>  BY <1>3 DEF Focus
  <2>2. client \in Connections  BY DEF InputIInv, Types
  <2>3. Keeps(client, client')  BY <2>1, <2>2 DEF Keeps
  <2>4. KeyBook'  BY <1>1, <2>1, <2>3, QuietKeys
  <2>5. Types'  BY <1>1, <2>1 DEF InputIInv, Types
  <2>6. QED  BY <2>1, <2>4, <2>5
<1>4. QED  BY <1>2, <1>3

\* sendCtrlAltDel and sendKey of the toolbar: what goes down goes up.
LEMMA ToolbarKeysKeys ==
    ASSUME InputIInv, ToolbarKeys
    PROVE  Types' /\ KeyBook' /\ client'.con = client.con /\ Pressed(client') = Pressed(client)
<1>1. UNCHANGED <<setup, platform, keyboard, gestures, held, muted, focus, buttons, at,
                  captured, fingers, missed, aim>>
  BY DEF ToolbarKeys, user
<1>2. PICK syms : client' = pressRelease(client, syms)  BY DEF ToolbarKeys
<1>3. client \in Connections  BY DEF InputIInv, Types
<1>4. /\ client' \in Connections /\ client'.con = client.con
      /\ client'.mask = client.mask /\ client'.srv.mask = client.srv.mask
      /\ client'.srv.keys \subseteq client.srv.keys
  BY <1>2, <1>3 DEF pressRelease, Connections, Servers
<1>5. KeyBook'  BY <1>1, <1>4, QuietKeys DEF Keeps
<1>6. Types'  BY <1>1, <1>4 DEF InputIInv, Types
<1>7. QED  BY <1>4, <1>5, <1>6 DEF Pressed

\* The input ends: the keys are released, the timers of the gestures stop.
LEMMA DetachBook ==
    ASSUME NEW g, Book(g)
    PROVE  LET h == detach(g)
           IN  Book(h) /\ Known(h) = Known(g) /\ h.out = g.out
<1> DEFINE h == detach(g)
<1>1. g \in Handlers  BY DEF Book
<1>2. /\ h \in Handlers
      /\ h.state = g.state /\ h.tracked = g.tracked /\ h.ignored = g.ignored
      /\ h.waitingRelease = g.waitingRelease /\ h.error = g.error /\ h.out = g.out
      /\ ~h.longpress /\ h.twoTouch = "off"
  BY <1>1 DEF detach, Handlers
<1> HIDE DEF h
<1>3. Active(h) = Active(g)  BY <1>2 DEF Active
<1>4. Book(h)  BY <1>2, <1>3 DEF Book, Tracking, Idle, Timers, Narrowing
<1>5. QED  BY <1>2, <1>3, <1>4 DEF Known, h

\* View-only mode and disconnecting release the keys and stop the timers.
LEMMA InputEnds ==
    ASSUME InputIInv, ViewOnly \/ Disconnect
    PROVE  InputIInv'
<1>1. /\ UNCHANGED <<setup, platform, held, muted, focus, buttons, at, captured, fingers,
                     missed, aim>>
      /\ keyboard' = [allKeysUp(keyboard) EXCEPT !.down = {}]
  BY DEF ViewOnly, Disconnect, user
<1>2. client \in Connections /\ SoundKeyboard(keyboard)  BY DEF InputIInv, Types, KeyBook
<1>3. client' \in Connections /\ client'.con # "live"
  BY <1>2 DEF ViewOnly, Disconnect, Connections
<1>4. keyboard' = NewKeyboard
  <2>1. allKeysUp(keyboard) = NewKeyboard  BY <1>2, AllKeysUpSound
  <2>2. [NewKeyboard EXCEPT !.down = {}] = NewKeyboard
    <3>1. \A k \in Boards : k.down = {} => [k EXCEPT !.down = {}] = k  BY DEF Boards
    <3>2. NewKeyboard \in Boards /\ NewKeyboard.down = {}
      BY NewKeyboardSound DEF SoundKeyboard, NewKeyboard
    <3>3. QED  BY <3>1, <3>2
  <2>3. QED  BY <1>1, <2>1, <2>2
<1>5. KeyBook'
  <2>1. SoundKeyboard(keyboard)' /\ Codes(keyboard)' = {} /\ ~keyboard'.armed /\ keyboard'.down = {}
    BY <1>4, NewKeyboardSound DEF NewKeyboard, SoundKeyboard, Codes, Listed
  <2>2. Expected' /\ Muting'  BY <1>1, <2>1 DEF Expected, Muting, InputIInv, KeyBook
  <2>3. QED  BY <1>3, <1>4, <2>1, <2>2 DEF KeyBook
<1>6. ButtonBook'  BY <1>3 DEF ButtonBook
<1>7. gestures' = gestures \/ gestures' = detach(gestures)  BY DEF ViewOnly, Disconnect
<1>8. FingerBook' /\ gestures' \in Handlers
  <2>1. gestures.out = <<>> /\ Book(gestures) /\ fingers = Known(gestures)
    BY DEF InputIInv, FingerBook
  <2>2. Book(gestures') /\ Known(gestures') = Known(gestures) /\ gestures'.out = gestures.out
    BY <1>7, <2>1, DetachBook
  <2>3. FingerBook'
    BY <1>1, <2>1, <2>2 DEF FingerBook, Book, Known, Active, Tracking, Idle, Timers, Narrowing
  <2>4. QED  BY <2>2, <2>3 DEF Book
<1>9. Types'
  <2>1. keyboard' \in Boards  BY <1>4, NewKeyboardSound DEF SoundKeyboard
  <2>2. QED  BY <1>1, <1>3, <1>8, <2>1 DEF InputIInv, Types
<1>10. QED  BY <1>5, <1>6, <1>8, <1>9 DEF InputIInv

\* Every action of the keyboard keeps the invariant.
LEMMA KeyboardActions ==
    ASSUME InputIInv,
           \/ \E c \in Keys : KeyDown(c) \/ KeyUp(c)
           \/ VirtualKey \/ AltGrTimeout
           \/ \E place \in {"canvas", "page", "away"} : Focus(place)
           \/ ToolbarKeys
    PROVE  InputIInv'
<1>1. client \in Connections  BY DEF InputIInv, Types
<1>2. ASSUME NEW k, client' = IF client.con = "live" THEN [client EXCEPT !.srv.keys = k] ELSE client
      PROVE  client'.con = client.con /\ Pressed(client') = Pressed(client)
  BY <1>1, <1>2 DEF Connections, Servers, Pressed
<1>3. ASSUME Types', KeyBook', UNCHANGED <<gestures, buttons, fingers>>,
             missed \cap Buttons \subseteq missed',
             client'.con = client.con /\ Pressed(client') = Pressed(client)
      PROVE  InputIInv'
  BY <1>3, QuietButtons, QuietFingers DEF InputIInv
<1>4. ASSUME NEW c \in Keys, KeyDown(c) PROVE InputIInv'
  <2>1. UNCHANGED <<gestures, buttons, fingers, missed>>  BY <1>4 DEF KeyDown, mouseUser
  <2>2. client' = client \/ \E k : client' = IF client.con = "live" THEN [client EXCEPT !.srv.keys = k] ELSE client
    BY <1>4 DEF KeyDown, SendKeys
  <2>3. QED  BY <1>2, <1>3, <1>4, <2>1, <2>2, KeyDownKeys
<1>5. ASSUME NEW c \in Keys, KeyUp(c) PROVE InputIInv'
  <2>1. UNCHANGED <<gestures, buttons, fingers>>  BY <1>5 DEF KeyUp, mouseUser
  <2>2. client' = client \/ \E k : client' = IF client.con = "live" THEN [client EXCEPT !.srv.keys = k] ELSE client
    BY <1>5 DEF KeyUp, SendKeys
  <2>3. missed \cap Buttons \subseteq missed'
    <3>1. c \notin Buttons  BY KeysAndButtons
    <3>2. missed \ {c} \subseteq missed'  BY <1>5 DEF KeyUp, Unheard
    <3>3. QED  BY <3>1, <3>2
  <2>4. QED  BY <1>2, <1>3, <1>5, <2>1, <2>2, <2>3, KeyUpKeys
<1>6. ASSUME VirtualKey \/ AltGrTimeout PROVE InputIInv'
  <2>1. UNCHANGED <<gestures, buttons, fingers, missed>>
    BY <1>6 DEF VirtualKey, AltGrTimeout, user
  <2>2. \E k : client' = IF client.con = "live" THEN [client EXCEPT !.srv.keys = k] ELSE client
    BY <1>6 DEF VirtualKey, AltGrTimeout, SendKeys
  <2>3. QED  BY <1>2, <1>3, <1>6, <2>1, <2>2, OtherKeys
<1>7. ASSUME NEW place \in {"canvas", "page", "away"}, Focus(place) PROVE InputIInv'
  <2>1. UNCHANGED <<gestures, buttons, fingers>>  BY <1>7 DEF Focus, mouseUser
  <2>2. QED  BY <1>3, <1>7, <2>1, FocusKeys
<1>8. ASSUME ToolbarKeys PROVE InputIInv'
  <2>1. UNCHANGED <<gestures, buttons, fingers, missed>>  BY <1>8 DEF ToolbarKeys, user
  <2>2. QED  BY <1>3, <1>8, <2>1, ToolbarKeysKeys
<1>9. QED  BY <1>4, <1>5, <1>6, <1>7, <1>8

------------------------------------------------------------------------------
(* The actions of the mouse and of its timer.                              *)

\* An action after which the server, and the timer, know the buttons held.
LEMMA MouseStep ==
    ASSUME InputIInv, UNCHANGED <<setup, platform, keyboard, gestures, held, muted, focus, fingers>>,
           buttons' \subseteq Buttons, at' \in Places \cup {"outside"}, captured' \in BOOLEAN,
           missed' \subseteq Keys \cup Buttons, missed \ Buttons \subseteq missed', aim' \in Points,
           Keeps(client, client'),
           client.con = "live" =>
               Pressed(client') \subseteq
                   buttons' \cup (missed' \cap Buttons) \cup ButtonOf(gestures.state)
    PROVE  InputIInv'
<1>1. client' \in Connections /\ client'.con = client.con  BY DEF Keeps
<1>2. Types'  BY <1>1 DEF InputIInv, Types
<1>3. KeyBook'  BY QuietKeys
<1>4. ButtonBook'  BY <1>1 DEF ButtonBook, Pressed, ButtonOf
<1>5. FingerBook'  BY QuietFingers
<1>6. QED  BY <1>2, <1>3, <1>4, <1>5 DEF InputIInv

\* Every action of the mouse keeps the invariant.
LEMMA MouseActions ==
    ASSUME InputIInv,
           \/ \E p \in Places \cup {"outside"} : MoveMouse(p)
           \/ \E b \in Buttons : MouseDown(b) \/ MouseUp(b)
           \/ Wheel \/ DelayedMouseMove \/ MouseRests
    PROVE  InputIInv'
<1>1. /\ client \in Connections /\ buttons \subseteq Buttons /\ at \in Places \cup {"outside"}
      /\ captured \in BOOLEAN /\ missed \subseteq Keys \cup Buttons /\ aim \in Points
      /\ at \in Points /\ buttons \in SUBSET ButtonNames
  BY KeysAndButtons DEF InputIInv, Types
<1>2. Keeps(client, client) /\ (client.con = "live" =>
          Pressed(client) \subseteq buttons \cup (missed \cap Buttons) \cup ButtonOf(gestures.state))
  BY <1>1 DEF InputIInv, ButtonBook, Keeps
<1>3. ASSUME NEW p \in Places \cup {"outside"}, MoveMouse(p) PROVE InputIInv'
  <2>1. /\ UNCHANGED <<setup, platform, keyboard, gestures, held, muted, focus, fingers,
                       buttons, captured, missed>>
        /\ at' = p /\ aim' \in {p, aim}
        /\ client' \in {client, handleMouseMove(client, p)}
    BY <1>3 DEF MoveMouse, Pointer, Elsewhere, keysUser
  <2>2. p \in Points  BY KeysAndButtons
  <2>3. Keeps(client, client') /\ Pressed(client') \subseteq Pressed(client)
    BY <1>1, <1>2, <2>1, <2>2, MouseMoveEffect DEF Pressed
  <2>4. QED  BY <1>1, <1>2, <2>1, <2>2, <2>3, MouseStep
<1>4. ASSUME NEW b \in Buttons, MouseDown(b) PROVE InputIInv'
  <2>1. /\ UNCHANGED <<setup, platform, keyboard, gestures, held, muted, focus, fingers, at>>
        /\ buttons' = buttons \cup {b} /\ aim' \in {at, aim}
        /\ \/ /\ captured' = TRUE /\ missed' = missed \ Buttons
              /\ client' = handleMouseButton(client, at, buttons')
           \/ captured' = captured /\ missed' = missed /\ client' = client
    BY <1>4 DEF MouseDown, Pointer, Elsewhere, keysUser
  <2>2. buttons' \in SUBSET ButtonNames  BY <1>1, <2>1 DEF ButtonNames
  <2>3. CASE missed' = missed \ Buttons /\ client' = handleMouseButton(client, at, buttons')
    <3>1. Keeps(client, client') /\ (client.con = "live" => Pressed(client') = buttons')
      BY <1>1, <2>2, <2>3, MouseButtonEffect DEF Pressed
    <3>2. buttons' \subseteq Buttons /\ captured' \in BOOLEAN  BY <1>1, <2>1
    <3>3. QED  BY <1>1, <2>1, <2>3, <3>1, <3>2, MouseStep
  <2>4. CASE missed' = missed /\ client' = client
    <3>1. buttons' \subseteq Buttons /\ captured' \in BOOLEAN  BY <1>1, <2>1
    <3>2. client.con = "live" => Pressed(client') \subseteq
              buttons' \cup (missed' \cap Buttons) \cup ButtonOf(gestures.state)
      BY <1>2, <2>1, <2>4
    <3>3. QED  BY <1>1, <1>2, <2>1, <2>4, <3>1, <3>2, MouseStep
  <2>5. QED  BY <2>1, <2>3, <2>4
<1>5. ASSUME NEW b \in Buttons, MouseUp(b) PROVE InputIInv'
  <2>1. /\ UNCHANGED <<setup, platform, keyboard, gestures, held, muted, focus, fingers, at>>
        /\ buttons' = buttons \ {b} /\ captured' = FALSE /\ aim' \in {at, aim}
        /\ \/ missed' = missed \ Buttons /\ client' = handleMouseButton(client, at, buttons')
           \/ missed' = missed \cup {b} /\ client' = client
    BY <1>5 DEF MouseUp, Pointer, Elsewhere, keysUser
  <2>2. buttons' \in SUBSET ButtonNames  BY <1>1, <2>1
  <2>3. CASE missed' = missed \ Buttons /\ client' = handleMouseButton(client, at, buttons')
    <3>1. Keeps(client, client') /\ (client.con = "live" => Pressed(client') = buttons')
      BY <1>1, <2>2, <2>3, MouseButtonEffect DEF Pressed
    <3>2. QED  BY <1>1, <2>1, <2>3, <3>1, MouseStep
  <2>4. CASE missed' = missed \cup {b} /\ client' = client
    <3>1. missed' \subseteq Keys \cup Buttons  BY <1>1, <2>4
    <3>2. client.con = "live" => Pressed(client') \subseteq
              buttons' \cup (missed' \cap Buttons) \cup ButtonOf(gestures.state)
      BY <1>2, <2>1, <2>4
    <3>3. QED  BY <1>1, <1>2, <2>1, <2>4, <3>1, <3>2, MouseStep
  <2>5. QED  BY <2>1, <2>3, <2>4
<1>6. ASSUME Wheel PROVE InputIInv'
  <2>1. /\ UNCHANGED <<setup, platform, keyboard, gestures, held, muted, focus, fingers,
                       buttons, at, captured>>
        /\ missed' = missed \ Buttons /\ aim' = at
        /\ client' = WheelStep(client, at, buttons)
    BY <1>6 DEF Wheel, Pointer, keysUser, mouseUser
  <2>2. Keeps(client, client') /\ (client.con = "live" => Pressed(client') = buttons)
    BY <1>1, <2>1, WheelEffect DEF Pressed
  <2>3. QED  BY <1>1, <2>1, <2>2, MouseStep
<1>7. ASSUME DelayedMouseMove \/ MouseRests PROVE InputIInv'
  <2>1. UNCHANGED <<setup, platform, keyboard, gestures, held, muted, focus, fingers,
                    buttons, at, captured, missed, aim>>
    BY <1>7 DEF DelayedMouseMove, MouseRests, user
  <2>2. client' \in Connections /\ client'.con = client.con /\ client'.srv.keys = client.srv.keys
        /\ Pressed(client') \subseteq Pressed(client)
    <3>1. CASE MouseRests
      BY <1>1, <3>1 DEF MouseRests, Connections, Pressed
    <3>2. CASE DelayedMouseMove
      <4> DEFINE q == [client EXCEPT !.timer = FALSE]
                 m == sendMouse(q, client.pos, client.mask)
      <4>1. /\ q \in Connections /\ q.con = client.con /\ q.mask = client.mask /\ q.srv = client.srv
            /\ client.pos \in Points /\ client.mask \in SUBSET ButtonNames
        BY <1>1 DEF Connections
      <4>2. client' = [m EXCEPT !.recent = TRUE]  BY <3>2 DEF DelayedMouseMove
      <4> HIDE DEF q
      <4>3. /\ m \in Connections /\ m.con = q.con /\ m.srv.keys = q.srv.keys
            /\ m.mask = q.mask /\ m.srv.mask \in {q.srv.mask, client.mask}
        BY <4>1 DEF sendMouse, Connections, Servers
      <4> HIDE DEF m
      <4>4. /\ client' \in Connections /\ client'.con = m.con /\ client'.mask = m.mask
            /\ client'.srv = m.srv
        BY <4>2, <4>3 DEF Connections
      <4>5. QED  BY <4>1, <4>3, <4>4 DEF Pressed
    <3>3. QED  BY <1>7, <3>1, <3>2
  <2>3. Keeps(client, client')  BY <2>2 DEF Keeps
  <2>4. QED  BY <1>1, <1>2, <2>1, <2>2, <2>3, MouseStep
<1>8. QED  BY <1>3, <1>4, <1>5, <1>6, <1>7

------------------------------------------------------------------------------
(* The actions of the fingers and of the timers of the gesture handler.    *)

\* A call of the handler: its book is kept, and its events press only the
\* button of the gesture that goes on.
LEMMA GestureStep ==
    ASSUME InputIInv, NEW h, Gesture(h), Book(h), Fitting(gestures, h),
           fingers' = Known(h)
    PROVE  InputIInv'
<1>1. /\ UNCHANGED <<setup, platform, keyboard, held, muted, focus, buttons, at, captured, missed>>
      /\ gestures' = [h EXCEPT !.out = <<>>]
  BY DEF Gesture, keysUser, mouseUser
<1>2. PICK p \in Places, far \in BOOLEAN :
         /\ client' = GesturesHandled(client, h.out, p, far)
         /\ aim' \in {p, aim}
  BY DEF Gesture
<1>3. p \in Points /\ client \in Connections /\ aim \in Points /\ h \in Handlers
  BY KeysAndButtons DEF InputIInv, Types, Book
<1>4. h.out \in Seq(Events)  BY <1>3 DEF Handlers
<1>5. gestures' \in Handlers /\ gestures'.out = <<>> /\ Alike(h, gestures')
  <2>1. <<>> \in Seq(Events)  OBVIOUS
  <2>2. QED  BY <1>1, <1>3, <2>1 DEF Handlers, Alike
<1>6. Book(gestures') /\ Known(gestures') = Known(h) /\ gestures'.state = h.state
  BY <1>5, AlikeBook DEF Alike
<1>7. FingerBook'
  BY <1>5, <1>6 DEF FingerBook, Book, Known, Active, Tracking, Idle, Timers, Narrowing
<1>8. Len(h.out) <= 2  BY DEF Fitting
<1>9. Keeps(client, client')
  <2> DEFINE B == ButtonNames \cup UNION {Presses(h.out[k]) : k \in 1..Len(h.out)}
  <2>1. \A k \in 1..Len(h.out) : Presses(h.out[k]) \subseteq B  OBVIOUS
  <2> HIDE DEF B
  <2>2. QED  BY <1>2, <1>3, <1>4, <1>8, <2>1, HandledEffect
<1>10. client.con = "live" => Pressed(client') \subseteq
           buttons \cup (missed \cap Buttons) \cup ButtonOf(h.state)
  <2>0. SUFFICES ASSUME client.con = "live"
                 PROVE  Pressed(client') \subseteq
                            buttons \cup (missed \cap Buttons) \cup ButtonOf(h.state)
    OBVIOUS
  <2>1. Pressed(client) \subseteq buttons \cup (missed \cap Buttons) \cup ButtonOf(gestures.state)
    BY <2>0 DEF InputIInv, ButtonBook
  <2>2. CASE Len(h.out) = 1 /\ Releases(h.out[1])
    <3> DEFINE B == Presses(h.out[1])
    <3>1. \A k \in 1..Len(h.out) : Presses(h.out[k]) \subseteq B  BY <2>2
    <3> HIDE DEF B
    <3>2. Pressed(client') = {}
      BY <1>2, <1>3, <1>4, <1>8, <2>0, <2>2, <3>1, HandledEffect
    <3>3. QED  BY <3>2
  <2>3. CASE /\ ButtonOf(gestures.state) \subseteq ButtonOf(h.state)
             /\ \A k \in 1..Len(h.out) : Presses(h.out[k]) \subseteq ButtonOf(h.state)
    <3>1. Pressed(client') \subseteq Pressed(client) \cup ButtonOf(h.state)
      BY <1>2, <1>3, <1>4, <1>8, <2>0, <2>3, HandledEffect
    <3>2. QED  BY <2>1, <2>3, <3>1
  <2>4. QED  BY <2>2, <2>3 DEF Fitting
<1>11. ButtonBook'
  BY <1>1, <1>6, <1>9, <1>10 DEF ButtonBook, Pressed, ButtonOf, Keeps
<1>12. KeyBook'  BY <1>1, <1>9, QuietKeys
<1>13. Known(h) \subseteq Fingers
  <2>1. h.ignored \subseteq Fingers  BY <1>3 DEF Handlers
  <2>2. Active(h) \subseteq Fingers  BY ActiveMembers, BookActive DEF Touched
  <2>3. QED  BY <2>1, <2>2 DEF Known
<1>14. Types'  BY <1>1, <1>2, <1>3, <1>5, <1>9, <1>13 DEF InputIInv, Types, Keeps
<1>15. QED  BY <1>7, <1>11, <1>12, <1>14 DEF InputIInv

\* Every action of the fingers, and every timer of theirs, keeps the
\* invariant.
LEMMA GestureActions ==
    ASSUME InputIInv,
           \/ \E f \in Fingers : TouchStart(f) \/ TouchMove(f) \/ TouchEnd(f)
           \/ LongpressTimeout \/ TwoTouchTimeout \/ TimePasses
    PROVE  InputIInv'
<1>1. /\ Book(gestures) /\ gestures.out = <<>> /\ fingers = Known(gestures)
      /\ setup \in Setups
  BY DEF InputIInv, FingerBook, Types
<1>2. ASSUME NEW f \in Fingers, TouchStart(f) PROVE InputIInv'
  <2>1. f \notin fingers /\ fingers' = fingers \cup {f} /\ Gesture(touchStart(gestures, f))
    BY <1>2 DEF TouchStart
  <2> DEFINE h == touchStart(gestures, f)
  <2>2. Book(h) /\ Known(h) = Known(gestures) \cup {f} /\ Fitting(gestures, h)
    BY <1>1, <2>1, TouchStartBook
  <2>3. Gesture(h)  BY <2>1
  <2> HIDE DEF h
  <2>4. QED  BY <1>1, <2>1, <2>2, <2>3, GestureStep
<1>3. ASSUME NEW f \in Fingers, TouchMove(f) PROVE InputIInv'
  <2>1. PICK far \in BOOLEAN, apart \in BOOLEAN : Gesture(touchMove(gestures, f, far, apart))
    BY <1>3 DEF TouchMove
  <2> DEFINE h == touchMove(gestures, f, far, apart)
  <2>2. Book(h) /\ Known(h) = Known(gestures) /\ Fitting(gestures, h)  BY <1>1, TouchMoveBook
  <2>3. Gesture(h) /\ fingers' = fingers  BY <1>3, <2>1 DEF TouchMove
  <2> HIDE DEF h
  <2>4. QED  BY <1>1, <2>2, <2>3, GestureStep
<1>4. ASSUME NEW f \in Fingers, TouchEnd(f) PROVE InputIInv'
  <2>1. f \in fingers /\ fingers' = fingers \ {f} /\ Gesture(touchEnd(gestures, f))
    BY <1>4 DEF TouchEnd
  <2> DEFINE h == touchEnd(gestures, f)
  <2>2. Book(h) /\ Known(h) = Known(gestures) \ {f} /\ Fitting(gestures, h)
    BY <1>1, <2>1, TouchEndBook
  <2>3. Gesture(h)  BY <2>1
  <2> HIDE DEF h
  <2>4. QED  BY <1>1, <2>1, <2>2, <2>3, GestureStep
<1>5. ASSUME LongpressTimeout PROVE InputIInv'
  <2> DEFINE h == longpressTimeout(gestures)
  <2>1. gestures.longpress /\ Gesture(h) /\ fingers' = fingers  BY <1>5 DEF LongpressTimeout
  <2>2. Book(h) /\ Known(h) = Known(gestures) /\ Fitting(gestures, h)
    BY <1>1, <2>1, LongpressBook
  <2> HIDE DEF h
  <2>3. QED  BY <1>1, <2>1, <2>2, GestureStep
<1>6. ASSUME TwoTouchTimeout PROVE InputIInv'
  <2>1. PICK pinch \in BOOLEAN : Gesture(twoTouchTimeout(gestures, pinch))
    BY <1>6 DEF TwoTouchTimeout
  <2> DEFINE h == twoTouchTimeout(gestures, pinch)
  <2>2. gestures.twoTouch = "running" /\ Gesture(h) /\ fingers' = fingers
    BY <1>6, <2>1 DEF TwoTouchTimeout
  <2>3. Book(h) /\ Known(h) = Known(gestures) /\ Fitting(gestures, h)
    BY <1>1, <2>2, TwoTouchBook
  <2> HIDE DEF h
  <2>4. QED  BY <1>1, <2>2, <2>3, GestureStep
<1>7. ASSUME TimePasses PROVE InputIInv'
  <2>1. UNCHANGED <<setup, platform, client, keyboard, held, muted, focus, buttons, at, captured,
                    fingers, missed, aim>>
    BY <1>7 DEF TimePasses, user
  <2>2. PICK a \in gestures.age..2, l \in BOOLEAN :
           gestures' = [gestures EXCEPT !.age = a, !.late = l]
    BY <1>7 DEF TimePasses
  <2>3. gestures \in Handlers  BY <1>1 DEF Book
  <2>4. a \in 0..2
    <3>1. gestures.age \in 0..2  BY <2>3 DEF Handlers
    <3>2. QED  BY <3>1
  <2>5. gestures' \in Handlers /\ Alike(gestures, gestures') /\ gestures'.out = gestures.out
    BY <2>2, <2>3, <2>4 DEF Handlers, Alike
  <2>6. Book(gestures') /\ Known(gestures') = Known(gestures)  BY <1>1, <2>5, AlikeBook
  <2>7. FingerBook'
    BY <1>1, <2>1, <2>5, <2>6
       DEF FingerBook, Book, Known, Active, Tracking, Idle, Timers, Narrowing
  <2>8. KeyBook'
    BY <2>1, QuietKeys DEF InputIInv, Types, Keeps
  <2>9. ButtonBook'  BY <2>1, <2>5 DEF InputIInv, ButtonBook, Pressed, ButtonOf, Alike
  <2>10. Types'  BY <2>1, <2>5 DEF InputIInv, Types
  <2>11. QED  BY <2>7, <2>8, <2>9, <2>10 DEF InputIInv
<1>8. QED  BY <1>2, <1>3, <1>4, <1>5, <1>6, <1>7

------------------------------------------------------------------------------
(* The theorems.                                                           *)

\* The invariant is inductive.
LEMMA StepBooks == InputIInv /\ [InputNext]_inputVars => InputIInv'
<1> SUFFICES ASSUME InputIInv, [InputNext]_inputVars PROVE InputIInv'  OBVIOUS
<1>1. CASE UNCHANGED inputVars
  <2>1. UNCHANGED <<setup, platform, client, keyboard, gestures, held, muted, focus, buttons, at,
                    captured, fingers, missed, aim>>
    BY <1>1 DEF inputVars, user
  <2>2. Types' /\ FingerBook'  BY <2>1, QuietFingers DEF InputIInv, Types
  <2>3. KeyBook'  BY <2>1, QuietKeys DEF InputIInv, Types, Keeps
  <2>4. ButtonBook'  BY <2>1 DEF InputIInv, ButtonBook, Pressed, ButtonOf
  <2>5. QED  BY <2>2, <2>3, <2>4 DEF InputIInv
<1>2. CASE \/ \E f \in Fingers : TouchStart(f) \/ TouchMove(f) \/ TouchEnd(f)
           \/ LongpressTimeout \/ TwoTouchTimeout \/ TimePasses
  BY <1>2, GestureActions
<1>3. CASE \/ \E p \in Places \cup {"outside"} : MoveMouse(p)
           \/ \E b \in Buttons : MouseDown(b) \/ MouseUp(b)
           \/ Wheel \/ DelayedMouseMove \/ MouseRests
  BY <1>3, MouseActions
<1>4. CASE \/ \E c \in Keys : KeyDown(c) \/ KeyUp(c)
           \/ VirtualKey \/ AltGrTimeout
           \/ \E place \in {"canvas", "page", "away"} : Focus(place)
           \/ ToolbarKeys
  BY <1>4, KeyboardActions
<1>5. CASE ViewOnly \/ Disconnect  BY <1>5, InputEnds
<1>6. QED  BY <1>1, <1>2, <1>3, <1>4, <1>5 DEF InputNext

\* So it always holds.
LEMMA BooksHold == InputSpec => []InputIInv
<1>1. InputInit => InputIInv  BY InitBooks
<1>2. InputIInv /\ [InputNext]_inputVars => InputIInv'  BY StepBooks
<1>3. QED  BY <1>1, <1>2, PTL DEF InputSpec

\* Every variable keeps its type.
THEOREM TypesCorrect == InputSpec => []Types
<1>1. InputIInv => Types  BY DEF InputIInv
<1>2. QED  BY <1>1, BooksHold, PTL

\* The server holds down only keys that the Keyboard of keyboard.js lists, and
\* the list has only keys that the user holds or whose release was missed:
\* whatever the platform does to Control, Shift, Meta, Caps Lock and the keys
\* of Japanese keyboards, no key is left down for good.
THEOREM KeysReleasedAlways == InputSpec => []KeysReleased
<1>1. InputIInv => KeysReleased
  BY DEF InputIInv, KeyBook, Expected, KeysReleased, Listed
<1>2. QED  BY <1>1, BooksHold, PTL

\* A mouse button that the server holds down is one the user holds, or one
\* released where the canvas was not told of it, or the button of the gesture
\* that goes on, also when the delayed move of rfb.js names the buttons again.
THEOREM ButtonsReleasedAlways == InputSpec => []ButtonsReleased
<1>1. InputIInv => ButtonsReleased
  BY DEF InputIInv, ButtonBook, ButtonsReleased, Pressed, ButtonOf
<1>2. QED  BY <1>1, BooksHold, PTL

\* The GestureHandler of gesturehandler.js knows each finger, once; it throws
\* no exception, and without a finger it begins anew with no timer running.
THEOREM FingersKnownAlways == InputSpec => []FingersKnown
<1>1. InputIInv => FingersKnown
  <2> SUFFICES ASSUME InputIInv PROVE FingersKnown  OBVIOUS
  <2>1. Book(gestures) /\ fingers = Known(gestures)  BY DEF InputIInv, FingerBook
  <2>2. ~gestures.error /\ Active(gestures) \cap gestures.ignored = {}
        /\ fingers = Active(gestures) \cup gestures.ignored
    BY <2>1 DEF Book, Known
  <2>3. ASSUME fingers = {}
        PROVE  /\ gestures.state = GH_INITSTATE /\ gestures.tracked = <<>>
               /\ ~gestures.waitingRelease /\ ~gestures.longpress
               /\ gestures.twoTouch # "running"
    <3>1. gestures.ignored = {} /\ gestures.tracked = <<>>  BY <2>1, <2>2, <2>3, BookActive
    <3>2. Len(gestures.tracked) = 0  BY <3>1
    <3>3. Idle(gestures) /\ Timers(gestures)  BY <2>1 DEF Book
    <3>4. QED  BY <3>1, <3>2, <3>3 DEF Idle, Timers
  <2>4. QED  BY <2>2, <2>3 DEF FingersKnown
<1>2. QED  BY <1>1, BooksHold, PTL
=============================================================================
