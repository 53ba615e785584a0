-------------------------------- MODULE Input --------------------------------
(***************************************************************************)
(* Keyboard, mouse and touches of one noVNC connection (core/rfb.js), from *)
(* the user's hands to the keys and buttons that the server holds down.    *)
(* The user and the browser are the environment: they press and release,   *)
(* and some releases never reach the canvas.  The handlers of rfb.js act   *)
(* on the records of Keyboard and Gestures and on "client".                *)
(*                                                                         *)
(* _handleKeyEvent also presses and releases a lock key when the server's  *)
(* lock differs; the pair leaves nothing down and is left out.             *)
(***************************************************************************)
EXTENDS Keyboard, Gestures, FiniteSets

CONSTANTS
    Setups,     \* what a user has at hand: sets of "keyboard", "mouse", "touch"
    KeysOf,     \* the keys of a platform
    Keysyms,    \* the keysyms that a key may have
    Buttons,
    FingersOf,  \* the fingers of a user with that at hand
    Places,     \* points of the canvas
    MaxHeld     \* bound: keys held at a time

ASSUME InputAssumption ==
    /\ DOMAIN KeysOf = Platforms
    /\ \A p \in Platforms : KeysOf[p] \subseteq DOMAIN Keysyms
    \* A key types what Windows reports badly, or it does not; no modifier does.
    /\ \A c \in DOMAIN Keysyms :
          Keysyms[c] \cap jpBadKeys # {} =>
              /\ Keysyms[c] \subseteq jpBadKeys
              /\ c \notin shifts \cup {"ControlLeft", "AltRight"}
    /\ Buttons \subseteq {"left", "right", "middle"} \ DOMAIN Keysyms
    /\ DOMAIN FingersOf = Setups
    /\ "outside" \notin Places

VARIABLES
    setup, platform,
    client,     \* the RFB object and what its server was last told
    keyboard,   \* the RFB object's Keyboard
    gestures,   \* and its GestureHandler
    held,       \* keys the user holds
    muted,      \* keys of which macOS will not tell the release
    focus,      \* what has the key events: the canvas, the page, another window
    buttons,    \* mouse buttons the user holds
    at,         \* where the mouse is: a point of the canvas, or outside
    captured,   \* the canvas has the mouse events of the whole page
    fingers,    \* fingers on the canvas
    missed,     \* keys and buttons whose release nobody told the canvas
    aim         \* the point of the last pointer event the handlers were given

Fingers == UNION {FingersOf[s] : s \in Setups}
Keys == UNION {KeysOf[p] : p \in Platforms}

user == <<held, muted, focus, buttons, at, captured, fingers, missed>>
inputVars == <<setup, platform, client, keyboard, gestures, user, aim>>

keysUser == <<held, muted, focus>>
mouseUser == <<buttons, at, captured>>

\* con: connected with input, in view-only mode, or gone.  mask, pos:
\* _mouseButtonMask and _mousePos.  timer: _mouseMoveTimer runs.  recent: the
\* last move was sent less than MOUSE_MOVE_DELAY ago.  srv: the keys and
\* buttons down at the server, and its pointer.
InputInit ==
    /\ setup \in Setups
    /\ platform \in IF "keyboard" \in setup THEN Platforms ELSE {"other"}
    /\ client = [con |-> "live", mask |-> {}, pos |-> "none", timer |-> FALSE, recent |-> FALSE,
                 srv |-> [keys |-> {}, mask |-> {}, pos |-> "none"]]
    /\ keyboard = NewKeyboard
    /\ gestures = NewHandler
    /\ held = {} /\ muted = {} /\ focus = "canvas"
    /\ buttons = {} /\ at = "outside" /\ captured = FALSE
    /\ fingers = {}
    /\ missed = {}
    /\ aim = "none"

------------------------------------------------------------------------------
(* The messages to the server. *)

sendKey(r, sym, down) ==
    IF r.con # "live" THEN r
    ELSE [r EXCEPT !.srv.keys = IF down THEN @ \cup {sym} ELSE @ \ {sym}]

\* sendCtrlAltDel: keys go down and up again.
pressRelease(r, syms) == IF r.con # "live" THEN r ELSE [r EXCEPT !.srv.keys = @ \ syms]

sendMouse(r, p, mask) ==
    IF r.con # "live" THEN r ELSE [r EXCEPT !.srv.pos = p, !.srv.mask = mask]

flushMouseMoveTimer(r, p) ==
    IF r.timer THEN sendMouse([r EXCEPT !.timer = FALSE], p, r.mask) ELSE r

handleMouseButton(r, p, mask) ==
    sendMouse([flushMouseMoveTimer(r, p) EXCEPT !.mask = mask], p, mask)

\* A mutant: a move that comes too soon is dropped.
dropMouseMove(r, p) ==
    IF r.timer \/ r.recent THEN [r EXCEPT !.pos = p]
    ELSE [sendMouse([r EXCEPT !.pos = p], p, r.mask) EXCEPT !.recent = TRUE]

\* Many moves become one every MOUSE_MOVE_DELAY ms.
handleMouseMove(r, p) ==
    IF r.timer \/ r.recent THEN [r EXCEPT !.pos = p, !.timer = TRUE]
    ELSE [sendMouse([r EXCEPT !.pos = p], p, r.mask) EXCEPT !.recent = TRUE]

\* A step of the wheel is a press and a release of a button of its own.
WheelStep(r, p, mask) ==
    handleMouseButton(handleMouseButton(r, p, mask \cup {"wheel"}), p, mask)

handleTapEvent(r, p, button) ==
    handleMouseButton(handleMouseButton(handleMouseMove(r, p), p, {button}), p, {})

------------------------------------------------------------------------------
(* _handleGesture: one event of the gesture handler at point p; far: the   *)
(* fingers moved enough for a step of scroll or zoom.                      *)

GestureStart(r, gesture, p) ==
    CASE gesture = "onetap" -> handleTapEvent(r, p, "left")
      [] gesture = "twotap" -> handleTapEvent(r, p, "right")
      [] gesture = "threetap" -> handleTapEvent(r, p, "middle")
      [] gesture = "drag" -> handleMouseButton(handleMouseMove(r, p), p, {"left"})
      [] gesture = "longpress" -> handleMouseButton(handleMouseMove(r, p), p, {"right"})
      [] OTHER -> handleMouseMove(r, p)

Scrolled(r, p, far) == IF far THEN WheelStep(r, p, {}) ELSE r

\* A pinch is a scroll with Control.
Zoomed(r, p, far) ==
    LET ctrl == IF far THEN sendKey(r, "Control_L", TRUE) ELSE r
    IN  sendKey(Scrolled(ctrl, p, far), "Control_L", FALSE)

GestureMove(r, gesture, p, far) ==
    CASE gesture \in taps -> r
      [] gesture = "twodrag" -> Scrolled(handleMouseMove(r, p), p, far)
      [] gesture = "pinch" -> Zoomed(handleMouseMove(r, p), p, far)
      [] OTHER -> handleMouseMove(r, p)

\* A mutant: the end of a long press releases nothing.
GestureEndKeeps(r, gesture, p) ==
    IF gesture = "drag" THEN handleMouseButton(handleMouseMove(r, p), p, {}) ELSE r

GestureEnd(r, gesture, p) ==
    IF gesture \in {"drag", "longpress"}
    THEN handleMouseButton(handleMouseMove(r, p), p, {}) ELSE r

handleGesture(r, ev, p, far) ==
    CASE ev.type = "gesturestart" -> GestureStart(r, ev.gesture, p)
      [] ev.type = "gesturemove" -> GestureMove(r, ev.gesture, p, far)
      [] ev.type = "gestureend" -> GestureEnd(r, ev.gesture, p)

\* The end of other gestures has no point.
HasPoint(ev) == ev.type # "gestureend" \/ ev.gesture \in {"drag", "longpress"}

\* The events are handled while the gesture handler pushes them: two at most.
GesturesHandled(r, events, p, far) ==
    CASE Len(events) = 0 -> r
      [] Len(events) = 1 -> handleGesture(r, events[1], p, far)
      [] Len(events) = 2 -> handleGesture(handleGesture(r, events[1], p, far), events[2], p, far)

Gesture(h) ==
    /\ gestures' = [h EXCEPT !.out = <<>>]
    /\ \E p \in Places, far \in BOOLEAN :
          /\ client' = GesturesHandled(client, h.out, p, far)
          /\ aim' = IF \E k \in 1..Len(h.out) : HasPoint(h.out[k]) THEN p ELSE aim
    /\ UNCHANGED <<setup, platform, keyboard, keysUser, mouseUser, missed>>

Touches == "touch" \in setup /\ client.con # "gone"

TouchStart(f) ==
    /\ Touches /\ f \in FingersOf[setup] \ fingers
    /\ fingers' = fingers \cup {f}
    /\ Gesture(touchStart(gestures, f))

TouchMove(f) ==
    /\ Touches /\ f \in fingers
    /\ \E far, apart \in BOOLEAN : Gesture(touchMove(gestures, f, far, apart))
    /\ UNCHANGED fingers

TouchEnd(f) ==
    /\ Touches /\ f \in fingers
    /\ fingers' = fingers \ {f}
    /\ Gesture(touchEnd(gestures, f))

LongpressTimeout ==
    /\ gestures.longpress /\ gestures.age = 2
    /\ Gesture(longpressTimeout(gestures))
    /\ UNCHANGED fingers

TwoTouchTimeout ==
    /\ gestures.twoTouch = "running"
    /\ \E pinch \in BOOLEAN : Gesture(twoTouchTimeout(gestures, pinch))
    /\ UNCHANGED fingers

\* The clock passes thresholds; a timer may be late.
TimePasses ==
    /\ gestures.tracked # <<>>
    /\ \E a \in gestures.age..2, l \in BOOLEAN :
          /\ gestures.late => l
          /\ l => gestures.waitingRelease /\ a > 0
          /\ gestures' = [gestures EXCEPT !.age = a, !.late = l]
    /\ UNCHANGED <<setup, platform, client, keyboard, user, aim>>

------------------------------------------------------------------------------
(* The mouse: _handleMouse and _handleWheel, and the capture of            *)
(* util/events.js.  While it is captured an element covers the page: it    *)
(* hands on moves and releases, wherever the mouse is, and nothing else.   *)

Mouse == "mouse" \in setup /\ client.con # "gone"
Over(p) == p # "outside"

\* The events of the mouse reach the canvas.
Pointer(r) ==
    /\ client' = r
    /\ aim' = at'
    /\ UNCHANGED <<setup, platform, keyboard, gestures, keysUser, fingers>>

\* They do not.
Elsewhere == UNCHANGED <<setup, platform, client, keyboard, gestures, keysUser, fingers, aim>>

MoveMouse(p) ==
    /\ Mouse /\ p # at
    /\ at' = p
    /\ IF captured \/ Over(p) THEN Pointer(handleMouseMove(client, p)) ELSE Elsewhere
    /\ UNCHANGED <<buttons, captured, missed>>

\* setCapture, then the buttons of the event.
MouseDown(b) ==
    /\ Mouse /\ b \notin buttons
    /\ buttons' = buttons \cup {b}
    /\ UNCHANGED at
    /\ IF Over(at) /\ ~captured
       THEN /\ captured' = TRUE
            /\ missed' = missed \ Buttons
            /\ Pointer(handleMouseButton(client, at, buttons'))
       ELSE UNCHANGED <<captured, missed>> /\ Elsewhere

\* Any release ends the capture, with other buttons down or not.
MouseUp(b) ==
    /\ Mouse /\ b \in buttons
    /\ buttons' = buttons \ {b}
    /\ captured' = FALSE
    /\ UNCHANGED at
    /\ IF captured \/ Over(at)
       THEN /\ missed' = missed \ Buttons
            /\ Pointer(handleMouseButton(client, at, buttons'))
       ELSE missed' = missed \cup {b} /\ Elsewhere

\* Enough of the wheel for a step; view-only mode ignores it.
Wheel ==
    /\ Mouse /\ Over(at) /\ ~captured /\ client.con = "live"
    /\ missed' = missed \ Buttons
    /\ UNCHANGED mouseUser
    /\ Pointer(WheelStep(client, at, buttons))

DelayedMouseMove ==
    /\ client.timer
    /\ client' = [sendMouse([client EXCEPT !.timer = FALSE], client.pos, client.mask) EXCEPT !.recent = TRUE]
    /\ UNCHANGED <<setup, platform, keyboard, gestures, user, aim>>

MouseRests ==
    /\ client.recent
    /\ client' = [client EXCEPT !.recent = FALSE]
    /\ UNCHANGED <<setup, platform, keyboard, gestures, user, aim>>

------------------------------------------------------------------------------
(* The keyboard.  The canvas has key events while it has the focus and     *)
(* nothing made the connection view-only.                                  *)

Typing == "keyboard" \in setup /\ client.con # "gone"
Grabbed == client.con = "live" /\ focus = "canvas"

\* The keyboard as a call finds it; and what it sends goes to sendKey.
Board == [keyboard EXCEPT !.down = client.srv.keys]

SendKeys(k) ==
    /\ keyboard' = [k EXCEPT !.down = {}]
    /\ client' = IF client.con = "live" THEN [client EXCEPT !.srv.keys = k.down] ELSE client

\* Nobody tells the canvas that the keys it holds down, or will, are up.
Unheard ==
    LET down == Codes(keyboard) \cup IF keyboard.armed THEN {"ControlLeft"} ELSE {}
    IN  missed' = missed \cup (down \ held')

\* A key goes down, or repeats; macOS tells only that Caps Lock changed.
KeyDown(code) ==
    /\ Typing /\ code \in KeysOf[platform]
    /\ code \in held \/ Cardinality(held) < MaxHeld
    /\ held' = held \cup {code}
    /\ muted' = IF platform = "mac" /\ metas \cap held # {} /\ code \notin held \cup metas
                THEN muted \cup {code} ELSE muted
    /\ IF ~Grabbed THEN UNCHANGED <<client, keyboard, missed>>
       ELSE /\ \/ \E sym \in Keysyms[code], quick \in BOOLEAN :
                     SendKeys(handleKeyDown(Board, platform, sym, code, quick,
                                            metas \cap held # {}))
               \/ /\ platform = "mac" /\ code = "CapsLock"
                  /\ SendKeys(handleKeyUp(Board, platform, code))
            /\ UNCHANGED missed
    /\ UNCHANGED <<setup, platform, gestures, focus, mouseUser, fingers, aim>>

\* The platform tells the page of the release of this key.
Told(code) ==
    CASE platform = "mac" -> code \notin muted /\ code # "CapsLock"
      [] platform = "windows" ->
            /\ Keysyms[code] \cap jpBadKeys = {}
            /\ code \in shifts => (shifts \cap held) \subseteq {code}
      [] OTHER -> TRUE

KeyUp(code) ==
    /\ Typing /\ code \in held
    /\ held' = held \ {code}
    /\ muted' = IF metas \cap held \subseteq {code} THEN {} ELSE muted \ {code}
    /\ IF ~Told(code) THEN UNCHANGED <<client, keyboard, missed>>
       ELSE IF Grabbed
       THEN /\ SendKeys(handleKeyUp(Board, platform, code))
            /\ missed' = missed \ {code}
       ELSE UNCHANGED <<client, keyboard>> /\ Unheard
    /\ UNCHANGED <<setup, platform, gestures, focus, mouseUser, fingers, aim>>

\* A key of an on-screen keyboard, of which only the character is known.
VirtualKey ==
    /\ Typing /\ Grabbed
    /\ SendKeys(handleKeyDown(Board, platform, "v", "Unidentified", FALSE, FALSE))
    /\ UNCHANGED <<setup, platform, gestures, user, aim>>

AltGrTimeout ==
    /\ keyboard.armed
    /\ SendKeys(interruptAltGrSequence(Board))
    /\ UNCHANGED <<setup, platform, gestures, user, aim>>

\* The focus goes to the page, where the toolbar is, to another window, or to
\* the canvas; the blur event of the window releases all keys.
Focus(place) ==
    /\ Typing /\ place # focus
    /\ focus' = place
    /\ IF place = "away" /\ client.con = "live"
       THEN SendKeys(allKeysUp(Board)) /\ missed' = missed \cap Buttons
       ELSE UNCHANGED <<client, keyboard, missed>>
    /\ UNCHANGED <<setup, platform, gestures, held, muted, mouseUser, fingers, aim>>

\* The buttons of the toolbar press and release keys past the Keyboard.
ToolbarKeys ==
    /\ Typing /\ focus = "page"
    /\ \E syms \in {{"Control_L", "Alt_L", "Delete"}, {"Super_L"}} : client' = pressRelease(client, syms)
    /\ UNCHANGED <<setup, platform, keyboard, gestures, user, aim>>

------------------------------------------------------------------------------
\* The seat is lost (applyControl): input stops before the keys are released.
ViewOnly ==
    /\ client.con = "live"
    /\ keyboard' = [allKeysUp(keyboard) EXCEPT !.down = {}]
    /\ client' = [client EXCEPT !.con = "view"]
    /\ UNCHANGED <<setup, platform, gestures, user, aim>>

Disconnect ==
    /\ client.con # "gone"
    /\ keyboard' = [allKeysUp(keyboard) EXCEPT !.down = {}]
    /\ gestures' = detach(gestures)
    /\ client' = [client EXCEPT !.con = "gone", !.timer = FALSE]
    /\ UNCHANGED <<setup, platform, user, aim>>

InputNext ==
    \/ \E f \in Fingers : TouchStart(f) \/ TouchMove(f) \/ TouchEnd(f)
    \/ LongpressTimeout \/ TwoTouchTimeout \/ TimePasses
    \/ \E p \in Places \cup {"outside"} : MoveMouse(p)
    \/ \E b \in Buttons : MouseDown(b) \/ MouseUp(b)
    \/ Wheel \/ DelayedMouseMove \/ MouseRests
    \/ \E c \in Keys : KeyDown(c) \/ KeyUp(c)
    \/ VirtualKey \/ AltGrTimeout
    \/ \E place \in {"canvas", "page", "away"} : Focus(place)
    \/ ToolbarKeys
    \/ ViewOnly \/ Disconnect

\* A timer of the browser that is due fires.
InputSpec == InputInit /\ [][InputNext]_inputVars /\ WF_inputVars(DelayedMouseMove)

------------------------------------------------------------------------------
\* keyboard.js, "Release (key up)": a key that the server holds down is one the
\* Keyboard holds down, so it will be released, and that is a key the user
\* holds, or one whose release went to the page.  Windows keeps the release of
\* one Shift until both are up.
KeysReleased ==
    client.con = "live" =>
        /\ client.srv.keys \subseteq {keyboard.list[c] : c \in Codes(keyboard)}
        /\ Codes(keyboard) \subseteq
              held \cup missed \cup (IF held \cap shifts # {} THEN shifts ELSE {})

\* A button that the server holds down is one the user holds, that of the
\* gesture that goes on, or one released where the canvas was not told of it.
ButtonsReleased ==
    client.con = "live" =>
        client.srv.mask \subseteq
            buttons \cup missed
            \cup (IF gestures.state = {"drag"} THEN {"left"} ELSE {})
            \cup (IF gestures.state = {"longpress"} THEN {"right"} ELSE {})

\* gesturehandler.js keeps a book of the fingers: each is part of the gesture or
\* ignored.  With no finger left it begins anew, no call throws, and no timer
\* of the gesture runs on.
FingersKnown ==
    /\ ~gestures.error
    /\ fingers = Active(gestures) \cup gestures.ignored
    /\ Active(gestures) \cap gestures.ignored = {}
    /\ fingers = {} =>
          /\ gestures.state = GH_INITSTATE /\ gestures.tracked = <<>>
          /\ ~gestures.waitingRelease /\ ~gestures.longpress
          /\ gestures.twoTouch # "running"

\* rfb.js _handleMouseMove: however many moves are left out, the pointer of the
\* server comes to the point the user points at.
PointerCatchesUp ==
    \A p \in Places \cup {"outside"} :
        aim = p /\ client.con = "live"
        ~> client.srv.pos = p \/ aim # p \/ client.con # "live"
==============================================================================
