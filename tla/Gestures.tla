------------------------------ MODULE Gestures ------------------------------
(***************************************************************************)
(* noVNC's GestureHandler (core/input/gesturehandler.js): it turns touches *)
(* into gestures.  The bits of _state are the gestures that are still      *)
(* possible.  Distances become "moved beyond the threshold", times become  *)
(* the side of the thresholds they are on.  The operators below are the    *)
(* methods; they take a handler to a handler, and "out" has the events the *)
(* last call pushed.                                                       *)
(***************************************************************************)
EXTENDS Naturals, Sequences

taps == {"onetap", "twotap", "threetap"}
GH_INITSTATE == taps \cup {"drag", "longpress", "twodrag", "pinch"}

\* tracked: the touches of the gesture, in order.  age: how long ago the first
\* one began: 0 up to 250 ms, 1 up to a second, 2 longer.  late: the first
\* release is more than 250 ms ago.  longpress: its timer runs.  twoTouch: the
\* timer that tells a pinch from a drag runs, or ran out: its id stays behind.
\* error: an exception was thrown.
NewHandler ==
    [state |-> GH_INITSTATE, tracked |-> <<>>, ignored |-> {}, waitingRelease |-> FALSE,
     late |-> FALSE, age |-> 0, longpress |-> FALSE, twoTouch |-> "off",
     error |-> FALSE, out |-> <<>>]

Touch(id) == [id |-> id, active |-> TRUE, far |-> FALSE]
Active(g) == {g.tracked[k].id : k \in {j \in 1..Len(g.tracked) : g.tracked[j].active}}

\* One bit is left.
Decided(g) == \E s \in g.state : g.state = {s}

hasDetectedGesture(g) ==
    /\ Decided(g)
    /\ g.state \subseteq taps => Active(g) = {}

\* Without a touch there is no position, and no name for an undecided state.
pushEvent(g, type) ==
    IF g.tracked = <<>> \/ ~Decided(g)
    THEN [g EXCEPT !.error = TRUE]
    ELSE [g EXCEPT !.out = Append(@, [type |-> type, gesture |-> CHOOSE s \in g.state : TRUE])]

Ignore(g, id) == [g EXCEPT !.ignored = @ \cup {id}]

\* How the n-th touch narrows the state down.
StateOfTouches(g, n) ==
    CASE n = 1 -> g.state
      [] n = 2 -> g.state \ {"onetap", "drag", "longpress"}
      [] n = 3 -> g.state \ {"twotap", "twodrag", "pinch"}
      [] OTHER -> {}

touchStart(g, id) ==
    LET n == Len(g.tracked) + 1
    IN  IF hasDetectedGesture(g) \/ g.state = {} THEN Ignore(g, id)
        ELSE IF (g.tracked # <<>> /\ g.age > 0) \/ g.waitingRelease
        THEN Ignore([g EXCEPT !.state = {}], id)
        ELSE [g EXCEPT !.tracked = Append(@, Touch(id)), !.state = StateOfTouches(g, n),
                       !.age = IF n = 1 THEN 0 ELSE @,
                       !.longpress = IF n < 3 THEN n = 1 ELSE @]

IndexOf(g, id) == {k \in 1..Len(g.tracked) : g.tracked[k].id = id}

\* Two touches: both moved, and their directions tell which gesture it is, or
\* one did, and the timer gives the other some time.  apart: the directions
\* are more than 90 degrees apart.
TwoTouches(g, id, apart) ==
    LET prev == CHOOSE k \in 1..2 : g.tracked[k].id # id
    IN  IF g.tracked[prev].far
        THEN [g EXCEPT !.state = @ \ {IF apart THEN "twodrag" ELSE "pinch"}, !.twoTouch = "off"]
        ELSE IF g.twoTouch = "off" THEN [g EXCEPT !.twoTouch = "running"] ELSE g

\* What a move that was far enough rules out.
Narrowed(g, id, apart) ==
    LET n == Len(g.tracked)
        h == [g EXCEPT
                !.state = @ \ (taps \cup {"longpress"}
                               \cup (IF n # 1 THEN {"drag"} ELSE {})
                               \cup (IF n # 2 THEN {"twodrag", "pinch"} ELSE {})),
                !.longpress = FALSE]
    IN  IF n = 2 THEN TwoTouches(h, id, apart) ELSE h

touchMove(g, id, far, apart) ==
    IF IndexOf(g, id) = {} THEN g
    ELSE LET k == CHOOSE j \in IndexOf(g, id) : TRUE
             moved == [g EXCEPT !.tracked[k].far = far]
             h == Narrowed(moved, id, apart)
         IN  CASE hasDetectedGesture(g) -> pushEvent(moved, "gesturemove")
               [] ~hasDetectedGesture(g) /\ ~far -> moved
               [] OTHER -> IF ~hasDetectedGesture(h) THEN h
                           ELSE pushEvent(pushEvent(h, "gesturestart"), "gesturemove")

\* A mutant: the touches that are left are forgotten.
LetGoForgets(g, id) ==
    [g EXCEPT !.ignored = {}, !.tracked = <<>>,
              !.state = GH_INITSTATE, !.waitingRelease = FALSE, !.late = FALSE, !.age = 0]

\* The end of a gesture: the touches that are left are ignored until they end.
LetGo(g, id) ==
    LET left == (g.ignored \cup Active(g)) \ {id}
    IN  [g EXCEPT !.ignored = left, !.tracked = <<>>, !.late = FALSE, !.age = 0,
                  !.state = IF left = {} THEN GH_INITSTATE ELSE {},
                  !.waitingRelease = @ /\ left # {}]

\* The end of a touch that was ignored.
EndIgnored(g, id) ==
    LET h == [g EXCEPT !.ignored = @ \ {id}]
    IN  IF h.ignored = {} /\ h.tracked = <<>>
        THEN [h EXCEPT !.state = GH_INITSTATE, !.waitingRelease = FALSE] ELSE h

\* A release before the two touches were told apart: no gesture any more.
BeforeTimer(g) ==
    IF ~hasDetectedGesture(g) /\ g.twoTouch # "off"
    THEN [g EXCEPT !.twoTouch = "off", !.state = {}] ELSE g

\* A release leaves only taps, and the first one tells of how many touches.
FirstRelease(g) ==
    LET few == CASE Len(g.tracked) = 1 -> {"twotap", "threetap"}
                 [] Len(g.tracked) = 2 -> {"onetap", "threetap"}
                 [] OTHER -> {}
    IN  IF hasDetectedGesture(g) THEN g
        ELSE [g EXCEPT !.longpress = FALSE, !.waitingRelease = TRUE,
                       !.state = @ \ ({"drag", "twodrag", "pinch", "longpress"}
                                      \cup (IF g.waitingRelease THEN {} ELSE few))]

\* A touch is released while the handler waits for all of them.
Released(g, id) ==
    LET k == CHOOSE j \in IndexOf(g, id) : TRUE
    IN  [g EXCEPT !.tracked[k].active = FALSE, !.state = IF g.late \/ g.age = 2 THEN {} ELSE @]

touchEnd(g, id) ==
    LET first == FirstRelease(BeforeTimer(g))
        rel == Released(first, id)
    IN  CASE id \in g.ignored -> EndIgnored(g, id)
          [] id \notin g.ignored /\ ~first.waitingRelease ->
                LetGo(IF hasDetectedGesture(first) THEN pushEvent(first, "gestureend") ELSE first, id)
          [] id \notin g.ignored /\ first.waitingRelease ->
                IF IndexOf(g, id) = {} THEN [g EXCEPT !.error = TRUE]
                ELSE IF hasDetectedGesture(rel)
                THEN LetGo(pushEvent(pushEvent(rel, "gesturestart"), "gestureend"), id)
                ELSE IF rel.state = {} THEN LetGo(rel, id) ELSE rel

longpressTimeout(g) ==
    IF hasDetectedGesture(g) THEN [g EXCEPT !.error = TRUE]
    ELSE pushEvent([g EXCEPT !.state = {"longpress"}, !.longpress = FALSE], "gesturestart")

\* pinch: the distance of the touches changed more than their place.
twoTouchTimeout(g, pinch) ==
    LET h == [g EXCEPT !.state = {IF pinch THEN "pinch" ELSE "twodrag"}, !.twoTouch = "fired"]
    IN  IF g.tracked = <<>> THEN [g EXCEPT !.error = TRUE]
        ELSE pushEvent(pushEvent(h, "gesturestart"), "gesturemove")

detach(g) == [g EXCEPT !.longpress = FALSE, !.twoTouch = "off"]
==============================================================================
