------------------------------- MODULE Display -------------------------------
(***************************************************************************)
(* The render queue of noVNC's Display (core/display.js).  An action that  *)
(* needs nothing draws at once when nothing is queued; an image, a video   *)
(* frame and all that comes after one wait in the queue.  The operators    *)
(* below are the methods, from a display to a display.                     *)
(***************************************************************************)
EXTENDS Integers, Sequences

\* q: the queued actions.  id: the number of the action in the order of the
\* calls.  state: "ready", "loading", or "broken", an image that came out with
\* other dimensions than its rectangle.  listening: _scanRenderQ runs when it
\* is ready.  old: it was queued when the update that is read now began.
\* flush: the promise of flush(): none, waiting, or resolved.
\* last, next: the number of the last action drawn and of the next one called.
EmptyDisplay == [q |-> <<>>, flush |-> "none", last |-> 0, next |-> 1]

Action(d, state) == [id |-> d.next, state |-> state, listening |-> FALSE, old |-> FALSE]

\* The numbers start again when all was drawn in order.
Normal(d) == IF d.q = <<>> /\ d.next = d.last + 1
             THEN [d EXCEPT !.last = 0, !.next = 1] ELSE d

\* How many actions at the head of the queue can be drawn.
Ready(q) == CHOOSE n \in 0..Len(q) : /\ \A k \in 1..n : q[k].state = "ready"
                                     /\ n < Len(q) => q[n + 1].state # "ready"

scanRenderQ(d) ==
    LET n == Ready(d.q)
        rest == SubSeq(d.q, n + 1, Len(d.q))
    IN  Normal([d EXCEPT
            !.last = IF n = 0 THEN @ ELSE d.q[n].id,
            !.q = IF rest # <<>> /\ rest[1].state = "loading"
                  THEN [rest EXCEPT ![1].listening = TRUE] ELSE rest,
            !.flush = IF rest = <<>> /\ @ = "waiting" THEN "resolved" ELSE @])

renderQPush(d, state) ==
    LET e == [d EXCEPT !.q = Append(@, Action(d, state)), !.next = @ + 1]
    IN  IF Len(e.q) = 1 THEN scanRenderQ(e) ELSE e

\* A mutant: what needs no picture never waits.
drawAtOnce(d) == Normal([d EXCEPT !.last = d.next, !.next = @ + 1])

\* At once when nothing is queued.
draw(d) ==
    IF d.q # <<>> THEN renderQPush(d, "ready")
    ELSE Normal([d EXCEPT !.last = d.next, !.next = @ + 1])

fillRect(d) == draw(d)
copyImage(d) == draw(d)
blitImage(d) == draw(d)
flip(d) == draw(d)

\* imageRect and videoFrame; state is how long the picture takes.
imageRect(d, area, state) == IF area = 0 THEN d ELSE renderQPush(d, state)
videoFrame(d) == renderQPush(d, "loading")

pending(d) == d.q # <<>>

flush(d) == [d EXCEPT !.flush = "waiting"]

\* The picture of the k-th action of the queue is there.
Loaded(d, k) ==
    LET e == [d EXCEPT !.q[k].state = "ready"]
    IN  IF d.q[k].listening THEN scanRenderQ(e) ELSE e

\* A new update begins.
Age(d) == [d EXCEPT !.q = [k \in 1..Len(d.q) |-> [d.q[k] EXCEPT !.old = TRUE]]]

\* The actions are drawn in the order of the calls, and none is left out.
DrawnInOrder(d) ==
    /\ \A k \in 1..Len(d.q) : d.q[k].id = d.last + k
    /\ d.next = d.last + Len(d.q) + 1
==============================================================================
