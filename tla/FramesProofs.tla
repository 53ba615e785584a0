---------------------------- MODULE FramesProofs ----------------------------
(***************************************************************************)
(* Theorems about the connection of noVNC.                                 *)
(*                                                                         *)
(* The first part is about the render queue and the updates drawn through  *)
(* it, for every update and every message that a server may send, well     *)
(* formed or not.  Of the handshake only this matters, that it leaves fb   *)
(* alone.  First come lemmas about the methods of Display, one for each;   *)
(* then what the calls in rfb.js and in the decoders make of them; then    *)
(* the steps.                                                              *)
(*                                                                         *)
(* The second part is about the stream: a client is in step with a server  *)
(* that keeps to the protocol (GrammarAssumption), and there is always a   *)
(* request on its way, however the stream is cut into deliveries.          *)
(*                                                                         *)
(* During the handshake, Agree says what the fields that have not been     *)
(* read may be, given what the client has agreed to and what the server    *)
(* waits for; each handler, and each answer of the server, keeps it.       *)
(* Afterwards the stream may be read to its end from where the client      *)
(* stands (Readable): there is a set of positions, closed under reading    *)
(* one item, which holds the client's own.  Each handler and each round of *)
(* a decoder's loop waits or takes just the item it stands before, and a   *)
(* message that the server says goes behind what it has said.              *)
(***************************************************************************)
EXTENDS Grammar, TLAPS, WellFoundedInduction, SequenceTheorems

------------------------------------------------------------------------------
(* The display: definitions.                                               *)

Actions == [id : Int, state : {"ready", "loading", "broken"}, listening : BOOLEAN, old : BOOLEAN]
Displays == [q : Seq(Actions), flush : {"none", "waiting", "resolved"}, last : Int, next : Int]

\* A display with nothing drawn out of turn.
Orderly(d) == d \in Displays /\ DrawnInOrder(d)

\* Nothing of an earlier update is queued.
NoneOld(d) == \A k \in 1..Len(d.q) : ~d.q[k].old

\* What a method may make of the display d: the promise of flush() is resolved
\* when, and only when, the queue is empty, and no action becomes old.
Follows(d, e) ==
    /\ Orderly(e)
    /\ NoneOld(d) => NoneOld(e)
    /\ d.flush = "none" => e.flush = "none"
    /\ d.flush = "waiting" => e.flush = "waiting" \/ (e.flush = "resolved" /\ e.q = <<>>)

\* What holds of the update and its display between two calls.
Regular(f) ==
    /\ {"rects", "flushing", "disp"} \subseteq DOMAIN f
    /\ Orderly(f.disp)
    /\ f.flushing \in BOOLEAN
    /\ f.flushing <=> f.disp.flush # "none"
    /\ f.disp.flush = "resolved" => f.disp.q = <<>>

FramesIInv == Regular(fb) /\ OneUpdateQueued

\* What the decoders rely on.
Decoding(f) == Regular(f) /\ ~f.flushing /\ NoneOld(f.disp)

------------------------------------------------------------------------------
(* The display.                                                            *)

Below == {p \in Nat \X Nat : p[1] < p[2]}

\* A set of naturals has a least element.
LEMMA Least == ASSUME NEW T, T \subseteq Nat, T # {} PROVE \E x \in T : \A y \in T : x <= y
<1>0. IsWellFoundedOn(Below, Nat)
  BY NatLessThanWellFounded DEF OpToRel, Below
<1>1. PICK x \in T : \A y \in T : ~ (<<y, x>> \in Below)
  BY <1>0, WFMin
<1>2. ASSUME NEW y \in T PROVE x <= y
  <2>1. <<y, x>> \in Nat \X Nat /\ <<y, x>>[1] = y /\ <<y, x>>[2] = x
    OBVIOUS
  <2>2. ~ (y < x)
    BY <1>1, <2>1 DEF Below
  <2>. QED BY <2>2
<1>. QED BY <1>2

\* There is a first action that cannot be drawn, or the whole queue can (_scanRenderQ).
LEMMA ReadyIs ==
  ASSUME NEW q \in Seq(Actions)
  PROVE  /\ Ready(q) \in 0..Len(q)
         /\ \A k \in 1..Ready(q) : q[k].state = "ready"
         /\ Ready(q) < Len(q) => q[Ready(q) + 1].state # "ready"
<1>. DEFINE Waiting == {n \in 0..Len(q) : n < Len(q) => q[n + 1].state # "ready"}
<1>1. Waiting \subseteq Nat /\ Len(q) \in Waiting
  OBVIOUS
<1>2. PICK n \in Waiting : \A m \in Waiting : n <= m
  BY <1>1, Least
<1>3. n \in 0..Len(q) /\ (n < Len(q) => q[n + 1].state # "ready")
  OBVIOUS
<1>4. ASSUME NEW k \in 1..n PROVE q[k].state = "ready"
  <2>1. k - 1 \in 0..Len(q) /\ k - 1 \notin Waiting
    BY <1>2, <1>3
  <2>. QED BY <2>1
<1>. QED BY <1>3, <1>4 DEF Ready

\* Starting the numbers again changes nothing else.
LEMMA NormalFits ==
    ASSUME NEW d, Orderly(d)
    PROVE  Orderly(Normal(d)) /\ Normal(d).q = d.q /\ Normal(d).flush = d.flush
<1>. USE DEF Orderly
<1>1. CASE d.q = <<>> /\ d.next = d.last + 1
  <2>1. Normal(d) = [d EXCEPT !.last = 0, !.next = 1]
    BY <1>1 DEF Normal
  <2>2. /\ Normal(d) \in Displays /\ Normal(d).q = d.q /\ Normal(d).flush = d.flush
        /\ Normal(d).last = 0 /\ Normal(d).next = 1
    <3>1. 0 \in Int /\ 1 \in Int
      OBVIOUS
    <3>. QED BY <2>1, <3>1, Zenon DEF Displays
  <2>. QED BY <1>1, <2>2 DEF DrawnInOrder
<1>2. CASE ~(d.q = <<>> /\ d.next = d.last + 1)
  BY <1>2 DEF Normal
<1>. QED BY <1>1, <1>2

\* _scanRenderQ takes actions from the head of the queue only.
LEMMA ScanFits == ASSUME NEW d, Orderly(d) PROVE Follows(d, scanRenderQ(d))
<1>. DEFINE n == Ready(d.q)
            rest == SubSeq(d.q, n + 1, Len(d.q))
            new == IF rest # <<>> /\ rest[1].state = "loading"
                   THEN [rest EXCEPT ![1].listening = TRUE] ELSE rest
            f == [d EXCEPT !.last = IF n = 0 THEN @ ELSE d.q[n].id, !.q = new,
                           !.flush = IF rest = <<>> /\ @ = "waiting" THEN "resolved" ELSE @]
<1>1. d \in Displays /\ DrawnInOrder(d)
  BY DEF Orderly
<1>2. n \in 0..Len(d.q) /\ d.q \in Seq(Actions)
  BY <1>1, ReadyIs DEF Displays
<1>3. \A k \in 1..Len(d.q) : d.q[k] \in Actions /\ d.q[k].id \in Int
  <2>1. ASSUME NEW k \in 1..Len(d.q) PROVE d.q[k] \in Actions
    BY <1>2, ElementOfSeq
  <2>2. \A a \in Actions : a.id \in Int
    BY DEF Actions
  <2>. QED BY <2>1, <2>2
<1>4. /\ rest \in Seq(Actions) /\ Len(rest) = Len(d.q) - n
      /\ \A k \in 1..Len(rest) : rest[k] = d.q[n + k]
  BY <1>2
<1>5. /\ new \in Seq(Actions) /\ Len(new) = Len(rest)
      /\ \A k \in 1..Len(new) : new[k].id = rest[k].id /\ new[k].old = rest[k].old
      /\ rest = <<>> => new = <<>>
  <2>1. CASE rest # <<>> /\ rest[1].state = "loading"
    <3>0. 1 \in 1..Len(rest) /\ rest[1] \in Actions
      BY <2>1, <1>4
    <3>. DEFINE first == [rest[1] EXCEPT !.listening = TRUE]
    <3>1. first \in Actions /\ first.id = rest[1].id /\ first.old = rest[1].old
      BY <3>0 DEF Actions
    <3>2. new = [rest EXCEPT ![1] = first]
      BY <2>1
    <3>. HIDE DEF new, rest, first
    <3>3. /\ new \in Seq(Actions) /\ Len(new) = Len(rest)
          /\ \A j \in 1..Len(rest) : new[j] = IF j = 1 THEN first ELSE rest[j]
      BY <1>1, <3>0, <3>1, <3>2, <1>4, ExceptSeq
    <3>. QED BY <1>1, <2>1, <3>1, <3>3
  <2>2. CASE ~(rest # <<>> /\ rest[1].state = "loading")
    BY <1>1, <2>2, <1>4
  <2>. QED BY <1>1, <2>1, <2>2
<1>. HIDE DEF new, n, rest
<1>6. f \in Displays
  <2>1. n # 0 => d.q[n].id \in Int
    BY <1>1, <1>2, <1>3
  <2>. QED BY <1>1, <1>2, <1>5, <2>1 DEF Displays
<1>7. f.q = new /\ f.next = d.next /\ f.last = d.last + n
  BY <1>1, <1>2 DEF Displays, DrawnInOrder
<1>8. DrawnInOrder(f)
  <2>1. ASSUME NEW k \in 1..Len(new) PROVE new[k].id = f.last + k
    <3>1. k \in 1..Len(rest) /\ n + k \in 1..Len(d.q) /\ new[k].id = d.q[n + k].id
      BY <1>1, <1>2, <1>4, <1>5
    <3>2. new[k].id = d.last + (n + k)
      BY <1>1, <3>1 DEF DrawnInOrder
    <3>. QED BY <1>1, <3>1, <3>2, <1>2, <1>7 DEF Displays
  <2>. QED BY <1>1, <1>2, <1>4, <1>5, <1>7, <2>1 DEF DrawnInOrder, Displays
<1>9. NoneOld(d) => NoneOld(f)
  <2>1. ASSUME NoneOld(d), NEW k \in 1..Len(new) PROVE ~new[k].old
    <3>1. k \in 1..Len(rest) /\ n + k \in 1..Len(d.q) /\ new[k].old = d.q[n + k].old
      BY <1>1, <1>2, <1>4, <1>5
    <3>. QED BY <2>1, <3>1 DEF NoneOld
  <2>. QED BY <1>7, <2>1 DEF NoneOld
<1>10. /\ d.flush = "none" => f.flush = "none"
       /\ d.flush = "waiting" => f.flush = "waiting" \/ (f.flush = "resolved" /\ new = <<>>)
  BY <1>1, <1>5 DEF Displays
<1>11. scanRenderQ(d) = Normal(f)
  BY DEF scanRenderQ, new, n, rest
<1>. HIDE DEF f
<1>12. Orderly(Normal(f)) /\ Normal(f).q = f.q /\ Normal(f).flush = f.flush
  BY <1>6, <1>8, NormalFits DEF Orderly
<1>. DEFINE g == scanRenderQ(d)
<1>13. Orderly(g) /\ g.q = new /\ g.flush = f.flush
  BY <1>7, <1>11, <1>12
<1>. HIDE DEF g
<1>14. NoneOld(d) => NoneOld(g)
  BY <1>7, <1>9, <1>13 DEF NoneOld
<1>15. Follows(d, g)
  BY <1>10, <1>13, <1>14 DEF Follows
<1>. QED  BY <1>15 DEF g

\* _renderQPush: the action comes last, and is drawn at once when it is alone.
LEMMA PushFits ==
    ASSUME NEW d, Orderly(d), NEW state \in {"ready", "loading", "broken"}
    PROVE  Follows(d, renderQPush(d, state))
<1>. DEFINE a == Action(d, state)
            e == [d EXCEPT !.q = Append(@, a), !.next = @ + 1]
<1>0. d \in Displays /\ DrawnInOrder(d) /\ d.q \in Seq(Actions) /\ d.next \in Int /\ d.last \in Int
  BY DEF Orderly, Displays
<1>1. a \in Actions /\ a.id = d.next /\ a.old = FALSE
  BY <1>0 DEF Action, Actions
<1>. HIDE DEF a
<1>2. /\ e \in Displays /\ e.q = Append(d.q, a) /\ e.next = d.next + 1
      /\ e.last = d.last /\ e.flush = d.flush
  <2>1. d.next + 1 \in Int /\ Append(d.q, a) \in Seq(Actions)
    BY <1>0, <1>1
  <2>. QED  BY <1>0, <2>1, Zenon DEF Displays
<1>3. /\ Len(e.q) = Len(d.q) + 1
      /\ \A k \in 1..Len(e.q) : e.q[k] = IF k = Len(d.q) + 1 THEN a ELSE d.q[k]
  BY <1>0, <1>1, <1>2
<1>4. DrawnInOrder(e)
  <2>1. ASSUME NEW k \in 1..Len(e.q) PROVE e.q[k].id = e.last + k
    <3>1. CASE k = Len(d.q) + 1
      BY <1>0, <1>1, <1>2, <1>3, <3>1 DEF DrawnInOrder
    <3>2. CASE k # Len(d.q) + 1
      <4>1. k \in 1..Len(d.q) /\ e.q[k] = d.q[k]
        BY <1>0, <1>3, <3>2
      <4>. QED  BY <1>0, <1>2, <4>1 DEF DrawnInOrder
    <3>. QED  BY <3>1, <3>2
  <2>2. e.next = e.last + Len(e.q) + 1
    BY <1>0, <1>2, <1>3 DEF DrawnInOrder
  <2>. QED  BY <2>1, <2>2 DEF DrawnInOrder
<1>5. NoneOld(d) => NoneOld(e)
  <2>1. ASSUME NoneOld(d), NEW k \in 1..Len(e.q) PROVE ~e.q[k].old
    <3>1. k = Len(d.q) + 1 \/ k \in 1..Len(d.q)
      BY <1>0, <1>3
    <3>. QED  BY <1>1, <1>3, <2>1, <3>1 DEF NoneOld
  <2>. QED  BY <2>1 DEF NoneOld
<1>6. renderQPush(d, state) = IF Len(e.q) = 1 THEN scanRenderQ(e) ELSE e
  BY DEF renderQPush, a
<1>. HIDE DEF e
<1>7. Orderly(e)
  BY <1>2, <1>4 DEF Orderly
<1>8. Follows(e, scanRenderQ(e))
  BY <1>7, ScanFits
<1>. QED  BY <1>2, <1>5, <1>6, <1>7, <1>8 DEF Follows

\* What needs no picture is drawn at once when nothing is queued, and waits else.
LEMMA DrawFits == ASSUME NEW d, Orderly(d) PROVE Follows(d, draw(d))
<1>1. CASE d.q # <<>>
  BY <1>1, PushFits DEF draw
<1>2. CASE d.q = <<>>
  <2>. DEFINE e == [d EXCEPT !.last = d.next, !.next = @ + 1]
  <2>0. d \in Displays /\ d.next \in Int
    BY DEF Orderly, Displays
  <2>1. e \in Displays /\ e.q = <<>> /\ e.flush = d.flush /\ e.last = d.next /\ e.next = d.next + 1
    <3>1. d.next + 1 \in Int
      BY <2>0
    <3>. QED  BY <1>2, <2>0, <3>1, Zenon DEF Displays
  <2>2. draw(d) = Normal(e)
    BY <1>2 DEF draw
  <2>. HIDE DEF e
  <2>3. Orderly(e)
    BY <2>0, <2>1 DEF Orderly, DrawnInOrder
  <2>4. Orderly(Normal(e)) /\ Normal(e).q = <<>> /\ Normal(e).flush = d.flush
    BY <2>1, <2>3, NormalFits
  <2>. QED  BY <2>2, <2>4 DEF Follows, NoneOld
<1>. QED  BY <1>1, <1>2

\* An image or a picture of a video waits until it has loaded.
LEMMA PictureFits ==
    ASSUME NEW d, Orderly(d)
    PROVE  /\ \A area, state : state \in LoadResults => Follows(d, imageRect(d, area, state))
           /\ Follows(d, videoFrame(d))
<1>1. Follows(d, d)
  BY DEF Follows
<1>. QED  BY <1>1, PushFits, FramesAssumption DEF imageRect, videoFrame

\* The picture of a queued action is there.
LEMMA LoadedFits ==
    ASSUME NEW d, Orderly(d), NEW k \in 1..Len(d.q)
    PROVE  Follows(d, Loaded(d, k))
<1>. DEFINE a == [d.q[k] EXCEPT !.state = "ready"]
            e == [d EXCEPT !.q[k].state = "ready"]
<1>0. d \in Displays /\ DrawnInOrder(d) /\ d.q \in Seq(Actions) /\ d.q[k] \in Actions
  <2>1. d \in Displays /\ DrawnInOrder(d) /\ d.q \in Seq(Actions)
    BY DEF Orderly, Displays
  <2>. QED  BY <2>1, ElementOfSeq
<1>1. a \in Actions /\ a.id = d.q[k].id /\ a.old = d.q[k].old
  BY <1>0 DEF Actions
<1>2. e = [d EXCEPT !.q = [d.q EXCEPT ![k] = a]]
  OBVIOUS
<1>. HIDE DEF a, e
<1>3. /\ [d.q EXCEPT ![k] = a] \in Seq(Actions) /\ Len([d.q EXCEPT ![k] = a]) = Len(d.q)
      /\ \A j \in 1..Len(d.q) : [d.q EXCEPT ![k] = a][j] = IF j = k THEN a ELSE d.q[j]
  BY <1>0, <1>1, ExceptSeq
<1>4. /\ e \in Displays /\ e.q = [d.q EXCEPT ![k] = a]
      /\ e.flush = d.flush /\ e.last = d.last /\ e.next = d.next
  BY <1>0, <1>2, <1>3 DEF Displays
<1>5. Len(e.q) = Len(d.q) /\ \A j \in 1..Len(d.q) : e.q[j].id = d.q[j].id /\ e.q[j].old = d.q[j].old
  BY <1>1, <1>3, <1>4
<1>6. Orderly(e) /\ (NoneOld(d) => NoneOld(e))
  BY <1>0, <1>4, <1>5 DEF Orderly, DrawnInOrder, NoneOld
<1>7. Follows(e, scanRenderQ(e))
  BY <1>6, ScanFits
<1>8. Loaded(d, k) = IF d.q[k].listening THEN scanRenderQ(e) ELSE e
  BY DEF Loaded, e
<1>. QED  BY <1>0, <1>4, <1>6, <1>7, <1>8 DEF Follows

\* A picture that no queued action waits for changes nothing.
LEMMA AnyLoadedFits == ASSUME NEW d, Orderly(d), NEW k PROVE Follows(d, Loaded(d, k))
<1>1. CASE k \in 1..Len(d.q)
  BY <1>1, LoadedFits
<1>2. CASE k \notin 1..Len(d.q)
  <2>. DEFINE e == [d EXCEPT !.q[k].state = "ready"]
  <2>1. d \in Displays /\ d.q \in Seq(Actions) /\ DOMAIN d.q = 1..Len(d.q)
    BY DEF Orderly, Displays
  <2>2. [d.q EXCEPT ![k].state = "ready"] = d.q
    BY <1>2, <2>1
  <2>3. e = d
    BY <2>1, <2>2 DEF Displays
  <2>4. Loaded(d, k) = IF d.q[k].listening THEN scanRenderQ(e) ELSE e
    BY DEF Loaded
  <2>. HIDE DEF e
  <2>5. Follows(d, d)
    BY DEF Follows
  <2>. QED  BY <2>3, <2>4, <2>5, ScanFits
<1>. QED  BY <1>1, <1>2

\* A new update makes what is queued old, and changes nothing else.
LEMMA AgeFits ==
    ASSUME NEW d, Orderly(d)
    PROVE  Orderly(Age(d)) /\ Age(d).flush = d.flush /\ (Age(d).q = <<>> <=> d.q = <<>>)
<1>. DEFINE q == [k \in 1..Len(d.q) |-> [d.q[k] EXCEPT !.old = TRUE]]
<1>0. d \in Displays /\ DrawnInOrder(d) /\ d.q \in Seq(Actions)
  BY DEF Orderly, Displays
<1>1. ASSUME NEW k \in 1..Len(d.q) PROVE q[k] \in Actions /\ q[k].id = d.q[k].id
  <2>1. d.q[k] \in Actions
    BY <1>0, ElementOfSeq
  <2>. QED  BY <2>1 DEF Actions
<1>2. q \in Seq(Actions) /\ Len(q) = Len(d.q) /\ (q = <<>> <=> d.q = <<>>)
  <2>1. q \in Seq(Actions) /\ Len(q) = Len(d.q)
    <3>1. q \in [1..Len(d.q) -> Actions]
      BY <1>1, Zenon
    <3>2. Len(d.q) \in Nat
      BY <1>0
    <3>. HIDE DEF q
    <3>. QED  BY <3>1, <3>2
  <2>. HIDE DEF q
  <2>. QED  BY <1>0, <2>1, EmptySeq
<1>3. Age(d) = [d EXCEPT !.q = q]
  BY DEF Age
<1>. HIDE DEF q
<1>4. /\ Age(d) \in Displays /\ Age(d).q = q
      /\ Age(d).flush = d.flush /\ Age(d).last = d.last /\ Age(d).next = d.next
  BY <1>0, <1>2, <1>3 DEF Displays
<1>. QED  BY <1>0, <1>1, <1>2, <1>4 DEF Orderly, DrawnInOrder

------------------------------------------------------------------------------
(* The update that is decoded.                                             *)

\* Where the decoders are at work, between the calls and within them.
LEMMA AtWork == ASSUME FramesIInv, fb.rects > 0, ~fb.flushing PROVE Decoding(fb)
BY DEF FramesIInv, OneUpdateQueued, Decoding, NoneOld

\* What a decoder keeps for itself does not matter to the display.
LEMMA SameDisplay ==
    ASSUME NEW f, Decoding(f), NEW g, DOMAIN g = DOMAIN f, g.disp = f.disp, g.flushing = f.flushing
    PROVE  Decoding(g)
BY DEF Decoding, Regular

\* Drawing keeps the display fit for the next call.
LEMMA Redrawn ==
    ASSUME NEW f, Decoding(f), NEW e, Follows(f.disp, e)
    PROVE  Decoding([f EXCEPT !.disp = e])
BY DEF Decoding, Regular, Follows

LEMMA DrawingFits ==
    ASSUME NEW f, Decoding(f)
    PROVE  /\ Decoding(Filled(f)) /\ Decoding(Blitted(f))
           /\ Decoding([f EXCEPT !.disp = copyImage(@)])
           /\ Decoding([f EXCEPT !.disp = flip(@)])
           /\ Decoding([f EXCEPT !.disp = videoFrame(@)])
           /\ \A area, state : state \in LoadResults => Decoding([f EXCEPT !.disp = imageRect(@, area, state)])
<1>1. Orderly(f.disp)
  BY DEF Decoding, Regular
<1>. QED  BY <1>1, DrawFits, PictureFits, Redrawn DEF Filled, Blitted, fillRect, blitImage, copyImage, flip

\* A regular state in which nothing old is queued.
LEMMA Enough == ASSUME NEW f, Decoding(f), fb' = f PROVE FramesIInv'
BY DEF FramesIInv, OneUpdateQueued, Decoding, NoneOld

\* Between two rounds of a decoder, and at the end of a rectangle.
LEMMA GoOnFits == ASSUME NEW fields, NEW f, Decoding(f), GoOn(fields, f) PROVE FramesIInv'
BY Enough DEF GoOn

LEMMA FinishFits == ASSUME NEW f, Decoding(f), Finish(f) PROVE FramesIInv'
BY Enough, DrawingFits DEF Finish

LEMMA DoneFits == ASSUME NEW fields, NEW f, Decoding(f), Done(fields, f) PROVE FramesIInv'
<1>. DEFINE g == [f EXCEPT !.rects = @ - 1, !.rect = NoRect]
<1>1. Decoding(g)
  <2>1. DOMAIN g = DOMAIN f /\ g.disp = f.disp /\ g.flushing = f.flushing
    BY DEF Decoding, Regular
  <2>. QED  BY <2>1, SameDisplay
<1>. QED  BY <1>1, Enough, FinishFits DEF Done

LEMMA DoneSendingFits == ASSUME NEW fields, NEW m, Decoding(fb), DoneSending(fields, m) PROVE FramesIInv'
<1>. DEFINE g == [fb EXCEPT !.rects = @ - 1, !.rect = NoRect]
<1>1. Decoding(g)
  <2>1. DOMAIN g = DOMAIN fb /\ g.disp = fb.disp /\ g.flushing = fb.flushing
    BY DEF Decoding, Regular
  <2>. QED  BY <2>1, SameDisplay
<1>2. fb' = g \/ fb' = [g EXCEPT !.disp = flip(@)]
  BY DEF DoneSending
<1>. QED  BY <1>1, <1>2, Enough, DrawingFits

\* Waiting for data, and giving up, leave the update as it is.
LEMMA UnchangedFits == ASSUME FramesIInv, fb' = fb PROVE FramesIInv'
BY DEF FramesIInv, OneUpdateQueued

LEMMA WaitFits == ASSUME FramesIInv, NEW n, NEW back, WaitFor(n, back) PROVE FramesIInv'
BY UnchangedFits DEF WaitFor

------------------------------------------------------------------------------
(* The steps.                                                              *)

\* The header of an update: the only place where reading begins to pause.
LEMMA framebufferUpdateFits == ASSUME FramesIInv, framebufferUpdate PROVE FramesIInv'
<1>. DEFINE f == [fb EXCEPT !.rects = rQ[2].v, !.disp = Age(@)]
<1>0. Regular(fb) /\ ~fb.flushing /\ fb.disp.flush = "none"
  BY DEF FramesIInv, framebufferUpdate, Message, Handling, Regular
<1>1. f.disp = Age(fb.disp) /\ DOMAIN f = DOMAIN fb /\ f.flushing = fb.flushing
  BY <1>0 DEF Regular
<1>2. Orderly(f.disp) /\ f.disp.flush = "none" /\ (f.disp.q = <<>> <=> fb.disp.q = <<>>)
  BY <1>0, <1>1, AgeFits DEF Regular
<1>3. CASE rQwait(1, 1)
  BY <1>3, WaitFits DEF framebufferUpdate
<1>4. CASE ~rQwait(1, 1) /\ pending(fb.disp)
  <2>1. fb' = [f EXCEPT !.flushing = TRUE, !.forgot = @ \/ rQ[2].v = 0, !.disp = flush(@)]
    BY <1>4 DEF framebufferUpdate
  <2>. HIDE DEF f
  <2>2. fb'.flushing = TRUE /\ fb'.disp = flush(f.disp) /\ DOMAIN fb' = DOMAIN fb
    BY <1>0, <1>1, <2>1 DEF Regular
  <2>3. Orderly(flush(f.disp)) /\ flush(f.disp).flush = "waiting"
    BY <1>2 DEF Orderly, Displays, DrawnInOrder, flush
  <2>. QED  BY <1>0, <2>2, <2>3 DEF FramesIInv, Regular, OneUpdateQueued
<1>5. CASE ~rQwait(1, 1) /\ ~pending(fb.disp)
  <2>1. NoneOld(f.disp)
    BY <1>2, <1>5 DEF NoneOld, pending
  <2>2. Decoding(f)
    BY <1>0, <1>1, <1>2, <2>1 DEF Decoding, Regular
  <2>3. Finish(f) \/ fb' = f
    BY <1>5 DEF framebufferUpdate
  <2>. HIDE DEF f
  <2>. QED  BY <2>2, <2>3, FinishFits, Enough
<1>. QED  BY <1>3, <1>4, <1>5

\* The pause ends: nothing is queued then.
LEMMA FlushedFits == ASSUME FramesIInv, Flushed PROVE FramesIInv'
<1>0. Regular(fb) /\ fb.disp.flush = "resolved" /\ fb.disp.q = <<>>
  BY DEF FramesIInv, Flushed, Regular
<1>1. fb' = [fb EXCEPT !.flushing = FALSE, !.disp.flush = "none"]
  BY DEF Flushed
<1>2. /\ DOMAIN fb' = DOMAIN fb /\ fb'.flushing = FALSE
      /\ fb'.disp = [fb.disp EXCEPT !.flush = "none"]
  BY <1>0, <1>1 DEF Regular
<1>3. Orderly(fb'.disp) /\ fb'.disp.flush = "none" /\ fb'.disp.q = <<>>
  BY <1>0, <1>2 DEF Regular, Orderly, Displays, DrawnInOrder
<1>4. Regular(fb')
  BY <1>0, <1>2, <1>3 DEF Regular
<1>5. NoneOld(fb'.disp)
  BY <1>3 DEF NoneOld
<1>. QED  BY <1>2, <1>4, <1>5, Enough DEF Decoding

\* A picture loads between two turns, in the middle of an update or of a pause.
LEMMA PicturesFit == ASSUME FramesIInv, Pictures PROVE FramesIInv'
<1>0. Regular(fb) /\ fb.disp.flush # "resolved" /\ Orderly(fb.disp)
  BY DEF FramesIInv, Pictures, Others, Regular
<1>1. ASSUME NEW e, Follows(fb.disp, e), fb'.disp = e, DOMAIN fb' = DOMAIN fb,
             fb'.flushing = fb.flushing, fb'.rects = fb.rects
      PROVE  FramesIInv'
  <2>1. fb.disp.flush \in {"none", "waiting"}
    BY <1>0 DEF Orderly, Displays
  <2>2. Regular(fb')
    BY <1>0, <1>1, <2>1 DEF Regular, Follows
  <2>3. OneUpdateQueued'
    BY <1>1 DEF FramesIInv, OneUpdateQueued, Follows, NoneOld
  <2>. QED  BY <2>2, <2>3 DEF FramesIInv
<1>2. CASE ImageLoads
  <2>1. PICK k \in 1..Len(fb.disp.q) : fb' = [fb EXCEPT !.disp = Loaded(@, k)]
    BY <1>2 DEF ImageLoads
  <2>. QED  BY <1>0, <1>1, <2>1, AnyLoadedFits DEF Regular
<1>3. CASE handleFrame
  <2>1. PICK which \in {"live", "dead"} :
           LET f == [fb EXCEPT !.video[which] = Tail(@)]
               id == Head(fb.video[which])
               k == CHOOSE j \in 1..Len(fb.disp.q) : fb.disp.q[j].id = id
           IN  fb' = IF id = 0 THEN f ELSE [f EXCEPT !.disp = Loaded(@, k)]
    BY <1>3 DEF handleFrame
  <2>. DEFINE f == [fb EXCEPT !.video[which] = Tail(@)]
              k == CHOOSE j \in 1..Len(fb.disp.q) : fb.disp.q[j].id = Head(fb.video[which])
  <2>2. f.disp = fb.disp /\ f.flushing = fb.flushing /\ f.rects = fb.rects /\ DOMAIN f = DOMAIN fb
    BY <1>0 DEF Regular
  <2>3. fb' = f \/ fb' = [f EXCEPT !.disp = Loaded(@, k)]
    BY <2>1
  <2>. HIDE DEF f, k
  <2>4. Follows(fb.disp, fb.disp)
    BY <1>0 DEF Follows
  <2>5. Follows(fb.disp, Loaded(fb.disp, k))
    BY <1>0, AnyLoadedFits
  <2>. QED  BY <1>0, <1>1, <2>2, <2>3, <2>4, <2>5 DEF Regular
<1>. QED  BY <1>2, <1>3 DEF Pictures

\* The header of a rectangle, and the rectangles that are not drawn.
LEMMA HeadersFit ==
    ASSUME FramesIInv, Decoding(fb),
           \/ rectHeader \/ handleLastRect \/ handleFlags \/ handleDesktopSize
           \/ handleExtendedDesktopSize \/ handleCursor \/ handleVMwareCursor
           \/ handleDesktopName \/ handleLedEvent
    PROVE  FramesIInv'
<1>1. CASE rectHeader
  <2>1. Decoding([fb EXCEPT !.rect = rQ[1]])
    BY SameDisplay DEF Decoding, Regular
  <2>. QED  BY <1>1, <2>1, WaitFits, GoOnFits DEF rectHeader
<1>2. CASE handleLastRect
  <2>1. Decoding([fb EXCEPT !.rects = 1])
    BY SameDisplay DEF Decoding, Regular
  <2>. QED  BY <1>2, <2>1, DoneFits DEF handleLastRect
<1>3. CASE handleFlags
  BY <1>3, DoneFits DEF handleFlags
<1>4. CASE handleDesktopSize
  BY <1>4, DoneSendingFits DEF handleDesktopSize
<1>5. CASE handleExtendedDesktopSize
  BY <1>5, WaitFits, DoneSendingFits DEF handleExtendedDesktopSize
<1>6. CASE handleCursor
  BY <1>6, WaitFits, DoneFits DEF handleCursor
<1>7. CASE handleVMwareCursor
  BY <1>7, WaitFits, DoneFits DEF handleVMwareCursor
<1>8. CASE handleDesktopName
  BY <1>8, WaitFits, DoneFits DEF handleDesktopName
<1>9. CASE handleLedEvent
  BY <1>9, WaitFits, DoneFits DEF handleLedEvent
<1>. QED  BY <1>1, <1>2, <1>3, <1>4, <1>5, <1>6, <1>7, <1>8, <1>9

\* The decoders that fill and copy.
LEMMA SimpleDecodersFit ==
    ASSUME FramesIInv, Decoding(fb),
           rawDecode \/ copyRectDecode \/ rreDecode \/ hextileDecode \/ zlibDecode \/ zrleDecode
    PROVE  FramesIInv'
<1>0. {"disp", "flushing"} \subseteq DOMAIN fb
  BY DEF Decoding, Regular
<1>1. ASSUME NEW n PROVE Decoding([fb EXCEPT !.left = n])
  BY <1>0, SameDisplay
<1>2. CASE rawDecode
  <2>. DEFINE left == IF fb.left = 0 THEN Area ELSE fb.left
              f == Blitted([fb EXCEPT !.left = left - 1])
  <2>1. Decoding(f) /\ Decoding([fb EXCEPT !.left = left])
    BY <1>1, DrawingFits
  <2>2. \/ Done(<<>>, fb) \/ fb' = [fb EXCEPT !.left = left]
        \/ Done(<<"line">>, f) \/ GoOn(<<"line">>, f)
    BY <1>2 DEF rawDecode
  <2>. HIDE DEF f, left
  <2>. QED  BY <2>1, <2>2, DoneFits, GoOnFits, Enough
<1>3. CASE copyRectDecode
  BY <1>3, WaitFits, DoneFits, DrawingFits DEF copyRectDecode
<1>4. CASE rreDecode
  <2>. DEFINE f == Filled([fb EXCEPT !.left = rQ[1].v])
              g == Filled([fb EXCEPT !.left = @ - 1])
  <2>1. Decoding(f) /\ Decoding(g)
    BY <1>1, DrawingFits
  <2>2. \/ WaitFor(0, 0) \/ Done(<<"subrects">>, f) \/ GoOn(<<"subrects">>, f)
        \/ Done(<<"subrect">>, g) \/ GoOn(<<"subrect">>, g)
    BY <1>4 DEF rreDecode
  <2>. HIDE DEF f, g
  <2>. QED  BY <2>1, <2>2, WaitFits, DoneFits, GoOnFits
<1>5. CASE hextileDecode
  <2>. DEFINE left == IF fb.left = 0 THEN Area ELSE fb.left
              sub == rQ[1].v
              g == [fb EXCEPT !.left = left - 1, !.lastsub = sub]
              f == CASE sub = 0 /\ fb.lastsub = 1 -> g
                     [] sub = 0 /\ fb.lastsub # 1 -> Filled(g)
                     [] OTHER -> Blitted(g)
  <2>1. Decoding(g) /\ Decoding([fb EXCEPT !.left = left])
    BY <1>0, <1>1, SameDisplay
  <2>2. \/ Done(<<>>, fb) \/ fb' = [fb EXCEPT !.left = left]
        \/ Done(hextileTile(sub), f) \/ GoOn(hextileTile(sub), f)
    BY <1>5 DEF hextileDecode
  <2>3. f \in {g, Filled(g), Blitted(g)}
    OBVIOUS
  <2>. HIDE DEF f, g, left, sub
  <2>4. Decoding(f)
    BY <2>1, <2>3, DrawingFits
  <2>. QED  BY <2>1, <2>2, <2>4, DoneFits, GoOnFits, Enough
<1>6. ASSUME NEW e, NEW f, Decoding(f), lengthThenData(e, f) PROVE FramesIInv'
  <2>1. Decoding([fb EXCEPT !.len[e] = 1]) /\ Decoding([f EXCEPT !.len[e] = 0])
    BY <1>0, <1>6, SameDisplay DEF Decoding, Regular
  <2>. QED  BY <1>6, <2>1, WaitFits, GoOnFits, DoneFits DEF lengthThenData
<1>7. CASE zlibDecode
  BY <1>6, <1>7, DoneFits, DrawingFits DEF zlibDecode
<1>8. CASE zrleDecode
  <2>1. Decoding(zrleTiles(fb))
    BY DrawingFits DEF zrleTiles
  <2>. QED  BY <1>6, <1>8, <2>1 DEF zrleDecode
<1>. QED  BY <1>2, <1>3, <1>4, <1>5, <1>7, <1>8

\* Tight and TightPNG.
LEMMA tightDecodeFits == ASSUME FramesIInv, Decoding(fb), tightDecode PROVE FramesIInv'
<1>0. {"disp", "flushing"} \subseteq DOMAIN fb
  BY DEF Decoding, Regular
<1>. PICK e \in {enc.Tight, enc.TightPNG} :
        \/ tightControl(e) \/ tightFill(e) \/ tightImage(e)
        \/ tightBasic(e) \/ tightCopyFilter(e) \/ tightPaletteFilter(e) \/ tightGradientFilter(e)
  BY DEF tightDecode
<1>1. ASSUME NEW v
      PROVE  /\ Decoding([fb EXCEPT !.tight[e].ctl = v]) /\ Decoding([fb EXCEPT !.tight[e].len = v])
             /\ Decoding([fb EXCEPT !.tight[e].filter = v]) /\ Decoding([fb EXCEPT !.tight[e].colors = v])
  BY <1>0, SameDisplay
<1>2. ASSUME NEW fields, NEW f, Decoding(f), tightDone(e, fields, f) PROVE FramesIInv'
  <2>1. Decoding([f EXCEPT !.tight[e].ctl = -1, !.tight[e].filter = -1])
    BY <1>2, SameDisplay DEF Decoding, Regular
  <2>. QED  BY <1>2, <2>1, DoneFits DEF tightDone
<1>3. ASSUME NEW f, Decoding(f), tightReadData(e, f) PROVE FramesIInv'
  <2>1. Decoding([f EXCEPT !.tight[e].len = 0])
    BY <1>3, SameDisplay DEF Decoding, Regular
  <2>. QED  BY <1>1, <1>2, <1>3, <2>1, WaitFits, GoOnFits DEF tightReadData
<1>4. ASSUME NEW f, Decoding(f), tightPixels(e, f) PROVE FramesIInv'
  BY <1>2, <1>3, <1>4, WaitFits DEF tightPixels
<1>5. CASE tightControl(e)
  BY <1>1, <1>5, WaitFits, GoOnFits DEF tightControl
<1>6. CASE tightFill(e)
  BY <1>2, <1>6, WaitFits, DrawingFits DEF tightFill
<1>7. CASE tightImage(e)
  BY <1>3, <1>7, UnchangedFits, DrawingFits DEF tightImage, Abort
<1>8. CASE tightBasic(e)
  BY <1>1, <1>8, UnchangedFits, WaitFits, GoOnFits DEF tightBasic, Abort
<1>9. CASE tightCopyFilter(e) \/ tightGradientFilter(e)
  BY <1>4, <1>9, DrawingFits DEF tightCopyFilter, tightGradientFilter
<1>10. CASE tightPaletteFilter(e)
  BY <1>1, <1>4, <1>10, WaitFits, GoOnFits, DrawingFits DEF tightPaletteFilter
<1>. QED  BY <1>5, <1>6, <1>7, <1>8, <1>9, <1>10

\* JPEG files, and the pictures of a video, which are queued before they exist.
LEMMA PictureDecodersFit == ASSUME FramesIInv, Decoding(fb), jpegDecode \/ h264Decode PROVE FramesIInv'
<1>0. {"disp", "flushing"} \subseteq DOMAIN fb
  BY DEF Decoding, Regular
<1>1. CASE jpegDecode
  <2>1. ASSUME NEW v PROVE Decoding([fb EXCEPT !.sof = v])
    BY <1>0, SameDisplay
  <2>2. ASSUME NEW state \in LoadResults
        PROVE  Decoding(jpegImage(state))
    <3>. DEFINE f == [fb EXCEPT !.sof = FALSE]
    <3>1. Decoding(f) /\ f.disp = fb.disp
      BY <1>0, <2>1
    <3>2. jpegImage(state) = [f EXCEPT !.disp = imageRect(@, Area, state)]
      BY DEF jpegImage
    <3>. HIDE DEF f
    <3>3. \A area, s : s \in LoadResults => Decoding([f EXCEPT !.disp = imageRect(f.disp, area, s)])
      BY <3>1, DrawingFits
    <3>. QED  BY <3>2, <3>3
  <2>3. \/ \E n, back : WaitFor(n, back)
        \/ fb' = fb
        \/ GoOn(<<"marker">>, fb)
        \/ \E state \in LoadResults : Done(<<"marker">>, jpegImage(state))
        \/ GoOn(<<"marker", "segmentLength", "segment">>,
                [fb EXCEPT !.sof = @ \/ rQ[1].v = segment.SOF])
    BY <1>1 DEF jpegDecode, Abort
  <2>. QED  BY <2>1, <2>2, <2>3, WaitFits, UnchangedFits, DoneFits, GoOnFits
<1>2. CASE h264Decode
  <2>1. ASSUME NEW v PROVE Decoding([fb EXCEPT !.video = v])
    BY <1>0, SameDisplay
  <2>2. ASSUME NEW v, NEW c
        PROVE  Decoding([fb EXCEPT !.video = v, !.disp = IF c THEN videoFrame(@) ELSE @])
    <3>. DEFINE f == [fb EXCEPT !.video = v]
    <3>1. Decoding(f) /\ f.disp = fb.disp
      BY <1>0, <2>1
    <3>2. [fb EXCEPT !.video = v, !.disp = IF c THEN videoFrame(@) ELSE @]
              = [f EXCEPT !.disp = IF c THEN videoFrame(@) ELSE @]
      OBVIOUS
    <3>3. [f EXCEPT !.disp = f.disp] = f
      OBVIOUS
    <3>. HIDE DEF f
    <3>. QED  BY <3>1, <3>2, <3>3, DrawingFits
  <2>3. \/ \E n, back : WaitFor(n, back)
        \/ \E fields, v, c : Done(fields, [fb EXCEPT !.video = v, !.disp = IF c THEN videoFrame(@) ELSE @])
    BY <1>2 DEF h264Decode
  <2>. QED  BY <2>2, <2>3, WaitFits, DoneFits
<1>. QED  BY <1>1, <1>2

\* The messages that bring no update.
LEMMA MessagesFit ==
    ASSUME FramesIInv,
           \/ handleBell \/ handleServerCutText \/ handleEndOfContinuousUpdates
           \/ handleServerFence \/ handleXvp \/ unexpectedMessage \/ Paused
    PROVE  FramesIInv'
<1>0. Regular(fb)
  BY DEF FramesIInv
<1>1. ASSUME fb'.disp = fb.disp, fb'.flushing = fb.flushing, fb'.rects = fb.rects,
             DOMAIN fb' = DOMAIN fb
      PROVE  FramesIInv'
  BY <1>1 DEF FramesIInv, Regular, OneUpdateQueued
<1>2. CASE handleServerCutText
  <2>1. (\E n, back : WaitFor(n, back)) \/ fb' = [fb EXCEPT !.caps = @ \/ rQ[2].v = 1]
    BY <1>2 DEF handleServerCutText
  <2>. QED  BY <1>0, <1>1, <2>1, WaitFits DEF Regular
<1>3. CASE handleEndOfContinuousUpdates
  <2>1. fb' = [fb EXCEPT !.supportsCont = TRUE, !.cont = ~fb.supportsCont]
    BY <1>3 DEF handleEndOfContinuousUpdates
  <2>. QED  BY <1>0, <1>1, <2>1 DEF Regular
<1>4. CASE handleBell \/ handleServerFence \/ handleXvp \/ unexpectedMessage \/ Paused
  BY <1>4, UnchangedFits, WaitFits
     DEF handleBell, handleServerFence, handleXvp, unexpectedMessage, Paused
<1>. QED  BY <1>2, <1>3, <1>4

LEMMA normalMsgFits == ASSUME FramesIInv, normalMsg PROVE FramesIInv'
<1>. DEFINE Decoders == \/ rectHeader \/ handleLastRect \/ handleFlags \/ handleDesktopSize
                        \/ handleExtendedDesktopSize \/ handleCursor \/ handleVMwareCursor
                        \/ handleDesktopName \/ handleLedEvent
                        \/ rawDecode \/ copyRectDecode \/ rreDecode \/ hextileDecode
                        \/ zlibDecode \/ zrleDecode
                        \/ tightDecode \/ jpegDecode \/ h264Decode
<1>1. CASE Decoders
  <2>1. fb.rects > 0 /\ ~fb.flushing
    BY <1>1 DEF rectHeader, handleLastRect, handleFlags, handleDesktopSize,
       handleExtendedDesktopSize, handleCursor, handleVMwareCursor, handleDesktopName,
       handleLedEvent, rawDecode, copyRectDecode, rreDecode, hextileDecode, zlibDecode,
       zrleDecode, tightDecode, tightControl, tightFill, tightImage, tightBasic,
       tightCopyFilter, tightPaletteFilter, tightGradientFilter, TightStep, jpegDecode,
       h264Decode, Rect, Handling
  <2>2. Decoding(fb)
    BY <2>1, AtWork
  <2>. QED  BY <1>1, <2>2, HeadersFit, SimpleDecodersFit, tightDecodeFits, PictureDecodersFit
<1>2. CASE framebufferUpdate
  BY <1>2, framebufferUpdateFits
<1>3. CASE \/ handleBell \/ handleServerCutText \/ handleEndOfContinuousUpdates
           \/ handleServerFence \/ handleXvp \/ unexpectedMessage \/ Paused
  BY <1>3, MessagesFit
<1>. QED  BY <1>1, <1>2, <1>3 DEF normalMsg

------------------------------------------------------------------------------
(* The theorems.                                                           *)

LEMMA FramesInitIInv == FramesInit => FramesIInv
<1>. SUFFICES ASSUME FramesInit PROVE FramesIInv
  OBVIOUS
<1>1. /\ {"rects", "flushing", "disp"} \subseteq DOMAIN fb
      /\ fb.flushing = FALSE /\ fb.rects = 0 /\ fb.disp = EmptyDisplay
  BY DEF FramesInit
<1>2. Orderly(EmptyDisplay) /\ EmptyDisplay.flush = "none"
  BY DEF Orderly, Displays, DrawnInOrder, EmptyDisplay
<1>3. Regular(fb)
  BY <1>1, <1>2 DEF Regular
<1>4. ~(fb.rects > 0)
  BY <1>1
<1>. QED  BY <1>3, <1>4 DEF FramesIInv, OneUpdateQueued

LEMMA FramesNextIInv == FramesIInv /\ [FramesNext]_framesVars => FramesIInv'
<1>. SUFFICES ASSUME FramesIInv, [FramesNext]_framesVars PROVE FramesIInv'
  OBVIOUS
<1>1. CASE Handshaking \/ UserAnswers \/ ServerListens \/ UNCHANGED framesVars
  BY <1>1, UnchangedFits DEF Handshaking, UserAnswers, ServerListens, framesVars
<1>2. CASE SendUpdate \/ SendOther
  BY <1>2, UnchangedFits DEF SendUpdate, SendOther, Speaks
<1>3. CASE normalMsg
  BY <1>3, normalMsgFits
<1>4. CASE Flushed
  BY <1>4, FlushedFits
<1>5. CASE Pictures
  BY <1>5, PicturesFit
<1>. QED  BY <1>1, <1>2, <1>3, <1>4, <1>5 DEF FramesNext

\* Whatever a server sends, and whenever its pictures load, the display draws in
\* the order of the decoders' calls and leaves nothing out (_renderQPush,
\* _scanRenderQ).
THEOREM DrawingInOrder == FramesSpec => []InOrder
<1>1. FramesInit => FramesIInv
  BY FramesInitIInv
<1>2. FramesIInv /\ [FramesNext]_framesVars => FramesIInv'
  BY FramesNextIInv
<1>3. FramesIInv => InOrder
  BY DEF FramesIInv, Regular, Orderly, InOrder
<1>. QED  BY <1>1, <1>2, <1>3, PTL DEF FramesSpec

\* The pause for the previous update does what its comment promises: while an
\* update is decoded, all that is queued is its own (_framebufferUpdate).
THEOREM UpdatesKeptApart == FramesSpec => []OneUpdateQueued
<1>1. FramesInit => FramesIInv
  BY FramesInitIInv
<1>2. FramesIInv /\ [FramesNext]_framesVars => FramesIInv'
  BY FramesNextIInv
<1>3. FramesIInv => OneUpdateQueued
  BY DEF FramesIInv
<1>. QED  BY <1>1, <1>2, <1>3, PTL DEF FramesSpec

------------------------------------------------------------------------------
(* The handshake: definitions.                                             *)

\* What the client has not read of the stream.
Coming == rQ \o net

Reason(s) == Counted(s, "reasonLength", "reason")

\* The server has begun with one of turns.
Began(turns, at, s) == \E b \in turns : s = b.say /\ at = b.at

\* While the client negotiates a security type.
VeNCryptFits(c, s, S) ==
    \/ c.vencrypt = 0 /\ Began(Begin(sec.VeNCrypt, c.version), s.at, S)
    \/ /\ c.vencrypt = 1 /\ Len(S) = 1 /\ S[1].f = "ack" /\ S[1].v = 1
    \/ /\ c.vencrypt = 1 /\ s.at = "subtype" /\ S # <<>> /\ S[1].f = "ack" /\ S[1].v = 0
       /\ Counted(Drop(S, 1), "subtypes", "subtype")
    \/ c.vencrypt = 2 /\ s.at = "subtype" /\ Counted(S, "subtypes", "subtype")
    \/ /\ c.vencrypt = 3 /\ s.at = "subtype" /\ c.subtypes = Len(S) /\ S # <<>>
       /\ \A k \in 1..Len(S) : S[k].f = "subtype"

TypeFits(c, s, S) ==
    IF c.scheme = sec.VeNCrypt THEN VeNCryptFits(c, s, S)
    ELSE IF c.scheme = sec.Tight
    THEN Began(IF c.tight THEN TightAuths(c.version) ELSE Begin(sec.Tight, c.version), s.at, S)
    ELSE IF c.scheme = sec.ARD /\ c.ard # "no" THEN S = <<>> /\ s.at = "response"
    ELSE Began(Begin(c.scheme, c.version), s.at, S)

Negotiates(c, s, S) ==
    /\ s.version = c.version /\ c.version \in {33, 37, 38}
    /\ c.tight => c.scheme \in {sec.Tight, sec.VNCAuth, sec.UnixLogon}
    /\ s.tight = (c.tight \/ c.scheme = sec.Tight)
    /\ c.scheme # sec.ARD => c.ard = "no"
    /\ TypeFits(c, s, S)

\* What follows in the stream, by the state of the handshake.
VersionFollows(c, s, S) ==
    /\ s.tight = FALSE
    /\ \/ S = <<>> /\ s.at = "start"
       \/ Len(S) = 1 /\ S[1].f = "version" /\ s.at = IF S[1].v = 0 THEN "id" ELSE "version"

Refuses(f, S) == S # <<>> /\ S[1].f = f /\ S[1].v = 0 /\ Reason(Drop(S, 1))

SecurityFollows33(s, S) ==
    \/ Refuses("scheme", S)
    \/ /\ S # <<>> /\ S[1].f = "scheme" /\ S[1].v # 0
       /\ s.version = 33 /\ s.tight = (S[1].v = sec.Tight)
       /\ Began(Begin(S[1].v, 33), s.at, Drop(S, 1))

SecurityFollows(c, s, S) ==
    \/ Refuses("types", S)
    \/ /\ Counted(S, "types", "type") /\ S[1].v # 0 /\ s.at = "type"
       /\ s.version = c.version /\ s.tight = FALSE

ResultFollows(c, s, S) ==
    /\ s.version = c.version /\ s.tight = c.tight /\ c.version \in {33, 37, 38}
    /\ S # <<>> /\ S[1].f = "result"
    /\ \/ S[1].v = 0 /\ Len(S) = 1 /\ s.at = "init"
       \/ S[1].v # 0 /\ (c.version # 38 \/ Reason(Drop(S, 1)))

Introduction(tight) ==
    <<F("server", 0), F("name", 0)>> \o IF tight THEN <<F("extended", 1), F("caps", 0)>> ELSE <<>>

\* The stream S is what the client c expects, and it knows what the server s
\* waits for, when nothing it sent is on its way.
Fits(c, s, S) ==
    \/ c.init = "ProtocolVersion" /\ VersionFollows(c, s, S)
    \/ c.init = "Security" /\ c.version = 33 /\ SecurityFollows33(s, S)
    \/ c.init = "Security" /\ c.version \in {37, 38} /\ SecurityFollows(c, s, S)
    \/ c.init = "SecurityReason" /\ Reason(S)
    \/ c.init = "Authentication" /\ Negotiates(c, s, S)
    \/ c.init = "SecurityResult" /\ ResultFollows(c, s, S)
    \/ c.init = "ClientInitialisation" /\ s.tight = c.tight /\ S = <<>> /\ s.at = "init"
    \/ c.init = "ServerInitialisation" /\ S = Introduction(c.tight) /\ s.at = "normal"

\* Before the client has chosen a security type.
Fresh(c) == c.ard = "no" /\ c.vencrypt = 0 /\ c.tight = FALSE

\* The client has nothing more to send before it reads.
Patient(c) == \/ c.init \in {"SecurityResult", "ServerInitialisation"}
              \/ c.init = "Authentication" /\ c.scheme = sec.VNCAuth

\* Whatever the server answers to m is what the client expects.
Expects(c, m, s) == \A t \in Replies(m, s) : Fits(c, t.srv, t.say)

\* Client and server agree: at most two messages are on their way to the server,
\* and the second one was sent without waiting for an answer to the first.
Agree(c, s, S, u) ==
    \/ u = <<>> /\ Fits(c, s, S)
    \/ \E m : u = <<m>> /\ S = <<>> /\ s.at # "normal" /\ Expects(c, m, s)
    \/ \E m, n : /\ u = <<m, n>> /\ S = <<>> /\ s.at # "normal" /\ Patient(c)
                 /\ \A t \in Replies(m, s) :
                       t.say = <<>> /\ t.srv.at # "normal" /\ Expects(c, n, t.srv)

------------------------------------------------------------------------------
(* The server.                                                             *)

\* The numbers of the security types.
LEMMA TypesAre ==
    /\ sec.None = 1 /\ sec.VNCAuth = 2 /\ sec.Tight = 16 /\ sec.VeNCrypt = 19 /\ sec.XVP = 22
    /\ sec.ARD = 30 /\ sec.MSLogonII = 113 /\ sec.UnixLogon = 129 /\ sec.Plain = 256
BY DEF sec

\* What a server begins with, by the security type.
LEMMA TightAuthsAre ==
    ASSUME NEW v, NEW b \in TightAuths(v)
    PROVE  \/ b.say = <<F("auths", 0), F("result", 0)>> /\ b.at = "init"
           \/ b.at = "auth" /\ \E a \in {1, 2, 129, 7} : b.say = <<F("auths", 1), F("auth", a)>>
BY TypesAre DEF TightAuths

\* What a server says first, by the type that has been agreed on.
LEMMA BeginIs ==
    ASSUME NEW v
    PROVE  /\ \A b \in Begin(sec.None, v) :
                 b.say = (IF v = 38 THEN <<F("result", 0)>> ELSE <<>>) /\ b.at = "init"
           /\ \A b \in Begin(sec.VNCAuth, v) :
                 b.say = <<F("challenge", 0)>> /\ b.at = "response"
           /\ \A b \in Begin(sec.ARD, v) :
                 b.say = <<F("dh", 0), F("keys", 0)>> /\ b.at = "response"
           /\ \A b \in Begin(sec.MSLogonII, v) :
                 b.say = <<F("params", 0)>> /\ b.at = "response"
           /\ \A b \in Begin(sec.Plain, v) :
                 b.say = <<>> /\ b.at = "response"
           /\ \A b \in Begin(sec.UnixLogon, v) :
                 b.say = <<>> /\ b.at = "response"
           /\ \A b \in Begin(sec.XVP, v) :
                 b.say = <<>> /\ b.at = "xvp"
           /\ \A b \in Begin(sec.VeNCrypt, v) :
                 b.at = "vencrypt" /\ \E n \in {1, 2} : b.say = <<F("vencrypt", n)>>
           /\ \A b \in Begin(sec.Tight, v) :
                 \/ \E a \in TightAuths(v) : b.say = <<F("tunnels", 0)>> \o a.say /\ b.at = a.at
                 \/ b.at = "tunnel" /\ \E n \in {0, 1, 2} : b.say = <<F("tunnels", 1), F("tunnel", n)>>
<1>. USE TypesAre
<1>1. ASSUME NEW b \in Begin(sec.None, v) PROVE b.say = (IF v = 38 THEN <<F("result", 0)>> ELSE <<>>) /\ b.at = "init"
  BY DEF Begin
<1>2. ASSUME NEW b \in Begin(sec.VNCAuth, v) PROVE b.say = <<F("challenge", 0)>> /\ b.at = "response"
  BY DEF Begin
<1>3. ASSUME NEW b \in Begin(sec.ARD, v) PROVE b.say = <<F("dh", 0), F("keys", 0)>> /\ b.at = "response"
  BY DEF Begin
<1>4. ASSUME NEW b \in Begin(sec.MSLogonII, v) PROVE b.say = <<F("params", 0)>> /\ b.at = "response"
  BY DEF Begin
<1>5. ASSUME NEW b \in Begin(sec.Plain, v) PROVE b.say = <<>> /\ b.at = "response"
  BY DEF Begin
<1>6. ASSUME NEW b \in Begin(sec.UnixLogon, v) PROVE b.say = <<>> /\ b.at = "response"
  BY DEF Begin
<1>7. ASSUME NEW b \in Begin(sec.XVP, v) PROVE b.say = <<>> /\ b.at = "xvp"
  BY DEF Begin
<1>8. ASSUME NEW b \in Begin(sec.VeNCrypt, v) 
      PROVE  b.at = "vencrypt" /\ \E n \in {1, 2} : b.say = <<F("vencrypt", n)>>
  BY DEF Begin
<1>9. ASSUME NEW b \in Begin(sec.Tight, v) 
      PROVE  \/ \E a \in TightAuths(v) : b.say = <<F("tunnels", 0)>> \o a.say /\ b.at = a.at
             \/ b.at = "tunnel" /\ \E n \in {0, 1, 2} : b.say = <<F("tunnels", 1), F("tunnel", n)>>
  BY DEF Begin, Behind
<1>. QED  BY <1>1, <1>2, <1>3, <1>4, <1>5, <1>6, <1>7, <1>8, <1>9

\* Fields, and sequences of them.
LEMMA FIs == \A f, v : F(f, v).f = f /\ F(f, v).v = v
BY DEF F

\* Fields, their sequences, and what is left of one.
LEMMA FieldIs == \A f \in Said : \A v \in Int : F(f, v) \in Field
BY DEF F, Field

\* One field in front of others.
LEMMA OneBehind ==
    ASSUME NEW f \in Field, NEW s \in Seq(Field)
    PROVE  /\ <<f>> \o s \in Seq(Field) /\ <<f>> \o s # <<>>
           /\ Len(<<f>> \o s) = 1 + Len(s) /\ (<<f>> \o s)[1] = f
           /\ \A k \in 1..Len(s) : (<<f>> \o s)[k + 1] = s[k]
           /\ Drop(<<f>> \o s, 1) = s
<1>. DEFINE t == <<f>> \o s
<1>1. <<f>> \in Seq(Field) /\ Len(<<f>>) = 1 /\ <<f>>[1] = f /\ Len(s) \in Nat
  OBVIOUS
<1>2. /\ t \in Seq(Field) /\ Len(t) = 1 + Len(s)
      /\ \A k \in 1..(1 + Len(s)) : t[k] = IF k <= 1 THEN <<f>>[k] ELSE s[k - 1]
  BY <1>1, ConcatProperties
<1>. HIDE DEF t
<1>3. t[1] = f /\ \A k \in 1..Len(s) : t[k + 1] = s[k]
  BY <1>1, <1>2
<1>4. t # <<>>
  BY <1>1, <1>2
<1>5. Drop(t, 1) = s
  <2>1. /\ Drop(t, 1) \in Seq(Field) /\ Len(Drop(t, 1)) = Len(s)
        /\ \A k \in 1..Len(s) : Drop(t, 1)[k] = t[k + 1]
    BY <1>1, <1>2 DEF Drop
  <2>. QED  BY <1>3, <2>1, SeqEqual
<1>. QED  BY <1>2, <1>3, <1>4, <1>5 DEF t

\* What is left of a sequence.
LEMMA DropIs ==
    ASSUME NEW S \in Seq(Field), NEW n \in 0..Len(S)
    PROVE  /\ Drop(S, n) \in Seq(Field) /\ Len(Drop(S, n)) = Len(S) - n
           /\ \A k \in 1..(Len(S) - n) : Drop(S, n)[k] = S[n + k]
BY DEF Drop

LEMMA EmptyIs == Len(<<>>) = 0 /\ \A S \in Seq(Field) : Len(S) \in Nat /\ (S = <<>> <=> Len(S) = 0)
BY EmptySeq, LenProperties

LEMMA AllDropped == ASSUME NEW S \in Seq(Field) PROVE Drop(S, Len(S)) = <<>>
<1>1. Len(S) \in 0..Len(S) /\ Len(S) - Len(S) = 0
  BY EmptyIs
<1>2. Drop(S, Len(S)) \in Seq(Field) /\ Len(Drop(S, Len(S))) = Len(S) - Len(S)
  BY <1>1, DropIs
<1>. QED  BY <1>1, <1>2, EmptyIs

\* A list of fields of one name.
LEMMA ManyIs ==
    ASSUME NEW f \in Said, NEW l \in Seq(Int)
    PROVE  /\ Many(f, l) \in Seq(Field) /\ Len(Many(f, l)) = Len(l)
           /\ \A k \in 1..Len(l) : Many(f, l)[k] = F(f, l[k])
<1>1. ASSUME NEW k \in 1..Len(l) PROVE F(f, l[k]) \in Field
  BY FieldIs
<1>2. Len(l) \in Nat
  OBVIOUS
<1>3. Many(f, l) \in [1..Len(l) -> Field]
  BY <1>1 DEF Many
<1>4. \A k \in 1..Len(l) : Many(f, l)[k] = F(f, l[k])
  BY DEF Many
<1>. QED  BY <1>2, <1>3, <1>4

\* A list behind the number of its fields.
LEMMA CountedMany ==
    ASSUME NEW f \in Said, NEW g \in Said, NEW l \in Seq(Int)
    PROVE  Counted(<<F(f, Len(l))>> \o Many(g, l), f, g)
<1>. DEFINE s == <<F(f, Len(l))>> \o Many(g, l)
<1>1. Len(l) \in Nat /\ F(f, Len(l)) \in Field
  BY FieldIs
<1>2. /\ s # <<>> /\ Len(s) = 1 + Len(l) /\ s[1] = F(f, Len(l))
      /\ \A k \in 1..Len(l) : s[k + 1] = F(g, l[k])
  BY <1>1, ManyIs, OneBehind
<1>. HIDE DEF s
<1>3. ASSUME NEW k \in 2..Len(s) PROVE s[k].f = g
  <2>1. k - 1 \in 1..Len(l) /\ s[(k - 1) + 1] = F(g, l[k - 1])
    BY <1>1, <1>2
  <2>. QED  BY <2>1, FIs
<1>4. s[1].f = f /\ s[1].v = Len(s) - 1
  BY <1>1, <1>2, FIs
<1>. QED  BY <1>2, <1>3, <1>4 DEF s, Counted

\* Why a server refuses.
LEMMA RefusedIs ==
    ASSUME NEW r \in Reasons
    PROVE  Refused(r).say \in Seq(Field) /\ Reason(Refused(r).say)
<1>1. F("reason", 0) \in Field /\ F("reasonLength", 0) \in Field /\ F("reasonLength", 1) \in Field
  BY FieldIs DEF Said
<1>2. CASE r = <<>>
  <2>1. Refused(r).say = <<F("reasonLength", 0)>>
    BY <1>2 DEF Refused
  <2>. QED  BY <1>1, <2>1, FIs DEF Reason, Counted
<1>3. CASE r = <<F("reason", 0)>>
  <2>1. Refused(r).say = <<F("reasonLength", 1)>> \o <<F("reason", 0)>>
    BY <1>3 DEF Refused
  <2>. QED  BY <1>1, <2>1, FIs DEF Reason, Counted
<1>. QED  BY <1>2, <1>3 DEF Reasons

\* Short sequences of fields.
LEMMA FewAre ==
    /\ <<>> \in Seq(Field)
    /\ \A x \in Field : <<x>> \in Seq(Field)
    /\ \A x \in Field, y \in Field : <<x, y>> \in Seq(Field)
OBVIOUS

\* What a server begins with are fields.
LEMMA BeginFields ==
    ASSUME NEW t, NEW v
    PROVE  /\ \A b \in TightAuths(v) : b.say \in Seq(Field)
           /\ \A b \in Begin(t, v) : b.say \in Seq(Field)
<1>0. \A n \in Int : F("result", n) \in Field /\ F("challenge", n) \in Field /\ F("dh", n) \in Field
                   /\ F("keys", n) \in Field /\ F("params", n) \in Field /\ F("vencrypt", n) \in
                   Field /\ F("tunnels", n) \in Field /\ F("tunnel", n) \in Field /\ F("auths", n)
                   \in Field /\ F("auth", n) \in Field
  BY FieldIs DEF Said
<1>1. ASSUME NEW b \in TightAuths(v) PROVE b.say \in Seq(Field)
  <2>1. PICK x \in Field, y \in Field : b.say = <<x, y>>
    BY <1>0, TightAuthsAre
  <2>. QED  BY <2>1, FewAre
<1>2. ASSUME NEW b \in Begin(t, v) PROVE b.say \in Seq(Field)
  <2>. USE <1>0
  <2>1. CASE t \in {sec.None, sec.Plain, sec.UnixLogon, sec.XVP}
    <3>1. b.say = <<>> \/ \E x \in Field : b.say = <<x>>
      BY <2>1, BeginIs
    <3>. QED  BY <3>1, FewAre
  <2>2. CASE t \in {sec.VNCAuth, sec.MSLogonII, sec.VeNCrypt}
    <3>1. \E x \in Field : b.say = <<x>>
      BY <2>2, BeginIs
    <3>. QED  BY <3>1, FewAre
  <2>3. CASE t = sec.ARD
    <3>1. \E x \in Field, y \in Field : b.say = <<x, y>>
      BY <2>3, BeginIs
    <3>. QED  BY <3>1, FewAre
  <2>4. CASE t = sec.Tight
    <3>1. ASSUME NEW a \in TightAuths(v), b.say = <<F("tunnels", 0)>> \o a.say PROVE b.say \in Seq(Field)
      <4>1. F("tunnels", 0) \in Field /\ a.say \in Seq(Field)
        BY <1>1
      <4>. QED  BY <3>1, <4>1, OneBehind
    <3>2. ASSUME NEW n \in {0, 1, 2}, b.say = <<F("tunnels", 1), F("tunnel", n)>>
          PROVE  b.say \in Seq(Field)
      BY <3>2, FewAre
    <3>3. \/ \E a \in TightAuths(v) : b.say = <<F("tunnels", 0)>> \o a.say
          \/ \E n \in {0, 1, 2} : b.say = <<F("tunnels", 1), F("tunnel", n)>>
      BY <2>4, BeginIs
    <3>. QED  BY <3>1, <3>2, <3>3
  <2>5. CASE t \notin {sec.None, sec.VNCAuth, sec.ARD, sec.MSLogonII, sec.Plain, sec.UnixLogon,
                      sec.XVP, sec.VeNCrypt, sec.Tight}
    <3>1. b.say = <<>>
      BY <2>5 DEF Begin
    <3>. QED  BY <3>1
  <2>. QED  BY <2>1, <2>2, <2>3, <2>4, <2>5
<1>. QED  BY <1>1, <1>2

\* The server's answers, one lemma for each message of the client's.
LEMMA GreetingIs ==
    ASSUME NEW v \in Versions
    PROVE  Greeting(v).say \in Seq(Field) /\ Len(Greeting(v).say) = 1 /\ Greeting(v).say[1] = F("version", v)
<1>1. F("version", v) \in Field
  BY FieldIs, HandshakeAssumption DEF Said
<1>. QED  BY <1>1, FewAre DEF Greeting

\* A list of security types, and its first.
LEMMA TypeListIs ==
    ASSUME NEW l \in TypeLists
    PROVE  /\ l \in Seq(Int) /\ Len(l) \in Nat
           /\ l # <<>> => l[1] \in Nat \ {0} /\ Len(l) # 0
<1>1. l \in Seq(Nat \ {0})
  BY HandshakeAssumption
<1>2. l \in Seq(Int) /\ Len(l) \in Nat
  BY <1>1, SeqMonotonic
<1>3. l # <<>> => l[1] \in Nat \ {0} /\ Len(l) # 0
  BY <1>1
<1>. QED  BY <1>2, <1>3

\* A turn, by its parts.
Says(t, say, at, version, tight) ==
    /\ t.say = say /\ t.say \in Seq(Field)
    /\ t.srv.at = at /\ t.srv.version = version /\ t.srv.tight = tight

LEMMA TurnIs ==
    ASSUME NEW b, NEW v, NEW t, b.say \in Seq(Field)
    PROVE  Says(Turn(b, v, t), b.say, b.at, v, t)
BY DEF Turn, Says

LEMMA IdIsAnswered ==
    ASSUME NEW m, m.f = "id", NEW s, NEW t \in Replies(m, s)
    PROVE  \E v \in Versions \ {0} : Says(t, <<F("version", v)>>, "version", v, FALSE)
<1>1. PICK v \in Versions \ {0} : t = Turn(Greeting(v), v, FALSE)
  BY DEF Replies
<1>2. Greeting(v).say = <<F("version", v)>> /\ Greeting(v).at = "version"
  BY DEF Greeting
<1>. QED  BY <1>1, <1>2, TurnIs, GreetingIs

LEMMA RefusalsAre ==
    ASSUME NEW f \in Said, NEW version, NEW t \in Refusals(f, version)
    PROVE  /\ t.say \in Seq(Field) /\ t.say # <<>> /\ t.say[1] = F(f, 0)
           /\ Reason(Drop(t.say, 1)) /\ Refuses(f, t.say) /\ t.srv.at = "closed"
<1>1. PICK r \in Reasons : t = Turn(Behind(F(f, 0), Refused(r)), version, FALSE)
  BY DEF Refusals
<1>2. F(f, 0) \in Field /\ Refused(r).say \in Seq(Field) /\ Reason(Refused(r).say)
  BY FieldIs, RefusedIs
<1>3. Behind(F(f, 0), Refused(r)).say = <<F(f, 0)>> \o Refused(r).say
  BY DEF Behind
<1>4. /\ <<F(f, 0)>> \o Refused(r).say \in Seq(Field) /\ <<F(f, 0)>> \o Refused(r).say # <<>>
      /\ (<<F(f, 0)>> \o Refused(r).say)[1] = F(f, 0)
      /\ Drop(<<F(f, 0)>> \o Refused(r).say, 1) = Refused(r).say
  BY <1>2, OneBehind
<1>5. t.say = <<F(f, 0)>> \o Refused(r).say /\ t.srv.at = "closed"
  BY <1>1, <1>3 DEF Turn, Behind, Refused
<1>6. t.say[1].f = f /\ t.say[1].v = 0
  BY <1>4, <1>5, FIs
<1>. QED  BY <1>2, <1>4, <1>5, <1>6 DEF Refuses

\* A server of version 3.3.
LEMMA Version33IsAnswered ==
    ASSUME NEW m, m.f = "version", m.v = 33, NEW s, NEW t \in Replies(m, s)
    PROVE  \/ t \in Refusals("scheme", 33)
           \/ \E x \in Nat \ {0} : \E b \in Begin(x, 33) :
                 Says(t, <<F("scheme", x)>> \o b.say, b.at, 33, x = sec.Tight)
<1>1. t \in Dictated \/ t \in Refusals("scheme", 33)
  BY DEF Replies
<1>2. CASE t \in Dictated
  <2>1. PICK l \in TypeLists \ {<<>>} : \E b \in Begin(l[1], 33) :
                t = Turn(Behind(F("scheme", l[1]), b), 33, l[1] = sec.Tight)
    BY <1>2, Zenon DEF Dictated
  <2>2. PICK b \in Begin(l[1], 33) : t = Turn(Behind(F("scheme", l[1]), b), 33, l[1] = sec.Tight)
    BY <2>1
  <2>3. l[1] \in Nat \ {0} /\ F("scheme", l[1]) \in Field /\ b.say \in Seq(Field)
    BY FieldIs, TypeListIs, BeginFields DEF Said
  <2>4. <<F("scheme", l[1])>> \o b.say \in Seq(Field)
    BY <2>3, OneBehind
  <2>5. Says(t, <<F("scheme", l[1])>> \o b.say, b.at, 33, l[1] = sec.Tight)
    BY <2>2, <2>4 DEF Turn, Behind, Says
  <2>. QED  BY <2>3, <2>5
<1>. QED  BY <1>1, <1>2

\* A later one.
LEMMA VersionIsAnswered ==
    ASSUME NEW m, m.f = "version", m.v # 33, NEW s, NEW t \in Replies(m, s)
    PROVE  \/ t \in Refusals("types", m.v)
           \/ /\ t.say \in Seq(Field) /\ t.say # <<>> /\ t.say[1].v # 0 /\ Counted(t.say, "types", "type")
              /\ t.srv.at = "type" /\ t.srv.version = m.v /\ t.srv.tight = FALSE
<1>1. t \in Offered(m.v) \/ t \in Refusals("types", m.v)
  BY DEF Replies
<1>2. CASE t \in Offered(m.v)
  <2>1. PICK l \in TypeLists \ {<<>>} :
                t = Turn([say |-> <<F("types", Len(l))>> \o Many("type", l), at |-> "type"], m.v, FALSE)
    BY <1>2 DEF Offered
  <2>2. l \in Seq(Int) /\ Len(l) \in Nat /\ Len(l) # 0
    BY TypeListIs
  <2>3. F("types", Len(l)) \in Field /\ Many("type", l) \in Seq(Field)
    BY <2>2, FieldIs, ManyIs DEF Said
  <2>. DEFINE say == <<F("types", Len(l))>> \o Many("type", l)
  <2>4. say \in Seq(Field) /\ say # <<>> /\ say[1] = F("types", Len(l))
    BY <2>3, OneBehind
  <2>5. Counted(say, "types", "type")
    BY <2>2, CountedMany DEF Said
  <2>6. t.say = say /\ t.srv.at = "type" /\ t.srv.version = m.v /\ t.srv.tight = FALSE
    BY <2>1 DEF Turn
  <2>. HIDE DEF say
  <2>. QED  BY <2>2, <2>4, <2>5, <2>6, FIs
<1>. QED  BY <1>1, <1>2

LEMMA TypeIsAnswered ==
    ASSUME NEW m, m.f = "type", NEW s, NEW t \in Replies(m, s)
    PROVE  \E b \in Begin(m.v, s.version) :
              Says(t, b.say, b.at, s.version, s.tight \/ m.v = sec.Tight)
<1>1. PICK b \in Begin(m.v, s.version) : t = Turn(b, s.version, s.tight \/ m.v = sec.Tight)
  BY DEF Replies
<1>. QED  BY <1>1, TurnIs, BeginFields

\* The parts of VeNCrypt.
LEMMA VeNCryptIsAnswered ==
    ASSUME NEW m, m.f = "vencrypt", NEW s, NEW t \in Replies(m, s)
    PROVE  /\ t.say \in Seq(Field) /\ t.srv.version = s.version /\ t.srv.tight = FALSE
           /\ \/ t.say = <<F("ack", 1)>> /\ t.srv.at = "closed"
              \/ /\ t.say # <<>> /\ t.say[1] = F("ack", 0) /\ t.srv.at = "subtype"
                 /\ Counted(Drop(t.say, 1), "subtypes", "subtype")
<1>1. CASE t = Turn([say |-> <<F("ack", 1)>>, at |-> "closed"], s.version, FALSE)
  <2>1. \E x \in Field : t.say = <<x>>
    BY <1>1, FieldIs DEF Turn, Said
  <2>. QED  BY <1>1, <2>1, FewAre DEF Turn
<1>2. ASSUME NEW l \in TypeLists,
             t = Turn([say |-> <<F("ack", 0), F("subtypes", Len(l))>> \o Many("subtype", l),
                       at |-> "subtype"], s.version, FALSE)
      PROVE  /\ t.say \in Seq(Field) /\ t.say # <<>> /\ t.say[1] = F("ack", 0)
             /\ Counted(Drop(t.say, 1), "subtypes", "subtype")
             /\ t.srv.version = s.version /\ t.srv.tight = FALSE /\ t.srv.at = "subtype"
  <2>1. l \in Seq(Int) /\ Len(l) \in Nat
    BY TypeListIs
  <2>2. F("ack", 0) \in Field /\ F("subtypes", Len(l)) \in Field /\ Many("subtype", l) \in Seq(Field)
    BY <2>1, FieldIs, ManyIs DEF Said
  <2>. DEFINE rest == <<F("subtypes", Len(l))>> \o Many("subtype", l)
  <2>3. rest \in Seq(Field) /\ Counted(rest, "subtypes", "subtype")
    BY <2>1, <2>2, OneBehind, CountedMany DEF Said
  <2>4. <<F("ack", 0), F("subtypes", Len(l))>> \o Many("subtype", l) = <<F("ack", 0)>> \o rest
    <3>1. <<F("ack", 0)>> \in Seq(Field) /\ <<F("subtypes", Len(l))>> \in Seq(Field)
      BY <2>2, FewAre
    <3>2. <<F("ack", 0), F("subtypes", Len(l))>> = <<F("ack", 0)>> \o <<F("subtypes", Len(l))>>
      OBVIOUS
    <3>. QED  BY <2>2, <3>1, <3>2, ConcatAssociative
  <2>5. t.say = <<F("ack", 0)>> \o rest /\ t.srv.at = "subtype" /\ t.srv.version = s.version /\ t.srv.tight = FALSE
    BY <1>2, <2>4 DEF Turn
  <2>. HIDE DEF rest
  <2>. QED  BY <2>2, <2>3, <2>5, OneBehind
<1>3. \/ t = Turn([say |-> <<F("ack", 1)>>, at |-> "closed"], s.version, FALSE)
      \/ \E l \in TypeLists :
             t = Turn([say |-> <<F("ack", 0), F("subtypes", Len(l))>> \o Many("subtype", l),
                       at |-> "subtype"], s.version, FALSE)
  BY DEF Replies
<1>. QED  BY <1>1, <1>2, <1>3, Zenon DEF Turn

LEMMA TunnelIsAnswered ==
    ASSUME NEW m, m.f = "tunnel", NEW s, NEW t \in Replies(m, s)
    PROVE  \E b \in TightAuths(s.version) : Says(t, b.say, b.at, s.version, TRUE)
<1>1. PICK b \in TightAuths(s.version) : t = Turn(b, s.version, TRUE)
  BY DEF Replies
<1>. QED  BY <1>1, TurnIs, BeginFields

LEMMA ResultFields == <<F("result", 0)>> \in Seq(Field) /\ <<F("result", 1)>> \in Seq(Field)
<1>1. F("result", 0) \in Field /\ F("result", 1) \in Field
  BY FieldIs DEF Said
<1>. QED  BY <1>1, FewAre

LEMMA AuthIsAnswered ==
    ASSUME NEW m, m.f = "auth", NEW s, NEW t \in Replies(m, s)
    PROVE  /\ m.v = 1 => Says(t, <<F("result", 0)>>, "init", s.version, TRUE)
           /\ m.v # 1 => \E b \in Begin(m.v, s.version) : Says(t, b.say, b.at, s.version, TRUE)
<1>1. CASE m.v = 1
  <2>1. t = Turn([say |-> <<F("result", 0)>>, at |-> "init"], s.version, TRUE)
    BY <1>1 DEF Replies
  <2>. QED  BY <1>1, <2>1, ResultFields DEF Turn, Says
<1>2. CASE m.v # 1
  <2>1. PICK b \in Begin(m.v, s.version) : t = Turn(b, s.version, TRUE)
    BY <1>2 DEF Replies
  <2>. QED  BY <1>2, <2>1, TurnIs, BeginFields
<1>. QED  BY <1>1, <1>2

LEMMA XvpIsAnswered ==
    ASSUME NEW m, m.f = "xvp", NEW s, NEW t \in Replies(m, s)
    PROVE  \E b \in Begin(sec.VNCAuth, s.version) : Says(t, b.say, b.at, s.version, s.tight)
<1>1. PICK b \in Begin(sec.VNCAuth, s.version) : t = Turn(b, s.version, s.tight)
  BY DEF Replies
<1>. QED  BY <1>1, TurnIs, BeginFields

LEMMA ResponseIsAnswered ==
    ASSUME NEW m, m.f = "response", NEW s, NEW t \in Replies(m, s)
    PROVE  /\ t.say \in Seq(Field) /\ t.say # <<>>
           /\ t.srv.version = s.version /\ t.srv.tight = s.tight
           /\ \/ t.say = <<F("result", 0)>> /\ t.srv.at = "init"
              \/ /\ t.say[1] = F("result", 1) /\ t.srv.at = "closed"
                 /\ s.version # 38 \/ Reason(Drop(t.say, 1))
<1>1. CASE t = Turn([say |-> <<F("result", 0)>>, at |-> "init"], s.version, s.tight)
  BY <1>1, ResultFields DEF Turn
<1>2. ASSUME s.version = 38, NEW r \in Reasons,
             t = Turn(Behind(F("result", 1), Refused(r)), 38, s.tight)
      PROVE  /\ t.say \in Seq(Field) /\ t.say # <<>> /\ t.say[1] = F("result", 1)
             /\ Reason(Drop(t.say, 1)) /\ t.srv.version = 38 /\ t.srv.tight = s.tight
             /\ t.srv.at = "closed"
  <2>1. F("result", 1) \in Field /\ Refused(r).say \in Seq(Field) /\ Reason(Refused(r).say)
    BY FieldIs, RefusedIs DEF Said
  <2>2. /\ t.say = <<F("result", 1)>> \o Refused(r).say /\ t.srv.version = 38 /\ t.srv.tight = s.tight
        /\ t.srv.at = "closed"
    BY <1>2 DEF Turn, Behind, Refused
  <2>. QED  BY <2>1, <2>2, OneBehind
<1>3. CASE s.version # 38 /\ t = Turn([say |-> <<F("result", 1)>>, at |-> "closed"], s.version, s.tight)
  BY <1>3, ResultFields DEF Turn
<1>4. \/ t = Turn([say |-> <<F("result", 0)>>, at |-> "init"], s.version, s.tight)
      \/ /\ s.version = 38
         /\ \E r \in Reasons : t = Turn(Behind(F("result", 1), Refused(r)), 38, s.tight)
      \/ s.version # 38 /\ t = Turn([say |-> <<F("result", 1)>>, at |-> "closed"], s.version, s.tight)
  BY DEF Replies
<1>. QED  BY <1>1, <1>2, <1>3, <1>4

\* The fields of the server's introduction.
LEMMA IntroductionIs ==
    ASSUME NEW tight
    PROVE  /\ Introduction(tight) \in Seq(Field)
           /\ Introduction(tight)[1].f = "server" /\ Introduction(tight)[2].f = "name"
           /\ Len(Introduction(tight)) = IF tight THEN 4 ELSE 2
           /\ tight => /\ Introduction(tight)[3] = F("extended", 1)
                       /\ Introduction(tight)[4].f = "caps"
<1>1. /\ F("server", 0) \in Field /\ F("name", 0) \in Field
      /\ F("extended", 1) \in Field /\ F("caps", 0) \in Field
  BY FieldIs DEF Said
<1>. DEFINE two == <<F("server", 0), F("name", 0)>>
            more == <<F("extended", 1), F("caps", 0)>>
<1>2. /\ two \in Seq(Field) /\ Len(two) = 2 /\ two[1] = F("server", 0) /\ two[2] = F("name", 0)
      /\ more \in Seq(Field) /\ Len(more) = 2 /\ more[1] = F("extended", 1) /\ more[2] = F("caps", 0)
  BY <1>1, FewAre
<1>. HIDE DEF two, more
<1>3. CASE tight
  <2>1. Introduction(tight) = two \o more
    BY <1>3 DEF Introduction, two, more
  <2>2. /\ two \o more \in Seq(Field) /\ Len(two \o more) = Len(two) + Len(more)
        /\ \A k \in 1..(Len(two) + Len(more)) :
              (two \o more)[k] = IF k <= Len(two) THEN two[k] ELSE more[k - Len(two)]
    BY <1>2, ConcatProperties, Zenon
  <2>3. /\ Len(two \o more) = 4
        /\ (two \o more)[1] = two[1] /\ (two \o more)[2] = two[2]
        /\ (two \o more)[3] = more[1] /\ (two \o more)[4] = more[2]
    BY <1>2, <2>2
  <2>4. F("server", 0).f = "server" /\ F("name", 0).f = "name" /\ F("caps", 0).f = "caps"
    BY FIs
  <2>. HIDE DEF Introduction
  <2>. QED  BY <1>2, <1>3, <2>1, <2>2, <2>3, <2>4
<1>4. CASE ~tight
  <2>1. Introduction(tight) = two
    BY <1>2, <1>4, ConcatEmptySeq DEF Introduction, two
  <2>. QED  BY <1>2, <1>4, <2>1, FIs
<1>. QED  BY <1>3, <1>4

LEMMA InitIsAnswered ==
    ASSUME NEW m, m.f = "init", NEW s, NEW t \in Replies(m, s)
    PROVE  t.say = Introduction(s.tight) /\ t.say \in Seq(Field) /\ t.srv.at = "normal"
<1>1. t = Turn([say |-> Introduction(s.tight), at |-> "normal"], 0, FALSE)
  BY DEF Replies, Introduction
<1>. QED  BY <1>1, IntroductionIs DEF Turn

------------------------------------------------------------------------------
(* The client's calls, as steps of the agreement.                          *)

\* When something is to be read, nothing is on its way to the server.
LEMMA ReadsAlone ==
    ASSUME NEW c, NEW s, NEW S, NEW u, Agree(c, s, S, u), S # <<>>
    PROVE  u = <<>> /\ Fits(c, s, S)
BY DEF Agree

\* A call that neither reads nor sends.
LEMMA AgreeStays ==
    ASSUME NEW c, NEW d, NEW s, NEW S, NEW u, Agree(c, s, S, u),
           Patient(c) => Patient(d),
           \A s1, S1 : Fits(c, s1, S1) => Fits(d, s1, S1)
    PROVE  Agree(d, s, S, u)
<1>1. CASE u = <<>> /\ Fits(c, s, S)
  BY <1>1 DEF Agree
<1>2. ASSUME NEW m, u = <<m>>, S = <<>>, s.at # "normal", Expects(c, m, s) PROVE Agree(d, s, S, u)
  BY <1>2 DEF Agree, Expects
<1>3. ASSUME NEW m, NEW n, u = <<m, n>>, S = <<>>, s.at # "normal", Patient(c),
             \A t \in Replies(m, s) : t.say = <<>> /\ t.srv.at # "normal" /\ Expects(c, n, t.srv)
      PROVE  Agree(d, s, S, u)
  BY <1>3 DEF Agree, Expects
<1>. QED  BY <1>1, <1>2, <1>3 DEF Agree

\* A call that sends the message x and has read nothing.
LEMMA AgreeSends ==
    ASSUME NEW c, NEW d, NEW s, NEW S, NEW u, NEW x, Agree(c, s, S, u),
           ~Patient(c), Patient(d),
           \A s1, S1 : Fits(c, s1, S1) => S1 = <<>> /\ s1.at # "normal" /\ Expects(d, x, s1)
    PROVE  Agree(d, s, S, u \o <<x>>)
<1>1. CASE u = <<>> /\ Fits(c, s, S)
  <2>1. u \o <<x>> = <<x>>
    BY <1>1
  <2>. QED  BY <1>1, <2>1 DEF Agree
<1>2. ASSUME NEW m, u = <<m>>, S = <<>>, s.at # "normal", Expects(c, m, s)
      PROVE  Agree(d, s, S, u \o <<x>>)
  <2>1. <<m>> \o <<x>> = <<m, x>>
    <3>1. /\ <<m>> \in Seq({m, x}) /\ <<x>> \in Seq({m, x}) /\ <<m, x>> \in Seq({m, x})
          /\ Len(<<m>>) = 1 /\ Len(<<x>>) = 1 /\ Len(<<m, x>>) = 2
      OBVIOUS
    <3>2. /\ <<m>> \o <<x>> \in Seq({m, x}) /\ Len(<<m>> \o <<x>>) = 2
          /\ (<<m>> \o <<x>>)[1] = m /\ (<<m>> \o <<x>>)[2] = x
      BY <3>1, ConcatProperties
    <3>3. ASSUME NEW k \in 1..Len(<<m, x>>) PROVE (<<m>> \o <<x>>)[k] = <<m, x>>[k]
      BY <3>1, <3>2
    <3>. QED  BY <3>1, <3>2, <3>3, SeqEqual
  <2>2. \A t \in Replies(m, s) : t.say = <<>> /\ t.srv.at # "normal" /\ Expects(d, x, t.srv)
    BY <1>2 DEF Expects
  <2>3. u \o <<x>> = <<m, x>>
    BY <1>2, <2>1, Zenon
  <2>. QED  BY <1>2, <2>2, <2>3 DEF Agree
<1>. QED  BY <1>1, <1>2 DEF Agree

\* The server answers the first message on its way.
LEMMA AgreeAnswers ==
    ASSUME NEW c, NEW s, NEW S, NEW u, Agree(c, s, S, u), u # <<>>, NEW t \in Replies(Head(u), s)
    PROVE  S = <<>> /\ Agree(c, t.srv, t.say, Tail(u))
<1>1. ASSUME NEW m, u = <<m>>, S = <<>>, Expects(c, m, s) PROVE Agree(c, t.srv, t.say, Tail(u))
  <2>1. Head(u) = m /\ Tail(u) = <<>>
    BY <1>1
  <2>. QED  BY <1>1, <2>1 DEF Agree, Expects
<1>2. ASSUME NEW m, NEW n, u = <<m, n>>, S = <<>>,
             \A r \in Replies(m, s) : r.say = <<>> /\ r.srv.at # "normal" /\ Expects(c, n, r.srv)
      PROVE  Agree(c, t.srv, t.say, Tail(u))
  <2>1. Head(u) = m /\ Tail(u) = <<n>>
    BY <1>2
  <2>. QED  BY <1>2, <2>1 DEF Agree
<1>. QED  BY <1>1, <1>2 DEF Agree

------------------------------------------------------------------------------
(* What the client reads, call by call.                                    *)

Members == {"st", "init", "version", "scheme", "vencrypt", "subtypes", "tight", "ard"}

\* The server's version; a repeater is sent an ID.
LEMMA VersionFits ==
    ASSUME NEW c, Members \subseteq DOMAIN c, c.init = "ProtocolVersion", Fresh(c),
           NEW s, NEW S \in Seq(Field), Fits(c, s, S), S # <<>>
    PROVE  /\ S[1].f = "version" /\ Len(S) = 1 /\ s.at # "normal"
           /\ S[1].v = 0 => Expects(c, F("id", 0), s)
           /\ S[1].v \in {33, 37, 38} =>
                 Expects([c EXCEPT !.version = S[1].v, !.init = "Security"], F("version", S[1].v), s)
<1>1. S[1].f = "version" /\ Len(S) = 1 /\ s.at # "normal"
  BY DEF Fits, VersionFollows
<1>2. ASSUME NEW t \in Replies(F("id", 0), s) PROVE Fits(c, t.srv, t.say)
  <2>1. PICK v \in Versions \ {0} : Says(t, <<F("version", v)>>, "version", v, FALSE)
    BY IdIsAnswered, FIs
  <2>2. Len(t.say) = 1 /\ t.say[1] = F("version", v) /\ t.srv.at = "version" /\ t.srv.tight = FALSE
    BY <2>1 DEF Says
  <2>. QED  BY <2>2, FIs DEF Fits, VersionFollows
<1>3. ASSUME S[1].v \in {33, 37, 38},
             NEW t \in Replies(F("version", S[1].v), s)
      PROVE  Fits([c EXCEPT !.version = S[1].v, !.init = "Security"], t.srv, t.say)
  <2>. DEFINE v == S[1].v
              d == [c EXCEPT !.version = v, !.init = "Security"]
  <2>1. d.init = "Security" /\ d.version = v /\ v \in {33, 37, 38}
    BY <1>3 DEF Members
  <2>. SUFFICES Fits(d, t.srv, t.say)
    OBVIOUS
  <2>0. t \in Replies(F("version", v), s) /\ F("version", v).f = "version" /\ F("version", v).v = v
    BY <1>3, FIs
  <2>. HIDE DEF d, v
  <2>2. CASE v = 33
    <3>1. CASE t \in Refusals("scheme", 33)
      <4>1. Refuses("scheme", t.say)
        BY <3>1, RefusalsAre DEF Said
      <4>. QED  BY <2>1, <2>2, <4>1 DEF Fits, SecurityFollows33
    <3>2. ASSUME NEW x \in Nat \ {0}, NEW b \in Begin(x, 33),
                 Says(t, <<F("scheme", x)>> \o b.say, b.at, 33, x = sec.Tight)
          PROVE  Fits(d, t.srv, t.say)
      <4>1. F("scheme", x) \in Field /\ b.say \in Seq(Field)
        BY FieldIs, BeginFields DEF Said
      <4>2. t.say # <<>> /\ t.say[1] = F("scheme", x) /\ Drop(t.say, 1) = b.say
        BY <3>2, <4>1, OneBehind DEF Says
      <4>3. Began(Begin(x, 33), t.srv.at, Drop(t.say, 1))
        BY <3>2, <4>2 DEF Began, Says
      <4>4. t.say[1].f = "scheme" /\ t.say[1].v = x
        BY <4>2, FIs
      <4>5. t.srv.version = 33 /\ t.srv.tight = (x = sec.Tight)
        BY <3>2 DEF Says
      <4>6. SecurityFollows33(t.srv, t.say)
        BY <4>2, <4>3, <4>4, <4>5 DEF SecurityFollows33
      <4>. QED  BY <2>1, <2>2, <4>6 DEF Fits
    <3>. QED  BY <2>0, <2>2, <3>1, <3>2, Version33IsAnswered
  <2>3. CASE v # 33
    <3>1. CASE t \in Refusals("types", v)
      <4>1. Refuses("types", t.say)
        BY <3>1, RefusalsAre DEF Said
      <4>. QED  BY <2>1, <2>3, <4>1 DEF Fits, SecurityFollows
    <3>2. CASE /\ t.say # <<>> /\ t.say[1].v # 0 /\ Counted(t.say, "types", "type")
               /\ t.srv.at = "type" /\ t.srv.version = v /\ t.srv.tight = FALSE
      <4>1. SecurityFollows(d, t.srv, t.say)
        BY <2>1, <3>2 DEF SecurityFollows
      <4>. QED  BY <2>1, <2>3, <4>1 DEF Fits
    <3>. QED  BY <2>0, <2>3, <3>1, <3>2, VersionIsAnswered
  <2>. QED  BY <2>2, <2>3
<1>. QED  BY <1>1, <1>2, <1>3 DEF Expects

\* The server has begun with the agreed security type.
LEMMA BegunFits ==
    ASSUME NEW c, c.init = "Authentication", c.version \in {33, 37, 38}, c.tight = FALSE,
           c.ard = "no", c.scheme = sec.VeNCrypt => c.vencrypt = 0,
           NEW s, s.version = c.version, s.tight = (c.scheme = sec.Tight),
           NEW S, Began(Begin(c.scheme, c.version), s.at, S)
    PROVE  Fits(c, s, S)
<1>1. TypeFits(c, s, S)
  BY DEF TypeFits, VeNCryptFits
<1>2. Negotiates(c, s, S)
  BY <1>1 DEF Negotiates
<1>. QED  BY <1>2 DEF Fits

\* The list of security types.
LEMMA TypesFit ==
    ASSUME NEW c, Members \subseteq DOMAIN c, c.init = "Security", c.version \in {37, 38}, Fresh(c),
           NEW s, NEW S \in Seq(Field), Fits(c, s, S)
    PROVE  /\ S # <<>> /\ S[1].f = "types"
           /\ S[1].v = 0 => Fits([c EXCEPT !.init = "SecurityReason"], s, Drop(S, 1))
           /\ S[1].v # 0 =>
                 /\ Counted(S, "types", "type") /\ s.at # "normal"
                 /\ \A x : Expects([c EXCEPT !.scheme = x, !.init = "Authentication"], F("type", x), s)
<1>1. SecurityFollows(c, s, S)
  BY DEF Fits
<1>2. S # <<>> /\ S[1].f = "types"
  BY <1>1 DEF SecurityFollows, Refuses, Counted
<1>3. ASSUME S[1].v = 0 PROVE Fits([c EXCEPT !.init = "SecurityReason"], s, Drop(S, 1))
  <2>1. Reason(Drop(S, 1))
    BY <1>1, <1>3 DEF SecurityFollows, Refuses
  <2>2. [c EXCEPT !.init = "SecurityReason"].init = "SecurityReason"
    BY DEF Members
  <2>. QED  BY <2>1, <2>2 DEF Fits
<1>4. ASSUME S[1].v # 0
      PROVE  /\ Counted(S, "types", "type") /\ s.at = "type" /\ s.version = c.version /\ s.tight = FALSE
  BY <1>1, <1>4 DEF SecurityFollows, Refuses
<1>5. ASSUME S[1].v # 0, NEW x, NEW t \in Replies(F("type", x), s)
      PROVE  Fits([c EXCEPT !.scheme = x, !.init = "Authentication"], t.srv, t.say)
  <2>. DEFINE d == [c EXCEPT !.scheme = x, !.init = "Authentication"]
  <2>1. /\ d.init = "Authentication" /\ d.version = c.version /\ d.scheme = x
        /\ d.tight = FALSE /\ d.ard = "no" /\ d.vencrypt = 0
    BY DEF Members, Fresh
  <2>2. F("type", x).f = "type" /\ F("type", x).v = x
    BY FIs
  <2>3. PICK b \in Begin(x, s.version) : Says(t, b.say, b.at, s.version, s.tight \/ x = sec.Tight)
    BY <2>2, TypeIsAnswered
  <2>4. /\ Began(Begin(x, s.version), t.srv.at, t.say) /\ t.srv.version = s.version
        /\ t.srv.tight = (x = sec.Tight)
    BY <2>3, <1>4, <1>5 DEF Says, Began
  <2>5. s.version = c.version
    BY <1>4, <1>5
  <2>. HIDE DEF d
  <2>6. Fits(d, t.srv, t.say)
    BY <2>1, <2>4, <2>5, BegunFits, ZenonT(60)
  <2>. QED  BY <2>6 DEF d
<1>. QED  BY <1>2, <1>3, <1>4, <1>5 DEF Expects

\* The type that a server of version 3.3 dictates.
LEMMA SchemeFits ==
    ASSUME NEW c, Members \subseteq DOMAIN c, c.init = "Security", c.version = 33, Fresh(c),
           NEW s, NEW S \in Seq(Field), Fits(c, s, S)
    PROVE  /\ S # <<>> /\ S[1].f = "scheme"
           /\ S[1].v = 0 => Fits([c EXCEPT !.init = "SecurityReason"], s, Drop(S, 1))
           /\ S[1].v # 0 =>
                 Fits([c EXCEPT !.scheme = S[1].v, !.init = "Authentication"], s, Drop(S, 1))
<1>1. SecurityFollows33(s, S)
  BY DEF Fits
<1>2. S # <<>> /\ S[1].f = "scheme"
  BY <1>1 DEF SecurityFollows33, Refuses
<1>3. ASSUME S[1].v = 0 PROVE Fits([c EXCEPT !.init = "SecurityReason"], s, Drop(S, 1))
  <2>1. Reason(Drop(S, 1))
    BY <1>1, <1>3 DEF SecurityFollows33, Refuses
  <2>2. [c EXCEPT !.init = "SecurityReason"].init = "SecurityReason"
    BY DEF Members
  <2>. QED  BY <2>1, <2>2 DEF Fits
<1>4. ASSUME S[1].v # 0
      PROVE  Fits([c EXCEPT !.scheme = S[1].v, !.init = "Authentication"], s, Drop(S, 1))
  <2>. DEFINE x == S[1].v
              d == [c EXCEPT !.scheme = x, !.init = "Authentication"]
  <2>1. /\ d.init = "Authentication" /\ d.version = 33 /\ d.scheme = x
        /\ d.tight = FALSE /\ d.ard = "no" /\ d.vencrypt = 0
    BY DEF Members, Fresh
  <2>2. s.version = 33 /\ s.tight = (x = sec.Tight) /\ Began(Begin(x, 33), s.at, Drop(S, 1))
    BY <1>1, <1>4 DEF SecurityFollows33, Refuses
  <2>. HIDE DEF d, x
  <2>3. Fits(d, s, Drop(S, 1))
    BY <2>1, <2>2, BegunFits
  <2>. QED  BY <2>3 DEF d, x
<1>. QED  BY <1>2, <1>3, <1>4

\* What is known of the client and the server when the client negotiates.
LEMMA Negotiating ==
    ASSUME NEW c, c.init = "Authentication", NEW s, NEW S, Fits(c, s, S)
    PROVE  /\ s.version = c.version /\ c.version \in {33, 37, 38}
           /\ c.tight => c.scheme \in {sec.Tight, sec.VNCAuth, sec.UnixLogon}
           /\ s.tight = (c.tight \/ c.scheme = sec.Tight)
           /\ c.scheme # sec.ARD => c.ard = "no"
           /\ TypeFits(c, s, S)
BY DEF Fits, Negotiates

\* A type that the server has begun with, and of which no state is kept.
LEMMA PlainlyBegun ==
    ASSUME NEW c, c.init = "Authentication", NEW s, NEW S, Fits(c, s, S),
           c.scheme \notin {sec.VeNCrypt, sec.Tight, sec.ARD}
    PROVE  \E b \in Begin(c.scheme, c.version) : S = b.say /\ s.at = b.at
BY Negotiating DEF TypeFits, Began

\* The result of a type that needs nothing more.
LEMMA ResultOnlyFits ==
    ASSUME NEW c, c.init = "SecurityResult", c.version \in {33, 37, 38},
           NEW s, s.version = c.version, s.tight = c.tight, s.at = "init",
           NEW S \in Seq(Field), Len(S) = 1, S[1].f = "result", S[1].v = 0
    PROVE  Fits(c, s, S)
<1>1. S # <<>>
  <2>1. Len(S) # 0
    OBVIOUS
  <2>. QED  BY <2>1, EmptyIs, Zenon
<1>2. ResultFollows(c, s, S)
  BY <1>1 DEF ResultFollows
<1>. QED  BY <1>2 DEF Fits

\* One lemma for each state of the negotiation: what comes is what its handler
\* reads, and what comes next fits the state that it leaves.
LEMMA NoneFits ==
    ASSUME NEW c, Members \subseteq DOMAIN c, c.init = "Authentication", c.scheme = sec.None, c.tight \in BOOLEAN,
           NEW s, NEW S, Fits(c, s, S)
    PROVE  Fits([c EXCEPT !.init = IF c.version >= 38 THEN "SecurityResult" ELSE "ClientInitialisation"], s, S)
<1>. DEFINE d == [c EXCEPT !.init = IF c.version >= 38 THEN "SecurityResult" ELSE "ClientInitialisation"]
<1>1. /\ s.version = c.version /\ c.version \in {33, 37, 38} /\ c.tight = FALSE /\ s.tight = FALSE
      /\ S = (IF c.version = 38 THEN <<F("result", 0)>> ELSE <<>>) /\ s.at = "init"
  <2>1. /\ s.version = c.version /\ c.version \in {33, 37, 38} /\ c.tight = FALSE /\ s.tight = FALSE
    BY Negotiating, TypesAre
  <2>2. S = (IF c.version = 38 THEN <<F("result", 0)>> ELSE <<>>) /\ s.at = "init"
    BY PlainlyBegun, BeginIs, TypesAre
  <2>. QED  BY <2>1, <2>2
<1>2. d.version = c.version /\ d.tight = c.tight
  BY DEF Members
<1>3. CASE c.version = 38
  <2>1. d.init = "SecurityResult"
    BY <1>3 DEF Members
  <2>2. S = <<F("result", 0)>>
    BY <1>1, <1>3
  <2>3. S # <<>> /\ Len(S) = 1 /\ S[1] = F("result", 0)
    BY <2>2, ResultFields
  <2>4. S[1].f = "result" /\ S[1].v = 0
    BY <2>3, FIs
  <2>. HIDE DEF d
  <2>5. s.version = d.version /\ s.tight = d.tight /\ d.version = 38 /\ s.at = "init"
    BY <1>1, <1>2, <1>3
  <2>6. ResultFollows(d, s, S)
    BY <2>3, <2>4, <2>5 DEF ResultFollows
  <2>. QED  BY <2>1, <2>6 DEF Fits, d
<1>4. CASE c.version # 38
  <2>1. d.init = "ClientInitialisation"
    BY <1>1, <1>4 DEF Members
  <2>. HIDE DEF d
  <2>. QED  BY <1>1, <1>2, <1>4, <2>1 DEF Fits, d
<1>. QED  BY <1>3, <1>4

\* The last message of a client that has sent its credentials.
LEMMA AnsweredFits ==
    ASSUME NEW c, Members \subseteq DOMAIN c, c.version \in {33, 37, 38},
           NEW s, s.version = c.version, s.tight = c.tight
    PROVE  Expects([c EXCEPT !.init = "SecurityResult"], F("response", 0), s)
<1>. DEFINE d == [c EXCEPT !.init = "SecurityResult"]
<1>1. d.init = "SecurityResult" /\ d.version = c.version /\ d.tight = c.tight
  BY DEF Members
<1>. HIDE DEF d
<1>2. ASSUME NEW t \in Replies(F("response", 0), s) PROVE Fits(d, t.srv, t.say)
  <2>1. F("response", 0).f = "response"
    BY FIs
  <2>2. /\ t.say # <<>> /\ t.say \in Seq(Field)
        /\ t.srv.version = s.version /\ t.srv.tight = s.tight
        /\ \/ t.say = <<F("result", 0)>> /\ t.srv.at = "init"
           \/ t.say[1] = F("result", 1) /\ (s.version # 38 \/ Reason(Drop(t.say, 1)))
    BY <2>1, ResponseIsAnswered
  <2>3. CASE t.say = <<F("result", 0)>> /\ t.srv.at = "init"
    <3>1. Len(t.say) = 1 /\ t.say[1].f = "result" /\ t.say[1].v = 0
      BY <2>3, ResultFields, FIs
    <3>. QED  BY <1>1, <2>2, <2>3, <3>1 DEF Fits, ResultFollows
  <2>4. CASE t.say[1] = F("result", 1) /\ (s.version # 38 \/ Reason(Drop(t.say, 1)))
    <3>1. t.say[1].f = "result" /\ t.say[1].v = 1
      BY <2>4, FIs
    <3>. QED  BY <1>1, <2>2, <2>4, <3>1 DEF Fits, ResultFollows
  <2>. QED  BY <2>2, <2>3, <2>4
<1>. QED  BY <1>2 DEF Expects, d

LEMMA XvpFits ==
    ASSUME NEW c, Members \subseteq DOMAIN c, c.init = "Authentication", c.scheme = sec.XVP, c.tight \in BOOLEAN,
           NEW s, NEW S, Fits(c, s, S)
    PROVE  S = <<>> /\ s.at # "normal" /\ Expects([c EXCEPT !.scheme = sec.VNCAuth], F("xvp", 0), s)
<1>. DEFINE d == [c EXCEPT !.scheme = sec.VNCAuth]
<1>1. s.version = c.version /\ c.version \in {33, 37, 38} /\ c.tight = FALSE /\ s.tight = FALSE /\ c.ard = "no"
  BY Negotiating, TypesAre
<1>2. S = <<>> /\ s.at = "xvp"
  BY PlainlyBegun, BeginIs, TypesAre
<1>3. /\ d.init = "Authentication" /\ d.version = c.version /\ d.scheme = sec.VNCAuth
      /\ d.tight = FALSE /\ d.ard = "no"
  BY <1>1 DEF Members
<1>. HIDE DEF d
<1>4. ASSUME NEW t \in Replies(F("xvp", 0), s) PROVE Fits(d, t.srv, t.say)
  <2>1. \E b \in Begin(sec.VNCAuth, s.version) : Says(t, b.say, b.at, s.version, s.tight)
    BY XvpIsAnswered, FIs
  <2>2. t.srv.version = c.version /\ t.srv.tight = FALSE /\ Began(Begin(sec.VNCAuth, c.version), t.srv.at, t.say)
    BY <1>1, <2>1 DEF Says, Began
  <2>3. t.srv.tight = (d.scheme = sec.Tight) /\ d.scheme # sec.VeNCrypt
    <3>1. d.scheme # sec.Tight /\ d.scheme # sec.VeNCrypt
      BY <1>3, TypesAre
    <3>. QED  BY <2>2, <3>1, Zenon
  <2>4. t.srv.version = d.version /\ d.version \in {33, 37, 38} /\ Began(Begin(d.scheme, d.version), t.srv.at, t.say)
    BY <1>1, <1>3, <2>2
  <2>. QED  BY <1>3, <2>3, <2>4, BegunFits
<1>. QED  BY <1>2, <1>4 DEF Expects, d

\* Plain, and the Unix login of Tight.
LEMMA PlainFits ==
    ASSUME NEW c, Members \subseteq DOMAIN c, c.init = "Authentication",
           c.scheme \in {sec.Plain, sec.UnixLogon}, c.tight \in BOOLEAN,
           NEW s, NEW S, Fits(c, s, S)
    PROVE  S = <<>> /\ s.at # "normal" /\ Expects([c EXCEPT !.init = "SecurityResult"], F("response", 0), s)
<1>1. s.version = c.version /\ c.version \in {33, 37, 38} /\ s.tight = c.tight
  BY Negotiating, TypesAre
<1>2. S = <<>> /\ s.at = "response"
  BY PlainlyBegun, BeginIs, TypesAre
<1>. QED  BY <1>1, <1>2, AnsweredFits

\* VNC authentication and that of MSLogonII.
LEMMA ChallengeFits ==
    ASSUME NEW c, Members \subseteq DOMAIN c, c.init = "Authentication",
           c.scheme \in {sec.VNCAuth, sec.MSLogonII}, c.tight \in BOOLEAN,
           NEW s, NEW S, Fits(c, s, S)
    PROVE  /\ Len(S) = 1 /\ S[1].f = IF c.scheme = sec.VNCAuth THEN "challenge" ELSE "params"
           /\ s.at # "normal" /\ Expects([c EXCEPT !.init = "SecurityResult"], F("response", 0), s)
<1>1. s.version = c.version /\ c.version \in {33, 37, 38} /\ s.tight = c.tight
  BY Negotiating, TypesAre
<1>2. s.at = "response" /\ S = IF c.scheme = sec.VNCAuth THEN <<F("challenge", 0)>> ELSE <<F("params", 0)>>
  BY PlainlyBegun, BeginIs, TypesAre
<1>3. Len(S) = 1 /\ S[1].f = IF c.scheme = sec.VNCAuth THEN "challenge" ELSE "params"
  BY <1>2, FIs
<1>. QED  BY <1>1, <1>2, <1>3, AnsweredFits

\* ARD before its answer is computed, and then.
ARDIsNegotiated(c) ==
    /\ Members \subseteq DOMAIN c /\ c.init = "Authentication" /\ c.scheme = sec.ARD
    /\ c.tight \in BOOLEAN

\* Apple's key, before it is read, while the answer is computed, and when it is ready.
LEMMA ARDKnown ==
    ASSUME NEW c, ARDIsNegotiated(c), NEW s, NEW S, Fits(c, s, S)
    PROVE  /\ s.version = c.version /\ c.version \in {33, 37, 38} /\ c.tight = FALSE /\ s.tight = FALSE
           /\ TypeFits(c, s, S)
<1>. USE DEF ARDIsNegotiated
<1>1. s.version = c.version /\ c.version \in {33, 37, 38} /\ c.tight = FALSE /\ s.tight = FALSE
  BY Negotiating, TypesAre
<1>2. TypeFits(c, s, S)
  BY Negotiating
<1>. QED  BY <1>1, <1>2

LEMMA ARDComputes ==
    ASSUME NEW c, ARDIsNegotiated(c), NEW s, NEW S, Fits(c, s, S), s.at = "response",
           NEW r \in {"computing", "ready"}
    PROVE  Fits([c EXCEPT !.ard = r], s, <<>>)
<1>. USE DEF ARDIsNegotiated
<1>1. s.version = c.version /\ c.version \in {33, 37, 38} /\ c.tight = FALSE /\ s.tight = FALSE
  BY ARDKnown
<1>. DEFINE d == [c EXCEPT !.ard = r]
<1>2. /\ d.init = "Authentication" /\ d.scheme = sec.ARD /\ d.version = c.version
      /\ d.tight = FALSE /\ d.ard # "no"
  BY <1>1 DEF Members
<1>. HIDE DEF d
<1>3. TypeFits(d, s, <<>>)
  BY <1>2, TypesAre DEF TypeFits
<1>4. s.tight = (d.tight \/ d.scheme = sec.Tight) /\ s.version = d.version /\ d.version \in {33, 37, 38}
  <2>1. d.scheme # sec.Tight
    BY <1>2, TypesAre
  <2>. QED  BY <1>1, <1>2, <2>1, Zenon
<1>5. Negotiates(d, s, <<>>)
  BY <1>2, <1>3, <1>4 DEF Negotiates
<1>. QED  BY <1>2, <1>5 DEF Fits, d

LEMMA ARDBefore ==
    ASSUME NEW c, ARDIsNegotiated(c), c.ard = "no", NEW s, NEW S, Fits(c, s, S)
    PROVE  Len(S) = 2 /\ S[1].f = "dh" /\ S[2].f = "keys" /\ Fits([c EXCEPT !.ard = "computing"], s, <<>>)
<1>1. Began(Begin(sec.ARD, c.version), s.at, S)
  <2>1. TypeFits(c, s, S)
    BY ARDKnown
  <2>. QED  BY <2>1, TypesAre DEF TypeFits, ARDIsNegotiated
<1>2. S = <<F("dh", 0), F("keys", 0)>> /\ s.at = "response"
  BY <1>1, BeginIs DEF Began
<1>3. Len(S) = 2 /\ S[1].f = "dh" /\ S[2].f = "keys"
  BY <1>2, FIs
<1>. QED  BY <1>2, <1>3, ARDComputes

ARDIsRead(c) == ARDIsNegotiated(c) /\ c.ard # "no"

LEMMA ARDReads ==
    ASSUME NEW c, ARDIsRead(c), NEW s, NEW S, Fits(c, s, S)
    PROVE  S = <<>> /\ s.at = "response"
<1>1. TypeFits(c, s, S)
  BY ARDKnown DEF ARDIsRead
<1>. QED  BY <1>1, TypesAre DEF TypeFits, ARDIsNegotiated, ARDIsRead

LEMMA ARDAfter ==
    ASSUME NEW c, ARDIsRead(c), NEW s, NEW S, Fits(c, s, S)
    PROVE  /\ s.at # "normal" /\ Fits([c EXCEPT !.ard = "ready"], s, <<>>)
           /\ Expects([c EXCEPT !.init = "SecurityResult"], F("response", 0), s)
<1>. USE DEF ARDIsRead
<1>1. s.at = "response"
  BY ARDReads
<1>2. /\ Members \subseteq DOMAIN c /\ c.init = "Authentication" /\ c.tight \in BOOLEAN
      /\ s.version = c.version /\ c.version \in {33, 37, 38} /\ s.tight = c.tight
  BY ARDKnown DEF ARDIsNegotiated
<1>3. Expects([c EXCEPT !.init = "SecurityResult"], F("response", 0), s)
  BY <1>1, <1>2, AnsweredFits
<1>4. Fits([c EXCEPT !.ard = "ready"], s, <<>>)
  BY <1>1, ARDComputes
<1>. QED  BY <1>1, <1>3, <1>4

LEMMA VeNCryptIsNegotiated ==
    ASSUME NEW c, c.init = "Authentication", c.scheme = sec.VeNCrypt, c.version \in {33, 37, 38},
           c.tight = FALSE, c.ard = "no",
           NEW s, s.version = c.version, s.tight = FALSE, NEW S, VeNCryptFits(c, s, S)
    PROVE  Fits(c, s, S)
<1>1. TypeFits(c, s, S)
  BY DEF TypeFits
<1>2. s.tight = (c.tight \/ c.scheme = sec.Tight)
  <2>1. c.scheme # sec.Tight
    BY TypesAre
  <2>. QED  BY <2>1, Zenon
<1>3. Negotiates(c, s, S)
  BY <1>1, <1>2 DEF Negotiates
<1>. QED  BY <1>3 DEF Fits

\* VeNCrypt, by its states.  The version.
LEMMA VeNCrypt0Fits ==
    ASSUME NEW c, Members \subseteq DOMAIN c, c.init = "Authentication", c.scheme = sec.VeNCrypt,
           c.vencrypt = 0, c.tight \in BOOLEAN, NEW s, NEW S, Fits(c, s, S)
    PROVE  /\ Len(S) = 1 /\ S[1].f = "vencrypt" /\ s.at # "normal"
           /\ Expects([c EXCEPT !.vencrypt = 1], F("vencrypt", 2), s)
<1>. DEFINE d == [c EXCEPT !.vencrypt = 1]
<1>1. s.version = c.version /\ c.version \in {33, 37, 38} /\ c.tight = FALSE /\ c.ard = "no"
  BY Negotiating, TypesAre
<1>2. VeNCryptFits(c, s, S)
  BY Negotiating DEF TypeFits
<1>3. Began(Begin(sec.VeNCrypt, c.version), s.at, S)
  BY <1>2 DEF VeNCryptFits
<1>4. s.at = "vencrypt" /\ \E n \in {1, 2} : S = <<F("vencrypt", n)>>
  BY <1>3, BeginIs DEF Began
<1>5. Len(S) = 1 /\ S[1].f = "vencrypt"
  BY <1>4, FIs
<1>6. /\ d.init = "Authentication" /\ d.scheme = sec.VeNCrypt /\ d.version = c.version
      /\ d.vencrypt = 1 /\ d.tight = FALSE /\ d.ard = "no"
  BY <1>1 DEF Members
<1>. HIDE DEF d
<1>7. ASSUME NEW t \in Replies(F("vencrypt", 2), s) PROVE Fits(d, t.srv, t.say)
  <2>1. F("vencrypt", 2).f = "vencrypt"
    BY FIs
  <2>2. /\ t.say \in Seq(Field) /\ t.srv.version = d.version /\ t.srv.tight = FALSE
        /\ \/ t.say = <<F("ack", 1)>>
           \/ /\ t.say # <<>> /\ t.say[1] = F("ack", 0) /\ t.srv.at = "subtype"
              /\ Counted(Drop(t.say, 1), "subtypes", "subtype")
    <3>1. /\ t.say \in Seq(Field) /\ t.srv.version = s.version /\ t.srv.tight = FALSE
          /\ \/ t.say = <<F("ack", 1)>>
             \/ /\ t.say # <<>> /\ t.say[1] = F("ack", 0) /\ t.srv.at = "subtype"
                /\ Counted(Drop(t.say, 1), "subtypes", "subtype")
      BY <2>1, VeNCryptIsAnswered, Zenon
    <3>. QED  BY <1>1, <1>6, <3>1
  <2>3. CASE t.say = <<F("ack", 1)>>
    <3>1. Len(t.say) = 1 /\ t.say[1].f = "ack" /\ t.say[1].v = 1
      BY <2>3, FIs
    <3>2. VeNCryptFits(d, t.srv, t.say)
      BY <1>6, <3>1 DEF VeNCryptFits
    <3>. QED  BY <1>1, <1>6, <2>2, <3>2, VeNCryptIsNegotiated
  <2>4. CASE /\ t.say # <<>> /\ t.say[1] = F("ack", 0) /\ t.srv.at = "subtype"
             /\ Counted(Drop(t.say, 1), "subtypes", "subtype")
    <3>1. t.say # <<>> /\ t.say[1].f = "ack" /\ t.say[1].v = 0
      BY <2>4, FIs
    <3>2. VeNCryptFits(d, t.srv, t.say)
      BY <1>6, <2>4, <3>1 DEF VeNCryptFits
    <3>. QED  BY <1>1, <1>6, <2>2, <3>2, VeNCryptIsNegotiated
  <2>. QED  BY <2>2, <2>3, <2>4
<1>. QED  BY <1>4, <1>5, <1>7 DEF Expects, d

\* The server's acknowledgement.
LEMMA VeNCrypt1Fits ==
    ASSUME NEW c, Members \subseteq DOMAIN c, c.init = "Authentication", c.scheme = sec.VeNCrypt,
           c.vencrypt = 1, c.tight \in BOOLEAN, NEW s, NEW S, Fits(c, s, S)
    PROVE  /\ Len(S) # 0 /\ S[1].f = "ack"
           /\ S[1].v = 0 => Fits([c EXCEPT !.vencrypt = 2], s, Drop(S, 1))
<1>. DEFINE d == [c EXCEPT !.vencrypt = 2]
<1>1. /\ s.version = c.version /\ c.version \in {33, 37, 38} /\ c.tight = FALSE /\ c.ard = "no"
      /\ s.tight = FALSE
  BY Negotiating, TypesAre
<1>2. VeNCryptFits(c, s, S)
  BY Negotiating DEF TypeFits
<1>3. /\ Len(S) # 0 /\ S[1].f = "ack"
      /\ S[1].v = 0 => s.at = "subtype" /\ Counted(Drop(S, 1), "subtypes", "subtype")
  BY <1>2 DEF VeNCryptFits
<1>4. /\ d.init = "Authentication" /\ d.scheme = sec.VeNCrypt /\ d.version = c.version
      /\ d.vencrypt = 2 /\ d.tight = FALSE /\ d.ard = "no"
  BY <1>1 DEF Members
<1>. HIDE DEF d
<1>5. ASSUME S[1].v = 0 PROVE Fits(d, s, Drop(S, 1))
  <2>1. VeNCryptFits(d, s, Drop(S, 1))
    BY <1>3, <1>4, <1>5 DEF VeNCryptFits
  <2>. QED  BY <1>1, <1>4, <2>1, VeNCryptIsNegotiated
<1>. QED  BY <1>3, <1>5 DEF d

\* The number of subtypes.
LEMMA VeNCrypt2Fits ==
    ASSUME NEW c, Members \subseteq DOMAIN c, c.init = "Authentication", c.scheme = sec.VeNCrypt,
           c.vencrypt = 2, c.tight \in BOOLEAN, NEW s, NEW S \in Seq(Field), Fits(c, s, S)
    PROVE  /\ S # <<>> /\ S[1].f = "subtypes"
           /\ S[1].v >= 1 =>
                 Fits([c EXCEPT !.subtypes = S[1].v, !.vencrypt = 3], s, Drop(S, 1))
<1>. DEFINE d == [c EXCEPT !.subtypes = S[1].v, !.vencrypt = 3]
<1>1. /\ s.version = c.version /\ c.version \in {33, 37, 38} /\ c.tight = FALSE /\ c.ard = "no"
      /\ s.tight = FALSE
  BY Negotiating, TypesAre
<1>2. VeNCryptFits(c, s, S)
  BY Negotiating DEF TypeFits
<1>3. s.at = "subtype" /\ Counted(S, "subtypes", "subtype")
  BY <1>2 DEF VeNCryptFits
<1>4. /\ d.init = "Authentication" /\ d.scheme = sec.VeNCrypt /\ d.version = c.version
      /\ d.vencrypt = 3 /\ d.tight = FALSE /\ d.ard = "no" /\ d.subtypes = S[1].v
  BY <1>1 DEF Members
<1>. HIDE DEF d
<1>5. ASSUME S[1].v >= 1 PROVE Fits(d, s, Drop(S, 1))
  <2>1. /\ S # <<>> /\ S[1].v = Len(S) - 1 /\ \A k \in 2..Len(S) : S[k].f = "subtype"
    BY <1>3 DEF Counted
  <2>2. /\ Len(Drop(S, 1)) = Len(S) - 1 /\ \A k \in 1..(Len(S) - 1) : Drop(S, 1)[k] = S[1 + k]
    <3>1. 1 \in 0..Len(S)
      BY <1>5, <2>1
    <3>. QED  BY <3>1, DropIs
  <2>3. \A k \in 1..Len(Drop(S, 1)) : Drop(S, 1)[k].f = "subtype"
    BY <2>1, <2>2
  <2>4. Drop(S, 1) # <<>>
    BY <1>5, <2>1, <2>2
  <2>5. VeNCryptFits(d, s, Drop(S, 1))
    BY <1>3, <1>4, <2>1, <2>2, <2>3, <2>4 DEF VeNCryptFits
  <2>. QED  BY <1>1, <1>4, <2>5, VeNCryptIsNegotiated
<1>. QED  BY <1>3, <1>5 DEF d, Counted

\* The subtypes; one of them, but VeNCrypt, is chosen.
Subtypes(c) ==
    /\ Members \subseteq DOMAIN c /\ c.init = "Authentication" /\ c.scheme = sec.VeNCrypt
    /\ c.vencrypt = 3 /\ c.tight \in BOOLEAN

LEMMA VeNCrypt3Fits ==
    ASSUME NEW c, Subtypes(c), NEW s, NEW S, Fits(c, s, S)
    PROVE  /\ Len(S) = c.subtypes /\ s.at # "normal"
           /\ \A k \in 1..Len(S) : S[k].f = "subtype"
           /\ \A x : x # sec.VeNCrypt =>
                 Expects([c EXCEPT !.scheme = x, !.vencrypt = 4], F("type", x), s)
<1>. USE DEF Subtypes
<1>1. /\ s.version = c.version /\ c.version \in {33, 37, 38} /\ c.tight = FALSE /\ c.ard = "no"
      /\ s.tight = FALSE
  BY Negotiating, TypesAre
<1>2. VeNCryptFits(c, s, S)
  BY Negotiating DEF TypeFits
<1>3. /\ Len(S) = c.subtypes /\ s.at = "subtype"
      /\ \A k \in 1..Len(S) : S[k].f = "subtype"
  BY <1>2 DEF VeNCryptFits
<1>4. ASSUME NEW x, x # sec.VeNCrypt, NEW t \in Replies(F("type", x), s)
      PROVE  Fits([c EXCEPT !.scheme = x, !.vencrypt = 4], t.srv, t.say)
  <2>. DEFINE d == [c EXCEPT !.scheme = x, !.vencrypt = 4]
  <2>1. /\ d.init = "Authentication" /\ d.version = c.version /\ d.scheme = x
        /\ d.tight = FALSE /\ d.ard = "no"
    BY <1>1 DEF Members
  <2>2. F("type", x).f = "type" /\ F("type", x).v = x
    BY FIs
  <2>3. PICK b \in Begin(x, s.version) : Says(t, b.say, b.at, s.version, s.tight \/ x = sec.Tight)
    BY <1>4, <2>2, TypeIsAnswered
  <2>4. /\ Began(Begin(x, s.version), t.srv.at, t.say) /\ t.srv.version = s.version
        /\ t.srv.tight = (x = sec.Tight)
    BY <2>3, <1>1 DEF Says, Began
  <2>. HIDE DEF d
  <2>5. Fits(d, t.srv, t.say)
    BY <1>1, <1>4, <2>1, <2>4, BegunFits
  <2>. QED  BY <2>5 DEF d
<1>. QED  BY <1>3, <1>4 DEF Expects

\* The second pass of Tight, when the tunnels are agreed on.
LEMMA AuthsFollow ==
    ASSUME NEW c, c.init = "Authentication", c.scheme = sec.Tight, c.version \in {33, 37, 38},
           c.tight = TRUE, c.ard = "no",
           NEW s, s.version = c.version, s.tight = TRUE, NEW S, Began(TightAuths(c.version), s.at, S)
    PROVE  Fits(c, s, S)
<1>1. TypeFits(c, s, S)
  <2>1. c.scheme # sec.VeNCrypt
    BY TypesAre
  <2>. QED  BY <2>1 DEF TypeFits
<1>2. s.tight = (c.tight \/ c.scheme = sec.Tight)
  BY Zenon
<1>3. Negotiates(c, s, S)
  BY <1>1, <1>2 DEF Negotiates
<1>. QED  BY <1>3 DEF Fits

\* Tight: the tunnels.
LEMMA TunnelsFit ==
    ASSUME NEW c, Members \subseteq DOMAIN c, c.init = "Authentication", c.scheme = sec.Tight,
           c.tight = FALSE, NEW s, NEW S, Fits(c, s, S)
    PROVE  /\ S \in Seq(Field) /\ S # <<>> /\ S[1].f = "tunnels"
           /\ \/ S[1].v = 0 /\ Fits([c EXCEPT !.tight = TRUE], s, Drop(S, 1))
              \/ /\ S[1].v = 1 /\ Len(S) = 2 /\ S[2].f = "tunnel" /\ s.at # "normal"
                 /\ Expects([c EXCEPT !.tight = TRUE], F("tunnel", 0), s)
<1>. DEFINE d == [c EXCEPT !.tight = TRUE]
<1>1. s.version = c.version /\ c.version \in {33, 37, 38} /\ c.ard = "no" /\ s.tight = TRUE
  <2>1. s.version = c.version /\ c.version \in {33, 37, 38} /\ (c.scheme # sec.ARD => c.ard = "no")
    BY Negotiating
  <2>2. c.scheme # sec.ARD
    BY TypesAre
  <2>3. s.tight = TRUE
    BY Negotiating, Zenon
  <2>. QED  BY <2>1, <2>2, <2>3
<1>2. Began(Begin(sec.Tight, c.version), s.at, S)
  <2>1. TypeFits(c, s, S)
    BY Negotiating
  <2>2. c.scheme # sec.VeNCrypt
    BY TypesAre
  <2>. QED  BY <2>1, <2>2 DEF TypeFits
<1>3. PICK b \in Begin(sec.Tight, c.version) : S = b.say /\ s.at = b.at
  BY <1>2 DEF Began
<1>4. /\ d.init = "Authentication" /\ d.version = c.version /\ d.scheme = sec.Tight
      /\ d.tight = TRUE /\ d.ard = "no"
  BY <1>1 DEF Members
<1>. HIDE DEF d
<1>5. ASSUME NEW a \in TightAuths(c.version), S = <<F("tunnels", 0)>> \o a.say, s.at = a.at
      PROVE  /\ S \in Seq(Field) /\ S # <<>> /\ S[1].f = "tunnels" /\ S[1].v = 0
             /\ Fits(d, s, Drop(S, 1))
  <2>1. F("tunnels", 0) \in Field /\ a.say \in Seq(Field)
    BY FieldIs, BeginFields DEF Said
  <2>2. S \in Seq(Field) /\ S # <<>> /\ S[1] = F("tunnels", 0) /\ Drop(S, 1) = a.say
    BY <1>5, <2>1, OneBehind
  <2>3. Began(TightAuths(c.version), s.at, Drop(S, 1))
    BY <1>5, <2>2 DEF Began
  <2>4. Fits(d, s, Drop(S, 1))
    BY <1>1, <1>4, <2>3, AuthsFollow
  <2>. QED  BY <2>2, <2>4, FIs
<1>6. ASSUME NEW n \in {0, 1, 2}, S = <<F("tunnels", 1), F("tunnel", n)>>, s.at = "tunnel"
      PROVE  /\ S \in Seq(Field) /\ S # <<>> /\ S[1].f = "tunnels"
             /\ S[1].v = 1 /\ Len(S) = 2 /\ S[2].f = "tunnel" /\ s.at # "normal"
             /\ Expects(d, F("tunnel", 0), s)
  <2>1. F("tunnels", 1) \in Field /\ F("tunnel", n) \in Field
    BY FieldIs DEF Said
  <2>2. S \in Seq(Field) /\ Len(S) = 2 /\ S[1] = F("tunnels", 1) /\ S[2] = F("tunnel", n)
    BY <1>6, <2>1, FewAre
  <2>3. ASSUME NEW t \in Replies(F("tunnel", 0), s) PROVE Fits(d, t.srv, t.say)
    <3>1. F("tunnel", 0).f = "tunnel"
      BY FIs
    <3>2. PICK a \in TightAuths(s.version) : Says(t, a.say, a.at, s.version, TRUE)
      BY <3>1, TunnelIsAnswered
    <3>3. Began(TightAuths(c.version), t.srv.at, t.say) /\ t.srv.version = c.version /\ t.srv.tight = TRUE
      BY <1>1, <3>2 DEF Says, Began
    <3>. QED  BY <1>1, <1>4, <3>3, AuthsFollow
  <2>. QED  BY <1>6, <2>2, <2>3, FIs DEF Expects
<1>7. \/ \E a \in TightAuths(c.version) : b.say = <<F("tunnels", 0)>> \o a.say /\ b.at = a.at
      \/ b.at = "tunnel" /\ \E n \in {0, 1, 2} : b.say = <<F("tunnels", 1), F("tunnel", n)>>
  BY BeginIs
<1>. QED  BY <1>3, <1>5, <1>6, <1>7 DEF d

\* Tight: the types of authentication.
LEMMA AuthsFit ==
    ASSUME NEW c, Members \subseteq DOMAIN c, c.init = "Authentication", c.scheme = sec.Tight,
           c.tight = TRUE, NEW s, NEW S, Fits(c, s, S)
    PROVE  /\ S \in Seq(Field) /\ S # <<>> /\ S[1].f = "auths"
           /\ \/ S[1].v = 0 /\ Fits([c EXCEPT !.init = "SecurityResult"], s, Drop(S, 1))
              \/ /\ S[1].v = 1 /\ Len(S) = 2 /\ S[2].f = "auth" /\ s.at # "normal"
                 /\ S[2].v = 1 => Expects([c EXCEPT !.init = "SecurityResult"], F("auth", 1), s)
                 /\ S[2].v \in {sec.VNCAuth, sec.UnixLogon} =>
                       Expects([c EXCEPT !.scheme = S[2].v], F("auth", S[2].v), s)
<1>1. s.version = c.version /\ c.version \in {33, 37, 38} /\ c.ard = "no" /\ s.tight = TRUE
  <2>1. s.version = c.version /\ c.version \in {33, 37, 38} /\ (c.scheme # sec.ARD => c.ard = "no")
    BY Negotiating
  <2>2. c.scheme # sec.ARD
    BY TypesAre
  <2>3. s.tight = TRUE
    BY Negotiating, Zenon
  <2>. QED  BY <2>1, <2>2, <2>3
<1>2. Began(TightAuths(c.version), s.at, S)
  <2>1. TypeFits(c, s, S)
    BY Negotiating
  <2>2. c.scheme # sec.VeNCrypt
    BY TypesAre
  <2>. QED  BY <2>1, <2>2 DEF TypeFits
<1>3. PICK b \in TightAuths(c.version) : S = b.say /\ s.at = b.at
  BY <1>2 DEF Began
<1>. DEFINE e == [c EXCEPT !.init = "SecurityResult"]
<1>4. e.init = "SecurityResult" /\ e.version = c.version /\ e.tight = TRUE
  BY DEF Members
<1>. HIDE DEF e
<1>5. ASSUME S = <<F("auths", 0), F("result", 0)>>, s.at = "init"
      PROVE  /\ S \in Seq(Field) /\ S # <<>> /\ S[1].f = "auths" /\ S[1].v = 0
             /\ Fits(e, s, Drop(S, 1))
  <2>1. F("auths", 0) \in Field /\ F("result", 0) \in Field
    BY FieldIs DEF Said
  <2>2. S \in Seq(Field) /\ Len(S) = 2 /\ S[1] = F("auths", 0) /\ S[2] = F("result", 0)
    BY <1>5, <2>1, FewAre
  <2>3. Drop(S, 1) \in Seq(Field) /\ Len(Drop(S, 1)) = 1 /\ Drop(S, 1)[1] = F("result", 0)
    <3>1. 1 \in 0..Len(S) /\ Len(S) - 1 = 1
      BY <2>2
    <3>2. /\ Drop(S, 1) \in Seq(Field) /\ Len(Drop(S, 1)) = Len(S) - 1
          /\ \A k \in 1..(Len(S) - 1) : Drop(S, 1)[k] = S[1 + k]
      BY <2>2, <3>1, DropIs
    <3>. QED  BY <2>2, <3>1, <3>2
  <2>4. Drop(S, 1)[1].f = "result" /\ Drop(S, 1)[1].v = 0
    BY <2>3, FIs
  <2>5. Fits(e, s, Drop(S, 1))
    BY <1>1, <1>4, <1>5, <2>3, <2>4, ResultOnlyFits
  <2>6. S # <<>> /\ S[1].f = "auths" /\ S[1].v = 0
    BY <2>2, FIs
  <2>. QED  BY <2>2, <2>5, <2>6
<1>6. ASSUME NEW a \in {1, 2, 129, 7}, S = <<F("auths", 1), F("auth", a)>>, s.at = "auth"
      PROVE  /\ S \in Seq(Field) /\ S # <<>> /\ S[1].f = "auths"
             /\ S[1].v = 1 /\ Len(S) = 2 /\ S[2].f = "auth" /\ s.at # "normal"
             /\ S[2].v = 1 => Expects(e, F("auth", 1), s)
             /\ S[2].v \in {sec.VNCAuth, sec.UnixLogon} =>
                   Expects([c EXCEPT !.scheme = S[2].v], F("auth", S[2].v), s)
  <2>1. F("auths", 1) \in Field /\ F("auth", a) \in Field
    BY FieldIs DEF Said
  <2>2. S \in Seq(Field) /\ Len(S) = 2 /\ S[1] = F("auths", 1) /\ S[2] = F("auth", a)
    BY <1>6, <2>1, FewAre
  <2>3. ASSUME NEW t \in Replies(F("auth", 1), s) PROVE Fits(e, t.srv, t.say)
    <3>1. F("auth", 1).f = "auth" /\ F("auth", 1).v = 1
      BY FIs
    <3>2. Says(t, <<F("result", 0)>>, "init", s.version, TRUE)
      BY <3>1, AuthIsAnswered
    <3>3. /\ t.say \in Seq(Field) /\ Len(t.say) = 1 /\ t.say[1].f = "result" /\ t.say[1].v = 0
          /\ t.srv.at = "init" /\ t.srv.version = c.version /\ t.srv.tight = TRUE
      BY <1>1, <3>2, FIs DEF Says
    <3>. QED  BY <1>1, <1>4, <3>3, ResultOnlyFits
  <2>4. ASSUME NEW x \in {sec.VNCAuth, sec.UnixLogon}, NEW t \in Replies(F("auth", x), s)
        PROVE  Fits([c EXCEPT !.scheme = x], t.srv, t.say)
    <3>. DEFINE d == [c EXCEPT !.scheme = x]
    <3>1. /\ d.init = "Authentication" /\ d.version = c.version /\ d.scheme = x
          /\ d.tight = TRUE /\ d.ard = "no"
      BY <1>1 DEF Members
    <3>2. F("auth", x).f = "auth" /\ F("auth", x).v = x /\ x # 1
      BY FIs, TypesAre
    <3>3. PICK g \in Begin(x, s.version) : Says(t, g.say, g.at, s.version, TRUE)
      BY <3>2, AuthIsAnswered, Zenon
    <3>4. Began(Begin(x, c.version), t.srv.at, t.say) /\ t.srv.version = c.version /\ t.srv.tight = TRUE
      BY <1>1, <3>3 DEF Says, Began
    <3>. HIDE DEF d
    <3>5. d.scheme \notin {sec.VeNCrypt, sec.Tight, sec.ARD}
      BY <3>1, TypesAre
    <3>6. TypeFits(d, t.srv, t.say)
      BY <3>1, <3>4, <3>5 DEF TypeFits
    <3>7. t.srv.tight = (d.tight \/ d.scheme = sec.Tight) /\ t.srv.version = d.version
      BY <3>1, <3>4, Zenon
    <3>8. Negotiates(d, t.srv, t.say)
      BY <1>1, <3>1, <3>6, <3>7 DEF Negotiates
    <3>. QED  BY <3>1, <3>8 DEF Fits, d
  <2>. QED  BY <1>6, <2>2, <2>3, <2>4, FIs DEF Expects
<1>7. \/ b.say = <<F("auths", 0), F("result", 0)>> /\ b.at = "init"
      \/ b.at = "auth" /\ \E a \in {1, 2, 129, 7} : b.say = <<F("auths", 1), F("auth", a)>>
  BY TightAuthsAre
<1>. QED  BY <1>3, <1>5, <1>6, <1>7 DEF e

\* The end of the handshake.
LEMMA ResultFits ==
    ASSUME NEW c, Members \subseteq DOMAIN c, c.init = "SecurityResult",
           NEW s, NEW S \in Seq(Field), Fits(c, s, S)
    PROVE  /\ S # <<>> /\ S[1].f = "result"
           /\ S[1].v = 0 => Fits([c EXCEPT !.init = "ClientInitialisation"], s, Drop(S, 1))
           /\ S[1].v # 0 /\ c.version >= 38 => Fits([c EXCEPT !.init = "SecurityReason"], s, Drop(S, 1))
<1>1. ResultFollows(c, s, S)
  BY DEF Fits
<1>2. ASSUME S[1].v = 0 PROVE Fits([c EXCEPT !.init = "ClientInitialisation"], s, Drop(S, 1))
  <2>1. Len(S) = 1 /\ s.at = "init" /\ s.tight = c.tight
    BY <1>1, <1>2 DEF ResultFollows
  <2>2. Drop(S, 1) = <<>>
    BY <2>1, AllDropped
  <2>3. /\ [c EXCEPT !.init = "ClientInitialisation"].init = "ClientInitialisation"
        /\ [c EXCEPT !.init = "ClientInitialisation"].tight = c.tight
    BY DEF Members
  <2>. QED  BY <2>1, <2>2, <2>3 DEF Fits
<1>3. ASSUME S[1].v # 0, c.version >= 38
      PROVE  Fits([c EXCEPT !.init = "SecurityReason"], s, Drop(S, 1))
  <2>1. Reason(Drop(S, 1))
    BY <1>1, <1>3 DEF ResultFollows
  <2>2. [c EXCEPT !.init = "SecurityReason"].init = "SecurityReason"
    BY DEF Members
  <2>. QED  BY <2>1, <2>2 DEF Fits
<1>. QED  BY <1>1, <1>2, <1>3 DEF ResultFollows

\* The client's last word, and the server's.
LEMMA InitFits ==
    ASSUME NEW c, Members \subseteq DOMAIN c, c.init = "ClientInitialisation",
           NEW s, NEW S, Fits(c, s, S)
    PROVE  /\ S = <<>> /\ s.at # "normal"
           /\ Expects([c EXCEPT !.init = "ServerInitialisation"], F("init", 0), s)
<1>. DEFINE d == [c EXCEPT !.init = "ServerInitialisation"]
<1>1. S = <<>> /\ s.at = "init" /\ s.tight = c.tight
  BY DEF Fits
<1>2. d.init = "ServerInitialisation" /\ d.tight = c.tight
  BY DEF Members
<1>. HIDE DEF d
<1>3. ASSUME NEW t \in Replies(F("init", 0), s) PROVE Fits(d, t.srv, t.say)
  <2>1. t.say = Introduction(s.tight) /\ t.srv.at = "normal"
    BY InitIsAnswered, FIs
  <2>. QED  BY <1>1, <1>2, <2>1 DEF Fits
<1>. QED  BY <1>1, <1>3 DEF Expects, d

------------------------------------------------------------------------------
(* The steps of the handshake.                                             *)

Typed ==
    /\ rQ \in Seq(Field) /\ net \in Seq(Field)
    /\ Members \cup {"asked", "creds", "resume"} \subseteq DOMAIN rfb

\* Client and server agree.  The client has no credentials to ask for before it has
\* chosen a type, and a call in which it chooses has something to read.
Negotiated ==
    /\ Agree(rfb, srv, Coming, up)
    /\ rfb.tight \in BOOLEAN
    /\ srv.at = "start" => rfb.init = "ProtocolVersion" /\ up = <<>>
    /\ rfb.init \in {"ProtocolVersion", "Security"} =>
          Fresh(rfb) /\ rfb.asked = {} /\ rfb.resume = FALSE /\ running # "once"
    /\ rfb.init = "Security" /\ running # "no" => rQ # <<>>

\* The subtypes of VeNCrypt have been counted.
Counting == rfb.vencrypt = 3 => rfb.subtypes \in Nat \ {0}

\* What the next call of _initMsg may come to.
Fine == ~misread' /\ Typed' /\ (rfb'.st = "connecting" => Negotiated')

\* The queue is the beginning of what comes.
LEMMA ComingIs ==
    ASSUME Typed
    PROVE  /\ Coming \in Seq(Field) /\ Len(rQ) \in Nat /\ Len(net) \in Nat
           /\ Len(Coming) = Len(rQ) + Len(net)
           /\ \A k \in 1..Len(rQ) : Coming[k] = rQ[k]
<1>1. rQ \in Seq(Field) /\ net \in Seq(Field)
  BY DEF Typed
<1>2. /\ Coming \in Seq(Field) /\ Len(Coming) = Len(rQ) + Len(net)
      /\ \A k \in 1..(Len(rQ) + Len(net)) :
            Coming[k] = IF k <= Len(rQ) THEN rQ[k] ELSE net[k - Len(rQ)]
  BY <1>1, ConcatProperties DEF Coming
<1>3. Len(rQ) \in Nat /\ Len(net) \in Nat
  BY <1>1, EmptyIs
<1>. QED  BY <1>2, <1>3

\* Shifting fields off the queue takes them off what comes.
LEMMA Consumed ==
    ASSUME Typed, NEW n \in 0..Len(rQ), rQ' = Drop(rQ, n), net' = net
    PROVE  rQ' \in Seq(Field) /\ Coming' = Drop(Coming, n)
<1>1. rQ \in Seq(Field) /\ net \in Seq(Field)
  BY DEF Typed
<1>2. Len(rQ) \in Nat /\ Len(net) \in Nat /\ n \in Nat
  BY <1>1, EmptyIs
<1>3. /\ Coming \in Seq(Field) /\ Len(Coming) = Len(rQ) + Len(net)
      /\ \A k \in 1..(Len(rQ) + Len(net)) :
            Coming[k] = IF k <= Len(rQ) THEN rQ[k] ELSE net[k - Len(rQ)]
  BY <1>1, ConcatProperties DEF Coming
<1>4. /\ rQ' \in Seq(Field) /\ Len(rQ') = Len(rQ) - n
      /\ \A k \in 1..(Len(rQ) - n) : rQ'[k] = rQ[n + k]
  BY <1>1, DropIs
<1>5. /\ Coming' \in Seq(Field) /\ Len(Coming') = Len(rQ') + Len(net)
      /\ \A k \in 1..(Len(rQ') + Len(net)) :
            Coming'[k] = IF k <= Len(rQ') THEN rQ'[k] ELSE net[k - Len(rQ')]
  <2>1. Coming' = rQ' \o net
    BY DEF Coming
  <2>. QED  BY <1>1, <1>4, <2>1, ConcatProperties
<1>6. n \in 0..Len(Coming)
  BY <1>2, <1>3
<1>7. /\ Drop(Coming, n) \in Seq(Field) /\ Len(Drop(Coming, n)) = Len(Coming) - n
      /\ \A k \in 1..(Len(Coming) - n) : Drop(Coming, n)[k] = Coming[n + k]
  BY <1>3, <1>6, DropIs
<1>. DEFINE S == Coming
            T == Coming'
            q == rQ'
<1>. HIDE DEF S, T, q
<1>8. Len(T) = Len(Drop(S, n))
  BY <1>2, <1>3, <1>4, <1>5, <1>7 DEF S, T, q
<1>9. ASSUME NEW k \in 1..Len(T) PROVE T[k] = Drop(S, n)[k]
  <2>0. k \in 1..(Len(rQ) - n + Len(net)) /\ k \in Nat
    BY <1>2, <1>4, <1>5 DEF T
  <2>1. CASE k <= Len(rQ) - n
    <3>1. T[k] = rQ[n + k]
      <4>1. k \in 1..(Len(rQ) - n) /\ k \in 1..(Len(rQ') + Len(net)) /\ k <= Len(rQ')
        BY <1>2, <1>4, <2>0, <2>1
      <4>. QED  BY <1>4, <1>5, <4>1 DEF T
    <3>2. S[n + k] = rQ[n + k] /\ Drop(S, n)[k] = S[n + k]
      <4>1. n + k \in 1..(Len(rQ) + Len(net)) /\ n + k <= Len(rQ) /\ k \in 1..(Len(Coming) - n)
        BY <1>2, <1>3, <2>0, <2>1
      <4>. QED  BY <1>3, <1>7, <4>1 DEF S
    <3>. QED  BY <3>1, <3>2
  <2>2. CASE ~(k <= Len(rQ) - n)
    <3>1. T[k] = net[k - (Len(rQ) - n)]
      BY <1>2, <1>4, <1>5, <2>0, <2>2 DEF T
    <3>2. S[n + k] = net[(n + k) - Len(rQ)] /\ Drop(S, n)[k] = S[n + k]
      BY <1>2, <1>3, <1>7, <2>0, <2>2, SMTT(60) DEF S
    <3>3. k - (Len(rQ) - n) = (n + k) - Len(rQ)
      BY <1>2, <2>0
    <3>. QED  BY <3>1, <3>2, <3>3
  <2>. QED  BY <2>1, <2>2
<1>10. T = Drop(S, n)
  BY <1>5, <1>7, <1>8, <1>9, SeqEqual DEF S, T
<1>. QED  BY <1>4, <1>10 DEF S, T

\* A handler that waits has put back what it shifted.
LEMMA Waited ==
    ASSUME Typed, Negotiated, rfb.st = "connecting", ~misread, NEW n \in Nat, Waits(n, n),
           UNCHANGED <<net, srv>>
    PROVE  Fine
<1>1. rQ' = rQ
  <2>1. n - n = 0
    OBVIOUS
  <2>2. rQ' = Drop(rQ, 0)
    BY <2>1 DEF Waits
  <2>3. rQ \in Seq(Field) /\ 0 \in 0..Len(rQ)
    BY EmptyIs DEF Typed
  <2>4. /\ rQ' \in Seq(Field) /\ Len(rQ') = Len(rQ)
        /\ \A k \in 1..Len(rQ) : rQ'[k] = rQ[k]
    BY <2>2, <2>3, DropIs
  <2>. QED  BY <2>3, <2>4, SeqEqual
<1>2. rfb' = rfb /\ running' = "no" /\ up' = up /\ misread' = misread
  BY DEF Waits, Return
<1>3. Coming' = Coming
  BY <1>1 DEF Coming
<1>. QED  BY <1>1, <1>2, <1>3 DEF Fine, Typed, Negotiated

\* What a call comes to that leaves the client in a later state of the handshake.
LEMMA Advanced ==
    ASSUME Typed, Negotiated, srv.at # "start", UNCHANGED <<net, srv>>,
           rQ' \in Seq(Field), ~misread', DOMAIN rfb' = DOMAIN rfb, rfb'.tight \in BOOLEAN,
           rfb'.init \notin {"ProtocolVersion", "Security"}, Agree(rfb', srv, Coming', up')
    PROVE  Fine
BY DEF Fine, Typed, Negotiated

\* And one that gives up.
LEMMA GivenUp ==
    ASSUME Typed, net' = net, rQ' \in Seq(Field), ~misread', NEW d, rfb' = fail(d), DOMAIN d = DOMAIN rfb
    PROVE  Fine
<1>1. DOMAIN rfb' = DOMAIN rfb /\ rfb'.st = "over"
  BY DEF fail, Typed, Members
<1>. QED  BY <1>1 DEF Fine, Typed

\* A call that reads finds what the client expects, and nothing under way.
LEMMA Found ==
    ASSUME Typed, Negotiated, Len(rQ) # 0
    PROVE  up = <<>> /\ Fits(rfb, srv, Coming) /\ Coming # <<>> /\ rQ[1] = Coming[1]
<1>1. Coming \in Seq(Field) /\ Len(Coming) = Len(rQ) + Len(net) /\ Len(rQ) \in Nat /\ Len(net) \in Nat
  BY ComingIs
<1>2. Len(Coming) # 0 /\ 1 \in 1..Len(rQ)
  BY <1>1
<1>3. Coming # <<>> /\ rQ[1] = Coming[1]
  BY <1>1, <1>2, ComingIs, EmptyIs, Zenon
<1>4. Agree(rfb, srv, Coming, up)
  BY DEF Negotiated
<1>. QED  BY <1>3, <1>4, ReadsAlone, Zenon

\* Fields are taken for what they are.
LEMMA Shifts ==
    ASSUME Typed, ~misread, NEW l, Len(l) \in Nat, Len(l) <= Len(rQ),
           \A k \in 1..Len(l) : Coming[k].f = l[k], Shift(l), net' = net
    PROVE  ~misread' /\ rQ' \in Seq(Field) /\ Coming' = Drop(Coming, Len(l))
<1>1. Len(rQ) \in Nat /\ Len(l) \in 0..Len(rQ) /\ \A k \in 1..Len(l) : k \in 1..Len(rQ)
  BY ComingIs
<1>2. \A k \in 1..Len(l) : rQ[k].f = l[k]
  BY <1>1, ComingIs, Zenon
<1>3. ~misread'
  BY <1>2, Zenon DEF Shift
<1>4. rQ' = Drop(rQ, Len(l))
  BY DEF Shift
<1>. QED  BY <1>1, <1>3, <1>4, Consumed

\* One field, two, and a counted list.
LEMMA ShiftsOne ==
    ASSUME Typed, Len(rQ) # 0, ~misread, NEW f, Coming[1].f = f, Shift(<<f>>), net' = net
    PROVE  ~misread' /\ rQ' \in Seq(Field) /\ Coming' = Drop(Coming, 1)
<1>1. Len(<<f>>) = 1 /\ <<f>>[1] = f /\ Len(rQ) \in Nat
  BY ComingIs
<1>2. \A k \in 1..Len(<<f>>) : Coming[k].f = <<f>>[k]
  BY <1>1
<1>3. Len(<<f>>) \in Nat /\ Len(<<f>>) <= Len(rQ)
  BY <1>1
<1>. QED  BY <1>1, <1>2, <1>3, Shifts

LEMMA ShiftsTwo ==
    ASSUME Typed, Len(rQ) >= 2, ~misread, NEW f, NEW g, Coming[1].f = f, Coming[2].f = g,
           Shift(<<f, g>>), net' = net
    PROVE  ~misread' /\ rQ' \in Seq(Field) /\ Coming' = Drop(Coming, 2)
<1>1. Len(<<f, g>>) = 2 /\ <<f, g>>[1] = f /\ <<f, g>>[2] = g
  OBVIOUS
<1>2. ASSUME NEW k \in 1..Len(<<f, g>>) PROVE Coming[k].f = <<f, g>>[k]
  <2>1. k = 1 \/ k = 2
    BY <1>1
  <2>. QED  BY <1>1, <2>1
<1>3. Len(<<f, g>>) \in Nat /\ Len(<<f, g>>) <= Len(rQ)
  BY <1>1
<1>. QED  BY <1>1, <1>2, <1>3, Shifts

\* The names that a handler gives to a counted list.
LEMMA NamesAre ==
    ASSUME NEW f, NEW g, NEW n \in Nat
    PROVE  /\ Len(<<f>> \o [k \in 1..n |-> g]) = 1 + n
           /\ (<<f>> \o [k \in 1..n |-> g])[1] = f
           /\ \A k \in 2..(1 + n) : (<<f>> \o [j \in 1..n |-> g])[k] = g
<1>. DEFINE l == [k \in 1..n |-> g]
<1>1. l \in Seq({f, g}) /\ Len(l) = n /\ \A k \in 1..n : l[k] = g
  OBVIOUS
<1>2. <<f>> \in Seq({f, g}) /\ Len(<<f>>) = 1 /\ <<f>>[1] = f
  OBVIOUS
<1>. HIDE DEF l
<1>3. /\ Len(<<f>> \o l) = Len(<<f>>) + Len(l)
      /\ \A k \in 1..(Len(<<f>>) + Len(l)) :
            (<<f>> \o l)[k] = IF k <= Len(<<f>>) THEN <<f>>[k] ELSE l[k - Len(<<f>>)]
  BY <1>1, <1>2, ConcatProperties, Zenon
<1>4. Len(<<f>> \o l) = 1 + n /\ (<<f>> \o l)[1] = f
  BY <1>1, <1>2, <1>3
<1>5. ASSUME NEW k \in 2..(1 + n) PROVE (<<f>> \o l)[k] = g
  <2>1. k \in 1..(Len(<<f>>) + Len(l)) /\ ~(k <= Len(<<f>>)) /\ k - Len(<<f>>) \in 1..n
    BY <1>1, <1>2
  <2>. QED  BY <1>1, <1>3, <2>1
<1>. QED  BY <1>4, <1>5 DEF l

\* A list is shifted with its length.
LEMMA ShiftsCounted ==
    ASSUME Typed, ~misread, NEW f, NEW g, NEW n \in Nat, Len(rQ) >= 1 + n,
           Coming[1].f = f, \A k \in 2..(1 + n) : Coming[k].f = g,
           Shift(<<f>> \o [k \in 1..n |-> g]), net' = net
    PROVE  ~misread' /\ rQ' \in Seq(Field) /\ Coming' = Drop(Coming, 1 + n)
<1>. DEFINE l == <<f>> \o [k \in 1..n |-> g]
<1>1. Len(l) = 1 + n /\ l[1] = f /\ \A k \in 2..(1 + n) : l[k] = g
  BY NamesAre
<1>2. Shift(l)
  OBVIOUS
<1>. HIDE DEF l
<1>3. ASSUME NEW k \in 1..Len(l) PROVE Coming[k].f = l[k]
  <2>1. k = 1 \/ k \in 2..(1 + n)
    BY <1>1
  <2>. QED  BY <1>1, <2>1
<1>. QED  BY <1>1, <1>2, <1>3, Shifts

\* Two clients that differ in nothing that the stream depends on.
LEMMA AgreeSame ==
    ASSUME NEW c, NEW d, NEW s, NEW S, NEW u, Agree(c, s, S, u),
           d.init = c.init, d.version = c.version, d.scheme = c.scheme, d.vencrypt = c.vencrypt,
           d.subtypes = c.subtypes, d.tight = c.tight, d.ard = c.ard
    PROVE  Agree(d, s, S, u)
<1>1. Patient(c) => Patient(d)
  BY DEF Patient
<1>2. ASSUME NEW s1, NEW S1, Fits(c, s1, S1) PROVE Fits(d, s1, S1)
  <2>1. VersionFollows(c, s1, S1) => VersionFollows(d, s1, S1)
    BY DEF VersionFollows
  <2>2. SecurityFollows(c, s1, S1) => SecurityFollows(d, s1, S1)
    BY DEF SecurityFollows
  <2>3. VeNCryptFits(c, s1, S1) => VeNCryptFits(d, s1, S1)
    BY DEF VeNCryptFits
  <2>4. TypeFits(c, s1, S1) => TypeFits(d, s1, S1)
    BY <2>3 DEF TypeFits
  <2>5. Negotiates(c, s1, S1) => Negotiates(d, s1, S1)
    BY <2>4 DEF Negotiates
  <2>6. ResultFollows(c, s1, S1) => ResultFollows(d, s1, S1)
    BY DEF ResultFollows
  <2>. QED  BY <1>2, <2>1, <2>2, <2>5, <2>6 DEF Fits
<1>. QED  BY <1>1, <1>2, AgreeStays

\* The page is asked for credentials.
LEMMA Asked ==
    ASSUME Typed, Negotiated, rfb.init = "Authentication", ~misread, UNCHANGED <<net, srv>>,
           NEW types, Requires(types)
    PROVE  Fine
<1>1. rfb' = [rfb EXCEPT !.asked = types] /\ rQ' = rQ /\ up' = up /\ misread' = misread
  BY DEF Requires, Return, Unread, Quiet
<1>2. Coming' = Coming
  BY <1>1 DEF Coming
<1>3. /\ DOMAIN rfb' = DOMAIN rfb /\ rfb'.init = rfb.init /\ rfb'.version = rfb.version
      /\ rfb'.scheme = rfb.scheme /\ rfb'.vencrypt = rfb.vencrypt
      /\ rfb'.subtypes = rfb.subtypes /\ rfb'.tight = rfb.tight /\ rfb'.ard = rfb.ard
  BY <1>1 DEF Typed, Members
<1>4. Agree(rfb', srv, Coming', up')
  BY <1>1, <1>2, <1>3, AgreeSame, Zenon DEF Negotiated
<1>5. srv.at # "start" /\ rfb.tight \in BOOLEAN /\ rQ \in Seq(Field)
  BY DEF Negotiated, Typed
<1>. QED  BY <1>1, <1>3, <1>4, <1>5, Advanced

\* The version.
LEMMA negotiateProtocolVersionFits ==
    ASSUME Typed, Negotiated, ~misread, negotiateProtocolVersion
    PROVE  Fine
<1>0. UNCHANGED <<net, srv>> /\ rfb.st = "connecting" /\ rfb.init = "ProtocolVersion" /\ running # "no"
  BY DEF negotiateProtocolVersion, InitMsg
<1>1. CASE rQwait(0, 1)
  BY <1>0, <1>1, Waited DEF negotiateProtocolVersion
<1>2. CASE ~rQwait(0, 1)
  <2>. DEFINE v == rQ[1].v
  <2>1. Len(rQ) # 0
    BY <1>2, ComingIs DEF rQwait
  <2>2. /\ up = <<>> /\ Fits(rfb, srv, Coming) /\ Coming # <<>> /\ rQ[1] = Coming[1]
        /\ Coming \in Seq(Field) /\ Fresh(rfb) /\ Members \subseteq DOMAIN rfb
    BY <1>0, <2>1, Found, ComingIs DEF Negotiated, Typed
  <2>3. /\ Coming[1].f = "version" /\ Len(Coming) = 1 /\ srv.at # "normal"
        /\ v = 0 => Expects(rfb, F("id", 0), srv)
        /\ v \in {33, 37, 38} =>
              Expects([rfb EXCEPT !.version = v, !.init = "Security"], F("version", v), srv)
    BY <1>0, <2>2, VersionFits
  <2>4. ~misread' /\ rQ' \in Seq(Field) /\ Coming' = Drop(Coming, 1)
    BY <1>0, <1>2, <2>1, <2>3, ShiftsOne DEF negotiateProtocolVersion
  <2>5. Coming' = <<>>
    BY <2>2, <2>3, <2>4, AllDropped
  <2>6. srv.at # "start"
    BY <1>0, <2>2 DEF Fits, VersionFollows
  <2>7. CASE v = 0
    <3>1. up' = <<F("id", 0)>> /\ rfb' = rfb /\ running' # "once"
      BY <1>2, <2>2, <2>7 DEF negotiateProtocolVersion, Send, Return
    <3>2. Agree(rfb', srv, Coming', up')
      BY <2>3, <2>5, <2>7, <3>1 DEF Agree
    <3>. QED  BY <1>0, <2>4, <2>6, <3>1, <3>2 DEF Fine, Typed, Negotiated
  <2>8. CASE v # 0 /\ v \in {33, 37, 38}
    <3>. DEFINE d == [rfb EXCEPT !.version = v, !.init = "Security"]
    <3>1. up' = <<F("version", v)>> /\ rfb' = d /\ running' = "no"
      BY <1>2, <2>2, <2>8 DEF negotiateProtocolVersion, Send, Return
    <3>2. Agree(d, srv, <<>>, <<F("version", v)>>)
      BY <2>3, <2>8 DEF Agree
    <3>3. /\ DOMAIN d = DOMAIN rfb /\ Fresh(d) /\ d.asked = {} /\ d.resume = FALSE /\ d.tight = FALSE
          /\ d.init = "Security"
      BY <1>0, <2>2 DEF Typed, Members, Negotiated, Fresh
    <3>. HIDE DEF d
    <3>4. Negotiated'
      BY <1>0, <2>5, <2>6, <3>1, <3>2, <3>3 DEF Negotiated
    <3>. QED  BY <1>0, <2>4, <3>1, <3>3, <3>4 DEF Fine, Typed
  <2>9. CASE v # 0 /\ v \notin {33, 37, 38}
    <3>1. rfb' = fail(rfb)
      BY <1>2, <2>9 DEF negotiateProtocolVersion, Return
    <3>. QED  BY <1>0, <2>4, <3>1, GivenUp
  <2>. QED  BY <2>7, <2>8, <2>9
<1>. QED  BY <1>1, <1>2

\* The security type: the list, or the dictated one.
LEMMA negotiateSecurityFits ==
    ASSUME Typed, Negotiated, ~misread, negotiateSecurity
    PROVE  Fine
<1>1. UNCHANGED <<net, srv>> /\ rfb.st = "connecting" /\ rfb.init = "Security" /\ running # "no"
  BY DEF negotiateSecurity, InitMsg
<1>2. Len(rQ) \in Nat /\ Len(rQ) # 0
  BY <1>1, EmptyIs DEF Negotiated, Typed
<1>3. /\ up = <<>> /\ Fits(rfb, srv, Coming) /\ Coming # <<>> /\ rQ[1] = Coming[1]
      /\ Coming \in Seq(Field) /\ Fresh(rfb) /\ Members \subseteq DOMAIN rfb
      /\ srv.at # "start"
  BY <1>1, <1>2, Found, ComingIs DEF Negotiated, Typed
<1>4. rfb.version = 33 \/ rfb.version \in {37, 38}
  BY <1>1, <1>3 DEF Fits
<1>. DEFINE n == rQ[1].v
            reason == [rfb EXCEPT !.init = "SecurityReason"]
<1>5. DOMAIN reason = DOMAIN rfb /\ reason.tight = FALSE /\ reason.init = "SecurityReason"
  BY <1>3 DEF Members, Fresh
<1>6. \A t : /\ DOMAIN Agreed(t) = DOMAIN rfb /\ Agreed(t).tight = FALSE
             /\ Agreed(t).init = "Authentication"
             /\ Agreed(t) = [rfb EXCEPT !.scheme = t, !.init = "Authentication"]
  BY <1>3 DEF Members, Fresh, Agreed
<1>7. CASE rfb.version = 33
  <2>1. ~rQwait(0, 1) /\ ~(rfb.version >= 37)
    BY <1>2, <1>7 DEF rQwait
  <2>2. /\ Shift(<<"scheme">>) /\ up' = up
        /\ rfb' = IF n = 0 THEN reason ELSE Agreed(n)
    BY <2>1 DEF negotiateSecurity, Quiet, Return
  <2>3. /\ Coming[1].f = "scheme"
        /\ n = 0 => Fits(reason, srv, Drop(Coming, 1))
        /\ n # 0 => Fits(Agreed(n), srv, Drop(Coming, 1))
    BY <1>1, <1>3, <1>7, <1>6, SchemeFits
  <2>4. ~misread' /\ rQ' \in Seq(Field) /\ Coming' = Drop(Coming, 1)
    BY <1>1, <1>2, <2>2, <2>3, ShiftsOne
  <2>. HIDE DEF n, reason
  <2>5. Agree(rfb', srv, Coming', up')
    BY <1>3, <2>2, <2>3, <2>4 DEF Agree
  <2>. QED  BY <1>1, <1>3, <1>5, <1>6, <2>2, <2>4, <2>5, Advanced
<1>8. CASE rfb.version \in {37, 38}
  <2>0. rfb.version >= 37
    BY <1>8
  <2>1. CASE rQwait(1, n)
    BY <1>1, <2>0, <2>1, Waited DEF negotiateSecurity
  <2>2. CASE ~rQwait(1, n)
    <3>1. /\ Coming[1].f = "types"
          /\ n = 0 => Fits(reason, srv, Drop(Coming, 1))
          /\ n # 0 => /\ Counted(Coming, "types", "type") /\ srv.at # "normal"
                      /\ \A x : Expects(Agreed(x), F("type", x), srv)
      BY <1>1, <1>3, <1>8, TypesFit, Zenon DEF Agreed
    <3>2. Shift(<<"types">> \o [k \in 1..n |-> "type"])
      BY <2>0, <2>2 DEF negotiateSecurity
    <3>3. CASE n = 0
      <4>1. up' = up /\ rfb' = reason
        BY <2>0, <2>2, <3>3 DEF negotiateSecurity, Quiet, Return
      <4>2. \A k \in 2..(1 + n) : Coming[k].f = "type"
        BY <3>3
      <4>3. n \in Nat /\ Len(rQ) >= 1 + n
        BY <1>2, <3>3
      <4>4. ~misread' /\ rQ' \in Seq(Field) /\ Coming' = Drop(Coming, 1 + n)
        BY <1>1, <3>1, <3>2, <4>2, <4>3, ShiftsCounted
      <4>5. 1 + n = 1
        BY <3>3
      <4>6. Agree(rfb', srv, Coming', up')
        BY <1>3, <3>1, <3>3, <4>1, <4>4, <4>5 DEF Agree
      <4>. QED  BY <1>1, <1>3, <1>5, <4>1, <4>4, <4>6, Advanced
    <3>4. CASE n # 0
      <4>1. /\ n = Len(Coming) - 1 /\ \A k \in 2..Len(Coming) : Coming[k].f = "type"
            /\ Len(Coming) \in Nat /\ Len(Coming) # 0
        BY <1>3, <3>1, <3>4, EmptyIs DEF Counted
      <4>2. n \in Nat /\ 1 + n = Len(Coming) /\ \A k \in 2..(1 + n) : Coming[k].f = "type"
        BY <4>1
      <4>3. Len(rQ) >= 1 + n
        BY <1>2, <2>2, <4>2 DEF rQwait
      <4>4. ~misread' /\ rQ' \in Seq(Field) /\ Coming' = Drop(Coming, 1 + n)
        BY <1>1, <3>1, <3>2, <4>2, <4>3, ShiftsCounted
      <4>5. Coming' = <<>>
        BY <1>3, <4>2, <4>4, AllDropped
      <4>6. PICK t : IF t = 0 THEN rfb' = fail(rfb) ELSE up' = up \o <<F("type", t)>> /\ rfb' = Agreed(t)
        BY <2>0, <2>2, <3>4 DEF negotiateSecurity, Send, Return
      <4>7. CASE t = 0
        BY <1>1, <4>4, <4>6, <4>7, GivenUp
      <4>8. CASE t # 0
        <5>1. up' = <<F("type", t)>>
          BY <1>3, <4>6, <4>8
        <5>2. Agree(Agreed(t), srv, <<>>, <<F("type", t)>>)
          BY <3>1, <3>4 DEF Agree
        <5>3. rfb' = Agreed(t)
          BY <4>6, <4>8
        <5>4. Agree(rfb', srv, Coming', up')
          BY <4>5, <5>1, <5>2, <5>3, Zenon
        <5>5. DOMAIN rfb' = DOMAIN rfb /\ rfb'.tight \in BOOLEAN /\ rfb'.init = "Authentication"
          BY <1>6, <5>3
        <5>. QED  BY <1>1, <1>3, <4>4, <5>4, <5>5, Advanced
      <4>. QED  BY <4>7, <4>8
    <3>. QED  BY <3>3, <3>4
  <2>. QED  BY <2>1, <2>2
<1>. QED  BY <1>4, <1>7, <1>8

\* Why the server refused: the last thing that is read.
LEMMA handleSecurityReasonFits ==
    ASSUME Typed, Negotiated, ~misread, handleSecurityReason
    PROVE  Fine
<1>0. UNCHANGED <<net, srv>> /\ rfb.st = "connecting" /\ rfb.init = "SecurityReason"
  BY DEF handleSecurityReason, InitMsg
<1>1. CASE rQwait(0, 1)
  BY <1>0, <1>1, Waited DEF handleSecurityReason
<1>2. CASE ~rQwait(0, 1) /\ rQwait(1, rQ[1].v)
  BY <1>0, <1>2, Waited DEF handleSecurityReason
<1>3. CASE ~rQwait(0, 1) /\ ~rQwait(1, rQ[1].v)
  <2>1. Len(rQ) \in Nat /\ Len(rQ) # 0
    BY <1>3, ComingIs DEF rQwait
  <2>2. Fits(rfb, srv, Coming) /\ rQ[1] = Coming[1] /\ Coming \in Seq(Field)
    BY <2>1, Found, ComingIs
  <2>3. Reason(Coming)
    BY <1>0, <2>2 DEF Fits
  <2>. DEFINE n == rQ[1].v
  <2>4. /\ Coming[1].f = "reasonLength" /\ n = Len(Coming) - 1
        /\ \A k \in 2..Len(Coming) : Coming[k].f = "reason"
        /\ Len(Coming) \in Nat /\ Len(Coming) # 0
    BY <2>2, <2>3, EmptyIs DEF Reason, Counted
  <2>5. n \in Nat /\ \A k \in 2..(1 + n) : Coming[k].f = "reason"
    BY <2>4
  <2>6. Len(rQ) >= 1 + n
    BY <1>3, <2>1, <2>5 DEF rQwait
  <2>7. Shift(<<"reasonLength">> \o [k \in 1..n |-> "reason"]) /\ rfb' = fail(rfb)
    BY <1>3 DEF handleSecurityReason, Return
  <2>8. ~misread' /\ rQ' \in Seq(Field)
    BY <1>0, <2>4, <2>5, <2>6, <2>7, ShiftsCounted
  <2>. QED  BY <1>0, <2>7, <2>8, GivenUp
<1>. QED  BY <1>1, <1>2, <1>3

\* The handlers of the types: what is known when one is called.
LEMMA Known4Type ==
    ASSUME Typed, Negotiated, NEW t, Negotiate(t)
    PROVE  /\ UNCHANGED <<net, srv>> /\ rfb.st = "connecting" /\ rfb.init = "Authentication"
           /\ rfb.scheme = t /\ rfb.tight \in BOOLEAN /\ srv.at # "start"
           /\ rQ \in Seq(Field) /\ Coming \in Seq(Field) /\ Len(rQ) \in Nat
           /\ Agree(rfb, srv, Coming, up)
           /\ Members \subseteq DOMAIN rfb
BY ComingIs DEF Negotiate, InitMsg, Negotiated, Typed

\* A handler that has sent the client's last message.
LEMMA Answering ==
    ASSUME Typed, Negotiated, rfb.init = "Authentication", UNCHANGED <<net, srv>>,
           rQ' \in Seq(Field), ~misread', rfb' = [rfb EXCEPT !.init = "SecurityResult"],
           Agree([rfb EXCEPT !.init = "SecurityResult"], srv, Coming', up')
    PROVE  Fine
<1>1. DOMAIN rfb' = DOMAIN rfb /\ rfb'.init = "SecurityResult" /\ rfb'.tight = rfb.tight
  BY DEF Typed, Members
<1>2. srv.at # "start" /\ rfb.tight \in BOOLEAN
  BY DEF Negotiated
<1>. QED  BY <1>1, <1>2, Advanced

\* The handlers of the security types.
LEMMA negotiateNoneFits ==
    ASSUME Typed, Negotiated, ~misread, negotiateNone
    PROVE  Fine
<1>0. Negotiate(sec.None)
  BY DEF negotiateNone
<1>1. /\ UNCHANGED <<net, srv>> /\ rfb.st = "connecting" /\ rfb.init = "Authentication"
      /\ rfb.scheme = sec.None /\ rfb.tight \in BOOLEAN /\ srv.at # "start"
      /\ rQ \in Seq(Field) /\ Agree(rfb, srv, Coming, up) /\ Members \subseteq DOMAIN rfb
  BY <1>0, Known4Type
<1>. DEFINE d == [rfb EXCEPT !.init = IF rfb.version >= 38 THEN "SecurityResult" ELSE "ClientInitialisation"]
<1>2. rfb' = d /\ rQ' = rQ /\ misread' = misread /\ up' = up
  BY DEF negotiateNone, Unread, Quiet, Return
<1>3. DOMAIN d = DOMAIN rfb /\ d.tight = rfb.tight /\ d.init \in {"SecurityResult", "ClientInitialisation"}
  BY <1>1 DEF Members
<1>4. ~Patient(rfb)
  BY <1>1, TypesAre DEF Patient
<1>5. \A s, S : Fits(rfb, s, S) => Fits(d, s, S)
  BY <1>1, NoneFits, Zenon
<1>. HIDE DEF d
<1>6. Agree(d, srv, Coming, up)
  BY <1>1, <1>4, <1>5, AgreeStays
<1>7. Coming' = Coming
  BY <1>1, <1>2 DEF Coming
<1>8. Agree(rfb', srv, Coming', up')
  BY <1>2, <1>6, <1>7, Zenon
<1>. QED  BY <1>1, <1>2, <1>3, <1>8, Advanced

LEMMA negotiateXvpAuthFits ==
    ASSUME Typed, Negotiated, ~misread, negotiateXvpAuth
    PROVE  Fine
<1>0. Negotiate(sec.XVP)
  BY DEF negotiateXvpAuth
<1>1. /\ UNCHANGED <<net, srv>> /\ rfb.st = "connecting" /\ rfb.init = "Authentication"
      /\ rfb.scheme = sec.XVP /\ rfb.tight \in BOOLEAN /\ srv.at # "start"
      /\ rQ \in Seq(Field) /\ Agree(rfb, srv, Coming, up) /\ Members \subseteq DOMAIN rfb
  BY <1>0, Known4Type
<1>2. CASE Needs({"username", "password", "target"})
  BY <1>1, <1>2, Asked DEF negotiateXvpAuth
<1>3. CASE ~Needs({"username", "password", "target"})
  <2>. DEFINE d == [rfb EXCEPT !.scheme = sec.VNCAuth]
  <2>1. rfb' = d /\ rQ' = rQ /\ misread' = misread /\ up' = up \o <<F("xvp", 0)>>
    BY <1>3 DEF negotiateXvpAuth, Unread, Send, Return
  <2>2. /\ DOMAIN d = DOMAIN rfb /\ d.tight = rfb.tight /\ d.init = "Authentication"
        /\ d.scheme = sec.VNCAuth
    BY <1>1 DEF Members
  <2>3. ~Patient(rfb) /\ Patient(d)
    BY <1>1, <2>2, TypesAre DEF Patient
  <2>4. \A s, S : Fits(rfb, s, S) => S = <<>> /\ s.at # "normal" /\ Expects(d, F("xvp", 0), s)
    BY <1>1, XvpFits, Zenon
  <2>. HIDE DEF d
  <2>5. Agree(d, srv, Coming, up \o <<F("xvp", 0)>>)
    BY <1>1, <2>3, <2>4, AgreeSends
  <2>6. Coming' = Coming
    BY <1>1, <2>1 DEF Coming
  <2>7. Agree(rfb', srv, Coming', up')
    BY <2>1, <2>5, <2>6, Zenon
  <2>. QED  BY <1>1, <2>1, <2>2, <2>7, Advanced
<1>. QED  BY <1>2, <1>3

\* Credentials, and nothing to read.
LEMMA AnsweredUnread ==
    ASSUME Typed, Negotiated, ~misread, UNCHANGED <<net, srv>>, Unread, Answered,
           rfb.init = "Authentication", ~Patient(rfb),
           \A s, S : Fits(rfb, s, S) =>
              S = <<>> /\ s.at # "normal" /\ Expects([rfb EXCEPT !.init = "SecurityResult"], F("response", 0), s)
    PROVE  Fine
<1>. DEFINE d == [rfb EXCEPT !.init = "SecurityResult"]
<1>1. rfb' = d /\ rQ' = rQ /\ misread' = misread /\ up' = up \o <<F("response", 0)>>
  BY DEF Unread, Answered, Send, Return
<1>2. d.init = "SecurityResult"
  BY DEF Typed, Members
<1>3. Patient(d)
  BY <1>2 DEF Patient
<1>4. Agree(rfb, srv, Coming, up) /\ rQ \in Seq(Field)
  BY DEF Negotiated, Typed
<1>5. Agree(d, srv, Coming, up \o <<F("response", 0)>>)
  BY <1>3, <1>4, AgreeSends
<1>6. Coming' = Coming
  BY <1>1 DEF Coming
<1>7. Agree(d, srv, Coming', up')
  BY <1>1, <1>5, <1>6, Zenon
<1>. QED  BY <1>1, <1>4, <1>7, Answering

LEMMA negotiatePlainAuthFits ==
    ASSUME Typed, Negotiated, ~misread, negotiatePlainAuth
    PROVE  Fine
<1>0. Negotiate(sec.Plain) \/ Negotiate(sec.UnixLogon)
  BY DEF negotiatePlainAuth
<1>1. /\ UNCHANGED <<net, srv>> /\ rfb.init = "Authentication"
      /\ rfb.scheme \in {sec.Plain, sec.UnixLogon} /\ rfb.tight \in BOOLEAN /\ Members \subseteq DOMAIN rfb
  BY <1>0, Known4Type
<1>2. CASE Needs({"username", "password"})
  BY <1>1, <1>2, Asked DEF negotiatePlainAuth
<1>3. CASE ~Needs({"username", "password"})
  <2>1. Unread /\ Answered
    BY <1>3 DEF negotiatePlainAuth
  <2>2. ~Patient(rfb)
    BY <1>1, TypesAre DEF Patient
  <2>3. \A s, S : Fits(rfb, s, S) =>
           S = <<>> /\ s.at # "normal" /\ Expects([rfb EXCEPT !.init = "SecurityResult"], F("response", 0), s)
    BY <1>1, PlainFits, Zenon
  <2>. QED  BY <1>1, <2>1, <2>2, <2>3, AnsweredUnread
<1>. QED  BY <1>2, <1>3

\* One field that is answered.
LEMMA ChallengeAnswered ==
    ASSUME Typed, Negotiated, ~misread, NEW t \in {sec.VNCAuth, sec.MSLogonII}, Negotiate(t), Len(rQ) # 0,
           Shift(<<IF t = sec.VNCAuth THEN "challenge" ELSE "params">>), Answered
    PROVE  Fine
<1>1. /\ UNCHANGED <<net, srv>> /\ rfb.init = "Authentication" /\ rfb.scheme = t
      /\ rfb.tight \in BOOLEAN /\ Members \subseteq DOMAIN rfb /\ Coming \in Seq(Field)
  BY Known4Type
<1>2. up = <<>> /\ Fits(rfb, srv, Coming)
  BY Found
<1>. DEFINE d == [rfb EXCEPT !.init = "SecurityResult"]
            f == IF t = sec.VNCAuth THEN "challenge" ELSE "params"
<1>3. Len(Coming) = 1 /\ Coming[1].f = f /\ srv.at # "normal" /\ Expects(d, F("response", 0), srv)
  BY <1>1, <1>2, ChallengeFits
<1>4. ~misread' /\ rQ' \in Seq(Field) /\ Coming' = Drop(Coming, 1)
  BY <1>1, <1>3, ShiftsOne
<1>5. Coming' = <<>>
  BY <1>1, <1>3, <1>4, AllDropped
<1>6. rfb' = d /\ up' = <<F("response", 0)>>
  BY <1>2 DEF Answered, Send, Return
<1>. HIDE DEF d
<1>7. Agree(d, srv, Coming', up')
  BY <1>3, <1>5, <1>6 DEF Agree
<1>. QED  BY <1>1, <1>4, <1>6, <1>7, Answering DEF d

LEMMA negotiateStdVNCAuthFits ==
    ASSUME Typed, Negotiated, ~misread, negotiateStdVNCAuth
    PROVE  Fine
<1>0. Negotiate(sec.VNCAuth)
  BY DEF negotiateStdVNCAuth
<1>1. UNCHANGED <<net, srv>> /\ rfb.st = "connecting" /\ rfb.init = "Authentication" /\ Len(rQ) \in Nat
  BY <1>0, Known4Type
<1>2. CASE rQwait(0, 1)
  BY <1>1, <1>2, Waited DEF negotiateStdVNCAuth
<1>3. CASE ~rQwait(0, 1) /\ Needs({"password"})
  BY <1>1, <1>3, Asked DEF negotiateStdVNCAuth
<1>4. CASE ~rQwait(0, 1) /\ ~Needs({"password"})
  BY <1>0, <1>1, <1>4, ChallengeAnswered DEF negotiateStdVNCAuth, rQwait
<1>. QED  BY <1>2, <1>3, <1>4

LEMMA negotiateMSLogonIIAuthFits ==
    ASSUME Typed, Negotiated, ~misread, negotiateMSLogonIIAuth
    PROVE  Fine
<1>0. Negotiate(sec.MSLogonII)
  BY DEF negotiateMSLogonIIAuth
<1>1. UNCHANGED <<net, srv>> /\ rfb.st = "connecting" /\ rfb.init = "Authentication" /\ Len(rQ) \in Nat
  BY <1>0, Known4Type
<1>2. CASE rQwait(0, 1)
  BY <1>1, <1>2, Waited DEF negotiateMSLogonIIAuth
<1>3. CASE ~rQwait(0, 1) /\ Needs({"username", "password"})
  BY <1>1, <1>3, Asked DEF negotiateMSLogonIIAuth
<1>4. CASE ~rQwait(0, 1) /\ ~Needs({"username", "password"})
  <2>1. Len(rQ) # 0 /\ Answered
    BY <1>1, <1>4 DEF negotiateMSLogonIIAuth, rQwait
  <2>2. Shift(<<IF sec.MSLogonII = sec.VNCAuth THEN "challenge" ELSE "params">>)
    BY <1>4, TypesAre DEF negotiateMSLogonIIAuth
  <2>. QED  BY <1>0, <2>1, <2>2, ChallengeAnswered
<1>. QED  BY <1>2, <1>3, <1>4

LEMMA negotiateARDAuthFits ==
    ASSUME Typed, Negotiated, ~misread, negotiateARDAuth
    PROVE  Fine
<1>1. Negotiate(sec.ARD)
  BY DEF negotiateARDAuth
<1>2. /\ UNCHANGED <<net, srv>> /\ rfb.st = "connecting" /\ rfb.init = "Authentication"
      /\ rfb.scheme = sec.ARD /\ rfb.tight \in BOOLEAN /\ srv.at # "start" /\ Len(rQ) \in Nat
      /\ Members \subseteq DOMAIN rfb /\ Coming \in Seq(Field)
  BY <1>1, Known4Type
<1>3. ARDIsNegotiated(rfb)
  BY <1>2 DEF ARDIsNegotiated
<1>4. CASE Needs({"username", "password"})
  BY <1>2, <1>4, Asked DEF negotiateARDAuth
<1>5. CASE ~Needs({"username", "password"}) /\ rfb.ard = "ready"
  <2>1. Unread /\ Answered
    BY <1>5 DEF negotiateARDAuth
  <2>2. ~Patient(rfb)
    BY <1>2, TypesAre DEF Patient
  <2>3. \A s, S : Fits(rfb, s, S) =>
           S = <<>> /\ s.at # "normal" /\ Expects([rfb EXCEPT !.init = "SecurityResult"], F("response", 0), s)
    <3>1. ASSUME NEW s, NEW S, Fits(rfb, s, S)
          PROVE  /\ S = <<>> /\ s.at # "normal"
                 /\ Expects([rfb EXCEPT !.init = "SecurityResult"], F("response", 0), s)
      <4>1. ARDIsRead(rfb)
        BY <1>3, <1>5 DEF ARDIsRead
      <4>2. S = <<>>
        BY <3>1, <4>1, ARDReads
      <4>. QED  BY <3>1, <4>1, <4>2, ARDAfter, Zenon
    <3>. QED  BY <3>1
  <2>. QED  BY <1>2, <2>1, <2>2, <2>3, AnsweredUnread
<1>6. CASE ~Needs({"username", "password"}) /\ rfb.ard # "ready"
  <2>1. CASE rQwait(0, 1)
    BY <1>2, <1>6, <2>1, Waited DEF negotiateARDAuth
  <2>2. CASE ~rQwait(0, 1) /\ rQwait(1, 1)
    BY <1>2, <1>6, <2>2, Waited DEF negotiateARDAuth
  <2>3. CASE ~rQwait(0, 1) /\ ~rQwait(1, 1)
    <3>. DEFINE d == [rfb EXCEPT !.ard = "computing"]
    <3>1. Shift(<<"dh", "keys">>) /\ up' = up /\ rfb' = d
      BY <1>6, <2>3 DEF negotiateARDAuth, Quiet, Return
    <3>2. Len(rQ) # 0 /\ Len(rQ) >= 2
      BY <1>2, <2>3 DEF rQwait
    <3>3. up = <<>> /\ Fits(rfb, srv, Coming) /\ Coming # <<>>
      BY <3>2, Found
    <3>4. Len(Coming) = 2 /\ Coming[1].f = "dh" /\ Coming[2].f = "keys" /\ Fits(d, srv, <<>>)
      <4>1. ~ARDIsRead(rfb)
        BY <3>3, ARDReads
      <4>2. rfb.ard = "no"
        BY <1>3, <4>1 DEF ARDIsRead
      <4>. QED  BY <1>3, <3>3, <4>2, ARDBefore, Zenon
    <3>5. ~misread' /\ rQ' \in Seq(Field) /\ Coming' = Drop(Coming, 2)
      BY <1>2, <3>1, <3>2, <3>4, ShiftsTwo
    <3>6. Coming' = <<>>
      BY <1>2, <3>4, <3>5, AllDropped
    <3>7. DOMAIN d = DOMAIN rfb /\ d.tight = rfb.tight /\ d.init = "Authentication"
      BY <1>2 DEF Members
    <3>. HIDE DEF d
    <3>8. Agree(rfb', srv, Coming', up')
      BY <3>1, <3>3, <3>4, <3>6 DEF Agree
    <3>. QED  BY <1>2, <3>1, <3>5, <3>7, <3>8, Advanced
  <2>. QED  BY <2>1, <2>2, <2>3
<1>. QED  BY <1>4, <1>5, <1>6

\* One field is read; what follows is what the client d expects.
LEMMA ReadOne ==
    ASSUME Typed, Negotiated, ~misread, UNCHANGED <<net, srv>>, srv.at # "start", Len(rQ) # 0,
           NEW f, Coming[1].f = f, Shift(<<f>>), up' = up,
           NEW d, rfb' = d, DOMAIN d = DOMAIN rfb, d.tight \in BOOLEAN,
           d.init \notin {"ProtocolVersion", "Security"}, Fits(d, srv, Drop(Coming, 1))
    PROVE  Fine
<1>1. ~misread' /\ rQ' \in Seq(Field) /\ Coming' = Drop(Coming, 1)
  BY ShiftsOne
<1>2. up = <<>>
  BY Found
<1>3. Agree(rfb', srv, Coming', up')
  BY <1>1, <1>2 DEF Agree
<1>. QED  BY <1>1, <1>3, Advanced

\* All is read, and a message is sent on which the client d expects an answer.
LEMMA ReadAll ==
    ASSUME Typed, Negotiated, ~misread, UNCHANGED <<net, srv>>, srv.at \notin {"start", "normal"}, Len(rQ) # 0,
           NEW l, Len(l) = Len(Coming), Len(l) <= Len(rQ), \A k \in 1..Len(l) : Coming[k].f = l[k], Shift(l),
           NEW m, up' = up \o <<m>>,
           NEW d, rfb' = d, DOMAIN d = DOMAIN rfb, d.tight \in BOOLEAN,
           d.init \notin {"ProtocolVersion", "Security"}, Expects(d, m, srv)
    PROVE  Fine
<1>1. Coming \in Seq(Field) /\ Len(Coming) \in Nat
  BY ComingIs, EmptyIs
<1>2. ~misread' /\ rQ' \in Seq(Field) /\ Coming' = Drop(Coming, Len(l))
  BY <1>1, Shifts
<1>3. Coming' = <<>>
  BY <1>1, <1>2, AllDropped
<1>4. up = <<>>
  BY Found
<1>5. up' = <<m>>
  BY <1>4
<1>6. Agree(rfb', srv, Coming', up')
  BY <1>3, <1>5 DEF Agree
<1>. QED  BY <1>2, <1>6, Advanced

\* Helpers.
LEMMA OneName == ASSUME NEW f PROVE Len(<<f>>) = 1 /\ \A k \in 1..Len(<<f>>) : <<f>>[k] = f
OBVIOUS

LEMMA FieldValues == ASSUME NEW S \in Seq(Field), NEW k \in 1..Len(S) PROVE S[k].v \in Int
<1>1. S[k] \in Field
  BY ElementOfSeq
<1>. QED  BY <1>1 DEF Field

\* What is chosen is supported.
LEMMA ChoiceIs == ASSUME NEW l, NEW types PROVE Choice(l, types) = 0 \/ Choice(l, types) \in types
<1>. DEFINE ok == {k \in 1..Len(l) : l[k].v \in types}
<1>1. CASE ok = {}
  BY <1>1 DEF Choice
<1>2. CASE ok # {}
  <2>1. ok \subseteq Nat
    OBVIOUS
  <2>2. PICK k \in ok : \A j \in ok : k <= j
    BY <1>2, <2>1, Least
  <2>3. (CHOOSE i \in ok : \A j \in ok : i <= j) \in ok
    BY <2>2
  <2>. QED  BY <1>2, <2>3 DEF Choice
<1>. QED  BY <1>1, <1>2

\* VeNCrypt, state by state.
LEMMA negotiateVeNCryptAuthFits ==
    ASSUME Typed, Negotiated, Counting, ~misread, negotiateVeNCryptAuth
    PROVE  Fine
<1>0. Negotiate(sec.VeNCrypt)
  BY DEF negotiateVeNCryptAuth
<1>1. /\ UNCHANGED <<net, srv>> /\ rfb.st = "connecting" /\ rfb.init = "Authentication"
      /\ rfb.scheme = sec.VeNCrypt /\ rfb.tight \in BOOLEAN /\ srv.at # "start" /\ Len(rQ) \in Nat
      /\ Members \subseteq DOMAIN rfb /\ Coming \in Seq(Field)
  BY <1>0, Known4Type
<1>2. CASE rfb.vencrypt = 0
  <2>1. CASE rQwait(0, 1)
    BY <1>1, <1>2, <2>1, Waited DEF negotiateVeNCryptAuth
  <2>2. CASE ~rQwait(0, 1)
    <3>1. Len(rQ) # 0
      BY <1>1, <2>2 DEF rQwait
    <3>2. up = <<>> /\ Fits(rfb, srv, Coming)
      BY <3>1, Found
    <3>. DEFINE d == [rfb EXCEPT !.vencrypt = 1]
    <3>3. Len(Coming) = 1 /\ Coming[1].f = "vencrypt" /\ srv.at # "normal" /\ Expects(d, F("vencrypt", 2), srv)
      BY <1>1, <1>2, <3>2, VeNCrypt0Fits
    <3>4. /\ Shift(<<"vencrypt">>)
          /\ rfb' = fail(rfb) \/ (up' = up \o <<F("vencrypt", 2)>> /\ rfb' = d)
      BY <1>2, <2>2 DEF negotiateVeNCryptAuth, Send, Return
    <3>5. DOMAIN d = DOMAIN rfb /\ d.tight = rfb.tight /\ d.init = "Authentication"
      BY <1>1 DEF Members
    <3>. HIDE DEF d
    <3>6. ~misread' /\ rQ' \in Seq(Field) /\ Coming' = Drop(Coming, 1)
      BY <1>1, <3>1, <3>3, <3>4, ShiftsOne
    <3>7. CASE rfb' = fail(rfb)
      BY <1>1, <3>6, <3>7, GivenUp
    <3>8. CASE up' = up \o <<F("vencrypt", 2)>> /\ rfb' = d
      <4>1. Coming' = <<>>
        BY <1>1, <3>3, <3>6, AllDropped
      <4>2. up' = <<F("vencrypt", 2)>>
        BY <3>2, <3>8
      <4>3. Agree(rfb', srv, Coming', up')
        BY <3>3, <3>8, <4>1, <4>2 DEF Agree
      <4>. QED  BY <1>1, <3>5, <3>6, <3>8, <4>3, Advanced
    <3>. QED  BY <3>4, <3>7, <3>8
  <2>. QED  BY <2>1, <2>2
<1>3. CASE rfb.vencrypt = 1
  <2>1. CASE rQwait(0, 1)
    BY <1>1, <1>3, <2>1, Waited DEF negotiateVeNCryptAuth
  <2>2. CASE ~rQwait(0, 1)
    <3>1. Len(rQ) # 0
      BY <1>1, <2>2 DEF rQwait
    <3>2. Fits(rfb, srv, Coming) /\ rQ[1] = Coming[1]
      BY <3>1, Found
    <3>. DEFINE d == [rfb EXCEPT !.vencrypt = 2]
    <3>3. Coming[1].f = "ack" /\ (rQ[1].v = 0 => Fits(d, srv, Drop(Coming, 1)))
      BY <1>1, <1>3, <3>2, VeNCrypt1Fits
    <3>4. /\ Shift(<<"ack">>) /\ up' = up
          /\ IF rQ[1].v # 0 THEN rfb' = fail(rfb) ELSE rfb' = d
      BY <1>3, <2>2 DEF negotiateVeNCryptAuth, Quiet, Return
    <3>5. DOMAIN d = DOMAIN rfb /\ d.tight = rfb.tight /\ d.init = "Authentication"
      BY <1>1 DEF Members
    <3>. HIDE DEF d
    <3>6. ~misread' /\ rQ' \in Seq(Field)
      BY <1>1, <3>1, <3>3, <3>4, ShiftsOne
    <3>7. CASE rQ[1].v # 0
      BY <1>1, <3>4, <3>6, <3>7, GivenUp
    <3>8. CASE rQ[1].v = 0
      BY <1>1, <3>1, <3>3, <3>4, <3>5, <3>8, ReadOne
    <3>. QED  BY <3>7, <3>8
  <2>. QED  BY <2>1, <2>2
<1>4. CASE rfb.vencrypt = 2
  <2>1. CASE rQwait(0, 1)
    BY <1>1, <1>4, <2>1, Waited DEF negotiateVeNCryptAuth
  <2>2. CASE ~rQwait(0, 1)
    <3>1. Len(rQ) # 0
      BY <1>1, <2>2 DEF rQwait
    <3>2. Fits(rfb, srv, Coming) /\ rQ[1] = Coming[1] /\ Coming # <<>>
      BY <3>1, Found
    <3>. DEFINE d == [rfb EXCEPT !.subtypes = rQ[1].v, !.vencrypt = 3]
    <3>3. Coming[1].f = "subtypes" /\ (rQ[1].v >= 1 => Fits(d, srv, Drop(Coming, 1)))
      BY <1>1, <1>4, <3>2, VeNCrypt2Fits
    <3>4. /\ Shift(<<"subtypes">>) /\ up' = up
          /\ IF rQ[1].v < 1 THEN rfb' = fail(rfb) ELSE rfb' = d
      BY <1>4, <2>2 DEF negotiateVeNCryptAuth, Quiet, Return
    <3>5. DOMAIN d = DOMAIN rfb /\ d.tight = rfb.tight /\ d.init = "Authentication"
      BY <1>1 DEF Members
    <3>. HIDE DEF d
    <3>6. ~misread' /\ rQ' \in Seq(Field)
      BY <1>1, <3>1, <3>3, <3>4, ShiftsOne
    <3>7. CASE rQ[1].v < 1
      BY <1>1, <3>4, <3>6, <3>7, GivenUp
    <3>8. CASE ~(rQ[1].v < 1)
      <4>1. rQ[1].v \in Int
        BY <3>2, <1>1, FieldValues, EmptyIs
      <4>2. Fits(d, srv, Drop(Coming, 1))
        BY <3>3, <3>8, <4>1
      <4>. QED  BY <1>1, <3>1, <3>3, <3>4, <3>5, <3>8, <4>2, ReadOne
    <3>. QED  BY <3>7, <3>8
  <2>. QED  BY <2>1, <2>2
<1>5. CASE rfb.vencrypt = 3
  <2>. DEFINE n == rfb.subtypes
              l == [k \in 1..n |-> "subtype"]
  <2>1. CASE rQwait(0, n)
    BY <1>1, <1>5, <2>1, Waited DEF negotiateVeNCryptAuth
  <2>2. CASE ~rQwait(0, n)
    <3>1. n \in Nat /\ n # 0 /\ n <= Len(rQ) /\ Len(rQ) # 0
      BY <1>1, <1>5, <2>2 DEF rQwait, Counting
    <3>2. up = <<>> /\ Fits(rfb, srv, Coming)
      BY <3>1, Found
    <3>3. /\ Len(Coming) = n /\ srv.at # "normal" /\ \A k \in 1..Len(Coming) : Coming[k].f = "subtype"
          /\ \A x : x # sec.VeNCrypt =>
                Expects([rfb EXCEPT !.scheme = x, !.vencrypt = 4], F("type", x), srv)
      <4>1. Subtypes(rfb)
        BY <1>1, <1>5 DEF Subtypes
      <4>. QED  BY <3>2, <4>1, VeNCrypt3Fits, Zenon
    <3>. DEFINE t == Choice(SubSeq(rQ, 1, n), clientTypes \ {sec.VeNCrypt})
                d == [rfb EXCEPT !.scheme = t, !.vencrypt = 4]
    <3>4. t # 0 => t # sec.VeNCrypt
      BY ChoiceIs
    <3>5. /\ Shift(l)
          /\ t = 0 => rfb' = fail(rfb)
          /\ t # 0 => up' = up \o <<F("type", t)>> /\ rfb' = d
      <4>1. rfb.vencrypt # 0 /\ rfb.vencrypt # 1 /\ rfb.vencrypt # 2
        BY <1>5
      <4>2. /\ Shift(l)
            /\ IF t = 0 THEN Quiet /\ Return(FALSE, fail(rfb))
               ELSE Send(<<F("type", t)>>) /\ Return(TRUE, d)
        BY <2>2, <4>1, Zenon DEF negotiateVeNCryptAuth
      <4>. QED  BY <4>2, Zenon DEF Send, Return
    <3>6. Len(l) = n /\ \A k \in 1..Len(l) : Coming[k].f = l[k]
      <4>1. Len(l) = n /\ \A k \in 1..n : l[k] = "subtype"
        BY <3>1
      <4>. QED  BY <3>3, <4>1
    <3>7. DOMAIN d = DOMAIN rfb /\ d.tight = rfb.tight /\ d.init = "Authentication"
      BY <1>1 DEF Members
    <3>8. t # 0 => Expects(d, F("type", t), srv)
      BY <3>3, <3>4
    <3>. HIDE DEF d, t, l, n
    <3>9. CASE t = 0
      <4>1. rQ' \in Seq(Field) /\ ~misread'
        BY <1>1, <3>1, <3>5, <3>6, Shifts
      <4>. QED  BY <1>1, <3>5, <3>9, <4>1, GivenUp
    <3>10. CASE t # 0
      <4>1. srv.at \notin {"start", "normal"}
        BY <1>1, <3>3
      <4>2. Len(l) = Len(Coming) /\ Len(l) <= Len(rQ)
        BY <3>1, <3>3, <3>6
      <4>. QED  BY <1>1, <3>1, <3>5, <3>6, <3>7, <3>8, <3>10, <4>1, <4>2, ReadAll
    <3>. QED  BY <3>9, <3>10
  <2>. QED  BY <2>1, <2>2
<1>. QED  BY <1>2, <1>3, <1>4, <1>5 DEF negotiateVeNCryptAuth

\* One field is read, which counts no others.
LEMMA NoneCounted ==
    ASSUME NEW f, NEW g, NEW n, n = 0, Shift(<<f>> \o [k \in 1..n |-> g])
    PROVE  Shift(<<f>>)
<1>1. [k \in 1..n |-> g] = <<>>
  OBVIOUS
<1>2. <<f>> \in Seq({f})
  OBVIOUS
<1>3. <<f>> \o <<>> = <<f>>
  BY <1>2, ConcatEmptySeq
<1>4. <<f>> \o [k \in 1..n |-> g] = <<f>>
  BY <1>1, <1>3, Zenon
<1>. QED  BY <1>4, Zenon

\* A field that counts one other.
LEMMA OneCounted ==
    ASSUME NEW f, NEW g, NEW n, n = 1, Shift(<<f>> \o [k \in 1..n |-> g])
    PROVE  Shift(<<f, g>>)
<1>. DEFINE l == <<f>> \o [k \in 1..n |-> g]
<1>1. Len(l) = 1 + n /\ l[1] = f /\ \A k \in 2..(1 + n) : l[k] = g
  BY NamesAre
<1>2. l \in Seq({f, g})
  <2>1. <<f>> \in Seq({f, g}) /\ [k \in 1..n |-> g] \in Seq({f, g})
    OBVIOUS
  <2>. QED  BY <2>1, ConcatProperties
<1>. HIDE DEF l
<1>3. <<f, g>> \in Seq({f, g}) /\ Len(<<f, g>>) = 2 /\ <<f, g>>[1] = f /\ <<f, g>>[2] = g
  OBVIOUS
<1>4. Len(l) = 2 /\ l[1] = f /\ l[2] = g
  BY <1>1
<1>5. ASSUME NEW k \in 1..Len(l) PROVE l[k] = <<f, g>>[k]
  <2>1. k = 1 \/ k = 2
    BY <1>4
  <2>. QED  BY <1>3, <1>4, <2>1
<1>6. l = <<f, g>>
  BY <1>2, <1>3, <1>4, <1>5, SeqEqual
<1>. QED  BY <1>6, Zenon DEF l

\* Tight: the tunnels, and the types of authentication.
LEMMA negotiateTightTunnelsFits ==
    ASSUME Typed, Negotiated, ~misread, negotiateTightTunnels
    PROVE  Fine
<1>0. Negotiate(sec.Tight) /\ rfb.tight # TRUE
  BY DEF negotiateTightTunnels
<1>1. /\ UNCHANGED <<net, srv>> /\ rfb.st = "connecting" /\ rfb.init = "Authentication"
      /\ rfb.scheme = sec.Tight /\ rfb.tight = FALSE /\ srv.at # "start" /\ Len(rQ) \in Nat
      /\ Members \subseteq DOMAIN rfb /\ Coming \in Seq(Field)
  BY <1>0, Known4Type
<1>. DEFINE n == rQ[1].v
            d == [rfb EXCEPT !.tight = TRUE]
<1>2. CASE rQwait(0, 1)
  BY <1>1, <1>2, Waited DEF negotiateTightTunnels
<1>3. CASE ~rQwait(0, 1)
  <2>1. Len(rQ) # 0
    BY <1>1, <1>3 DEF rQwait
  <2>2. Fits(rfb, srv, Coming) /\ rQ[1] = Coming[1]
    BY <2>1, Found
  <2>3. /\ Coming # <<>> /\ Coming[1].f = "tunnels"
        /\ \/ n = 0 /\ Fits(d, srv, Drop(Coming, 1))
           \/ /\ n = 1 /\ Len(Coming) = 2 /\ Coming[2].f = "tunnel" /\ srv.at # "normal"
              /\ Expects(d, F("tunnel", 0), srv)
    <3>1. /\ Coming \in Seq(Field) /\ Coming # <<>> /\ Coming[1].f = "tunnels"
          /\ \/ Coming[1].v = 0 /\ Fits(d, srv, Drop(Coming, 1))
             \/ /\ Coming[1].v = 1 /\ Len(Coming) = 2 /\ Coming[2].f = "tunnel" /\ srv.at # "normal"
                /\ Expects(d, F("tunnel", 0), srv)
      BY <1>1, <2>2, TunnelsFit, Zenon
    <3>2. n = Coming[1].v
      BY <2>2
    <3>. HIDE DEF n, d
    <3>. QED  BY <3>1, <3>2
  <2>4. DOMAIN d = DOMAIN rfb /\ d.tight = TRUE /\ d.init = "Authentication"
    BY <1>1 DEF Members
  <2>5. CASE n = 0 /\ Fits(d, srv, Drop(Coming, 1))
    <3>1. /\ Shift(<<"tunnels">> \o [k \in 1..n |-> "tunnel"]) /\ up' = up /\ rfb' = d
      BY <1>3, <2>5 DEF negotiateTightTunnels, Quiet, Return
    <3>2. Shift(<<"tunnels">>)
      BY <2>5, <3>1, NoneCounted
    <3>. HIDE DEF d
    <3>. QED  BY <1>1, <2>1, <2>3, <2>4, <2>5, <3>1, <3>2, ReadOne
  <2>6. CASE /\ n = 1 /\ Len(Coming) = 2 /\ Coming[2].f = "tunnel" /\ srv.at # "normal"
             /\ Expects(d, F("tunnel", 0), srv)
    <3>1. CASE rQwait(1, n)
      BY <1>1, <1>3, <2>6, <3>1, Waited DEF negotiateTightTunnels
    <3>2. CASE ~rQwait(1, n)
      <4>1. /\ Shift(<<"tunnels">> \o [k \in 1..n |-> "tunnel"])
            /\ (up' = up \o <<F("tunnel", 0)>> /\ rfb' = d) \/ rfb' = fail(d)
        BY <1>3, <2>6, <3>2 DEF negotiateTightTunnels, Send, Return
      <4>2. Shift(<<"tunnels", "tunnel">>)
        BY <2>6, <4>1, OneCounted
      <4>3. Len(rQ) >= 2
        BY <1>1, <2>6, <3>2 DEF rQwait
      <4>4. ~misread' /\ rQ' \in Seq(Field) /\ Coming' = Drop(Coming, 2)
        BY <1>1, <2>3, <2>6, <4>2, <4>3, ShiftsTwo
      <4>. HIDE DEF d
      <4>5. CASE rfb' = fail(d)
        BY <1>1, <2>4, <4>4, <4>5, GivenUp
      <4>6. CASE up' = up \o <<F("tunnel", 0)>> /\ rfb' = d
        <5>1. up = <<>>
          BY <2>1, Found
        <5>2. up' = <<F("tunnel", 0)>>
          BY <4>6, <5>1
        <5>3. Coming' = <<>>
          BY <1>1, <2>6, <4>4, AllDropped
        <5>4. Agree(rfb', srv, Coming', up')
          BY <2>6, <4>6, <5>2, <5>3 DEF Agree
        <5>. QED  BY <1>1, <2>4, <4>4, <4>6, <5>4, Advanced
      <4>. QED  BY <4>1, <4>5, <4>6
    <3>. QED  BY <3>1, <3>2
  <2>. QED  BY <2>3, <2>5, <2>6
<1>. QED  BY <1>2, <1>3

LEMMA negotiateTightAuthFits ==
    ASSUME Typed, Negotiated, ~misread, negotiateTightAuth
    PROVE  Fine
<1>0. Negotiate(sec.Tight) /\ rfb.tight
  BY DEF negotiateTightAuth
<1>1. /\ UNCHANGED <<net, srv>> /\ rfb.st = "connecting" /\ rfb.init = "Authentication"
      /\ rfb.scheme = sec.Tight /\ rfb.tight = TRUE /\ srv.at # "start" /\ Len(rQ) \in Nat
      /\ Members \subseteq DOMAIN rfb /\ Coming \in Seq(Field)
  BY <1>0, Known4Type
<1>. DEFINE n == rQ[1].v
            a == rQ[2].v
            d == [rfb EXCEPT !.init = "SecurityResult"]
            e == [rfb EXCEPT !.scheme = a]
<1>2. CASE rQwait(0, 1)
  BY <1>1, <1>2, Waited DEF negotiateTightAuth
<1>3. CASE ~rQwait(0, 1) /\ rQwait(1, n)
  BY <1>1, <1>3, Waited DEF negotiateTightAuth
<1>4. CASE ~rQwait(0, 1) /\ ~rQwait(1, n)
  <2>1. Len(rQ) # 0
    BY <1>1, <1>4 DEF rQwait
  <2>2. Fits(rfb, srv, Coming) /\ rQ[1] = Coming[1]
    BY <2>1, Found
  <2>3. /\ Coming # <<>> /\ Coming[1].f = "auths"
        /\ \/ n = 0 /\ Fits(d, srv, Drop(Coming, 1))
           \/ /\ n = 1 /\ Len(Coming) = 2 /\ Coming[2].f = "auth" /\ srv.at # "normal"
              /\ Coming[2].v = 1 => Expects(d, F("auth", 1), srv)
              /\ Coming[2].v \in {sec.VNCAuth, sec.UnixLogon} =>
                    Expects([rfb EXCEPT !.scheme = Coming[2].v], F("auth", Coming[2].v), srv)
    <3>1. /\ Coming \in Seq(Field) /\ Coming # <<>> /\ Coming[1].f = "auths"
          /\ \/ Coming[1].v = 0 /\ Fits(d, srv, Drop(Coming, 1))
             \/ /\ Coming[1].v = 1 /\ Len(Coming) = 2 /\ Coming[2].f = "auth" /\ srv.at # "normal"
                /\ Coming[2].v = 1 => Expects(d, F("auth", 1), srv)
                /\ Coming[2].v \in {sec.VNCAuth, sec.UnixLogon} =>
                      Expects([rfb EXCEPT !.scheme = Coming[2].v], F("auth", Coming[2].v), srv)
      BY <1>1, <2>2, AuthsFit, Zenon
    <3>2. n = Coming[1].v
      BY <2>2
    <3>. HIDE DEF n, d
    <3>. QED  BY <3>1, <3>2
  <2>4. /\ DOMAIN d = DOMAIN rfb /\ d.tight = TRUE /\ d.init = "SecurityResult"
        /\ DOMAIN e = DOMAIN rfb /\ e.tight = TRUE /\ e.init = "Authentication"
    BY <1>1 DEF Members
  <2>5. CASE n = 0 /\ Fits(d, srv, Drop(Coming, 1))
    <3>1. /\ Shift(<<"auths">> \o [k \in 1..n |-> "auth"]) /\ up' = up /\ rfb' = d
      BY <1>4, <2>5 DEF negotiateTightAuth, Quiet, Return
    <3>2. Shift(<<"auths">>)
      BY <2>5, <3>1, NoneCounted
    <3>. HIDE DEF d
    <3>. QED  BY <1>1, <2>1, <2>3, <2>4, <2>5, <3>1, <3>2, ReadOne
  <2>6. CASE /\ n = 1 /\ Len(Coming) = 2 /\ Coming[2].f = "auth" /\ srv.at # "normal"
             /\ Coming[2].v = 1 => Expects(d, F("auth", 1), srv)
             /\ Coming[2].v \in {sec.VNCAuth, sec.UnixLogon} =>
                   Expects([rfb EXCEPT !.scheme = Coming[2].v], F("auth", Coming[2].v), srv)
    <3>0. Len(rQ) >= 2
      BY <1>1, <1>4, <2>6 DEF rQwait
    <3>1. a = Coming[2].v
      BY <1>1, <3>0, ComingIs
    <3>2. /\ Shift(<<"auths">> \o [k \in 1..n |-> "auth"])
          /\ \/ rfb' = fail(rfb)
             \/ a = 1 /\ up' = up \o <<F("auth", a)>> /\ rfb' = d
             \/ a \in {sec.VNCAuth, sec.UnixLogon} /\ up' = up \o <<F("auth", a)>> /\ rfb' = e
      <4>1. n # 0
        BY <2>6
      <4>. HIDE DEF n, a, d, e
      <4>2. /\ Shift(<<"auths">> \o [k \in 1..n |-> "auth"])
            /\ IF a \notin {1, sec.VNCAuth, sec.UnixLogon} THEN Quiet /\ Return(FALSE, fail(rfb))
               ELSE Send(<<F("auth", a)>>) /\ Return(TRUE, IF a = 1 THEN d ELSE e)
        BY <1>4, <4>1, Zenon DEF negotiateTightAuth, n, a, d, e
      <4>. QED  BY <4>2 DEF Send, Return
    <3>3. Shift(<<"auths", "auth">>)
      BY <2>6, <3>2, OneCounted
    <3>4. ~misread' /\ rQ' \in Seq(Field) /\ Coming' = Drop(Coming, 2)
      BY <1>1, <2>3, <2>6, <3>0, <3>3, ShiftsTwo
    <3>5. Coming' = <<>>
      BY <1>1, <2>6, <3>4, AllDropped
    <3>6. up = <<>>
      BY <2>1, Found
    <3>7. a = 1 => Expects(d, F("auth", a), srv)
      BY <2>6, <3>1, Zenon
    <3>8. a \in {sec.VNCAuth, sec.UnixLogon} => Expects(e, F("auth", a), srv)
      BY <2>6, <3>1, Zenon
    <3>. HIDE DEF a, d, e
    <3>9. CASE rfb' = fail(rfb)
      BY <1>1, <3>4, <3>9, GivenUp
    <3>10. ASSUME NEW x, x \in {d, e}, Expects(x, F("auth", a), srv), up' = up \o <<F("auth", a)>>, rfb' = x
           PROVE  Fine
      <4>1. up' = <<F("auth", a)>>
        BY <3>6, <3>10
      <4>2. Agree(rfb', srv, Coming', up')
        BY <2>6, <3>5, <3>10, <4>1 DEF Agree
      <4>. QED  BY <1>1, <2>4, <3>4, <3>10, <4>2, Advanced
    <3>11. CASE a = 1 /\ up' = up \o <<F("auth", a)>> /\ rfb' = d
      BY <3>7, <3>10, <3>11
    <3>12. CASE a \in {sec.VNCAuth, sec.UnixLogon} /\ up' = up \o <<F("auth", a)>> /\ rfb' = e
      BY <3>8, <3>10, <3>12
    <3>. QED  BY <3>2, <3>9, <3>11, <3>12
  <2>. QED  BY <2>3, <2>5, <2>6
<1>. QED  BY <1>2, <1>3, <1>4

LEMMA negotiateUnsupportedFits ==
    ASSUME Typed, Negotiated, ~misread, negotiateUnsupported
    PROVE  Fine
<1>1. net' = net /\ rfb' = fail(rfb) /\ rQ' = rQ /\ misread' = misread /\ rQ \in Seq(Field)
  BY DEF negotiateUnsupported, InitMsg, Unread, Return, Typed
<1>. QED  BY <1>1, GivenUp

\* The result of the authentication.
LEMMA handleSecurityResultFits ==
    ASSUME Typed, Negotiated, ~misread, handleSecurityResult
    PROVE  Fine
<1>1. /\ UNCHANGED <<net, srv>> /\ rfb.st = "connecting" /\ rfb.init = "SecurityResult"
      /\ rfb.tight \in BOOLEAN /\ srv.at # "start" /\ Len(rQ) \in Nat
      /\ Members \subseteq DOMAIN rfb /\ Coming \in Seq(Field)
  BY ComingIs DEF handleSecurityResult, InitMsg, Negotiated, Typed
<1>2. CASE rQwait(0, 1)
  BY <1>1, <1>2, Waited DEF handleSecurityResult
<1>3. CASE ~rQwait(0, 1)
  <2>. DEFINE d == [rfb EXCEPT !.init = "ClientInitialisation"]
              e == [rfb EXCEPT !.init = "SecurityReason"]
              v == rQ[1].v
  <2>1. Len(rQ) # 0
    BY <1>1, <1>3 DEF rQwait
  <2>2. Fits(rfb, srv, Coming) /\ rQ[1] = Coming[1]
    BY <2>1, Found
  <2>3. /\ Coming[1].f = "result"
        /\ Coming[1].v = 0 => Fits(d, srv, Drop(Coming, 1))
        /\ Coming[1].v # 0 /\ rfb.version >= 38 => Fits(e, srv, Drop(Coming, 1))
    BY <1>1, <2>2, ResultFits, Zenon
  <2>4. /\ DOMAIN d = DOMAIN rfb /\ d.tight = rfb.tight /\ d.init = "ClientInitialisation"
        /\ DOMAIN e = DOMAIN rfb /\ e.tight = rfb.tight /\ e.init = "SecurityReason"
    BY <1>1 DEF Members
  <2>5. /\ Shift(<<"result">>) /\ up' = up
        /\ \/ v = 0 /\ rfb' = d
           \/ v # 0 /\ rfb.version >= 38 /\ rfb' = e
           \/ rfb' = fail(rfb)
    BY <1>3 DEF handleSecurityResult, Quiet, Return
  <2>6. v = Coming[1].v
    BY <2>2
  <2>. HIDE DEF d, e, v
  <2>7. CASE rfb' = fail(rfb)
    <3>1. ~misread' /\ rQ' \in Seq(Field)
      BY <1>1, <2>1, <2>3, <2>5, ShiftsOne
    <3>. QED  BY <1>1, <2>7, <3>1, GivenUp
  <2>8. ASSUME NEW x, x \in {d, e}, Fits(x, srv, Drop(Coming, 1)), rfb' = x
        PROVE  Fine
    BY <1>1, <2>1, <2>3, <2>4, <2>5, <2>8, ReadOne
  <2>. QED  BY <2>3, <2>5, <2>6, <2>7, <2>8
<1>. QED  BY <1>2, <1>3

\* The client's initialisation.
LEMMA clientInitialisationFits ==
    ASSUME Typed, Negotiated, ~misread, clientInitialisation
    PROVE  Fine
<1>1. /\ UNCHANGED <<net, srv>> /\ rfb.st = "connecting" /\ rfb.init = "ClientInitialisation"
      /\ rfb.tight \in BOOLEAN /\ srv.at # "start" /\ rQ \in Seq(Field)
      /\ Members \subseteq DOMAIN rfb /\ Agree(rfb, srv, Coming, up)
  BY ComingIs DEF clientInitialisation, InitMsg, Negotiated, Typed
<1>. DEFINE d == [rfb EXCEPT !.init = "ServerInitialisation"]
<1>2. rfb' = d /\ up' = up \o <<F("init", 0)>> /\ rQ' = rQ /\ misread' = misread
  BY DEF clientInitialisation, Send, Unread, Return
<1>3. DOMAIN d = DOMAIN rfb /\ d.tight = rfb.tight /\ d.init = "ServerInitialisation"
  BY <1>1 DEF Members
<1>4. ~Patient(rfb) /\ Patient(d)
  BY <1>1, <1>3 DEF Patient
<1>5. \A s, S : Fits(rfb, s, S) => S = <<>> /\ s.at # "normal" /\ Expects(d, F("init", 0), s)
  BY <1>1, InitFits, Zenon
<1>. HIDE DEF d
<1>6. Agree(d, srv, Coming, up \o <<F("init", 0)>>)
  BY <1>1, <1>4, <1>5, AgreeSends
<1>7. Coming' = Coming
  BY <1>1, <1>2 DEF Coming
<1>8. Agree(rfb', srv, Coming', up')
  BY <1>2, <1>6, <1>7, Zenon
<1>. QED  BY <1>1, <1>2, <1>3, <1>8, Advanced

\* What the handler of the introduction shifts.
LEMMA IntroductionShifts ==
    ASSUME NEW tight, NEW n, tight => n = 1,
           NEW l, l = <<"server", "name">> \o IF tight THEN <<"extended">> \o [k \in 1..n |-> "caps"] ELSE <<>>
    PROVE  /\ Len(l) = IF tight THEN 4 ELSE 2
           /\ l[1] = "server" /\ l[2] = "name"
           /\ tight => l[3] = "extended" /\ l[4] = "caps"
<1>. DEFINE N == {"server", "name", "extended", "caps"}
            two == <<"server", "name">>
            more == <<"extended">> \o [k \in 1..n |-> "caps"]
<1>1. two \in Seq(N) /\ Len(two) = 2 /\ two[1] = "server" /\ two[2] = "name"
  OBVIOUS
<1>2. CASE tight
  <2>1. more \in Seq(N) /\ Len(more) = 2 /\ more[1] = "extended" /\ more[2] = "caps"
    <3>1. n \in Nat /\ 1 + n = 2
      BY <1>2
    <3>2. Len(more) = 2 /\ more[1] = "extended" /\ more[2] = "caps"
      BY <3>1, NamesAre
    <3>3. <<"extended">> \in Seq(N) /\ [k \in 1..n |-> "caps"] \in Seq(N)
      BY <3>1
    <3>4. more \in Seq(N)
      BY <3>3, ConcatProperties
    <3>. QED  BY <3>2, <3>4
  <2>2. l = two \o more
    BY <1>2
  <2>. HIDE DEF two, more, N
  <2>3. /\ Len(two \o more) = Len(two) + Len(more)
        /\ \A k \in 1..(Len(two) + Len(more)) :
              (two \o more)[k] = IF k <= Len(two) THEN two[k] ELSE more[k - Len(two)]
    BY <1>1, <2>1, ConcatProperties, Zenon
  <2>4. /\ Len(two \o more) = 4 /\ (two \o more)[1] = two[1] /\ (two \o more)[2] = two[2]
        /\ (two \o more)[3] = more[1] /\ (two \o more)[4] = more[2]
    BY <1>1, <2>1, <2>3
  <2>. QED  BY <1>1, <1>2, <2>1, <2>2, <2>4
<1>3. CASE ~tight
  <2>1. l = two
    BY <1>1, <1>3, ConcatEmptySeq
  <2>. QED  BY <1>1, <1>3, <2>1
<1>. QED  BY <1>2, <1>3

\* The introduction: the last thing that is read, and the first request.
LEMMA negotiateServerInitFits ==
    ASSUME Typed, Negotiated, ~misread, negotiateServerInit
    PROVE  /\ Fine
           /\ rfb'.st # "connecting" =>
                 Coming' = <<>> /\ up' = <<F("request", 0)>> /\ rfb' = Connected /\ srv'.at = "normal"
<1>1. /\ UNCHANGED <<net, srv>> /\ rfb.st = "connecting" /\ rfb.init = "ServerInitialisation"
      /\ rfb.tight \in BOOLEAN /\ srv.at # "start" /\ Len(rQ) \in Nat
      /\ Members \subseteq DOMAIN rfb /\ Coming \in Seq(Field)
  BY ComingIs DEF negotiateServerInit, InitMsg, Negotiated, Typed
<1>. DEFINE l == <<"server", "name">>
                 \o IF rfb.tight THEN <<"extended">> \o [k \in 1..rQ[3].v |-> "caps"] ELSE <<>>
            waits == Waits(0, 0) \/ Waits(1, 1) \/ Waits(2, 2) \/ Waits(3, 3)
<1>2. waits \/ /\ ~rQwait(0, 1) /\ ~rQwait(1, 1)
               /\ ~(rfb.tight /\ rQwait(2, 1)) /\ ~(rfb.tight /\ rQwait(3, rQ[3].v))
               /\ Shift(l) /\ Send(<<F("request", 0)>>) /\ Return(TRUE, Connected)
  BY Zenon DEF negotiateServerInit
<1>3. CASE waits
  <2>1. PICK n \in {0, 1, 2, 3} : Waits(n, n)
    BY <1>3, Zenon
  <2>2. rfb' = rfb
    BY <2>1 DEF Waits, Return
  <2>. QED  BY <1>1, <2>1, <2>2, Waited
<1>4. CASE /\ ~rQwait(0, 1) /\ ~rQwait(1, 1)
           /\ ~(rfb.tight /\ rQwait(2, 1)) /\ ~(rfb.tight /\ rQwait(3, rQ[3].v))
           /\ Shift(l) /\ Send(<<F("request", 0)>>) /\ Return(TRUE, Connected)
  <2>1. Len(rQ) # 0 /\ Len(rQ) >= 2 /\ (rfb.tight => Len(rQ) >= 3)
    BY <1>1, <1>4 DEF rQwait
  <2>2. up = <<>> /\ Fits(rfb, srv, Coming)
    BY <2>1, Found
  <2>3. Coming = Introduction(rfb.tight) /\ srv'.at = "normal"
    BY <1>1, <2>2 DEF Fits
  <2>4. /\ Coming[1].f = "server" /\ Coming[2].f = "name"
        /\ Len(Coming) = IF rfb.tight THEN 4 ELSE 2
        /\ rfb.tight => Coming[3] = F("extended", 1) /\ Coming[4].f = "caps"
    BY <2>3, IntroductionIs
  <2>5. rfb.tight => rQ[3].v = 1 /\ Coming[3].f = "extended"
    <3>1. rfb.tight => rQ[3] = Coming[3]
      BY <1>1, <2>1, ComingIs
    <3>. QED  BY <2>4, <3>1, FIs
  <2>6. /\ Len(l) = IF rfb.tight THEN 4 ELSE 2
        /\ l[1] = "server" /\ l[2] = "name"
        /\ rfb.tight => l[3] = "extended" /\ l[4] = "caps"
    BY <2>5, IntroductionShifts
  <2>7. Shift(l)
    BY <1>4
  <2>. HIDE DEF l
  <2>8. Len(l) <= Len(rQ)
    BY <1>1, <1>4, <2>1, <2>5, <2>6 DEF rQwait
  <2>9. ASSUME NEW k \in 1..Len(l) PROVE Coming[k].f = l[k]
    <3>1. k = 1 \/ k = 2 \/ (rfb.tight /\ (k = 3 \/ k = 4))
      BY <2>6
    <3>. QED  BY <2>4, <2>5, <2>6, <3>1
  <2>10. ~misread' /\ rQ' \in Seq(Field) /\ Coming' = Drop(Coming, Len(l))
    <3>1. Len(l) \in Nat
      BY <2>6
    <3>. QED  BY <1>1, <2>7, <2>8, <2>9, <3>1, Shifts
  <2>11. Coming' = <<>>
    <3>1. Len(l) = Len(Coming)
      BY <2>4, <2>6
    <3>. QED  BY <1>1, <2>10, <3>1, AllDropped
  <2>12. up' = <<F("request", 0)>> /\ rfb' = Connected
    BY <1>4, <2>2 DEF Send, Return
  <2>13. DOMAIN Connected = DOMAIN rfb /\ Connected.st = "connected"
    BY <1>1 DEF Connected, Members
  <2>14. Fine
    BY <1>1, <2>10, <2>12, <2>13 DEF Fine, Typed
  <2>. QED  BY <2>3, <2>11, <2>12, <2>14
<1>. QED  BY <1>2, <1>3, <1>4

\* Every call of _initMsg.
LEMMA initMsgFits ==
    ASSUME Typed, Negotiated, Counting, ~misread, initMsg
    PROVE  Fine
BY negotiateProtocolVersionFits, negotiateSecurityFits, handleSecurityReasonFits,
   negotiateNoneFits, negotiateXvpAuthFits, negotiateVeNCryptAuthFits, negotiatePlainAuthFits,
   negotiateStdVNCAuthFits, negotiateARDAuthFits, negotiateMSLogonIIAuthFits,
   negotiateTightTunnelsFits, negotiateTightAuthFits, negotiateUnsupportedFits,
   handleSecurityResultFits, clientInitialisationFits, negotiateServerInitFits DEF initMsg

\* What a call of _initMsg does to the RFB object: only the end of the handshake
\* connects it, a failure ends the loop, and the subtypes are counted before they
\* are read.
Calls == /\ Counting' /\ rfb'.st \in {"connecting", "over"}
         /\ running' = "loop" => rfb'.st = "connecting"

\* A call leaves the number of subtypes that it has read, and goes on only
\* while the handshake lasts.
LEMMA negotiatesStart ==
    ASSUME Typed, Counting, negotiateProtocolVersion \/ negotiateSecurity \/ handleSecurityReason
    PROVE  Calls
<1>. USE DEF Calls, Counting, Typed, Members, Return, Waits, fail, InitMsg, Agreed
<1>1. CASE negotiateProtocolVersion
  BY <1>1 DEF negotiateProtocolVersion
<1>2. CASE negotiateSecurity
  BY <1>2 DEF negotiateSecurity
<1>3. CASE handleSecurityReason
  BY <1>3 DEF handleSecurityReason
<1>. QED  BY <1>1, <1>2, <1>3

LEMMA negotiatesTypes ==
    ASSUME Typed, Counting,
           \/ negotiateNone \/ negotiateXvpAuth \/ negotiatePlainAuth
           \/ negotiateStdVNCAuth \/ negotiateARDAuth \/ negotiateMSLogonIIAuth
           \/ negotiateTightTunnels \/ negotiateTightAuth \/ negotiateUnsupported
    PROVE  Calls
<1>. USE DEF Calls, Counting, Typed, Members, Return, Waits, fail, InitMsg, Negotiate, Answered, Requires
<1>1. CASE negotiateNone
  BY <1>1 DEF negotiateNone
<1>2. CASE negotiateXvpAuth
  BY <1>2 DEF negotiateXvpAuth
<1>3. CASE negotiatePlainAuth
  BY <1>3 DEF negotiatePlainAuth
<1>4. CASE negotiateStdVNCAuth
  BY <1>4 DEF negotiateStdVNCAuth
<1>5. CASE negotiateARDAuth
  BY <1>5 DEF negotiateARDAuth
<1>6. CASE negotiateMSLogonIIAuth
  BY <1>6 DEF negotiateMSLogonIIAuth
<1>7. CASE negotiateTightTunnels
  BY <1>7 DEF negotiateTightTunnels
<1>8. CASE negotiateTightAuth
  BY <1>8 DEF negotiateTightAuth
<1>9. CASE negotiateUnsupported
  BY <1>9 DEF negotiateUnsupported
<1>. QED  BY <1>1, <1>2, <1>3, <1>4, <1>5, <1>6, <1>7, <1>8, <1>9

LEMMA negotiatesEnd ==
    ASSUME Typed, Counting, handleSecurityResult \/ clientInitialisation
    PROVE  Calls
<1>. USE DEF Calls, Counting, Typed, Members, Return, Waits, fail, InitMsg
<1>1. CASE handleSecurityResult
  BY <1>1 DEF handleSecurityResult
<1>2. CASE clientInitialisation
  BY <1>2 DEF clientInitialisation
<1>. QED  BY <1>1, <1>2

LEMMA negotiatesVeNCrypt ==
    ASSUME Typed, Counting, negotiateVeNCryptAuth
    PROVE  Calls
<1>0. rfb.st = "connecting" /\ Members \subseteq DOMAIN rfb
  BY DEF negotiateVeNCryptAuth, Negotiate, InitMsg, Typed
<1>7. running' = "loop" => rfb'.st = "connecting"
  <2>1. \E ok, c : Return(ok, c)
    BY DEF negotiateVeNCryptAuth, Waits
  <2>. QED  BY <2>1 DEF Return
<1>1. ASSUME rfb' = rfb PROVE Calls
  BY <1>0, <1>7, <1>1 DEF Calls, Counting
<1>2. ASSUME rfb' = fail(rfb) PROVE Calls
  BY <1>0, <1>7, <1>2 DEF Calls, Counting, fail, Members
<1>3. ASSUME NEW x, NEW n \in {1, 2, 4}, rfb' = [rfb EXCEPT !.vencrypt = n] \/ rfb' = [rfb EXCEPT !.scheme = x, !.vencrypt = n]
      PROVE Calls
  <2>1. rfb'.vencrypt = n /\ rfb'.st = "connecting"
    BY <1>0, <1>3 DEF Members
  <2>. QED  BY <1>7, <2>1 DEF Calls, Counting
<1>. DEFINE n == rQ[1].v
            c == [rfb EXCEPT !.subtypes = n, !.vencrypt = 3]
            t == Choice(SubSeq(rQ, 1, rfb.subtypes), clientTypes \ {sec.VeNCrypt})
            d == [rfb EXCEPT !.scheme = t, !.vencrypt = 4]
<1>4. ASSUME rfb' = c, ~rQwait(0, 1), ~(n < 1) PROVE Calls
  <2>1. n \in Int
    <3>1. rQ \in Seq(Field) /\ 1 \in 1..Len(rQ)
      BY <1>4, EmptyIs DEF Typed, rQwait
    <3>. QED  BY <3>1, FieldValues
  <2>2. c.st = "connecting" /\ c.vencrypt = 3 /\ c.subtypes = n
    BY <1>0 DEF Members
  <2>. QED  BY <1>7, <1>4, <2>1, <2>2 DEF Calls, Counting
<1>. HIDE DEF c, d, t
<1>5. \/ rfb' = rfb \/ rfb' = fail(rfb) \/ \E k \in {1, 2} : rfb' = [rfb EXCEPT !.vencrypt = k]
      \/ rfb' = c /\ ~rQwait(0, 1) /\ ~(n < 1)
      \/ rfb' = d
  BY DEF negotiateVeNCryptAuth, Waits, Return, c, d, t
<1>6. CASE rfb' = d
  BY <1>3, <1>6, Zenon DEF d
<1>. QED  BY <1>1, <1>2, <1>3, <1>4, <1>5, <1>6

\* Only the last handler of the handshake ends it with a connection.
LEMMA initMsgCalls ==
    ASSUME Typed, Counting, initMsg
    PROVE  Calls \/ (negotiateServerInit /\ Counting')
<1>1. CASE negotiateServerInit
  <2>1. Counting'
    <3>1. rfb' = rfb \/ rfb' = Connected
      BY <1>1 DEF negotiateServerInit, Return, Waits
    <3>2. Connected.vencrypt = 0
      BY DEF Connected, Typed, Members
    <3>. QED  BY <3>1, <3>2 DEF Counting
  <2>. QED  BY <1>1, <2>1
<1>. QED  BY <1>1, negotiatesStart, negotiatesTypes, negotiatesEnd, negotiatesVeNCrypt DEF initMsg

------------------------------------------------------------------------------
(* The stream after the handshake: definitions.                            *)

\* Position p is where f stands.  Lines and tiles are counted when the first is awaited.
Spots == {"rects", "rect", "left", "len", "tight", "sof", "view"}
LeftOf(rect, left) == IF rect.v \in {0, 5} /\ left = 0 THEN rect.n ELSE left
Stands(p, f) ==
    /\ Spots \subseteq DOMAIN p
    /\ p.rects = f.rects /\ p.rect = f.rect /\ p.left = LeftOf(f.rect, f.left)
    /\ p.len = f.len /\ p.tight = f.tight /\ p.sof = f.sof /\ p.view = f.viewOnly

Parts == {"rects", "rect", "flushing", "cont", "supportsCont", "forgot", "left", "lastsub", "len",
          "sof", "tight", "video", "caps", "viewOnly", "disp"}

\* What a client asks of the server; one that only views does not ask for its clipboard.
Wanted == {"request", "enable", "caps", "fence"}
Clipboard == {"clipRequest"}
Wishes(view) == [f : Wanted, v : Int] \cup IF view THEN {} ELSE [f : Clipboard, v : Int]
Pending(name) == \E k \in 1..Len(up) : up[k].f = name

\* From where f stands the stream S is read to its end, and due updates begin in it.
Readable(home, f, S, due) ==
    \E G : Closed(G, home) /\ \E p : Stands(p, f) /\ At(p, S, due) \in G

\* What a handler may rely on.
Placed == /\ Typed /\ ~misread
          /\ Parts \subseteq DOMAIN fb
          /\ up \in Seq(Wishes(fb.viewOnly))

\* What it keeps to.
Kept ==
    /\ rQ' \in Seq(Field) /\ UNCHANGED <<net, srv, peer>> /\ DOMAIN rfb' = DOMAIN rfb /\ ~misread'
    /\ Parts \subseteq DOMAIN fb' /\ fb'.viewOnly = fb.viewOnly
    /\ up' = up \/ \E m \in Seq(Wishes(fb.viewOnly)) : up' = up \o m
    /\ rfb' = rfb \/ rfb'.st = "over"

\* It waits, and nothing has been read;
Stayed ==
    /\ Coming' = Coming /\ \A p : Stands(p, fb) => Stands(p, fb')
    /\ fb'.rects = fb.rects /\ fb'.flushing = fb.flushing
    /\ fb'.forgot = fb.forgot /\ fb'.cont = fb.cont

\* or the connection has failed, and nothing is read any more;
Ended == rfb'.st = "over" /\ running' = "no"

\* or an item of n fields has been read, and the client is at position q.  When
\* an update has been drawn the next one is requested, or they come unasked.
Quietly(f) == f.rects = 0 /\ ~f.forgot
Gone(n, q) ==
    /\ Coming' = Drop(Coming, n) /\ Stands(q, fb')
    /\ rfb'.st = "connected" =>
          /\ fb'.cont => fb.cont \/ Pending("enable")'
          /\ Quietly(fb') => \/ Pending("request")' \/ fb'.cont
                             \/ Quietly(fb) /\ Coming[1].v # 0

Comes(n, q) == Kept /\ (Stayed \/ Ended \/ Gone(n, q))

\* At p an item of n fields is ahead, and q behind it.
Follow(p, n, q) ==
    Stands(p, fb) /\ p.left \in Nat /\ n \in 0..Len(Coming) /\ q \in After(p, SubSeq(Coming, 1, n))

------------------------------------------------------------------------------
(* Positions.                                                              *)

\* The encodings by their numbers.
LEMMA EncAre ==
    /\ enc.Raw = 0 /\ enc.CopyRect = 1 /\ enc.RRE = 2 /\ enc.Hextile = 5 /\ enc.Zlib = 6
    /\ enc.Tight = 7 /\ enc.ZRLE = 16 /\ enc.JPEG = 21 /\ enc.H264 = 50 /\ enc.TightPNG = -260
    /\ enc.DesktopSize = -223 /\ enc.LastRect = -224 /\ enc.Cursor = -239
    /\ enc.QEMUExtendedKeyEvent = -258 /\ enc.QEMULedEvent = -261 /\ enc.DesktopName = -307
    /\ enc.ExtendedDesktopSize = -308 /\ enc.ExtendedMouseButtons = -316
    /\ enc.VMwareCursor = 1464686180
BY DEF enc

\* The members of the next positions.
LEMMA CompleteIs ==
    ASSUME NEW p, Spots \subseteq DOMAIN p
    PROVE  /\ Spots \subseteq DOMAIN Complete(p)
           /\ Complete(p).rects = p.rects - 1 /\ Complete(p).rect = NoRect /\ Complete(p).left = p.left
           /\ Complete(p).len = p.len /\ Complete(p).tight = p.tight /\ Complete(p).sof = p.sof
           /\ Complete(p).view = p.view
BY DEF Complete, Spots

LEMMA LeftIs ==
    ASSUME NEW p, Spots \subseteq DOMAIN p, NEW n
    PROVE  LET q == Left(p, n) IN
           /\ Spots \subseteq DOMAIN q
           /\ q.rects = (IF n = 0 THEN p.rects - 1 ELSE p.rects) /\ q.rect = (IF n = 0 THEN NoRect ELSE p.rect)
           /\ q.left = n /\ q.len = p.len /\ q.tight = p.tight /\ q.sof = p.sof /\ q.view = p.view
BY DEF Left, Complete, Spots

LEMMA TightCompleteIs ==
    ASSUME NEW p, Spots \subseteq DOMAIN p
    PROVE  LET q == TightComplete(p) IN
           /\ Spots \subseteq DOMAIN q
           /\ q.rects = p.rects - 1 /\ q.rect = NoRect /\ q.left = p.left /\ q.len = p.len
           /\ q.tight = [p.tight EXCEPT ![p.rect.v].ctl = -1, ![p.rect.v].filter = -1]
           /\ q.sof = p.sof /\ q.view = p.view
BY DEF TightComplete, Complete, Spots

------------------------------------------------------------------------------
(* Waiting, shifting and sending.                                          *)

\* What is ahead.
LEMMA HeadIs ==
    ASSUME NEW S \in Seq(Field), NEW n \in 0..Len(S)
    PROVE  LET h == SubSeq(S, 1, n) IN
           /\ Len(h) = n /\ (h = <<>> <=> n = 0) /\ (h # <<>> <=> n # 0)
           /\ \A k \in 1..n : h[k] = S[k]
<1>1. /\ SubSeq(S, 1, n) \in Seq(Field) /\ Len(SubSeq(S, 1, n)) = n
      /\ \A k \in 1..n : SubSeq(S, 1, n)[k] = S[k]
  OBVIOUS
<1>. QED  BY <1>1, EmptyIs

\* An item of one, two, three or no fields is at the head of the stream.
LEMMA OneAhead ==
    ASSUME NEW S \in Seq(Field), NEW n \in 0..Len(S), NEW f, One(SubSeq(S, 1, n), f)
    PROVE  n = 1 /\ S[1].f = f /\ SubSeq(S, 1, n)[1] = S[1]
BY HeadIs DEF One

LEMMA TwoAhead ==
    ASSUME NEW S \in Seq(Field), NEW n \in 0..Len(S), NEW f, NEW g, Two(SubSeq(S, 1, n), f, g)
    PROVE  /\ n = 2 /\ S[1].f = f /\ S[2].f = g
           /\ SubSeq(S, 1, n)[1] = S[1] /\ SubSeq(S, 1, n)[2] = S[2]
BY HeadIs DEF Two

LEMMA ThreeAhead ==
    ASSUME NEW S \in Seq(Field), NEW n \in 0..Len(S), NEW f, NEW g, NEW k, Three(SubSeq(S, 1, n), f, g, k)
    PROVE  /\ n = 3 /\ S[1].f = f /\ S[2].f = g /\ S[3].f = k
           /\ SubSeq(S, 1, n)[1] = S[1]
BY HeadIs DEF Three

LEMMA NoneAhead ==
    ASSUME NEW S \in Seq(Field), NEW n \in 0..Len(S), SubSeq(S, 1, n) = <<>>
    PROVE  n = 0
BY HeadIs

\* A handler that waits has put back what it shifted.
LEMMA WaitsBack ==
    ASSUME Typed, NEW n \in Nat, Waits(n, n)
    PROVE  rQ' = rQ /\ rfb' = rfb /\ running' = "no" /\ up' = up /\ misread' = misread
<1>1. rQ' = rQ
  <2>1. n - n = 0
    OBVIOUS
  <2>2. rQ' = Drop(rQ, 0)
    BY <2>1 DEF Waits
  <2>3. rQ \in Seq(Field) /\ 0 \in 0..Len(rQ)
    BY EmptyIs DEF Typed
  <2>4. /\ rQ' \in Seq(Field) /\ Len(rQ') = Len(rQ)
        /\ \A k \in 1..Len(rQ) : rQ'[k] = rQ[k]
    BY <2>2, <2>3, DropIs
  <2>. QED  BY <2>3, <2>4, SeqEqual
<1>. QED  BY <1>1 DEF Waits, Return

\* A handler that waits has taken nothing.
LEMMA Waiting ==
    ASSUME Placed, Stay, NEW i \in Nat, Waits(i, i), NEW f, fb' = f,
           Parts \subseteq DOMAIN f, \A p : Stands(p, fb) => Stands(p, f),
           f.rects = fb.rects, f.flushing = fb.flushing, f.forgot = fb.forgot,
           f.cont = fb.cont, f.viewOnly = fb.viewOnly
    PROVE  Kept /\ Stayed
<1>1. rQ' = rQ /\ rfb' = rfb /\ up' = up /\ misread' = misread
  BY WaitsBack DEF Placed
<1>2. Coming' = Coming
  BY <1>1 DEF Coming, Stay
<1>. QED  BY <1>1, <1>2 DEF Kept, Stayed, Placed, Typed, Stay

LEMMA WaitingFor ==
    ASSUME Placed, Stay, NEW i \in Nat, WaitFor(i, i)
    PROVE  Kept /\ Stayed
BY Waiting DEF WaitFor, Placed

\* What is asked of the server stays asked until it reads it.
LEMMA AskingAdds ==
    ASSUME NEW A, NEW u \in Seq(A), NEW m \in Seq(A)
    PROVE  /\ u \o m \in Seq(A)
           /\ \A k \in 1..Len(u) : k \in 1..Len(u \o m) /\ (u \o m)[k] = u[k]
           /\ \A k \in 1..Len(m) : Len(u) + k \in 1..Len(u \o m) /\ (u \o m)[Len(u) + k] = m[k]
<1>1. /\ u \o m \in Seq(A) /\ Len(u \o m) = Len(u) + Len(m) /\ Len(u) \in Nat /\ Len(m) \in Nat
      /\ \A k \in 1..(Len(u) + Len(m)) : (u \o m)[k] = IF k <= Len(u) THEN u[k] ELSE m[k - Len(u)]
  BY ConcatProperties, LenProperties
<1>. DEFINE w == u \o m
<1>. HIDE DEF w
<1>2. ASSUME NEW k \in 1..Len(u) PROVE k \in 1..Len(w) /\ w[k] = u[k]
  BY <1>1 DEF w
<1>3. ASSUME NEW k \in 1..Len(m) PROVE Len(u) + k \in 1..Len(w) /\ w[Len(u) + k] = m[k]
  <2>1. Len(u) + k \in 1..(Len(u) + Len(m)) /\ ~(Len(u) + k <= Len(u)) /\ (Len(u) + k) - Len(u) = k
    BY <1>1
  <2>2. w[Len(u) + k] = m[(Len(u) + k) - Len(u)]
    BY <1>1, <2>1 DEF w
  <2>. QED  BY <1>1, <2>1, <2>2 DEF w
<1>. QED  BY <1>1, <1>2, <1>3 DEF w

\* A message that is sent is under way.
LEMMA SendsOne ==
    ASSUME Placed, NEW m \in Seq(Wishes(fb.viewOnly)), Sends(m)
    PROVE  /\ up' = up \/ \E l \in Seq(Wishes(fb.viewOnly)) : up' = up \o l
           /\ rfb.st = "connected" => \A k \in 1..Len(m) : Pending(m[k].f)'
<1>1. CASE rfb.st = "connected"
  <2>1. up' = up \o m
    BY <1>1 DEF Sends
  <2>2. ASSUME NEW k \in 1..Len(m) PROVE Pending(m[k].f)'
    <3>1. Len(up) + k \in 1..Len(up') /\ up'[Len(up) + k] = m[k]
      BY <2>1, AskingAdds DEF Placed
    <3>. QED  BY <3>1 DEF Pending
  <2>. QED  BY <2>1, <2>2
<1>2. CASE rfb.st # "connected"
  BY <1>2 DEF Sends
<1>. QED  BY <1>1, <1>2

\* What the client asks for.
LEMMA WishesAre ==
    ASSUME NEW view
    PROVE  /\ <<>> \in Seq(Wishes(view))
           /\ \A f \in Wanted : \A v \in Int : <<F(f, v)>> \in Seq(Wishes(view))
           /\ {"request", "enable", "caps", "fence"} \subseteq Wanted
           /\ ~view => <<F("clipRequest", 0)>> \in Seq(Wishes(view))
<1>1. ASSUME NEW f \in Wanted, NEW v \in Int PROVE F(f, v) \in Wishes(view)
  BY DEF F, Wishes
<1>2. ~view => F("clipRequest", 0) \in Wishes(view)
  <2>1. ASSUME NEW f \in Clipboard, ~view PROVE F(f, 0) \in Wishes(view)
    BY <2>1 DEF F, Wishes
  <2>2. "clipRequest" \in Clipboard
    BY DEF Clipboard
  <2>. QED  BY <2>1, <2>2
<1>3. \A x \in Wishes(view) : <<x>> \in Seq(Wishes(view))
  OBVIOUS
<1>4. {"request", "enable", "caps", "fence"} \subseteq Wanted
  BY DEF Wanted
<1>. QED  BY <1>1, <1>2, <1>3, <1>4

\* The fields l have arrived.
Arrived(l) == Len(l) \in Nat /\ Len(l) <= Len(rQ) /\ \A k \in 1..Len(l) : Coming[k].f = l[k]

\* The handler shifts the fields l, and goes on with f.
Fetches(l, f) ==
    /\ Arrived(l)
    /\ Parts \subseteq DOMAIN f /\ f.viewOnly = fb.viewOnly /\ f.cont = fb.cont

\* q is where f stands when its rectangle is complete.
Closes(q, f) ==
    /\ Spots \subseteq DOMAIN q
    /\ q.rects = f.rects - 1 /\ q.rect = NoRect /\ q.left = f.left
    /\ q.len = f.len /\ q.tight = f.tight /\ q.sof = f.sof /\ q.view = f.viewOnly

\* A decoder that goes on stands where its item ends.
LEMMA GoesOn ==
    ASSUME Placed, Stay, NEW l, NEW f, Fetches(l, f), NEW q, Stands(q, f), f.rects # 0, GoOn(l, f)
    PROVE  Kept /\ Gone(Len(l), q)
<1>1. ~misread' /\ rQ' \in Seq(Field) /\ Coming' = Drop(Coming, Len(l))
  BY Shifts DEF Placed, Stay, Fetches, Arrived, GoOn
<1>2. fb' = f /\ up' = up /\ rfb' = rfb
  BY DEF GoOn, Quiet
<1>3. Kept
  BY <1>1, <1>2 DEF Kept, Fetches, Stay
<1>4. fb'.rects # 0 /\ Stands(q, fb') /\ fb'.cont = fb.cont
  BY <1>2 DEF Fetches
<1>5. Gone(Len(l), q)
  BY <1>1, <1>4 DEF Gone, Quietly
<1>. QED  BY <1>3, <1>5

\* The handler's f becomes g, and then perhaps h.
Completed(g, f) == g = [f EXCEPT !.rects = @ - 1, !.rect = NoRect]
Flipped(h, g) == h = g \/ h = [g EXCEPT !.disp = flip(@)]

\* A rectangle that is complete leaves the client before the next one.
LEMMA ClosedStands ==
    ASSUME NEW f, Parts \subseteq DOMAIN f, NEW q, Closes(q, f), NEW g, NEW h,
           Completed(g, f), Flipped(h, g)
    PROVE  /\ Stands(q, h) /\ Parts \subseteq DOMAIN h /\ h.viewOnly = f.viewOnly /\ h.cont = f.cont
           /\ h.rects = f.rects - 1 /\ h.rects = g.rects
<1>1. /\ Parts \subseteq DOMAIN g /\ g.rects = f.rects - 1 /\ g.rect = NoRect /\ g.left = f.left
      /\ g.len = f.len /\ g.tight = f.tight /\ g.sof = f.sof /\ g.viewOnly = f.viewOnly
      /\ g.cont = f.cont
  BY DEF Parts, Completed
<1>2. /\ Parts \subseteq DOMAIN h /\ h.rects = g.rects /\ h.rect = g.rect /\ h.left = g.left
      /\ h.len = g.len /\ h.tight = g.tight /\ h.sof = g.sof /\ h.viewOnly = g.viewOnly
      /\ h.cont = g.cont
  BY <1>1 DEF Parts, Flipped
<1>3. \A x : LeftOf(NoRect, x) = IF x = 0 THEN 0 ELSE x
  BY DEF LeftOf, NoRect
<1>. QED  BY <1>1, <1>2, <1>3 DEF Stands, Closes

\* A handler sends m with the end of its rectangle.
LEMMA Closing ==
    ASSUME Placed, Stay, NEW l, NEW f, Fetches(l, f), NEW q, Closes(q, f), Shift(l),
           NEW m \in Seq(Wishes(fb.viewOnly)), Sends(m) \/ (m = <<>> /\ Quiet),
           NEW g, Completed(g, f), Flipped(fb', g),
           g.rects = 0 /\ ~fb.cont => \E k \in 1..Len(m) : m[k].f = "request",
           rfb' = rfb
    PROVE  Kept /\ Gone(Len(l), q)
<1>1. ~misread' /\ rQ' \in Seq(Field) /\ Coming' = Drop(Coming, Len(l))
  BY Shifts DEF Placed, Stay, Fetches, Arrived
<1>2. /\ Stands(q, fb') /\ Parts \subseteq DOMAIN fb' /\ fb'.viewOnly = f.viewOnly
      /\ fb'.cont = f.cont /\ fb'.rects = g.rects
  <2>1. Parts \subseteq DOMAIN f
    BY DEF Fetches
  <2>. QED  BY <2>1, ClosedStands
<1>3. f.viewOnly = fb.viewOnly /\ f.cont = fb.cont
  BY DEF Fetches
<1>4. /\ up' = up \/ \E r \in Seq(Wishes(fb.viewOnly)) : up' = up \o r
      /\ rfb.st = "connected" => m = <<>> \/ \A k \in 1..Len(m) : Pending(m[k].f)'
  BY SendsOne DEF Quiet
<1>5. Kept
  BY <1>1, <1>2, <1>3, <1>4 DEF Kept, Stay
<1>6. g.rects = 0 /\ rfb'.st = "connected" => fb'.cont \/ Pending("request")'
  <2>1. ASSUME g.rects = 0, rfb'.st = "connected", ~fb.cont PROVE Pending("request")'
    <3>1. PICK k \in 1..Len(m) : m[k].f = "request"
      BY <2>1
    <3>2. m # <<>>
      BY <3>1, EmptySeq
    <3>3. Pending(m[k].f)'
      BY <1>4, <2>1, <3>1, <3>2
    <3>. QED  BY <3>1, <3>3
  <2>. QED  BY <1>2, <1>3, <2>1
<1>7. Gone(Len(l), q)
  BY <1>1, <1>2, <1>3, <1>6 DEF Gone, Quietly
<1>. QED  BY <1>5, <1>7

\* It may be the last one of the update, and then the next update is requested.
LEMMA IsDone ==
    ASSUME Placed, Stay, NEW l, NEW f, Fetches(l, f), NEW q, Closes(q, f), Done(l, f)
    PROVE  Kept /\ Gone(Len(l), q)
<1>. DEFINE g == [f EXCEPT !.rects = @ - 1, !.rect = NoRect]
            r == <<F("request", 1)>>
            m == IF g.rects = 0 /\ ~fb.cont THEN r ELSE <<>>
<1>1. Shift(l) /\ (g.rects = 0 => Finish(g)) /\ (g.rects # 0 => Quiet /\ fb' = g /\ rfb' = rfb)
  BY DEF Done
<1>2. m \in Seq(Wishes(fb.viewOnly))
  <2>1. r \in Seq(Wishes(fb.viewOnly)) /\ <<>> \in Seq(Wishes(fb.viewOnly))
    BY WishesAre
  <2>. QED  BY <2>1
<1>3. g.cont = fb.cont
  <2>1. g.cont = f.cont
    BY DEF Fetches, Parts
  <2>. QED  BY <2>1 DEF Fetches
<1>4. /\ Sends(m) \/ (m = <<>> /\ Quiet)
      /\ Flipped(fb', g)
      /\ rfb' = rfb
  <2>. HIDE DEF g
  <2>. QED  BY <1>1, <1>3 DEF Finish, NextMessage, Flipped
<1>5. g.rects = 0 /\ ~fb.cont => \E k \in 1..Len(m) : m[k].f = "request"
  <2>. HIDE DEF g
  <2>1. Len(<<F("request", 1)>>) = 1 /\ <<F("request", 1)>>[1].f = "request"
    BY FIs
  <2>. QED  BY <2>1
<1>. HIDE DEF g, m
<1>6. Completed(g, f)
  BY DEF g, Completed
<1>. QED  BY <1>1, <1>2, <1>4, <1>5, <1>6, Closing, Zenon

LEMMA IsDoneSending ==
    ASSUME Placed, Stay, NEW l, Fetches(l, fb), NEW q, Closes(q, fb),
           NEW m \in Seq(Wishes(fb.viewOnly)), DoneSending(l, m)
    PROVE  Kept /\ Gone(Len(l), q)
<1>. DEFINE g == [fb EXCEPT !.rects = @ - 1, !.rect = NoRect]
            r == <<F("request", 1)>>
            n == IF g.rects = 0 THEN m \o (IF fb.cont THEN <<>> ELSE r) ELSE m
<1>1. g.cont = fb.cont
  BY DEF Fetches, Parts
<1>2. Shift(l) /\ rfb' = rfb /\ Sends(n) /\ Flipped(fb', g)
  <2>. HIDE DEF g
  <2>1. \/ g.rects = 0 /\ fb' = [g EXCEPT !.disp = flip(@)] /\ NextMessage
           /\ Sends(m \o (IF g.cont THEN <<>> ELSE <<F("request", 1)>>))
        \/ g.rects # 0 /\ Sends(m) /\ fb' = g /\ rfb' = rfb
    BY Zenon DEF DoneSending, g
  <2>. QED  BY <1>1, <2>1 DEF DoneSending, NextMessage, Flipped
<1>3. r \in Seq(Wishes(fb.viewOnly)) /\ <<>> \in Seq(Wishes(fb.viewOnly)) /\ Len(r) = 1 /\ r[1].f = "request"
  BY WishesAre, FIs
<1>. HIDE DEF g, r
<1>4. n \in Seq(Wishes(fb.viewOnly))
  BY <1>3, AskingAdds
<1>5. g.rects = 0 /\ ~fb.cont => \E k \in 1..Len(n) : n[k].f = "request"
  <2>1. 1 \in 1..Len(r)
    BY <1>3
  <2>. DEFINE A == Wishes(fb.viewOnly)
  <2>. HIDE DEF A
  <2>2. m \in Seq(A) /\ r \in Seq(A)
    BY <1>3 DEF A
  <2>3. 1 \in 1..Len(r) /\ Len(m) + 1 \in 1..Len(m \o r) /\ (m \o r)[Len(m) + 1] = r[1]
    BY <2>2, <2>1, AskingAdds
  <2>. QED  BY <1>3, <2>3
<1>. HIDE DEF n
<1>6. Completed(g, fb)
  BY DEF g, Completed
<1>. QED  BY <1>2, <1>4, <1>5, <1>6, Closing, Zenon

\* The names of a handler's fields, when they have arrived.
LEMMA ArrivedNone == ASSUME Typed PROVE Arrived(<<>>) /\ Len(<<>>) = 0
<1>1. Len(<<>>) = 0 /\ Len(rQ) \in Nat
  BY ComingIs
<1>. QED  BY <1>1 DEF Arrived

\* Fields that come and have arrived may be shifted.
LEMMA ArrivedOne ==
    ASSUME Typed, ~rQwait(0, 1), NEW a, Coming[1].f = a
    PROVE  Arrived(<<a>>) /\ Len(<<a>>) = 1
<1>1. Len(<<a>>) = 1 /\ <<a>>[1] = a /\ Len(rQ) \in Nat /\ Len(rQ) >= 1
  BY ComingIs DEF rQwait
<1>2. ASSUME NEW k \in 1..Len(<<a>>) PROVE Coming[k].f = <<a>>[k]
  BY <1>1
<1>. QED  BY <1>1, <1>2 DEF Arrived

LEMMA ArrivedTwo ==
    ASSUME Typed, ~rQwait(1, 1), NEW a, NEW b, Coming[1].f = a, Coming[2].f = b
    PROVE  Arrived(<<a, b>>) /\ Len(<<a, b>>) = 2
<1>1. Len(<<a, b>>) = 2 /\ <<a, b>>[1] = a /\ <<a, b>>[2] = b /\ Len(rQ) \in Nat /\ Len(rQ) >= 2
  BY ComingIs DEF rQwait
<1>2. ASSUME NEW k \in 1..Len(<<a, b>>) PROVE Coming[k].f = <<a, b>>[k]
  <2>1. k = 1 \/ k = 2
    BY <1>1
  <2>. QED  BY <1>1, <2>1
<1>. QED  BY <1>1, <1>2 DEF Arrived

LEMMA ArrivedThree ==
    ASSUME Typed, ~rQwait(2, 1), NEW a, NEW b, NEW c, Coming[1].f = a, Coming[2].f = b, Coming[3].f = c
    PROVE  Arrived(<<a, b, c>>) /\ Len(<<a, b, c>>) = 3
<1>1. /\ Len(<<a, b, c>>) = 3 /\ <<a, b, c>>[1] = a /\ <<a, b, c>>[2] = b /\ <<a, b, c>>[3] = c
      /\ Len(rQ) \in Nat /\ Len(rQ) >= 3
  BY ComingIs DEF rQwait
<1>2. ASSUME NEW k \in 1..Len(<<a, b, c>>) PROVE Coming[k].f = <<a, b, c>>[k]
  <2>1. k = 1 \/ k = 2 \/ k = 3
    BY <1>1
  <2>. QED  BY <1>1, <2>1
<1>. QED  BY <1>1, <1>2 DEF Arrived

Listing(f, g, n) == <<f>> \o [k \in 1..n |-> g]

LEMMA ArrivedCounted ==
    ASSUME Typed, NEW f, NEW g, NEW n \in Nat, Len(rQ) >= 1 + n, Coming[1].f = f,
           \A k \in 2..(1 + n) : Coming[k].f = g
    PROVE  Arrived(Listing(f, g, n)) /\ Len(Listing(f, g, n)) = 1 + n
<1>. DEFINE l == Listing(f, g, n)
<1>1. Len(l) = 1 + n /\ l[1] = f /\ \A k \in 2..(1 + n) : l[k] = g
  BY NamesAre DEF Listing
<1>. HIDE DEF l
<1>2. ASSUME NEW k \in 1..Len(l) PROVE Coming[k].f = l[k]
  <2>1. k = 1 \/ k \in 2..(1 + n)
    BY <1>1
  <2>. QED  BY <1>1, <2>1
<1>. QED  BY <1>1, <1>2 DEF Arrived, l

------------------------------------------------------------------------------
(* Rectangles.                                                             *)

\* f is fb but for what is drawn.
Redraws(f) ==
    /\ Parts \subseteq DOMAIN f
    /\ f.rects = fb.rects /\ f.rect = fb.rect /\ f.left = fb.left /\ f.len = fb.len
    /\ f.tight = fb.tight /\ f.sof = fb.sof /\ f.viewOnly = fb.viewOnly /\ f.cont = fb.cont

\* What only draws stands where it stood.
LEMMA RedrawsIs ==
    ASSUME Placed
    PROVE  Redraws(fb) /\ \A d : Redraws([fb EXCEPT !.disp = d])
<1>1. Redraws(fb)
  BY DEF Redraws, Placed
<1>2. ASSUME NEW d PROVE Redraws([fb EXCEPT !.disp = d])
  BY DEF Redraws, Placed, Parts
<1>. QED  BY <1>1, <1>2

\* Inside a rectangle.
LEMMA InRect ==
    ASSUME NEW e, Rect(e), NEW p, NEW n, NEW q, Follow(p, n, q)
    PROVE  /\ Stay /\ Stands(p, fb) /\ n \in 0..Len(Coming) /\ p.left \in Nat
           /\ fb.rects # 0 /\ fb.rect.v = e /\ p.rect.v = e /\ p.rect.n = Area
           /\ q \in AfterData(p, SubSeq(Coming, 1, n))
<1>1. /\ Stay /\ fb.rects > 0 /\ fb.rect.f = "rect" /\ fb.rect.v = e /\ Stands(p, fb) /\ p.left \in Nat
      /\ n \in 0..Len(Coming) /\ q \in After(p, SubSeq(Coming, 1, n))
  BY DEF Rect, Handling, Follow
<1>2. fb.rects # 0 /\ fb.rect # NoRect
  BY <1>1 DEF NoRect
<1>3. p.rects # 0 /\ p.rect = fb.rect /\ p.rect # NoRect
  BY <1>1, <1>2 DEF Stands
<1>4. After(p, SubSeq(Coming, 1, n)) = AfterData(p, SubSeq(Coming, 1, n))
  BY <1>3 DEF After
<1>. QED  BY <1>1, <1>2, <1>3, <1>4 DEF Area

\* A rectangle ends, of which p.left is not kept.
LEMMA Ends ==
    ASSUME Placed, Stay, NEW p, Stands(p, fb), fb.rect.v \notin {0, 5},
           NEW l, Arrived(l), NEW f, Redraws(f), Done(l, f)
    PROVE  Comes(Len(l), Complete(p))
<1>1. Fetches(l, f)
  BY DEF Fetches, Redraws
<1>2. Closes(Complete(p), f)
  BY CompleteIs DEF Closes, Stands, Redraws, LeftOf
<1>3. Kept /\ Gone(Len(l), Complete(p))
  BY <1>1, <1>2, IsDone
<1>. QED  BY <1>3 DEF Comes

\* Handlers that wait, and handlers that end the rectangle with what they read.
LEMMA Waits0 ==
    ASSUME Placed, Stay, NEW i \in Nat, WaitFor(i, i), NEW n, NEW q
    PROVE  Comes(n, q)
BY WaitingFor DEF Comes

\* A rectangle ends with an item of no field, of one, two or three.
LEMMA EndsAtOnce ==
    ASSUME Placed, Stay, NEW p, Stands(p, fb), fb.rect.v \notin {0, 5}, NEW n \in 0..Len(Coming),
           SubSeq(Coming, 1, n) = <<>>, NEW f, Redraws(f), Done(<<>>, f)
    PROVE  Comes(n, Complete(p))
<1>1. n = 0 /\ Arrived(<<>>) /\ Len(<<>>) = 0
  BY ArrivedNone, ComingIs, NoneAhead DEF Placed
<1>2. Comes(Len(<<>>), Complete(p))
  BY <1>1, Ends
<1>. QED  BY <1>1, <1>2

LEMMA EndsWithOne ==
    ASSUME Placed, Stay, NEW p, Stands(p, fb), fb.rect.v \notin {0, 5}, NEW n \in 0..Len(Coming),
           NEW a, One(SubSeq(Coming, 1, n), a), ~rQwait(0, 1), NEW f, Redraws(f), Done(<<a>>, f)
    PROVE  Comes(n, Complete(p))
<1>1. n = 1 /\ Coming[1].f = a
  BY ComingIs, OneAhead DEF Placed
<1>2. Arrived(<<a>>) /\ Len(<<a>>) = 1
  BY <1>1, ArrivedOne DEF Placed
<1>3. Comes(Len(<<a>>), Complete(p))
  BY <1>2, Ends
<1>. QED  BY <1>1, <1>2, <1>3

LEMMA EndsWithTwo ==
    ASSUME Placed, Stay, NEW p, Stands(p, fb), fb.rect.v \notin {0, 5}, NEW n \in 0..Len(Coming),
           NEW a, NEW b, Two(SubSeq(Coming, 1, n), a, b), ~rQwait(1, 1),
           NEW f, Redraws(f), Done(<<a, b>>, f)
    PROVE  Comes(n, Complete(p))
<1>1. n = 2 /\ Coming[1].f = a /\ Coming[2].f = b
  BY ComingIs, TwoAhead DEF Placed
<1>2. Arrived(<<a, b>>) /\ Len(<<a, b>>) = 2
  BY <1>1, ArrivedTwo DEF Placed
<1>3. Comes(Len(<<a, b>>), Complete(p))
  BY <1>2, Ends
<1>. QED  BY <1>1, <1>2, <1>3

LEMMA EndsWithThree ==
    ASSUME Placed, Stay, NEW p, Stands(p, fb), fb.rect.v \notin {0, 5}, NEW n \in 0..Len(Coming),
           NEW a, NEW b, NEW c, Three(SubSeq(Coming, 1, n), a, b, c), ~rQwait(2, 1),
           NEW f, Redraws(f), Done(<<a, b, c>>, f)
    PROVE  Comes(n, Complete(p))
<1>1. n = 3 /\ Coming[1].f = a /\ Coming[2].f = b /\ Coming[3].f = c
  BY ComingIs, ThreeAhead DEF Placed
<1>2. Arrived(<<a, b, c>>) /\ Len(<<a, b, c>>) = 3
  BY <1>1, ArrivedThree DEF Placed
<1>3. Comes(Len(<<a, b, c>>), Complete(p))
  BY <1>2, Ends
<1>. QED  BY <1>1, <1>2, <1>3

\* The pseudo-encodings.
LEMMA handleFlagsReads ==
    ASSUME Placed, NEW p, NEW n, NEW q, Follow(p, n, q), handleFlags
    PROVE  Comes(n, q)
<1>1. PICK e \in {enc.QEMUExtendedKeyEvent, enc.ExtendedMouseButtons} : Rect(e) /\ Done(<<>>, fb)
  BY DEF handleFlags
<1>2. /\ Stay /\ Stands(p, fb) /\ n \in 0..Len(Coming) /\ p.rect.v = e /\ fb.rect.v \notin {0, 5}
      /\ q \in AfterData(p, SubSeq(Coming, 1, n))
  BY <1>1, InRect, EncAre, SMTT(30)
<1>3. SubSeq(Coming, 1, n) = <<>> /\ q = Complete(p)
  BY <1>1, <1>2, EncAre, SMTT(30) DEF AfterData, Item
<1>. QED  BY <1>1, <1>2, <1>3, RedrawsIs, EndsAtOnce

\* Each handler of a rectangle waits or takes the item it stands before.
LEMMA handleCursorReads ==
    ASSUME Placed, NEW p, NEW n, NEW q, Follow(p, n, q), handleCursor
    PROVE  Comes(n, q)
<1>1. /\ Stay /\ Stands(p, fb) /\ n \in 0..Len(Coming) /\ p.rect.v = -239 /\ fb.rect.v \notin {0, 5}
      /\ q \in AfterData(p, SubSeq(Coming, 1, n))
  BY InRect, EncAre, SMTT(30) DEF handleCursor
<1>2. One(SubSeq(Coming, 1, n), "pixels") /\ q = Complete(p)
  BY <1>1, EncAre, SMTT(30) DEF AfterData, Item
<1>. QED  BY <1>1, <1>2, Waits0, RedrawsIs, EndsWithOne DEF handleCursor

LEMMA handleLedEventReads ==
    ASSUME Placed, NEW p, NEW n, NEW q, Follow(p, n, q), handleLedEvent
    PROVE  Comes(n, q)
<1>1. /\ Stay /\ Stands(p, fb) /\ n \in 0..Len(Coming) /\ p.rect.v = -261 /\ fb.rect.v \notin {0, 5}
      /\ q \in AfterData(p, SubSeq(Coming, 1, n))
  BY InRect, EncAre, SMTT(30) DEF handleLedEvent
<1>2. One(SubSeq(Coming, 1, n), "led") /\ q = Complete(p)
  BY <1>1, EncAre, SMTT(30) DEF AfterData, Item
<1>. QED  BY <1>1, <1>2, Waits0, RedrawsIs, EndsWithOne DEF handleLedEvent

LEMMA handleDesktopNameReads ==
    ASSUME Placed, NEW p, NEW n, NEW q, Follow(p, n, q), handleDesktopName
    PROVE  Comes(n, q)
<1>1. /\ Stay /\ Stands(p, fb) /\ n \in 0..Len(Coming) /\ p.rect.v = -307 /\ fb.rect.v \notin {0, 5}
      /\ q \in AfterData(p, SubSeq(Coming, 1, n))
  BY InRect, EncAre, SMTT(30) DEF handleDesktopName
<1>2. Two(SubSeq(Coming, 1, n), "nameLength", "name") /\ q = Complete(p)
  BY <1>1, EncAre, SMTT(30) DEF AfterData, Item
<1>. QED  BY <1>1, <1>2, Waits0, RedrawsIs, EndsWithTwo DEF handleDesktopName

LEMMA handleVMwareCursorReads ==
    ASSUME Placed, NEW p, NEW n, NEW q, Follow(p, n, q), handleVMwareCursor
    PROVE  Comes(n, q)
<1>1. /\ Stay /\ Stands(p, fb) /\ n \in 0..Len(Coming) /\ p.rect.v = 1464686180
      /\ fb.rect.v \notin {0, 5} /\ q \in AfterData(p, SubSeq(Coming, 1, n))
  BY InRect, EncAre, SMTT(30) DEF handleVMwareCursor
<1>2. Three(SubSeq(Coming, 1, n), "cursorType", "padding", "pixels") /\ q = Complete(p)
  BY <1>1, EncAre, SMTT(30) DEF AfterData, Item
<1>. QED  BY <1>1, <1>2, Waits0, RedrawsIs, EndsWithThree DEF handleVMwareCursor

LEMMA copyRectDecodeReads ==
    ASSUME Placed, NEW p, NEW n, NEW q, Follow(p, n, q), copyRectDecode
    PROVE  Comes(n, q)
<1>1. /\ Stay /\ Stands(p, fb) /\ n \in 0..Len(Coming) /\ p.rect.v = 1 /\ fb.rect.v \notin {0, 5}
      /\ q \in AfterData(p, SubSeq(Coming, 1, n))
  BY InRect, EncAre, SMTT(30) DEF copyRectDecode
<1>2. One(SubSeq(Coming, 1, n), "source") /\ q = Complete(p)
  BY <1>1, EncAre, SMTT(30) DEF AfterData, Item
<1>3. Redraws(IF Area = 0 THEN fb ELSE [fb EXCEPT !.disp = copyImage(@)])
  BY RedrawsIs
<1>. QED  BY <1>1, <1>2, <1>3, Waits0, EndsWithOne DEF copyRectDecode

LEMMA handleLastRectReads ==
    ASSUME Placed, NEW p, NEW n, NEW q, Follow(p, n, q), handleLastRect
    PROVE  Comes(n, q)
<1>. DEFINE f == [fb EXCEPT !.rects = 1]
<1>1. /\ Stay /\ Stands(p, fb) /\ n \in 0..Len(Coming) /\ p.rect.v = -224 /\ fb.rect.v \notin {0, 5}
      /\ q \in AfterData(p, SubSeq(Coming, 1, n)) /\ Done(<<>>, f)
  BY InRect, EncAre, SMTT(30) DEF handleLastRect
<1>2. SubSeq(Coming, 1, n) = <<>> /\ q = [p EXCEPT !.rects = 0, !.rect = NoRect]
  BY <1>1, EncAre, SMTT(30) DEF AfterData, Item
<1>3. n = 0 /\ Arrived(<<>>) /\ Len(<<>>) = 0
  BY <1>1, <1>2, ArrivedNone, ComingIs, NoneAhead DEF Placed
<1>4. /\ Parts \subseteq DOMAIN f /\ f.rects = 1 /\ f.rect = fb.rect /\ f.left = fb.left
      /\ f.len = fb.len /\ f.tight = fb.tight /\ f.sof = fb.sof /\ f.viewOnly = fb.viewOnly
      /\ f.cont = fb.cont
  BY DEF Placed, Parts
<1>5. /\ Spots \subseteq DOMAIN q /\ q.rects = 0 /\ q.rect = NoRect /\ q.left = p.left
      /\ q.len = p.len /\ q.tight = p.tight /\ q.sof = p.sof /\ q.view = p.view
  BY <1>1, <1>2 DEF Stands, Spots
<1>. HIDE DEF f
<1>6. Closes(q, f) /\ Fetches(<<>>, f)
  BY <1>1, <1>3, <1>4, <1>5 DEF Closes, Fetches, Stands, LeftOf
<1>7. Kept /\ Gone(Len(<<>>), q)
  BY <1>1, <1>6, IsDone
<1>. QED  BY <1>3, <1>7 DEF Comes

\* Those that resize the canvas tell the server.
LEMMA ResizedIs ==
    resized \in Seq(Wishes(fb.viewOnly)) /\ <<>> \in Seq(Wishes(fb.viewOnly))
<1>1. "enable" \in Wanted
  BY WishesAre
<1>2. <<F("enable", 1)>> \in Seq(Wishes(fb.viewOnly)) /\ <<>> \in Seq(Wishes(fb.viewOnly))
  BY <1>1, WishesAre
<1>. QED  BY <1>2 DEF resized

LEMMA EndsSending ==
    ASSUME Placed, Stay, NEW p, Stands(p, fb), fb.rect.v \notin {0, 5},
           NEW l, Arrived(l), NEW m \in Seq(Wishes(fb.viewOnly)), DoneSending(l, m)
    PROVE  Comes(Len(l), Complete(p))
<1>1. Fetches(l, fb)
  BY DEF Fetches, Placed
<1>2. Closes(Complete(p), fb)
  BY CompleteIs DEF Closes, Stands, LeftOf
<1>3. Kept /\ Gone(Len(l), Complete(p))
  BY <1>1, <1>2, IsDoneSending
<1>. QED  BY <1>3 DEF Comes

LEMMA handleDesktopSizeReads ==
    ASSUME Placed, NEW p, NEW n, NEW q, Follow(p, n, q), handleDesktopSize
    PROVE  Comes(n, q)
<1>1. /\ Stay /\ Stands(p, fb) /\ n \in 0..Len(Coming) /\ p.rect.v = -223 /\ fb.rect.v \notin {0, 5}
      /\ q \in AfterData(p, SubSeq(Coming, 1, n)) /\ DoneSending(<<>>, resized)
  BY InRect, EncAre, SMTT(30) DEF handleDesktopSize
<1>2. SubSeq(Coming, 1, n) = <<>> /\ q = Complete(p)
  BY <1>1, EncAre, SMTT(30) DEF AfterData, Item
<1>3. n = 0 /\ Arrived(<<>>) /\ Len(<<>>) = 0
  BY <1>1, <1>2, ArrivedNone, ComingIs, NoneAhead DEF Placed
<1>4. Comes(Len(<<>>), Complete(p))
  BY <1>1, <1>3, ResizedIs, EndsSending
<1>. QED  BY <1>2, <1>3, <1>4

\* A counted list is ahead.
LEMMA CountedAhead ==
    ASSUME Typed, NEW n \in 0..Len(Coming), NEW f, NEW g, Counted(SubSeq(Coming, 1, n), f, g)
    PROVE  /\ n # 0 /\ Coming[1].f = f /\ Coming[1].v = n - 1
           /\ \A k \in 2..n : Coming[k].f = g
           /\ ~rQwait(0, 1) => rQ[1] = Coming[1]
<1>1. Coming \in Seq(Field)
  BY ComingIs
<1>. DEFINE h == SubSeq(Coming, 1, n)
<1>2. Len(h) = n /\ n # 0 /\ \A k \in 1..n : h[k] = Coming[k]
  BY <1>1, HeadIs DEF Counted
<1>3. h[1].f = f /\ h[1].v = Len(h) - 1 /\ \A k \in 2..Len(h) : h[k].f = g
  BY DEF Counted
<1>. HIDE DEF h
<1>4. 1 \in 1..n /\ \A k \in 2..n : k \in 1..n
  BY <1>2
<1>5. ~rQwait(0, 1) => rQ[1] = Coming[1]
  BY ComingIs DEF rQwait
<1>. QED  BY <1>2, <1>3, <1>4, <1>5

LEMMA handleExtendedDesktopSizeReads ==
    ASSUME Placed, NEW p, NEW n, NEW q, Follow(p, n, q), handleExtendedDesktopSize
    PROVE  Comes(n, q)
<1>1. /\ Stay /\ Stands(p, fb) /\ n \in 0..Len(Coming) /\ p.rect.v = -308 /\ fb.rect.v \notin {0, 5}
      /\ q \in AfterData(p, SubSeq(Coming, 1, n))
  BY InRect, EncAre, SMTT(30) DEF handleExtendedDesktopSize
<1>2. Counted(SubSeq(Coming, 1, n), "screens", "screen") /\ q = Complete(p)
  BY <1>1, EncAre, SMTT(30) DEF AfterData, Item
<1>3. CASE rQwait(0, 1) \/ rQwait(0, 1 + rQ[1].v)
  BY <1>1, <1>3, Waits0 DEF handleExtendedDesktopSize
<1>4. CASE ~rQwait(0, 1) /\ ~rQwait(0, 1 + rQ[1].v)
  <2>. DEFINE c == rQ[1].v
              m == IF Area = 0 THEN <<>> ELSE resized
              l == <<"screens">> \o [k \in 1..c |-> "screen"]
  <2>1. /\ n # 0 /\ Coming[1].f = "screens" /\ c = n - 1
        /\ \A k \in 2..n : Coming[k].f = "screen"
    BY <1>1, <1>2, <1>4, CountedAhead DEF Placed
  <2>2. DoneSending(l, m) /\ m \in Seq(Wishes(fb.viewOnly))
    BY <1>4, ResizedIs DEF handleExtendedDesktopSize
  <2>3. Len(rQ) \in Nat /\ n \in Nat
    BY <1>1, ComingIs DEF Placed
  <2>4. c \in Nat /\ Len(rQ) >= 1 + c /\ n = 1 + c
    BY <1>4, <2>1, <2>3 DEF rQwait
  <2>. HIDE DEF c, m
  <2>5. Arrived(l) /\ Len(l) = 1 + c
    <3>1. Typed /\ \A k \in 2..(1 + c) : Coming[k].f = "screen"
      BY <2>1, <2>4 DEF Placed
    <3>2. l = Listing("screens", "screen", c)
      BY DEF Listing
    <3>. HIDE DEF l
    <3>. QED  BY <2>1, <2>4, <3>1, <3>2, ArrivedCounted
  <2>. HIDE DEF l
  <2>6. Comes(Len(l), Complete(p))
    BY <1>1, <2>2, <2>5, EndsSending
  <2>. QED  BY <1>2, <2>4, <2>5, <2>6
<1>. QED  BY <1>3, <1>4

------------------------------------------------------------------------------
(* The decoders.                                                           *)

\* A decoder waits with as many lines or tiles left as before.
LEMMA LeftStands ==
    ASSUME Placed, Stay, NEW left, left = LeftOf(fb.rect, fb.left), Waits(0, 0),
           fb' = [fb EXCEPT !.left = left], NEW n, NEW q
    PROVE  Comes(n, q)
<1>. DEFINE f == [fb EXCEPT !.left = left]
<1>1. /\ Parts \subseteq DOMAIN f /\ f.rects = fb.rects /\ f.rect = fb.rect /\ f.left = left
      /\ f.len = fb.len /\ f.tight = fb.tight /\ f.sof = fb.sof /\ f.viewOnly = fb.viewOnly
      /\ f.cont = fb.cont /\ f.flushing = fb.flushing /\ f.forgot = fb.forgot
  BY DEF Placed, Parts
<1>2. LeftOf(fb.rect, left) = left
  BY DEF LeftOf
<1>3. fb' = f
  OBVIOUS
<1>. HIDE DEF f
<1>4. \A p : Stands(p, fb) => Stands(p, f)
  BY <1>1, <1>2 DEF Stands
<1>. QED  BY <1>1, <1>3, <1>4, Waiting DEF Comes

\* A rectangle without area has no lines and no tiles.
LEMMA EndsEmpty ==
    ASSUME Placed, Stay, NEW p, Stands(p, fb), Area = 0, NEW n \in 0..Len(Coming),
           SubSeq(Coming, 1, n) = <<>>, Done(<<>>, fb)
    PROVE  Comes(n, Complete(p))
<1>1. n = 0 /\ Arrived(<<>>) /\ Len(<<>>) = 0
  BY ArrivedNone, ComingIs, NoneAhead DEF Placed
<1>2. Fetches(<<>>, fb)
  BY <1>1 DEF Fetches, Placed
<1>3. Closes(Complete(p), fb)
  BY CompleteIs DEF Closes, Stands, LeftOf, Area
<1>4. Kept /\ Gone(Len(<<>>), Complete(p))
  BY <1>2, <1>3, IsDone
<1>. QED  BY <1>1, <1>4 DEF Comes

\* One of those that are left has been drawn, or there is none.
LEMMA EndsOrGoesOn ==
    ASSUME Placed, Stay, NEW p, Stands(p, fb), fb.rects # 0, NEW l, Arrived(l), NEW left \in Int, NEW f,
           Parts \subseteq DOMAIN f, f.rects = fb.rects, f.rect = fb.rect, f.left = left,
           f.len = fb.len, f.tight = fb.tight, f.sof = fb.sof, f.viewOnly = fb.viewOnly,
           f.cont = fb.cont,
           left = 0 => Done(l, f), left # 0 => GoOn(l, f)
    PROVE  Comes(Len(l), Left(p, left))
<1>. DEFINE q == Left(p, left)
<1>1. /\ Spots \subseteq DOMAIN q
      /\ q.rects = (IF left = 0 THEN p.rects - 1 ELSE p.rects)
      /\ q.rect = (IF left = 0 THEN NoRect ELSE p.rect)
      /\ q.left = left /\ q.len = p.len /\ q.tight = p.tight /\ q.sof = p.sof /\ q.view = p.view
  BY LeftIs DEF Stands
<1>. HIDE DEF q
<1>2. Fetches(l, f)
  BY DEF Fetches
<1>3. CASE left = 0
  <2>1. Closes(q, f)
    BY <1>1, <1>3 DEF Closes, Stands
  <2>. QED  BY <1>2, <1>3, <2>1, IsDone DEF Comes, q
<1>4. CASE left # 0
  <2>1. Stands(q, f)
    BY <1>1, <1>4 DEF Stands, LeftOf
  <2>. QED  BY <1>2, <1>4, <2>1, GoesOn DEF Comes, q
<1>. QED  BY <1>3, <1>4

\* Lines and subrectangles, counted down.
LEMMA rawDecodeReads ==
    ASSUME Placed, NEW p, NEW n, NEW q, Follow(p, n, q), rawDecode
    PROVE  Comes(n, q)
<1>. DEFINE left == IF fb.left = 0 THEN Area ELSE fb.left
            f == Blitted([fb EXCEPT !.left = left - 1])
<1>1. /\ Stay /\ Stands(p, fb) /\ n \in 0..Len(Coming) /\ p.rect.v = 0 /\ fb.rect.v = 0
      /\ q \in AfterData(p, SubSeq(Coming, 1, n)) /\ p.rect.n = Area /\ p.left \in Nat
      /\ fb.rects # 0
  BY InRect, EncAre, SMTT(30) DEF rawDecode
<1>2. left = LeftOf(fb.rect, fb.left) /\ left = p.left
  BY <1>1 DEF LeftOf, Stands, Area
<1>3. CASE Area = 0
  <2>1. SubSeq(Coming, 1, n) = <<>> /\ q = Complete(p)
    BY <1>1, <1>3, EncAre, SMTT(30) DEF AfterData, Item
  <2>. QED  BY <1>1, <1>3, <2>1, EndsEmpty DEF rawDecode
<1>4. CASE Area # 0
  <2>1. One(SubSeq(Coming, 1, n), "line") /\ q = Left(p, p.left - 1)
    BY <1>1, <1>4, EncAre, SMTT(30) DEF AfterData, Item
  <2>2. n = 1 /\ Coming[1].f = "line"
    BY <1>1, <2>1, ComingIs, OneAhead DEF Placed
  <2>3. /\ Parts \subseteq DOMAIN f /\ f.rects = fb.rects /\ f.rect = fb.rect /\ f.left = left - 1
        /\ f.len = fb.len /\ f.tight = fb.tight /\ f.sof = fb.sof /\ f.viewOnly = fb.viewOnly
        /\ f.cont = fb.cont
    BY DEF Placed, Parts, Blitted
  <2>4. IF rQwait(0, 1) THEN Waits(0, 0) /\ fb' = [fb EXCEPT !.left = left]
        ELSE IF left = 1 THEN Done(<<"line">>, f) ELSE GoOn(<<"line">>, f)
    BY <1>4, Zenon DEF rawDecode
  <2>. HIDE DEF left, f
  <2>5. CASE rQwait(0, 1)
    BY <1>1, <1>2, <2>4, <2>5, LeftStands
  <2>6. CASE ~rQwait(0, 1)
    <3>1. Arrived(<<"line">>) /\ Len(<<"line">>) = 1
      BY <2>2, <2>6, ArrivedOne DEF Placed
    <3>2. left - 1 \in Int /\ (left = 1 <=> left - 1 = 0)
      BY <1>1, <1>2
    <3>3. Comes(Len(<<"line">>), Left(p, left - 1))
      BY <1>1, <2>3, <2>4, <2>6, <3>1, <3>2, EndsOrGoesOn
    <3>. QED  BY <1>2, <2>1, <2>2, <3>1, <3>3
  <2>. QED  BY <2>5, <2>6
<1>. QED  BY <1>3, <1>4

LEMMA rreDecodeReads ==
    ASSUME Placed, NEW p, NEW n, NEW q, Follow(p, n, q), rreDecode
    PROVE  Comes(n, q)
<1>1. /\ Stay /\ Stands(p, fb) /\ n \in 0..Len(Coming) /\ p.rect.v = 2 /\ fb.rect.v = 2
      /\ q \in AfterData(p, SubSeq(Coming, 1, n)) /\ p.left \in Nat /\ fb.rects # 0
      /\ Coming \in Seq(Field)
  BY InRect, EncAre, ComingIs, SMTT(30) DEF rreDecode, Placed
<1>2. fb.left = p.left /\ q \in AfterSubrect(p, SubSeq(Coming, 1, n))
  BY <1>1, EncAre, SMTT(30) DEF LeftOf, Stands, AfterData
<1>3. ASSUME NEW left \in Int, NEW f, f = Filled([fb EXCEPT !.left = left])
      PROVE  /\ Parts \subseteq DOMAIN f /\ f.rects = fb.rects /\ f.rect = fb.rect /\ f.left = left
             /\ f.len = fb.len /\ f.tight = fb.tight /\ f.sof = fb.sof /\ f.viewOnly = fb.viewOnly
             /\ f.cont = fb.cont
  BY <1>3 DEF Placed, Parts, Filled
<1>4. CASE rQwait(0, 1)
  BY <1>1, <1>4, Waits0 DEF rreDecode
<1>5. CASE ~rQwait(0, 1) /\ fb.left = 0
  <2>. DEFINE f == Filled([fb EXCEPT !.left = rQ[1].v])
  <2>1. One(SubSeq(Coming, 1, n), "subrects") /\ q = Left(p, SubSeq(Coming, 1, n)[1].v)
    BY <1>2, <1>5 DEF AfterSubrect, Item
  <2>2. n = 1 /\ Coming[1].f = "subrects" /\ SubSeq(Coming, 1, n)[1] = Coming[1]
    BY <1>1, <2>1, OneAhead
  <2>3. rQ[1] = Coming[1] /\ rQ[1].v \in Int
    <3>1. 1 \in 1..Len(Coming) /\ rQ[1] = Coming[1]
      BY <1>1, <1>5, <2>2, ComingIs DEF rQwait, Placed
    <3>. QED  BY <1>1, <3>1, FieldValues
  <2>4. f.left = rQ[1].v
    BY <1>3, <2>3
  <2>5. IF f.left = 0 THEN Done(<<"subrects">>, f) ELSE GoOn(<<"subrects">>, f)
    BY <1>5, Zenon DEF rreDecode
  <2>6. Arrived(<<"subrects">>) /\ Len(<<"subrects">>) = 1
    BY <1>5, <2>2, ArrivedOne DEF Placed
  <2>7. /\ Parts \subseteq DOMAIN f /\ f.rects = fb.rects /\ f.rect = fb.rect /\ f.left = rQ[1].v
        /\ f.len = fb.len /\ f.tight = fb.tight /\ f.sof = fb.sof /\ f.viewOnly = fb.viewOnly
        /\ f.cont = fb.cont
    BY <1>3, <2>3
  <2>. HIDE DEF f
  <2>8. Comes(Len(<<"subrects">>), Left(p, rQ[1].v))
    BY <1>1, <2>3, <2>5, <2>6, <2>7, EndsOrGoesOn
  <2>. QED  BY <2>1, <2>2, <2>3, <2>6, <2>8
<1>6. CASE ~rQwait(0, 1) /\ fb.left # 0
  <2>. DEFINE f == Filled([fb EXCEPT !.left = @ - 1])
  <2>1. One(SubSeq(Coming, 1, n), "subrect") /\ q = Left(p, p.left - 1)
    BY <1>2, <1>6 DEF AfterSubrect, Item
  <2>2. n = 1 /\ Coming[1].f = "subrect"
    BY <1>1, <2>1, OneAhead
  <2>5. IF f.left = 0 THEN Done(<<"subrect">>, f) ELSE GoOn(<<"subrect">>, f)
    BY <1>6, Zenon DEF rreDecode
  <2>6. Arrived(<<"subrect">>) /\ Len(<<"subrect">>) = 1
    BY <1>6, <2>2, ArrivedOne DEF Placed
  <2>7. /\ Parts \subseteq DOMAIN f /\ f.rects = fb.rects /\ f.rect = fb.rect /\ f.left = p.left - 1
        /\ f.len = fb.len /\ f.tight = fb.tight /\ f.sof = fb.sof /\ f.viewOnly = fb.viewOnly
        /\ f.cont = fb.cont
    BY <1>2 DEF Placed, Parts, Filled
  <2>. HIDE DEF f
  <2>8. Comes(Len(<<"subrect">>), Left(p, p.left - 1))
    <3>1. p.left - 1 \in Int
      BY <1>1
    <3>. QED  BY <1>1, <2>5, <2>6, <2>7, <3>1, EndsOrGoesOn
  <2>. QED  BY <2>1, <2>2, <2>6, <2>8
<1>. QED  BY <1>4, <1>5, <1>6

\* The fields of a tile.
LEMMA TwoNamesAre ==
    ASSUME NEW e, NEW f, NEW g, NEW n \in Nat
    PROVE  \A l : l = <<e, f>> \o [k \in 1..n |-> g] =>
              /\ Len(l) = 2 + n /\ l[1] = e /\ l[2] = f
              /\ \A k \in 3..(2 + n) : l[k] = g
<1>. DEFINE A == {e, f, g}
            r == [k \in 1..n |-> g]
            t == <<e, f>>
<1>1. r \in Seq(A) /\ Len(r) = n /\ \A k \in 1..n : r[k] = g
  OBVIOUS
<1>2. t \in Seq(A) /\ Len(t) = 2 /\ t[1] = e /\ t[2] = f
  OBVIOUS
<1>. HIDE DEF r, t, A
<1>3. /\ Len(t \o r) = Len(t) + Len(r)
      /\ \A k \in 1..(Len(t) + Len(r)) :
            (t \o r)[k] = IF k <= Len(t) THEN t[k] ELSE r[k - Len(t)]
  BY <1>1, <1>2, ConcatProperties, Zenon
<1>4. Len(t \o r) = 2 + n /\ (t \o r)[1] = e /\ (t \o r)[2] = f
  BY <1>1, <1>2, <1>3
<1>5. ASSUME NEW k \in 3..(2 + n) PROVE (t \o r)[k] = g
  <2>1. k \in 1..(Len(t) + Len(r)) /\ ~(k <= Len(t)) /\ k - Len(t) \in 1..n
    BY <1>1, <1>2
  <2>. QED  BY <1>1, <1>3, <2>1
<1>. QED  BY <1>4, <1>5 DEF r, t

LEMMA SubrectsAre == hextileTile(8) = <<"tile", "count">> \o [k \in 1..rQ[2].v |-> "tileRect"]
<1>. DEFINE x == <<"tile", "count">> \o [k \in 1..rQ[2].v |-> "tileRect"]
<1>1. hextileTile(8) = CASE 8 = 0 -> <<"tile">>
                         [] 8 = 1 -> <<"tile", "tilePixels">>
                         [] 8 = 2 -> <<"tile", "colour">>
                         [] 8 = 8 -> x
                         [] OTHER -> <<"tile">>
  BY Zenon DEF hextileTile
<1>. HIDE DEF x
<1>2. hextileTile(8) = x
  BY <1>1
<1>. QED  BY <1>2 DEF x

\* The fields of a tile, when it is there, are those that are looked for.
LEMMA TileAhead ==
    ASSUME Placed, NEW n \in 0..Len(Coming), Tile(SubSeq(Coming, 1, n)), ~rQwait(0, 1),
           ~(rQ[1].v = 8 /\ rQwait(1, 1)), ~rQwait(0, Len(hextileTile(rQ[1].v)))
    PROVE  Arrived(hextileTile(rQ[1].v)) /\ Len(hextileTile(rQ[1].v)) = n
<1>. DEFINE h == SubSeq(Coming, 1, n)
            sub == rQ[1].v
            l == hextileTile(sub)
<1>0. Typed /\ Coming \in Seq(Field) /\ Len(rQ) \in Nat /\ Len(Coming) >= Len(rQ)
  BY ComingIs DEF Placed
<1>1. h # <<>> /\ h[1].f = "tile"
  BY DEF Tile
<1>2. Len(h) = n /\ n # 0 /\ \A k \in 1..n : h[k] = Coming[k]
  BY <1>0, <1>1, HeadIs
<1>3. rQ[1] = Coming[1] /\ h[1] = Coming[1] /\ 1 \in 1..n
  <2>1. 1 \in 1..Len(rQ)
    BY <1>0 DEF rQwait
  <2>. QED  BY <1>0, <1>2, <2>1, ComingIs
<1>4. Coming[1].f = "tile" /\ h[1].v = sub
  BY <1>1, <1>3
<1>5. CASE sub = 1
  <2>1. Two(h, "tile", "tilePixels")
    BY <1>4, <1>5 DEF Tile
  <2>2. n = 2 /\ Coming[1].f = "tile" /\ Coming[2].f = "tilePixels"
    BY <1>0, <2>1, TwoAhead
  <2>3. l = <<"tile", "tilePixels">>
    BY <1>5 DEF hextileTile
  <2>4. Len(l) = 2
    BY <2>3
  <2>5. ~rQwait(1, 1)
    BY <1>0, <2>4 DEF rQwait
  <2>6. Arrived(<<"tile", "tilePixels">>)
    BY <1>0, <2>2, <2>5, ArrivedTwo
  <2>. QED  BY <2>2, <2>3, <2>4, <2>6
<1>6. CASE sub = 2
  <2>1. Two(h, "tile", "colour")
    BY <1>4, <1>6 DEF Tile
  <2>2. n = 2 /\ Coming[1].f = "tile" /\ Coming[2].f = "colour"
    BY <1>0, <2>1, TwoAhead
  <2>3. l = <<"tile", "colour">>
    BY <1>6 DEF hextileTile
  <2>4. Len(l) = 2
    BY <2>3
  <2>5. ~rQwait(1, 1)
    BY <1>0, <2>4 DEF rQwait
  <2>6. Arrived(<<"tile", "colour">>)
    BY <1>0, <2>2, <2>5, ArrivedTwo
  <2>. QED  BY <2>2, <2>3, <2>4, <2>6
<1>7. CASE sub = 8
  <2>1. Len(h) >= 2 /\ h[2].f = "count" /\ h[2].v = Len(h) - 2 /\ \A k \in 3..Len(h) : h[k].f = "tileRect"
    BY <1>4, <1>7 DEF Tile
  <2>. DEFINE c == rQ[2].v
              r == [k \in 1..c |-> "tileRect"]
  <2>2. l = <<"tile", "count">> \o r
    BY <1>7, SubrectsAre, Zenon
  <2>3. rQ[2] = Coming[2] /\ 2 \in 1..n
    <3>1. 2 \in 1..Len(rQ) /\ 2 \in 1..n
      BY <1>0, <1>2, <1>7, <2>1 DEF rQwait
    <3>. QED  BY <1>0, <3>1, ComingIs
  <2>4. c = n - 2 /\ c \in Nat /\ Coming[2].f = "count"
    BY <1>2, <2>1, <2>3
  <2>. HIDE DEF c, l, sub
  <2>5. /\ Len(l) = 2 + c /\ l[1] = "tile" /\ l[2] = "count"
        /\ \A k \in 3..(2 + c) : l[k] = "tileRect"
    BY <2>2, <2>4, TwoNamesAre
  <2>. HIDE DEF r
  <2>6. ASSUME NEW k \in 1..Len(l) PROVE Coming[k].f = l[k]
    <3>1. k = 1 \/ k = 2 \/ (k \in 3..(2 + c) /\ k \in 3..Len(h) /\ k \in 1..n)
      BY <1>2, <2>4, <2>5
    <3>2. k \in 3..(2 + c) /\ k \in 3..Len(h) /\ k \in 1..n => Coming[k].f = "tileRect"
      BY <1>2, <2>1
    <3>. QED  BY <1>4, <2>4, <2>5, <3>1, <3>2
  <2>7. Len(l) = n /\ Len(l) <= Len(rQ)
    <3>1. Len(l) = n
      BY <2>4, <2>5
    <3>. QED  BY <1>0, <3>1 DEF rQwait, l, sub
  <2>. QED  BY <2>6, <2>7 DEF Arrived, l, sub
<1>8. CASE sub \notin {1, 2, 8}
  <2>1. Len(h) = 1
    BY <1>4, <1>8 DEF Tile
  <2>2. n = 1
    BY <1>2, <2>1
  <2>3. l = <<"tile">>
    BY <1>8 DEF hextileTile
  <2>4. Arrived(<<"tile">>) /\ Len(<<"tile">>) = 1
    BY <1>0, <1>4, ArrivedOne
  <2>. QED  BY <2>2, <2>3, <2>4
<1>. QED  BY <1>5, <1>6, <1>7, <1>8

\* Tiles, each looked at until all of it is there.
LEMMA hextileDecodeReads ==
    ASSUME Placed, NEW p, NEW n, NEW q, Follow(p, n, q), hextileDecode
    PROVE  Comes(n, q)
<1>. DEFINE left == IF fb.left = 0 THEN Area ELSE fb.left
            sub == rQ[1].v
            l == hextileTile(sub)
            g == [fb EXCEPT !.left = left - 1, !.lastsub = sub]
            f == CASE sub = 0 /\ fb.lastsub = 1 -> g
                   [] sub = 0 /\ fb.lastsub # 1 -> Filled(g)
                   [] OTHER -> Blitted(g)
            waits == rQwait(0, 1) \/ (sub = 8 /\ rQwait(1, 1)) \/ rQwait(0, Len(l))
<1>1. /\ Stay /\ Stands(p, fb) /\ n \in 0..Len(Coming) /\ p.rect.v = 5 /\ fb.rect.v = 5
      /\ q \in AfterData(p, SubSeq(Coming, 1, n)) /\ p.rect.n = Area /\ p.left \in Nat
      /\ fb.rects # 0
  BY InRect, EncAre, SMTT(30) DEF hextileDecode
<1>2. left = LeftOf(fb.rect, fb.left) /\ left = p.left
  BY <1>1 DEF LeftOf, Stands, Area
<1>3. CASE Area = 0
  <2>1. SubSeq(Coming, 1, n) = <<>> /\ q = Complete(p)
    BY <1>1, <1>3, EncAre, SMTT(30) DEF AfterData, Item
  <2>. QED  BY <1>1, <1>3, <2>1, EndsEmpty DEF hextileDecode
<1>4. CASE Area # 0
  <2>1. Tile(SubSeq(Coming, 1, n)) /\ q = Left(p, p.left - 1)
    BY <1>1, <1>4, EncAre, SMTT(30) DEF AfterData, Item
  <2>2. /\ Parts \subseteq DOMAIN g /\ g.rects = fb.rects /\ g.rect = fb.rect /\ g.left = left - 1
        /\ g.len = fb.len /\ g.tight = fb.tight /\ g.sof = fb.sof /\ g.viewOnly = fb.viewOnly
        /\ g.cont = fb.cont
    BY DEF Placed, Parts
  <2>3. IF waits THEN Waits(0, 0) /\ fb' = [fb EXCEPT !.left = left]
        ELSE IF left = 1 THEN Done(l, f) ELSE GoOn(l, f)
    BY <1>4, Zenon DEF hextileDecode
  <2>. HIDE DEF g
  <2>4. f = g \/ \E d : f = [g EXCEPT !.disp = d]
    BY DEF Filled, Blitted
  <2>. HIDE DEF f
  <2>5. /\ Parts \subseteq DOMAIN f /\ f.rects = fb.rects /\ f.rect = fb.rect /\ f.left = left - 1
        /\ f.len = fb.len /\ f.tight = fb.tight /\ f.sof = fb.sof /\ f.viewOnly = fb.viewOnly
        /\ f.cont = fb.cont
    BY <2>2, <2>4 DEF Parts
  <2>6. CASE waits
    <3>. HIDE DEF left
    <3>. QED  BY <1>1, <1>2, <2>3, <2>6, LeftStands
  <2>7. CASE ~waits
    <3>1. Arrived(l) /\ Len(l) = n
      BY <1>1, <2>1, <2>7, TileAhead
    <3>. HIDE DEF left, waits, l, sub
    <3>2. left - 1 \in Int /\ (left = 1 <=> left - 1 = 0)
      BY <1>1, <1>2
    <3>3. Comes(Len(l), Left(p, left - 1))
      BY <1>1, <2>3, <2>5, <2>7, <3>1, <3>2, EndsOrGoesOn
    <3>. QED  BY <1>2, <2>1, <3>1, <3>3
  <2>. QED  BY <2>6, <2>7
<1>. QED  BY <1>3, <1>4

\* f is fb but for what is drawn and for the length that is kept.
LEMMA LengthReads ==
    ASSUME Placed, Stay, NEW p, Stands(p, fb), NEW e, e \notin {0, 5}, p.rect.v = e, fb.rects # 0,
           NEW n \in 0..Len(Coming), NEW q \in AfterLength(p, SubSeq(Coming, 1, n)),
           NEW f, Redraws(f), lengthThenData(e, f)
    PROVE  Comes(n, q)
<1>0. Typed /\ Coming \in Seq(Field) /\ fb.rect.v = e /\ fb.len = p.len /\ fb.left = p.left
  BY ComingIs DEF Placed, Stands, LeftOf
<1>1. CASE rQwait(0, 1)
  BY <1>1, Waits0 DEF lengthThenData
<1>2. CASE ~rQwait(0, 1) /\ fb.len[e] = 0
  <2>. DEFINE g == [fb EXCEPT !.len[e] = 1]
  <2>1. One(SubSeq(Coming, 1, n), "length") /\ q = [p EXCEPT !.len[p.rect.v] = 1]
    BY <1>0, <1>2 DEF AfterLength, Item
  <2>2. n = 1 /\ Coming[1].f = "length"
    BY <1>0, <2>1, OneAhead
  <2>3. Arrived(<<"length">>) /\ Len(<<"length">>) = 1
    BY <1>0, <1>2, <2>2, ArrivedOne
  <2>4. GoOn(<<"length">>, g)
    BY <1>2, Zenon DEF lengthThenData
  <2>5. /\ Parts \subseteq DOMAIN g /\ g.rects = fb.rects /\ g.rect = fb.rect /\ g.left = fb.left
        /\ g.len = [fb.len EXCEPT ![e] = 1] /\ g.tight = fb.tight /\ g.sof = fb.sof
        /\ g.viewOnly = fb.viewOnly /\ g.cont = fb.cont
    BY DEF Placed, Parts
  <2>6. /\ Spots \subseteq DOMAIN q /\ q.rects = p.rects /\ q.rect = p.rect /\ q.left = p.left
        /\ q.len = [p.len EXCEPT ![e] = 1] /\ q.tight = p.tight /\ q.sof = p.sof /\ q.view = p.view
    BY <2>1 DEF Stands, Spots
  <2>. HIDE DEF g
  <2>7. Stands(q, g)
    BY <1>0, <2>5, <2>6 DEF Stands
  <2>8. Fetches(<<"length">>, g)
    BY <2>3, <2>5 DEF Fetches
  <2>9. g.rects # 0 /\ Kept /\ Gone(Len(<<"length">>), q)
    BY <2>4, <2>5, <2>7, <2>8, GoesOn
  <2>. QED  BY <2>2, <2>3, <2>9 DEF Comes
<1>3. CASE ~rQwait(0, 1) /\ fb.len[e] # 0
  <2>. DEFINE g == [f EXCEPT !.len[e] = 0]
              r == [p EXCEPT !.len[p.rect.v] = 0]
  <2>1. One(SubSeq(Coming, 1, n), "data") /\ q = Complete(r)
    BY <1>0, <1>3 DEF AfterLength, Item
  <2>2. n = 1 /\ Coming[1].f = "data"
    BY <1>0, <2>1, OneAhead
  <2>3. Arrived(<<"data">>) /\ Len(<<"data">>) = 1
    BY <1>0, <1>3, <2>2, ArrivedOne
  <2>4. Done(<<"data">>, g)
    BY <1>3, Zenon DEF lengthThenData
  <2>5. /\ Parts \subseteq DOMAIN g /\ g.rects = f.rects /\ g.rect = f.rect /\ g.left = f.left
        /\ g.len = [f.len EXCEPT ![e] = 0] /\ g.tight = f.tight /\ g.sof = f.sof
        /\ g.viewOnly = f.viewOnly /\ g.cont = f.cont
    BY DEF Redraws, Parts
  <2>6. /\ Spots \subseteq DOMAIN r /\ r.rects = p.rects /\ r.rect = p.rect /\ r.left = p.left
        /\ r.len = [p.len EXCEPT ![e] = 0] /\ r.tight = p.tight /\ r.sof = p.sof /\ r.view = p.view
    BY DEF Stands, Spots
  <2>. HIDE DEF g, r
  <2>7. Closes(q, g)
    <3>1. /\ Spots \subseteq DOMAIN q /\ q.rects = r.rects - 1 /\ q.rect = NoRect /\ q.left = r.left
          /\ q.len = r.len /\ q.tight = r.tight /\ q.sof = r.sof /\ q.view = r.view
      BY <2>1, <2>6, CompleteIs
    <3>2. /\ g.rects = p.rects /\ g.left = p.left /\ g.len = r.len /\ g.tight = p.tight
          /\ g.sof = p.sof /\ g.viewOnly = p.view
      <4>1. /\ f.rects = fb.rects /\ f.left = p.left /\ f.len = p.len /\ f.tight = fb.tight
            /\ f.sof = fb.sof /\ f.viewOnly = fb.viewOnly
        BY <1>0 DEF Redraws
      <4>2. fb.rects = p.rects /\ fb.tight = p.tight /\ fb.sof = p.sof /\ fb.viewOnly = p.view
        BY DEF Stands
      <4>3. g.len = r.len
        BY <2>5, <2>6, <4>1, Zenon
      <4>. QED  BY <2>5, <4>1, <4>2, <4>3
    <3>. QED  BY <2>6, <3>1, <3>2 DEF Closes
  <2>8. Fetches(<<"data">>, g)
    BY <2>3, <2>5 DEF Fetches, Redraws
  <2>. QED  BY <2>2, <2>3, <2>4, <2>7, <2>8, IsDone DEF Comes
<1>. QED  BY <1>1, <1>2, <1>3

\* Zlib and ZRLE keep the length of the data.
LEMMA DrawsOnly ==
    ASSUME NEW f, Redraws(f)
    PROVE  Redraws(Blitted(f)) /\ Redraws(Filled(f)) /\ Redraws(zrleTiles(f))
<1>1. ASSUME NEW g, Redraws(g) PROVE Redraws(Blitted(g)) /\ Redraws(Filled(g))
  BY <1>1 DEF Redraws, Blitted, Filled, Parts
<1>2. Redraws(zrleTiles(f))
  BY <1>1 DEF zrleTiles
<1>. QED  BY <1>1, <1>2

LEMMA zlibDecodeReads ==
    ASSUME Placed, NEW p, NEW n, NEW q, Follow(p, n, q), zlibDecode
    PROVE  Comes(n, q)
<1>1. /\ Stay /\ Stands(p, fb) /\ n \in 0..Len(Coming) /\ p.rect.v = 6 /\ fb.rect.v \notin {0, 5}
      /\ q \in AfterData(p, SubSeq(Coming, 1, n)) /\ p.rect.n = Area /\ fb.rects # 0
  BY InRect, EncAre, SMTT(30) DEF zlibDecode
<1>2. CASE Area = 0
  <2>1. SubSeq(Coming, 1, n) = <<>> /\ q = Complete(p)
    BY <1>1, <1>2, EncAre, SMTT(30) DEF AfterData, Item
  <2>. QED  BY <1>1, <1>2, <2>1, EndsEmpty DEF zlibDecode
<1>3. CASE Area # 0
  <2>1. q \in AfterLength(p, SubSeq(Coming, 1, n))
    BY <1>1, <1>3, EncAre, SMTT(30) DEF AfterData, Item
  <2>2. Redraws(Blitted(fb)) /\ lengthThenData(6, Blitted(fb))
    BY <1>3, EncAre, RedrawsIs, DrawsOnly, SMTT(30) DEF zlibDecode
  <2>. QED  BY <1>1, <2>1, <2>2, LengthReads
<1>. QED  BY <1>2, <1>3

LEMMA zrleDecodeReads ==
    ASSUME Placed, NEW p, NEW n, NEW q, Follow(p, n, q), zrleDecode
    PROVE  Comes(n, q)
<1>1. /\ Stay /\ Stands(p, fb) /\ n \in 0..Len(Coming) /\ p.rect.v = 16
      /\ q \in AfterData(p, SubSeq(Coming, 1, n)) /\ fb.rects # 0
  BY InRect, EncAre, SMTT(30) DEF zrleDecode
<1>2. q \in AfterLength(p, SubSeq(Coming, 1, n))
  BY <1>1, EncAre, SMTT(30) DEF AfterData, Item
<1>3. Redraws(zrleTiles(fb)) /\ lengthThenData(16, zrleTiles(fb))
  BY EncAre, RedrawsIs, DrawsOnly, SMTT(30) DEF zrleDecode
<1>. QED  BY <1>1, <1>2, <1>3, LengthReads

LEMMA PairsAre == \A a, b : <<a>> \o <<b>> = <<a, b>> /\ <<a>> \o <<>> = <<a>>
<1>. SUFFICES ASSUME NEW a, NEW b PROVE <<a>> \o <<b>> = <<a, b>> /\ <<a>> \o <<>> = <<a>>
  OBVIOUS
<1>1. /\ <<a>> \in Seq({a, b}) /\ <<b>> \in Seq({a, b}) /\ <<a, b>> \in Seq({a, b})
      /\ Len(<<a>>) = 1 /\ Len(<<b>>) = 1 /\ Len(<<a, b>>) = 2
  OBVIOUS
<1>2. /\ <<a>> \o <<b>> \in Seq({a, b}) /\ Len(<<a>> \o <<b>>) = 2
      /\ (<<a>> \o <<b>>)[1] = a /\ (<<a>> \o <<b>>)[2] = b
  BY <1>1, ConcatProperties
<1>3. ASSUME NEW k \in 1..Len(<<a, b>>) PROVE (<<a>> \o <<b>>)[k] = <<a, b>>[k]
  BY <1>1, <1>2
<1>4. <<a>> \o <<b>> = <<a, b>>
  BY <1>1, <1>2, <1>3, SeqEqual
<1>5. <<a>> \o <<>> = <<a>>
  BY <1>1, ConcatEmptySeq
<1>. QED  BY <1>4, <1>5

\* A payload of slices.
LEMMA h264DecodeReads ==
    ASSUME Placed, NEW p, NEW n, NEW q, Follow(p, n, q), h264Decode
    PROVE  Comes(n, q)
<1>1. /\ Stay /\ Stands(p, fb) /\ n \in 0..Len(Coming) /\ p.rect.v = 50 /\ fb.rect.v \notin {0, 5}
      /\ q \in AfterData(p, SubSeq(Coming, 1, n)) /\ Typed /\ Coming \in Seq(Field)
  BY InRect, EncAre, ComingIs, SMTT(30) DEF h264Decode, Placed
<1>2. /\ q = Complete(p)
      /\ \/ (One(SubSeq(Coming, 1, n), "h264") /\ SubSeq(Coming, 1, n)[1].v = 0)
         \/ (Two(SubSeq(Coming, 1, n), "h264", "payload") /\ SubSeq(Coming, 1, n)[1].v > 0)
  <2>. DEFINE h == SubSeq(Coming, 1, n)
  <2>. HIDE DEF h
  <2>1. AfterData(p, h) = Item(One(h, "h264") /\ h[1].v = 0, Complete(p))
                          \cup Item(Two(h, "h264", "payload") /\ h[1].v > 0, Complete(p))
    BY <1>1, EncAre, SMT DEF AfterData
  <2>2. q \in AfterData(p, h)
    BY <1>1 DEF h
  <2>3. /\ q = Complete(p)
        /\ (One(h, "h264") /\ h[1].v = 0) \/ (Two(h, "h264", "payload") /\ h[1].v > 0)
    BY <2>1, <2>2, SMT DEF Item
  <2>. QED  BY <2>3 DEF h
<1>3. CASE rQwait(0, 1)
  BY <1>1, <1>3, Waits0 DEF h264Decode
<1>4. CASE ~rQwait(0, 1)
  <2>. DEFINE kind == rQ[1].v
  <2>1. kind = SubSeq(Coming, 1, n)[1].v
    <3>1. rQ[1] = Coming[1]
      BY <1>1, <1>4, ComingIs DEF rQwait
    <3>. QED  BY <1>1, <1>2, <3>1, OneAhead, TwoAhead
  <2>2. \/ kind > 0 /\ rQwait(1, 1) /\ WaitFor(1, 1)
        \/ ~(kind > 0 /\ rQwait(1, 1)) /\ \E f : Redraws(f) /\
              Done(<<"h264">> \o (IF kind > 0 THEN <<"payload">> ELSE <<>>), f)
    <3>. DEFINE m == IF Area = 0 /\ kind = 2 THEN 0 ELSE Slices(kind)
                old == fb.video
                v == IF Area = 0 THEN [NoVideo EXCEPT !.dead = old.dead \o old.live] ELSE old
                new == [k \in 1..m |-> IF k = m THEN fb.disp.next ELSE 0]
                w == [v EXCEPT !.configured = @ \/ m > 0, !.live = @ \o new]
                d == IF m > 0 THEN videoFrame(fb.disp) ELSE fb.disp
                f == [fb EXCEPT !.video = w, !.disp = d]
    <3>1. IF kind > 0 /\ rQwait(1, 1) THEN WaitFor(1, 1)
          ELSE Done(<<"h264">> \o (IF kind > 0 THEN <<"payload">> ELSE <<>>), f)
      BY <1>4, Zenon DEF h264Decode
    <3>. HIDE DEF w, d
    <3>2. Redraws(f)
      BY DEF Redraws, Placed, Parts
    <3>. HIDE DEF f
    <3>. QED  BY <3>1, <3>2
  <2>. HIDE DEF kind
  <2>3. CASE kind > 0 /\ rQwait(1, 1)
    BY <1>1, <2>2, <2>3, Waits0
  <2>4. CASE ~(kind > 0 /\ rQwait(1, 1))
    <3>1. PICK f : Redraws(f) /\ Done(<<"h264">> \o (IF kind > 0 THEN <<"payload">> ELSE <<>>), f)
      BY <2>2, <2>4
    <3>2. CASE kind > 0
      <4>1. Two(SubSeq(Coming, 1, n), "h264", "payload")
        <5>1. ~(SubSeq(Coming, 1, n)[1].v = 0)
          <6>1. SUFFICES ASSUME SubSeq(Coming, 1, n)[1].v = 0 PROVE FALSE
            OBVIOUS
          <6>2. kind = 0
            BY <2>1, <6>1, Zenon
          <6>. QED  BY <3>2, <6>2
        <5>. QED  BY <1>2, <5>1, Zenon
      <4>2. <<"h264">> \o <<"payload">> = <<"h264", "payload">>
        BY PairsAre, Zenon
      <4>3. Done(<<"h264", "payload">>, f)
        BY <3>1, <3>2, <4>2, Zenon
      <4>. QED  BY <1>1, <1>2, <2>4, <3>1, <3>2, <4>1, <4>3, EndsWithTwo
    <3>3. CASE ~(kind > 0)
      <4>1. One(SubSeq(Coming, 1, n), "h264")
        BY <1>2, <2>1, <3>3
      <4>2. <<"h264">> \o <<>> = <<"h264">>
        BY PairsAre, Zenon
      <4>3. Done(<<"h264">>, f)
        BY <3>1, <3>3, <4>2, Zenon
      <4>. QED  BY <1>1, <1>2, <1>4, <3>1, <4>1, <4>3, EndsWithOne
    <3>. QED  BY <3>2, <3>3
  <2>. QED  BY <2>3, <2>4
<1>. QED  BY <1>3, <1>4


\* A decoder that gives up ends the connection.
LEMMA Aborts ==
    ASSUME Placed, Stay, NEW l, Arrived(l), Abort(l), NEW n, NEW q
    PROVE  Comes(n, q)
<1>1. ~misread' /\ rQ' \in Seq(Field) /\ Coming' = Drop(Coming, Len(l))
  BY Shifts DEF Placed, Stay, Arrived, Abort
<1>2. DOMAIN rfb' = DOMAIN rfb /\ rfb'.st = "over"
  BY DEF Placed, Typed, Abort, Failed, fail
<1>3. fb' = fb /\ up' = up /\ running' = "no"
  BY DEF Abort, Quiet
<1>4. Kept
  BY <1>1, <1>2, <1>3 DEF Kept, Placed, Stay
<1>. QED  BY <1>2, <1>3, <1>4 DEF Comes, Ended

\* The segments of a JPEG file.
LEMMA SegmentIs == segment.SOI = 216 /\ segment.SOF = 192 /\ segment.SOS = 218 /\ segment.EOI = 217
BY DEF segment

LEMMA jpegDecodeReads ==
    ASSUME Placed, NEW p, NEW n, NEW q, Follow(p, n, q), jpegDecode
    PROVE  Comes(n, q)
<1>0. Rect(21)
  <2>1. enc.JPEG = 21
    BY EncAre, SMTT(30)
  <2>. QED  BY <2>1, Zenon DEF jpegDecode
<1>1. /\ Stay /\ Stands(p, fb) /\ n \in 0..Len(Coming) /\ p.rect.v = 21 /\ fb.rect.v = 21
      /\ q \in AfterData(p, SubSeq(Coming, 1, n)) /\ Typed /\ Coming \in Seq(Field) /\ fb.rects # 0
  BY <1>0, InRect, ComingIs DEF Placed
<1>2. q \in AfterMarker(p, SubSeq(Coming, 1, n))
  BY <1>1, EncAre, SMTT(30) DEF AfterData
<1>3. CASE rQwait(0, 1)
  BY <1>1, <1>3, Waits0 DEF jpegDecode
<1>4. CASE ~rQwait(0, 1)
  <2>. DEFINE m == rQ[1].v
              s == [fb EXCEPT !.sof = @ \/ m = segment.SOF]
  <2>1. \E h : h = SubSeq(Coming, 1, n)
    OBVIOUS
  <2>2. PICK h : h = SubSeq(Coming, 1, n)
    BY <2>1
  <2>3. \/ (One(h, "marker") /\ h[1].v = 216 /\ q = p)
        \/ (One(h, "marker") /\ h[1].v = 217 /\ q = Complete([p EXCEPT !.sof = FALSE]))
        \/ (Three(h, "marker", "segmentLength", "segment") /\ h[1].v \notin {216, 217}
              /\ q = [p EXCEPT !.sof = p.sof \/ h[1].v = 192])
    <3>. DEFINE b == Complete([p EXCEPT !.sof = FALSE])
                c == [p EXCEPT !.sof = p.sof \/ h[1].v = segment.SOF]
    <3>1. AfterMarker(p, h) = Item(One(h, "marker") /\ h[1].v = segment.SOI, p)
                              \cup Item(One(h, "marker") /\ h[1].v = segment.EOI, b)
                              \cup Item(Three(h, "marker", "segmentLength", "segment")
                                         /\ h[1].v \notin {segment.SOI, segment.EOI}, c)
      BY Zenon DEF AfterMarker
    <3>2. q \in AfterMarker(p, h)
      BY <1>2, <2>2
    <3>. HIDE DEF b, c
    <3>3. \/ (One(h, "marker") /\ h[1].v = 216 /\ q = p)
          \/ (One(h, "marker") /\ h[1].v = 217 /\ q = b)
          \/ (Three(h, "marker", "segmentLength", "segment") /\ h[1].v \notin {216, 217} /\ q = c)
      BY <3>1, <3>2, SegmentIs, SMT DEF Item
    <3>4. c = [p EXCEPT !.sof = p.sof \/ h[1].v = 192]
      BY SegmentIs, Zenon DEF c
    <3>. QED  BY <3>3, <3>4, Zenon DEF b
  <2>4. rQ[1] = Coming[1] /\ h[1] = Coming[1]
    <3>1. rQ[1] = Coming[1]
      BY <1>4, <1>1, ComingIs DEF rQwait
    <3>2. (\E a : One(h, a)) \/ (\E a, b, c : Three(h, a, b, c))
      BY <2>3
    <3>3. h[1] = Coming[1]
      BY <1>1, <2>2, <3>2, OneAhead, ThreeAhead
    <3>. QED  BY <3>1, <3>3
  <2>5. m = h[1].v
    BY <2>4
  <2>6. /\ m = 216 => GoOn(<<"marker">>, fb)
        /\ m = 217 => IF ~fb.sof THEN Abort(<<"marker">>)
                      ELSE \E state \in LoadResults :
                              Done(<<"marker">>, jpegImage(state))
        /\ m \notin {216, 217} => \/ WaitFor(1, 1)
                                  \/ WaitFor(2, 2)
                                  \/ (~rQwait(2, 1) /\ GoOn(<<"marker", "segmentLength", "segment">>, s))
    <3>. DEFINE K == \E state \in LoadResults :
                        Done(<<"marker">>, jpegImage(state))
    <3>1. IF m = segment.SOI THEN GoOn(<<"marker">>, fb)
          ELSE IF m = segment.EOI THEN IF ~fb.sof THEN Abort(<<"marker">>) ELSE K
          ELSE IF rQwait(1, 1) THEN WaitFor(1, 1)
          ELSE IF rQwait(2, 1) THEN WaitFor(2, 2)
          ELSE IF m = segment.SOS /\ rQwait(2, 2) THEN WaitFor(2, 2)
          ELSE GoOn(<<"marker", "segmentLength", "segment">>, s)
      BY <1>4, Zenon DEF jpegDecode
    <3>. HIDE DEF m, K, s
    <3>2. /\ m = 216 => GoOn(<<"marker">>, fb)
          /\ m = 217 => IF ~fb.sof THEN Abort(<<"marker">>) ELSE K
          /\ m \notin {216, 217} => \/ WaitFor(1, 1)
                                    \/ WaitFor(2, 2)
                                    \/ (~rQwait(2, 1) /\ GoOn(<<"marker", "segmentLength", "segment">>, s))
      BY <3>1, SegmentIs, SMT
    <3>. QED  BY <3>2, Zenon DEF K
  <2>. HIDE DEF m
  <2>7. CASE One(h, "marker") /\ h[1].v = 216 /\ q = p
    <3>1. n = 1 /\ Coming[1].f = "marker" /\ GoOn(<<"marker">>, fb)
      BY <1>1, <2>2, <2>5, <2>6, <2>7, OneAhead
    <3>2. Arrived(<<"marker">>) /\ Len(<<"marker">>) = 1
      BY <1>1, <1>4, <3>1, ArrivedOne
    <3>3. Fetches(<<"marker">>, fb)
      BY <3>2 DEF Fetches, Placed
    <3>0. Stands(q, fb) /\ GoOn(<<"marker">>, fb)
      BY <1>1, <2>7, <3>1
    <3>4. Kept /\ Gone(Len(<<"marker">>), q)
      BY <1>1, <3>3, <3>0, GoesOn
    <3>. QED  BY <3>1, <3>2, <3>4 DEF Comes
  <2>8. CASE One(h, "marker") /\ h[1].v = 217 /\ q = Complete([p EXCEPT !.sof = FALSE])
    <3>1. n = 1 /\ Coming[1].f = "marker" /\ m = 217
      BY <1>1, <2>2, <2>5, <2>8, OneAhead
    <3>2. Arrived(<<"marker">>) /\ Len(<<"marker">>) = 1
      BY <1>1, <1>4, <3>1, ArrivedOne
    <3>3. CASE ~fb.sof
      BY <1>1, <2>6, <3>1, <3>2, <3>3, Aborts
    <3>4. CASE fb.sof
      <4>1. PICK state \in LoadResults :
               Done(<<"marker">>, jpegImage(state))
        BY <2>6, <3>1, <3>4
      <4>. DEFINE f == jpegImage(state)
                  r == [p EXCEPT !.sof = FALSE]
      <4>2. /\ Parts \subseteq DOMAIN f /\ f.rects = fb.rects /\ f.rect = fb.rect /\ f.left = fb.left
            /\ f.len = fb.len /\ f.tight = fb.tight /\ f.sof = FALSE /\ f.viewOnly = fb.viewOnly
            /\ f.cont = fb.cont
        BY DEF Placed, Parts, jpegImage
      <4>3. /\ Spots \subseteq DOMAIN r /\ r.rects = p.rects /\ r.rect = p.rect /\ r.left = p.left
            /\ r.len = p.len /\ r.tight = p.tight /\ r.sof = FALSE /\ r.view = p.view
        BY <1>1 DEF Stands, Spots
      <4>4. Done(<<"marker">>, f) /\ q = Complete(r)
        BY <2>8, <4>1
      <4>. HIDE DEF f, r
      <4>5. Closes(q, f)
        <5>1. p.left = fb.left
          BY <1>1 DEF Stands, LeftOf
        <5>2. /\ Spots \subseteq DOMAIN q /\ q.rects = r.rects - 1 /\ q.rect = NoRect /\ q.left = r.left
              /\ q.len = r.len /\ q.tight = r.tight /\ q.sof = r.sof /\ q.view = r.view
          BY <4>3, <4>4, CompleteIs
        <5>3. fb.rects = p.rects /\ fb.len = p.len /\ fb.tight = p.tight /\ fb.viewOnly = p.view
          BY <1>1 DEF Stands
        <5>. QED  BY <4>2, <4>3, <5>1, <5>2, <5>3 DEF Closes
      <4>6. Fetches(<<"marker">>, f)
        BY <3>2, <4>2 DEF Fetches
      <4>7. Kept /\ Gone(Len(<<"marker">>), q)
        BY <1>1, <4>4, <4>5, <4>6, IsDone
      <4>. QED  BY <3>1, <3>2, <4>7 DEF Comes
    <3>. QED  BY <3>3, <3>4
  <2>9. CASE /\ Three(h, "marker", "segmentLength", "segment") /\ h[1].v \notin {216, 217}
             /\ q = [p EXCEPT !.sof = p.sof \/ h[1].v = 192]
    <3>1. /\ n = 3 /\ Coming[1].f = "marker" /\ Coming[2].f = "segmentLength"
          /\ Coming[3].f = "segment" /\ m \notin {216, 217}
      BY <1>1, <2>2, <2>5, <2>9, ThreeAhead
    <3>2. CASE WaitFor(1, 1) \/ WaitFor(2, 2)
      BY <1>1, <3>2, Waits0
    <3>3. CASE ~rQwait(2, 1) /\ GoOn(<<"marker", "segmentLength", "segment">>, s)
      <4>1. Arrived(<<"marker", "segmentLength", "segment">>) /\ Len(<<"marker", "segmentLength", "segment">>) = 3
        BY <1>1, <3>1, <3>3, ArrivedThree
      <4>2. /\ Parts \subseteq DOMAIN s /\ s.rects = fb.rects /\ s.rect = fb.rect /\ s.left = fb.left
            /\ s.len = fb.len /\ s.tight = fb.tight /\ s.sof = (fb.sof \/ m = 192)
            /\ s.viewOnly = fb.viewOnly /\ s.cont = fb.cont
        BY SegmentIs DEF Placed, Parts
      <4>3. /\ Spots \subseteq DOMAIN q /\ q.rects = p.rects /\ q.rect = p.rect /\ q.left = p.left
            /\ q.len = p.len /\ q.tight = p.tight /\ q.sof = (p.sof \/ m = 192) /\ q.view = p.view
        BY <1>1, <2>5, <2>9 DEF Stands, Spots
      <4>. HIDE DEF s
      <4>4. Stands(q, s)
        <5>1. p.sof = fb.sof
          BY <1>1 DEF Stands
        <5>2. q.sof = s.sof
          BY <4>2, <4>3, <5>1, Zenon
        <5>. QED  BY <1>1, <4>2, <4>3, <5>2 DEF Stands
      <4>5. Fetches(<<"marker", "segmentLength", "segment">>, s)
        BY <4>1, <4>2 DEF Fetches
      <4>6. Kept /\ Gone(Len(<<"marker", "segmentLength", "segment">>), q)
        BY <1>1, <3>3, <4>2, <4>4, <4>5, GoesOn
      <4>. QED  BY <3>1, <4>1, <4>6 DEF Comes
    <3>. QED  BY <2>6, <3>1, <3>2, <3>3
  <2>. QED  BY <2>3, <2>7, <2>8, <2>9
<1>. QED  BY <1>3, <1>4

\* The header of a rectangle.
LEMMA rectHeaderReads ==
    ASSUME Placed, NEW p, NEW n, NEW q, Follow(p, n, q), rectHeader
    PROVE  Comes(n, q)
<1>1. /\ Stay /\ fb.rects # 0 /\ fb.rect = NoRect /\ Stands(p, fb) /\ p.left \in Nat
      /\ n \in 0..Len(Coming) /\ Typed /\ Coming \in Seq(Field)
      /\ q \in AfterHeader(p, SubSeq(Coming, 1, n))
  <2>1. fb.rects # 0 /\ fb.rect = NoRect /\ Stay
    BY DEF rectHeader, Handling
  <2>. QED  BY <2>1, ComingIs DEF Follow, After, Stands, Placed
<1>2. /\ One(SubSeq(Coming, 1, n), "rect") /\ SubSeq(Coming, 1, n)[1] \in Rectangle
      /\ q = Begun([p EXCEPT !.rect = SubSeq(Coming, 1, n)[1]])
  BY <1>1 DEF AfterHeader, Item
<1>3. n = 1 /\ Coming[1].f = "rect" /\ SubSeq(Coming, 1, n)[1] = Coming[1]
  BY <1>1, <1>2, OneAhead
<1>4. CASE rQwait(0, 1)
  <2>1. WaitFor(0, 0)
    BY <1>4 DEF rectHeader
  <2>. QED  BY <1>1, <2>1, Waits0
<1>5. CASE ~rQwait(0, 1)
  <2>. DEFINE f == [fb EXCEPT !.rect = rQ[1]]
              r == Coming[1]
  <2>1. rQ[1] = r /\ GoOn(<<"rect">>, f)
    BY <1>1, <1>5, ComingIs DEF rQwait, rectHeader
  <2>2. Arrived(<<"rect">>) /\ Len(<<"rect">>) = 1
    BY <1>1, <1>3, <1>5, ArrivedOne
  <2>3. /\ Parts \subseteq DOMAIN f /\ f.rects = fb.rects /\ f.rect = r /\ f.left = fb.left
        /\ f.len = fb.len /\ f.tight = fb.tight /\ f.sof = fb.sof /\ f.viewOnly = fb.viewOnly
        /\ f.cont = fb.cont
    BY <2>1 DEF Placed, Parts
  <2>4. /\ Spots \subseteq DOMAIN q /\ q.rects = p.rects /\ q.rect = r
        /\ q.left = (IF r.v \in {0, 5} /\ p.left = 0 THEN r.n ELSE p.left)
        /\ q.len = p.len /\ q.tight = p.tight /\ q.sof = p.sof /\ q.view = p.view
    BY <1>1, <1>2, <1>3, EncAre, SMTT(30) DEF Begun, Stands, Spots
  <2>5. p.left = fb.left
    BY <1>1 DEF Stands, LeftOf, NoRect
  <2>. HIDE DEF f, r
  <2>6. Stands(q, f)
    BY <1>1, <2>3, <2>4, <2>5 DEF Stands, LeftOf
  <2>7. Fetches(<<"rect">>, f)
    BY <2>2, <2>3 DEF Fetches
  <2>8. Kept /\ Gone(Len(<<"rect">>), q)
    BY <1>1, <2>1, <2>3, <2>6, <2>7, GoesOn
  <2>. QED  BY <1>3, <2>2, <2>8 DEF Comes
<1>. QED  BY <1>4, <1>5

\* Tight and TightPNG.  A field of what e remembers is set.
Noted(f, e, k, v) == [f EXCEPT !.tight[e][k] = v]

\* Tight notes what it has read of a rectangle, and forgets it at its end.
LEMMA NotedKeeps ==
    ASSUME NEW f, Parts \subseteq DOMAIN f, NEW e, NEW k, NEW v
    PROVE  /\ Parts \subseteq DOMAIN Noted(f, e, k, v)
           /\ Noted(f, e, k, v).rects = f.rects /\ Noted(f, e, k, v).rect = f.rect
           /\ Noted(f, e, k, v).viewOnly = f.viewOnly /\ Noted(f, e, k, v).cont = f.cont
BY DEF Parts, Noted

LEMMA NotedStands ==
    ASSUME NEW f, Parts \subseteq DOMAIN f, NEW x, Stands(x, f), NEW k, NEW v
    PROVE  /\ Stands(Noted(x, x.rect.v, k, v), Noted(f, f.rect.v, k, v))
           /\ Noted(x, x.rect.v, k, v).rect = x.rect
<1>. DEFINE g == Noted(f, f.rect.v, k, v)
            y == Noted(x, x.rect.v, k, v)
            t == [f.tight EXCEPT ![f.rect.v][k] = v]
<1>1. x.rect = f.rect /\ x.tight = f.tight
  BY DEF Stands
<1>2. /\ Parts \subseteq DOMAIN g /\ g.rects = f.rects /\ g.rect = f.rect /\ g.left = f.left
      /\ g.len = f.len /\ g.tight = t /\ g.sof = f.sof /\ g.viewOnly = f.viewOnly /\ g.cont = f.cont
  BY DEF Parts, Noted
<1>3. /\ Spots \subseteq DOMAIN y /\ y.rects = x.rects /\ y.rect = x.rect /\ y.left = x.left
      /\ y.len = x.len /\ y.tight = t /\ y.sof = x.sof /\ y.view = x.view
  BY <1>1 DEF Stands, Spots, Noted
<1>. HIDE DEF g, y, t
<1>4. Stands(y, g)
  BY <1>2, <1>3 DEF Stands
<1>. QED  BY <1>3, <1>4 DEF g, y

LEMMA TightEnds ==
    ASSUME Placed, Stay, NEW l, NEW f, Fetches(l, f), NEW x, Stands(x, f), NEW e, e \notin {0, 5},
           f.rect.v = e, tightDone(e, l, f)
    PROVE  Comes(Len(l), TightComplete(x))
<1>. DEFINE g == [f EXCEPT !.tight[e].ctl = -1, !.tight[e].filter = -1]
            t == [f.tight EXCEPT ![e].ctl = -1, ![e].filter = -1]
            q == TightComplete(x)
<1>1. x.rect.v = e /\ x.tight = f.tight /\ x.left = f.left /\ Spots \subseteq DOMAIN x
  BY DEF Stands, LeftOf
<1>2. /\ Parts \subseteq DOMAIN g /\ g.rects = f.rects /\ g.rect = f.rect /\ g.left = f.left
      /\ g.len = f.len /\ g.tight = t /\ g.sof = f.sof /\ g.viewOnly = f.viewOnly /\ g.cont = f.cont
  BY DEF Parts, Fetches
<1>3. /\ Spots \subseteq DOMAIN q /\ q.rects = x.rects - 1 /\ q.rect = NoRect /\ q.left = x.left
      /\ q.len = x.len /\ q.tight = t /\ q.sof = x.sof /\ q.view = x.view
  <2>1. x.rect.v = e /\ x.tight = f.tight
    BY <1>1
  <2>2. q.tight = [x.tight EXCEPT ![x.rect.v].ctl = -1, ![x.rect.v].filter = -1]
    BY <1>1, TightCompleteIs
  <2>3. q.tight = t
    BY <2>1, <2>2, Zenon
  <2>4. /\ Spots \subseteq DOMAIN q /\ q.rects = x.rects - 1 /\ q.rect = NoRect /\ q.left = x.left
        /\ q.len = x.len /\ q.sof = x.sof /\ q.view = x.view
    BY <1>1, TightCompleteIs
  <2>. QED  BY <2>3, <2>4
<1>4. Done(l, g)
  BY Zenon DEF tightDone
<1>. HIDE DEF g, q, t
<1>5. Closes(q, g)
  BY <1>1, <1>2, <1>3 DEF Closes, Stands
<1>6. Fetches(l, g)
  BY <1>2 DEF Fetches
<1>. QED  BY <1>4, <1>5, <1>6, IsDone DEF Comes, q

\* f is fb but for what is drawn and for what Tight remembers.
Resumes(f) ==
    /\ Parts \subseteq DOMAIN f
    /\ f.rects = fb.rects /\ f.rect = fb.rect /\ f.viewOnly = fb.viewOnly /\ f.cont = fb.cont

\* The steps of Tight and TightPNG, in the order of the stream.
LEMMA TightDataReads ==
    ASSUME Placed, Stay, NEW p, Stands(p, fb), fb.rects # 0, NEW e, e \notin {0, 5}, fb.rect.v = e,
           NEW f, Resumes(f), NEW x, Stands(x, f), NEW n \in 0..Len(Coming),
           NEW q \in TightData(p, x, SubSeq(Coming, 1, n)), tightReadData(e, f)
    PROVE  Comes(n, q)
<1>1. Typed /\ Coming \in Seq(Field) /\ p.rect.v = e /\ x.rect.v = e /\ p.tight = fb.tight
  BY ComingIs DEF Placed, Stands, Resumes
<1>2. CASE rQwait(0, 1)
  BY <1>2, Waits0 DEF tightReadData
<1>3. CASE ~rQwait(0, 1) /\ fb.tight[e].len = 0
  <2>. DEFINE g == [fb EXCEPT !.tight[e].len = 1]
              y == [p EXCEPT !.tight[p.rect.v].len = 1]
  <2>1. One(SubSeq(Coming, 1, n), "dataLength") /\ q = y
    BY <1>1, <1>3 DEF TightData, Item
  <2>2. n = 1 /\ Coming[1].f = "dataLength"
    BY <1>1, <2>1, OneAhead
  <2>3. Arrived(<<"dataLength">>) /\ Len(<<"dataLength">>) = 1
    BY <1>1, <1>3, <2>2, ArrivedOne
  <2>4. GoOn(<<"dataLength">>, g)
    BY <1>3, Zenon DEF tightReadData
  <2>5. /\ Stands(y, g) /\ Parts \subseteq DOMAIN g /\ g.rects = fb.rects /\ g.viewOnly = fb.viewOnly
        /\ g.cont = fb.cont
    <3>1. g = Noted(fb, e, "len", 1) /\ y = Noted(p, p.rect.v, "len", 1)
      BY Zenon DEF Noted
    <3>2. Parts \subseteq DOMAIN fb
      BY DEF Placed
    <3>. HIDE DEF g, y
    <3>3. Stands(y, g)
      BY <3>1, <3>2, NotedStands, Zenon
    <3>. QED  BY <3>1, <3>2, <3>3, NotedKeeps
  <2>. HIDE DEF g, y
  <2>6. Fetches(<<"dataLength">>, g)
    BY <2>3, <2>5 DEF Fetches
  <2>7. Kept /\ Gone(Len(<<"dataLength">>), y)
    BY <2>4, <2>5, <2>6, GoesOn
  <2>. QED  BY <2>1, <2>2, <2>3, <2>7 DEF Comes
<1>4. CASE ~rQwait(0, 1) /\ fb.tight[e].len # 0
  <2>. DEFINE g == [f EXCEPT !.tight[e].len = 0]
              y == [x EXCEPT !.tight[x.rect.v].len = 0]
  <2>1. One(SubSeq(Coming, 1, n), "data") /\ q = TightComplete(y)
    BY <1>1, <1>4 DEF TightData, Item
  <2>2. n = 1 /\ Coming[1].f = "data"
    BY <1>1, <2>1, OneAhead
  <2>3. Arrived(<<"data">>) /\ Len(<<"data">>) = 1
    BY <1>1, <1>4, <2>2, ArrivedOne
  <2>4. tightDone(e, <<"data">>, g)
    BY <1>4, Zenon DEF tightReadData
  <2>5. /\ Stands(y, g) /\ Parts \subseteq DOMAIN g /\ g.rect = f.rect /\ g.viewOnly = f.viewOnly
        /\ g.cont = f.cont
    <3>1. g = Noted(f, e, "len", 0) /\ y = Noted(x, x.rect.v, "len", 0)
      BY Zenon DEF Noted
    <3>2. Parts \subseteq DOMAIN f /\ f.rect.v = e
      BY DEF Resumes
    <3>. HIDE DEF g, y
    <3>3. Stands(y, g)
      BY <3>1, <3>2, NotedStands, Zenon
    <3>. QED  BY <3>1, <3>2, <3>3, NotedKeeps
  <2>. HIDE DEF g, y
  <2>6. Fetches(<<"data">>, g) /\ g.rect.v = e
    BY <2>3, <2>5 DEF Fetches, Resumes
  <2>7. Comes(Len(<<"data">>), TightComplete(y))
    BY <2>4, <2>5, <2>6, TightEnds
  <2>. QED  BY <2>1, <2>2, <2>3, <2>7
<1>. QED  BY <1>2, <1>3, <1>4

LEMMA TightPixelsReads ==
    ASSUME Placed, Stay, NEW p, Stands(p, fb), fb.rects # 0, NEW e, e \notin {0, 5}, fb.rect.v = e,
           NEW f, Resumes(f), NEW x, Stands(x, f), NEW n \in 0..Len(Coming),
           NEW q \in TightPixels(p, x, SubSeq(Coming, 1, n)), tightPixels(e, f)
    PROVE  Comes(n, q)
<1>1. Typed /\ Coming \in Seq(Field) /\ p.rect.n = Area /\ f.rect.v = e
  BY ComingIs DEF Placed, Stands, Area, Resumes
<1>2. CASE Area = 0
  <2>1. SubSeq(Coming, 1, n) = <<>> /\ q = TightComplete(p)
    BY <1>1, <1>2 DEF TightPixels, Item
  <2>2. n = 0 /\ Arrived(<<>>) /\ Len(<<>>) = 0
    BY <1>1, <2>1, ArrivedNone, NoneAhead
  <2>3. Fetches(<<>>, fb) /\ tightDone(e, <<>>, fb)
    BY <1>2, <2>2 DEF Fetches, Placed, tightPixels
  <2>4. Comes(Len(<<>>), TightComplete(p))
    BY <2>3, TightEnds
  <2>. QED  BY <2>1, <2>2, <2>4
<1>3. CASE Area = 1
  <2>1. One(SubSeq(Coming, 1, n), "short") /\ q = TightComplete(x)
    BY <1>1, <1>3 DEF TightPixels, Item
  <2>2. n = 1 /\ Coming[1].f = "short"
    BY <1>1, <2>1, OneAhead
  <2>3. CASE rQwait(0, 1)
    BY <1>3, <2>3, Waits0 DEF tightPixels
  <2>4. CASE ~rQwait(0, 1)
    <3>1. Arrived(<<"short">>) /\ Len(<<"short">>) = 1
      BY <1>1, <2>2, <2>4, ArrivedOne
    <3>2. Fetches(<<"short">>, f) /\ tightDone(e, <<"short">>, f)
      BY <1>3, <2>4, <3>1 DEF Fetches, Resumes, tightPixels
    <3>3. Comes(Len(<<"short">>), TightComplete(x))
      BY <1>1, <3>2, TightEnds
    <3>. QED  BY <2>1, <2>2, <3>1, <3>3
  <2>. QED  BY <2>3, <2>4
<1>4. CASE Area \notin {0, 1}
  <2>1. q \in TightData(p, x, SubSeq(Coming, 1, n)) /\ tightReadData(e, f)
    BY <1>1, <1>4 DEF TightPixels, tightPixels
  <2>. QED  BY <2>1, TightDataReads
<1>. QED  BY <1>2, <1>3, <1>4

\* A step of Tight that goes on, with a value noted.
LEMMA TightGoes ==
    ASSUME Placed, Stay, NEW p, Stands(p, fb), fb.rects # 0, NEW l, Arrived(l),
           NEW k, NEW v, GoOn(l, Noted(fb, fb.rect.v, k, v))
    PROVE  Comes(Len(l), Noted(p, p.rect.v, k, v))
<1>. DEFINE g == Noted(fb, fb.rect.v, k, v)
            y == Noted(p, p.rect.v, k, v)
<1>1. Parts \subseteq DOMAIN fb
  BY DEF Placed
<1>2. Stands(y, g)
  BY <1>1, NotedStands, Zenon
<1>3. /\ Parts \subseteq DOMAIN g /\ g.rects = fb.rects /\ g.viewOnly = fb.viewOnly
      /\ g.cont = fb.cont
  BY <1>1, NotedKeeps
<1>. HIDE DEF g, y
<1>4. Fetches(l, g) /\ GoOn(l, g) /\ g.rects # 0
  BY <1>3 DEF Fetches, g
<1>5. Kept /\ Gone(Len(l), y)
  BY <1>2, <1>4, GoesOn
<1>. QED  BY <1>5 DEF Comes, y

\* Inside a rectangle of Tight.
TightAt(e, p, n, q) ==
    /\ Stay /\ Stands(p, fb) /\ n \in 0..Len(Coming) /\ fb.rects # 0
    /\ e \in {7, -260} /\ fb.rect.v = e /\ p.rect.v = e /\ p.tight = fb.tight /\ p.rect.n = Area
    /\ q \in AfterTight(p, SubSeq(Coming, 1, n))
    /\ Typed /\ Coming \in Seq(Field)

LEMMA InTight ==
    ASSUME Placed, NEW e \in {enc.Tight, enc.TightPNG}, Rect(e), NEW p, NEW n, NEW q, Follow(p, n, q)
    PROVE  TightAt(e, p, n, q)
<1>1. e \in {7, -260}
  BY EncAre, SMTT(30)
<1>2. /\ Stay /\ Stands(p, fb) /\ n \in 0..Len(Coming) /\ fb.rects # 0 /\ fb.rect.v = e /\ p.rect.v = e
      /\ p.rect.n = Area /\ q \in AfterData(p, SubSeq(Coming, 1, n))
  BY InRect
<1>3. q \in AfterTight(p, SubSeq(Coming, 1, n))
  BY <1>1, <1>2, EncAre, SMTT(30) DEF AfterData
<1>4. p.tight = fb.tight /\ Typed /\ Coming \in Seq(Field)
  BY <1>2, ComingIs DEF Stands, Placed
<1>. QED  BY <1>1, <1>2, <1>3, <1>4 DEF TightAt

LEMMA RedrawsResumes ==
    ASSUME NEW f, Redraws(f), NEW p, Stands(p, fb)
    PROVE  Resumes(f) /\ Stands(p, f)
BY DEF Redraws, Resumes, Stands

LEMMA tightControlReads ==
    ASSUME Placed, NEW p, NEW n, NEW q, Follow(p, n, q), NEW e \in {enc.Tight, enc.TightPNG},
           tightControl(e)
    PROVE  Comes(n, q)
<1>1. TightAt(e, p, n, q) /\ fb.tight[e].ctl = -1
  BY InTight DEF tightControl, TightStep
<1>2. One(SubSeq(Coming, 1, n), "control") /\ q = [p EXCEPT !.tight[e].ctl = SubSeq(Coming, 1, n)[1].v]
  <2>. DEFINE h == SubSeq(Coming, 1, n)
              y == [p EXCEPT !.tight[p.rect.v].ctl = h[1].v]
              c == p.tight[p.rect.v].ctl
  <2>1. AfterTight(p, h) = CASE c = -1 -> Item(One(h, "control"), y)
                             [] c = 8 -> Item(One(h, "pixel"), TightComplete(p))
                             [] c \in {9, 10} -> TightData(p, p, h)
                             [] c \in 0..7 -> AfterFilter(p, h)
                             [] OTHER -> {}
    BY Zenon DEF AfterTight
  <2>2. c = -1 /\ q \in AfterTight(p, h) /\ p.rect.v = e
    BY <1>1 DEF TightAt
  <2>. HIDE DEF h, y, c
  <2>3. One(h, "control") /\ q = y
    BY <2>1, <2>2 DEF Item
  <2>. QED  BY <2>2, <2>3, Zenon DEF h, y
<1>3. n = 1 /\ Coming[1].f = "control" /\ SubSeq(Coming, 1, n)[1] = Coming[1]
  BY <1>1, <1>2, OneAhead DEF TightAt
<1>4. CASE rQwait(0, 1)
  BY <1>1, <1>4, Waits0 DEF TightAt, tightControl
<1>5. CASE ~rQwait(0, 1)
  <2>1. Arrived(<<"control">>) /\ Len(<<"control">>) = 1
    BY <1>1, <1>3, <1>5, ArrivedOne DEF TightAt
  <2>2. rQ[1] = Coming[1]
    BY <1>1, <1>5, ComingIs DEF TightAt, rQwait
  <2>3. GoOn(<<"control">>, [fb EXCEPT !.tight[e].ctl = rQ[1].v])
    BY <1>5, Zenon DEF tightControl
  <2>4. fb.rect.v = e /\ p.rect.v = e
    BY <1>1 DEF TightAt
  <2>5. /\ q = Noted(p, p.rect.v, "ctl", Coming[1].v)
        /\ GoOn(<<"control">>, Noted(fb, fb.rect.v, "ctl", Coming[1].v))
    BY <1>2, <1>3, <2>2, <2>3, <2>4, Zenon DEF Noted
  <2>6. Comes(Len(<<"control">>), q)
    <3>1. Comes(Len(<<"control">>), Noted(p, p.rect.v, "ctl", Coming[1].v))
      BY <1>1, <2>1, <2>5, TightGoes DEF TightAt
    <3>. QED  BY <2>5, <3>1, Zenon
  <2>. QED  BY <1>3, <2>1, <2>6
<1>. QED  BY <1>4, <1>5

LEMMA tightFillReads ==
    ASSUME Placed, NEW p, NEW n, NEW q, Follow(p, n, q), NEW e \in {enc.Tight, enc.TightPNG},
           tightFill(e)
    PROVE  Comes(n, q)
<1>1. TightAt(e, p, n, q) /\ fb.tight[e].ctl = 8
  BY InTight DEF tightFill, TightStep
<1>2. One(SubSeq(Coming, 1, n), "pixel") /\ q = TightComplete(p)
  BY <1>1 DEF TightAt, AfterTight, Item
<1>3. n = 1 /\ Coming[1].f = "pixel"
  BY <1>1, <1>2, OneAhead DEF TightAt
<1>4. CASE rQwait(0, 1)
  BY <1>1, <1>4, Waits0 DEF TightAt, tightFill
<1>5. CASE ~rQwait(0, 1)
  <2>1. Arrived(<<"pixel">>) /\ Len(<<"pixel">>) = 1
    BY <1>1, <1>3, <1>5, ArrivedOne DEF TightAt
  <2>2. Redraws(Filled(fb)) /\ tightDone(e, <<"pixel">>, Filled(fb))
    BY <1>5, RedrawsIs, DrawsOnly DEF tightFill
  <2>3. /\ Stay /\ e \notin {0, 5} /\ Fetches(<<"pixel">>, Filled(fb)) /\ Stands(p, Filled(fb))
        /\ Filled(fb).rect.v = e
    BY <1>1, <2>1, <2>2, RedrawsResumes DEF Fetches, Redraws, TightAt
  <2>4. Comes(Len(<<"pixel">>), TightComplete(p))
    BY <2>2, <2>3, TightEnds
  <2>. QED  BY <1>2, <1>3, <2>1, <2>4
<1>. QED  BY <1>4, <1>5

\* A decoder that gives up before it reads anything.
LEMMA AbortsAtOnce ==
    ASSUME Placed, Stay, Abort(<<>>), NEW n, NEW q
    PROVE  Comes(n, q)
<1>1. Arrived(<<>>)
  BY ArrivedNone DEF Placed
<1>. QED  BY <1>1, Aborts

LEMMA tightImageReads ==
    ASSUME Placed, NEW p, NEW n, NEW q, Follow(p, n, q), NEW e \in {enc.Tight, enc.TightPNG},
           tightImage(e)
    PROVE  Comes(n, q)
<1>1. TightAt(e, p, n, q) /\ fb.tight[e].ctl \in {9, 10}
  BY InTight DEF tightImage, TightStep
<1>2. q \in TightData(p, p, SubSeq(Coming, 1, n))
  BY <1>1 DEF TightAt, AfterTight
<1>3. CASE (fb.tight[e].ctl = 10) # (e = enc.TightPNG)
  BY <1>1, <1>3, AbortsAtOnce DEF TightAt, tightImage
<1>4. CASE ~((fb.tight[e].ctl = 10) # (e = enc.TightPNG))
  <2>1. PICK state \in LoadResults : tightReadData(e, [fb EXCEPT !.disp = imageRect(@, Area, state)])
    BY <1>4, Zenon DEF tightImage
  <2>. DEFINE f == [fb EXCEPT !.disp = imageRect(@, Area, state)]
  <2>2. Redraws(f) /\ tightReadData(e, f)
    BY <2>1, RedrawsIs
  <2>. HIDE DEF f
  <2>3. Resumes(f) /\ Stands(p, f) /\ Stay /\ e \notin {0, 5}
    BY <1>1, <2>2, RedrawsResumes DEF TightAt
  <2>. QED  BY <1>1, <1>2, <2>2, <2>3, TightDataReads DEF TightAt
<1>. QED  BY <1>3, <1>4

\* The filter that is at work decides what follows.
LEMMA FilterIs ==
    ASSUME NEW e, NEW p, NEW n, NEW q, TightAt(e, p, n, q), fb.tight[e].ctl \in 0..7,
           NEW h, h = SubSeq(Coming, 1, n)
    PROVE  LET t == fb.tight[e]
           IN  /\ t.filter \in {0, 2} => q \in TightPixels(p, p, h)
               /\ t.filter = 1 /\ t.colors # 1 =>
                     Two(h, "colors", "palette") /\ q = Noted(p, p.rect.v, "colors", 1)
               /\ t.filter = 1 /\ t.colors = 1 => q \in TightPixels(p, Noted(p, p.rect.v, "colors", 0), h)
<1>. DEFINE t == p.tight[p.rect.v]
            a == Noted(p, p.rect.v, "filter", 0)
            b == Noted(p, p.rect.v, "filter", h[1].v)
            c == Noted(p, p.rect.v, "colors", 1)
            d == Noted(p, p.rect.v, "colors", 0)
<1>1. p.rect.v = e /\ p.tight = fb.tight /\ q \in AfterTight(p, h)
  BY DEF TightAt
<1>2. q \in AfterFilter(p, h) /\ t = fb.tight[e]
  BY <1>1 DEF AfterTight
<1>3. enc.TightPNG = -260
  BY EncAre, SMTT(30)
<1>4. AfterFilter(p, h) =
         CASE t.filter = -1 /\ p.rect.v = enc.TightPNG -> Item(h = <<>>, TightComplete(p))
           [] t.filter = -1 /\ p.rect.v # enc.TightPNG ->
                 IF t.ctl < 4 THEN Item(h = <<>>, a) ELSE Item(One(h, "filter"), b)
           [] t.filter \in {0, 2} -> TightPixels(p, p, h)
           [] t.filter = 1 /\ t.colors # 1 -> Item(Two(h, "colors", "palette") /\ p.rect.n # 0, c)
           [] t.filter = 1 /\ t.colors = 1 -> IF p.rect.n = 0 THEN {} ELSE TightPixels(p, d, h)
           [] OTHER -> {}
  BY Zenon DEF AfterFilter, Noted
<1>. HIDE DEF t, a, b, c, d
<1>7. t.filter \in {0, 2} => q \in TightPixels(p, p, h)
  BY <1>2, <1>4
<1>8. t.filter = 1 /\ t.colors # 1 => Two(h, "colors", "palette") /\ q = c
  BY <1>2, <1>4 DEF Item
<1>9. t.filter = 1 /\ t.colors = 1 => q \in TightPixels(p, d, h)
  BY <1>2, <1>4
<1>10. t = fb.tight[e]
  BY <1>2
<1>. QED  BY <1>7, <1>8, <1>9, <1>10, Zenon DEF a, b, c, d

LEMMA NoFilterRead ==
    ASSUME NEW e, NEW p, NEW n, NEW q, TightAt(e, p, n, q), fb.tight[e].ctl \in 0..7,
           fb.tight[e].filter = -1, e # -260, fb.tight[e].ctl < 4
    PROVE  SubSeq(Coming, 1, n) = <<>> /\ q = Noted(p, p.rect.v, "filter", 0)
<1>. DEFINE h == SubSeq(Coming, 1, n)
            t == p.tight[p.rect.v]
            a == Noted(p, p.rect.v, "filter", 0)
            b == Noted(p, p.rect.v, "filter", h[1].v)
            c == Noted(p, p.rect.v, "colors", 1)
            d == Noted(p, p.rect.v, "colors", 0)
<1>1. p.rect.v = e /\ p.tight = fb.tight /\ q \in AfterTight(p, h)
  BY DEF TightAt
<1>2. q \in AfterFilter(p, h) /\ t = fb.tight[e]
  BY <1>1 DEF AfterTight
<1>3. enc.TightPNG = -260
  BY EncAre, SMTT(30)
<1>4. AfterFilter(p, h) =
         CASE t.filter = -1 /\ p.rect.v = enc.TightPNG -> Item(h = <<>>, TightComplete(p))
           [] t.filter = -1 /\ p.rect.v # enc.TightPNG ->
                 IF t.ctl < 4 THEN Item(h = <<>>, a) ELSE Item(One(h, "filter"), b)
           [] t.filter \in {0, 2} -> TightPixels(p, p, h)
           [] t.filter = 1 /\ t.colors # 1 -> Item(Two(h, "colors", "palette") /\ p.rect.n # 0, c)
           [] t.filter = 1 /\ t.colors = 1 -> IF p.rect.n = 0 THEN {} ELSE TightPixels(p, d, h)
           [] OTHER -> {}
  BY Zenon DEF AfterFilter, Noted
<1>. HIDE DEF h, t, a, b, c, d
<1>5. h = <<>> /\ q = a
  BY <1>1, <1>2, <1>3, <1>4 DEF Item
<1>. QED  BY <1>5, Zenon DEF h, a

LEMMA FilterRead ==
    ASSUME NEW e, NEW p, NEW n, NEW q, TightAt(e, p, n, q), fb.tight[e].ctl \in 0..7,
           fb.tight[e].filter = -1, e # -260, ~(fb.tight[e].ctl < 4)
    PROVE  \E h, v : /\ h = SubSeq(Coming, 1, n) /\ v = h[1].v
                     /\ One(h, "filter") /\ q = Noted(p, p.rect.v, "filter", v)
<1>. DEFINE h == SubSeq(Coming, 1, n)
            t == p.tight[p.rect.v]
            a == Noted(p, p.rect.v, "filter", 0)
            b == Noted(p, p.rect.v, "filter", h[1].v)
            c == Noted(p, p.rect.v, "colors", 1)
            d == Noted(p, p.rect.v, "colors", 0)
<1>1. p.rect.v = e /\ p.tight = fb.tight /\ q \in AfterTight(p, h)
  BY DEF TightAt
<1>2. q \in AfterFilter(p, h) /\ t = fb.tight[e]
  BY <1>1 DEF AfterTight
<1>3. enc.TightPNG = -260
  BY EncAre, SMTT(30)
<1>4. AfterFilter(p, h) =
         CASE t.filter = -1 /\ p.rect.v = enc.TightPNG -> Item(h = <<>>, TightComplete(p))
           [] t.filter = -1 /\ p.rect.v # enc.TightPNG ->
                 IF t.ctl < 4 THEN Item(h = <<>>, a) ELSE Item(One(h, "filter"), b)
           [] t.filter \in {0, 2} -> TightPixels(p, p, h)
           [] t.filter = 1 /\ t.colors # 1 -> Item(Two(h, "colors", "palette") /\ p.rect.n # 0, c)
           [] t.filter = 1 /\ t.colors = 1 -> IF p.rect.n = 0 THEN {} ELSE TightPixels(p, d, h)
           [] OTHER -> {}
  BY Zenon DEF AfterFilter, Noted
<1>. HIDE DEF h, t, a, b, c, d
<1>5. One(h, "filter") /\ q = b
  BY <1>1, <1>2, <1>3, <1>4 DEF Item
<1>. QED  BY <1>5, Zenon DEF h, b

LEMMA tightBasicReads ==
    ASSUME Placed, NEW p, NEW n, NEW q, Follow(p, n, q), NEW e \in {enc.Tight, enc.TightPNG},
           tightBasic(e)
    PROVE  Comes(n, q)
<1>. DEFINE h == SubSeq(Coming, 1, n)
<1>1. TightAt(e, p, n, q) /\ fb.tight[e].ctl \in 0..7 /\ fb.tight[e].filter = -1
  BY InTight DEF tightBasic, TightStep
<1>2. fb.rect.v = e /\ p.rect.v = e /\ Stay /\ Stands(p, fb) /\ fb.rects # 0 /\ Typed
      /\ Coming \in Seq(Field) /\ n \in 0..Len(Coming)
  BY <1>1 DEF TightAt
<1>3. enc.TightPNG = -260
  BY EncAre, SMTT(30)
<1>4. CASE e = -260
  <2>1. Abort(<<>>)
    BY <1>3, <1>4, Zenon DEF tightBasic
  <2>. QED  BY <1>2, <2>1, AbortsAtOnce
<1>5. CASE e # -260 /\ fb.tight[e].ctl < 4
  <2>1. h = <<>> /\ q = Noted(p, p.rect.v, "filter", 0)
    BY <1>1, <1>5, NoFilterRead
  <2>2. n = 0 /\ Arrived(<<>>) /\ Len(<<>>) = 0
    BY <1>2, <2>1, ArrivedNone, NoneAhead
  <2>3. GoOn(<<>>, [fb EXCEPT !.tight[e].filter = 0])
    BY <1>3, <1>5, Zenon DEF tightBasic
  <2>4. GoOn(<<>>, Noted(fb, fb.rect.v, "filter", 0))
    BY <1>2, <2>3, Zenon DEF Noted
  <2>5. Comes(Len(<<>>), Noted(p, p.rect.v, "filter", 0))
    BY <1>2, <2>2, <2>4, TightGoes
  <2>. QED  BY <2>1, <2>2, <2>5
<1>6. CASE e # -260 /\ ~(fb.tight[e].ctl < 4)
  <2>1. One(h, "filter") /\ q = Noted(p, p.rect.v, "filter", h[1].v)
    <3>1. PICK x, v : /\ x = SubSeq(Coming, 1, n) /\ v = x[1].v
                      /\ One(x, "filter") /\ q = Noted(p, p.rect.v, "filter", v)
      BY <1>1, <1>6, FilterRead
    <3>. QED  BY <3>1, Zenon
  <2>2. n = 1 /\ Coming[1].f = "filter" /\ h[1] = Coming[1]
    BY <1>2, <2>1, OneAhead
  <2>3. IF rQwait(0, 1) THEN WaitFor(0, 0)
        ELSE GoOn(<<"filter">>, [fb EXCEPT !.tight[e].filter = rQ[1].v])
    BY <1>3, <1>6, Zenon DEF tightBasic
  <2>4. CASE rQwait(0, 1)
    BY <1>2, <2>3, <2>4, Waits0
  <2>5. CASE ~rQwait(0, 1)
    <3>1. Arrived(<<"filter">>) /\ Len(<<"filter">>) = 1
      BY <1>2, <2>2, <2>5, ArrivedOne
    <3>2. rQ[1] = Coming[1]
      BY <1>2, <2>5, ComingIs DEF rQwait
    <3>3. GoOn(<<"filter">>, Noted(fb, fb.rect.v, "filter", Coming[1].v))
      BY <1>2, <2>3, <2>5, <3>2, Zenon DEF Noted
    <3>4. Comes(Len(<<"filter">>), Noted(p, p.rect.v, "filter", Coming[1].v))
      BY <1>2, <3>1, <3>3, TightGoes
    <3>. QED  BY <2>1, <2>2, <3>1, <3>4
  <2>. QED  BY <2>4, <2>5
<1>. QED  BY <1>4, <1>5, <1>6

\* The copy filter and the gradient filter.
LEMMA PlainFilterReads ==
    ASSUME Placed, NEW p, NEW n, NEW q, NEW e, TightAt(e, p, n, q), fb.tight[e].ctl \in 0..7,
           fb.tight[e].filter \in {0, 2}, tightPixels(e, Blitted(fb))
    PROVE  Comes(n, q)
<1>1. q \in TightPixels(p, p, SubSeq(Coming, 1, n))
  BY FilterIs
<1>2. Stay /\ e \notin {0, 5} /\ fb.rect.v = e /\ Stands(p, fb) /\ fb.rects # 0 /\ n \in 0..Len(Coming)
  BY DEF TightAt
<1>3. Resumes(Blitted(fb)) /\ Stands(p, Blitted(fb))
  BY <1>2, RedrawsIs, DrawsOnly, RedrawsResumes
<1>. QED  BY <1>1, <1>2, <1>3, TightPixelsReads

LEMMA tightPaletteFilterReads ==
    ASSUME Placed, NEW p, NEW n, NEW q, Follow(p, n, q), NEW e \in {enc.Tight, enc.TightPNG},
           tightPaletteFilter(e)
    PROVE  Comes(n, q)
<1>. DEFINE h == SubSeq(Coming, 1, n)
<1>1. TightAt(e, p, n, q) /\ fb.tight[e].ctl \in 0..7 /\ fb.tight[e].filter = 1
  BY InTight DEF tightPaletteFilter, TightStep
<1>2. fb.rect.v = e /\ p.rect.v = e /\ Stay /\ Stands(p, fb) /\ fb.rects # 0 /\ Typed
      /\ Coming \in Seq(Field) /\ n \in 0..Len(Coming) /\ e \notin {0, 5}
  BY <1>1 DEF TightAt
<1>3. CASE fb.tight[e].colors = 1
  <2>. DEFINE g == Noted(fb, fb.rect.v, "colors", 0)
              y == Noted(p, p.rect.v, "colors", 0)
  <2>1. q \in TightPixels(p, y, h)
    BY <1>1, <1>3, FilterIs
  <2>2. tightPixels(e, Blitted([fb EXCEPT !.tight[e].colors = 0]))
    BY <1>3, Zenon DEF tightPaletteFilter
  <2>3. tightPixels(e, Blitted(g))
    BY <1>2, <2>2, Zenon DEF Noted
  <2>4. Stands(y, g)
    <3>1. Parts \subseteq DOMAIN fb
      BY DEF Placed
    <3>. QED  BY <1>2, <3>1, NotedStands, Zenon
  <2>5. Resumes(g)
    BY NotedKeeps DEF Placed, Resumes
  <2>. HIDE DEF g, y
  <2>6. Resumes(Blitted(g)) /\ Stands(y, Blitted(g))
    BY <2>4, <2>5 DEF Resumes, Stands, Blitted, Parts
  <2>. QED  BY <1>2, <2>1, <2>3, <2>6, TightPixelsReads
<1>4. CASE fb.tight[e].colors # 1
  <2>1. Two(h, "colors", "palette") /\ q = Noted(p, p.rect.v, "colors", 1)
    BY <1>1, <1>4, FilterIs
  <2>2. n = 2 /\ Coming[1].f = "colors" /\ Coming[2].f = "palette"
    BY <1>2, <2>1, TwoAhead
  <2>3. IF rQwait(0, 1) \/ rQwait(0, 2) THEN WaitFor(0, 0)
        ELSE GoOn(<<"colors", "palette">>, [fb EXCEPT !.tight[e].colors = 1])
    BY <1>4, Zenon DEF tightPaletteFilter
  <2>4. CASE rQwait(0, 1) \/ rQwait(0, 2)
    BY <1>2, <2>3, <2>4, Waits0
  <2>5. CASE ~(rQwait(0, 1) \/ rQwait(0, 2))
    <3>1. ~rQwait(1, 1)
      BY <2>5 DEF rQwait
    <3>2. Arrived(<<"colors", "palette">>) /\ Len(<<"colors", "palette">>) = 2
      BY <1>2, <2>2, <3>1, ArrivedTwo
    <3>3. GoOn(<<"colors", "palette">>, Noted(fb, fb.rect.v, "colors", 1))
      BY <1>2, <2>3, <2>5, Zenon DEF Noted
    <3>4. Comes(Len(<<"colors", "palette">>), Noted(p, p.rect.v, "colors", 1))
      BY <1>2, <3>2, <3>3, TightGoes
    <3>. QED  BY <2>1, <2>2, <3>2, <3>4
  <2>. QED  BY <2>4, <2>5
<1>. QED  BY <1>3, <1>4

\* All of them.
LEMMA tightDecodeReads ==
    ASSUME Placed, NEW p, NEW n, NEW q, Follow(p, n, q), tightDecode
    PROVE  Comes(n, q)
<1>1. PICK e \in {enc.Tight, enc.TightPNG} :
         \/ tightControl(e) \/ tightFill(e) \/ tightImage(e)
         \/ tightBasic(e) \/ tightCopyFilter(e) \/ tightPaletteFilter(e) \/ tightGradientFilter(e)
  BY DEF tightDecode
<1>2. CASE tightCopyFilter(e) \/ tightGradientFilter(e)
  BY <1>2, InTight, PlainFilterReads DEF tightCopyFilter, tightGradientFilter, TightStep
<1>. QED  BY <1>1, <1>2, tightControlReads, tightFillReads, tightImageReads, tightBasicReads,
             tightPaletteFilterReads

------------------------------------------------------------------------------
(* The other messages.                                                     *)

\* The position behind the header of an update.
Updated(p, n) == [p EXCEPT !.rects = n]

\* At the head of a message; what the grammar says of it.
LEMMA InMessage ==
    ASSUME Placed, fb.rects = 0, rQ # <<>>, NEW p, NEW n, NEW q, Follow(p, n, q)
    PROVE  /\ Typed /\ Coming \in Seq(Field) /\ Stands(p, fb) /\ n \in 0..Len(Coming)
           /\ Coming[1].f = "message" /\ rQ[1] = Coming[1] /\ ~rQwait(0, 1)
           /\ \E v : Coming[1].v = 0 => v = Coming[2].v /\ q = Updated(p, v)
           /\ LET h == SubSeq(Coming, 1, n) IN
              /\ Coming[1].v = 0 => Two(h, "message", "rects")
              /\ Coming[1].v = 3 => CutText(h, fb.viewOnly) /\ q = p
              /\ Coming[1].v = 248 => Three(h, "message", "fence", "fenceData") /\ q = p
              /\ Coming[1].v = 250 => Two(h, "message", "xvp") /\ q = p
              /\ Coming[1].v \notin {0, 3, 248, 250} => One(h, "message") /\ q = p
<1>. DEFINE h == SubSeq(Coming, 1, n)
            x == Updated(p, h[2].v)
<1>1. /\ Typed /\ Coming \in Seq(Field) /\ Stands(p, fb) /\ n \in 0..Len(Coming) /\ p.rects = 0
      /\ p.view = fb.viewOnly /\ q \in AfterMessage(p, h)
  BY ComingIs DEF Follow, After, Stands, Placed
<1>2. AfterMessage(p, h) =
         Item(Two(h, "message", "rects") /\ h[1].v = 0, x)
         \cup Item(CutText(h, p.view), p)
         \cup Item(Three(h, "message", "fence", "fenceData") /\ h[1].v = 248, p)
         \cup Item(Two(h, "message", "xvp") /\ h[1].v = 250, p)
         \cup Item(One(h, "message") /\ h[1].v \notin {0, 3, 248, 250}, p)
  BY Zenon DEF AfterMessage, Updated
<1>3. rQ[1] = Coming[1] /\ ~rQwait(0, 1)
  <2>1. Len(rQ) \in Nat /\ Len(rQ) # 0
    BY <1>1, EmptyIs DEF Typed
  <2>2. 1 \in 1..Len(rQ)
    BY <2>1
  <2>. QED  BY <1>1, <2>1, <2>2, ComingIs DEF rQwait
<1>4. h # <<>> => h[1] = Coming[1]
  BY <1>1, HeadIs
<1>. HIDE DEF h, x
<1>5. \/ (Two(h, "message", "rects") /\ h[1].v = 0 /\ q = x)
      \/ (CutText(h, p.view) /\ q = p)
      \/ (Three(h, "message", "fence", "fenceData") /\ h[1].v = 248 /\ q = p)
      \/ (Two(h, "message", "xvp") /\ h[1].v = 250 /\ q = p)
      \/ (One(h, "message") /\ h[1].v \notin {0, 3, 248, 250} /\ q = p)
  BY <1>1, <1>2, SMT DEF Item
<1>6. h # <<>> /\ h[1].f = "message" /\ (CutText(h, p.view) => h[1].v = 3)
  <2>1. Len(<<>>) = 0
    OBVIOUS
  <2>. QED  BY <1>5, <2>1, SMT DEF One, Two, Three, CutText
<1>7. h[1] = Coming[1]
  BY <1>4, <1>6
<1>8. /\ Coming[1].v = 0 => Two(h, "message", "rects") /\ q = x
      /\ Coming[1].v = 3 => CutText(h, fb.viewOnly) /\ q = p
      /\ Coming[1].v = 248 => Three(h, "message", "fence", "fenceData") /\ q = p
      /\ Coming[1].v = 250 => Two(h, "message", "xvp") /\ q = p
      /\ Coming[1].v \notin {0, 3, 248, 250} => One(h, "message") /\ q = p
  BY <1>1, <1>5, <1>6, <1>7, SMT
<1>9. Coming[1].f = "message"
  BY <1>6, <1>7
<1>10. \E v : Coming[1].v = 0 => v = Coming[2].v /\ q = Updated(p, v)
  <2>1. ASSUME Coming[1].v = 0 PROVE h[2] = Coming[2]
    <3>1. Two(SubSeq(Coming, 1, n), "message", "rects")
      BY <1>8, <2>1 DEF h
    <3>. QED  BY <1>1, <3>1, TwoAhead DEF h
  <2>2. q = x => q = Updated(p, h[2].v)
    BY DEF x
  <2>3. Coming[1].v = 0 => h[2].v = Coming[2].v /\ q = Updated(p, h[2].v)
    BY <1>8, <2>1, <2>2
  <2>. QED  BY <2>3, Zenon
<1>. QED  BY <1>1, <1>3, <1>8, <1>9, <1>10, Zenon DEF h

\* A message is read that is not an update.
LEMMA MessageRead ==
    ASSUME Placed, Stay, NEW p, Stands(p, fb), NEW l, Arrived(l), Shift(l), Coming[1].v # 0,
           NEW m \in Seq(Wishes(fb.viewOnly)), Sends(m) \/ (m = <<>> /\ Quiet),
           rfb' = rfb \/ rfb' = fail(rfb),
           Parts \subseteq DOMAIN fb', fb'.rects = fb.rects, fb'.rect = fb.rect, fb'.left = fb.left,
           fb'.len = fb.len, fb'.tight = fb.tight, fb'.sof = fb.sof, fb'.viewOnly = fb.viewOnly,
           fb'.flushing = fb.flushing, fb'.forgot = fb.forgot,
           fb'.cont => fb.cont \/ \E k \in 1..Len(m) : m[k].f = "enable"
    PROVE  Comes(Len(l), p)
<1>1. ~misread' /\ rQ' \in Seq(Field) /\ Coming' = Drop(Coming, Len(l))
  BY Shifts DEF Placed, Stay, Arrived
<1>2. /\ up' = up \/ \E r \in Seq(Wishes(fb.viewOnly)) : up' = up \o r
      /\ rfb.st = "connected" => m = <<>> \/ \A k \in 1..Len(m) : Pending(m[k].f)'
  BY SendsOne DEF Quiet
<1>3. DOMAIN rfb' = DOMAIN rfb /\ (rfb' = rfb \/ rfb'.st = "over")
  <2>1. CASE rfb' = fail(rfb)
    BY <2>1 DEF fail, Placed, Typed
  <2>2. CASE rfb' = rfb
    BY <2>2
  <2>. QED  BY <2>1, <2>2
<1>4. Kept
  BY <1>1, <1>2, <1>3 DEF Kept, Stay
<1>5. Stands(p, fb')
  BY DEF Stands
<1>6. rfb'.st = "connected" => rfb.st = "connected"
  BY <1>3
<1>7. rfb'.st = "connected" /\ fb'.cont => fb.cont \/ Pending("enable")'
  <2>1. SUFFICES ASSUME rfb'.st = "connected", fb'.cont, ~fb.cont PROVE Pending("enable")'
    OBVIOUS
  <2>2. PICK k \in 1..Len(m) : m[k].f = "enable"
    BY <2>1
  <2>3. m # <<>>
    BY <2>2, EmptySeq
  <2>4. Pending(m[k].f)'
    BY <1>2, <1>6, <2>1, <2>3
  <2>. QED  BY <2>2, <2>4
<1>8. Quietly(fb') => Quietly(fb)
  BY DEF Quietly
<1>9. Gone(Len(l), p)
  BY <1>1, <1>5, <1>7, <1>8 DEF Gone
<1>. QED  BY <1>4, <1>9 DEF Comes

\* Each handler of a message waits or takes all of it.
LEMMA MessageReadQuietly ==
    ASSUME Placed, Stay, NEW p, Stands(p, fb), NEW l, Arrived(l), Shift(l), Coming[1].v # 0,
           Quiet, fb' = fb, rfb' = rfb \/ rfb' = fail(rfb)
    PROVE  Comes(Len(l), p)
<1>1. <<>> \in Seq(Wishes(fb.viewOnly))
  BY WishesAre
<1>2. Parts \subseteq DOMAIN fb'
  BY DEF Placed
<1>. QED  BY <1>1, <1>2, MessageRead

LEMMA handleBellReads ==
    ASSUME Placed, NEW p, NEW n, NEW q, Follow(p, n, q), handleBell
    PROVE  Comes(n, q)
<1>1. /\ Stay /\ fb.rects = 0 /\ rQ # <<>> /\ rQ[1].v = 2 /\ Shift(<<"message">>) /\ Quiet /\ fb' = fb
      /\ rfb' = rfb
  BY DEF handleBell, Message, Handling, NextMessage
<1>2. /\ Stands(p, fb) /\ One(SubSeq(Coming, 1, n), "message") /\ q = p /\ rQ[1] = Coming[1]
      /\ ~rQwait(0, 1) /\ Typed /\ Coming \in Seq(Field) /\ n \in 0..Len(Coming)
  BY <1>1, InMessage
<1>3. n = 1 /\ Coming[1].f = "message"
  BY <1>2, OneAhead
<1>4. Arrived(<<"message">>) /\ Len(<<"message">>) = 1
  BY <1>2, <1>3, ArrivedOne
<1>5. Comes(Len(<<"message">>), p)
  <2>1. Coming[1].v # 0
    BY <1>1, <1>2
  <2>. QED  BY <1>1, <1>2, <1>4, <2>1, MessageReadQuietly, Zenon
<1>. QED  BY <1>2, <1>3, <1>4, <1>5

LEMMA unexpectedMessageReads ==
    ASSUME Placed, NEW p, NEW n, NEW q, Follow(p, n, q), unexpectedMessage
    PROVE  Comes(n, q)
<1>1. /\ Stay /\ fb.rects = 0 /\ rQ # <<>> /\ Shift(<<"message">>) /\ Quiet /\ fb' = fb
      /\ rQ[1].f # "message" \/ rQ[1].v \notin {0, 2, 3, 150, 248, 250}
      /\ rfb' = fail(rfb)
  BY DEF unexpectedMessage, Handling, Failed
<1>2. /\ Stands(p, fb) /\ Coming[1].f = "message" /\ rQ[1] = Coming[1]
      /\ ~rQwait(0, 1) /\ Typed /\ Coming \in Seq(Field) /\ n \in 0..Len(Coming)
  BY <1>1, InMessage
<1>3. Coming[1].v \notin {0, 3, 248, 250}
  BY <1>1, <1>2
<1>4. One(SubSeq(Coming, 1, n), "message") /\ q = p
  BY <1>1, <1>3, InMessage
<1>5. n = 1
  BY <1>2, <1>4, OneAhead
<1>6. Arrived(<<"message">>) /\ Len(<<"message">>) = 1
  BY <1>2, ArrivedOne
<1>7. Comes(Len(<<"message">>), p)
  <2>1. Coming[1].v # 0
    BY <1>3
  <2>2. Stay /\ Shift(<<"message">>) /\ Quiet /\ fb' = fb /\ (rfb' = rfb \/ rfb' = fail(rfb))
    BY <1>1
  <2>3. Stands(p, fb) /\ Arrived(<<"message">>)
    BY <1>2, <1>6
  <2>. QED  BY <2>1, <2>2, <2>3, MessageReadQuietly, Zenon
<1>. QED  BY <1>4, <1>5, <1>6, <1>7

\* A fence is answered; an illegal message of xvp fails the connection.
LEMMA handleServerFenceReads ==
    ASSUME Placed, NEW p, NEW n, NEW q, Follow(p, n, q), handleServerFence
    PROVE  Comes(n, q)
<1>1. /\ Stay /\ fb.rects = 0 /\ rQ # <<>> /\ rQ[1].v = 248
      /\ (rQwait(1, 1) => WaitFor(1, 1))
      /\ (~rQwait(1, 1) /\ rQwait(2, 1) => WaitFor(2, 2))
      /\ (~rQwait(1, 1) /\ ~rQwait(2, 1) =>
             Shift(<<"message", "fence", "fenceData">>) /\ fb' = fb /\ Sends(<<F("fence", 0)>>) /\ rfb' = rfb)
  BY DEF handleServerFence, Message, Handling, NextMessage
<1>2. /\ Stands(p, fb) /\ Three(SubSeq(Coming, 1, n), "message", "fence", "fenceData") /\ q = p
      /\ rQ[1] = Coming[1] /\ Typed /\ Coming \in Seq(Field) /\ n \in 0..Len(Coming)
  BY <1>1, InMessage
<1>3. n = 3 /\ Coming[1].f = "message" /\ Coming[2].f = "fence" /\ Coming[3].f = "fenceData"
  BY <1>2, ThreeAhead
<1>4. CASE rQwait(1, 1) \/ rQwait(2, 1)
  BY <1>1, <1>4, WaitingFor DEF Comes
<1>5. CASE ~rQwait(1, 1) /\ ~rQwait(2, 1)
  <2>. DEFINE l == <<"message", "fence", "fenceData">>
              m == <<F("fence", 0)>>
  <2>1. Arrived(l) /\ Len(l) = 3
    BY <1>2, <1>3, <1>5, ArrivedThree
  <2>2. Shift(l) /\ fb' = fb /\ Sends(m) /\ rfb' = rfb
    BY <1>1, <1>5
  <2>3. m \in Seq(Wishes(fb.viewOnly))
    BY WishesAre
  <2>4. Coming[1].v # 0 /\ Parts \subseteq DOMAIN fb'
    BY <1>1, <1>2, <2>2 DEF Placed
  <2>. HIDE DEF l, m
  <2>5. Comes(Len(l), p)
    BY <1>1, <1>2, <2>1, <2>2, <2>3, <2>4, MessageRead
  <2>. QED  BY <1>2, <1>3, <2>1, <2>5
<1>. QED  BY <1>4, <1>5

LEMMA handleXvpReads ==
    ASSUME Placed, NEW p, NEW n, NEW q, Follow(p, n, q), handleXvp
    PROVE  Comes(n, q)
<1>1. /\ Stay /\ fb.rects = 0 /\ rQ # <<>> /\ rQ[1].v = 250
      /\ (rQwait(1, 1) => WaitFor(1, 1))
      /\ (~rQwait(1, 1) => /\ Shift(<<"message", "xvp">>) /\ fb' = fb /\ Quiet
                           /\ rfb' = fail(rfb) \/ rfb' = rfb)
  BY DEF handleXvp, Message, Handling
<1>2. /\ Stands(p, fb) /\ Two(SubSeq(Coming, 1, n), "message", "xvp") /\ q = p
      /\ rQ[1] = Coming[1] /\ Typed /\ Coming \in Seq(Field) /\ n \in 0..Len(Coming)
  BY <1>1, InMessage
<1>3. n = 2 /\ Coming[1].f = "message" /\ Coming[2].f = "xvp"
  BY <1>2, TwoAhead
<1>4. CASE rQwait(1, 1)
  BY <1>1, <1>4, WaitingFor DEF Comes
<1>5. CASE ~rQwait(1, 1)
  <2>. DEFINE l == <<"message", "xvp">>
  <2>1. Arrived(l) /\ Len(l) = 2
    BY <1>2, <1>3, <1>5, ArrivedTwo
  <2>2. Stay /\ Shift(l) /\ fb' = fb /\ Quiet /\ (rfb' = rfb \/ rfb' = fail(rfb))
    BY <1>1, <1>5
  <2>3. Coming[1].v # 0
    BY <1>1, <1>2
  <2>4. Stands(p, fb)
    BY <1>2
  <2>. HIDE DEF l
  <2>5. Comes(Len(l), p)
    BY <2>1, <2>2, <2>3, <2>4, MessageReadQuietly
  <2>. QED  BY <1>2, <1>3, <2>1, <2>5
<1>. QED  BY <1>4, <1>5

LEMMA handleEndOfContinuousUpdatesReads ==
    ASSUME Placed, NEW p, NEW n, NEW q, Follow(p, n, q), handleEndOfContinuousUpdates
    PROVE  Comes(n, q)
<1>. DEFINE m == IF fb.supportsCont THEN <<>> ELSE <<F("enable", 1)>>
            l == <<"message">>
            f == [fb EXCEPT !.supportsCont = TRUE, !.cont = ~fb.supportsCont]
<1>1. /\ Stay /\ fb.rects = 0 /\ rQ # <<>> /\ rQ[1].v = 150
      /\ Shift(l) /\ fb' = f /\ Sends(m) /\ rfb' = rfb
  BY DEF handleEndOfContinuousUpdates, Message, Handling, NextMessage
<1>2. /\ Stands(p, fb) /\ One(SubSeq(Coming, 1, n), "message") /\ q = p /\ ~rQwait(0, 1)
      /\ rQ[1] = Coming[1] /\ Typed /\ Coming \in Seq(Field) /\ n \in 0..Len(Coming)
  BY <1>1, InMessage
<1>3. n = 1 /\ Coming[1].f = "message"
  BY <1>2, OneAhead
<1>4. Arrived(l) /\ Len(l) = 1
  BY <1>2, <1>3, ArrivedOne
<1>5. m \in Seq(Wishes(fb.viewOnly)) /\ (~fb.supportsCont => Len(m) = 1 /\ m[1].f = "enable")
  <2>. DEFINE r == <<F("enable", 1)>>
  <2>1. r \in Seq(Wishes(fb.viewOnly)) /\ <<>> \in Seq(Wishes(fb.viewOnly))
    BY WishesAre
  <2>2. Len(r) = 1 /\ r[1].f = "enable"
    BY FIs
  <2>. HIDE DEF r
  <2>3. m = IF fb.supportsCont THEN <<>> ELSE r
    BY DEF r
  <2>. QED  BY <2>1, <2>2, <2>3
<1>6. /\ Parts \subseteq DOMAIN f /\ f.rects = fb.rects /\ f.rect = fb.rect /\ f.left = fb.left
      /\ f.len = fb.len /\ f.tight = fb.tight /\ f.sof = fb.sof /\ f.viewOnly = fb.viewOnly
      /\ f.flushing = fb.flushing /\ f.forgot = fb.forgot /\ (f.cont => ~fb.supportsCont)
  BY DEF Placed, Parts
<1>7. Coming[1].v # 0
  BY <1>1, <1>2
<1>. HIDE DEF m, l, f
<1>8. fb'.cont => \E k \in 1..Len(m) : m[k].f = "enable"
  BY <1>1, <1>5, <1>6
<1>9. Comes(Len(l), p)
  BY <1>1, <1>2, <1>4, <1>5, <1>6, <1>7, <1>8, MessageRead
<1>. QED  BY <1>2, <1>3, <1>4, <1>9

\* The text of the clipboard, which may be the fourth field of its message.
LEMMA FourthIs ==
    ASSUME NEW a, NEW b, NEW c, NEW d
    PROVE  LET l == <<a, b, c>> \o <<d>> IN
           Len(l) = 4 /\ l[1] = a /\ l[2] = b /\ l[3] = c /\ l[4] = d
<1>1. /\ <<a, b, c>> \in Seq({a, b, c, d}) /\ <<d>> \in Seq({a, b, c, d})
      /\ Len(<<a, b, c>>) = 3 /\ Len(<<d>>) = 1
  OBVIOUS
<1>. QED  BY <1>1, ConcatProperties

LEMMA ArrivedFour ==
    ASSUME Typed, ~rQwait(2, 2), NEW a, NEW b, NEW c, NEW d,
           Coming[1].f = a, Coming[2].f = b, Coming[3].f = c, Coming[4].f = d
    PROVE  Arrived(<<a, b, c>> \o <<d>>) /\ Len(<<a, b, c>> \o <<d>>) = 4
<1>. DEFINE l == <<a, b, c>> \o <<d>>
<1>1. /\ Len(l) = 4 /\ l[1] = a /\ l[2] = b /\ l[3] = c /\ l[4] = d
      /\ Len(rQ) \in Nat /\ Len(rQ) >= 4
  BY FourthIs, ComingIs DEF rQwait
<1>. HIDE DEF l
<1>2. ASSUME NEW k \in 1..Len(l) PROVE Coming[k].f = l[k]
  <2>1. k = 1 \/ k = 2 \/ k = 3 \/ k = 4
    BY <1>1
  <2>. QED  BY <1>1, <2>1
<1>3. Arrived(l) /\ Len(l) = 4
  BY <1>1, <1>2 DEF Arrived
<1>. QED  BY <1>3 DEF l

LEMMA NothingAdded == \A a, b, c : <<a, b, c>> \o <<>> = <<a, b, c>>
<1>. SUFFICES ASSUME NEW a, NEW b, NEW c PROVE <<a, b, c>> \o <<>> = <<a, b, c>>
  OBVIOUS
<1>1. <<a, b, c>> \in Seq({a, b, c})
  OBVIOUS
<1>. QED  BY <1>1, ConcatEmptySeq

\* The fields of a clipboard message, by what the grammar says of them.
LEMMA CutAhead ==
    ASSUME NEW S \in Seq(Field), NEW n \in 0..Len(S), NEW view, CutText(SubSeq(S, 1, n), view)
    PROVE  /\ S[1].f = "message" /\ S[2].f = "cut"
           /\ S[3].f = IF S[2].v = 0 THEN "text" ELSE "flags"
           /\ n = IF S[2].v = 5 THEN 4 ELSE 3
           /\ S[2].v = 5 => ~view /\ S[4].f = "zlibText"
<1>. DEFINE h == SubSeq(S, 1, n)
<1>1. Len(h) = n /\ \A k \in 1..n : h[k] = S[k]
  BY HeadIs
<1>. HIDE DEF h
<1>2. CutText(h, view)
  BY DEF h
<1>3. n \in {3, 4}
  BY <1>1, <1>2 DEF CutText
<1>4. h[1] = S[1] /\ h[2] = S[2] /\ h[3] = S[3]
  BY <1>1, <1>3
<1>5. n = 4 => h[4] = S[4]
  BY <1>1
<1>. QED  BY <1>1, <1>2, <1>3, <1>4, <1>5 DEF CutText

LEMMA handleServerCutTextReads ==
    ASSUME Placed, NEW p, NEW n, NEW q, Follow(p, n, q), handleServerCutText
    PROVE  Comes(n, q)
<1>. DEFINE cut == rQ[2].v
            a == <<"message", "cut", IF cut = 0 THEN "text" ELSE "flags">>
            l == a \o IF cut = 5 /\ ~fb.viewOnly THEN <<"zlibText">> ELSE <<>>
            m == CASE cut = 1 -> <<F("caps", 0)>>
                   [] cut = 2 /\ fb.caps /\ ~fb.viewOnly -> <<F("clipRequest", 0)>>
                   [] OTHER -> <<>>
            f == [fb EXCEPT !.caps = @ \/ cut = 1]
<1>1. /\ Stay /\ fb.rects = 0 /\ rQ # <<>> /\ rQ[1].v = 3
      /\ (rQwait(1, 1) => WaitFor(1, 1))
      /\ (~rQwait(1, 1) /\ rQwait(2, IF cut = 5 THEN 2 ELSE 1) => WaitFor(2, 2))
      /\ (~rQwait(1, 1) /\ ~rQwait(2, IF cut = 5 THEN 2 ELSE 1) =>
             Shift(l) /\ fb' = f /\ Sends(m) /\ rfb' = rfb)
  BY Zenon DEF handleServerCutText, Message, Handling, NextMessage
<1>2. /\ Stands(p, fb) /\ CutText(SubSeq(Coming, 1, n), fb.viewOnly) /\ q = p
      /\ rQ[1] = Coming[1] /\ Typed /\ Coming \in Seq(Field) /\ n \in 0..Len(Coming)
  BY <1>1, InMessage
<1>3. /\ Coming[1].f = "message" /\ Coming[2].f = "cut"
      /\ Coming[3].f = IF Coming[2].v = 0 THEN "text" ELSE "flags"
      /\ n = IF Coming[2].v = 5 THEN 4 ELSE 3
      /\ Coming[2].v = 5 => ~fb.viewOnly /\ Coming[4].f = "zlibText"
  BY <1>2, CutAhead
<1>4. CASE rQwait(1, 1) \/ rQwait(2, IF cut = 5 THEN 2 ELSE 1)
  BY <1>1, <1>4, WaitingFor DEF Comes
<1>5. CASE ~rQwait(1, 1) /\ ~rQwait(2, IF cut = 5 THEN 2 ELSE 1)
  <2>1. cut = Coming[2].v
    <3>1. Len(rQ) \in Nat /\ 2 \in 1..Len(rQ)
      BY <1>2, <1>5, ComingIs DEF rQwait
    <3>. QED  BY <1>2, <3>1, ComingIs
  <2>2. Arrived(l) /\ Len(l) = n
    <3>1. CASE cut = 5
      <4>1. l = <<"message", "cut", "flags">> \o <<"zlibText">> /\ ~rQwait(2, 2) /\ n = 4
        BY <1>3, <1>5, <2>1, <3>1
      <4>2. Coming[3].f = "flags" /\ Coming[4].f = "zlibText"
        BY <1>3, <2>1, <3>1
      <4>. QED  BY <1>2, <1>3, <4>1, <4>2, ArrivedFour
    <3>2. CASE cut # 5
      <4>1. l = a /\ ~rQwait(2, 1) /\ n = 3
        <5>1. l = a \o <<>> /\ a \o <<>> = a
          BY <3>2, NothingAdded
        <5>. QED  BY <1>3, <1>5, <2>1, <3>2, <5>1
      <4>. QED  BY <1>2, <1>3, <2>1, <4>1, ArrivedThree
    <3>. QED  BY <3>1, <3>2
  <2>3. m \in Seq(Wishes(fb.viewOnly))
    <3>1. /\ <<>> \in Seq(Wishes(fb.viewOnly)) /\ <<F("caps", 0)>> \in Seq(Wishes(fb.viewOnly))
          /\ ~fb.viewOnly => <<F("clipRequest", 0)>> \in Seq(Wishes(fb.viewOnly))
      BY WishesAre
    <3>. DEFINE A == Seq(Wishes(fb.viewOnly))
                r == <<F("caps", 0)>>
                c == <<F("clipRequest", 0)>>
    <3>2. <<>> \in A /\ r \in A /\ (~fb.viewOnly => c \in A)
      BY <3>1
    <3>. HIDE DEF A, r, c
    <3>3. m = CASE cut = 1 -> r [] cut = 2 /\ fb.caps /\ ~fb.viewOnly -> c [] OTHER -> <<>>
      BY DEF r, c
    <3>. HIDE DEF m, cut
    <3>4. m \in A
      BY <3>2, <3>3
    <3>. QED  BY <3>4 DEF A
  <2>4. /\ Parts \subseteq DOMAIN f /\ f.rects = fb.rects /\ f.rect = fb.rect /\ f.left = fb.left
        /\ f.len = fb.len /\ f.tight = fb.tight /\ f.sof = fb.sof /\ f.viewOnly = fb.viewOnly
        /\ f.flushing = fb.flushing /\ f.forgot = fb.forgot /\ f.cont = fb.cont
    BY DEF Placed, Parts
  <2>5. Shift(l) /\ fb' = f /\ Sends(m) /\ rfb' = rfb
    BY <1>1, <1>5
  <2>6. Coming[1].v # 0
    BY <1>1, <1>2
  <2>. HIDE DEF m, l, f
  <2>7. Comes(Len(l), p)
    BY <1>1, <1>2, <2>2, <2>3, <2>4, <2>5, <2>6, MessageRead
  <2>. QED  BY <1>2, <2>2, <2>7
<1>. QED  BY <1>4, <1>5

\* The header of an update is read.
LEMMA HeaderRead ==
    ASSUME Placed, Stay, NEW p, Stands(p, fb), NEW l, Arrived(l), Shift(l),
           NEW m \in Seq(Wishes(fb.viewOnly)), Sends(m) \/ (m = <<>> /\ Quiet), rfb' = rfb,
           NEW f, Parts \subseteq DOMAIN f, f.rect = fb.rect, f.left = fb.left,
           f.len = fb.len, f.tight = fb.tight, f.sof = fb.sof, f.viewOnly = fb.viewOnly, f.cont = fb.cont,
           Quietly(f) => fb.cont \/ \E k \in 1..Len(m) : m[k].f = "request",
           fb' = f
    PROVE  Comes(Len(l), Updated(p, f.rects))
<1>. DEFINE q == Updated(p, f.rects)
<1>1. ~misread' /\ rQ' \in Seq(Field) /\ Coming' = Drop(Coming, Len(l))
  BY Shifts DEF Placed, Stay, Arrived
<1>2. /\ up' = up \/ \E r \in Seq(Wishes(fb.viewOnly)) : up' = up \o r
      /\ rfb.st = "connected" => m = <<>> \/ \A k \in 1..Len(m) : Pending(m[k].f)'
  BY SendsOne DEF Quiet
<1>3. Kept
  BY <1>1, <1>2 DEF Kept, Stay
<1>4. Stands(q, fb')
  <2>1. /\ Spots \subseteq DOMAIN q /\ q.rects = f.rects /\ q.rect = p.rect /\ q.left = p.left
        /\ q.len = p.len /\ q.tight = p.tight /\ q.sof = p.sof /\ q.view = p.view
    BY DEF Stands, Spots, Updated
  <2>. HIDE DEF q
  <2>. QED  BY <2>1 DEF Stands
<1>5. rfb'.st = "connected" /\ Quietly(fb') => Pending("request")' \/ fb'.cont
  <2>1. SUFFICES ASSUME rfb'.st = "connected", Quietly(f), ~fb.cont PROVE Pending("request")'
    OBVIOUS
  <2>2. PICK k \in 1..Len(m) : m[k].f = "request"
    BY <2>1
  <2>3. m # <<>>
    BY <2>2, EmptySeq
  <2>4. Pending(m[k].f)'
    BY <1>2, <2>1, <2>3
  <2>. QED  BY <2>2, <2>4
<1>6. fb'.cont = fb.cont
  OBVIOUS
<1>. HIDE DEF q
<1>7. Gone(Len(l), q)
  BY <1>1, <1>4, <1>5, <1>6 DEF Gone
<1>8. Comes(Len(l), q)
  BY <1>3, <1>7 DEF Comes
<1>. QED  BY <1>8 DEF q

\* The header of an update, with rectangles or without, at once or after a pause.
LEMMA framebufferUpdateReads ==
    ASSUME Placed, NEW p, NEW n, NEW q, Follow(p, n, q), framebufferUpdate
    PROVE  Comes(n, q)
<1>. DEFINE v == rQ[2].v
            l == <<"message", "rects">>
            f == [fb EXCEPT !.rects = v, !.disp = Age(@)]
            g == [f EXCEPT !.flushing = TRUE, !.forgot = @ \/ v = 0, !.disp = flush(@)]
            h == [f EXCEPT !.disp = flip(@)]
            r == <<F("request", 1)>>
<1>1. /\ Stay /\ fb.rects = 0 /\ rQ # <<>> /\ rQ[1].v = 0
      /\ (rQwait(1, 1) => WaitFor(1, 1))
      /\ (~rQwait(1, 1) =>
             /\ Shift(l)
             /\ \/ (fb' = g /\ Quiet /\ Return(FALSE, rfb))
                \/ (v = 0 /\ Finish(f))
                \/ (v # 0 /\ fb' = f /\ Quiet /\ rfb' = rfb))
  BY Zenon DEF framebufferUpdate, Message, Handling
<1>2. /\ Stands(p, fb) /\ Two(SubSeq(Coming, 1, n), "message", "rects")
      /\ \E x : x = Coming[2].v /\ q = Updated(p, x)
      /\ rQ[1] = Coming[1] /\ Typed /\ Coming \in Seq(Field) /\ n \in 0..Len(Coming)
  <2>1. fb.rects = 0 /\ rQ # <<>> /\ rQ[1].v = 0
    BY <1>1, Zenon
  <2>2. rQ[1] = Coming[1]
    BY <2>1, InMessage
  <2>3. Coming[1].v = 0
    BY <2>1, <2>2
  <2>4. Stands(p, fb) /\ Typed /\ Coming \in Seq(Field) /\ n \in 0..Len(Coming)
    BY <2>1, InMessage
  <2>5. Two(SubSeq(Coming, 1, n), "message", "rects")
    BY <2>1, <2>3, InMessage
  <2>6. \E x : x = Coming[2].v /\ q = Updated(p, x)
    BY <2>1, <2>3, InMessage
  <2>. QED  BY <2>2, <2>4, <2>5, <2>6
<1>3. n = 2 /\ Coming[1].f = "message" /\ Coming[2].f = "rects" /\ SubSeq(Coming, 1, n)[2] = Coming[2]
  BY <1>2, TwoAhead
<1>4. CASE rQwait(1, 1)
  BY <1>1, <1>4, WaitingFor DEF Comes
<1>5. CASE ~rQwait(1, 1)
  <2>1. q = Updated(p, v)
    <3>1. Len(rQ) \in Nat /\ 2 \in 1..Len(rQ)
      BY <1>2, <1>5, ComingIs DEF rQwait
    <3>. QED  BY <1>2, <1>3, <3>1, ComingIs
  <2>2. Arrived(l) /\ Len(l) = n
    BY <1>2, <1>3, <1>5, ArrivedTwo
  <2>3. /\ Parts \subseteq DOMAIN f /\ f.rects = v /\ f.rect = fb.rect /\ f.left = fb.left
        /\ f.len = fb.len /\ f.tight = fb.tight /\ f.sof = fb.sof /\ f.viewOnly = fb.viewOnly
        /\ f.cont = fb.cont
    BY DEF Placed, Parts
  <2>4. r \in Seq(Wishes(fb.viewOnly)) /\ <<>> \in Seq(Wishes(fb.viewOnly)) /\ Len(r) = 1 /\ r[1].f = "request"
    BY WishesAre, FIs
  <2>. HIDE DEF l, r, v
  <2>5. CASE fb' = g /\ Quiet /\ Return(FALSE, rfb)
    <3>1. /\ Parts \subseteq DOMAIN g /\ g.rects = v /\ g.rect = fb.rect /\ g.left = fb.left
          /\ g.len = fb.len /\ g.tight = fb.tight /\ g.sof = fb.sof /\ g.viewOnly = fb.viewOnly
          /\ g.cont = fb.cont /\ ~Quietly(g)
      <4>. HIDE DEF f
      <4>. QED  BY <2>3 DEF Parts, Quietly
    <3>2. Shift(l) /\ rfb' = rfb /\ Quiet
      BY <1>1, <1>5, <2>5 DEF Return
    <3>3. fb' = g
      BY <2>5
    <3>. HIDE DEF g
    <3>4. Comes(Len(l), Updated(p, g.rects))
      BY <1>1, <1>2, <2>2, <2>4, <3>1, <3>2, <3>3, HeaderRead
    <3>. QED  BY <2>1, <2>2, <3>1, <3>4
  <2>6. CASE v = 0 /\ Finish(f)
    <3>1. /\ Parts \subseteq DOMAIN h /\ h.rects = v /\ h.rect = fb.rect /\ h.left = fb.left
          /\ h.len = fb.len /\ h.tight = fb.tight /\ h.sof = fb.sof /\ h.viewOnly = fb.viewOnly
          /\ h.cont = fb.cont
      <4>. HIDE DEF f
      <4>. QED  BY <2>3 DEF Parts
    <3>2. Shift(l) /\ rfb' = rfb /\ fb' = h /\ (IF fb.cont THEN Quiet ELSE Sends(r))
      <4>1. fb' = h /\ (IF f.cont THEN Quiet ELSE Sends(<<F("request", 1)>>)) /\ rfb' = rfb
        <5>. HIDE DEF f
        <5>. QED  BY <2>6, Zenon DEF Finish, NextMessage, h
      <4>. QED  BY <1>1, <1>5, <2>3, <4>1 DEF r
    <3>. DEFINE m == IF fb.cont THEN <<>> ELSE r
    <3>3. m \in Seq(Wishes(fb.viewOnly)) /\ (fb.cont \/ \E k \in 1..Len(m) : m[k].f = "request")
      <4>1. CASE fb.cont
        BY <2>4, <4>1
      <4>2. CASE ~fb.cont
        <5>1. m = r /\ 1 \in 1..Len(r)
          BY <2>4, <4>2
        <5>. QED  BY <2>4, <5>1
      <4>. QED  BY <4>1, <4>2
    <3>4. Sends(m) \/ (m = <<>> /\ Quiet)
      BY <3>2
    <3>. HIDE DEF h, m
    <3>5. Comes(Len(l), Updated(p, h.rects))
      BY <1>1, <1>2, <2>2, <3>1, <3>2, <3>3, <3>4, HeaderRead
    <3>. QED  BY <2>1, <2>2, <3>1, <3>5
  <2>7. CASE v # 0 /\ fb' = f /\ Quiet /\ rfb' = rfb
    <3>1. ~Quietly(f)
      BY <2>3, <2>7 DEF Quietly
    <3>2. Shift(l) /\ fb' = f
      BY <1>1, <1>5, <2>7
    <3>. HIDE DEF f
    <3>3. Comes(Len(l), Updated(p, f.rects))
      BY <1>1, <1>2, <2>2, <2>3, <2>4, <2>7, <3>1, <3>2, HeaderRead
    <3>. QED  BY <2>1, <2>2, <2>3, <3>3
  <2>. QED  BY <1>1, <1>5, <2>5, <2>6, <2>7
<1>. QED  BY <1>4, <1>5

\* During the pause nothing is read.
LEMMA PausedReads ==
    ASSUME Placed, Paused
    PROVE  Kept /\ Stayed
<1>1. Coming' = Coming
  BY DEF Paused, Stay, Coming
<1>2. UNCHANGED <<rQ, net, srv, peer, rfb, misread, fb, up>>
  BY DEF Paused, Stay
<1>. QED  BY <1>1, <1>2 DEF Kept, Stayed, Placed, Typed

------------------------------------------------------------------------------
(* Streams.                                                                *)

\* What Readable says, one item ahead.
LEMMA AtIs == \A p, s, d : At(p, s, d).p = p /\ At(p, s, d).s = s /\ At(p, s, d).due = d
BY DEF At

LEMMA AheadIs ==
    ASSUME NEW x, NEW n, NEW y
    PROVE  y \in Ahead(x, n) <=>
              \E q \in After(x.p, SubSeq(x.s, 1, n)) :
                 y = At(q, Drop(x.s, n), x.due - Announces(x.p, SubSeq(x.s, 1, n)))
BY Zenon DEF Ahead

\* One item, or the end.
LEMMA ReadableIs ==
    ASSUME NEW home, NEW f, NEW S, NEW d, Readable(home, f, S, d)
    PROVE  /\ S \in Seq(Field) /\ d \in Nat
           /\ \/ Stands(home, f) /\ S = <<>> /\ d = 0
              \/ \E p, q : \E n \in 0..Len(S) :
                    /\ Stands(p, f) /\ p.left \in Nat /\ q \in After(p, SubSeq(S, 1, n))
                    /\ \A g : Stands(q, g) =>
                          Readable(home, g, Drop(S, n), d - Announces(p, SubSeq(S, 1, n)))
<1>1. PICK G : Closed(G, home) /\ \E p : Stands(p, f) /\ At(p, S, d) \in G
  BY DEF Readable
<1>2. PICK p : Stands(p, f) /\ At(p, S, d) \in G
  BY <1>1
<1>. DEFINE x == At(p, S, d)
<1>3. x.p = p /\ x.s = S /\ x.due = d
  BY AtIs
<1>4. x \in G
  BY <1>2
<1>. HIDE DEF x
<1>5. /\ x.p.left \in Nat /\ x.due \in Nat /\ x.s \in Seq(Field)
      /\ x = At(home, <<>>, 0) \/ \E n \in 0..Len(x.s) : Ahead(x, n) \cap G # {}
  BY <1>1, <1>4 DEF Closed
<1>6. CASE x = At(home, <<>>, 0)
  BY <1>2, <1>3, <1>5, <1>6, AtIs
<1>7. CASE \E n \in 0..Len(x.s) : Ahead(x, n) \cap G # {}
  <2>1. PICK n \in 0..Len(x.s) : Ahead(x, n) \cap G # {}
    BY <1>7
  <2>2. PICK y : y \in Ahead(x, n) /\ y \in G
    BY <2>1
  <2>3. PICK q \in After(p, SubSeq(S, 1, n)) :
           y = At(q, Drop(S, n), d - Announces(p, SubSeq(S, 1, n)))
    BY <1>3, <2>2, AheadIs
  <2>4. ASSUME NEW g, Stands(q, g)
        PROVE  Readable(home, g, Drop(S, n), d - Announces(p, SubSeq(S, 1, n)))
    BY <1>1, <2>2, <2>3, <2>4, Zenon DEF Readable
  <2>. QED  BY <1>2, <1>3, <1>5, <2>1, <2>3, <2>4, Zenon
<1>. QED  BY <1>5, <1>6, <1>7

\* The same, from another state that stands where f does.
LEMMA ReadableStands ==
    ASSUME NEW home, NEW f, NEW g, NEW S, NEW d, Readable(home, f, S, d),
           \A p : Stands(p, f) => Stands(p, g)
    PROVE  Readable(home, g, S, d)
BY Zenon DEF Readable

\* At home and with nothing to come all has been read.
LEMMA ReadableAtHome ==
    ASSUME NEW home, home.left = 0, NEW f, Stands(home, f)
    PROVE  Readable(home, f, <<>>, 0)
<1>. DEFINE x == At(home, <<>>, 0)
<1>1. x.p.left \in Nat /\ x.due \in Nat /\ x.s \in Seq(Field)
  <2>1. <<>> \in Seq(Field)
    OBVIOUS
  <2>2. x.p = home /\ x.s = <<>> /\ x.due = 0
    BY AtIs
  <2>. HIDE DEF x
  <2>. QED  BY <2>1, <2>2
<1>2. Closed({x}, home)
  BY <1>1 DEF Closed
<1>. QED  BY <1>2, Zenon DEF Readable

\* What comes behind the stream changes nothing of what is ahead in it.
LEMMA DropAppend ==
    ASSUME NEW S \in Seq(Field), NEW m \in Seq(Field), NEW n \in 0..Len(S)
    PROVE  /\ n \in 0..Len(S \o m) /\ S \o m \in Seq(Field)
           /\ SubSeq(S \o m, 1, n) = SubSeq(S, 1, n)
           /\ Drop(S \o m, n) = Drop(S, n) \o m
<1>1. /\ S \o m \in Seq(Field) /\ Len(S \o m) = Len(S) + Len(m) /\ Len(S) \in Nat /\ Len(m) \in Nat
      /\ \A k \in 1..(Len(S) + Len(m)) : (S \o m)[k] = IF k <= Len(S) THEN S[k] ELSE m[k - Len(S)]
  BY ConcatProperties, LenProperties
<1>2. n \in 0..Len(S \o m)
  BY <1>1
<1>. DEFINE w == S \o m
<1>. HIDE DEF w
<1>3. SubSeq(w, 1, n) = SubSeq(S, 1, n)
  <2>1. /\ Len(SubSeq(w, 1, n)) = n /\ \A k \in 1..n : SubSeq(w, 1, n)[k] = w[k]
        /\ SubSeq(w, 1, n) \in Seq(Field)
    BY <1>1, <1>2 DEF w
  <2>2. /\ Len(SubSeq(S, 1, n)) = n /\ \A k \in 1..n : SubSeq(S, 1, n)[k] = S[k]
        /\ SubSeq(S, 1, n) \in Seq(Field)
    OBVIOUS
  <2>3. \A k \in 1..n : w[k] = S[k]
    BY <1>1 DEF w
  <2>. QED  BY <2>1, <2>2, <2>3, SeqEqual
<1>4. Drop(w, n) = Drop(S, n) \o m
  <2>1. /\ Drop(w, n) \in Seq(Field) /\ Len(Drop(w, n)) = Len(w) - n
        /\ \A k \in 1..(Len(w) - n) : Drop(w, n)[k] = w[n + k]
    BY <1>1, <1>2, DropIs DEF w
  <2>2. /\ Drop(S, n) \in Seq(Field) /\ Len(Drop(S, n)) = Len(S) - n
        /\ \A k \in 1..(Len(S) - n) : Drop(S, n)[k] = S[n + k]
    BY DropIs
  <2>. DEFINE u == Drop(S, n)
  <2>. HIDE DEF u
  <2>3. /\ u \o m \in Seq(Field) /\ Len(u \o m) = Len(u) + Len(m)
        /\ \A k \in 1..(Len(u) + Len(m)) : (u \o m)[k] = IF k <= Len(u) THEN u[k] ELSE m[k - Len(u)]
    BY <2>2, ConcatProperties DEF u
  <2>4. Len(w) = Len(S) + Len(m) /\ Len(u) = Len(S) - n /\ \A k \in 1..(Len(S) - n) : u[k] = S[n + k]
    BY <1>1, <2>2 DEF w, u
  <2>5. ASSUME NEW k \in 1..(Len(S) + Len(m) - n) PROVE w[n + k] = (u \o m)[k]
    <3>1. n + k \in 1..(Len(S) + Len(m)) /\ k \in 1..(Len(u) + Len(m)) /\ n + k \in Int
      BY <1>1, <2>4
    <3>2. w[n + k] = IF n + k <= Len(S) THEN S[n + k] ELSE m[(n + k) - Len(S)]
      BY <1>1, <3>1 DEF w
    <3>3. (u \o m)[k] = IF k <= Len(u) THEN u[k] ELSE m[k - Len(u)]
      BY <2>3, <3>1
    <3>4. CASE n + k <= Len(S)
      <4>1. k <= Len(u) /\ k \in 1..(Len(S) - n)
        BY <1>1, <2>4, <3>4
      <4>. QED  BY <2>4, <3>2, <3>3, <3>4, <4>1
    <3>5. CASE ~(n + k <= Len(S))
      <4>1. ~(k <= Len(u)) /\ (n + k) - Len(S) = k - Len(u)
        BY <1>1, <2>4, <3>5
      <4>. QED  BY <3>2, <3>3, <3>5, <4>1
    <3>. QED  BY <3>4, <3>5
  <2>6. Len(u \o m) = Len(S) + Len(m) - n /\ Len(Drop(w, n)) = Len(S) + Len(m) - n
    BY <1>1, <2>1, <2>3, <2>4
  <2>7. \A k \in 1..Len(u \o m) : Drop(w, n)[k] = (u \o m)[k]
    BY <2>1, <2>4, <2>5, <2>6
  <2>8. Drop(w, n) = u \o m
    BY <2>1, <2>3, <2>6, <2>7, SeqEqual
  <2>. QED  BY <2>8 DEF u
<1>. QED  BY <1>1, <1>2, <1>3, <1>4 DEF w

\* What is said later does not change what can be read now.
LEMMA AheadAppend ==
    ASSUME NEW x, x.s \in Seq(Field), x.due \in Nat, NEW n \in 0..Len(x.s), NEW m \in Seq(Field), NEW e \in Nat,
           NEW y, y \in Ahead(x, n), y.due \in Nat
    PROVE  At(y.p, y.s \o m, y.due + e) \in Ahead(At(x.p, x.s \o m, x.due + e), n)
<1>1. PICK q \in After(x.p, SubSeq(x.s, 1, n)) :
         y = At(q, Drop(x.s, n), x.due - Announces(x.p, SubSeq(x.s, 1, n)))
  BY AheadIs
<1>. DEFINE z == At(x.p, x.s \o m, x.due + e)
            a == Announces(x.p, SubSeq(x.s, 1, n))
            w == At(y.p, y.s \o m, y.due + e)
<1>2. z.p = x.p /\ z.s = x.s \o m /\ z.due = x.due + e
  <2>. DEFINE u == x.s \o m
             v == x.due + e
  <2>. HIDE DEF u, v
  <2>1. z = At(x.p, u, v)
    BY Zenon DEF u, v
  <2>. HIDE DEF z
  <2>2. z.p = x.p /\ z.s = u /\ z.due = v
    BY <2>1, AtIs
  <2>. QED  BY <2>2 DEF u, v
<1>3. SubSeq(z.s, 1, n) = SubSeq(x.s, 1, n) /\ Drop(z.s, n) = Drop(x.s, n) \o m
  <2>1. SubSeq(x.s \o m, 1, n) = SubSeq(x.s, 1, n) /\ Drop(x.s \o m, n) = Drop(x.s, n) \o m
    BY DropAppend
  <2>. QED  BY <1>2, <2>1, Zenon
<1>4. a \in Nat
  BY DEF Announces
<1>5. y.p = q /\ y.s = Drop(x.s, n) /\ y.due = x.due - a
  BY <1>1, AtIs
<1>. HIDE DEF z, a
<1>6. y.due + e = z.due - a
  BY <1>2, <1>4, <1>5
<1>7. w = At(q, Drop(z.s, n), z.due - Announces(z.p, SubSeq(z.s, 1, n)))
  BY <1>2, <1>3, <1>5, <1>6, Zenon DEF a, w
<1>8. q \in After(z.p, SubSeq(z.s, 1, n))
  BY <1>1, <1>2, <1>3, Zenon
<1>9. w \in Ahead(z, n)
  BY <1>7, <1>8, AheadIs, Zenon
<1>. QED  BY <1>9 DEF z, w

\* A message that can be read from home can be read behind a stream that ends there.
LEMMA ReadableAppends ==
    ASSUME NEW home, NEW f, NEW S, NEW d, Readable(home, f, S, d),
           NEW m \in Seq(Field), NEW e \in Nat, Legible(m, e, home)
    PROVE  Readable(home, f, S \o m, d + e)
<1>1. PICK G : Closed(G, home) /\ \E p : Stands(p, f) /\ At(p, S, d) \in G
  BY DEF Readable
<1>2. PICK p : Stands(p, f) /\ At(p, S, d) \in G
  BY <1>1
<1>. DEFINE R == Readings(home, m, e)
            Moved(x) == At(x.p, x.s \o m, x.due + e)
            H == {Moved(x) : x \in G} \cup R
<1>3. At(home, m, e) \in R /\ Closed(R, home)
  BY Zenon DEF Legible
<1>. HIDE DEF R
<1>4. ASSUME NEW x \in G
      PROVE  /\ x.p.left \in Nat /\ x.due \in Nat /\ x.s \in Seq(Field)
             /\ x = At(home, <<>>, 0) \/ \E n \in 0..Len(x.s) : Ahead(x, n) \cap G # {}
  BY <1>1 DEF Closed
<1>5. ASSUME NEW x \in R
      PROVE  /\ x.p.left \in Nat /\ x.due \in Nat /\ x.s \in Seq(Field)
             /\ x = At(home, <<>>, 0) \/ \E n \in 0..Len(x.s) : Ahead(x, n) \cap H # {}
  <2>1. /\ x.p.left \in Nat /\ x.due \in Nat /\ x.s \in Seq(Field)
        /\ x = At(home, <<>>, 0) \/ \E n \in 0..Len(x.s) : Ahead(x, n) \cap R # {}
    BY <1>3 DEF Closed
  <2>2. R \subseteq H
    OBVIOUS
  <2>. HIDE DEF H
  <2>. QED  BY <2>1, <2>2
<1>6. ASSUME NEW x \in G
      PROVE  LET z == Moved(x) IN
             /\ z.p.left \in Nat /\ z.due \in Nat /\ z.s \in Seq(Field)
             /\ z = At(home, <<>>, 0) \/ \E n \in 0..Len(z.s) : Ahead(z, n) \cap H # {}
  <2>. DEFINE z == Moved(x)
  <2>1. z.p = x.p /\ z.s = x.s \o m /\ z.due = x.due + e
    <3>. DEFINE u == x.s \o m
               v == x.due + e
    <3>. HIDE DEF u, v
    <3>1. z = At(x.p, u, v)
      BY Zenon DEF u, v
    <3>. HIDE DEF z
    <3>2. z.p = x.p /\ z.s = u /\ z.due = v
      BY <3>1, AtIs
    <3>. QED  BY <3>2 DEF u, v
  <2>2. x.p.left \in Nat /\ x.due \in Nat /\ x.s \in Seq(Field)
    BY <1>4
  <2>3. x.s \o m \in Seq(Field) /\ x.due + e \in Nat
    BY <2>2, ConcatProperties
  <2>4. CASE x = At(home, <<>>, 0)
    <3>1. x.p = home /\ x.s = <<>> /\ x.due = 0
      BY <2>4, AtIs
    <3>2. <<>> \o m = m /\ 0 + e = e
      BY ConcatEmptySeq
    <3>3. z = At(home, m, e)
      BY <3>1, <3>2
    <3>4. z \in R
      BY <1>3, <3>3
    <3>. HIDE DEF z, H
    <3>. QED  BY <1>5, <3>4 DEF z
  <2>5. ASSUME NEW n \in 0..Len(x.s), Ahead(x, n) \cap G # {}
        PROVE  n \in 0..Len(z.s) /\ Ahead(z, n) \cap H # {}
    <3>1. PICK y : y \in Ahead(x, n) /\ y \in G
      BY <2>5
    <3>2. Moved(y) \in H
      BY <3>1
    <3>3. y.due \in Nat
      BY <1>4, <3>1
    <3>4. Moved(y) \in Ahead(z, n)
      BY <2>2, <3>1, <3>3, AheadAppend, Zenon
    <3>5. n \in 0..Len(x.s \o m)
      BY <2>2, DropAppend
    <3>6. n \in 0..Len(z.s)
      BY <2>1, <3>5, Zenon
    <3>. HIDE DEF z, H
    <3>. QED  BY <3>2, <3>4, <3>6
  <2>6. z.p.left \in Nat /\ z.due \in Nat /\ z.s \in Seq(Field)
    BY <2>1, <2>2, <2>3, Zenon
  <2>. HIDE DEF z, H
  <2>7. z = At(home, <<>>, 0) \/ \E n \in 0..Len(z.s) : Ahead(z, n) \cap H # {}
    <3>1. CASE x = At(home, <<>>, 0)
      BY <2>4, <3>1 DEF z
    <3>2. CASE \E n \in 0..Len(x.s) : Ahead(x, n) \cap G # {}
      BY <2>5, <3>2
    <3>. QED  BY <1>4, <3>1, <3>2
  <2>. QED  BY <2>6, <2>7 DEF z
<1>7. ASSUME NEW x \in H
      PROVE  /\ x.p.left \in Nat /\ x.due \in Nat /\ x.s \in Seq(Field)
             /\ x = At(home, <<>>, 0) \/ \E n \in 0..Len(x.s) : Ahead(x, n) \cap H # {}
  <2>1. CASE x \in R
    <3>. HIDE DEF H
    <3>. QED  BY <1>5, <2>1
  <2>2. CASE x \notin R
    <3>1. PICK y \in G : x = Moved(y)
      BY <2>2
    <3>. HIDE DEF H, Moved
    <3>. QED  BY <1>6, <3>1
  <2>. QED  BY <2>1, <2>2
<1>8. Closed(H, home)
  <2>. HIDE DEF H
  <2>. QED  BY <1>7 DEF Closed
<1>9. At(p, S \o m, d + e) \in H
  <2>1. Moved(At(p, S, d)) \in H
    BY <1>2
  <2>2. Moved(At(p, S, d)) = At(p, S \o m, d + e)
    BY AtIs
  <2>. QED  BY <2>1, <2>2, Zenon
<1>. HIDE DEF H
<1>. QED  BY <1>2, <1>8, <1>9, Zenon DEF Readable

------------------------------------------------------------------------------
(* A call of a handler.                                                    *)

\* The handlers together.
LEMMA normalMsgComes ==
    ASSUME Placed, NEW p, NEW n, NEW q, Follow(p, n, q), normalMsg
    PROVE  Comes(n, q)
<1>1. CASE Paused
  BY <1>1, PausedReads DEF Comes
<1>2. CASE \/ framebufferUpdate \/ rectHeader
           \/ handleLastRect \/ handleFlags \/ handleDesktopSize \/ handleExtendedDesktopSize
           \/ handleCursor \/ handleVMwareCursor \/ handleDesktopName \/ handleLedEvent
  BY <1>2, framebufferUpdateReads, rectHeaderReads, handleLastRectReads, handleFlagsReads,
     handleDesktopSizeReads, handleExtendedDesktopSizeReads, handleCursorReads,
     handleVMwareCursorReads, handleDesktopNameReads, handleLedEventReads
<1>3. CASE \/ rawDecode \/ copyRectDecode \/ rreDecode \/ hextileDecode \/ zlibDecode \/ zrleDecode
           \/ tightDecode \/ jpegDecode \/ h264Decode
  BY <1>3, rawDecodeReads, copyRectDecodeReads, rreDecodeReads, hextileDecodeReads, zlibDecodeReads,
     zrleDecodeReads, tightDecodeReads, jpegDecodeReads, h264DecodeReads
<1>4. CASE \/ handleBell \/ handleServerCutText \/ handleEndOfContinuousUpdates
           \/ handleServerFence \/ handleXvp \/ unexpectedMessage
  BY <1>4, handleBellReads, handleServerCutTextReads, handleEndOfContinuousUpdatesReads,
     handleServerFenceReads, handleXvpReads, unexpectedMessageReads
<1>. QED  BY <1>1, <1>2, <1>3, <1>4 DEF normalMsg

\* Every message begins with a field.
LEMMA MessageBegins ==
    ASSUME NEW p, p.rects = 0, NEW h, NEW q, q \in After(p, h)
    PROVE  h # <<>>
<1>1. q \in AfterMessage(p, h)
  BY Zenon DEF After
<1>. DEFINE x == [p EXCEPT !.rects = h[2].v]
<1>2. AfterMessage(p, h) =
         Item(Two(h, "message", "rects") /\ h[1].v = 0, x)
         \cup Item(CutText(h, p.view), p)
         \cup Item(Three(h, "message", "fence", "fenceData") /\ h[1].v = 248, p)
         \cup Item(Two(h, "message", "xvp") /\ h[1].v = 250, p)
         \cup Item(One(h, "message") /\ h[1].v \notin {0, 3, 248, 250}, p)
  BY Zenon DEF AfterMessage
<1>. HIDE DEF x
<1>3. \/ Two(h, "message", "rects") \/ CutText(h, p.view)
      \/ Three(h, "message", "fence", "fenceData") \/ Two(h, "message", "xvp") \/ One(h, "message")
  BY <1>1, <1>2, SMT DEF Item
<1>4. Len(<<>>) = 0
  OBVIOUS
<1>. QED  BY <1>3, <1>4, SMT DEF One, Two, Three, CutText

\* At home nothing is handled before it has come.
LEMMA HomeWaits ==
    ASSUME Placed, fb.rects = 0, Coming = <<>>, normalMsg
    PROVE  Paused
<1>1. rQ = <<>>
  <2>1. Len(rQ) \in Nat /\ Len(net) \in Nat /\ Len(rQ) + Len(net) = 0
    BY ComingIs, EmptyIs DEF Placed
  <2>2. Len(rQ) = 0
    BY <2>1
  <2>. QED  BY <2>2, EmptyIs DEF Placed, Typed
<1>. USE <1>1 DEF Message, Rect
<1>2. CASE framebufferUpdate \/ rectHeader
  BY <1>2 DEF framebufferUpdate, rectHeader
<1>3. CASE \/ handleLastRect \/ handleFlags \/ handleDesktopSize \/ handleExtendedDesktopSize
           \/ handleCursor \/ handleVMwareCursor \/ handleDesktopName \/ handleLedEvent
  BY <1>3 DEF handleLastRect, handleFlags, handleDesktopSize, handleExtendedDesktopSize,
              handleCursor, handleVMwareCursor, handleDesktopName, handleLedEvent
<1>4. CASE \/ rawDecode \/ copyRectDecode \/ rreDecode \/ hextileDecode \/ zlibDecode \/ zrleDecode
           \/ jpegDecode \/ h264Decode
  BY <1>4 DEF rawDecode, copyRectDecode, rreDecode, hextileDecode, zlibDecode, zrleDecode,
              jpegDecode, h264Decode
<1>5. CASE tightDecode
  BY <1>5 DEF tightDecode, tightControl, tightFill, tightImage, tightBasic, tightCopyFilter,
              tightPaletteFilter, tightGradientFilter, TightStep
<1>6. CASE \/ handleBell \/ handleServerCutText \/ handleEndOfContinuousUpdates
           \/ handleServerFence \/ handleXvp \/ unexpectedMessage
  BY <1>6 DEF handleBell, handleServerCutText, handleEndOfContinuousUpdates,
              handleServerFence, handleXvp, unexpectedMessage
<1>. QED  BY <1>2, <1>3, <1>4, <1>5, <1>6 DEF normalMsg

\* What a client at rest has of the server: an update is due, or asked for, or they
\* come unasked; or an update is being read.
Requested(d) == \/ d > 0 \/ peer.asked \/ peer.cont \/ Pending("request") \/ Pending("enable")
                \/ ~Quietly(fb)

\* What a handler leaves of that, when d updates were due and then e are.
Onward(d, e) ==
    rfb'.st = "connected" =>
       /\ fb'.cont => fb.cont \/ Pending("enable")'
       /\ Quietly(fb') => \/ Pending("request")' \/ fb'.cont
                          \/ Quietly(fb) /\ d = e

\* The members of home.
LEMMA HomeIs == \A view : /\ Home(view).rects = 0 /\ Home(view).rect = NoRect /\ Home(view).left = 0
                          /\ Home(view).sof = FALSE /\ Home(view).view = view
BY DEF Home

\* When the stream can be read, a handler takes it for what it is, and behind it the
\* stream can still be read.
LEMMA normalMsgReads ==
    ASSUME Placed, normalMsg, NEW view, NEW d, Readable(Home(view), fb, Coming, d)
    PROVE  /\ Kept
           /\ Ended \/ \E e \in Nat : Readable(Home(view), fb', Coming', e) /\ Onward(d, e)
<1>. DEFINE home == Home(view)
<1>1. d \in Nat /\ home.rects = 0
  BY ReadableIs, HomeIs
<1>. HIDE DEF home
<1>2. Readable(home, fb, Coming, d)
  BY DEF home
<1>3. ASSUME Kept, Stayed
      PROVE  \E e \in Nat : Readable(home, fb', Coming', e) /\ Onward(d, e)
  <2>1. Readable(home, fb', Coming', d)
    BY <1>3, <1>2, ReadableStands DEF Stayed
  <2>2. fb'.cont = fb.cont /\ (Quietly(fb') => Quietly(fb))
    BY <1>3 DEF Stayed, Quietly
  <2>3. Onward(d, d)
    BY <2>2 DEF Onward
  <2>. QED  BY <1>1, <2>1, <2>3
<1>4. CASE Stands(home, fb) /\ Coming = <<>> /\ d = 0
  <2>1. fb.rects = 0
    BY <1>1, <1>4 DEF Stands
  <2>2. Kept /\ Stayed
    BY <1>4, <2>1, HomeWaits, PausedReads
  <2>. QED  BY <1>3, <2>2 DEF home
<1>5. ASSUME NEW p, NEW q, NEW n \in 0..Len(Coming),
             Stands(p, fb), p.left \in Nat, q \in After(p, SubSeq(Coming, 1, n)),
             \A g : Stands(q, g) =>
                Readable(home, g, Drop(Coming, n), d - Announces(p, SubSeq(Coming, 1, n)))
      PROVE  /\ Kept
             /\ Ended \/ \E e \in Nat : Readable(home, fb', Coming', e) /\ Onward(d, e)
  <2>. DEFINE h == SubSeq(Coming, 1, n)
              e == d - Announces(p, h)
  <2>1. Comes(n, q)
    BY <1>5, normalMsgComes DEF Follow
  <2>2. CASE Stayed
    BY <1>3, <2>1, <2>2 DEF Comes
  <2>3. CASE Gone(n, q)
    <3>1. Coming' = Drop(Coming, n) /\ Stands(q, fb')
      BY <2>3 DEF Gone
    <3>. HIDE DEF h, e
    <3>2. Readable(home, fb', Coming', e)
      BY <1>5, <3>1, Zenon DEF h, e
    <3>3. e \in Nat
      BY <3>2, ReadableIs
    <3>4. ASSUME Quietly(fb), Coming[1].v # 0 PROVE d = e
      <4>1. p.rects = 0
        BY <1>5, <3>4 DEF Stands, Quietly
      <4>2. h # <<>>
        BY <1>5, <4>1, MessageBegins DEF h
      <4>3. Coming \in Seq(Field)
        BY ComingIs DEF Placed
      <4>4. h[1] = Coming[1]
        BY <1>5, <4>2, <4>3, HeadIs DEF h
      <4>5. Announces(p, h) = 0
        BY <3>4, <4>4 DEF Announces
      <4>. QED  BY <1>1, <4>5 DEF e
    <3>5. Onward(d, e)
      BY <2>3, <3>4 DEF Gone, Onward
    <3>. QED  BY <2>1, <3>2, <3>3, <3>5 DEF Comes
  <2>. QED  BY <2>1, <2>2, <2>3 DEF Comes
<1>. QED  BY <1>2, <1>4, <1>5, ReadableIs DEF home

\* Nothing is due in an empty stream between two messages.
LEMMA NothingDue ==
    ASSUME NEW home, NEW f, f.rects = 0, NEW d, Readable(home, f, <<>>, d)
    PROVE  d = 0
<1>1. ASSUME NEW p, NEW q, NEW n \in 0..Len(<<>>),
             Stands(p, f), q \in After(p, SubSeq(<<>>, 1, n))
      PROVE  FALSE
  <2>1. SubSeq(<<>>, 1, n) # <<>> /\ n = 0
    <3>1. p.rects = 0
      BY <1>1 DEF Stands
    <3>2. SubSeq(<<>>, 1, n) # <<>>
      BY <1>1, <3>1, MessageBegins
    <3>. QED  BY <3>2
  <2>2. <<>> \in Seq(Field) /\ n \in 0..Len(<<>>)
    OBVIOUS
  <2>. QED  BY <2>1, <2>2, HeadIs
<1>. QED  BY <1>1, ReadableIs

------------------------------------------------------------------------------
(* The server's answers.                                                   *)

\* The server says fields, and never greets a second time.
LEMMA RepliesSay ==
    ASSUME NEW m, NEW s, NEW t \in Replies(m, s)
    PROVE  t.say \in Seq(Field)
<1>1. CASE m.f = "id"
  BY <1>1, IdIsAnswered DEF Says
<1>2. CASE m.f = "version" /\ m.v = 33
  <2>1. "scheme" \in Said
    BY DEF Said
  <2>. QED  BY <1>2, <2>1, Version33IsAnswered, RefusalsAre DEF Says
<1>3. CASE m.f = "version" /\ m.v # 33
  <2>1. "types" \in Said
    BY DEF Said
  <2>. QED  BY <1>3, <2>1, VersionIsAnswered, RefusalsAre DEF Says
<1>4. CASE m.f = "type"
  BY <1>4, TypeIsAnswered DEF Says
<1>5. CASE m.f = "vencrypt"
  BY <1>5, VeNCryptIsAnswered
<1>6. CASE m.f = "tunnel"
  BY <1>6, TunnelIsAnswered DEF Says
<1>7. CASE m.f = "auth"
  BY <1>7, AuthIsAnswered DEF Says
<1>8. CASE m.f = "xvp"
  BY <1>8, XvpIsAnswered DEF Says
<1>9. CASE m.f = "response"
  BY <1>9, ResponseIsAnswered
<1>10. CASE m.f = "init"
  BY <1>10, InitIsAnswered
<1>11. CASE m.f \notin {"id", "version", "type", "vencrypt", "tunnel", "auth", "xvp", "response", "init"}
  BY <1>11 DEF Replies
<1>. QED  BY <1>1, <1>2, <1>3, <1>4, <1>5, <1>6, <1>7, <1>8, <1>9, <1>10, <1>11

LEMMA BeginNeverStarts ==
    ASSUME NEW t, NEW v
    PROVE  /\ \A b \in TightAuths(v) : b.at # "start"
           /\ \A b \in Begin(t, v) : b.at # "start"
<1>1. \A b \in TightAuths(v) : b.at # "start"
  BY TightAuthsAre
<1>2. ASSUME NEW b \in Begin(t, v) PROVE b.at # "start"
  <2>1. CASE t \in {sec.None, sec.Plain, sec.UnixLogon, sec.XVP, sec.VNCAuth, sec.MSLogonII, sec.VeNCrypt, sec.ARD}
    BY <2>1, BeginIs
  <2>2. CASE t = sec.Tight
    BY <1>1, <2>2, BeginIs
  <2>3. CASE t \notin {sec.None, sec.VNCAuth, sec.ARD, sec.MSLogonII, sec.Plain, sec.UnixLogon,
                      sec.XVP, sec.VeNCrypt, sec.Tight}
    BY <2>3 DEF Begin
  <2>. QED  BY <2>1, <2>2, <2>3
<1>. QED  BY <1>1, <1>2

\* A server that has begun does not begin again.
LEMMA NeverStarts ==
    ASSUME NEW m, NEW s, NEW t \in Replies(m, s)
    PROVE  t.srv.at # "start"
<1>1. ASSUME NEW b, NEW v, b \in TightAuths(v) \/ \E x : b \in Begin(x, v) PROVE b.at # "start"
  BY <1>1, BeginNeverStarts
<1>2. CASE m.f = "id"
  BY <1>2, IdIsAnswered DEF Says
<1>3. CASE m.f = "version" /\ m.v = 33
  <2>1. "scheme" \in Said
    BY DEF Said
  <2>2. CASE t \in Refusals("scheme", 33)
    BY <2>1, <2>2, RefusalsAre
  <2>3. CASE t \notin Refusals("scheme", 33)
    <3>1. PICK x \in Nat \ {0} : \E b \in Begin(x, 33) :
             Says(t, <<F("scheme", x)>> \o b.say, b.at, 33, x = sec.Tight)
      BY <1>3, <2>3, Version33IsAnswered
    <3>2. PICK b \in Begin(x, 33) : Says(t, <<F("scheme", x)>> \o b.say, b.at, 33, x = sec.Tight)
      BY <3>1
    <3>. QED  BY <1>1, <3>2 DEF Says
  <2>. QED  BY <2>2, <2>3
<1>4. CASE m.f = "version" /\ m.v # 33
  <2>1. "types" \in Said
    BY DEF Said
  <2>. QED  BY <1>4, <2>1, VersionIsAnswered, RefusalsAre
<1>5. CASE m.f = "type"
  <2>1. PICK b \in Begin(m.v, s.version) : t.srv.at = b.at
    BY <1>5, TypeIsAnswered DEF Says
  <2>. QED  BY <1>1, <2>1
<1>6. CASE m.f = "vencrypt"
  BY <1>6, VeNCryptIsAnswered
<1>7. CASE m.f = "tunnel"
  <2>1. PICK b \in TightAuths(s.version) : Says(t, b.say, b.at, s.version, TRUE)
    BY <1>7, TunnelIsAnswered
  <2>. QED  BY <1>1, <2>1 DEF Says
<1>8. CASE m.f = "auth"
  <2>1. CASE m.v = 1
    BY <1>8, <2>1, AuthIsAnswered DEF Says
  <2>2. CASE m.v # 1
    <3>1. PICK b \in Begin(m.v, s.version) : Says(t, b.say, b.at, s.version, TRUE)
      BY <1>8, <2>2, AuthIsAnswered
    <3>. QED  BY <1>1, <3>1 DEF Says
  <2>. QED  BY <2>1, <2>2
<1>9. CASE m.f = "xvp"
  <2>1. PICK b \in Begin(sec.VNCAuth, s.version) : t.srv.at = b.at
    BY <1>9, XvpIsAnswered DEF Says
  <2>. QED  BY <1>1, <2>1
<1>10. CASE m.f = "response"
  BY <1>10, ResponseIsAnswered
<1>11. CASE m.f = "init"
  BY <1>11, InitIsAnswered
<1>12. CASE m.f \notin {"id", "version", "type", "vencrypt", "tunnel", "auth", "xvp", "response", "init"}
  BY <1>12 DEF Replies
<1>. QED  BY <1>2, <1>3, <1>4, <1>5, <1>6, <1>7, <1>8, <1>9, <1>10, <1>11, <1>12

------------------------------------------------------------------------------
(* The invariant of the stream, and the steps.                             *)

\* A member of peer is what the server knows of the client.
Knowing == {"asked", "cont", "clip", "ready", "said"} \subseteq DOMAIN peer

\* Until the handshake is over nothing of a message has been read or said.
Beginning ==
    /\ Negotiated /\ Counting
    /\ Stands(Home(fb.viewOnly), fb) /\ ~fb.cont /\ ~peer.ready /\ ~peer.clip

\* Afterwards the stream is read to its end from where the client stands in
\* it, and some request is on its way or has an answer that is.
Reading ==
    /\ srv.at = "normal" /\ up \in Seq(Wishes(fb.viewOnly))
    /\ fb.viewOnly => ~peer.clip
    /\ \E d \in Nat : /\ Readable(Home(fb.viewOnly), fb, Coming, d)
                      /\ rfb.st = "connected" => Requested(d)
    /\ rfb.st = "connected" /\ fb.cont => peer.cont \/ Pending("enable")

Following ==
    /\ Typed /\ Parts \subseteq DOMAIN fb /\ fb.viewOnly \in BOOLEAN /\ Knowing
    /\ rfb.st = "connecting" => Beginning
    /\ rfb.st # "connecting" => Reading

\* A failed connection is read on only by a loop that has not ended.
Alive == rfb.st # "over" \/ running = "loop"
StreamIInv ==
    /\ ~misread /\ Members \cup {"asked", "creds", "resume"} \subseteq DOMAIN rfb
    /\ Alive => Following

\* What the network holds grows, moves to the queue, or stays.
LEMMA ComingGrows ==
    ASSUME Typed, NEW m \in Seq(Field), net' = net \o m, rQ' = rQ
    PROVE  Coming' = Coming \o m /\ net' \in Seq(Field)
<1>1. rQ \in Seq(Field) /\ net \in Seq(Field)
  BY DEF Typed
<1>2. rQ \o (net \o m) = (rQ \o net) \o m
  BY <1>1, SMT
<1>3. net \o m \in Seq(Field)
  BY <1>1, SMT
<1>. QED  BY <1>2, <1>3 DEF Coming

\* Moving fields from the network to the queue leaves the stream as it is.
LEMMA ThreeParts ==
    \A a \in Seq(Field) : \A b \in Seq(Field) : \A c \in Seq(Field) : (a \o b) \o c = a \o (b \o c)
BY ConcatAssociative

LEMMA ComingMoves ==
    ASSUME Typed, NEW n \in 1..Len(net), rQ' = rQ \o SubSeq(net, 1, n), net' = Drop(net, n)
    PROVE  Coming' = Coming /\ rQ' \in Seq(Field) /\ net' \in Seq(Field) /\ rQ' # <<>>
<1>1. rQ \in Seq(Field) /\ net \in Seq(Field)
  BY DEF Typed
<1>2. SubSeq(net, 1, n) \in Seq(Field) /\ Len(SubSeq(net, 1, n)) = n
  BY <1>1, SMT
<1>3. SubSeq(net, n + 1, Len(net)) \in Seq(Field)
  BY <1>1, SMT
<1>4. SubSeq(net, 1, n) \o SubSeq(net, n + 1, Len(net)) = net
  BY <1>1, SMT
<1>5. (rQ \o SubSeq(net, 1, n)) \o SubSeq(net, n + 1, Len(net)) =
         rQ \o (SubSeq(net, 1, n) \o SubSeq(net, n + 1, Len(net)))
  BY <1>1, <1>2, <1>3, ThreeParts, Zenon
<1>6. rQ \o SubSeq(net, 1, n) \in Seq(Field) /\ Len(rQ \o SubSeq(net, 1, n)) = Len(rQ) + n
  BY <1>1, <1>2, SMT
<1>7. Len(rQ) + n # 0
  BY <1>1, SMT
<1>8. rQ \o SubSeq(net, 1, n) # <<>>
  BY <1>6, <1>7, EmptyIs, SMT
<1>. QED  BY <1>3, <1>4, <1>5, <1>6, <1>8 DEF Coming, Drop

\* What does not touch the stream does not disturb its reading.
LEMMA StillReading ==
    ASSUME Reading, Coming' = Coming, UNCHANGED <<up, srv, peer>>, rfb'.st = rfb.st,
           fb'.viewOnly = fb.viewOnly, fb'.cont = fb.cont,
           \A p : Stands(p, fb) => Stands(p, fb'), Quietly(fb') => Quietly(fb)
    PROVE  Reading'
<1>1. PICK d \in Nat : Readable(Home(fb.viewOnly), fb, Coming, d) /\ (rfb.st = "connected" => Requested(d))
  BY DEF Reading
<1>2. Readable(Home(fb.viewOnly), fb', Coming, d)
  BY <1>1, ReadableStands
<1>3. Readable(Home(fb.viewOnly), fb, Coming, d)'
  BY <1>2
<1>4. rfb'.st = "connected" => Requested(d)'
  BY <1>1 DEF Requested, Pending
<1>5. /\ srv'.at = "normal" /\ up' \in Seq(Wishes(fb'.viewOnly))
      /\ fb'.viewOnly => ~peer'.clip
      /\ rfb'.st = "connected" /\ fb'.cont => peer'.cont \/ Pending("enable")'
  BY DEF Reading, Pending
<1>. QED  BY <1>3, <1>4, <1>5 DEF Reading

\* The server greets once, when nothing has been said.
LEMMA ServerGreetsKeeps ==
    ASSUME Following, ServerGreets, UNCHANGED <<fb, peer>>
    PROVE  Following'
<1>1. srv.at = "start" /\ up' = up /\ UNCHANGED <<rQ, rfb, running>>
  BY DEF ServerGreets
<1>2. PICK v \in Versions : Takes(Turn(Greeting(v), v, FALSE))
  BY DEF ServerGreets
<1>3. rfb.st = "connecting" /\ Beginning
  BY <1>1, Zenon DEF Following, Reading
<1>4. Typed /\ Negotiated /\ Counting
  BY <1>3 DEF Following, Beginning
<1>5. rfb.init = "ProtocolVersion" /\ up = <<>>
  BY <1>1, <1>4 DEF Negotiated
<1>6. Coming = <<>>
  <2>1. Agree(rfb, srv, Coming, <<>>)
    BY <1>4, <1>5 DEF Negotiated
  <2>2. Fits(rfb, srv, Coming)
    BY <2>1 DEF Agree
  <2>3. VersionFollows(rfb, srv, Coming)
    BY <1>5, <2>2 DEF Fits
  <2>. QED  BY <1>1, <2>3 DEF VersionFollows
<1>7. /\ Greeting(v).say \in Seq(Field) /\ Len(Greeting(v).say) = 1
      /\ Greeting(v).say[1].f = "version" /\ Greeting(v).say[1].v = v
  <2>1. /\ Greeting(v).say \in Seq(Field) /\ Len(Greeting(v).say) = 1
        /\ Greeting(v).say[1] = F("version", v)
    BY GreetingIs
  <2>2. F("version", v).f = "version" /\ F("version", v).v = v
    BY FIs
  <2>. QED  BY <2>1, <2>2, Zenon
<1>8. Greeting(v).at = IF v = 0 THEN "id" ELSE "version"
  BY DEF Greeting
<1>9. /\ net' = net \o Greeting(v).say
      /\ srv'.at = Greeting(v).at /\ srv'.tight = FALSE
  <2>1. Says(Turn(Greeting(v), v, FALSE), Greeting(v).say, Greeting(v).at, v, FALSE)
    BY <1>7, TurnIs, Zenon
  <2>2. net' = net \o Turn(Greeting(v), v, FALSE).say /\ srv' = Turn(Greeting(v), v, FALSE).srv
    BY <1>2, Zenon DEF Takes
  <2>. QED  BY <2>1, <2>2, Zenon DEF Says
<1>10. Coming' = Coming \o Greeting(v).say /\ net' \in Seq(Field)
  BY <1>1, <1>4, <1>7, <1>9, ComingGrows, Zenon
<1>11. Coming' = Greeting(v).say
  BY <1>6, <1>7, <1>10
<1>12. VersionFollows(rfb', srv', Coming')
  BY <1>7, <1>8, <1>9, <1>11 DEF VersionFollows
<1>13. Agree(rfb', srv', Coming', up')
  BY <1>1, <1>5, <1>12 DEF Agree, Fits
<1>14. srv'.at # "start"
  BY <1>8, <1>9
<1>15. Negotiated'
  BY <1>1, <1>4, <1>5, <1>13, <1>14 DEF Negotiated
<1>16. Beginning'
  BY <1>1, <1>3, <1>15 DEF Beginning, Counting
<1>17. Typed'
  BY <1>1, <1>4, <1>10 DEF Typed
<1>. QED  BY <1>1, <1>3, <1>16, <1>17 DEF Following, Knowing

\* It answers one message of the client's, and what it says then follows.
LEMMA ServerReadsKeeps ==
    ASSUME Following, ServerReads, UNCHANGED <<fb, peer>>
    PROVE  Following'
<1>1. up # <<>> /\ srv.at # "normal" /\ up' = Tail(up) /\ UNCHANGED <<rQ, rfb, running>>
  BY DEF ServerReads
<1>2. PICK t \in Replies(Head(up), srv) : Takes(t)
  BY DEF ServerReads
<1>3. rfb.st = "connecting" /\ Beginning
  BY <1>1, Zenon DEF Following, Reading
<1>4. Typed /\ Negotiated /\ Counting
  BY <1>3 DEF Following, Beginning
<1>5. Agree(rfb, srv, Coming, up)
  BY <1>4 DEF Negotiated
<1>6. Coming = <<>> /\ Agree(rfb, t.srv, t.say, Tail(up))
  BY <1>1, <1>5, AgreeAnswers, Zenon
<1>7. t.say \in Seq(Field) /\ t.srv.at # "start"
  BY RepliesSay, NeverStarts, Zenon
<1>8. net' = net \o t.say /\ srv' = t.srv
  BY <1>2, Zenon DEF Takes
<1>9. Coming' = Coming \o t.say /\ net' \in Seq(Field)
  BY <1>1, <1>4, <1>7, <1>8, ComingGrows, Zenon
<1>10. Coming' = t.say
  BY <1>6, <1>7, <1>9
<1>11. Agree(rfb', srv', Coming', up')
  BY <1>1, <1>6, <1>8, <1>10
<1>12. Negotiated'
  BY <1>1, <1>4, <1>7, <1>8, <1>11 DEF Negotiated
<1>13. Beginning'
  BY <1>1, <1>3, <1>12 DEF Beginning, Counting
<1>14. Typed'
  BY <1>1, <1>4, <1>9 DEF Typed
<1>. QED  BY <1>1, <1>3, <1>13, <1>14 DEF Following, Knowing

\* What is delivered was coming.
LEMMA DeliverKeeps ==
    ASSUME Following, Deliver, UNCHANGED <<fb, peer>>
    PROVE  Following'
<1>1. running = "no" /\ UNCHANGED <<up, srv, rfb>> /\ running' \in {"no", "loop"}
  BY DEF Deliver
<1>2. PICK n \in 1..Len(net) : rQ' = rQ \o SubSeq(net, 1, n) /\ net' = Drop(net, n)
  BY DEF Deliver
<1>3. Typed
  BY DEF Following
<1>4. Coming' = Coming /\ rQ' \in Seq(Field) /\ net' \in Seq(Field) /\ rQ' # <<>>
  BY <1>2, <1>3, ComingMoves, Zenon
<1>5. Typed'
  BY <1>1, <1>3, <1>4 DEF Typed
<1>6. ASSUME Beginning PROVE Beginning'
  <2>1. Negotiated'
    BY <1>1, <1>4, <1>6 DEF Beginning, Negotiated
  <2>. QED  BY <1>1, <1>6, <2>1 DEF Beginning, Counting
<1>7. ASSUME Reading PROVE Reading'
  <2>1. /\ Coming' = Coming /\ UNCHANGED <<up, srv, peer>> /\ rfb'.st = rfb.st
        /\ fb'.viewOnly = fb.viewOnly /\ fb'.cont = fb.cont
        /\ \A p : Stands(p, fb) => Stands(p, fb')
        /\ Quietly(fb') => Quietly(fb)
    BY <1>1, <1>4
  <2>. QED  BY <1>7, <2>1, StillReading, Zenon
<1>. QED  BY <1>1, <1>5, <1>6, <1>7 DEF Following, Knowing

\* The decoders and the display at home, and the stream empty: all is read.
LEMMA HomeReads ==
    ASSUME Parts \subseteq DOMAIN fb, Stands(Home(fb.viewOnly), fb)
    PROVE  Readable(Home(fb.viewOnly), fb, <<>>, 0)
<1>1. Home(fb.viewOnly).left = 0
  BY HomeIs
<1>. QED  BY <1>1, ReadableAtHome

\* A turn of the handshake begins before its end.
LEMMA initMsgStarts == ASSUME initMsg PROVE rfb.st = "connecting"
<1>1. \E s : InitMsg(s)
  BY DEF initMsg, Negotiate, negotiateProtocolVersion, negotiateSecurity, handleSecurityReason,
         negotiateNone, negotiateXvpAuth, negotiateVeNCryptAuth, negotiatePlainAuth,
         negotiateStdVNCAuth, negotiateARDAuth, negotiateMSLogonIIAuth, negotiateTightTunnels,
         negotiateTightAuth, negotiateUnsupported, handleSecurityResult, clientInitialisation,
         negotiateServerInit
<1>. QED  BY <1>1 DEF InitMsg

\* A turn of the handshake keeps what it must keep, and ends in the first
\* request for an update.
LEMMA initMsgKeeps ==
    ASSUME Following, ~misread, initMsg, UNCHANGED <<fb, peer>>
    PROVE  ~misread' /\ Typed' /\ (Alive' => Following')
<1>1. rfb.st = "connecting"
  BY initMsgStarts
<1>2. Typed /\ Negotiated /\ Counting /\ Beginning
  BY <1>1 DEF Following, Beginning
<1>3. Fine
  BY <1>2, initMsgFits
<1>4. Calls \/ (negotiateServerInit /\ Counting')
  BY <1>2, initMsgCalls
<1>5. ~misread' /\ Typed'
  BY <1>3 DEF Fine
<1>6. CASE rfb'.st = "connecting"
  <2>1. Negotiated' /\ Counting'
    BY <1>3, <1>4, <1>6 DEF Fine, Calls
  <2>2. Beginning'
    BY <1>2, <2>1 DEF Beginning
  <2>. QED  BY <1>2, <1>5, <1>6, <2>2 DEF Following, Knowing
<1>7. CASE Calls /\ rfb'.st # "connecting"
  <2>1. rfb'.st = "over" /\ running' # "loop"
    BY <1>7 DEF Calls
  <2>2. ~Alive'
    BY <2>1 DEF Alive
  <2>. QED  BY <1>5, <2>2
<1>8. CASE negotiateServerInit /\ rfb'.st # "connecting"
  <2>1. Coming' = <<>> /\ up' = <<F("request", 0)>> /\ srv'.at = "normal"
    BY <1>2, <1>8, negotiateServerInitFits
  <2>2. Readable(Home(fb.viewOnly), fb, <<>>, 0)
    BY <1>2, HomeReads DEF Beginning, Following
  <2>3. Readable(Home(fb.viewOnly), fb, Coming, 0)'
    BY <2>1, <2>2
  <2>4. up' \in Seq(Wishes(fb.viewOnly))
    BY <2>1, WishesAre
  <2>5. Pending("request")'
    <3>1. F("request", 0).f = "request"
      BY FIs
    <3>2. Len(up') = 1 /\ up'[1] = F("request", 0)
      BY <2>1
    <3>. QED  BY <3>1, <3>2 DEF Pending
  <2>6. Requested(0)'
    BY <2>5 DEF Requested
  <2>7. Reading'
    BY <1>2, <2>1, <2>3, <2>4, <2>6 DEF Reading, Beginning
  <2>. QED  BY <1>5, <1>8, <2>7 DEF Following, Knowing
<1>. QED  BY <1>4, <1>6, <1>7, <1>8

\* That the answer to Apple's key is ready changes nothing of what may follow.
LEMMA ARDIsReady ==
    ASSUME NEW c, NEW d, NEW s, NEW S, Fits(c, s, S),
           d.init = c.init, d.version = c.version, d.scheme = c.scheme, d.vencrypt = c.vencrypt,
           d.subtypes = c.subtypes, d.tight = c.tight, c.ard = "computing", d.ard = "ready"
    PROVE  Fits(d, s, S)
<1>1. CASE c.init # "Authentication"
  BY <1>1 DEF Fits, ResultFollows, VersionFollows, SecurityFollows
<1>2. CASE c.init = "Authentication"
  <2>1. /\ s.version = c.version /\ c.version \in {33, 37, 38}
        /\ c.tight => c.scheme \in {sec.Tight, sec.VNCAuth, sec.UnixLogon}
        /\ s.tight = (c.tight \/ c.scheme = sec.Tight)
        /\ c.scheme # sec.ARD => c.ard = "no"
        /\ TypeFits(c, s, S)
    BY <1>2, Negotiating
  <2>2. c.scheme = sec.ARD
    BY <2>1
  <2>3. sec.ARD # sec.VeNCrypt /\ sec.ARD # sec.Tight
    BY TypesAre
  <2>4. S = <<>> /\ s.at = "response"
    BY <2>1, <2>2, <2>3 DEF TypeFits
  <2>5. TypeFits(d, s, S)
    BY <2>2, <2>3, <2>4 DEF TypeFits
  <2>6. Negotiates(d, s, S)
    BY <2>1, <2>2, <2>5 DEF Negotiates
  <2>. QED  BY <1>2, <2>6 DEF Fits
<1>. QED  BY <1>1, <1>2

\* The answer to Apple's key, a timer and the page change nothing of what has
\* been said.
LEMMA TimersKeep ==
    ASSUME Following, negotiateARDAuthAsync \/ resumeAuthentication \/ sendCredentials,
           UNCHANGED <<fb, peer>>
    PROVE  Following'
<1>1. /\ UNCHANGED <<net, rQ, up, srv>> /\ DOMAIN rfb' = DOMAIN rfb /\ rfb'.st = rfb.st
      /\ rfb'.init = rfb.init /\ rfb'.version = rfb.version /\ rfb'.scheme = rfb.scheme
      /\ rfb'.vencrypt = rfb.vencrypt /\ rfb'.subtypes = rfb.subtypes /\ rfb'.tight = rfb.tight
      /\ running' = running \/ rfb.resume
      /\ rfb'.ard = rfb.ard \/ (rfb.ard = "computing" /\ rfb'.ard = "ready")
      /\ rfb'.asked = rfb.asked \/ rfb.asked # {}
      /\ rfb'.resume = rfb.resume \/ rfb.asked # {} \/ rfb.ard = "computing" \/ rfb.resume
      /\ running = "no" /\ running' \in {"no", "once"}
  BY DEF negotiateARDAuthAsync, resumeAuthentication, sendCredentials, Following, Typed, Members
<1>2. Typed
  BY DEF Following
<1>3. Typed' /\ Coming' = Coming
  BY <1>1, <1>2 DEF Typed, Coming
<1>4. ASSUME Reading PROVE Reading'
  <2>1. /\ Coming' = Coming /\ UNCHANGED <<up, srv, peer>> /\ rfb'.st = rfb.st
        /\ fb'.viewOnly = fb.viewOnly /\ fb'.cont = fb.cont
        /\ \A p : Stands(p, fb) => Stands(p, fb')
        /\ Quietly(fb') => Quietly(fb)
    BY <1>1, <1>3
  <2>. QED  BY <1>4, <2>1, StillReading, Zenon
<1>5. ASSUME Beginning PROVE Beginning'
  <2>1. Negotiated
    BY <1>5 DEF Beginning
  <2>2. rfb.init \notin {"ProtocolVersion", "Security"}
    <3>1. rfb.asked # {} \/ rfb.resume # FALSE \/ rfb.ard = "computing"
      BY DEF negotiateARDAuthAsync, resumeAuthentication, sendCredentials
    <3>. QED  BY <2>1, <3>1 DEF Negotiated, Fresh
  <2>3. Agree(rfb', srv, Coming, up)
    <3>1. Agree(rfb, srv, Coming, up)
      BY <2>1 DEF Negotiated
    <3>2. CASE rfb'.ard = rfb.ard
      BY <1>1, <3>1, <3>2, AgreeSame, Zenon
    <3>3. CASE rfb.ard = "computing" /\ rfb'.ard = "ready"
      <4>1. Patient(rfb) => Patient(rfb')
        BY <1>1, Zenon DEF Patient
      <4>2. ASSUME NEW s, NEW S, Fits(rfb, s, S) PROVE Fits(rfb', s, S)
        BY <1>1, <3>3, <4>2, ARDIsReady, Zenon
      <4>. QED  BY <3>1, <4>1, <4>2, AgreeStays, Zenon
    <3>. QED  BY <1>1, <3>2, <3>3
  <2>4. Negotiated'
    BY <1>1, <1>3, <2>1, <2>2, <2>3 DEF Negotiated
  <2>. QED  BY <1>1, <1>5, <2>4 DEF Beginning, Counting
<1>. QED  BY <1>1, <1>3, <1>4, <1>5 DEF Following, Knowing

\* The server's updates and its other messages, which the grammar knows.
LEMMA SendUpdateKeeps ==
    ASSUME Following, SendUpdate
    PROVE  Following'
<1>1. PICK u \in Updates : Speaks(u)
  BY DEF SendUpdate
<1>2. /\ net' = net \o u /\ peer.ready /\ UNCHANGED <<rQ, up, srv, rfb, running, misread, fb>>
  BY <1>1 DEF Speaks
<1>3. DOMAIN peer' = DOMAIN peer /\ peer'.cont = peer.cont /\ peer'.clip = peer.clip
  BY DEF SendUpdate, Following, Knowing
<1>4. fb.viewOnly \in BOOLEAN
  BY DEF Following
<1>5. u \in Seq(Field) /\ Legible(u, 1, Home(fb.viewOnly))
  BY <1>4, GrammarAssumption
<1>6. /\ Typed /\ rfb.st # "connecting" /\ Reading
  BY <1>2 DEF Following, Beginning
<1>7. Coming' = Coming \o u /\ net' \in Seq(Field)
  BY <1>2, <1>5, <1>6, ComingGrows, Zenon
<1>8. PICK d \in Nat : Readable(Home(fb.viewOnly), fb, Coming, d)
  BY <1>6 DEF Reading
<1>9. Readable(Home(fb.viewOnly), fb, Coming \o u, d + 1)
  BY <1>5, <1>8, ReadableAppends, Zenon
<1>10. Readable(Home(fb.viewOnly), fb, Coming, d + 1)'
  BY <1>2, <1>7, <1>9
<1>11. d + 1 \in Nat /\ d + 1 > 0
  OBVIOUS
<1>12. Requested(d + 1)'
  BY <1>11 DEF Requested
<1>13. Reading'
  BY <1>2, <1>3, <1>6, <1>10, <1>11, <1>12 DEF Reading, Pending
<1>14. Typed'
  BY <1>2, <1>6, <1>7 DEF Typed
<1>. QED  BY <1>2, <1>3, <1>6, <1>13, <1>14 DEF Following, Knowing

LEMMA SendOtherKeeps ==
    ASSUME Following, SendOther
    PROVE  Following'
<1>1. PICK m \in OtherMessages : Speaks(m) /\ ((Len(m) > 1 /\ m[2] = F("cut", 5)) => peer.clip)
  BY DEF SendOther
<1>2. /\ net' = net \o m /\ peer.ready /\ UNCHANGED <<rQ, up, srv, rfb, running, misread, fb>>
  BY <1>1 DEF Speaks
<1>3. DOMAIN peer' = DOMAIN peer /\ peer'.cont = peer.cont /\ peer'.clip = peer.clip
      /\ peer'.asked = peer.asked
  BY DEF SendOther, Following, Knowing
<1>4. fb.viewOnly \in BOOLEAN
  BY DEF Following
<1>5. /\ Typed /\ rfb.st # "connecting" /\ Reading
  BY <1>2 DEF Following, Beginning
<1>6. fb.viewOnly => ~peer.clip
  BY <1>5 DEF Reading
<1>7. m \in Seq(Field) /\ Legible(m, 0, Home(fb.viewOnly))
  BY <1>1, <1>4, <1>6, GrammarAssumption
<1>8. Coming' = Coming \o m /\ net' \in Seq(Field)
  BY <1>2, <1>5, <1>7, ComingGrows, Zenon
<1>9. PICK d \in Nat : Readable(Home(fb.viewOnly), fb, Coming, d) /\ (rfb.st = "connected" => Requested(d))
  BY <1>5 DEF Reading
<1>10. 0 \in Nat /\ d + 0 = d
  OBVIOUS
<1>11. Readable(Home(fb.viewOnly), fb, Coming \o m, d + 0)
  BY <1>7, <1>9, <1>10, ReadableAppends, Zenon
<1>12. Readable(Home(fb.viewOnly), fb, Coming, d)'
  BY <1>2, <1>8, <1>10, <1>11
<1>13. rfb'.st = "connected" => Requested(d)'
  BY <1>2, <1>3, <1>9 DEF Requested, Pending
<1>14. Reading'
  BY <1>2, <1>3, <1>5, <1>12, <1>13 DEF Reading, Pending
<1>15. Typed'
  BY <1>2, <1>5, <1>8 DEF Typed
<1>. QED  BY <1>2, <1>3, <1>5, <1>14, <1>15 DEF Following, Knowing

\* What the server reads it then knows.
LEMMA Reads ==
    ASSUME NEW A, NEW u \in Seq(A), u # <<>>
    PROVE  /\ Tail(u) \in Seq(A) /\ Head(u) \in A
           /\ \A k \in 1..Len(u) : k = 1 \/ (k - 1 \in 1..Len(Tail(u)) /\ Tail(u)[k - 1] = u[k])
           /\ Head(u) = u[1]
OBVIOUS

LEMMA ServerListensKeeps ==
    ASSUME Following, ServerListens
    PROVE  Following'
<1>1. /\ srv.at = "normal" /\ up # <<>> /\ up' = Tail(up)
      /\ UNCHANGED <<net, rQ, srv, rfb, running, misread, fb>>
  BY DEF ServerListens
<1>2. /\ DOMAIN peer' = DOMAIN peer
      /\ peer'.asked = (peer.asked \/ Head(up).f = "request")
      /\ peer'.cont = (peer.cont \/ Head(up).f = "enable")
      /\ peer'.clip = (peer.clip \/ Head(up).f = "clipRequest")
  BY DEF ServerListens, Following, Knowing
<1>3. rfb.st # "connecting"
  <2>1. ASSUME rfb.st = "connecting" PROVE FALSE
    <3>1. Agree(rfb, srv, Coming, up)
      BY <2>1 DEF Following, Beginning, Negotiated
    <3>. QED  BY <1>1, <3>1 DEF Agree
  <2>. QED  BY <2>1
<1>4. Typed /\ Reading
  BY <1>3 DEF Following
<1>5. up \in Seq(Wishes(fb.viewOnly))
  BY <1>4 DEF Reading
<1>6. /\ Tail(up) \in Seq(Wishes(fb.viewOnly)) /\ Head(up) \in Wishes(fb.viewOnly)
      /\ \A k \in 1..Len(up) : k = 1 \/ (k - 1 \in 1..Len(Tail(up)) /\ Tail(up)[k - 1] = up[k])
      /\ Head(up) = up[1]
  BY <1>1, <1>5, Reads, Zenon
<1>7. fb.viewOnly => Head(up).f # "clipRequest"
  BY <1>6 DEF Wishes, Wanted
<1>8. \A name : Pending(name) => Pending(name)' \/ Head(up).f = name
  BY <1>1, <1>6 DEF Pending
<1>9. PICK d \in Nat : Readable(Home(fb.viewOnly), fb, Coming, d) /\ (rfb.st = "connected" => Requested(d))
  BY <1>4 DEF Reading
<1>10. Coming' = Coming
  BY <1>1 DEF Coming
<1>11. Readable(Home(fb.viewOnly), fb, Coming, d)'
  BY <1>1, <1>9, <1>10
<1>12. rfb'.st = "connected" => Requested(d)'
  <2>1. ASSUME rfb.st = "connected" PROVE Requested(d)'
    <3>1. Requested(d)
      BY <1>9, <2>1
    <3>. QED  BY <1>1, <1>2, <1>8, <3>1 DEF Requested
  <2>. QED  BY <1>1, <2>1
<1>13. Reading'
  BY <1>1, <1>2, <1>4, <1>6, <1>7, <1>8, <1>11, <1>12 DEF Reading
<1>14. Typed'
  BY <1>1, <1>4 DEF Typed
<1>. QED  BY <1>1, <1>2, <1>3, <1>13, <1>14 DEF Following, Knowing

\* A message is handled in a loop, after the handshake.
LEMMA normalMsgRuns ==
    ASSUME normalMsg
    PROVE  running = "loop" /\ rfb.st # "connecting"
<1>1. CASE Paused
  BY <1>1 DEF Paused
<1>2. CASE ~Paused
  <2>1. Handling
    BY <1>2 DEF normalMsg, framebufferUpdate, rectHeader, handleLastRect, handleFlags,
           handleDesktopSize, handleExtendedDesktopSize, handleCursor, handleVMwareCursor,
           handleDesktopName, handleLedEvent, rawDecode, copyRectDecode, rreDecode, hextileDecode,
           zlibDecode, zrleDecode, tightDecode, tightControl, tightFill, tightImage, tightBasic,
           tightCopyFilter, tightPaletteFilter, tightGradientFilter, TightStep, jpegDecode, h264Decode,
           handleBell, handleServerCutText, handleEndOfContinuousUpdates, handleServerFence,
           handleXvp, unexpectedMessage, Message, Rect
  <2>. QED  BY <2>1 DEF Handling
<1>. QED  BY <1>1, <1>2

\* What the client handles leaves the rest of the stream readable, and asks for
\* the next update where it has shown one.
LEMMA normalMsgKeeps ==
    ASSUME Following, ~misread, normalMsg
    PROVE  ~misread' /\ Typed' /\ (Alive' => Following')
<1>1. rfb.st # "connecting"
  BY normalMsgRuns
<1>2. /\ Typed /\ Parts \subseteq DOMAIN fb /\ fb.viewOnly \in BOOLEAN /\ Knowing /\ Reading
  BY <1>1 DEF Following
<1>3. up \in Seq(Wishes(fb.viewOnly))
  BY <1>2 DEF Reading
<1>4. Placed
  BY <1>2, <1>3 DEF Placed
<1>5. PICK d \in Nat : Readable(Home(fb.viewOnly), fb, Coming, d) /\ (rfb.st = "connected" => Requested(d))
  BY <1>2 DEF Reading
<1>6. /\ Kept
      /\ Ended \/ \E e \in Nat : Readable(Home(fb.viewOnly), fb', Coming', e) /\ Onward(d, e)
  BY <1>4, <1>5, normalMsgReads
<1>7. /\ rQ' \in Seq(Field) /\ UNCHANGED <<net, srv, peer>> /\ DOMAIN rfb' = DOMAIN rfb /\ ~misread'
      /\ Parts \subseteq DOMAIN fb' /\ fb'.viewOnly = fb.viewOnly
      /\ up' = up \/ \E m \in Seq(Wishes(fb.viewOnly)) : up' = up \o m
      /\ rfb' = rfb \/ rfb'.st = "over"
  BY <1>6 DEF Kept
<1>8. Typed'
  BY <1>2, <1>7 DEF Typed
<1>9. /\ up' \in Seq(Wishes(fb.viewOnly))
      /\ \A k \in 1..Len(up) : k \in 1..Len(up') /\ up'[k] = up[k]
  <2>1. CASE up' = up
    BY <1>3, <2>1
  <2>2. ASSUME NEW m \in Seq(Wishes(fb.viewOnly)), up' = up \o m
        PROVE  /\ up' \in Seq(Wishes(fb.viewOnly))
               /\ \A k \in 1..Len(up) : k \in 1..Len(up') /\ up'[k] = up[k]
    BY <1>3, <2>2, AskingAdds, Zenon
  <2>. QED  BY <1>7, <2>1, <2>2
<1>10. \A name : Pending(name) => Pending(name)'
  BY <1>9 DEF Pending
<1>11. CASE Ended
  <2>1. ~Alive'
    BY <1>11 DEF Ended, Alive
  <2>. QED  BY <1>7, <1>8, <2>1
<1>12. CASE ~Ended
  <2>1. PICK e \in Nat : Readable(Home(fb.viewOnly), fb', Coming', e) /\ Onward(d, e)
    BY <1>6, <1>12
  <2>2. Readable(Home(fb.viewOnly), fb, Coming, e)'
    BY <1>7, <2>1
  <2>3. ASSUME rfb'.st = "connected"
        PROVE  Requested(e)' /\ (fb'.cont => peer'.cont \/ Pending("enable")')
    <3>1. rfb' = rfb /\ rfb.st = "connected" /\ Requested(d)
      BY <1>5, <1>7, <2>3
    <3>2. fb.cont => peer.cont \/ Pending("enable")
      BY <1>2, <3>1 DEF Reading
    <3>3. fb'.cont => peer'.cont \/ Pending("enable")'
      BY <1>7, <1>10, <2>1, <2>3, <3>2 DEF Onward
    <3>4. Quietly(fb') => Pending("request")' \/ fb'.cont \/ (Quietly(fb) /\ d = e)
      BY <2>1, <2>3 DEF Onward
    <3>5. CASE ~Quietly(fb')
      BY <3>3, <3>5 DEF Requested
    <3>6. CASE Pending("request")' \/ fb'.cont
      BY <3>3, <3>6 DEF Requested
    <3>7. CASE Quietly(fb) /\ d = e
      BY <1>7, <1>10, <3>1, <3>3, <3>7 DEF Requested
    <3>. QED  BY <3>4, <3>5, <3>6, <3>7
  <2>4. Reading'
    BY <1>2, <1>7, <1>9, <2>2, <2>3 DEF Reading
  <2>5. rfb'.st # "connecting"
    BY <1>1, <1>7
  <2>. QED  BY <1>2, <1>7, <1>8, <2>4, <2>5 DEF Following, Knowing
<1>. QED  BY <1>11, <1>12

\* A picture and the end of a pause change only the display.
Undisturbed ==
    /\ fb'.viewOnly = fb.viewOnly /\ fb'.cont = fb.cont /\ fb'.rects = fb.rects
    /\ fb'.rect = fb.rect /\ fb'.left = fb.left /\ fb'.len = fb.len /\ fb'.tight = fb.tight
    /\ fb'.sof = fb.sof /\ fb'.forgot = fb.forgot /\ Parts \subseteq DOMAIN fb'

LEMMA PicturesDraw ==
    ASSUME Parts \subseteq DOMAIN fb, Pictures \/ Flushed
    PROVE  Undisturbed
<1>1. CASE Flushed
  BY <1>1 DEF Flushed, Undisturbed, Parts
<1>2. CASE Pictures
  BY <1>2 DEF Pictures, ImageLoads, handleFrame, Undisturbed, Parts
<1>. QED  BY <1>1, <1>2

LEMMA PicturesKeep ==
    ASSUME Following, UNCHANGED <<hsVars, peer>> \/ Flushed, Undisturbed
    PROVE  Following'
<1>1. UNCHANGED <<net, rQ, up, srv, rfb, peer>>
  BY DEF hsVars, Flushed, Stay
<1>2. Typed /\ Parts \subseteq DOMAIN fb
  BY DEF Following
<1>3. /\ fb'.viewOnly = fb.viewOnly /\ fb'.cont = fb.cont /\ fb'.rects = fb.rects
      /\ fb'.rect = fb.rect /\ fb'.left = fb.left /\ fb'.len = fb.len /\ fb'.tight = fb.tight
      /\ fb'.sof = fb.sof /\ fb'.forgot = fb.forgot /\ Parts \subseteq DOMAIN fb'
  BY DEF Undisturbed
<1>4. \A p : Stands(p, fb) <=> Stands(p, fb')
  BY <1>3 DEF Stands
<1>5. Typed' /\ Coming' = Coming
  BY <1>1, <1>2 DEF Typed, Coming
<1>6. ASSUME Reading PROVE Reading'
  <2>1. /\ Coming' = Coming /\ UNCHANGED <<up, srv, peer>> /\ rfb'.st = rfb.st
        /\ fb'.viewOnly = fb.viewOnly /\ fb'.cont = fb.cont
        /\ \A p : Stands(p, fb) => Stands(p, fb')
        /\ Quietly(fb') => Quietly(fb)
    BY <1>1, <1>3, <1>4, <1>5 DEF Quietly
  <2>. QED  BY <1>6, <2>1, StillReading, Zenon
<1>7. ASSUME Beginning PROVE Beginning'
  <2>1. Negotiated
    BY <1>7 DEF Beginning
  <2>2. running' = running \/ running' = "no" \/ (running' = "loop" /\ rQ # <<>>)
    BY DEF hsVars, Flushed
  <2>3. Negotiated'
    BY <1>1, <1>5, <2>1, <2>2 DEF Negotiated
  <2>4. Counting'
    BY <1>1, <1>7 DEF Beginning, Counting
  <2>5. Stands(Home(fb'.viewOnly), fb')
    BY <1>3, <1>4, <1>7, Zenon DEF Beginning
  <2>. QED  BY <1>1, <1>3, <1>7, <2>3, <2>4, <2>5 DEF Beginning
<1>. QED  BY <1>1, <1>3, <1>5, <1>6, <1>7 DEF Following, Knowing

\* Each action keeps the invariant of the stream.
LEMMA StreamBegins == ASSUME FramesInit PROVE StreamIInv
<1>1. /\ net = <<>> /\ rQ = <<>> /\ up = <<>> /\ running = "no" /\ misread = FALSE
      /\ srv.at = "start" /\ srv.tight = FALSE
  BY DEF FramesInit, HandshakeInit
<1>2. /\ rfb.st = "connecting" /\ rfb.init = "ProtocolVersion" /\ rfb.vencrypt = 0
      /\ rfb.tight = FALSE /\ rfb.asked = {} /\ rfb.ard = "no" /\ rfb.resume = FALSE
      /\ Members \cup {"asked", "creds", "resume"} \subseteq DOMAIN rfb
  BY DEF FramesInit, HandshakeInit, Members
<1>3. /\ fb.rects = 0 /\ fb.rect = NoRect /\ fb.cont = FALSE /\ fb.left = 0 /\ fb.sof = FALSE
      /\ fb.viewOnly \in BOOLEAN /\ Parts \subseteq DOMAIN fb
      /\ fb.len = [e \in {enc.Zlib, enc.ZRLE} |-> 0]
      /\ fb.tight = [e \in {enc.Tight, enc.TightPNG} |-> NoTight]
  BY DEF FramesInit, Parts
<1>4. Knowing /\ peer.ready = FALSE /\ peer.clip = FALSE
  BY DEF FramesInit, Knowing
<1>5. Coming = <<>> /\ rQ \in Seq(Field) /\ net \in Seq(Field)
  BY <1>1 DEF Coming
<1>6. Agree(rfb, srv, Coming, up)
  BY <1>1, <1>2, <1>5 DEF Agree, Fits, VersionFollows
<1>7. Negotiated /\ Counting
  <2>1. Fresh(rfb) /\ Counting
    BY <1>2 DEF Fresh, Counting
  <2>2. rfb.tight \in BOOLEAN
    BY <1>2
  <2>. QED  BY <1>1, <1>2, <1>6, <2>1, <2>2 DEF Negotiated
<1>8. Stands(Home(fb.viewOnly), fb)
  <2>1. NoRect.v = 0 /\ NoRect.n = 0
    BY DEF NoRect
  <2>2. LeftOf(NoRect, 0) = 0
    BY <2>1 DEF LeftOf
  <2>. QED  BY <1>3, <2>2 DEF Stands, Home, Spots
<1>9. Typed
  BY <1>2, <1>5 DEF Typed
<1>. QED  BY <1>1, <1>2, <1>3, <1>4, <1>7, <1>8, <1>9 DEF StreamIInv, Following, Beginning

\* A client that has stopped stays so, and reads nothing.
LEMMA StreamEnded ==
    ASSUME StreamIInv, ~Alive, FramesNext
    PROVE  StreamIInv'
<1>1. rfb.st = "over" /\ running # "loop" /\ ~misread
      /\ Members \cup {"asked", "creds", "resume"} \subseteq DOMAIN rfb
  BY DEF StreamIInv, Alive
<1>2. ASSUME rfb'.st = "over", running' # "loop", misread' = misread, DOMAIN rfb' = DOMAIN rfb
      PROVE  StreamIInv'
  BY <1>1, <1>2 DEF StreamIInv, Alive
<1>3. CASE ServerGreets \/ ServerReads
  BY <1>1, <1>2, <1>3 DEF ServerGreets, ServerReads
<1>4. CASE Deliver
  BY <1>1, <1>2, <1>4 DEF Deliver
<1>5. CASE initMsg
  BY <1>1, <1>5, initMsgStarts
<1>6. CASE negotiateARDAuthAsync \/ resumeAuthentication \/ sendCredentials
  BY <1>1, <1>2, <1>6 DEF negotiateARDAuthAsync, resumeAuthentication, sendCredentials, Members
<1>7. CASE ServerListens
  BY <1>1, <1>2, <1>7 DEF ServerListens
<1>8. CASE SendUpdate
  BY <1>1, <1>2, <1>8 DEF SendUpdate, Speaks
<1>9. CASE SendOther
  BY <1>1, <1>2, <1>9 DEF SendOther, Speaks
<1>10. CASE normalMsg
  BY <1>1, <1>10, normalMsgRuns
<1>11. CASE Flushed
  BY <1>1, <1>2, <1>11 DEF Flushed
<1>12. CASE Pictures
  BY <1>1, <1>2, <1>12 DEF Pictures, ImageLoads, handleFrame, Between, hsVars
<1>. QED  BY <1>3, <1>4, <1>5, <1>6, <1>7, <1>8, <1>9, <1>10, <1>11, <1>12
          DEF FramesNext, Handshaking, HandshakeSteps, UserAnswers

LEMMA StreamKeeps ==
    ASSUME StreamIInv, Alive, FramesNext
    PROVE  StreamIInv'
<1>1. Following /\ ~misread /\ Members \cup {"asked", "creds", "resume"} \subseteq DOMAIN rfb
  BY DEF StreamIInv
<1>2. ASSUME Following', ~misread' PROVE StreamIInv'
  BY <1>2 DEF StreamIInv, Following, Typed
<1>3. ASSUME ~misread', Typed', Alive' => Following' PROVE StreamIInv'
  BY <1>3 DEF StreamIInv, Typed
<1>4. CASE Handshaking
  <2>1. HandshakeSteps /\ UNCHANGED <<fb, peer>>
    BY <1>4 DEF Handshaking
  <2>2. CASE ServerGreets
    BY <1>1, <1>2, <2>1, <2>2, ServerGreetsKeeps DEF ServerGreets
  <2>3. CASE ServerReads
    BY <1>1, <1>2, <2>1, <2>3, ServerReadsKeeps DEF ServerReads
  <2>4. CASE Deliver
    BY <1>1, <1>2, <2>1, <2>4, DeliverKeeps DEF Deliver
  <2>5. CASE initMsg
    BY <1>1, <1>3, <2>1, <2>5, initMsgKeeps
  <2>6. CASE negotiateARDAuthAsync \/ resumeAuthentication
    BY <1>1, <1>2, <2>1, <2>6, TimersKeep DEF negotiateARDAuthAsync, resumeAuthentication
  <2>. QED  BY <2>1, <2>2, <2>3, <2>4, <2>5, <2>6 DEF HandshakeSteps
<1>5. CASE UserAnswers
  BY <1>1, <1>2, <1>5, TimersKeep DEF UserAnswers, sendCredentials
<1>6. CASE ServerListens
  BY <1>1, <1>2, <1>6, ServerListensKeeps DEF ServerListens
<1>7. CASE SendUpdate
  BY <1>1, <1>2, <1>7, SendUpdateKeeps DEF SendUpdate, Speaks
<1>8. CASE SendOther
  BY <1>1, <1>2, <1>8, SendOtherKeeps DEF SendOther, Speaks
<1>9. CASE normalMsg
  BY <1>1, <1>3, <1>9, normalMsgKeeps
<1>10. CASE Flushed
  <2>1. misread' = misread
    BY <1>10 DEF Flushed
  <2>2. Undisturbed
    BY <1>1, <1>10, PicturesDraw DEF Following
  <2>. QED  BY <1>1, <1>2, <1>10, <2>1, <2>2, PicturesKeep
<1>11. CASE Pictures
  <2>1. UNCHANGED <<hsVars, peer>> /\ misread' = misread
    BY <1>11 DEF Pictures, ImageLoads, handleFrame, Between, hsVars
  <2>2. Undisturbed
    BY <1>1, <1>11, PicturesDraw DEF Following
  <2>. QED  BY <1>1, <1>2, <2>1, <2>2, PicturesKeep
<1>. QED  BY <1>4, <1>5, <1>6, <1>7, <1>8, <1>9, <1>10, <1>11 DEF FramesNext

\* A step of the client, its server and its page, or none.
LEMMA StreamInductive == StreamIInv /\ [FramesNext]_framesVars => StreamIInv'
<1>1. ASSUME StreamIInv, FramesNext PROVE StreamIInv'
  BY <1>1, StreamEnded, StreamKeeps
<1>2. ASSUME StreamIInv, UNCHANGED framesVars PROVE StreamIInv'
  BY <1>2 DEF framesVars, hsVars, StreamIInv, Alive, Following, Typed, Knowing, Beginning, Negotiated,
     Counting, Reading, Coming, Requested, Pending
<1>. QED  BY <1>1, <1>2

\* The client takes every field of the stream for what it is, from the version
\* to the last segment of an update, however the stream is cut into deliveries
\* (rQwait with goback, and what the decoders remember): no call of shift reads
\* a byte of something else.
THEOREM StreamInStep == FramesSpec => []InStep
<1>1. FramesInit => StreamIInv
  BY StreamBegins
<1>2. StreamIInv => InStep
  BY DEF StreamIInv, InStep
<1>. QED  BY <1>1, <1>2, StreamInductive, PTL DEF FramesSpec

\* Server and client never wait for each other (_framebufferUpdate and what
\* _handleRect ends with): at rest, a request is with the server or updates are
\* continuous, but for the gap that forgot marks.
THEOREM StreamKeepsAsking == FramesSpec => []KeepsAsking
<1>1. FramesInit => StreamIInv
  BY StreamBegins
<1>2. StreamIInv => KeepsAsking
  <2>. SUFFICES ASSUME StreamIInv,
                       rfb.st = "connected", running = "no", fb.rects = 0,
                       net = <<>>, up = <<>>, rQ = <<>>, ~fb.forgot
                PROVE  peer.asked \/ peer.cont
    BY DEF KeepsAsking
  <2>1. Reading
    BY DEF StreamIInv, Alive, Following
  <2>2. Coming = <<>>
    BY DEF Coming
  <2>3. PICK d \in Nat : Readable(Home(fb.viewOnly), fb, <<>>, d) /\ Requested(d)
    BY <2>1, <2>2 DEF Reading
  <2>4. d = 0
    BY <2>3, NothingDue
  <2>5. Quietly(fb)
    BY DEF Quietly
  <2>6. \A name : ~Pending(name)
    BY DEF Pending
  <2>. QED  BY <2>3, <2>4, <2>5, <2>6 DEF Requested
<1>. QED  BY <1>1, <1>2, StreamInductive, PTL DEF FramesSpec

=============================================================================
