------------------------------ MODULE Grammar ------------------------------
(***************************************************************************)
(* The messages of the RFB protocol, as a server sends them after the      *)
(* handshake: which fields may follow where.  Frames leaves open what a    *)
(* server sends; here is what it must keep to so that a client can read    *)
(* it, however the stream is cut into deliveries.                          *)
(*                                                                         *)
(* A position is a place between two fields of a message: the rectangles   *)
(* still to come and what is known of the present one, by the members of   *)
(* fb that remember it.  At a position the server says an item, a few      *)
(* fields that the client takes at once, and is at the next position.      *)
(* Where it has promised nothing is home.                                  *)
(***************************************************************************)
EXTENDS Frames

\* The names of the fields: those of the handshake, and those of the messages.
Said == {"version", "scheme", "types", "type", "reasonLength", "reason", "result", "challenge",
        "dh", "keys", "params", "vencrypt", "ack", "subtypes", "subtype", "tunnels", "tunnel",
        "auths", "auth", "server", "name", "extended", "caps"}
Shown == {"message", "rects", "rect", "line", "source", "subrects", "subrect", "tile", "tilePixels",
        "colour", "count", "tileRect", "length", "data", "control", "pixel", "dataLength", "filter",
        "short", "colors", "palette", "marker", "segmentLength", "segment", "h264", "payload",
        "pixels", "cursorType", "padding", "nameLength", "led", "screens", "screen", "cut", "text",
        "flags", "zlibText", "fence", "fenceData", "xvp"}
Field == [f : Said \cup Shown, v : Int] \cup [f : Said \cup Shown, v : Int, n : Int]

\* The header of a rectangle, with its area.
Rectangle == [f : {"rect"}, v : Int, n : Nat]

------------------------------------------------------------------------------
(* Positions.                                                              *)

Home(view) ==
    [rects |-> 0, rect |-> NoRect, left |-> 0, len |-> [e \in {enc.Zlib, enc.ZRLE} |-> 0],
     tight |-> [e \in {enc.Tight, enc.TightPNG} |-> NoTight], sof |-> FALSE, view |-> view]

\* A rectangle of lines or of tiles has as many left as its area says.
Begun(p) == [p EXCEPT !.left = IF p.rect.v \in {enc.Raw, enc.Hextile} /\ @ = 0 THEN p.rect.n ELSE @]

Complete(p) == [p EXCEPT !.rects = @ - 1, !.rect = NoRect]
Left(p, n) == IF n = 0 THEN Complete([p EXCEPT !.left = 0]) ELSE [p EXCEPT !.left = n]
TightComplete(p) == Complete([p EXCEPT !.tight[p.rect.v].ctl = -1, !.tight[p.rect.v].filter = -1])

------------------------------------------------------------------------------
(* Items.                                                                  *)

One(h, f) == Len(h) = 1 /\ h[1].f = f
Two(h, f, g) == Len(h) = 2 /\ h[1].f = f /\ h[2].f = g
Three(h, f, g, k) == Len(h) = 3 /\ h[1].f = f /\ h[2].f = g /\ h[3].f = k

\* The field f, with a number, and so many fields g.
Counted(h, f, g) ==
    /\ h # <<>> /\ h[1].f = f /\ h[1].v = Len(h) - 1
    /\ \A k \in 2..Len(h) : h[k].f = g

\* The positions after an item: q if the item is legal, and otherwise none.
Item(legal, q) == IF legal THEN {q} ELSE {}

\* A view is not sent the clipboard's text, for which it does not ask.
CutText(h, view) ==
    /\ Len(h) \in {3, 4} /\ h[1].f = "message" /\ h[1].v = 3 /\ h[2].f = "cut"
    /\ h[3].f = IF h[2].v = 0 THEN "text" ELSE "flags"
    /\ IF h[2].v = 5 THEN ~view /\ Len(h) = 4 /\ h[4].f = "zlibText" ELSE Len(h) = 3

AfterMessage(p, h) ==
    Item(Two(h, "message", "rects") /\ h[1].v = 0, [p EXCEPT !.rects = h[2].v])
    \cup Item(CutText(h, p.view), p)
    \cup Item(Three(h, "message", "fence", "fenceData") /\ h[1].v = 248, p)
    \cup Item(Two(h, "message", "xvp") /\ h[1].v = 250, p)
    \cup Item(One(h, "message") /\ h[1].v \notin {0, 3, 248, 250}, p)

AfterHeader(p, h) == Item(One(h, "rect") /\ h[1] \in Rectangle, Begun([p EXCEPT !.rect = h[1]]))

Tile(h) ==
    /\ h # <<>> /\ h[1].f = "tile"
    /\ CASE h[1].v = 1 -> Two(h, "tile", "tilePixels")
         [] h[1].v = 2 -> Two(h, "tile", "colour")
         [] h[1].v = 8 -> /\ Len(h) >= 2 /\ h[2].f = "count" /\ h[2].v = Len(h) - 2
                          /\ \A k \in 3..Len(h) : h[k].f = "tileRect"
         [] OTHER -> Len(h) = 1

AfterSubrect(p, h) ==
    IF p.left = 0 THEN Item(One(h, "subrects"), Left(p, h[1].v))
                  ELSE Item(One(h, "subrect"), Left(p, p.left - 1))

AfterLength(p, h) ==
    IF p.len[p.rect.v] = 0
    THEN Item(One(h, "length"), [p EXCEPT !.len[p.rect.v] = 1])
    ELSE Item(One(h, "data"), Complete([p EXCEPT !.len[p.rect.v] = 0]))

\* Data behind its length; q is the position p but for what the data ends.
TightData(p, q, h) ==
    IF p.tight[p.rect.v].len = 0
    THEN Item(One(h, "dataLength"), [p EXCEPT !.tight[p.rect.v].len = 1])
    ELSE Item(One(h, "data"), TightComplete([q EXCEPT !.tight[p.rect.v].len = 0]))

TightPixels(p, q, h) ==
    CASE p.rect.n = 0 -> Item(h = <<>>, TightComplete(p))
      [] p.rect.n = 1 -> Item(One(h, "short"), TightComplete(q))
      [] OTHER -> TightData(p, q, h)

\* A rectangle of area 0 has no palette: the client would keep it for the next one.
AfterFilter(p, h) ==
    LET e == p.rect.v
        t == p.tight[e]
    IN  CASE t.filter = -1 /\ e = enc.TightPNG -> Item(h = <<>>, TightComplete(p))
          [] t.filter = -1 /\ e # enc.TightPNG ->
                 IF t.ctl < 4 THEN Item(h = <<>>, [p EXCEPT !.tight[e].filter = 0])
                              ELSE Item(One(h, "filter"), [p EXCEPT !.tight[e].filter = h[1].v])
          [] t.filter \in {0, 2} -> TightPixels(p, p, h)
          [] t.filter = 1 /\ t.colors # 1 ->
                 Item(Two(h, "colors", "palette") /\ p.rect.n # 0, [p EXCEPT !.tight[e].colors = 1])
          [] t.filter = 1 /\ t.colors = 1 ->
                 IF p.rect.n = 0 THEN {} ELSE TightPixels(p, [p EXCEPT !.tight[e].colors = 0], h)
          [] OTHER -> {}

AfterTight(p, h) ==
    LET e == p.rect.v
        t == p.tight[e]
    IN  CASE t.ctl = -1 -> Item(One(h, "control"), [p EXCEPT !.tight[e].ctl = h[1].v])
          [] t.ctl = 8 -> Item(One(h, "pixel"), TightComplete(p))
          [] t.ctl \in {9, 10} -> TightData(p, p, h)
          [] t.ctl \in 0..7 -> AfterFilter(p, h)
          [] OTHER -> {}

AfterMarker(p, h) ==
    Item(One(h, "marker") /\ h[1].v = segment.SOI, p)
    \cup Item(One(h, "marker") /\ h[1].v = segment.EOI, Complete([p EXCEPT !.sof = FALSE]))
    \cup Item(Three(h, "marker", "segmentLength", "segment") /\ h[1].v \notin {segment.SOI, segment.EOI},
              [p EXCEPT !.sof = @ \/ h[1].v = segment.SOF])

\* Inside a rectangle, by its encoding.
AfterData(p, h) ==
    LET e == p.rect.v
        n == p.rect.n
    IN  CASE e = enc.LastRect -> Item(h = <<>>, [p EXCEPT !.rects = 0, !.rect = NoRect])
          [] e \in {enc.QEMUExtendedKeyEvent, enc.ExtendedMouseButtons, enc.DesktopSize} ->
                 Item(h = <<>>, Complete(p))
          [] e = enc.ExtendedDesktopSize -> Item(Counted(h, "screens", "screen"), Complete(p))
          [] e = enc.Cursor -> Item(One(h, "pixels"), Complete(p))
          [] e = enc.VMwareCursor -> Item(Three(h, "cursorType", "padding", "pixels"), Complete(p))
          [] e = enc.DesktopName -> Item(Two(h, "nameLength", "name"), Complete(p))
          [] e = enc.QEMULedEvent -> Item(One(h, "led"), Complete(p))
          [] e = enc.Raw -> IF n = 0 THEN Item(h = <<>>, Complete(p))
                                     ELSE Item(One(h, "line"), Left(p, p.left - 1))
          [] e = enc.CopyRect -> Item(One(h, "source"), Complete(p))
          [] e = enc.RRE -> AfterSubrect(p, h)
          [] e = enc.Hextile -> IF n = 0 THEN Item(h = <<>>, Complete(p))
                                         ELSE Item(Tile(h), Left(p, p.left - 1))
          [] e = enc.Zlib -> IF n = 0 THEN Item(h = <<>>, Complete(p)) ELSE AfterLength(p, h)
          [] e = enc.ZRLE -> AfterLength(p, h)
          [] e \in {enc.Tight, enc.TightPNG} -> AfterTight(p, h)
          [] e = enc.JPEG -> AfterMarker(p, h)
          [] e = enc.H264 -> Item(One(h, "h264") /\ h[1].v = 0, Complete(p))
                             \cup Item(Two(h, "h264", "payload") /\ h[1].v > 0, Complete(p))
          [] OTHER -> {}

After(p, h) ==
    IF p.rects = 0 THEN AfterMessage(p, h)
    ELSE IF p.rect = NoRect THEN AfterHeader(p, h) ELSE AfterData(p, h)

------------------------------------------------------------------------------
(* Streams.                                                                *)

\* The item h at position p begins an update.
Announces(p, h) == IF p.rects = 0 /\ h[1].v = 0 THEN 1 ELSE 0

\* From position p the stream s is read to its end, and due updates begin in it.
At(p, s, due) == [p |-> p, s |-> s, due |-> due]

\* The first n fields of the stream at x are an item, and then it is at one of these.
Ahead(x, n) ==
    LET h == SubSeq(x.s, 1, n)
    IN  {At(q, Drop(x.s, n), x.due - Announces(x.p, h)) : q \in After(x.p, h)}

\* Whatever G holds is read to the end, and G holds the way to it.
Closed(G, home) ==
    \A x \in G :
       /\ x.p.left \in Nat /\ x.due \in Nat /\ x.s \in Seq(Field)
       /\ \/ x = At(home, <<>>, 0)
          \/ \E n \in 0..Len(x.s) : Ahead(x, n) \cap G # {}

\* All that the reading of message m comes to.  No field takes three items.
Readings(home, m, due) ==
    LET R[k \in 0..(3 * Len(m) + 3)] ==
           IF k = 0 THEN {At(home, m, due)}
           ELSE LET seen == R[k - 1]
                IN  seen \cup UNION {UNION {Ahead(x, n) : n \in 0..Len(x.s)} : x \in seen}
    IN  R[3 * Len(m) + 3]

\* The message m, in which due updates begin, can be read.
Legible(m, due, home) ==
    LET G == Readings(home, m, due)
    IN  At(home, m, due) \in G /\ Closed(G, home)

\* Every message can be read, those that a view does not ask for by the others.
ASSUME GrammarAssumption ==
    /\ Updates \cup OtherMessages \subseteq Seq(Field)
    /\ \A u \in Updates, view \in BOOLEAN : Legible(u, 1, Home(view))
    /\ \A m \in OtherMessages, view \in BOOLEAN :
          (Len(m) > 1 /\ m[2] = F("cut", 5) /\ view) \/ Legible(m, 0, Home(view))
============================================================================
