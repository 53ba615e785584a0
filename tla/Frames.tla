-------------------------------- MODULE Frames --------------------------------
(***************************************************************************)
(* What noVNC reads after the handshake: the server's messages and the     *)
(* rectangles of its updates (core/rfb.js, _normalMsg and what it calls),  *)
(* the decoders (core/decoders) and the render queue they draw through     *)
(* (module Display).                                                       *)
(*                                                                         *)
(* A turn of JavaScript is a run of actions with running = "loop": nothing *)
(* arrives and no picture loads in between.  One action is one call of a   *)
(* message handler or one round of a decoder's loop.  fb holds what these  *)
(* calls change.                                                           *)
(***************************************************************************)
EXTENDS Integers, Handshake, Display

CONSTANTS
    Updates,      \* bound: the updates the server may send, as sequences of rectangles
    OtherMessages, \* bound: the other messages it may send
    MaxMessages,  \* bound: messages the server sends after the handshake
    LoadResults   \* what may become of an image: "loading", "ready" at once, "broken"

ASSUME FramesAssumption == MaxMessages \in Nat /\ LoadResults \subseteq {"loading", "ready", "broken"}

VARIABLES
    fb,    \* the RFB object's update, decoders, display and clipboard
    peer   \* what the server knows of the client

framesVars == <<hsVars, fb, peer>>

\* The encodings by their numbers (core/encodings.js).
enc == [Raw |-> 0, CopyRect |-> 1, RRE |-> 2, Hextile |-> 5, Zlib |-> 6, Tight |-> 7, ZRLE |-> 16,
        JPEG |-> 21, H264 |-> 50, TightPNG |-> -260, DesktopSize |-> -223, LastRect |-> -224,
        Cursor |-> -239, QEMUExtendedKeyEvent |-> -258, QEMULedEvent |-> -261,
        DesktopName |-> -307, ExtendedDesktopSize |-> -308, ExtendedMouseButtons |-> -316,
        VMwareCursor |-> 1464686180]

NoRect == [f |-> "none", v |-> 0, n |-> 0]
NoTight == [ctl |-> -1, filter |-> -1, colors |-> 0, len |-> 0]
NoVideo == [configured |-> FALSE, live |-> <<>>, dead |-> <<>>]

\* rects, rect: _FBU.  left: _lines, _subrects and _tiles of the decoder at work,
\* each of which is 0 between two rectangles.  lastsub: _lastsubencoding of Hextile.
\* len: _length of Zlib and ZRLE.  sof: _segments holds a frame header.
\* forgot: an update without rectangles was met while the display was pending.
FramesInit ==
    /\ HandshakeInit
    /\ fb \in [rects : {0}, rect : {NoRect}, flushing : {FALSE}, cont : {FALSE},
               supportsCont : {FALSE}, forgot : {FALSE}, left : {0}, lastsub : {0},
               len : {[e \in {enc.Zlib, enc.ZRLE} |-> 0]}, sof : {FALSE},
               tight : {[e \in {enc.Tight, enc.TightPNG} |-> NoTight]},
               video : {NoVideo}, caps : {FALSE}, viewOnly : BOOLEAN, disp : {EmptyDisplay}]
    /\ peer = [asked |-> FALSE, cont |-> FALSE, clip |-> FALSE, ready |-> FALSE, said |-> 0]

------------------------------------------------------------------------------
(* The server.                                                             *)

\* It reads requests for updates, the switch to continuous updates, and requests
\* for its clipboard; what else the client sends changes nothing here.
ServerListens ==
    /\ srv.at = "normal" /\ up # <<>>
    /\ up' = Tail(up)
    /\ peer' = [peer EXCEPT !.ready = @ \/ Head(up).f = "request",
                            !.asked = @ \/ Head(up).f = "request",
                            !.cont = @ \/ Head(up).f = "enable",
                            !.clip = @ \/ Head(up).f = "clipRequest"]
    /\ UNCHANGED <<net, rQ, srv, rfb, running, misread, fb>>

\* It says nothing before it has read the first request: what arrives together
\* with the end of the handshake is left unread until something else arrives.
Speaks(msg) == /\ peer.ready /\ peer.said < MaxMessages
               /\ net' = net \o msg
               /\ UNCHANGED <<rQ, up, srv, rfb, running, misread, fb>>

\* An update answers a request, or comes unasked when updates are continuous.
SendUpdate ==
    /\ peer.asked \/ peer.cont
    /\ \E u \in Updates : Speaks(u)
    /\ peer' = [peer EXCEPT !.asked = FALSE, !.said = @ + 1]

\* The clipboard is provided when it was requested.
SendOther ==
    /\ \E m \in OtherMessages :
          /\ (Len(m) > 1 /\ m[2] = F("cut", 5)) => peer.clip
          /\ Speaks(m)
    /\ peer' = [peer EXCEPT !.said = @ + 1]

------------------------------------------------------------------------------
(* Reading and returning.                                                  *)

\* flush() drops what cannot be sent: a failed connection's socket is closing.
Sends(m) == up' = IF rfb.st = "connected" THEN up \o m ELSE up

Stay == UNCHANGED <<net, srv, peer>>
Handling == running = "loop" /\ rfb.st # "connecting" /\ ~fb.flushing /\ Stay

\* A handler returns false, having shifted n fields and put back fields again.
WaitFor(n, back) == Waits(n, back) /\ fb' = fb

\* A message has been handled: the next one follows in the same turn.
NextMessage == /\ running' = IF rQ' = <<>> THEN "no" ELSE "loop"
               /\ rfb' = rfb

\* A decoder goes on in its loop.
GoOn(fields, f) == Shift(fields) /\ Quiet /\ fb' = f /\ UNCHANGED <<rfb, running>>

Failed == rfb' = fail(rfb)
Abort(fields) == Shift(fields) /\ Quiet /\ fb' = fb /\ Failed /\ running' = "no"

\* A finished update is flipped onto the canvas and the next one requested.
Finish(f) ==
    /\ fb' = [f EXCEPT !.disp = flip(@)]
    /\ IF f.cont THEN Quiet ELSE Sends(<<F("request", 1)>>)
    /\ NextMessage

\* The rectangle is complete.
Done(fields, f) ==
    /\ Shift(fields)
    /\ LET g == [f EXCEPT !.rects = @ - 1, !.rect = NoRect]
       IN  IF g.rects = 0 THEN Finish(g)
                          ELSE Quiet /\ fb' = g /\ UNCHANGED <<rfb, running>>

Filled(f) == [f EXCEPT !.disp = fillRect(@)]
Blitted(f) == [f EXCEPT !.disp = blitImage(@)]

------------------------------------------------------------------------------
(* Updates.                                                                *)

Message(type) == Handling /\ fb.rects = 0 /\ rQ # <<>> /\ rQ[1].f = "message" /\ rQ[1].v = type

\* A mutant: the update is decoded behind the previous one.
framebufferUpdateAtOnce ==
    /\ Message(0)
    /\ IF rQwait(1, 1) THEN WaitFor(1, 1)
       ELSE LET f == [fb EXCEPT !.rects = rQ[2].v, !.disp = Age(@)] IN
            /\ Shift(<<"message", "rects">>)
            /\ IF rQ[2].v = 0 THEN Finish(f)
               ELSE fb' = f /\ Quiet /\ UNCHANGED <<rfb, running>>

\* The header of an update.  While the previous one is still being drawn,
\* reading pauses, with the number of rectangles as the only memory of it.
framebufferUpdate ==
    /\ Message(0)
    /\ IF rQwait(1, 1) THEN WaitFor(1, 1)
       ELSE LET f == [fb EXCEPT !.rects = rQ[2].v, !.disp = Age(@)] IN
            /\ Shift(<<"message", "rects">>)
            /\ IF pending(fb.disp)
               THEN /\ fb' = [f EXCEPT !.flushing = TRUE, !.forgot = @ \/ rQ[2].v = 0,
                                       !.disp = flush(@)]
                    /\ Quiet /\ Return(FALSE, rfb)
               ELSE IF rQ[2].v = 0 THEN Finish(f)
               ELSE fb' = f /\ Quiet /\ UNCHANGED <<rfb, running>>

\* A mutant: reading resumes with the next delivery.
FlushedQuietly ==
    /\ running = "no" /\ fb.disp.flush = "resolved" /\ Stay
    /\ fb' = [fb EXCEPT !.flushing = FALSE, !.disp.flush = "none"]
    /\ UNCHANGED <<rQ, up, rfb, running, misread>>

\* The promise of flush() is resolved; reading resumes if there is something.
Flushed ==
    /\ running = "no" /\ fb.disp.flush = "resolved" /\ Stay
    /\ fb' = [fb EXCEPT !.flushing = FALSE, !.disp.flush = "none"]
    /\ running' = IF rQ = <<>> \/ rfb.st = "over" THEN "no" ELSE "loop"
    /\ UNCHANGED <<rQ, up, rfb, misread>>

\* _handleMessage is called during the pause, and leaves at once.
Paused == /\ running = "loop" /\ rfb.st # "connecting" /\ fb.flushing /\ Stay
          /\ running' = "no"
          /\ UNCHANGED <<rQ, up, rfb, misread, fb>>

rectHeader ==
    /\ Handling /\ fb.rects > 0 /\ fb.rect = NoRect
    /\ IF rQwait(0, 1) THEN WaitFor(0, 0)
       ELSE GoOn(<<"rect">>, [fb EXCEPT !.rect = rQ[1]])

Rect(e) == Handling /\ fb.rects > 0 /\ fb.rect.f = "rect" /\ fb.rect.v = e
Area == fb.rect.n

\* The pseudo-encodings without data.
handleLastRect == Rect(enc.LastRect) /\ Done(<<>>, [fb EXCEPT !.rects = 1])
handleFlags == /\ \E e \in {enc.QEMUExtendedKeyEvent, enc.ExtendedMouseButtons} : Rect(e)
               /\ Done(<<>>, fb)

\* _resize acts on the canvas at once, whatever is queued, and repeats the
\* request for continuous updates.
resized == IF fb.cont THEN <<F("enable", 1)>> ELSE <<>>

\* Done, with messages to the server before those of Finish.
DoneSending(fields, m) ==
    /\ Shift(fields)
    /\ LET g == [fb EXCEPT !.rects = @ - 1, !.rect = NoRect]
       IN  IF g.rects = 0
           THEN /\ fb' = [g EXCEPT !.disp = flip(@)]
                /\ Sends(m \o IF g.cont THEN <<>> ELSE <<F("request", 1)>>)
                /\ NextMessage
           ELSE Sends(m) /\ fb' = g /\ UNCHANGED <<rfb, running>>

handleDesktopSize == Rect(enc.DesktopSize) /\ DoneSending(<<>>, resized)

\* A refused request of the client's (area 0) changes no size.
handleExtendedDesktopSize ==
    /\ Rect(enc.ExtendedDesktopSize)
    /\ IF rQwait(0, 1) \/ rQwait(0, 1 + rQ[1].v) THEN WaitFor(0, 0)
       ELSE DoneSending(<<"screens">> \o [k \in 1..rQ[1].v |-> "screen"],
                        IF Area = 0 THEN <<>> ELSE resized)

handleCursor ==
    /\ Rect(enc.Cursor)
    /\ IF rQwait(0, 1) THEN WaitFor(0, 0) ELSE Done(<<"pixels">>, fb)

\* One byte is waited for and two are shifted; the wait for the pixels puts
\* back both, the one that had not arrived included.
handleVMwareCursor ==
    /\ Rect(enc.VMwareCursor)
    /\ IF rQwait(0, 1) THEN WaitFor(0, 0)
       ELSE IF rQwait(2, 1) THEN WaitFor(2, 2)
       ELSE Done(<<"cursorType", "padding", "pixels">>, fb)

\* A mutant: the wait for the name does not put the length back.
handleDesktopNameNoGoback ==
    /\ Rect(enc.DesktopName)
    /\ IF rQwait(0, 1) THEN WaitFor(0, 0)
       ELSE IF rQwait(1, 1) THEN WaitFor(1, 0)
       ELSE Done(<<"nameLength", "name">>, fb)

handleDesktopName ==
    /\ Rect(enc.DesktopName)
    /\ IF rQwait(0, 1) THEN WaitFor(0, 0)
       ELSE IF rQwait(1, 1) THEN WaitFor(1, 1)
       ELSE Done(<<"nameLength", "name">>, fb)

handleLedEvent ==
    /\ Rect(enc.QEMULedEvent)
    /\ IF rQwait(0, 1) THEN WaitFor(0, 0) ELSE Done(<<"led">>, fb)

------------------------------------------------------------------------------
(* The decoders.                                                           *)

\* One line at a time.
rawDecode ==
    /\ Rect(enc.Raw)
    /\ IF Area = 0 THEN Done(<<>>, fb)
       ELSE LET left == IF fb.left = 0 THEN Area ELSE fb.left
                f == Blitted([fb EXCEPT !.left = left - 1])
            IN  IF rQwait(0, 1) THEN Waits(0, 0) /\ fb' = [fb EXCEPT !.left = left]
                ELSE IF left = 1 THEN Done(<<"line">>, f) ELSE GoOn(<<"line">>, f)

copyRectDecode ==
    /\ Rect(enc.CopyRect)
    /\ IF rQwait(0, 1) THEN WaitFor(0, 0)
       ELSE Done(<<"source">>, IF Area = 0 THEN fb ELSE [fb EXCEPT !.disp = copyImage(@)])

rreDecode ==
    /\ Rect(enc.RRE)
    /\ IF rQwait(0, 1) THEN WaitFor(0, 0)
       ELSE IF fb.left = 0
       THEN LET f == Filled([fb EXCEPT !.left = rQ[1].v])
            IN  IF f.left = 0 THEN Done(<<"subrects">>, f) ELSE GoOn(<<"subrects">>, f)
       ELSE LET f == Filled([fb EXCEPT !.left = @ - 1])
            IN  IF f.left = 0 THEN Done(<<"subrect">>, f) ELSE GoOn(<<"subrect">>, f)

\* One tile at a time, which is looked at until all of it is there.  sub is 1
\* for raw pixels, 0 for a blank tile, 2 with a colour, 8 with subrectangles.
hextileTile(sub) ==
    CASE sub = 0 -> <<"tile">>
      [] sub = 1 -> <<"tile", "tilePixels">>
      [] sub = 2 -> <<"tile", "colour">>
      [] sub = 8 -> <<"tile", "count">> \o [k \in 1..rQ[2].v |-> "tileRect"]
      [] OTHER -> <<"tile">>

hextileDecode ==
    /\ Rect(enc.Hextile)
    /\ IF Area = 0 THEN Done(<<>>, fb)
       ELSE LET left == IF fb.left = 0 THEN Area ELSE fb.left IN
            IF rQwait(0, 1) \/ (rQ[1].v = 8 /\ rQwait(1, 1)) \/ rQwait(0, Len(hextileTile(rQ[1].v)))
            THEN Waits(0, 0) /\ fb' = [fb EXCEPT !.left = left]
            ELSE LET sub == rQ[1].v
                     g == [fb EXCEPT !.left = left - 1, !.lastsub = sub]
                     f == CASE sub = 0 /\ fb.lastsub = 1 -> g
                            [] sub = 0 /\ fb.lastsub # 1 -> Filled(g)
                            [] OTHER -> Blitted(g)
                 IN  IF left = 1 THEN Done(hextileTile(sub), f) ELSE GoOn(hextileTile(sub), f)

\* The length of the data is kept while the data is missing; f is what the
\* decoder makes of the data.
lengthThenData(e, f) ==
    IF rQwait(0, 1) THEN WaitFor(0, 0)
    ELSE IF fb.len[e] = 0 THEN GoOn(<<"length">>, [fb EXCEPT !.len[e] = 1])
    ELSE Done(<<"data">>, [f EXCEPT !.len[e] = 0])

zlibDecode ==
    /\ Rect(enc.Zlib)
    /\ IF Area = 0 THEN Done(<<>>, fb) ELSE lengthThenData(enc.Zlib, Blitted(fb))

\* Each tile is drawn as it is inflated: a solid one is filled.
zrleTiles(f) ==
    CASE Area = 0 -> f
      [] Area = 1 -> Blitted(f)
      [] OTHER -> Filled(Blitted(f))

zrleDecode == Rect(enc.ZRLE) /\ lengthThenData(enc.ZRLE, zrleTiles(fb))

\* Tight and TightPNG each remember what they have read of a rectangle: the
\* compression control, the filter, the palette and the length of the data.
\* Area 1 is data too short to be compressed, 2 is longer.
TightStep(e, ctls) == Rect(e) /\ fb.tight[e].ctl \in ctls
tightDone(e, fields, f) == Done(fields, [f EXCEPT !.tight[e].ctl = -1, !.tight[e].filter = -1])

tightControl(e) ==
    /\ TightStep(e, {-1})
    /\ IF rQwait(0, 1) THEN WaitFor(0, 0)
       ELSE GoOn(<<"control">>, [fb EXCEPT !.tight[e].ctl = rQ[1].v])

tightFill(e) ==
    /\ TightStep(e, {8})
    /\ IF rQwait(0, 1) THEN WaitFor(0, 0) ELSE tightDone(e, <<"pixel">>, Filled(fb))

\* _readData: the length is kept while the data is missing.  f is what the
\* decoder makes of the data.
tightReadData(e, f) ==
    IF rQwait(0, 1) THEN WaitFor(0, 0)
    ELSE IF fb.tight[e].len = 0 THEN GoOn(<<"dataLength">>, [fb EXCEPT !.tight[e].len = 1])
    ELSE tightDone(e, <<"data">>, [f EXCEPT !.tight[e].len = 0])

tightImage(e) ==
    /\ TightStep(e, {9, 10})
    /\ IF (fb.tight[e].ctl = 10) # (e = enc.TightPNG) THEN Abort(<<>>)
       ELSE \E state \in LoadResults :
               tightReadData(e, [fb EXCEPT !.disp = imageRect(@, Area, state)])

\* Which filter follows; TightPNG has none.
tightBasic(e) ==
    /\ TightStep(e, 0..7) /\ fb.tight[e].filter = -1
    /\ IF e = enc.TightPNG THEN Abort(<<>>)
       ELSE IF fb.tight[e].ctl < 4 THEN GoOn(<<>>, [fb EXCEPT !.tight[e].filter = 0])
       ELSE IF rQwait(0, 1) THEN WaitFor(0, 0)
       ELSE GoOn(<<"filter">>, [fb EXCEPT !.tight[e].filter = rQ[1].v])

\* A filter's pixels, compressed or too short for it.
tightPixels(e, f) ==
    CASE Area = 0 -> tightDone(e, <<>>, fb)
      [] Area = 1 -> IF rQwait(0, 1) THEN WaitFor(0, 0) ELSE tightDone(e, <<"short">>, f)
      [] OTHER -> tightReadData(e, f)

tightCopyFilter(e) ==
    TightStep(e, 0..7) /\ fb.tight[e].filter = 0 /\ tightPixels(e, Blitted(fb))

tightPaletteFilter(e) ==
    /\ TightStep(e, 0..7) /\ fb.tight[e].filter = 1
    /\ IF fb.tight[e].colors = 1 THEN tightPixels(e, Blitted([fb EXCEPT !.tight[e].colors = 0]))
       ELSE IF rQwait(0, 1) \/ rQwait(0, 2) THEN WaitFor(0, 0)
       ELSE GoOn(<<"colors", "palette">>, [fb EXCEPT !.tight[e].colors = 1])

tightGradientFilter(e) ==
    TightStep(e, 0..7) /\ fb.tight[e].filter = 2 /\ tightPixels(e, Blitted(fb))

tightDecode ==
    \E e \in {enc.Tight, enc.TightPNG} :
       \/ tightControl(e) \/ tightFill(e) \/ tightImage(e)
       \/ tightBasic(e) \/ tightCopyFilter(e) \/ tightPaletteFilter(e) \/ tightGradientFilter(e)

\* One segment of a JPEG file at a time: a start or end marker, or a marker
\* with a length and a body.  A scan ends where the next marker is seen.
segment == [SOI |-> 216, SOF |-> 192, SOS |-> 218, EOI |-> 217]

\* The image that the segments make.
jpegImage(state) == [fb EXCEPT !.sof = FALSE, !.disp = imageRect(@, Area, state)]

jpegDecode ==
    /\ Rect(enc.JPEG)
    /\ IF rQwait(0, 1) THEN WaitFor(0, 0)
       ELSE IF rQ[1].v = segment.SOI THEN GoOn(<<"marker">>, fb)
       ELSE IF rQ[1].v = segment.EOI
       THEN IF ~fb.sof THEN Abort(<<"marker">>)
            ELSE \E state \in LoadResults :
                    Done(<<"marker">>, jpegImage(state))
       ELSE IF rQwait(1, 1) THEN WaitFor(1, 1)
       ELSE IF rQwait(2, 1) THEN WaitFor(2, 2)
       ELSE IF rQ[1].v = segment.SOS /\ rQwait(2, 2) THEN WaitFor(2, 2)
       ELSE GoOn(<<"marker", "segmentLength", "segment">>, [fb EXCEPT !.sof = @ \/ rQ[1].v = segment.SOF])

\* H.264.  The slices of a payload by its kind; without a key frame a decoder
\* that is not configured skips the payload.
Slices(kind) == CASE kind = 1 -> 1                                             \* a key frame
                  [] kind = 2 -> IF fb.video.configured THEN 1 ELSE 0          \* a delta
                  [] kind = 3 -> 2                                             \* both
                  [] OTHER -> 0

\* Each slice waits in _pendingFrames for the picture the decoder makes of it;
\* the last of a payload is kept, for the action that draws it.  The flags
\* (area 0) may drop the context first; its decoder still delivers.
h264Decode ==
    /\ Rect(enc.H264)
    /\ IF rQwait(0, 1) THEN WaitFor(0, 0)
       ELSE LET kind == rQ[1].v
                n == IF Area = 0 /\ kind = 2 THEN 0 ELSE Slices(kind)
                old == fb.video
                v == IF Area = 0 THEN [NoVideo EXCEPT !.dead = old.dead \o old.live] ELSE old
                new == [k \in 1..n |-> IF k = n THEN fb.disp.next ELSE 0]
                f == [fb EXCEPT !.video = [v EXCEPT !.configured = @ \/ n > 0, !.live = @ \o new],
                                !.disp = IF n > 0 THEN videoFrame(@) ELSE @]
            IN  IF kind > 0 /\ rQwait(1, 1) THEN WaitFor(1, 1)
                ELSE Done(<<"h264">> \o (IF kind > 0 THEN <<"payload">> ELSE <<>>), f)

------------------------------------------------------------------------------
(* Pictures that become ready, between two turns.                          *)

Between == running = "no" /\ UNCHANGED <<hsVars, peer>>

\* A broken image fires no load event: nothing happens then.
ImageLoads ==
    /\ Between
    /\ \E k \in 1..Len(fb.disp.q) :
          /\ fb.disp.q[k].state = "loading"
          /\ \A p \in {fb.video.live, fb.video.dead} : \A j \in 1..Len(p) : p[j] # fb.disp.q[k].id
          /\ fb' = [fb EXCEPT !.disp = Loaded(@, k)]

\* _handleFrame: the first pending frame gets the picture; one that nobody
\* keeps is closed.
handleFrame ==
    /\ Between
    /\ \E which \in {"live", "dead"} :
          /\ fb.video[which] # <<>>
          /\ LET f == [fb EXCEPT !.video[which] = Tail(@)]
                 id == Head(fb.video[which])
                 k == CHOOSE j \in 1..Len(fb.disp.q) : fb.disp.q[j].id = id
             IN  fb' = IF id = 0 THEN f ELSE [f EXCEPT !.disp = Loaded(@, k)]

------------------------------------------------------------------------------
(* The other messages.                                                     *)

handleBell == Message(2) /\ Shift(<<"message">>) /\ Quiet /\ fb' = fb /\ NextMessage

\* cut is 0 for plain text.  The extended messages: 1 the server's abilities,
\* which are answered, 2 a notification, on which the text is requested, and 5
\* the text.  In a view the text is left unread.
handleServerCutText ==
    /\ Message(3)
    /\ IF rQwait(1, 1) THEN WaitFor(1, 1)
       ELSE IF rQwait(2, IF rQ[2].v = 5 THEN 2 ELSE 1) THEN WaitFor(2, 2)
       ELSE /\ LET cut == rQ[2].v IN
               /\ Shift(<<"message", "cut", IF cut = 0 THEN "text" ELSE "flags">>
                        \o IF cut = 5 /\ ~fb.viewOnly THEN <<"zlibText">> ELSE <<>>)
               /\ fb' = [fb EXCEPT !.caps = @ \/ cut = 1]
               /\ Sends(CASE cut = 1 -> <<F("caps", 0)>>
                          [] cut = 2 /\ fb.caps /\ ~fb.viewOnly -> <<F("clipRequest", 0)>>
                          [] OTHER -> <<>>)
            /\ NextMessage

\* A mutant: the server is not told.
handleEndOfContinuousUpdatesSilently ==
    /\ Message(150) /\ Shift(<<"message">>)
    /\ fb' = [fb EXCEPT !.supportsCont = TRUE, !.cont = ~fb.supportsCont]
    /\ Quiet
    /\ NextMessage

\* The first announcement switches continuous updates on.
handleEndOfContinuousUpdates ==
    /\ Message(150) /\ Shift(<<"message">>)
    /\ fb' = [fb EXCEPT !.supportsCont = TRUE, !.cont = ~fb.supportsCont]
    /\ Sends(IF fb.supportsCont THEN <<>> ELSE <<F("enable", 1)>>)
    /\ NextMessage

handleServerFence ==
    /\ Message(248)
    /\ IF rQwait(1, 1) THEN WaitFor(1, 1)
       ELSE IF rQwait(2, 1) THEN WaitFor(2, 2)
       ELSE /\ Shift(<<"message", "fence", "fenceData">>) /\ fb' = fb
            /\ Sends(<<F("fence", 0)>>) /\ NextMessage

\* An illegal message (2) fails the connection, and the loop goes on reading.
handleXvp ==
    /\ Message(250)
    /\ IF rQwait(1, 1) THEN WaitFor(1, 1)
       ELSE /\ Shift(<<"message", "xvp">>) /\ fb' = fb /\ Quiet
            /\ rfb' = IF rQ[2].v = 2 THEN fail(rfb) ELSE rfb
            /\ running' = IF rQ' = <<>> THEN "no" ELSE "loop"

\* Also what SetColourMapEntries (1) comes to.
unexpectedMessage ==
    /\ Handling /\ fb.rects = 0 /\ rQ # <<>>
    /\ rQ[1].f # "message" \/ rQ[1].v \notin {0, 2, 3, 150, 248, 250}
    /\ Shift(<<"message">>) /\ Quiet /\ fb' = fb
    /\ Failed
    /\ running' = IF rQ' = <<>> \/ rQ[1].v = 1 THEN "no" ELSE "loop"

------------------------------------------------------------------------------
(* The specification.                                                      *)

normalMsg ==
    \/ framebufferUpdate \/ Paused \/ rectHeader
    \/ handleLastRect \/ handleFlags \/ handleDesktopSize \/ handleExtendedDesktopSize
    \/ handleCursor \/ handleVMwareCursor \/ handleDesktopName \/ handleLedEvent
    \/ rawDecode \/ copyRectDecode \/ rreDecode \/ hextileDecode \/ zlibDecode \/ zrleDecode
    \/ tightDecode \/ jpegDecode \/ h264Decode
    \/ handleBell \/ handleServerCutText \/ handleEndOfContinuousUpdates
    \/ handleServerFence \/ handleXvp \/ unexpectedMessage

\* The callback of flush() runs before anything else can.
Others == fb.disp.flush # "resolved"

Handshaking == Others /\ HandshakeSteps /\ UNCHANGED <<fb, peer>>
Pictures == Others /\ (ImageLoads \/ handleFrame)
UserAnswers == Others /\ sendCredentials /\ UNCHANGED <<fb, peer>>

FramesNext ==
    \/ Handshaking \/ UserAnswers \/ ServerListens
    \/ SendUpdate \/ SendOther
    \/ normalMsg \/ Flushed \/ Pictures

\* The client and the network never stop, a server that owes the handshake an
\* answer gives it, images load.  A page need not answer and a server need not speak.
FramesSpec ==
    /\ FramesInit /\ [][FramesNext]_framesVars
    /\ WF_framesVars(Handshaking) /\ WF_framesVars(ServerListens)
    /\ WF_framesVars(normalMsg) /\ WF_framesVars(Flushed) /\ WF_framesVars(Pictures)

------------------------------------------------------------------------------
(* Properties.                                                             *)

\* Display draws in the order in which the decoders drew, and leaves nothing
\* out, whatever waits for a picture (renderQ, _scanRenderQ).
InOrder == DrawnInOrder(fb.disp)

\* "Make sure the previous frame is fully rendered first": while an update's
\* rectangles are decoded, nothing of an earlier update is queued.
OneUpdateQueued ==
    fb.rects > 0 /\ ~fb.flushing => \A k \in 1..Len(fb.disp.q) : ~fb.disp.q[k].old

\* Server and client never wait for each other: when all is quiet, a request
\* for an update is with the server or updates are continuous.  The code has one
\* gap: an update without rectangles met while the display is pending.
KeepsAsking ==
    /\ rfb.st = "connected" /\ running = "no" /\ ~fb.flushing /\ fb.rects = 0
    /\ net = <<>> /\ up = <<>> /\ rQ = <<>> /\ ~fb.forgot
    => (peer.asked \/ peer.cont)

\* What arrives is read to its end: no decoder and no handler sleeps on data that
\* is there, and a pause for the display ends, unless an image is broken.
Broken == \E k \in 1..Len(fb.disp.q) : fb.disp.q[k].state = "broken"
ReadsOn == <>[](rfb.st = "connected" => (net = <<>> /\ rQ = <<>> /\ fb.rects = 0) \/ Broken)
==============================================================================
