------------------------------ MODULE MCFrames ------------------------------
\* Bounds for TLC: what servers announce, and which updates and messages they send.
EXTENDS Grammar

MCVersions == {0, 33, 37, 38, 99}
MCTypeLists == {<<>>, <<5>>, <<5, sec.VNCAuth>>, <<sec.VeNCrypt, sec.Plain>>}
               \cup {<<t>> : t \in clientTypes}
MCOptions == {{}, {"password"}, {"username", "password", "target"}}

\* A rectangle of encoding e and area n, and its data.
R(e, n, data) == <<[f |-> "rect", v |-> e, n |-> n]>> \o data
T(e, n, ctl, data) == R(e, n, <<F("control", ctl)>> \o data)
Data == <<F("dataLength", 1), F("data", 0)>>
Palette == <<F("colors", 1), F("palette", 0)>>
Marker(m) == F("marker", m)
Segment(m) == <<Marker(m), F("segmentLength", 1), F("segment", 0)>>
Jpeg == <<Marker(segment.SOI)>> \o Segment(segment.SOF) \o Segment(segment.SOS) \o <<Marker(segment.EOI)>>

Paint == R(enc.CopyRect, 1, <<F("source", 0)>>)
Image == T(enc.TightPNG, 1, 10, Data)
Video(kind, area) == R(enc.H264, area, <<F("h264", kind), F("payload", 0)>>)
Length == <<F("length", 1), F("data", 0)>>

Rects ==
    {Paint, Image, Video(1, 1), Video(3, 1), Video(2, 1),
     R(enc.Raw, 2, <<F("line", 0), F("line", 0)>>), R(enc.Raw, 0, <<>>),
     R(enc.CopyRect, 0, <<F("source", 0)>>),
     R(enc.RRE, 1, <<F("subrects", 0)>>),
     R(enc.RRE, 1, <<F("subrects", 2), F("subrect", 0), F("subrect", 0)>>),
     R(enc.Hextile, 2, <<F("tile", 1), F("tilePixels", 0), F("tile", 0)>>),
     R(enc.Hextile, 2, <<F("tile", 8), F("count", 1), F("tileRect", 0), F("tile", 0)>>),
     R(enc.Hextile, 1, <<F("tile", 2), F("colour", 0)>>), R(enc.Hextile, 0, <<>>),
     R(enc.Zlib, 1, Length), R(enc.Zlib, 0, <<>>), R(enc.ZRLE, 2, Length), R(enc.ZRLE, 0, Length),
     T(enc.Tight, 1, 8, <<F("pixel", 0)>>), T(enc.Tight, 1, 9, Data), T(enc.Tight, 0, 9, Data),
     T(enc.Tight, 1, 0, <<F("short", 0)>>), T(enc.Tight, 2, 1, Data), T(enc.Tight, 0, 0, <<>>),
     T(enc.Tight, 2, 4, <<F("filter", 0)>> \o Data),
     T(enc.Tight, 1, 5, <<F("filter", 2), F("short", 0)>>),
     T(enc.Tight, 2, 4, <<F("filter", 1)>> \o Palette \o Data),
     T(enc.Tight, 1, 10, Data), T(enc.TightPNG, 1, 0, <<>>),
     R(enc.JPEG, 1, Jpeg), R(enc.JPEG, 1, <<Marker(segment.SOI), Marker(segment.EOI)>>),
     R(enc.DesktopSize, 1, <<>>), R(enc.QEMUExtendedKeyEvent, 0, <<>>),
     R(enc.Cursor, 1, <<F("pixels", 0)>>), R(enc.QEMULedEvent, 0, <<F("led", 0)>>),
     R(enc.VMwareCursor, 1, <<F("cursorType", 0), F("padding", 0), F("pixels", 0)>>),
     R(enc.DesktopName, 0, <<F("nameLength", 1), F("name", 0)>>),
     R(enc.ExtendedDesktopSize, 1, <<F("screens", 1), F("screen", 0)>>),
     R(enc.ExtendedDesktopSize, 0, <<F("screens", 0)>>)}

M(type) == <<F("message", type)>>
Update(n, rects) == M(0) \o <<F("rects", n)>> \o rects

\* Every rectangle alone; pictures and what is drawn beside them; an update
\* that ends with LastRect, and one without rectangles.
MCUpdates ==
    {Update(1, r) : r \in Rects}
    \cup {Update(2, r \o s) : r \in {Image, Video(1, 1), Paint}, s \in {Image, Video(2, 0), Paint}}
    \cup {Update(2, Image \o r) : r \in {R(enc.DesktopSize, 1, <<>>), T(enc.Tight, 2, 1, Data)}}
    \cup {Update(9, Paint \o R(enc.LastRect, 0, <<>>)), Update(0, <<>>)}

Cut(v, data) == M(3) \o <<F("cut", v)>> \o data
MCOtherMessages ==
    {M(2), M(1), M(77), M(150), M(250) \o <<F("xvp", 1)>>, M(250) \o <<F("xvp", 2)>>,
     M(248) \o <<F("fence", 0), F("fenceData", 0)>>,
     Cut(0, <<F("text", 0)>>), Cut(1, <<F("flags", 0)>>), Cut(2, <<F("flags", 0)>>),
     Cut(5, <<F("flags", 0), F("zlibText", 0)>>)}

MCLoadResults == {"loading", "ready", "broken"}
=============================================================================
