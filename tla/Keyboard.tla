------------------------------ MODULE Keyboard ------------------------------
(***************************************************************************)
(* noVNC's Keyboard (core/input/keyboard.js): the keys it holds to be      *)
(* down, and the corrections for what the platforms do to key events.  The *)
(* operators below are the methods, from a keyboard to a keyboard.  The    *)
(* key events that a call sends are told by what they do: "down" has the   *)
(* keysyms that are down at the other end.                                 *)
(***************************************************************************)

Platforms == {"windows", "mac", "other"}
shifts == {"ShiftLeft", "ShiftRight"}
metas == {"MetaLeft", "MetaRight"}
jpBadKeys == {"Zenkaku_Hankaku", "Eisu_toggle", "Katakana", "Hiragana", "Romaji"}

\* list: _keyDownList, from the code of a key to its keysym.  armed: a Control
\* waits for the AltRight that would make it an AltGr.
NewKeyboard == [list |-> <<>>, armed |-> FALSE, down |-> {}]

Codes(k) == DOMAIN k.list

sendKeyDown(k, sym, code) ==
    [k EXCEPT !.list = [c \in Codes(k) \cup {code} |-> IF c = code THEN sym ELSE k.list[c]],
              !.down = @ \cup {sym}]

\* Only what is held to be down is released.
sendKeyUp(k, code) ==
    IF code \notin Codes(k) THEN k
    ELSE [k EXCEPT !.list = [c \in Codes(k) \ {code} |-> k.list[c]],
                   !.down = @ \ {k.list[code]}]

PressAndRelease(k, sym, code) == sendKeyUp(sendKeyDown(k, sym, code), code)

interruptAltGrSequence(k) ==
    IF k.armed THEN sendKeyDown([k EXCEPT !.armed = FALSE], "Control_L", "ControlLeft") ELSE k

\* The next key press tells: AltGr, or Control and another key.
AltGrEnds(k, code, quick) ==
    IF code = "AltRight" /\ quick THEN [k EXCEPT !.armed = FALSE] ELSE interruptAltGrSequence(k)

MacKeysyms == [Super_L |-> "Alt_L", Super_R |-> "Super_L",
               Alt_L |-> "Mode_switch", Alt_R |-> "ISO_Level3_Shift"]

\* A mutant: an auto-repeat is sent with the keysym it has now.
KeysymNow(k, platform, sym, code, quick) == sym

\* The keysym that is sent: AltGr, the platform's, or the one it is down with.
KeysymOf(k, platform, sym, code, quick) ==
    LET list == AltGrEnds(k, code, quick).list
    IN  CASE code \in DOMAIN list -> list[code]
          [] code \notin DOMAIN list /\ k.armed /\ code = "AltRight" /\ quick -> "ISO_Level3_Shift"
          [] code \notin DOMAIN list /\ platform = "mac" /\ sym \in DOMAIN MacKeysyms ->
                MacKeysyms[sym]
          [] OTHER -> sym

\* No release will come for these keys.
ReleasedAtOnce(platform, sym, code, meta) ==
    \/ platform = "mac" /\ meta /\ code \notin metas
    \/ platform = "windows" /\ sym \in jpBadKeys

\* quick: less than 50 ms after the Control that is armed.  meta: Meta is held.
handleKeyDown(k, platform, sym, code, quick, meta) ==
    LET key == KeysymOf(k, platform, sym, code, quick)
        j == AltGrEnds(k, code, quick)
    IN  IF code = "Unidentified" THEN PressAndRelease(j, sym, code)
        ELSE IF ReleasedAtOnce(platform, key, code, meta) THEN PressAndRelease(j, key, code)
        ELSE IF platform = "mac" /\ code = "CapsLock" THEN PressAndRelease(j, "Caps_Lock", code)
        ELSE IF code = "ControlLeft" /\ platform = "windows" /\ code \notin Codes(j)
        THEN [j EXCEPT !.armed = TRUE]
        ELSE sendKeyDown(j, key, code)

\* Windows tells of the release of one Shift only when both are released.
BothShifts(k, platform, code) ==
    IF platform = "windows" /\ code \in shifts
    THEN sendKeyUp(sendKeyUp(k, "ShiftRight"), "ShiftLeft") ELSE k

handleKeyUp(k, platform, code) ==
    LET j == interruptAltGrSequence(k)
    IN  IF platform = "mac" /\ code = "CapsLock" THEN PressAndRelease(j, "Caps_Lock", code)
        ELSE BothShifts(sendKeyUp(j, code), platform, code)

allKeysUp(k) ==
    LET j == interruptAltGrSequence(k)
    IN  [j EXCEPT !.list = <<>>, !.down = @ \ {j.list[c] : c \in Codes(j)}]
==============================================================================
