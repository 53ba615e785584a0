------------------------------- MODULE MCInput -------------------------------
\* Bounds for TLC: a few keys that stand for the kinds keyboard.js tells apart.
EXTENDS Input, TLC

MCFingersOf == {"keyboard"} :> {} @@ {"touch"} :> 1..3 @@ {"mouse", "touch"} :> {1}
MCSetups == DOMAIN MCFingersOf
MCKeysyms == [ControlLeft |-> {"Control_L"}, AltRight |-> {"Alt_R"}, ShiftLeft |-> {"Shift_L"},
              ShiftRight |-> {"Shift_R"}, MetaLeft |-> {"Super_L"}, MetaRight |-> {"Super_R"},
              CapsLock |-> {"Caps_Lock"}, KeyA |-> {"a", "A"}, Lang5 |-> {"Zenkaku_Hankaku"}]
MCKeysOf == [windows |-> {"ControlLeft", "AltRight", "ShiftLeft", "ShiftRight", "Lang5"},
             mac |-> {"MetaLeft", "MetaRight", "CapsLock", "KeyA"},
             other |-> {"ControlLeft", "ShiftLeft", "KeyA"}]
MCButtons == {"left", "right"}
MCPlaces == {"here"}
==============================================================================
