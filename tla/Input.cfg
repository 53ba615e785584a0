SPECIFICATION InputSpec
CONSTANTS
    Setups <- MCSetups
    KeysOf <- MCKeysOf
    Keysyms <- MCKeysyms
    Buttons <- MCButtons
    FingersOf <- MCFingersOf
    Places <- MCPlaces
    MaxHeld = 3
\* The object is of no use after it has disconnected.
CHECK_DEADLOCK FALSE
INVARIANTS KeysReleased ButtonsReleased FingersKnown
PROPERTIES PointerCatchesUp
