SPECIFICATION Spec
CONSTANTS
  Shift1 = Shift1
  Shift2 = Shift2
  Keys <- MCKeys
  NoKey = NoKey
  Kind <- MCKind
  MaxHeld = 3
  MaxLine = 1
SYMMETRY Symmetry
INVARIANTS TypeOK FlagsFollowKeys LettersAsTyped CtrlOnlyWhileHeld
PROPERTY CapsOncePerPress
