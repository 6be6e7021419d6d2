SPECIFICATION MCSpec
CONSTANTS
  Codes = {"ControlLeft", "AltRight", "ShiftLeft", "ShiftRight", "CapsLock",
           "MetaLeft", "MetaRight", "Unidentified", "KeyA", "KanaMode"}
  Keysyms = {"Control_L", "ISO_Level3_Shift", "Caps_Lock", "Alt_L", "Alt_R",
             "Super_L", "Super_R", "Mode_switch", "a", "A", "Romaji", "Shift_L"}
  Keymap <- MCKeymap
  MaxLed = 2
  Buttons = {"b0", "b1", "b2"}
  WheelButtons = {"back", "forth"}
  Spots = {0, 5, 20}
  DragThreshold = 10
  WheelStep = 50
  LineHeight = 19
  WheelDeltas <- MCWheelDeltas
  f1 = f1
  f2 = f2
  f3 = f3
  Fingers = {f1, f2, f3}
  StartSpot = 60
  Reach <- MCReach
  MoveThreshold = 50
  ScrollSens = 50
  ZoomSens = 75
  DoubleTapThreshold = 50
INVARIANTS
  InputTypeOK
  KeysLetGo
  ButtonsLetGo
  PointerInSync
  HandlersNeverThrow
  TouchesLetGo
PROPERTIES
  CtrlFirst
  LockFollows
  GesturesPaired
  MovesArrive
CHECK_DEADLOCK FALSE
