--------------------------- MODULE MCConsoleInput ---------------------------
(***************************************************************************)
(* What noVNC does with the user's input, on small instances: a keyboard   *)
(* of three platforms, a mouse of three buttons with its wheel, three      *)
(* fingers.  One part runs in a behaviour, and the others stand still.     *)
(***************************************************************************)
EXTENDS Keyboard, Gestures, TLC

CONSTANTS f1, f2, f3

VARIABLE part           \* the part that runs

ownKeyboard == <<platform, qemu, grabbed, focus, altGr, keys, localLock, led>>
ownPointer == <<dragViewport, ptr, wheel, captured, pressed, chorded>>

\* The fingers of a session that is connected already.
MCInit ==
  /\ part \in {"keyboard", "pointer", "gestures"}
  /\ connState = IF part = "gestures" THEN "connected" ELSE "connecting"
  /\ viewOnly \in BOOLEAN /\ dragViewport \in BOOLEAN
  /\ platform \in Platforms /\ qemu = FALSE
  /\ grabbed = FALSE /\ focus = "canvas" /\ altGr = FALSE
  /\ keys = [down |-> [c \in Codes |-> Up], held |-> {}, remoteLock |-> Unknown,
             lock |-> "off", sent |-> <<>>]
  /\ localLock = "off" /\ led = <<>>
  /\ ptr = [pos |-> Nowhere, buttons |-> {}, timer |-> FALSE, dragging |-> FALSE,
            dragPos |-> Nowhere, moved |-> FALSE, seen |-> Nowhere,
            at |-> Nowhere, down |-> {}]
  /\ wheel = 0 /\ captured = FALSE /\ pressed = {} /\ chorded = FALSE
  /\ GesturesInit
  /\ part # "keyboard" => platform = "other"
  /\ part # "pointer" => ~dragViewport
  /\ part = "gestures" => ~viewOnly

KeyboardPart == part = "keyboard" /\ KeyboardNext
                /\ UNCHANGED <<part, ownPointer, touchVars>>
PointerPart  == part = "pointer" /\ PointerNext
                /\ UNCHANGED <<part, ownKeyboard, touchVars>>
GesturesPart == part = "gestures" /\ GesturesNext
                /\ UNCHANGED <<part, ownKeyboard>>

MCNext == KeyboardPart \/ PointerPart \/ GesturesPart

MCVars == <<part, ownKeyboard, gesturesVars>>

MCSpec == MCInit /\ [][MCNext]_MCVars /\ PointerFairness

-----------------------------------------------------------------------------
MCKeymap ==
  [windows |-> {<<"ControlLeft", "Control_L">>, <<"AltRight", "Alt_R">>,
                <<"ShiftLeft", "Shift_L">>, <<"ShiftRight", "Shift_L">>,
                <<"KeyA", "a">>, <<"KeyA", "A">>, <<"KanaMode", "Romaji">>},
   mac     |-> {<<"MetaLeft", "Super_L">>, <<"AltRight", "Alt_R">>,
                <<"KeyA", "a">>, <<"KeyA", "A">>, <<"CapsLock", "Caps_Lock">>},
   other   |-> {<<"CapsLock", "Caps_Lock">>, <<"KeyA", "a">>,
                <<"KeyA", NoSymbol>>, <<"Unidentified", "a">>,
                <<"Unidentified", NoSymbol>>}]

MCWheelDeltas == {-30, 0, 30}

\* The first finger moves both ways, the second away once, the third not.
MCReach == f1 :> {0, 60, 120} @@ f2 :> {120} @@ f3 :> {60}

-----------------------------------------------------------------------------
\* The fields of the state have their types.
InputTypeOK == KeyboardTypeOK /\ PointerTypeOK /\ GesturesTypeOK

(***************************************************************************)
(* Of the mouse alone: no button is left down.                             *)
(***************************************************************************)
ButtonsLetGo == part = "pointer" => NoStuckButton

(***************************************************************************)
(* Of the touches alone: lifting every finger resets the handler.          *)
(***************************************************************************)
TouchesLetGo == part = "gestures" => LiftedIsReset

(***************************************************************************)
(* The last move of a mouse reaches the server in the end.                 *)
(***************************************************************************)
MovesArrive == part = "pointer" => LastMoveArrives
=============================================================================
