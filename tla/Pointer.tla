------------------------------ MODULE Pointer ------------------------------
(***************************************************************************)
(* The mouse half of rfb.js with the capture of util/events.js: browser    *)
(* mouse events become pointer messages.  `ptr` holds what the client      *)
(* remembers beside what the server was last told (at, down); the          *)
(* positions are those of the framebuffer (absX and absY of the display).  *)
(***************************************************************************)
EXTENDS Console, Integers

CONSTANTS Buttons,      \* the buttons of the mouse
          WheelButtons, \* buttons 3 to 6, that only the wheel presses
          Spots,        \* positions, on a line
          DragThreshold,
          WheelDeltas,  \* deltaX or deltaY of a wheel event
          WheelStep, LineHeight

Nowhere == -1           \* the server was told of no position yet

ASSUME PointerAssumption ==
  /\ Spots \subseteq Nat
  /\ Buttons \cap WheelButtons = {}
  /\ WheelButtons = {"back", "forth"}
  /\ WheelDeltas \subseteq Int
  /\ DragThreshold \in Nat /\ WheelStep \in Nat \ {0} /\ LineHeight \in Nat \ {0}

VARIABLES dragViewport, \* the page lets the user drag the viewport
          ptr,          \* mouse state of the client, and the server's view
          wheel,        \* _accumulatedWheelDeltaX, or Y
          captured,     \* document.captureElement is the canvas
          pressed,      \* the buttons the user really holds
          chorded       \* two buttons were once held together

pointerVars == <<connState, viewOnly, dragViewport, ptr, wheel, captured,
                 pressed, chorded>>

PointerInit ==
  /\ connState = "connecting"
  /\ viewOnly \in BOOLEAN
  /\ dragViewport \in BOOLEAN
  /\ ptr = [pos |-> Nowhere, buttons |-> {}, timer |-> FALSE,
            dragging |-> FALSE, dragPos |-> Nowhere, moved |-> FALSE,
            seen |-> Nowhere, at |-> Nowhere, down |-> {}]
  /\ wheel = 0
  /\ captured = FALSE
  /\ pressed = {}
  /\ chorded = FALSE

AbsDiff(a, b) == IF a < b THEN b - a ELSE a - b

SendMouse(p, at, buttons) ==
  IF Sending THEN [p EXCEPT !.at = at, !.down = buttons] ELSE p

\* Where the user last pointed, of which the server should come to know.
Seen(p, at) == IF Sending THEN [p EXCEPT !.seen = at] ELSE p

(***************************************************************************)
(* _handleMouseButton.  With dragViewport a press may start a drag of the  *)
(* viewport; the release that ends one without movement is a click.  A     *)
(* delayed move is sent before the button.                                 *)
(***************************************************************************)
StartDrag(p, at) ==
  [p EXCEPT !.dragging = TRUE, !.dragPos = at, !.moved = FALSE]

\* Mutant of FlushMove: the delayed move is dropped and its timer kept.
KeepMove(p, at) == p

FlushMove(p, at) ==
  IF p.timer THEN SendMouse([p EXCEPT !.timer = FALSE], at, p.buttons) ELSE p

\* Mutant of Click: a release forgets to clear its bit in the mask.
ClickStuck(p, at, down, b) ==
  LET f == FlushMove(p, at)
      mask == f.buttons \union {b}
  IN  SendMouse([f EXCEPT !.buttons = mask], at, mask)

Click(p, at, down, b) ==
  LET f == FlushMove(p, at)
      mask == IF down THEN f.buttons \union {b} ELSE f.buttons \ {b}
  IN  SendMouse([f EXCEPT !.buttons = mask], at, mask)

MouseButton(q, at, down, b) ==
  LET p == Seen(q, at)
      idle == [p EXCEPT !.dragging = FALSE]
  IN  CASE ~dragViewport -> Click(p, at, down, b)
        [] dragViewport /\ down /\ ~p.dragging -> StartDrag(p, at)
        [] dragViewport /\ ~(down /\ ~p.dragging) /\ p.moved -> idle
        [] OTHER -> Click(SendMouse(idle, at, {b}), at, down, b)

(***************************************************************************)
(* _handleMouseMove: at most one move every MOUSE_MOVE_DELAY ms is sent.   *)
(* Whether the last one was sent too short a time ago is `soon`; a move is *)
(* then remembered and left to a timer, later ones only replace it.        *)
(***************************************************************************)
DragTo(p, at) ==
  IF p.moved \/ AbsDiff(p.dragPos, at) > DragThreshold
  THEN [p EXCEPT !.moved = TRUE, !.dragPos = at]
  ELSE p

\* Mutant of MouseMove: a move is remembered only when it starts the timer.
MouseMoveOnce(q, at, soon) ==
  LET p == Seen(q, at)
  IN  CASE p.dragging -> DragTo(p, at)
        [] ~p.dragging /\ p.timer -> p
        [] ~p.dragging /\ ~p.timer /\ soon -> [p EXCEPT !.pos = at, !.timer = TRUE]
        [] OTHER -> SendMouse([p EXCEPT !.pos = at], at, p.buttons)

MouseMove(q, at, soon) ==
  LET p == Seen(q, at)
  IN  CASE p.dragging -> DragTo(p, at)
        [] ~p.dragging /\ p.timer -> [p EXCEPT !.pos = at]
        [] ~p.dragging /\ ~p.timer /\ soon -> [p EXCEPT !.pos = at, !.timer = TRUE]
        [] OTHER -> SendMouse([p EXCEPT !.pos = at], at, p.buttons)

(***************************************************************************)
(* The mouse, as the capture lets its events through.  A press on the      *)
(* canvas captures it: a proxy element then covers the page, which passes  *)
(* on moves and releases wherever they happen, but no presses, and gives   *)
(* the capture up at the first release.  Without it only what happens over *)
(* the canvas (`over`) is heard.                                           *)
(***************************************************************************)
MouseDown(b, at, over) ==
  LET heard == over /\ ~captured
  IN
  /\ b \notin pressed
  /\ pressed' = pressed \union {b}
  /\ chorded' = (chorded \/ pressed # {})
  /\ captured' = (captured \/ (heard /\ Live))
  /\ ptr' = IF heard /\ Live THEN MouseButton(ptr, at, TRUE, b) ELSE ptr
  /\ UNCHANGED <<connState, viewOnly, dragViewport, wheel>>

MouseUp(b, at, over) ==
  LET heard == over \/ captured
  IN
  /\ b \in pressed
  /\ pressed' = pressed \ {b}
  /\ captured' = FALSE
  /\ ptr' = IF heard /\ Live THEN MouseButton(ptr, at, FALSE, b) ELSE ptr
  /\ UNCHANGED <<connState, viewOnly, dragViewport, wheel, chorded>>

\* A move over the canvas, or anywhere while the mouse is captured.
MouseMoved(at, soon) ==
  /\ Live
  /\ ptr' = MouseMove(ptr, at, soon)
  /\ UNCHANGED <<connState, viewOnly, dragViewport, wheel, captured, pressed, chorded>>

\* Mutant of HandleDelayedMouseMove: the timer runs out and nothing is sent.
DelayedMoveDropped ==
  /\ Live /\ ptr.timer
  /\ ptr' = [ptr EXCEPT !.timer = FALSE]
  /\ UNCHANGED <<connState, viewOnly, dragViewport, wheel, captured, pressed, chorded>>

HandleDelayedMouseMove ==
  /\ Live /\ ptr.timer
  /\ ptr' = SendMouse([ptr EXCEPT !.timer = FALSE], ptr.pos, ptr.buttons)
  /\ UNCHANGED <<connState, viewOnly, dragViewport, wheel, captured, pressed, chorded>>

(***************************************************************************)
(* _handleWheel, on one of its two axes (the other is the same code with   *)
(* an accumulator of its own): small deltas are added up until they make a *)
(* step, which is a press and a release of a wheel button.                 *)
(***************************************************************************)
\* Mutant of HandleWheel: a step does not empty the accumulator.
WheelKeepsSum(delta, lines, at) ==
  /\ Sending
  /\ wheel' = wheel + delta
  /\ UNCHANGED <<connState, viewOnly, dragViewport, ptr, captured, pressed, chorded>>

HandleWheel(delta, lines, at) ==
  LET sum == wheel + delta * (IF lines THEN LineHeight ELSE 1)
      b == IF sum < 0 THEN "back" ELSE "forth"
      step == AbsDiff(sum, 0) >= WheelStep
  IN
  /\ Sending
  /\ ptr' = IF step THEN MouseButton(MouseButton(ptr, at, TRUE, b), at, FALSE, b)
            ELSE ptr
  /\ wheel' = IF step THEN 0 ELSE sum
  /\ UNCHANGED <<connState, viewOnly, dragViewport, captured, pressed, chorded>>

PointerConnect ==
  /\ Connect
  /\ UNCHANGED <<viewOnly, dragViewport, ptr, wheel, captured, pressed, chorded>>

\* _disconnect stops listening and clears the timer; the capture stays.
PointerDrop ==
  /\ Drop
  /\ ptr' = [ptr EXCEPT !.timer = FALSE]
  /\ UNCHANGED <<viewOnly, dragViewport, wheel, captured, pressed, chorded>>

PointerNext ==
  \/ \E b \in Buttons, at \in Spots, over \in BOOLEAN :
       MouseDown(b, at, over) \/ MouseUp(b, at, over)
  \/ \E at \in Spots, soon \in BOOLEAN : MouseMoved(at, soon)
  \/ HandleDelayedMouseMove
  \/ \E delta \in WheelDeltas, lines \in BOOLEAN, at \in Spots :
       HandleWheel(delta, lines, at)
  \/ PointerConnect
  \/ PointerDrop

PointerFairness == WF_pointerVars(HandleDelayedMouseMove)

PointerSpec == PointerInit /\ [][PointerNext]_pointerVars /\ PointerFairness

-----------------------------------------------------------------------------
PointerTypeOK ==
  /\ connState \in ConnStates
  /\ viewOnly \in BOOLEAN /\ dragViewport \in BOOLEAN
  /\ {ptr.pos, ptr.dragPos, ptr.seen, ptr.at} \subseteq Nat \union {Nowhere}
  /\ ptr.buttons \union ptr.down \subseteq Buttons \union WheelButtons
  /\ ptr.timer \in BOOLEAN /\ ptr.dragging \in BOOLEAN /\ ptr.moved \in BOOLEAN
  /\ wheel \in 1 - WheelStep .. WheelStep - 1
  /\ captured \in BOOLEAN /\ chorded \in BOOLEAN
  /\ pressed \subseteq Buttons

(***************************************************************************)
(* No stuck button: a user who never held two buttons together holds every *)
(* button the server believes down, wherever the pointer was released and  *)
(* whatever became of moves and wheel steps in between.                    *)
(***************************************************************************)
NoStuckButton ==
  connState = "connected" /\ ~chorded => ptr.down \subseteq pressed

(***************************************************************************)
(* The throttle loses no position: with no delayed move pending the server *)
(* has the pointer where the user last put it.                             *)
(***************************************************************************)
PointerInSync ==
  Sending /\ ~dragViewport /\ ~ptr.timer /\ ptr.seen # Nowhere
    => ptr.at = ptr.seen

(***************************************************************************)
(* A move does arrive: the server has the pointer where the user put it in *)
(* the end, unless the user moves on or the session is over.               *)
(***************************************************************************)
LastMoveArrives ==
  \A s \in Spots :
    Sending /\ ~dragViewport /\ ptr.seen = s
      ~> (ptr.at = s \/ ptr.seen # s \/ ~Sending)
=============================================================================
