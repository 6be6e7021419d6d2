------------------------------ MODULE Gestures ------------------------------
(***************************************************************************)
(* input/gesturehandler.js and what rfb.js makes of a gesture: touches     *)
(* become gestures, gestures become pointer messages.  A set of gestures   *)
(* stands for the bit mask of those still possible; positions lie on a     *)
(* line, so that a touch moves one way or the other; elapsed times are     *)
(* choices (`late`, `slow`, `again`), timers are actions.                  *)
(***************************************************************************)
EXTENDS Pointer, Sequences

CONSTANTS Fingers,        \* touch identifiers, used again once lifted
          StartSpot,      \* where a touch begins
          Reach,          \* Reach[f]: the spots finger f moves to
          MoveThreshold,  \* GH_MOVE_THRESHOLD
          ScrollSens, ZoomSens, DoubleTapThreshold

Taps == {"onetap", "twotap", "threetap"}
AllGestures == Taps \union {"drag", "longpress", "twodrag", "pinch"}
Holding == {"drag", "longpress"}     \* gestures with a button down
None == "none"

ASSUME GesturesAssumption ==
  /\ {"b0", "b1", "b2"} \subseteq Buttons
  /\ StartSpot \in Nat /\ Reach \in [Fingers -> SUBSET Nat]
  /\ {MoveThreshold, ScrollSens, ZoomSens, DoubleTapThreshold} \subseteq Nat \ {0}

VARIABLES gh,         \* the GestureHandler
          onScreen,   \* the fingers that touch the canvas
          gesture,    \* the gesture its listeners believe in progress
          events,     \* what the last step dispatched to them
          tap,        \* _gestureFirstDoubleTapEv
          magnitude   \* _gestureLastMagnitudeX, or Y

touchVars == <<gh, onScreen, gesture, events, tap, magnitude>>
gesturesVars == <<pointerVars, touchVars>>

GesturesInit ==
  /\ gh = [state |-> AllGestures, tracked |-> <<>>, ignored |-> {},
           waiting |-> FALSE, longpress |-> FALSE, twoTouch |-> FALSE]
  /\ onScreen = {}
  /\ gesture = None
  /\ events = <<>>
  /\ tap = [type |-> None, pos |-> 0]
  /\ magnitude = 0

(***************************************************************************)
(* _hasDetectedGesture: one gesture is left, and a tap has all its touches *)
(* released.                                                               *)
(***************************************************************************)
HasDetected(g) ==
  /\ \E what \in AllGestures : g.state = {what}
  /\ g.state \subseteq Taps => \A i \in DOMAIN g.tracked : ~g.tracked[i].active

Tracks(g, id) == \E i \in DOMAIN g.tracked : g.tracked[i].id = id

Total(x) ==
  LET upTo[n \in 0 .. Len(x)] == IF n = 0 THEN 0 ELSE upTo[n - 1] + x[n]
  IN  upTo[Len(x)]

Average(g, Of(_)) ==
  Total([i \in DOMAIN g.tracked |-> Of(g.tracked[i])]) \div Len(g.tracked)

AverageMovement(g) == Average(g, LAMBDA t : t.last - t.first)

\* Between the first and the last touch that are tracked.
Distance(g, Of(_)) == AbsDiff(Of(g.tracked[1]), Of(g.tracked[Len(g.tracked)]))

(***************************************************************************)
(* _pushEvent: the event of a type for the gesture that was detected.  It  *)
(* carries a position (of the first touches for a start and for what stays *)
(* in place) and, for a pinch or a two finger drag, a magnitude.           *)
(***************************************************************************)
Event(g, type) ==
  LET what == CHOOSE x \in g.state : TRUE
      still == type = "start" \/ what \in {"twodrag", "pinch"}
  IN [type |-> type,
      gesture |-> what,
      pos |-> Average(g, LAMBDA t : IF still THEN t.first ELSE t.last),
      mag |-> CASE what = "pinch" /\ type = "start" -> Distance(g, LAMBDA t : t.first)
                [] what = "pinch" /\ type # "start" -> Distance(g, LAMBDA t : t.last)
                [] what = "twodrag" /\ type # "start" -> AverageMovement(g)
                [] OTHER -> 0]

(***************************************************************************)
(* _handleTapEvent: taps in quick succession land on the spot of the first *)
(* one.  A tap is a move, a press and a release.                           *)
(***************************************************************************)
DoubleTap(t, ev, again) ==
  again /\ t.type = ev.gesture /\ AbsDiff(t.pos, ev.pos) < DoubleTapThreshold

TapButton == [onetap |-> "b0", twotap |-> "b2", threetap |-> "b1"]
DragButton == [drag |-> "b0", longpress |-> "b2"]

Clicked(p, at, b) == MouseButton(MouseButton(p, at, TRUE, b), at, FALSE, b)

HandleTap(r, ev, soon, again) ==
  LET first == IF DoubleTap(r.tap, ev, again) THEN r.tap
               ELSE [type |-> ev.gesture, pos |-> ev.pos]
  IN [r EXCEPT !.tap = first,
               !.ptr = Clicked(MouseMove(@, first.pos, soon), first.pos,
                               TapButton[ev.gesture])]

(***************************************************************************)
(* The wheel steps of a move: as many presses and releases of a wheel      *)
(* button as the magnitude has grown or shrunk by more than `sens`.        *)
(***************************************************************************)
Steps(mag, last, sens) ==
  IF mag = last THEN 0 ELSE (AbsDiff(mag, last) - 1) \div sens

Scroll(r, ev, sens) ==
  LET n == Steps(ev.mag, r.mag, sens)
      b == IF ev.mag > r.mag THEN "back" ELSE "forth"
  IN [r EXCEPT !.ptr = IF n = 0 THEN @ ELSE Clicked(@, ev.pos, b),
               !.mag = IF ev.mag > @ THEN @ + n * sens ELSE @ - n * sens]

(***************************************************************************)
(* A pinch: the wheel steps come between a press and a release of Control, *)
(* both sent by this handler and past the keyboard's list, so that nothing *)
(* of it is left when the handler returns.                                 *)
(***************************************************************************)
Zoom(r, ev) == Scroll(r, ev, ZoomSens)

(***************************************************************************)
(* _handleGesture.                                                         *)
(***************************************************************************)
HandleStart(r, ev, soon, again) ==
  LET moved == [r EXCEPT !.ptr = MouseMove(@, ev.pos, soon)]
  IN CASE ev.gesture \in Taps -> HandleTap(r, ev, soon, again)
       [] ev.gesture \in Holding ->
            [moved EXCEPT !.ptr = MouseButton(@, ev.pos, TRUE, DragButton[ev.gesture])]
       [] OTHER -> [moved EXCEPT !.mag = ev.mag]

HandleMove(r, ev, soon) ==
  LET moved == [r EXCEPT !.ptr = MouseMove(@, ev.pos, soon)]
  IN CASE ev.gesture \in Taps -> r
       [] ev.gesture = "twodrag" -> Scroll(moved, ev, ScrollSens)
       [] ev.gesture = "pinch" -> Zoom(moved, ev)
       [] OTHER -> moved

HandleEnd(r, ev, soon) ==
  LET moved == [r EXCEPT !.ptr = MouseMove(@, ev.pos, soon)]
  IN IF ev.gesture \in Holding
     THEN [moved EXCEPT !.ptr = MouseButton(@, ev.pos, FALSE, DragButton[ev.gesture])]
     ELSE r

HandleGesture(r, ev, soon, again) ==
  CASE ev.type = "start" -> HandleStart(r, ev, soon, again)
    [] ev.type = "move" -> HandleMove(r, ev, soon)
    [] ev.type = "end" -> HandleEnd(r, ev, soon)

(***************************************************************************)
(* The events of a step, two at most, reach rfb.js one after the other.    *)
(***************************************************************************)
InProgress(was, evs) ==
  LET last == evs[Len(evs)]
  IN  CASE evs = <<>> -> was
        [] evs # <<>> /\ last.type = "end" -> None
        [] OTHER -> last.gesture

Dispatch(evs) ==
  \E soon, again \in IF evs = <<>> THEN {FALSE} ELSE BOOLEAN :
    LET handle(i, r) ==
          IF i \in DOMAIN evs THEN HandleGesture(r, evs[i], soon, again) ELSE r
        now == [ptr |-> ptr, tap |-> tap, mag |-> magnitude]
        r == handle(2, handle(1, now))
    IN  /\ events' = evs
        /\ gesture' = InProgress(gesture, evs)
        /\ ptr' = r.ptr /\ tap' = r.tap /\ magnitude' = r.mag
        /\ UNCHANGED <<connState, viewOnly, dragViewport, wheel, captured,
                       pressed, chorded>>

(***************************************************************************)
(* _touchStart.  A touch is ignored once a gesture was detected or given   *)
(* up, when it comes late (250 ms after the first), or when others are     *)
(* already being released.                                                 *)
(***************************************************************************)
\* Mutant of StopLongpress: the timer goes on.
StopNothing(g) == g

StopLongpress(g) == [g EXCEPT !.longpress = FALSE]

Ignore(g, id) == [g EXCEPT !.ignored = @ \union {id}]

Track(g, id, x) ==
  LET t == [id |-> id, first |-> x, last |-> x, angle |-> 0, active |-> TRUE]
      all == [g EXCEPT !.tracked = Append(@, t)]
  IN CASE Len(all.tracked) = 1 -> [all EXCEPT !.longpress = TRUE]
       [] Len(all.tracked) = 2 ->
            [StopLongpress(all) EXCEPT !.state = @ \ {"onetap", "drag", "longpress"}]
       [] Len(all.tracked) = 3 -> [all EXCEPT !.state = @ \ {"twotap", "twodrag", "pinch"}]
       [] OTHER -> [all EXCEPT !.state = {}]

TouchStart(id, x, late) ==
  /\ Live /\ id \notin onScreen
  /\ onScreen' = onScreen \union {id}
  /\ gh' = CASE HasDetected(gh) \/ gh.state = {} -> Ignore(gh, id)
             [] ~HasDetected(gh) /\ gh.state # {}
                /\ ((late /\ gh.tracked # <<>>) \/ gh.waiting) ->
                  Ignore([gh EXCEPT !.state = {}], id)
             [] OTHER -> Track(gh, id, x)
  /\ Dispatch(<<>>)

(***************************************************************************)
(* _touchMove.  The touch is looked up by its identifier among all that    *)
(* are tracked.  Two touches that both moved far enough are told apart by  *)
(* their directions; if only one did, a timer of 50 ms decides.            *)
(***************************************************************************)
MoveTouch(g, id, x) ==
  LET i == CHOOSE j \in DOMAIN g.tracked :
             g.tracked[j].id = id /\ \A k \in 1 .. j - 1 : g.tracked[k].id # id
      t == g.tracked[i]
      angle == IF x > t.first THEN 0 ELSE IF x < t.first THEN 180 ELSE t.angle
  IN [g EXCEPT !.tracked[i] = [t EXCEPT !.last = x, !.angle = angle]]

TwoTouches(g, t, other) ==
  IF AbsDiff(other.first, other.last) > MoveThreshold
  THEN [g EXCEPT !.twoTouch = FALSE,
                 !.state = @ \ IF t.angle # other.angle THEN {"twodrag"} ELSE {"pinch"}]
  ELSE [g EXCEPT !.twoTouch = TRUE]

Narrow(g, id) ==
  LET n == Len(g.tracked)
      t == CHOOSE x \in {g.tracked[i] : i \in 1 .. n} : x.id = id
      others == {x \in {g.tracked[i] : i \in 1 .. n} : x.id # id}
      ruledOut == Taps \union {"longpress"}
                  \union (IF n = 1 THEN {} ELSE {"drag"})
                  \union (IF n = 2 THEN {} ELSE {"twodrag", "pinch"})
      left == [StopLongpress(g) EXCEPT !.state = @ \ ruledOut]
  IN IF n = 2 /\ others # {} THEN TwoTouches(left, t, CHOOSE x \in others : TRUE) ELSE left

TouchMove(id, x) ==
  /\ Live /\ id \in onScreen
  /\ Tracks(gh, id)
  /\ LET moved == MoveTouch(gh, id, x)
         t == CHOOSE y \in {moved.tracked[i] : i \in DOMAIN moved.tracked} : y.id = id
         far == AbsDiff(x, t.first) >= MoveThreshold
         g == Narrow(moved, id)
     IN CASE HasDetected(gh) ->
               gh' = moved /\ Dispatch(<<Event(moved, "move")>>)
          [] ~HasDetected(gh) /\ ~far ->
               gh' = moved /\ Dispatch(<<>>)
          [] ~HasDetected(gh) /\ far /\ ~HasDetected(g) ->
               gh' = g /\ Dispatch(<<>>)
          [] OTHER ->
               gh' = g /\ Dispatch(<<Event(g, "start"), Event(g, "move")>>)
  /\ UNCHANGED onScreen

(***************************************************************************)
(* _touchEnd.  An ignored touch is forgotten.  Of the others the first one *)
(* released decides how many fingers a tap has; a gesture that was         *)
(* detected, or can no longer be, ends here and the touches left are       *)
(* ignored until they are lifted.                                          *)
(***************************************************************************)
Reset(g) ==
  IF g.ignored = {} THEN [g EXCEPT !.state = AllGestures, !.waiting = FALSE] ELSE g

\* Mutant of Forget: the state is reset only after a gesture that was tracked.
ForgetOnly(g, id) == [g EXCEPT !.ignored = @ \ {id}]

Forget(g, id) ==
  LET left == [g EXCEPT !.ignored = @ \ {id}]
  IN  IF left.tracked = <<>> THEN Reset(left) ELSE left

Release1st(g) ==
  LET calm == IF g.twoTouch THEN [g EXCEPT !.twoTouch = FALSE, !.state = {}] ELSE g
      n == Len(g.tracked)
      notTaps == CASE ~g.waiting /\ n = 1 -> {"twotap", "threetap"}
                   [] ~g.waiting /\ n = 2 -> {"onetap", "threetap"}
                   [] OTHER -> {}
  IN [StopLongpress(calm) EXCEPT !.waiting = TRUE,
                                 !.state = @ \ (notTaps \union (AllGestures \ Taps))]

Lift(g, id, slow) ==
  [g EXCEPT !.state = IF slow THEN {} ELSE @,
            !.tracked = [i \in DOMAIN g.tracked |->
                           IF g.tracked[i].id = id
                           THEN [g.tracked[i] EXCEPT !.active = FALSE]
                           ELSE g.tracked[i]]]

\* Mutant of GiveUp: the touches that remain are forgotten at once.
GiveUpAll(g, id) ==
  [g EXCEPT !.tracked = <<>>, !.state = AllGestures, !.waiting = FALSE,
            !.ignored = @ \ {id}]

GiveUp(g, id) ==
  LET active == {g.tracked[i].id : i \in {j \in DOMAIN g.tracked : g.tracked[j].active}}
  IN  Reset([g EXCEPT !.tracked = <<>>, !.state = {},
                      !.ignored = (@ \union active) \ {id}])

TouchEnd(id, slow) ==
  LET detected == HasDetected(gh)
      released == IF detected THEN gh ELSE Release1st(gh)
      lifted == IF released.waiting THEN Lift(released, id, slow) ELSE released
  IN
  /\ Live /\ id \in onScreen
  /\ onScreen' = onScreen \ {id}
  /\ CASE id \in gh.ignored ->
            gh' = Forget(gh, id) /\ Dispatch(<<>>)
       [] id \notin gh.ignored /\ HasDetected(lifted) ->
            /\ gh' = GiveUp(lifted, id)
            /\ Dispatch(IF lifted.waiting
                        THEN <<Event(lifted, "start"), Event(lifted, "end")>>
                        ELSE <<Event(lifted, "end")>>)
       [] id \notin gh.ignored /\ ~HasDetected(lifted) /\ lifted.state # {} ->
            gh' = lifted /\ Dispatch(<<>>)
       [] OTHER ->
            gh' = GiveUp(lifted, id) /\ Dispatch(<<>>)

LongpressTimeout ==
  /\ gh.longpress
  /\ LET g == [gh EXCEPT !.longpress = FALSE, !.state = {"longpress"}]
     IN  gh' = g /\ Dispatch(<<Event(g, "start")>>)
  /\ UNCHANGED onScreen

(***************************************************************************)
(* _twoTouchTimeout: a pinch if the touches came closer, or moved apart,   *)
(* by more than they moved on average.                                     *)
(***************************************************************************)
TwoTouchTimeout ==
  /\ gh.twoTouch
  /\ LET apart == AbsDiff(Distance(gh, LAMBDA t : t.first), Distance(gh, LAMBDA t : t.last))
         pinch == AbsDiff(AverageMovement(gh), 0) < apart
         g == [gh EXCEPT !.twoTouch = FALSE, !.state = {IF pinch THEN "pinch" ELSE "twodrag"}]
     IN  gh' = g /\ Dispatch(<<Event(g, "start"), Event(g, "move")>>)
  /\ UNCHANGED onScreen

TouchDrop ==
  /\ PointerDrop
  /\ gh' = [StopLongpress(gh) EXCEPT !.twoTouch = FALSE]
  /\ events' = <<>>
  /\ UNCHANGED <<onScreen, gesture, tap, magnitude>>

PointerAlone ==
  /\ HandleDelayedMouseMove \/ PointerConnect
  /\ events' = <<>>
  /\ UNCHANGED <<gh, onScreen, gesture, tap, magnitude>>

GesturesNext ==
  \/ \E id \in Fingers, late \in BOOLEAN : TouchStart(id, StartSpot, late)
  \/ \E id \in Fingers : \E x \in Reach[id] : TouchMove(id, x)
  \/ \E id \in Fingers, slow \in BOOLEAN : TouchEnd(id, slow)
  \/ LongpressTimeout
  \/ TwoTouchTimeout
  \/ TouchDrop
  \/ PointerAlone

GesturesSpec ==
  PointerInit /\ GesturesInit /\ [][GesturesNext]_gesturesVars /\ PointerFairness

-----------------------------------------------------------------------------
GesturesTypeOK ==
  /\ gh.state \subseteq AllGestures /\ gh.ignored \subseteq Fingers
  /\ \A i \in DOMAIN gh.tracked : gh.tracked[i].id \in Fingers
  /\ gesture \in AllGestures \union {None}
  /\ onScreen \subseteq Fingers

(***************************************************************************)
(* Whatever touches and timers do, a gesture moves and ends only under the *)
(* name it started with, and one that holds a button down starts once and  *)
(* is not interrupted by another.  (A two finger gesture may start twice   *)
(* or never end: its timer can run while one finger is lifted already.)    *)
(***************************************************************************)
Follows(was, ev) ==
  IF ev.type = "start" THEN was \notin Holding ELSE was = ev.gesture

EventsPaired ==
  \A i \in DOMAIN events' :
    Follows(InProgress(gesture, SubSeq(events', 1, i - 1)), events'[i])

GesturesPaired == [][EventsPaired]_gesturesVars

(***************************************************************************)
(* No handler throws: a long press never fires on top of a gesture, the    *)
(* timer of two touches finds touches, and every finger on the canvas is   *)
(* known, so that its end is found.                                        *)
(***************************************************************************)
HandlersNeverThrow ==
  Live =>
    /\ gh.longpress => ~HasDetected(gh) /\ gh.tracked # <<>>
    /\ gh.twoTouch => gh.tracked # <<>>
    /\ \A id \in onScreen : id \in gh.ignored \/ Tracks(gh, id)

(***************************************************************************)
(* Once every finger is lifted the handler is as new: the next touch is a  *)
(* first touch, no gesture holds a button, and the server has none down.   *)
(***************************************************************************)
LiftedIsReset ==
  Live /\ onScreen = {} =>
    /\ gh.state = AllGestures /\ gh.tracked = <<>> /\ ~gh.waiting
    /\ ~gh.longpress /\ ~gh.twoTouch
    /\ gesture \notin Holding
    /\ connState = "connected" => ptr.down = {}
=============================================================================
