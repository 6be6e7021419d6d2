----------------------------- MODULE InputProofs ------------------------------
(***************************************************************************)
(* What reaches the server from the mouse and from touches, for any number *)
(* of buttons, spots, wheel steps and fingers.                             *)
(*                                                                         *)
(* The mouse: the throttle of moves loses no position, and no button is    *)
(* left down.  The invariant says where the last position is while the     *)
(* timer runs, and ties the buttons in the mask to the one the user holds  *)
(* and to the capture that will bring its release.                         *)
(*                                                                         *)
(* Touches: no handler throws, a gesture moves and ends under the name it  *)
(* started with, and nothing is held once all fingers are lifted.  The     *)
(* invariant lists how far a set of touches can have got (Phase), says     *)
(* which fingers the handler knows (Known), and ties the gesture that the  *)
(* listeners believe in to the one that was detected (Believed) and to the *)
(* button that the server has down (HandInv).                              *)
(*                                                                         *)
(* Last, what the run of all the input checks of its three parts, with the *)
(* keyboard's invariant from KeyboardProofs.                               *)
(***************************************************************************)
EXTENDS MCConsoleInput, KeyboardProofs, WellFoundedInduction

All == Buttons \union WheelButtons
Pos == Nat \union {Nowhere}

Ptrs == [pos : Pos, buttons : SUBSET All, timer : BOOLEAN, dragging : BOOLEAN,
         dragPos : Pos, moved : BOOLEAN, seen : Pos, at : Pos, down : SUBSET All]

\* Where the user's last position is.
Sync(p) ==
  Sending /\ ~dragViewport /\ p.seen # Nowhere =>
    IF p.timer THEN p.pos = p.seen ELSE p.at = p.seen

\* The server knows no button that the client does not.
Told(p) == p.down \subseteq (IF Sending THEN p.buttons ELSE {})

\* A user who held no two buttons together holds what the client counts.
Single(p) ==
  /\ \A a, b \in pressed : a = b
  /\ p.buttons \subseteq pressed
  /\ p.buttons # {} => captured
  /\ p.dragging => pressed # {} /\ captured
  /\ dragViewport => p.buttons = {}

PInv ==
  /\ connState \in ConnStates /\ viewOnly \in BOOLEAN /\ dragViewport \in BOOLEAN
  /\ ptr \in Ptrs
  /\ wheel \in 1 - WheelStep .. WheelStep - 1
  /\ captured \in BOOLEAN /\ chorded \in BOOLEAN
  /\ pressed \subseteq Buttons
  /\ ~dragViewport => ~ptr.dragging
  /\ ~Sending /\ Live => ptr.seen = Nowhere
  /\ Sync(ptr)
  /\ Live => Told(ptr)
  /\ Live /\ ~chorded => Single(ptr)

-----------------------------------------------------------------------------
(* A message tells the server of a position and of buttons, or is dropped. *)
LEMMA SendMouseDoes ==
  \A p \in Ptrs, at \in Pos, mask \in SUBSET All :
    LET s == SendMouse(p, at, mask) IN
    /\ s \in Ptrs
    /\ s.pos = p.pos /\ s.buttons = p.buttons /\ s.timer = p.timer
    /\ s.dragging = p.dragging /\ s.moved = p.moved /\ s.seen = p.seen
    /\ s.at = (IF Sending THEN at ELSE p.at)
    /\ s.down = (IF Sending THEN mask ELSE p.down)
<1> TAKE p \in Ptrs, at \in Pos, mask \in SUBSET All
<1> DEFINE sent == [p EXCEPT !.at = at, !.down = mask]
<1>1. /\ sent \in Ptrs
      /\ sent.pos = p.pos /\ sent.buttons = p.buttons /\ sent.timer = p.timer
      /\ sent.dragging = p.dragging /\ sent.moved = p.moved /\ sent.seen = p.seen
      /\ sent.at = at /\ sent.down = mask
  BY DEF Ptrs
<1> HIDE DEF sent
<1>2. CASE Sending
  <2>1. SendMouse(p, at, mask) = sent
    BY <1>2 DEF SendMouse, sent
  <2> QED
    BY <1>1, <1>2, <2>1
<1>3. CASE ~Sending
  <2>1. SendMouse(p, at, mask) = p
    BY <1>3 DEF SendMouse
  <2> QED
    BY <1>3, <2>1
<1> QED
  BY <1>2, <1>3

\* The parts of a state that only the drag of the viewport looks at.
SameDrag(p, q) == p.dragging = q.dragging /\ p.moved = q.moved

(* A delayed move goes out before the button. *)
LEMMA FlushMoveDoes ==
  \A p \in Ptrs, at \in Nat :
    LET f == FlushMove(p, at) IN
    /\ f \in Ptrs /\ SameDrag(f, p)
    /\ f.timer = FALSE /\ f.pos = p.pos /\ f.seen = p.seen /\ f.buttons = p.buttons
    /\ ~Sending => f.down = p.down
<1> SUFFICES ASSUME NEW p \in Ptrs, NEW at \in Nat
    PROVE  LET f == FlushMove(p, at) IN
           /\ f \in Ptrs /\ SameDrag(f, p)
           /\ f.timer = FALSE /\ f.pos = p.pos /\ f.seen = p.seen /\ f.buttons = p.buttons
           /\ ~Sending => f.down = p.down
  OBVIOUS
<1> DEFINE calm == [p EXCEPT !.timer = FALSE]
           sent == SendMouse(calm, at, p.buttons)
<1>1. at \in Pos /\ p.buttons \in SUBSET All
  BY PointerAssumption DEF PointerAssumption, Pos, Ptrs
<1>2. /\ calm \in Ptrs /\ SameDrag(calm, p) /\ calm.timer = FALSE /\ calm.pos = p.pos
      /\ calm.seen = p.seen /\ calm.buttons = p.buttons /\ calm.down = p.down
  BY DEF Ptrs, SameDrag
<1> HIDE DEF calm
<1>3. /\ sent \in Ptrs /\ sent.pos = calm.pos /\ sent.buttons = calm.buttons
      /\ sent.timer = calm.timer /\ SameDrag(sent, calm) /\ sent.seen = calm.seen
      /\ sent.down = (IF Sending THEN p.buttons ELSE calm.down)
  BY <1>1, <1>2, SendMouseDoes DEF SameDrag
<1> HIDE DEF sent
<1>4. FlushMove(p, at) = IF p.timer THEN sent ELSE p
  BY DEF FlushMove, sent, calm
<1>5. CASE p.timer = TRUE
  BY <1>2, <1>3, <1>4, <1>5 DEF SameDrag
<1>6. CASE p.timer = FALSE
  BY <1>4, <1>6 DEF SameDrag
<1> QED
  BY <1>5, <1>6 DEF Ptrs

\* What every click does, whatever its new mask is.
Struck(c, p, at, mask) ==
  /\ c \in Ptrs /\ SameDrag(c, p)
  /\ c.timer = FALSE /\ c.seen = p.seen /\ c.buttons = mask
  /\ Sending => c.at = at /\ c.down = mask
  /\ ~Sending => c.down = p.down

(* A button pressed is in the mask that is sent, one released is not.      *)
LEMMA ClickDoes ==
  \A p \in Ptrs, at \in Nat, b \in All :
    /\ Struck(Click(p, at, TRUE, b), p, at, p.buttons \union {b})
    /\ Struck(Click(p, at, FALSE, b), p, at, p.buttons \ {b})
<1> SUFFICES ASSUME NEW p \in Ptrs, NEW at \in Nat, NEW b \in All
    PROVE  /\ Struck(Click(p, at, TRUE, b), p, at, p.buttons \union {b})
           /\ Struck(Click(p, at, FALSE, b), p, at, p.buttons \ {b})
  OBVIOUS
<1> DEFINE f == FlushMove(p, at)
           masked(mask) == [f EXCEPT !.buttons = mask]
<1>1. /\ f \in Ptrs /\ SameDrag(f, p) /\ f.timer = FALSE /\ f.pos = p.pos
      /\ f.seen = p.seen /\ f.buttons = p.buttons /\ (~Sending => f.down = p.down)
  BY FlushMoveDoes
<1>2. /\ Click(p, at, TRUE, b)
           = SendMouse(masked(f.buttons \union {b}), at, f.buttons \union {b})
      /\ Click(p, at, FALSE, b) = SendMouse(masked(f.buttons \ {b}), at, f.buttons \ {b})
  BY DEF Click
<1>3. at \in Pos /\ f.buttons \union {b} \in SUBSET All /\ f.buttons \ {b} \in SUBSET All
  BY <1>1, PointerAssumption DEF PointerAssumption, Pos, Ptrs
<1> HIDE DEF f
<1>4. ASSUME NEW mask \in SUBSET All
      PROVE  Struck(SendMouse(masked(mask), at, mask), p, at, mask)
  <2>1. /\ masked(mask) \in Ptrs /\ SameDrag(masked(mask), f)
        /\ masked(mask).timer = f.timer /\ masked(mask).seen = f.seen
        /\ masked(mask).buttons = mask /\ masked(mask).down = f.down
    BY <1>1 DEF Ptrs, SameDrag
  <2> HIDE DEF masked
  <2> DEFINE s == SendMouse(masked(mask), at, mask)
  <2>2. /\ s \in Ptrs /\ SameDrag(s, masked(mask))
        /\ s.timer = masked(mask).timer /\ s.seen = masked(mask).seen
        /\ s.buttons = masked(mask).buttons
        /\ s.at = (IF Sending THEN at ELSE masked(mask).at)
        /\ s.down = (IF Sending THEN mask ELSE masked(mask).down)
    BY <1>3, <2>1, SendMouseDoes DEF SameDrag
  <2> HIDE DEF s
  <2>3. Struck(s, p, at, mask)
    BY <1>1, <2>1, <2>2 DEF Struck, SameDrag
  <2> QED
    BY <2>3 DEF s
<1>5. /\ Struck(Click(p, at, TRUE, b), p, at, f.buttons \union {b})
      /\ Struck(Click(p, at, FALSE, b), p, at, f.buttons \ {b})
  BY <1>2, <1>3, <1>4
<1> QED
  BY <1>1, <1>5

-----------------------------------------------------------------------------
(* The position of an event is noted, if the server should come to know.   *)
LEMMA SeenDoes ==
  \A q \in Ptrs, at \in Nat :
    LET p == Seen(q, at) IN
    /\ p \in Ptrs /\ SameDrag(p, q)
    /\ p.pos = q.pos /\ p.timer = q.timer /\ p.buttons = q.buttons
    /\ p.down = q.down /\ p.at = q.at
    /\ p.seen = IF Sending THEN at ELSE q.seen
<1> TAKE q \in Ptrs, at \in Nat
<1> DEFINE noted == [q EXCEPT !.seen = at]
<1>1. at \in Pos
  BY PointerAssumption DEF PointerAssumption, Pos
<1>2. /\ noted \in Ptrs /\ SameDrag(noted, q)
      /\ noted.pos = q.pos /\ noted.timer = q.timer /\ noted.buttons = q.buttons
      /\ noted.down = q.down /\ noted.at = q.at /\ noted.seen = at
  BY <1>1 DEF Ptrs, SameDrag
<1> HIDE DEF noted
<1>3. CASE Sending
  <2>1. Seen(q, at) = noted
    BY <1>3 DEF Seen, noted
  <2> QED
    BY <1>2, <1>3, <2>1
<1>4. CASE ~Sending
  <2>1. Seen(q, at) = q
    BY <1>4 DEF Seen
  <2> QED
    BY <1>4, <2>1 DEF SameDrag
<1> QED
  BY <1>3, <1>4

\* What is true of every button event, over a state q in which Told.
Pushed(r, q, at) ==
  /\ r \in Ptrs
  /\ r.seen = (IF Sending THEN at ELSE q.seen)
  /\ Told(q) => Told(r)
  /\ ~dragViewport /\ Sending => r.at = at /\ r.timer = FALSE
  /\ dragViewport => r.moved \in {q.moved, FALSE}

(* A press: a click, or the start or the end of a drag of the viewport.    *)
LEMMA PressDoes ==
  \A q \in Ptrs, at \in Nat, b \in All :
    LET r == MouseButton(q, at, TRUE, b) IN
    /\ Pushed(r, q, at)
    /\ ~dragViewport => r.buttons = q.buttons \union {b} /\ r.dragging = q.dragging
    /\ dragViewport /\ ~q.dragging => r.buttons = q.buttons /\ r.dragging /\ ~r.moved
    /\ dragViewport /\ q.dragging =>
         /\ ~r.dragging /\ r.moved = q.moved
         /\ r.buttons = IF q.moved THEN q.buttons ELSE q.buttons \union {b}
<1> TAKE q \in Ptrs, at \in Nat, b \in All
<1> DEFINE p == Seen(q, at)
           idle == [p EXCEPT !.dragging = FALSE]
           said == SendMouse(idle, at, {b})
           start == StartDrag(p, at)
           r == MouseButton(q, at, TRUE, b)
           Goal ==
             /\ Pushed(r, q, at)
             /\ ~dragViewport => r.buttons = q.buttons \union {b} /\ r.dragging = q.dragging
             /\ dragViewport /\ ~q.dragging =>
                  r.buttons = q.buttons /\ r.dragging /\ ~r.moved
             /\ dragViewport /\ q.dragging =>
                  /\ ~r.dragging /\ r.moved = q.moved
                  /\ r.buttons = IF q.moved THEN q.buttons ELSE q.buttons \union {b}
<1>1. /\ p \in Ptrs /\ SameDrag(p, q) /\ p.buttons = q.buttons /\ p.down = q.down
      /\ p.seen = IF Sending THEN at ELSE q.seen
  BY SeenDoes
<1>2. at \in Pos /\ {b} \in SUBSET All
  BY PointerAssumption DEF PointerAssumption, Pos
<1>3. r = CASE ~dragViewport -> Click(p, at, TRUE, b)
            [] dragViewport /\ ~p.dragging -> start
            [] dragViewport /\ p.dragging /\ p.moved -> idle
            [] OTHER -> Click(said, at, TRUE, b)
  BY DEF MouseButton
<1> HIDE DEF p, r
<1>4. /\ idle \in Ptrs /\ idle.dragging = FALSE /\ idle.moved = p.moved
      /\ idle.buttons = p.buttons /\ idle.down = p.down /\ idle.seen = p.seen
  BY <1>1 DEF Ptrs
<1>5. /\ start \in Ptrs /\ start.dragging = TRUE /\ start.moved = FALSE
      /\ start.buttons = p.buttons /\ start.down = p.down /\ start.seen = p.seen
  BY <1>1, <1>2 DEF StartDrag, Ptrs
<1> HIDE DEF idle, start
<1>6. /\ said \in Ptrs /\ said.dragging = FALSE /\ said.moved = p.moved
      /\ said.buttons = p.buttons /\ said.seen = p.seen
      /\ ~Sending => said.down = p.down
  BY <1>2, <1>4, SendMouseDoes
<1> HIDE DEF said
<1>7. ASSUME ~dragViewport PROVE Goal
  <2>1. Struck(r, p, at, p.buttons \union {b})
    BY <1>1, <1>3, <1>7, ClickDoes
  <2> QED
    BY <1>1, <1>7, <2>1 DEF Struck, Pushed, Told, SameDrag
<1>8. ASSUME dragViewport /\ ~q.dragging PROVE Goal
  <2>1. r = start
    BY <1>1, <1>3, <1>8 DEF SameDrag
  <2> QED
    BY <1>1, <1>5, <1>8, <2>1 DEF Pushed, Told
<1>9. ASSUME dragViewport /\ q.dragging /\ q.moved PROVE Goal
  <2>1. r = idle
    BY <1>1, <1>3, <1>9 DEF SameDrag
  <2> QED
    BY <1>1, <1>4, <1>9, <2>1 DEF Pushed, Told, SameDrag
<1>10. ASSUME dragViewport /\ q.dragging /\ ~q.moved PROVE Goal
  <2>1. r = Click(said, at, TRUE, b)
    BY <1>1, <1>3, <1>10 DEF SameDrag
  <2>2. Struck(r, said, at, said.buttons \union {b})
    BY <1>6, <2>1, ClickDoes
  <2> QED
    BY <1>1, <1>6, <1>10, <2>2 DEF Struck, Pushed, Told, SameDrag
<1> QED
  BY <1>7, <1>8, <1>9, <1>10 DEF r

(* A release: a click, or the end of a drag of the viewport.               *)
LEMMA ReleaseDoes ==
  \A q \in Ptrs, at \in Nat, b \in All :
    LET r == MouseButton(q, at, FALSE, b) IN
    /\ Pushed(r, q, at)
    /\ ~dragViewport => r.buttons = q.buttons \ {b} /\ r.dragging = q.dragging
    /\ dragViewport => /\ ~r.dragging
                       /\ r.buttons = IF q.moved THEN q.buttons ELSE q.buttons \ {b}
<1> TAKE q \in Ptrs, at \in Nat, b \in All
<1> DEFINE p == Seen(q, at)
           idle == [p EXCEPT !.dragging = FALSE]
           said == SendMouse(idle, at, {b})
           r == MouseButton(q, at, FALSE, b)
           Goal ==
             /\ Pushed(r, q, at)
             /\ ~dragViewport => r.buttons = q.buttons \ {b} /\ r.dragging = q.dragging
             /\ dragViewport => /\ ~r.dragging
                                /\ r.buttons = IF q.moved THEN q.buttons ELSE q.buttons \ {b}
<1>1. /\ p \in Ptrs /\ SameDrag(p, q) /\ p.buttons = q.buttons /\ p.down = q.down
      /\ p.seen = IF Sending THEN at ELSE q.seen
  BY SeenDoes
<1>2. at \in Pos /\ {b} \in SUBSET All
  BY PointerAssumption DEF PointerAssumption, Pos
<1>3. r = CASE ~dragViewport -> Click(p, at, FALSE, b)
            [] dragViewport /\ p.moved -> idle
            [] OTHER -> Click(said, at, FALSE, b)
  BY DEF MouseButton
<1> HIDE DEF p, r
<1>4. /\ idle \in Ptrs /\ idle.dragging = FALSE /\ idle.moved = p.moved
      /\ idle.buttons = p.buttons /\ idle.down = p.down /\ idle.seen = p.seen
  BY <1>1 DEF Ptrs
<1> HIDE DEF idle
<1>5. /\ said \in Ptrs /\ said.dragging = FALSE /\ said.moved = p.moved
      /\ said.buttons = p.buttons /\ said.seen = p.seen
      /\ ~Sending => said.down = p.down
  BY <1>2, <1>4, SendMouseDoes
<1> HIDE DEF said
<1>6. ASSUME ~dragViewport PROVE Goal
  <2>1. Struck(r, p, at, p.buttons \ {b})
    BY <1>1, <1>3, <1>6, ClickDoes
  <2> QED
    BY <1>1, <1>6, <2>1 DEF Struck, Pushed, Told, SameDrag
<1>7. ASSUME dragViewport /\ q.moved PROVE Goal
  <2>1. r = idle
    BY <1>1, <1>3, <1>7 DEF SameDrag
  <2> QED
    BY <1>1, <1>4, <1>7, <2>1 DEF Pushed, Told, SameDrag
<1>8. ASSUME dragViewport /\ ~q.moved PROVE Goal
  <2>1. r = Click(said, at, FALSE, b)
    BY <1>1, <1>3, <1>8 DEF SameDrag
  <2>2. Struck(r, said, at, said.buttons \ {b})
    BY <1>5, <2>1, ClickDoes
  <2> QED
    BY <1>1, <1>5, <1>8, <2>2 DEF Struck, Pushed, Told, SameDrag
<1> QED
  BY <1>6, <1>7, <1>8 DEF r

(* A move is sent, or left to the timer, or drags the viewport.            *)
LEMMA MouseMoveDoes ==
  \A q \in Ptrs, at \in Nat, soon \in BOOLEAN :
    LET r == MouseMove(q, at, soon) IN
    /\ r \in Ptrs /\ r.buttons = q.buttons /\ r.dragging = q.dragging
    /\ r.seen = IF Sending THEN at ELSE q.seen
    /\ Told(q) => Told(r)
    /\ ~q.dragging /\ Sending => IF r.timer THEN r.pos = at ELSE r.at = at
<1> TAKE q \in Ptrs, at \in Nat, soon \in BOOLEAN
<1> DEFINE p == Seen(q, at)
           drag == [p EXCEPT !.moved = TRUE, !.dragPos = at]
           later == [p EXCEPT !.pos = at]
           timed == [p EXCEPT !.pos = at, !.timer = TRUE]
           sent == SendMouse(later, at, p.buttons)
           r == MouseMove(q, at, soon)
           Goal ==
             /\ r \in Ptrs /\ r.buttons = q.buttons /\ r.dragging = q.dragging
             /\ r.seen = IF Sending THEN at ELSE q.seen
             /\ Told(q) => Told(r)
             /\ ~q.dragging /\ Sending => IF r.timer THEN r.pos = at ELSE r.at = at
<1>1. /\ p \in Ptrs /\ SameDrag(p, q) /\ p.buttons = q.buttons /\ p.down = q.down
      /\ p.timer = q.timer /\ p.seen = IF Sending THEN at ELSE q.seen
  BY SeenDoes
<1>2. at \in Pos /\ p.buttons \in SUBSET All
  BY <1>1, PointerAssumption DEF PointerAssumption, Pos, Ptrs
<1>3. /\ p.dragging => r = drag \/ r = p
      /\ ~p.dragging /\ p.timer => r = later
      /\ ~p.dragging /\ ~p.timer => r = timed \/ r = sent
  BY DEF MouseMove, DragTo
<1> HIDE DEF p, r
<1>4. /\ drag \in Ptrs /\ drag.buttons = p.buttons /\ drag.dragging = p.dragging
      /\ drag.seen = p.seen /\ drag.down = p.down
  BY <1>1, <1>2 DEF Ptrs
<1>5. /\ later \in Ptrs /\ later.buttons = p.buttons /\ later.dragging = p.dragging
      /\ later.seen = p.seen /\ later.down = p.down /\ later.timer = p.timer
      /\ later.pos = at
  BY <1>1, <1>2 DEF Ptrs
<1>6. /\ timed \in Ptrs /\ timed.buttons = p.buttons /\ timed.dragging = p.dragging
      /\ timed.seen = p.seen /\ timed.down = p.down /\ timed.timer = TRUE
      /\ timed.pos = at
  BY <1>1, <1>2 DEF Ptrs
<1> HIDE DEF drag, later, timed
<1>7. /\ sent \in Ptrs /\ sent.buttons = later.buttons /\ sent.dragging = later.dragging
      /\ sent.seen = later.seen /\ sent.timer = later.timer
      /\ sent.down = (IF Sending THEN p.buttons ELSE later.down)
      /\ sent.at = (IF Sending THEN at ELSE later.at)
  BY <1>2, <1>5, SendMouseDoes
<1> HIDE DEF sent
<1>8. ASSUME p.dragging PROVE Goal
  BY <1>1, <1>3, <1>4, <1>8 DEF SameDrag, Told
<1>9. ASSUME ~p.dragging, p.timer PROVE Goal
  BY <1>1, <1>3, <1>5, <1>9 DEF SameDrag, Told
<1>10. ASSUME ~p.dragging, ~p.timer, r = timed PROVE Goal
  BY <1>1, <1>6, <1>10 DEF SameDrag, Told
<1>11. ASSUME ~p.dragging, ~p.timer, r = sent PROVE Goal
  BY <1>1, <1>5, <1>7, <1>11 DEF SameDrag, Told
<1> QED
  BY <1>3, <1>8, <1>9, <1>10, <1>11 DEF r

-----------------------------------------------------------------------------
\* What a handler may do to the pointer while the user's hand is still.
Settled(r) ==
  /\ r \in Ptrs
  /\ r.buttons \subseteq ptr.buttons
  /\ r.dragging => ptr.dragging
  /\ Told(ptr) => Told(r)
  /\ Sync(r)
  /\ ~Sending => r.seen = ptr.seen

(* It keeps the invariant. *)
LEMMA SettledInv ==
  ASSUME PInv, Settled(ptr'), wheel' \in 1 - WheelStep .. WheelStep - 1,
         UNCHANGED <<connState, viewOnly, dragViewport, captured, pressed, chorded>>
  PROVE  PInv'
<1>1. ptr' \in Ptrs /\ (~dragViewport => ~ptr'.dragging)
  BY DEF PInv, Settled
<1>2. (~Sending /\ Live => ptr.seen = Nowhere)' /\ Sync(ptr)'
  BY DEF PInv, Settled, Sync, Sending, Live
<1>3. (Live => Told(ptr))'
  BY DEF PInv, Settled, Told, Sending, Live
<1>4. (Live /\ ~chorded => Single(ptr))'
  <2> SUFFICES ASSUME Live, ~chorded PROVE Single(ptr)'
    BY DEF Live
  <2>1. Single(ptr)
    BY DEF PInv
  <2>2. /\ ptr'.buttons \subseteq ptr.buttons
        /\ (ptr'.dragging => ptr.dragging)
    BY DEF Settled
  <2> QED
    BY <2>1, <2>2 DEF Single
<1> QED
  BY <1>1, <1>2, <1>3, <1>4 DEF PInv

(* A move. *)
LEMMA MovedInv ==
  ASSUME PInv, NEW at \in Spots, NEW soon \in BOOLEAN, MouseMoved(at, soon)
  PROVE  PInv'
<1>0. at \in Nat
  BY PointerAssumption DEF PointerAssumption
<1> DEFINE r == MouseMove(ptr, at, soon)
<1>1. /\ r \in Ptrs /\ r.buttons = ptr.buttons /\ r.dragging = ptr.dragging
      /\ r.seen = (IF Sending THEN at ELSE ptr.seen)
      /\ Told(ptr) => Told(r)
      /\ ~ptr.dragging /\ Sending => IF r.timer THEN r.pos = at ELSE r.at = at
  BY <1>0, MouseMoveDoes DEF PInv
<1>2. /\ ptr' = r
      /\ UNCHANGED <<connState, viewOnly, dragViewport, wheel, captured, pressed, chorded>>
  BY DEF MouseMoved
<1> HIDE DEF r
<1>3. Settled(r)
  BY <1>1 DEF Settled, Sync, PInv
<1> QED
  BY <1>2, <1>3, SettledInv DEF PInv

(* The timer of the throttle runs out. *)
LEMMA DelayedInv == PInv /\ HandleDelayedMouseMove => PInv'
<1> SUFFICES ASSUME PInv, HandleDelayedMouseMove PROVE PInv'
  OBVIOUS
<1> DEFINE calm == [ptr EXCEPT !.timer = FALSE]
           r == SendMouse(calm, ptr.pos, ptr.buttons)
<1>1. /\ ptr' = r /\ ptr.timer
      /\ UNCHANGED <<connState, viewOnly, dragViewport, wheel, captured, pressed, chorded>>
  BY DEF HandleDelayedMouseMove
<1>2. ptr \in Ptrs /\ ptr.pos \in Pos /\ ptr.buttons \in SUBSET All
  BY DEF PInv, Ptrs
<1>3. /\ calm \in Ptrs /\ calm.timer = FALSE /\ calm.pos = ptr.pos
      /\ calm.buttons = ptr.buttons /\ calm.dragging = ptr.dragging
      /\ calm.seen = ptr.seen /\ calm.down = ptr.down
  BY <1>2 DEF Ptrs
<1> HIDE DEF calm
<1>4. /\ r \in Ptrs /\ r.buttons = calm.buttons /\ r.dragging = calm.dragging
      /\ r.seen = calm.seen /\ r.timer = calm.timer
      /\ r.at = (IF Sending THEN ptr.pos ELSE calm.at)
      /\ r.down = (IF Sending THEN ptr.buttons ELSE calm.down)
  BY <1>2, <1>3, SendMouseDoes
<1> HIDE DEF r
<1>5. Told(ptr) => Told(r)
  BY <1>3, <1>4 DEF Told
<1>6. Sync(r)
  BY <1>1, <1>3, <1>4 DEF PInv, Sync
<1>7. Settled(r)
  BY <1>3, <1>4, <1>5, <1>6 DEF Settled
<1> QED
  BY <1>1, <1>7, SettledInv DEF PInv

(* A step of the wheel is a press and a release of a button of its own.    *)
LEMMA WheelInv ==
  ASSUME PInv, NEW delta \in WheelDeltas, NEW lines \in BOOLEAN, NEW at \in Spots,
         HandleWheel(delta, lines, at)
  PROVE  PInv'
<1>0. at \in Nat
  BY PointerAssumption DEF PointerAssumption
<1> DEFINE sum == wheel + delta * (IF lines THEN LineHeight ELSE 1)
           b == IF sum < 0 THEN "back" ELSE "forth"
           step == AbsDiff(sum, 0) >= WheelStep
           m == MouseButton(ptr, at, TRUE, b)
           r == MouseButton(m, at, FALSE, b)
<1>1. /\ Sending
      /\ ptr' = IF step THEN r ELSE ptr
      /\ wheel' = IF step THEN 0 ELSE sum
      /\ UNCHANGED <<connState, viewOnly, dragViewport, captured, pressed, chorded>>
  BY DEF HandleWheel
<1>2. b \in All /\ ptr \in Ptrs
  BY PointerAssumption DEF PointerAssumption, All, PInv
<1>3. sum \in Int
  BY PointerAssumption DEF PointerAssumption, PInv
<1> HIDE DEF sum
<1>4. wheel' \in 1 - WheelStep .. WheelStep - 1
  BY <1>1, <1>3, PointerAssumption DEF PointerAssumption, AbsDiff
<1> HIDE DEF b, step
<1>5. /\ Pushed(m, ptr, at)
      /\ ~dragViewport => m.buttons = ptr.buttons \union {b} /\ m.dragging = ptr.dragging
      /\ dragViewport /\ ~ptr.dragging => m.buttons = ptr.buttons /\ m.dragging /\ ~m.moved
      /\ dragViewport /\ ptr.dragging =>
           /\ ~m.dragging /\ m.moved = ptr.moved
           /\ m.buttons = IF ptr.moved THEN ptr.buttons ELSE ptr.buttons \union {b}
  BY <1>0, <1>2, PressDoes
<1> HIDE DEF m
<1>6. m \in Ptrs
  BY <1>5 DEF Pushed
<1>7. /\ Pushed(r, m, at)
      /\ ~dragViewport => r.buttons = m.buttons \ {b} /\ r.dragging = m.dragging
      /\ dragViewport => /\ ~r.dragging
                         /\ r.buttons = IF m.moved THEN m.buttons ELSE m.buttons \ {b}
  BY <1>0, <1>2, <1>6, ReleaseDoes
<1> HIDE DEF r
<1>8. r.buttons \subseteq ptr.buttons /\ (r.dragging => ptr.dragging)
  BY <1>5, <1>7
<1>9. Settled(r)
  BY <1>1, <1>5, <1>7, <1>8 DEF Settled, Pushed, Sync
<1>10. Settled(ptr)
  BY <1>2 DEF Settled, PInv
<1> QED
  BY <1>1, <1>4, <1>9, <1>10, SettledInv

(* A button goes down. *)
LEMMA DownInv ==
  ASSUME PInv, NEW b \in Buttons, NEW at \in Spots, NEW over \in BOOLEAN,
         MouseDown(b, at, over)
  PROVE  PInv'
<1>0. at \in Nat
  BY PointerAssumption DEF PointerAssumption
<1> DEFINE r == MouseButton(ptr, at, TRUE, b)
           heard == over /\ ~captured /\ Live
<1>1. /\ b \notin pressed /\ pressed' = pressed \union {b}
      /\ chorded' = (chorded \/ pressed # {})
      /\ captured' = (captured \/ heard)
      /\ ptr' = IF heard THEN r ELSE ptr
      /\ UNCHANGED <<connState, viewOnly, dragViewport, wheel>>
  BY DEF MouseDown
<1>2. b \in All /\ ptr \in Ptrs
  BY DEF All, PInv
<1>3. /\ Pushed(r, ptr, at)
      /\ ~dragViewport => r.buttons = ptr.buttons \union {b} /\ r.dragging = ptr.dragging
      /\ dragViewport /\ ~ptr.dragging => r.buttons = ptr.buttons /\ r.dragging /\ ~r.moved
      /\ dragViewport /\ ptr.dragging =>
           /\ ~r.dragging /\ r.moved = ptr.moved
           /\ r.buttons = IF ptr.moved THEN ptr.buttons ELSE ptr.buttons \union {b}
  BY <1>0, <1>2, PressDoes
<1> HIDE DEF r
<1>4. /\ ptr' \in Ptrs /\ (~dragViewport => ~ptr'.dragging)
      /\ ~Sending => ptr'.seen = ptr.seen
      /\ Told(ptr) => Told(ptr')
  BY <1>1, <1>2, <1>3 DEF Pushed, PInv
<1>5. Sync(ptr')
  BY <1>1, <1>3 DEF Pushed, PInv, Sync
<1>6. /\ (~Sending /\ Live => ptr.seen = Nowhere)' /\ Sync(ptr)'
      /\ (Live => Told(ptr))'
  BY <1>1, <1>4, <1>5 DEF PInv, Sync, Told, Sending, Live
<1>7. (Live /\ ~chorded => Single(ptr))'
  <2> SUFFICES ASSUME Live, chorded' = FALSE PROVE Single(ptr)'
    BY <1>1 DEF Live
  <2>1. pressed = {} /\ ~chorded /\ Single(ptr)
    BY <1>1 DEF PInv
  <2>2. ptr.buttons = {} /\ ~ptr.dragging
    BY <2>1 DEF Single
  <2>3. CASE heard
    BY <1>1, <1>3, <2>1, <2>2, <2>3 DEF Single, PInv
  <2>4. CASE ~heard
    BY <1>1, <2>1, <2>2, <2>4 DEF Single, PInv
  <2> QED
    BY <2>3, <2>4
<1>8. captured' \in BOOLEAN /\ chorded' \in BOOLEAN /\ pressed' \subseteq Buttons
  BY <1>1 DEF PInv
<1> QED
  BY <1>1, <1>4, <1>6, <1>7, <1>8 DEF PInv

(* A button goes up: whoever pressed it alone has the capture.             *)
LEMMA UpInv ==
  ASSUME PInv, NEW b \in Buttons, NEW at \in Spots, NEW over \in BOOLEAN,
         MouseUp(b, at, over)
  PROVE  PInv'
<1>0. at \in Nat
  BY PointerAssumption DEF PointerAssumption
<1> DEFINE r == MouseButton(ptr, at, FALSE, b)
           heard == (over \/ captured) /\ Live
<1>1. /\ b \in pressed /\ pressed' = pressed \ {b} /\ captured' = FALSE
      /\ ptr' = IF heard THEN r ELSE ptr
      /\ UNCHANGED <<connState, viewOnly, dragViewport, wheel, chorded>>
  BY DEF MouseUp
<1>2. b \in All /\ ptr \in Ptrs
  BY DEF All, PInv
<1>3. /\ Pushed(r, ptr, at)
      /\ ~dragViewport => r.buttons = ptr.buttons \ {b} /\ r.dragging = ptr.dragging
      /\ dragViewport => /\ ~r.dragging
                         /\ r.buttons = IF ptr.moved THEN ptr.buttons ELSE ptr.buttons \ {b}
  BY <1>0, <1>2, ReleaseDoes
<1> HIDE DEF r
<1>4. /\ ptr' \in Ptrs /\ (~dragViewport => ~ptr'.dragging)
      /\ ~Sending => ptr'.seen = ptr.seen
      /\ Told(ptr) => Told(ptr')
  BY <1>1, <1>2, <1>3 DEF Pushed, PInv
<1>5. Sync(ptr')
  BY <1>1, <1>3 DEF Pushed, PInv, Sync
<1>6. /\ (~Sending /\ Live => ptr.seen = Nowhere)' /\ Sync(ptr)'
      /\ (Live => Told(ptr))'
  BY <1>1, <1>4, <1>5 DEF PInv, Sync, Told, Sending, Live
<1>7. (Live /\ ~chorded => Single(ptr))'
  <2> SUFFICES ASSUME Live, ~chorded PROVE Single(ptr)'
    BY <1>1 DEF Live
  <2>1. Single(ptr)
    BY DEF PInv
  <2>2. pressed' = {} /\ ptr.buttons \subseteq {b}
    BY <1>1, <2>1 DEF Single
  <2>3. ptr'.buttons = {} /\ ~ptr'.dragging
    <3>1. CASE heard
      BY <1>1, <1>3, <2>1, <2>2, <3>1 DEF Single, PInv
    <3>2. CASE ~heard
      BY <1>1, <2>1, <3>2 DEF Single
    <3> QED
      BY <3>1, <3>2
  <2> QED
    BY <1>1, <2>2, <2>3 DEF Single
<1>8. pressed' \subseteq Buttons
  BY <1>1 DEF PInv
<1> QED
  BY <1>1, <1>4, <1>6, <1>7, <1>8 DEF PInv

-----------------------------------------------------------------------------
(* The initial states. *)
LEMMA PointerStarts == PointerInit => PInv
<1> SUFFICES ASSUME PointerInit PROVE PInv
  OBVIOUS
<1>1. /\ ptr = [pos |-> Nowhere, buttons |-> {}, timer |-> FALSE,
                dragging |-> FALSE, dragPos |-> Nowhere, moved |-> FALSE,
                seen |-> Nowhere, at |-> Nowhere, down |-> {}]
      /\ connState = "connecting" /\ viewOnly \in BOOLEAN /\ dragViewport \in BOOLEAN
      /\ wheel = 0 /\ captured = FALSE /\ pressed = {} /\ chorded = FALSE
  BY DEF PointerInit
<1>2. ptr \in Ptrs
  BY <1>1 DEF Ptrs, Pos
<1>3. wheel \in 1 - WheelStep .. WheelStep - 1
  BY <1>1, PointerAssumption DEF PointerAssumption
<1>4. Sync(ptr) /\ Told(ptr) /\ Single(ptr)
  BY <1>1 DEF Sync, Told, Single
<1> QED
  BY <1>1, <1>2, <1>3, <1>4 DEF PInv, ConnStates

(* The connection comes up: the server has been told nothing yet. *)
LEMMA PointerConnectInv == PInv /\ PointerConnect => PInv'
<1> SUFFICES ASSUME PInv, PointerConnect PROVE PInv'
  OBVIOUS
<1>1. /\ connState = "connecting" /\ connState' = "connected"
      /\ UNCHANGED <<viewOnly, dragViewport, ptr, wheel, captured, pressed, chorded>>
  BY DEF PointerConnect, Connect
<1>2. Live /\ Live' /\ ~Sending
  BY <1>1 DEF Live, Sending
<1>3. ptr.seen = Nowhere /\ ptr.down = {}
  BY <1>2 DEF PInv, Told
<1>4. Sync(ptr)' /\ Told(ptr)' /\ (ptr.seen = Nowhere)'
  BY <1>1, <1>3 DEF Sync, Told
<1>5. (~chorded => Single(ptr))'
  BY <1>1, <1>2 DEF PInv, Single
<1> QED
  BY <1>1, <1>4, <1>5 DEF PInv, ConnStates

(* The connection goes down, and the timer with it. *)
LEMMA PointerDropInv == PInv /\ PointerDrop => PInv'
<1> SUFFICES ASSUME PInv, PointerDrop PROVE PInv'
  OBVIOUS
<1>1. /\ connState' \in {"disconnecting", "disconnected"}
      /\ ptr' = [ptr EXCEPT !.timer = FALSE]
      /\ UNCHANGED <<viewOnly, dragViewport, wheel, captured, pressed, chorded>>
  BY DEF PointerDrop, Drop
<1>2. ~Live' /\ ~Sending'
  BY <1>1 DEF Live, Sending
<1>3. ptr' \in Ptrs /\ ptr'.dragging = ptr.dragging
  BY <1>1 DEF PInv, Ptrs
<1> QED
  BY <1>1, <1>2, <1>3 DEF PInv, ConnStates, Sync

(* Every step keeps the invariant. *)
LEMMA PointerKeeps == PInv /\ [PointerNext]_pointerVars => PInv'
<1> SUFFICES ASSUME PInv, [PointerNext]_pointerVars PROVE PInv'
  OBVIOUS
<1>1. ASSUME NEW b \in Buttons, NEW at \in Spots, NEW over \in BOOLEAN,
             MouseDown(b, at, over) \/ MouseUp(b, at, over)
      PROVE  PInv'
  BY <1>1, DownInv, UpInv
<1>2. ASSUME NEW at \in Spots, NEW soon \in BOOLEAN, MouseMoved(at, soon)
      PROVE  PInv'
  BY <1>2, MovedInv
<1>3. CASE HandleDelayedMouseMove
  BY <1>3, DelayedInv
<1>4. ASSUME NEW delta \in WheelDeltas, NEW lines \in BOOLEAN, NEW at \in Spots,
             HandleWheel(delta, lines, at)
      PROVE  PInv'
  BY <1>4, WheelInv
<1>5. CASE PointerConnect
  BY <1>5, PointerConnectInv
<1>6. CASE PointerDrop
  BY <1>6, PointerDropInv
<1>7. CASE UNCHANGED pointerVars
  BY <1>7 DEF pointerVars, PInv, Sync, Told, Single, Sending, Live
<1> QED
  BY <1>1, <1>2, <1>3, <1>4, <1>5, <1>6, <1>7 DEF PointerNext

(* The fields of the pointer's state have their types. *)
THEOREM PointerTyped == PointerSpec => []PointerTypeOK
<1>1. PInv => PointerTypeOK
  BY DEF PInv, PointerTypeOK, Ptrs, Pos, All
<1> QED
  BY <1>1, PointerStarts, PointerKeeps, PTL DEF PointerSpec

(***************************************************************************)
(* For every number of spots: whenever no delayed move is pending, the     *)
(* server has the pointer where the user last put it, whatever clicks and  *)
(* wheel steps overtook the moves.                                         *)
(***************************************************************************)
THEOREM NoMoveLost == PointerSpec => []PointerInSync
<1>1. PInv => PointerInSync
  BY DEF PInv, PointerInSync, Sync
<1> QED
  BY <1>1, PointerStarts, PointerKeeps, PTL DEF PointerSpec

(***************************************************************************)
(* For every number of buttons: a user who never held two buttons together *)
(* holds every button that the server believes down, wherever the pointer  *)
(* was when it was let go of.                                              *)
(***************************************************************************)
THEOREM NoButtonLeftDown == PointerSpec => []NoStuckButton
<1>1. PInv => NoStuckButton
  BY DEF PInv, NoStuckButton, Single, Told, Live
<1> QED
  BY <1>1, PointerStarts, PointerKeeps, PTL DEF PointerSpec

(* Every nonempty set of numbers has a least one. *)
LEMMA Least ==
  ASSUME NEW T \in SUBSET Nat, T # {}
  PROVE  \E n \in T : \A m \in T : ~(m < n)
<1> DEFINE R == OpToRel(<, Nat)
<1>1. IsWellFoundedOn(R, Nat)
  BY NatLessThanWellFounded
<1>2. \A m, n \in Nat : m < n => <<m, n>> \in R
  BY DEF OpToRel
<1> HIDE DEF R
<1>3. PICK n \in T : \A m \in T : ~(<<m, n>> \in R)
  BY <1>1, WFMin
<1> QED
  BY <1>2, <1>3

(* So what holds of 0, and of a number after every number it holds of, holds of all. *)
LEMMA FromZero ==
  ASSUME NEW S \in SUBSET Nat, 0 \in S, \A n \in S : n + 1 \in S
  PROVE  S = Nat
<1> SUFFICES ASSUME Nat \ S # {} PROVE FALSE
  OBVIOUS
<1>1. PICK n \in Nat \ S : \A m \in Nat \ S : ~(m < n)
  BY Least
<1>2. n - 1 \in Nat /\ n - 1 < n
  OBVIOUS
<1>3. n - 1 \in S
  BY <1>1, <1>2
<1>4. n - 1 + 1 \in S
  BY <1>3
<1> QED
  BY <1>2, <1>4

\* The sums of the first numbers of x.
SumsOf(x, n, f) == f = [k \in 0 .. n |-> IF k = 0 THEN 0 ELSE f[k - 1] + x[k]]

(* There are such sums for every sequence. *)
LEMMA SumsExist ==
  ASSUME NEW x PROVE \A n \in Nat : \E f : SumsOf(x, n, f)
<1> DEFINE S == {n \in Nat : \E f : SumsOf(x, n, f)}
<1>1. 0 \in S
  <2> DEFINE f == [k \in 0 .. 0 |-> 0]
  <2>1. f[0] = 0
    OBVIOUS
  <2>2. f = [k \in 0 .. 0 |-> IF k = 0 THEN 0 ELSE f[k - 1] + x[k]]
    OBVIOUS
  <2> HIDE DEF f
  <2>3. SumsOf(x, 0, f)
    BY <2>2 DEF SumsOf
  <2> QED
    BY <2>3
<1>2. ASSUME NEW n \in S PROVE n + 1 \in S
  <2>1. PICK f : f = [k \in 0 .. n |-> IF k = 0 THEN 0 ELSE f[k - 1] + x[k]]
    BY DEF SumsOf
  <2> DEFINE g == [k \in 0 .. n + 1 |-> IF k = n + 1 THEN f[n] + x[n + 1] ELSE f[k]]
  <2>2. n \in Nat
    OBVIOUS
  <2>3. \A k \in 0 .. n : g[k] = f[k]
    BY <2>2
  <2>4. \A k \in 0 .. n + 1 : g[k] = IF k = 0 THEN 0 ELSE g[k - 1] + x[k]
    <3> SUFFICES ASSUME NEW k \in 0 .. n + 1
                 PROVE  g[k] = IF k = 0 THEN 0 ELSE g[k - 1] + x[k]
      OBVIOUS
    <3>1. CASE k = n + 1
      <4>1. g[n + 1] = f[n] + x[n + 1]
        BY <2>2
      <4>2. g[n] = f[n]
        BY <2>2, <2>3
      <4>3. k # 0 /\ k - 1 = n
        BY <2>2, <3>1
      <4> HIDE DEF g
      <4> QED
        BY <3>1, <4>1, <4>2, <4>3
    <3>2. CASE k # n + 1
      <4>1. k \in 0 .. n /\ (k # 0 => k - 1 \in 0 .. n)
        BY <2>2, <3>2
      <4>2. g[k] = f[k] /\ (k # 0 => g[k - 1] = f[k - 1])
        BY <2>3, <4>1
      <4>3. f[k] = IF k = 0 THEN 0 ELSE f[k - 1] + x[k]
        BY <2>1, <4>1
      <4> HIDE DEF g
      <4> QED
        BY <4>2, <4>3
    <3> QED
      BY <3>1, <3>2
  <2>5. g = [k \in 0 .. n + 1 |-> g[k]]
    OBVIOUS
  <2> HIDE DEF g
  <2>6. SumsOf(x, n + 1, g)
    BY <2>4, <2>5 DEF SumsOf
  <2> QED
    BY <2>2, <2>6
<1> HIDE DEF S
<1>3. S = Nat
  <2>1. S \in SUBSET Nat
    BY DEF S
  <2> QED
    BY <1>1, <1>2, <2>1, FromZero
<1> QED
  BY <1>3 DEF S

(* The sum of a sequence of integers is one, and of natural numbers too. *)
LEMMA TotalIn ==
  ASSUME NEW N \in {Nat, Int}, NEW m \in Nat, NEW x \in [1 .. m -> N], Len(x) = m
  PROVE  Total(x) \in N
<1> DEFINE f == CHOOSE f : SumsOf(x, m, f)
<1>1. SumsOf(x, m, f)
  BY SumsExist
<1>2. Total(x) = f[m]
  BY DEF Total, SumsOf
<1> HIDE DEF f
<1>3. \A k \in 0 .. m : f[k] = IF k = 0 THEN 0 ELSE f[k - 1] + x[k]
  BY <1>1 DEF SumsOf
<1> DEFINE S == {n \in Nat : n <= m => f[n] \in N}
<1>4. 0 \in S
  BY <1>3
<1>5. ASSUME NEW n \in S PROVE n + 1 \in S
  <2> SUFFICES ASSUME n + 1 <= m PROVE f[n + 1] \in N
    OBVIOUS
  <2>1. f[n + 1] = f[n] + x[n + 1]
    BY <1>3
  <2>2. f[n] \in N /\ x[n + 1] \in N
    OBVIOUS
  <2> QED
    BY <2>1, <2>2
<1> HIDE DEF S
<1>6. S = Nat
  <2>1. S \in SUBSET Nat
    BY DEF S
  <2> QED
    BY <1>4, <1>5, <2>1, FromZero
<1> QED
  BY <1>2, <1>6 DEF S

-----------------------------------------------------------------------------
Angles == {0, 180}

Touches == [id : Fingers, first : Nat, last : Nat, angle : Angles, active : BOOLEAN]

Handlers == [state : SUBSET AllGestures, tracked : Seq(Touches), ignored : SUBSET Fingers,
             waiting : BOOLEAN, longpress : BOOLEAN, twoTouch : BOOLEAN]

Events == [type : {"start", "move", "end"}, gesture : AllGestures, pos : Nat, mag : Int]

(* A distance. *)
LEMMA AbsDiffNat == \A a, b \in Int : AbsDiff(a, b) \in Nat
BY DEF AbsDiff

(* The average of a coordinate over the touches lies where it does.        *)
LEMMA AverageNat ==
  ASSUME NEW t \in Seq(Touches), t # <<>>, NEW x, x = [i \in DOMAIN t |-> x[i]],
         \A i \in DOMAIN t : x[i] \in Nat
  PROVE  Total(x) \div Len(t) \in Nat
<1>1. Len(t) \in Nat /\ Len(t) > 0 /\ DOMAIN t = 1 .. Len(t)
  OBVIOUS
<1>2. x \in [1 .. Len(t) -> Nat] /\ Len(x) = Len(t)
  BY <1>1
<1>3. Total(x) \in Nat
  BY <1>1, <1>2, TotalIn
<1>4. \A a, b \in Nat : b > 0 => a \div b \in Nat
  OBVIOUS
<1> QED
  BY <1>1, <1>3, <1>4

(* And so for what is an integer. *)
LEMMA AverageInt ==
  ASSUME NEW t \in Seq(Touches), t # <<>>, NEW x, x = [i \in DOMAIN t |-> x[i]],
         \A i \in DOMAIN t : x[i] \in Int
  PROVE  Total(x) \div Len(t) \in Int
<1>1. Len(t) \in Nat /\ Len(t) > 0 /\ DOMAIN t = 1 .. Len(t)
  OBVIOUS
<1>2. x \in [1 .. Len(t) -> Int] /\ Len(x) = Len(t)
  BY <1>1
<1>3. Total(x) \in Int
  BY <1>1, <1>2, TotalIn
<1>4. \A a \in Int, b \in Nat : b > 0 => a \div b \in Int
  OBVIOUS
<1> QED
  BY <1>1, <1>3, <1>4

(* An event of the gesture that is left carries that gesture's name, a     *)
(* position and a magnitude.                                               *)
LEMMA EventDoes ==
  ASSUME NEW g \in Handlers, g.tracked # <<>>, NEW what \in AllGestures, g.state = {what},
         NEW type \in {"start", "move", "end"}
  PROVE  /\ Event(g, type) \in Events
         /\ Event(g, type).type = type /\ Event(g, type).gesture = what
<1> DEFINE t == g.tracked
           n == Len(t)
           still == type = "start" \/ what \in {"twodrag", "pinch"}
           spot == [i \in DOMAIN t |-> IF still THEN t[i].first ELSE t[i].last]
           far == [i \in DOMAIN t |-> t[i].last - t[i].first]
           pos == Total(spot) \div n
           moved == Total(far) \div n
           mag == CASE what = "pinch" /\ type = "start" -> AbsDiff(t[1].first, t[n].first)
                    [] what = "pinch" /\ type # "start" -> AbsDiff(t[1].last, t[n].last)
                    [] what = "twodrag" /\ type # "start" -> moved
                    [] OTHER -> 0
<1>1. t \in Seq(Touches) /\ t # <<>>
  BY DEF Handlers
<1>2. \A i \in DOMAIN t : t[i] \in Touches
  BY <1>1
<1>3. \A i \in DOMAIN t : t[i].first \in Nat /\ t[i].last \in Nat
  BY <1>2 DEF Touches
<1>4. (CHOOSE x \in g.state : TRUE) = what
  OBVIOUS
<1>5. Event(g, type) = [type |-> type, gesture |-> what, pos |-> pos, mag |-> mag]
  BY <1>4 DEF Event, Average, AverageMovement, Distance
<1>6. pos \in Nat
  <2>1. spot = [i \in DOMAIN t |-> spot[i]] /\ \A i \in DOMAIN t : spot[i] \in Nat
    BY <1>3
  <2> HIDE DEF spot
  <2> QED
    BY <1>1, <2>1, AverageNat
<1>7. moved \in Int
  <2>1. far = [i \in DOMAIN t |-> far[i]] /\ \A i \in DOMAIN t : far[i] \in Int
    BY <1>3
  <2> HIDE DEF far
  <2> QED
    BY <1>1, <2>1, AverageInt
<1> HIDE DEF pos, moved
<1> HIDE DEF t, n
<1>8. mag \in Int
  <2>1. 1 \in DOMAIN t /\ n \in DOMAIN t
    BY <1>1 DEF n
  <2>2. /\ t[1].first \in Nat /\ t[n].first \in Nat
        /\ t[1].last \in Nat /\ t[n].last \in Nat
    BY <1>3, <2>1
  <2>3. AbsDiff(t[1].first, t[n].first) \in Int /\ AbsDiff(t[1].last, t[n].last) \in Int
    <3>1. \A a, b \in Nat : AbsDiff(a, b) \in Int
      BY AbsDiffNat
    <3> QED
      BY <2>2, <3>1
  <2>4. \/ mag = AbsDiff(t[1].first, t[n].first)
        \/ mag = AbsDiff(t[1].last, t[n].last)
        \/ mag = moved
        \/ mag = 0
    OBVIOUS
  <2> HIDE DEF mag
  <2> QED
    BY <1>7, <2>3, <2>4
<1> HIDE DEF mag
<1> QED
  BY <1>5, <1>6, <1>8 DEF Events

-----------------------------------------------------------------------------
\* What rfb.js keeps of the gestures, while one that holds `held` is in progress.
Results == [ptr : Ptrs, tap : [type : Taps \union {None}, pos : Nat], mag : Int]

Hand(p, held) ==
  /\ p \in Ptrs
  /\ p.buttons \subseteq held
  /\ held = {} => ~p.dragging
  /\ IF dragViewport THEN p.buttons = {} ELSE ~p.dragging
  /\ Live => Told(p)

Firm(r, held) == r \in Results /\ Hand(r.ptr, held)

\* The button that a gesture holds down.
HeldBy(what) == IF what \in Holding THEN {DragButton[what]} ELSE {}

(* A move leaves the buttons alone. *)
LEMMA MoveFirm ==
  ASSUME NEW p, NEW held, Hand(p, held), NEW at \in Nat, NEW soon \in BOOLEAN
  PROVE  Hand(MouseMove(p, at, soon), held)
<1> DEFINE r == MouseMove(p, at, soon)
<1>1. p \in Ptrs
  BY DEF Hand
<1>2. /\ r \in Ptrs /\ r.buttons = p.buttons /\ r.dragging = p.dragging
      /\ Told(p) => Told(r)
  BY <1>1, MouseMoveDoes
<1> HIDE DEF r
<1>3. Hand(r, held)
  BY <1>2 DEF Hand
<1> QED
  BY <1>3 DEF r

(* A press of a button. *)
LEMMA PressFirm ==
  ASSUME NEW p, Hand(p, {}), NEW at \in Nat, NEW b \in All
  PROVE  Hand(MouseButton(p, at, TRUE, b), {b})
<1> DEFINE r == MouseButton(p, at, TRUE, b)
<1>1. p \in Ptrs /\ ~p.dragging /\ p.buttons = {}
  BY DEF Hand
<1>2. /\ Pushed(r, p, at)
      /\ ~dragViewport => r.buttons = p.buttons \union {b} /\ r.dragging = p.dragging
      /\ dragViewport /\ ~p.dragging => r.buttons = p.buttons /\ r.dragging /\ ~r.moved
  BY <1>1, PressDoes
<1> HIDE DEF r
<1>3. Hand(r, {b})
  BY <1>1, <1>2 DEF Hand, Pushed
<1> QED
  BY <1>3 DEF r

(* Its release. *)
LEMMA ReleaseFirm ==
  ASSUME NEW p, NEW at \in Nat, NEW b \in All, Hand(p, {b})
  PROVE  Hand(MouseButton(p, at, FALSE, b), {})
<1> DEFINE r == MouseButton(p, at, FALSE, b)
<1>1. p \in Ptrs /\ p.buttons \subseteq {b} /\ (dragViewport => p.buttons = {})
      /\ (~dragViewport => ~p.dragging)
  BY DEF Hand
<1>2. /\ Pushed(r, p, at)
      /\ ~dragViewport => r.buttons = p.buttons \ {b} /\ r.dragging = p.dragging
      /\ dragViewport => /\ ~r.dragging
                         /\ r.buttons = IF p.moved THEN p.buttons ELSE p.buttons \ {b}
  BY <1>1, ReleaseDoes
<1> HIDE DEF r
<1>3. Hand(r, {})
  BY <1>1, <1>2 DEF Hand, Pushed
<1> QED
  BY <1>3 DEF r

(* A click, of whatever button. *)
LEMMA ClickFirm ==
  ASSUME NEW p, Hand(p, {}), NEW at \in Nat, NEW b \in All
  PROVE  Hand(Clicked(p, at, b), {})
<1>1. Hand(MouseButton(p, at, TRUE, b), {b})
  BY PressFirm
<1>2. Hand(MouseButton(MouseButton(p, at, TRUE, b), at, FALSE, b), {})
  BY <1>1, ReleaseFirm
<1> QED
  BY <1>2 DEF Clicked

(* Scrolling is clicks of the wheel. *)
LEMMA ScrollFirm ==
  ASSUME NEW r, Firm(r, {}), NEW ev \in Events, NEW sens \in Nat \ {0}
  PROVE  Firm(Scroll(r, ev, sens), {})
<1> DEFINE n == Steps(ev.mag, r.mag, sens)
           b == IF ev.mag > r.mag THEN "back" ELSE "forth"
           p == IF n = 0 THEN r.ptr ELSE Clicked(r.ptr, ev.pos, b)
           m == IF ev.mag > r.mag THEN r.mag + n * sens ELSE r.mag - n * sens
<1>1. r \in Results /\ Hand(r.ptr, {}) /\ ev.pos \in Nat /\ ev.mag \in Int /\ r.mag \in Int
  BY DEF Firm, Results, Events
<1>2. b \in All
  BY PointerAssumption DEF PointerAssumption, All
<1>3. n \in Int
  <2>1. AbsDiff(ev.mag, r.mag) \in Int
    <3>1. \A x, y \in Int : AbsDiff(x, y) \in Int
      BY AbsDiffNat
    <3> QED
      BY <1>1, <3>1
  <2> QED
    BY <2>1, GesturesAssumption DEF Steps
<1>4. Scroll(r, ev, sens) = [r EXCEPT !.ptr = p, !.mag = m]
  BY DEF Scroll
<1> HIDE DEF n, b
<1>5. m \in Int
  BY <1>1, <1>3
<1>6. Hand(p, {})
  BY <1>1, <1>2, ClickFirm
<1> HIDE DEF p, m
<1>7. p \in Ptrs
  BY <1>6 DEF Hand
<1> DEFINE s == [r EXCEPT !.ptr = p, !.mag = m]
<1>8. s \in Results /\ s.ptr = p
  BY <1>1, <1>5, <1>7 DEF Results
<1> HIDE DEF s
<1>9. Firm(s, {})
  BY <1>6, <1>8 DEF Firm
<1> QED
  BY <1>4, <1>9 DEF s

\* The gesture the listeners believe in after an event.
After(was, ev) == IF ev.type = "end" THEN None ELSE ev.gesture

(* The buttons of touches are buttons, and the sensitivities are positive. *)
LEMMA TouchButtons ==
  /\ \A what \in Taps : TapButton[what] \in All
  /\ \A what \in Holding : DragButton[what] \in All
  /\ ScrollSens \in Nat \ {0} /\ ZoomSens \in Nat \ {0}
<1>1. {"b0", "b1", "b2"} \subseteq All
  BY GesturesAssumption DEF GesturesAssumption, All
<1>2. \A what \in Taps : TapButton[what] \in {"b0", "b1", "b2"}
  BY DEF TapButton, Taps
<1>3. \A what \in Holding : DragButton[what] \in {"b0", "b1", "b2"}
  BY DEF DragButton, Holding
<1> QED
  BY <1>1, <1>2, <1>3, GesturesAssumption DEF GesturesAssumption

(* The gesture starts: a tap clicks, a hold presses, the rest moves.       *)
LEMMA StartFirm ==
  ASSUME NEW r, Firm(r, {}), NEW ev \in Events, NEW soon \in BOOLEAN, NEW again \in BOOLEAN
  PROVE  Firm(HandleStart(r, ev, soon, again), HeldBy(ev.gesture))
<1>1. /\ r \in Results /\ Hand(r.ptr, {}) /\ r.tap.pos \in Nat
      /\ ev.pos \in Nat /\ ev.mag \in Int /\ ev.gesture \in AllGestures
  BY DEF Firm, Results, Events
<1> DEFINE moved == [r EXCEPT !.ptr = MouseMove(@, ev.pos, soon)]
           q == MouseMove(r.ptr, ev.pos, soon)
<1>2. Hand(q, {})
  BY <1>1, MoveFirm
<1>3. moved \in Results /\ moved.ptr = q
  <2>1. q \in Ptrs
    BY <1>2 DEF Hand
  <2> HIDE DEF q
  <2>2. moved = [r EXCEPT !.ptr = q]
    BY DEF q
  <2> QED
    BY <1>1, <2>1, <2>2 DEF Results
<1>4. ASSUME ev.gesture \in Taps
      PROVE  Firm(HandleStart(r, ev, soon, again), HeldBy(ev.gesture))
  <2> DEFINE first == IF DoubleTap(r.tap, ev, again) THEN r.tap
                      ELSE [type |-> ev.gesture, pos |-> ev.pos]
             m == MouseMove(r.ptr, first.pos, soon)
             c == Clicked(m, first.pos, TapButton[ev.gesture])
             s == [r EXCEPT !.tap = first, !.ptr = c]
  <2>1. first \in [type : Taps \union {None}, pos : Nat]
    BY <1>1, <1>4 DEF Results
  <2>2. HandleStart(r, ev, soon, again) = s
    <3>1. HandleStart(r, ev, soon, again) = HandleTap(r, ev, soon, again)
      <4>1. ev.gesture \notin Holding
        BY <1>4 DEF Taps, Holding
      <4> QED
        BY <1>4, <4>1 DEF HandleStart
    <3>2. HandleTap(r, ev, soon, again)
            = [r EXCEPT !.tap = first,
                        !.ptr = Clicked(MouseMove(r.ptr, first.pos, soon), first.pos,
                                        TapButton[ev.gesture])]
      BY <1>1 DEF HandleTap, Results
    <3> QED
      BY <3>1, <3>2
  <2> HIDE DEF first
  <2>3. first.pos \in Nat
    BY <2>1
  <2>4. Hand(m, {})
    BY <1>1, <2>3, MoveFirm
  <2> HIDE DEF m
  <2>5. Hand(c, {})
    BY <1>4, <2>3, <2>4, TouchButtons, ClickFirm
  <2>6. c \in Ptrs
    BY <2>5 DEF Hand
  <2> HIDE DEF c
  <2>7. s \in Results /\ s.ptr = c
    BY <1>1, <2>1, <2>6 DEF Results
  <2> HIDE DEF s
  <2>8. Firm(s, {})
    BY <2>5, <2>7 DEF Firm
  <2>9. HeldBy(ev.gesture) = {}
    BY <1>4 DEF HeldBy, Taps, Holding
  <2> QED
    BY <2>2, <2>8, <2>9
<1>5. ASSUME ev.gesture \in Holding
      PROVE  Firm(HandleStart(r, ev, soon, again), HeldBy(ev.gesture))
  <2> DEFINE b == DragButton[ev.gesture]
             c == MouseButton(q, ev.pos, TRUE, b)
             s == [moved EXCEPT !.ptr = c]
  <2>1. b \in All
    BY <1>5, TouchButtons
  <2>2. HandleStart(r, ev, soon, again) = [moved EXCEPT !.ptr = MouseButton(moved.ptr, ev.pos, TRUE, b)]
    BY <1>5 DEF HandleStart, Taps, Holding
  <2>3. HeldBy(ev.gesture) = {b}
    BY <1>5 DEF HeldBy
  <2> HIDE DEF b, q
  <2>4. Hand(c, {b})
    BY <1>1, <1>2, <2>1, PressFirm
  <2>5. HandleStart(r, ev, soon, again) = s
    BY <1>3, <2>2
  <2>6. c \in Ptrs
    BY <2>4 DEF Hand
  <2> HIDE DEF c, moved
  <2>7. s \in Results /\ s.ptr = c
    BY <1>3, <2>6 DEF Results
  <2> HIDE DEF s
  <2>8. Firm(s, {b})
    BY <2>4, <2>7 DEF Firm
  <2> QED
    BY <2>3, <2>5, <2>8
<1>6. ASSUME ev.gesture \notin Taps, ev.gesture \notin Holding
      PROVE  Firm(HandleStart(r, ev, soon, again), HeldBy(ev.gesture))
  <2> DEFINE s == [moved EXCEPT !.mag = ev.mag]
  <2>1. HandleStart(r, ev, soon, again) = s
    BY <1>6 DEF HandleStart
  <2>2. HeldBy(ev.gesture) = {}
    BY <1>6 DEF HeldBy
  <2> HIDE DEF moved, q
  <2>3. s \in Results /\ s.ptr = q
    BY <1>1, <1>3 DEF Results
  <2> HIDE DEF s
  <2>4. Firm(s, {})
    BY <1>2, <2>3 DEF Firm
  <2> QED
    BY <2>1, <2>2, <2>4
<1> QED
  BY <1>4, <1>5, <1>6

(* It moves. *)
LEMMA MotionFirm ==
  ASSUME NEW r, NEW ev \in Events, NEW soon \in BOOLEAN, Firm(r, HeldBy(ev.gesture))
  PROVE  Firm(HandleMove(r, ev, soon), HeldBy(ev.gesture))
<1> DEFINE held == HeldBy(ev.gesture)
           q == MouseMove(r.ptr, ev.pos, soon)
           moved == [r EXCEPT !.ptr = MouseMove(@, ev.pos, soon)]
<1>1. /\ r \in Results /\ Hand(r.ptr, held) /\ ev.pos \in Nat
  BY DEF Firm, Events
<1>2. ev.gesture \notin Holding => held = {}
  BY DEF HeldBy
<1> HIDE DEF held
<1>3. Hand(q, held)
  BY <1>1, MoveFirm
<1>4. Firm(moved, held)
  <2>1. q \in Ptrs
    BY <1>3 DEF Hand
  <2> HIDE DEF q
  <2>2. moved = [r EXCEPT !.ptr = q]
    BY DEF q
  <2>3. moved \in Results /\ moved.ptr = q
    BY <1>1, <2>1, <2>2 DEF Results
  <2> HIDE DEF moved
  <2> QED
    BY <1>3, <2>3 DEF Firm
<1>5. Firm(r, held)
  BY DEF held
<1>6. ASSUME ev.gesture = "twodrag" PROVE Firm(HandleMove(r, ev, soon), held)
  <2>1. held = {}
    BY <1>2, <1>6 DEF Holding
  <2>2. Firm(Scroll(moved, ev, ScrollSens), {})
    <3> HIDE DEF moved
    <3> QED
      BY <1>4, <2>1, TouchButtons, ScrollFirm
  <2>3. HandleMove(r, ev, soon) = Scroll(moved, ev, ScrollSens)
    BY <1>6 DEF HandleMove, Taps
  <2> QED
    BY <2>1, <2>2, <2>3
<1>7. ASSUME ev.gesture = "pinch" PROVE Firm(HandleMove(r, ev, soon), held)
  <2> DEFINE s == Scroll(moved, ev, ZoomSens)
  <2>1. held = {}
    BY <1>2, <1>7 DEF Holding
  <2>2. Firm(s, {})
    <3> HIDE DEF moved
    <3> QED
      BY <1>4, <2>1, TouchButtons, ScrollFirm
  <2>3. HandleMove(r, ev, soon) = s
    BY <1>7 DEF HandleMove, Taps, Zoom
  <2> HIDE DEF s
  <2> QED
    BY <2>1, <2>2, <2>3
<1>8. ASSUME ev.gesture \in Taps PROVE Firm(HandleMove(r, ev, soon), held)
  <2>1. ev.gesture \notin {"twodrag", "pinch"}
    BY <1>8 DEF Taps
  <2>2. HandleMove(r, ev, soon) = r
    BY <1>8, <2>1 DEF HandleMove
  <2> QED
    BY <1>5, <2>2
<1>9. ASSUME ev.gesture \notin Taps \union {"twodrag", "pinch"}
      PROVE  Firm(HandleMove(r, ev, soon), held)
  <2>1. HandleMove(r, ev, soon) = moved
    BY <1>9 DEF HandleMove
  <2> QED
    BY <1>4, <2>1
<1> QED
  BY <1>6, <1>7, <1>8, <1>9 DEF held

(* It ends: what it held is released. *)
LEMMA EndFirm ==
  ASSUME NEW r, NEW ev \in Events, NEW soon \in BOOLEAN, Firm(r, HeldBy(ev.gesture))
  PROVE  Firm(HandleEnd(r, ev, soon), {})
<1> DEFINE q == MouseMove(r.ptr, ev.pos, soon)
           moved == [r EXCEPT !.ptr = MouseMove(@, ev.pos, soon)]
<1>1. CASE ev.gesture \in Holding
  <2> DEFINE b == DragButton[ev.gesture]
             c == MouseButton(q, ev.pos, FALSE, b)
             s == [moved EXCEPT !.ptr = c]
  <2>1. b \in All /\ HeldBy(ev.gesture) = {b}
    BY <1>1, TouchButtons DEF HeldBy
  <2>2. HandleEnd(r, ev, soon)
          = [moved EXCEPT !.ptr = MouseButton(moved.ptr, ev.pos, FALSE, b)]
    BY <1>1 DEF HandleEnd
  <2> HIDE DEF b
  <2>3. r \in Results /\ Hand(r.ptr, {b}) /\ ev.pos \in Nat
    BY <2>1 DEF Firm, Events
  <2>4. Hand(q, {b})
    BY <2>3, MoveFirm
  <2>5. moved \in Results /\ moved.ptr = q
    <3>1. q \in Ptrs
      BY <2>4 DEF Hand
    <3> HIDE DEF q
    <3>2. moved = [r EXCEPT !.ptr = q]
      BY DEF q
    <3> QED
      BY <2>3, <3>1, <3>2 DEF Results
  <2> HIDE DEF q
  <2>6. Hand(c, {})
    BY <2>1, <2>3, <2>4, ReleaseFirm
  <2>7. HandleEnd(r, ev, soon) = s
    BY <2>2, <2>5
  <2>8. c \in Ptrs
    BY <2>6 DEF Hand
  <2> HIDE DEF c, moved
  <2>9. s \in Results /\ s.ptr = c
    BY <2>5, <2>8 DEF Results
  <2> HIDE DEF s
  <2>10. Firm(s, {})
    BY <2>6, <2>9 DEF Firm
  <2> QED
    BY <2>7, <2>10
<1>2. CASE ev.gesture \notin Holding
  <2>1. HandleEnd(r, ev, soon) = r /\ HeldBy(ev.gesture) = {}
    BY <1>2 DEF HandleEnd, HeldBy
  <2> QED
    BY <2>1
<1> QED
  BY <1>1, <1>2

(* An event that follows what the listeners believe leaves the server with *)
(* the button down that the gesture now in progress holds, and no other.   *)
LEMMA HandleFirm ==
  ASSUME NEW r, NEW was, NEW ev \in Events, NEW soon \in BOOLEAN, NEW again \in BOOLEAN,
         Firm(r, HeldBy(was)), Follows(was, ev)
  PROVE  Firm(HandleGesture(r, ev, soon, again), HeldBy(After(was, ev)))
<1>1. CASE ev.type = "start"
  <2>1. HeldBy(was) = {}
    BY <1>1 DEF Follows, HeldBy
  <2>2. HandleGesture(r, ev, soon, again) = HandleStart(r, ev, soon, again)
        /\ After(was, ev) = ev.gesture
    BY <1>1 DEF HandleGesture, After
  <2>3. Firm(HandleStart(r, ev, soon, again), HeldBy(ev.gesture))
    BY <2>1, StartFirm
  <2> QED
    BY <2>2, <2>3
<1>2. CASE ev.type = "move"
  <2>1. was = ev.gesture
    BY <1>2 DEF Follows
  <2>2. HandleGesture(r, ev, soon, again) = HandleMove(r, ev, soon)
        /\ After(was, ev) = ev.gesture
    BY <1>2 DEF HandleGesture, After
  <2>3. Firm(HandleMove(r, ev, soon), HeldBy(ev.gesture))
    BY <2>1, MotionFirm
  <2> QED
    BY <2>2, <2>3
<1>3. CASE ev.type = "end"
  <2>1. was = ev.gesture
    BY <1>3 DEF Follows
  <2>2. HandleGesture(r, ev, soon, again) = HandleEnd(r, ev, soon)
        /\ After(was, ev) = None
    BY <1>3 DEF HandleGesture, After
  <2>3. HeldBy(None) = {}
    BY DEF HeldBy, None, Holding
  <2>4. Firm(HandleEnd(r, ev, soon), {})
    BY <2>1, EndFirm
  <2> QED
    BY <2>2, <2>3, <2>4
<1> QED
  BY <1>1, <1>2, <1>3 DEF Events

\* What rfb.js keeps, and the button that the gesture in progress holds.
HandInv ==
  Firm([ptr |-> ptr, tap |-> tap, mag |-> magnitude], HeldBy(gesture))

\* The events a step may dispatch to listeners that believe in `was`.
Legit(was, evs) ==
  \/ evs = <<>>
  \/ \E e \in Events : evs = <<e>> /\ Follows(was, e)
  \/ \E d, e \in Events : evs = <<d, e>> /\ Follows(was, d) /\ Follows(After(was, d), e)

\* What they believe in afterwards.
Finally(was, evs) == IF evs = <<>> THEN was ELSE After(was, evs[Len(evs)])

(* The gesture in progress is told by the last event. *)
LEMMA ProgressDoes ==
  ASSUME NEW was, NEW evs
  PROVE  InProgress(was, evs) = Finally(was, evs)
BY DEF InProgress, Finally, After

(* Each event follows what the ones before it made the listeners believe.  *)
LEMMA LegitPaired ==
  ASSUME NEW was, NEW evs, Legit(was, evs), NEW i \in DOMAIN evs
  PROVE  Follows(InProgress(was, SubSeq(evs, 1, i - 1)), evs[i])
<1>1. ASSUME NEW e \in Events, evs = <<e>>, Follows(was, e)
      PROVE  Follows(InProgress(was, SubSeq(evs, 1, i - 1)), evs[i])
  <2>1. i = 1 /\ evs[1] = e
    BY <1>1
  <2>2. SubSeq(evs, 1, i - 1) = <<>>
    BY <1>1, <2>1
  <2>3. InProgress(was, <<>>) = was
    BY ProgressDoes DEF Finally
  <2> QED
    BY <1>1, <2>1, <2>2, <2>3
<1>2. ASSUME NEW d \in Events, NEW e \in Events, evs = <<d, e>>, Follows(was, d),
             Follows(After(was, d), e)
      PROVE  Follows(InProgress(was, SubSeq(evs, 1, i - 1)), evs[i])
  <2>1. i \in {1, 2} /\ evs[1] = d /\ evs[2] = e
    BY <1>2
  <2>2. CASE i = 1
    <3>2. SubSeq(evs, 1, i - 1) = <<>>
      BY <1>2, <2>2
    <3>3. InProgress(was, <<>>) = was
      BY ProgressDoes DEF Finally
    <3> QED
      BY <1>2, <2>1, <2>2, <3>2, <3>3
  <2>3. CASE i = 2
    <3> DEFINE one == SubSeq(evs, 1, i - 1)
    <3>1. Len(one) = 1 /\ one[1] = d
      BY <1>2, <2>1, <2>3
    <3>2. one # <<>>
      BY <3>1
    <3>3. InProgress(was, one) = Finally(was, one)
      BY ProgressDoes
    <3> HIDE DEF one
    <3>4. InProgress(was, one) = After(was, d)
      BY <3>1, <3>2, <3>3 DEF Finally
    <3> QED
      BY <1>2, <2>1, <2>3, <3>4 DEF one
  <2> QED
    BY <2>1, <2>2, <2>3
<1> QED
  BY <1>1, <1>2 DEF Legit

(* A step that dispatches such events keeps the server's buttons and the   *)
(* listeners' belief together.                                             *)
LEMMA DispatchDoes ==
  ASSUME HandInv, NEW evs, Legit(gesture, evs), Dispatch(evs)
  PROVE  /\ HandInv' /\ EventsPaired
         /\ gesture' = Finally(gesture, evs)
         /\ UNCHANGED <<connState, viewOnly, dragViewport, wheel, captured,
                        pressed, chorded>>
<1> DEFINE now == [ptr |-> ptr, tap |-> tap, mag |-> magnitude]
<1>1. PICK soon \in BOOLEAN, again \in BOOLEAN :
        LET handle(i, r) ==
              IF i \in DOMAIN evs THEN HandleGesture(r, evs[i], soon, again) ELSE r
            r == handle(2, handle(1, now))
        IN  /\ events' = evs
            /\ gesture' = InProgress(gesture, evs)
            /\ ptr' = r.ptr /\ tap' = r.tap /\ magnitude' = r.mag
            /\ UNCHANGED <<connState, viewOnly, dragViewport, wheel, captured,
                           pressed, chorded>>
  <2>1. PICK soon, again \in IF evs = <<>> THEN {FALSE} ELSE BOOLEAN :
          LET handle(i, r) ==
                IF i \in DOMAIN evs THEN HandleGesture(r, evs[i], soon, again) ELSE r
              r == handle(2, handle(1, now))
          IN  /\ events' = evs
              /\ gesture' = InProgress(gesture, evs)
              /\ ptr' = r.ptr /\ tap' = r.tap /\ magnitude' = r.mag
              /\ UNCHANGED <<connState, viewOnly, dragViewport, wheel, captured,
                             pressed, chorded>>
    BY Zenon DEF Dispatch
  <2>2. soon \in BOOLEAN /\ again \in BOOLEAN
    OBVIOUS
  <2> QED
    BY <2>1, <2>2, Zenon
<1> DEFINE handle(i, r) ==
             IF i \in DOMAIN evs THEN HandleGesture(r, evs[i], soon, again) ELSE r
           r == handle(2, handle(1, now))
<1>2. /\ events' = evs
      /\ gesture' = Finally(gesture, evs)
      /\ ptr' = r.ptr /\ tap' = r.tap /\ magnitude' = r.mag
      /\ UNCHANGED <<connState, viewOnly, dragViewport, wheel, captured,
                     pressed, chorded>>
  BY <1>1, ProgressDoes, Zenon
<1>3. Firm(now, HeldBy(gesture))
  BY DEF HandInv
<1>4. Firm(r, HeldBy(Finally(gesture, evs)))
  <2>1. CASE evs = <<>>
    <3>1. 1 \notin DOMAIN evs /\ 2 \notin DOMAIN evs
      BY <2>1
    <3>2. r = now
      BY <3>1, Zenon
    <3> QED
      BY <1>3, <2>1, <3>2, Zenon DEF Finally
  <2>2. ASSUME NEW e \in Events, evs = <<e>>, Follows(gesture, e)
        PROVE  Firm(r, HeldBy(Finally(gesture, evs)))
    <3>1. 1 \in DOMAIN evs /\ 2 \notin DOMAIN evs /\ evs[1] = e /\ Len(evs) = 1 /\ evs # <<>>
      BY <2>2
    <3>2. r = HandleGesture(now, e, soon, again)
      BY <3>1, Zenon
    <3>3. Finally(gesture, evs) = After(gesture, e)
      BY <3>1, Zenon DEF Finally
    <3>4. Firm(HandleGesture(now, e, soon, again), HeldBy(After(gesture, e)))
      BY <1>3, <2>2, HandleFirm, Zenon
    <3> QED
      BY <3>2, <3>3, <3>4, Zenon
  <2>3. ASSUME NEW d \in Events, NEW e \in Events, evs = <<d, e>>, Follows(gesture, d),
               Follows(After(gesture, d), e)
        PROVE  Firm(r, HeldBy(Finally(gesture, evs)))
    <3>1. /\ 1 \in DOMAIN evs /\ 2 \in DOMAIN evs /\ evs[1] = d /\ evs[2] = e
          /\ Len(evs) = 2 /\ evs # <<>>
      BY <2>3
    <3> DEFINE s == HandleGesture(now, d, soon, again)
    <3>2. r = HandleGesture(s, e, soon, again)
      BY <3>1, Zenon
    <3>3. Finally(gesture, evs) = After(After(gesture, d), e)
      BY <3>1, Zenon DEF Finally, After
    <3>4. Firm(s, HeldBy(After(gesture, d)))
      BY <1>3, <2>3, HandleFirm, Zenon
    <3> HIDE DEF s
    <3>5. Firm(HandleGesture(s, e, soon, again), HeldBy(After(After(gesture, d), e)))
      BY <2>3, <3>4, HandleFirm, Zenon
    <3> QED
      BY <3>2, <3>3, <3>5, Zenon
  <2> QED
    BY <2>1, <2>2, <2>3 DEF Legit
<1> HIDE DEF r, handle, now
<1>5. Firm(r, HeldBy(gesture'))
  BY <1>2, <1>4, Zenon
<1>6. r = [ptr |-> ptr', tap |-> tap', mag |-> magnitude']
  BY <1>2, <1>5 DEF Firm, Results
<1>7. HandInv'
  <2>1. Firm([ptr |-> ptr', tap |-> tap', mag |-> magnitude'], HeldBy(gesture'))
    BY <1>5, <1>6, Zenon
  <2> QED
    BY <1>2, <2>1 DEF HandInv, Firm, Hand, Told, Sending, Live, HeldBy
<1>8. EventsPaired
  <2>1. ASSUME NEW i \in DOMAIN evs
        PROVE  Follows(InProgress(gesture, SubSeq(evs, 1, i - 1)), evs[i])
    BY LegitPaired
  <2> QED
    BY <1>2, <2>1, Zenon DEF EventsPaired
<1> QED
  BY <1>2, <1>7, <1>8

-----------------------------------------------------------------------------
\* What two touches, two that moved, and the detected gestures leave possible.
ManyLeft == {"twotap", "threetap", "twodrag", "pinch"}
TwoLeft == {"twodrag", "pinch"}
Detected == {{"drag"}, {"longpress"}, {"twodrag"}, {"pinch"}}

(***************************************************************************)
(* How far a set of touches has got: by how many there are, whether one    *)
(* was lifted (waiting), and which timers run.                             *)
(***************************************************************************)
Phase(g) ==
  LET n == Len(g.tracked)
      calm == ~g.longpress /\ ~g.twoTouch
  IN
  \/ n = 0 /\ calm /\ g.ignored = {} /\ g.state = AllGestures /\ ~g.waiting
  \/ n = 0 /\ calm /\ g.ignored # {} /\ g.state = {}
  \/ n = 1 /\ ~g.twoTouch /\ ~g.waiting /\ g.state \in {AllGestures, {}}
  \/ n = 1 /\ calm /\ ~g.waiting /\ g.state \in {{"drag"}, {"longpress"}}
  \/ n >= 2 /\ ~g.longpress /\ g.state = {}
  \/ n >= 2 /\ calm /\ g.state \in {{"twodrag"}, {"pinch"}}
  \/ n >= 2 /\ ~g.longpress /\ g.twoTouch /\ ~g.waiting /\ g.state = TwoLeft
  \/ n = 2 /\ calm /\ ~g.waiting /\ g.state = ManyLeft
  \/ n = 2 /\ calm /\ g.waiting /\ g.state = {"twotap"}
  \/ n = 3 /\ calm /\ g.state = {"threetap"}

\* Every finger on the canvas is ignored, or tracked and not yet lifted.
Known(g, on) ==
  LET t == g.tracked IN
  /\ \A i, j \in DOMAIN t : t[i].id = t[j].id => i = j
  /\ \A i \in DOMAIN t : t[i].active => t[i].id \in on /\ t[i].id \notin g.ignored
  /\ ~g.waiting => \A i \in DOMAIN t : t[i].active
  /\ g.ignored \subseteq on
  /\ \A id \in on : id \in g.ignored \/ \E i \in DOMAIN t : t[i].id = id /\ t[i].active
  /\ t # <<>> => \E i \in DOMAIN t : t[i].active

\* The listeners believe in the gesture that was detected, and in no other hold.
Believed(g, what) ==
  /\ g.state \in Detected => what \in g.state
  /\ what \in Holding => g.state = {what}

Tracking(g, on, what) ==
  g \in Handlers /\ on \subseteq Fingers /\ Phase(g) /\ Known(g, on) /\ Believed(g, what)

(* One gesture is left and no tap: then it was detected. *)
LEMMA DetectedDoes ==
  ASSUME NEW g, NEW on, g \in Handlers, Phase(g), Known(g, on)
  PROVE  HasDetected(g) <=> g.state \in Detected
<1>1. g.tracked \in Seq(Touches)
  BY DEF Handlers
<1>2. ASSUME g.state \in Detected PROVE HasDetected(g)
  <2>1. \E what \in AllGestures : what \notin Taps /\ g.state = {what}
    BY <1>2 DEF Detected, AllGestures, Taps
  <2> QED
    BY <2>1 DEF HasDetected
<1>3. ASSUME HasDetected(g) PROVE g.state \in Detected
  <2>1. PICK what \in AllGestures : g.state = {what}
    BY <1>3 DEF HasDetected
  <2>2. what \in Taps => g.tracked = <<>>
    <3>1. what \in Taps => \A i \in DOMAIN g.tracked : ~g.tracked[i].active
      BY <1>3, <2>1 DEF HasDetected
    <3> QED
      BY <3>1 DEF Known
  <2>3. g.tracked # <<>>
    <3>1. g.state # AllGestures
      BY <2>1 DEF AllGestures, Taps
    <3>2. g.tracked = <<>> => Len(g.tracked) = 0
      OBVIOUS
    <3>3. g.state # {}
      BY <2>1
    <3> QED
      BY <3>1, <3>2, <3>3 DEF Phase
  <2> QED
    BY <2>1, <2>2, <2>3 DEF AllGestures, Detected
<1> QED
  BY <1>2, <1>3

\* The rest of Phase's cases once nothing was detected and something is possible.
LEMMA UndetectedDoes ==
  ASSUME NEW g, NEW on, g \in Handlers, Phase(g), Known(g, on), ~HasDetected(g), g.state # {}
  PROVE  \/ /\ g.tracked = <<>> /\ g.ignored = {} /\ g.state = AllGestures /\ ~g.waiting
            /\ ~g.longpress /\ ~g.twoTouch
         \/ Len(g.tracked) = 1 /\ ~g.twoTouch /\ ~g.waiting /\ g.state = AllGestures
         \/ Len(g.tracked) >= 2 /\ ~g.longpress /\ g.twoTouch /\ ~g.waiting /\ g.state = TwoLeft
         \/ /\ Len(g.tracked) = 2 /\ ~g.longpress /\ ~g.twoTouch
            /\ IF g.waiting THEN g.state = {"twotap"} ELSE g.state = ManyLeft
         \/ Len(g.tracked) = 3 /\ ~g.longpress /\ ~g.twoTouch /\ g.state = {"threetap"}
<1>1. g.tracked \in Seq(Touches) /\ g.state \notin Detected
  BY DetectedDoes DEF Handlers
<1>2. Len(g.tracked) = 0 => g.tracked = <<>>
  BY <1>1
<1>3. /\ g.state \notin {{"drag"}, {"longpress"}} /\ g.state \notin {{"twodrag"}, {"pinch"}}
  BY <1>1 DEF Detected
<1> QED
  BY <1>2, <1>3 DEF Phase

(* A touch that is ignored is on the canvas, and known there. *)
LEMMA IgnoredKnown ==
  ASSUME NEW g \in Handlers, NEW h \in Handlers, NEW on, Known(g, on),
         NEW id \in Fingers, id \notin on,
         h.tracked = g.tracked, h.waiting = g.waiting, h.ignored = g.ignored \union {id}
  PROVE  Known(h, on \union {id})
BY DEF Known

(* A new touch is ignored or tracked. *)
LEMMA TouchStartDoes ==
  ASSUME Tracking(gh, onScreen, gesture), NEW id \in Fingers, NEW x \in Nat,
         NEW late \in BOOLEAN, TouchStart(id, x, late)
  PROVE  Tracking(gh', onScreen', gesture) /\ Dispatch(<<>>)
<1>1. /\ id \notin onScreen /\ onScreen' = onScreen \union {id} /\ Dispatch(<<>>)
      /\ gh \in Handlers /\ onScreen \subseteq Fingers /\ Phase(gh) /\ Known(gh, onScreen)
      /\ Believed(gh, gesture)
  BY DEF TouchStart, Tracking
<1>2. /\ (HasDetected(gh) \/ gh.state = {}) => gh' = Ignore(gh, id)
      /\ ~(HasDetected(gh) \/ gh.state = {}) /\ ((late /\ gh.tracked # <<>>) \/ gh.waiting)
           => gh' = Ignore([gh EXCEPT !.state = {}], id)
      /\ ~(HasDetected(gh) \/ gh.state = {}) /\ ~((late /\ gh.tracked # <<>>) \/ gh.waiting)
           => gh' = Track(gh, id, x)
  BY Zenon DEF TouchStart
<1>3. gh.tracked \in Seq(Touches)
  BY <1>1 DEF Handlers
<1>4. ASSUME HasDetected(gh) \/ gh.state = {} PROVE Tracking(gh', onScreen', gesture)
  <2> DEFINE h == [gh EXCEPT !.ignored = @ \union {id}]
  <2>1. gh' = h
    BY <1>2, <1>4 DEF Ignore
  <2>2. /\ h \in Handlers /\ h.state = gh.state /\ h.tracked = gh.tracked
        /\ h.ignored = gh.ignored \union {id} /\ h.waiting = gh.waiting
        /\ h.longpress = gh.longpress /\ h.twoTouch = gh.twoTouch
    BY <1>1 DEF Handlers
  <2> HIDE DEF h
  <2>3. gh.state \in Detected \/ gh.state = {}
    BY <1>1, <1>4, DetectedDoes
  <2>4. gh.state # AllGestures
    BY <2>3 DEF Detected, AllGestures, Taps
  <2>5. Phase(h)
    BY <1>1, <2>2, <2>4 DEF Phase
  <2>6. Known(h, onScreen \union {id})
    BY <1>1, <2>2, IgnoredKnown
  <2>7. Believed(h, gesture)
    BY <1>1, <2>2 DEF Believed
  <2> QED
    BY <1>1, <2>1, <2>2, <2>5, <2>6, <2>7 DEF Tracking
<1>5. ASSUME ~(HasDetected(gh) \/ gh.state = {}) PROVE gesture \notin Holding
  <2>1. gh.state \notin Detected
    BY <1>1, <1>5, DetectedDoes
  <2> QED
    BY <1>1, <2>1 DEF Believed, Holding, Detected
<1>6. ASSUME ~(HasDetected(gh) \/ gh.state = {}), (late /\ gh.tracked # <<>>) \/ gh.waiting
      PROVE  Tracking(gh', onScreen', gesture)
  <2> DEFINE f == [gh EXCEPT !.state = {}]
             h == [f EXCEPT !.ignored = @ \union {id}]
  <2>1. gh' = h
    BY <1>2, <1>6 DEF Ignore
  <2>2. f \in Handlers /\ f.state = {} /\ f.tracked = gh.tracked /\ f.ignored = gh.ignored
        /\ f.waiting = gh.waiting /\ f.longpress = gh.longpress /\ f.twoTouch = gh.twoTouch
    BY <1>1 DEF Handlers
  <2> HIDE DEF f
  <2>3. /\ h \in Handlers /\ h.state = {} /\ h.tracked = gh.tracked
        /\ h.ignored = gh.ignored \union {id} /\ h.waiting = gh.waiting
        /\ h.longpress = gh.longpress /\ h.twoTouch = gh.twoTouch
    BY <2>2 DEF Handlers
  <2> HIDE DEF h
  <2>4. Phase(h)
    <3>1. Len(gh.tracked) # 0
      BY <1>1, <1>3, <1>6 DEF Phase
    <3>2. \/ Len(gh.tracked) = 1 /\ ~gh.twoTouch /\ ~gh.waiting
          \/ Len(gh.tracked) >= 2 /\ ~gh.longpress
      BY <1>1, <1>3, <3>1 DEF Phase
    <3> QED
      BY <2>3, <3>2 DEF Phase
  <2>5. Known(h, onScreen \union {id})
    BY <1>1, <2>3, IgnoredKnown
  <2>6. Believed(h, gesture)
    BY <1>5, <1>6, <2>3 DEF Believed, Detected
  <2> QED
    BY <1>1, <2>1, <2>3, <2>4, <2>5, <2>6 DEF Tracking
<1>7. ASSUME ~(HasDetected(gh) \/ gh.state = {}), ~((late /\ gh.tracked # <<>>) \/ gh.waiting)
      PROVE  Tracking(gh', onScreen', gesture)
  <2> DEFINE t == [id |-> id, first |-> x, last |-> x, angle |-> 0, active |-> TRUE]
             more == Append(gh.tracked, t)
             all == [gh EXCEPT !.tracked = more]
             n == Len(gh.tracked)
  <2>1. t \in Touches /\ t.id = id /\ t.active = TRUE
    BY DEF Touches, Angles
  <2> PICK h : h = gh'
    OBVIOUS
  <2>2. h = CASE Len(all.tracked) = 1 -> [all EXCEPT !.longpress = TRUE]
                [] Len(all.tracked) = 2 ->
                     [[all EXCEPT !.longpress = FALSE]
                        EXCEPT !.state = @ \ {"onetap", "drag", "longpress"}]
                [] Len(all.tracked) = 3 -> [all EXCEPT !.state = @ \ {"twotap", "twodrag", "pinch"}]
                [] OTHER -> [all EXCEPT !.state = {}]
    BY <1>2, <1>7 DEF Track, StopLongpress
  <2> HIDE DEF t
  <2>3. more \in Seq(Touches) /\ Len(more) = n + 1
        /\ (\A i \in 1 .. n : more[i] = gh.tracked[i]) /\ more[n + 1] = t
    BY <1>3, <2>1
  <2> HIDE DEF more
  <2>4. /\ all \in Handlers /\ all.state = gh.state /\ all.tracked = more
        /\ all.ignored = gh.ignored /\ all.waiting = gh.waiting
        /\ all.longpress = gh.longpress /\ all.twoTouch = gh.twoTouch
    BY <1>1, <2>3 DEF Handlers
  <2> HIDE DEF all
  <2>5. n \in Nat /\ Len(all.tracked) = n + 1
    BY <1>3, <2>3, <2>4
  <2> HIDE DEF n
  <2>6. /\ h \in Handlers /\ h.tracked = more
        /\ h.ignored = gh.ignored /\ h.waiting = gh.waiting
        /\ h.twoTouch = gh.twoTouch
        /\ \/ n = 0 /\ h.state = gh.state
           \/ n = 1 /\ ~h.longpress /\ h.state = gh.state \ {"onetap", "drag", "longpress"}
           \/ /\ n = 2 /\ h.longpress = gh.longpress
              /\ h.state = gh.state \ {"twotap", "twodrag", "pinch"}
           \/ n > 2 /\ h.longpress = gh.longpress /\ h.state = {}
    <3>1. CASE n = 0
      <4>1. h = [all EXCEPT !.longpress = TRUE]
        BY <2>2, <2>5, <3>1
      <4> QED
        BY <2>4, <3>1, <4>1 DEF Handlers
    <3>2. CASE n = 1
      <4>1. h = [[all EXCEPT !.longpress = FALSE]
                   EXCEPT !.state = @ \ {"onetap", "drag", "longpress"}]
        BY <2>2, <2>5, <3>2
      <4> QED
        BY <2>4, <3>2, <4>1 DEF Handlers
    <3>3. CASE n = 2
      <4>1. h = [all EXCEPT !.state = @ \ {"twotap", "twodrag", "pinch"}]
        BY <2>2, <2>5, <3>3
      <4> QED
        BY <2>4, <3>3, <4>1 DEF Handlers
    <3>4. CASE n > 2
      <4>1. h = [all EXCEPT !.state = {}]
        BY <2>2, <2>5, <3>4
      <4> QED
        BY <2>4, <3>4, <4>1 DEF Handlers
    <3> QED
      BY <2>5, <3>1, <3>2, <3>3, <3>4
  <2>7. ~gh.waiting
    BY <1>7
  <2>8. \/ n = 0 /\ gh.state = AllGestures /\ ~gh.longpress /\ ~gh.twoTouch
        \/ n = 1 /\ ~gh.twoTouch /\ gh.state = AllGestures
        \/ n >= 2 /\ ~gh.longpress /\ gh.twoTouch /\ gh.state = TwoLeft
        \/ n = 2 /\ ~gh.longpress /\ ~gh.twoTouch /\ gh.state = ManyLeft
        \/ n = 3 /\ ~gh.longpress /\ ~gh.twoTouch /\ gh.state = {"threetap"}
    BY <1>1, <1>7, <2>7, UndetectedDoes DEF n
  <2>9. /\ AllGestures \ {"onetap", "drag", "longpress"} = ManyLeft
        /\ TwoLeft \ {"twotap", "twodrag", "pinch"} = {}
        /\ ManyLeft \ {"twotap", "twodrag", "pinch"} = {"threetap"}
    BY DEF AllGestures, Taps, ManyLeft, TwoLeft
  <2>10. Phase(h)
    <3>1. \/ n = 0 /\ ~h.twoTouch /\ h.state = AllGestures
          \/ n = 1 /\ ~h.longpress /\ ~h.twoTouch /\ h.state = ManyLeft
          \/ n = 2 /\ ~h.longpress /\ ~h.twoTouch /\ h.state = {"threetap"}
          \/ n >= 2 /\ ~h.longpress /\ h.state = {}
      BY <2>6, <2>8, <2>9
    <3>2. Len(h.tracked) = n + 1 /\ ~h.waiting
      BY <2>3, <2>6, <2>7
    <3> QED
      BY <2>5, <3>1, <3>2 DEF Phase
  <2>11. Known(h, onScreen \union {id})
    <3>1. /\ \A i \in 1 .. n : gh.tracked[i].active /\ gh.tracked[i].id \in onScreen
               /\ gh.tracked[i].id \notin gh.ignored /\ gh.tracked[i].id # id
          /\ \A i, j \in 1 .. n : gh.tracked[i].id = gh.tracked[j].id => i = j
          /\ gh.ignored \subseteq onScreen /\ id \notin gh.ignored
          /\ \A f \in onScreen : f \in gh.ignored \/ \E i \in 1 .. n : gh.tracked[i].id = f
      BY <1>1, <1>3, <2>7 DEF Known, n
    <3>2. DOMAIN more = 1 .. n + 1 /\ n + 1 \in DOMAIN more
      BY <2>3, <2>5
    <3>3. \A i \in DOMAIN more : i \in 1 .. n \/ i = n + 1
      BY <2>5, <3>2
    <3>4. \A i, j \in DOMAIN more : more[i].id = more[j].id => i = j
      BY <2>1, <2>3, <3>1, <3>3
    <3>5. \A i \in DOMAIN more : more[i].active /\ more[i].id \in onScreen \union {id}
                                 /\ more[i].id \notin gh.ignored
      BY <2>1, <2>3, <3>1, <3>3
    <3>6. \A f \in onScreen \union {id} :
            f \in gh.ignored \/ \E i \in DOMAIN more : more[i].id = f /\ more[i].active
      <4>1. \A i \in 1 .. n : i \in DOMAIN more /\ more[i].id = gh.tracked[i].id
                              /\ more[i].active
        BY <2>3, <2>5, <3>1, <3>2
      <4>2. n + 1 \in DOMAIN more /\ more[n + 1].id = id /\ more[n + 1].active
        BY <2>1, <2>3, <3>2
      <4> QED
        BY <3>1, <4>1, <4>2
    <3> QED
      BY <2>6, <2>7, <3>1, <3>2, <3>4, <3>5, <3>6 DEF Known
  <2>12. Believed(h, gesture)
    <3>1. h.state \notin Detected
      <4>1. \/ h.state = AllGestures \/ h.state = ManyLeft \/ h.state = {}
            \/ h.state = {"threetap"}
        BY <2>6, <2>8, <2>9
      <4> QED
        BY <4>1 DEF Detected, AllGestures, ManyLeft, Taps
    <3> QED
      BY <1>5, <1>7, <3>1 DEF Believed
  <2> QED
    BY <1>1, <2>6, <2>10, <2>11, <2>12 DEF Tracking
<1> QED
  BY <1>1, <1>4, <1>6, <1>7

\* The touches have the same names in both, and the same are lifted.
SameTouches(g, h) ==
  /\ Len(h.tracked) = Len(g.tracked)
  /\ \A i \in 1 .. Len(g.tracked) : /\ h.tracked[i].id = g.tracked[i].id
                                    /\ h.tracked[i].active = g.tracked[i].active
  /\ h.ignored = g.ignored /\ h.waiting = g.waiting

(* Then the same fingers are known. *)
LEMMA SameKnown ==
  ASSUME NEW g \in Handlers, NEW h \in Handlers, NEW on, Known(g, on), SameTouches(g, h)
  PROVE  Known(h, on)
<1>1. g.tracked \in Seq(Touches) /\ h.tracked \in Seq(Touches)
  BY DEF Handlers
<1> DEFINE n == Len(g.tracked)
<1>2. /\ DOMAIN g.tracked = 1 .. n /\ DOMAIN h.tracked = 1 .. n
      /\ \A i \in 1 .. n : /\ h.tracked[i].id = g.tracked[i].id
                           /\ h.tracked[i].active = g.tracked[i].active
      /\ h.ignored = g.ignored /\ h.waiting = g.waiting
      /\ (g.tracked = <<>> <=> n = 0) /\ (h.tracked = <<>> <=> n = 0)
  BY <1>1 DEF SameTouches
<1> HIDE DEF n
<1> QED
  BY <1>2 DEF Known

(* The place of a touch is noted; nothing else changes. *)
LEMMA MoveTouchDoes ==
  ASSUME NEW g \in Handlers, NEW id \in Fingers, Tracks(g, id), NEW x \in Nat
  PROVE  LET h == MoveTouch(g, id, x) IN
         /\ h \in Handlers /\ SameTouches(g, h)
         /\ h.state = g.state /\ h.longpress = g.longpress /\ h.twoTouch = g.twoTouch
<1> DEFINE first(j) == g.tracked[j].id = id /\ \A k \in 1 .. j - 1 : g.tracked[k].id # id
           i == CHOOSE j \in DOMAIN g.tracked : first(j)
           angle == IF x > g.tracked[i].first THEN 0
                    ELSE IF x < g.tracked[i].first THEN 180 ELSE g.tracked[i].angle
           t == [g.tracked[i] EXCEPT !.last = x, !.angle = angle]
           list == [g.tracked EXCEPT ![i] = t]
           h == [g EXCEPT !.tracked = list]
<1>1. g.tracked \in Seq(Touches) /\ DOMAIN g.tracked = 1 .. Len(g.tracked)
  BY DEF Handlers
<1>2. i \in DOMAIN g.tracked
  <2>1. PICK j \in DOMAIN g.tracked : g.tracked[j].id = id
    BY DEF Tracks
  <2> DEFINE T == {k \in DOMAIN g.tracked : g.tracked[k].id = id}
  <2>2. T \in SUBSET Nat /\ T # {}
    BY <1>1, <2>1
  <2> HIDE DEF T
  <2>3. PICK m \in T : \A k \in T : ~(k < m)
    BY <2>2, Least
  <2>4. m \in DOMAIN g.tracked /\ first(m)
    BY <1>1, <2>3 DEF T
  <2> HIDE DEF first
  <2> QED
    BY <2>4
<1>3. MoveTouch(g, id, x) = h
  BY DEF MoveTouch
<1> HIDE DEF i
<1>4. g.tracked[i] \in Touches
  BY <1>1, <1>2
<1>5. angle \in Angles
  BY <1>4 DEF Touches, Angles
<1> HIDE DEF angle
<1>6. t \in Touches /\ t.id = g.tracked[i].id /\ t.active = g.tracked[i].active
  BY <1>4, <1>5 DEF Touches
<1> HIDE DEF t
<1>7. /\ list \in Seq(Touches) /\ Len(list) = Len(g.tracked)
      /\ \A k \in 1 .. Len(g.tracked) : list[k] = IF k = i THEN t ELSE g.tracked[k]
  BY <1>1, <1>2, <1>6
<1> HIDE DEF list
<1>8. /\ h \in Handlers /\ h.tracked = list /\ h.state = g.state /\ h.longpress = g.longpress
      /\ h.twoTouch = g.twoTouch /\ h.ignored = g.ignored /\ h.waiting = g.waiting
  BY <1>7 DEF Handlers
<1> HIDE DEF h
<1>9. SameTouches(g, h)
  BY <1>6, <1>7, <1>8 DEF SameTouches
<1> QED
  BY <1>3, <1>8, <1>9

(* What is left possible once a touch moved far. *)
LEMMA NarrowDoes ==
  ASSUME NEW g \in Handlers, NEW on, Phase(g), Known(g, on), NEW id \in Fingers,
         Tracks(g, id), ~HasDetected(g)
  PROVE  LET h == Narrow(g, id) IN
         h \in Handlers /\ SameTouches(g, h) /\ Phase(h)
<1> DEFINE n == Len(g.tracked)
           touches == {g.tracked[i] : i \in 1 .. n}
           t == CHOOSE y \in touches : y.id = id
           others == {y \in touches : y.id # id}
           other == CHOOSE y \in others : TRUE
           ruledOut == Taps \union {"longpress"}
                       \union (IF n = 1 THEN {} ELSE {"drag"})
                       \union (IF n = 2 THEN {} ELSE {"twodrag", "pinch"})
           calm == [g EXCEPT !.longpress = FALSE]
           left == [calm EXCEPT !.state = @ \ ruledOut]
           apart == [left EXCEPT !.twoTouch = FALSE,
                                 !.state = @ \ IF t.angle # other.angle THEN {"twodrag"} ELSE {"pinch"}]
           timed == [left EXCEPT !.twoTouch = TRUE]
           h == Narrow(g, id)
<1>1. g.tracked \in Seq(Touches) /\ n \in Nat /\ DOMAIN g.tracked = 1 .. n
  BY DEF Handlers
<1>0. n \in Nat
  BY <1>1
<1>2. n > 0
  BY <1>1 DEF Tracks
<1>3. n = 2 => others # {}
  <2>1. n = 2 => 1 \in 1 .. n /\ 2 \in 1 .. n
    BY <1>1
  <2>2. n = 2 => g.tracked[1].id # g.tracked[2].id
    BY <1>1, <2>1 DEF Known
  <2>3. n = 2 => g.tracked[1] \in touches /\ g.tracked[2] \in touches
    BY <2>1
  <2> HIDE DEF touches
  <2> QED
    BY <2>2, <2>3
<1>4. h = IF n = 2 /\ others # {} THEN TwoTouches(left, t, other) ELSE left
  BY DEF Narrow, StopLongpress
<1>5. n = 2 => h = apart \/ h = timed
  BY <1>3, <1>4 DEF TwoTouches
<1>6. n # 2 => h = left
  BY <1>4
<1>7. /\ calm \in Handlers /\ calm.longpress = FALSE /\ calm.state = g.state
      /\ calm.tracked = g.tracked /\ calm.ignored = g.ignored /\ calm.waiting = g.waiting
      /\ calm.twoTouch = g.twoTouch
  BY DEF Handlers
<1> HIDE DEF calm
<1> DEFINE s == g.state \ ruledOut
<1>8. s \subseteq AllGestures
  BY DEF Handlers
<1>9. /\ left \in Handlers /\ left.longpress = FALSE /\ left.state = s
      /\ left.tracked = g.tracked /\ left.ignored = g.ignored /\ left.waiting = g.waiting
      /\ left.twoTouch = g.twoTouch
  <2>1. left = [calm EXCEPT !.state = g.state \ ruledOut]
    BY <1>7
  <2> HIDE DEF left, ruledOut
  <2> QED
    BY <1>7, <1>8, <2>1 DEF Handlers
<1> HIDE DEF left
<1> DEFINE less == IF t.angle # other.angle THEN {"twodrag"} ELSE {"pinch"}
<1>10. less = {"twodrag"} \/ less = {"pinch"}
  OBVIOUS
<1>11. /\ apart \in Handlers /\ apart.longpress = FALSE /\ apart.state = s \ less
       /\ apart.tracked = g.tracked /\ apart.ignored = g.ignored /\ apart.waiting = g.waiting
       /\ apart.twoTouch = FALSE
  <2>1. apart = [left EXCEPT !.twoTouch = FALSE, !.state = s \ less]
    BY <1>9
  <2> HIDE DEF apart, less, s
  <2> QED
    BY <1>8, <1>9, <2>1 DEF Handlers
<1>12. /\ timed \in Handlers /\ timed.longpress = FALSE /\ timed.state = s
       /\ timed.tracked = g.tracked /\ timed.ignored = g.ignored /\ timed.waiting = g.waiting
       /\ timed.twoTouch = TRUE
  BY <1>9 DEF Handlers
<1> HIDE DEF apart, timed, less, t, other, others, touches, h
<1>13. /\ h \in Handlers /\ h.longpress = FALSE
       /\ h.tracked = g.tracked /\ h.ignored = g.ignored /\ h.waiting = g.waiting
       /\ \/ n # 2 /\ h.state = s /\ h.twoTouch = g.twoTouch
          \/ n = 2 /\ h.state = s /\ h.twoTouch
          \/ n = 2 /\ h.state \in {s \ {"twodrag"}, s \ {"pinch"}} /\ ~h.twoTouch
  BY <1>5, <1>6, <1>9, <1>10, <1>11, <1>12
<1>14. /\ AllGestures \ (Taps \union {"longpress"} \union {"twodrag", "pinch"}) = {"drag"}
       /\ ManyLeft \ (Taps \union {"longpress"} \union {"drag"}) = TwoLeft
       /\ TwoLeft \ (Taps \union {"longpress"} \union {"drag"}) = TwoLeft
       /\ {"twotap"} \ (Taps \union {"longpress"} \union {"drag"}) = {}
       /\ TwoLeft \ (Taps \union {"longpress"} \union {"drag"} \union {"twodrag", "pinch"}) = {}
       /\ {"threetap"} \ (Taps \union {"longpress"} \union {"drag"} \union {"twodrag", "pinch"}) = {}
  BY DEF AllGestures, Taps, ManyLeft, TwoLeft
<1>15. \/ n = 1 /\ ~g.twoTouch /\ ~g.waiting /\ s \in {{"drag"}, {}}
       \/ n = 2 /\ ~g.waiting /\ s = TwoLeft
       \/ n = 2 /\ s = {}
       \/ n > 2 /\ s = {}
  <2>1. CASE g.state = {}
    <3>1. s = {}
      BY <2>1
    <3>2. n = 1 => ~g.twoTouch /\ ~g.waiting
      BY <2>1 DEF Phase
    <3> HIDE DEF s, n
    <3> QED
      BY <1>1, <1>2, <3>1, <3>2
  <2>2. CASE g.state # {}
    <3>1. n # 0 => g.tracked # <<>>
      BY <1>1
    <3>2. \/ n = 1 /\ ~g.twoTouch /\ ~g.waiting /\ g.state = AllGestures
          \/ n >= 2 /\ ~g.waiting /\ g.state = TwoLeft
          \/ n = 2 /\ IF g.waiting THEN g.state = {"twotap"} ELSE g.state = ManyLeft
          \/ n = 3 /\ g.state = {"threetap"}
      BY <1>2, <2>2, <3>1, UndetectedDoes
    <3>3. CASE n = 1
      <4>1. ruledOut = Taps \union {"longpress"} \union {"twodrag", "pinch"}
        BY <3>3
      <4>2. ~g.twoTouch /\ ~g.waiting /\ g.state = AllGestures
        BY <3>2, <3>3
      <4> QED
        BY <1>14, <3>3, <4>1, <4>2
    <3>4. CASE n = 2
      <4>1. ruledOut = Taps \union {"longpress"} \union {"drag"}
        BY <3>4
      <4>2. \/ ~g.waiting /\ g.state \in {TwoLeft, ManyLeft}
            \/ g.state = {"twotap"}
        BY <3>2, <3>4
      <4> HIDE DEF ruledOut, n
      <4> QED
        BY <1>14, <3>4, <4>1, <4>2
    <3> HIDE DEF n
    <3>5. CASE n > 2
      <4>1. ruledOut = Taps \union {"longpress"} \union {"drag"} \union {"twodrag", "pinch"}
        <5>1. n # 1 /\ n # 2
          BY <1>0, <3>5
        <5> QED
          BY <5>1 DEF ruledOut
      <4>2. g.state \in {TwoLeft, {"threetap"}}
        BY <1>0, <3>2, <3>5
      <4> HIDE DEF ruledOut
      <4> QED
        BY <1>14, <3>5, <4>1, <4>2
    <3>6. n = 1 \/ n = 2 \/ n > 2
      BY <1>0, <1>2
    <3> QED
      BY <3>3, <3>4, <3>5, <3>6
  <2> QED
    BY <2>1, <2>2
<1> HIDE DEF s, n, ruledOut
<1>16. TwoLeft \ {"twodrag"} = {"pinch"} /\ TwoLeft \ {"pinch"} = {"twodrag"}
  BY DEF TwoLeft
<1>17. \/ n = 1 /\ ~h.twoTouch /\ ~h.waiting /\ h.state \in {{"drag"}, {}}
       \/ n >= 2 /\ h.state = {}
       \/ n >= 2 /\ ~h.twoTouch /\ h.state \in {{"twodrag"}, {"pinch"}}
       \/ n >= 2 /\ h.twoTouch /\ ~h.waiting /\ h.state = TwoLeft
  BY <1>1, <1>13, <1>15, <1>16
<1>18. Len(h.tracked) = n
  BY <1>13 DEF n
<1>19. Phase(h)
  BY <1>13, <1>17, <1>18 DEF Phase, TwoLeft
<1>20. SameTouches(g, h)
  BY <1>13 DEF SameTouches
<1> QED
  BY <1>13, <1>19, <1>20 DEF h

(* What was detected starts and moves at once. *)
LEMMA DetectedNow ==
  ASSUME NEW g, NEW on, NEW was, g \in Handlers, on \subseteq Fingers, Phase(g), Known(g, on),
         g.tracked # <<>>, g.state \in Detected, was \notin Holding
  PROVE  LET evs == <<Event(g, "start"), Event(g, "move")>> IN
         /\ Legit(was, evs) /\ Legit(was, <<Event(g, "start")>>)
         /\ Tracking(g, on, Finally(was, evs))
         /\ Tracking(g, on, Finally(was, <<Event(g, "start")>>))
<1>1. PICK what \in AllGestures : g.state = {what} /\ what \notin Taps
  BY DEF Detected, AllGestures, Taps
<1> DEFINE d == Event(g, "start")
           e == Event(g, "move")
<1>2. /\ d \in Events /\ d.type = "start" /\ d.gesture = what
      /\ e \in Events /\ e.type = "move" /\ e.gesture = what
  BY <1>1, EventDoes
<1> HIDE DEF d, e
<1>3. After(was, d) = what /\ \A x : After(x, e) = what
  BY <1>2 DEF After
<1>4. Follows(was, d) /\ Follows(what, e)
  BY <1>2 DEF Follows
<1>5. Legit(was, <<d, e>>) /\ Legit(was, <<d>>)
  BY <1>2, <1>3, <1>4, Zenon DEF Legit
<1>6. Finally(was, <<d, e>>) = what /\ Finally(was, <<d>>) = what
  <2>1. Len(<<d, e>>) = 2 /\ <<d, e>>[2] = e /\ <<d, e>> # <<>>
    OBVIOUS
  <2>2. Len(<<d>>) = 1 /\ <<d>>[1] = d /\ <<d>> # <<>>
    OBVIOUS
  <2>3. Finally(was, <<d, e>>) = After(was, e)
    BY <2>1, Zenon DEF Finally
  <2>4. Finally(was, <<d>>) = After(was, d)
    BY <2>2, Zenon DEF Finally
  <2> QED
    BY <1>3, <2>3, <2>4
<1>7. Believed(g, what)
  BY <1>1 DEF Believed
<1>8. Tracking(g, on, what)
  BY <1>7 DEF Tracking
<1>9. /\ Legit(was, <<d, e>>) /\ Legit(was, <<d>>)
      /\ Tracking(g, on, Finally(was, <<d, e>>)) /\ Tracking(g, on, Finally(was, <<d>>))
  BY <1>5, <1>6, <1>8
<1> QED
  BY <1>9, Zenon DEF d, e

(* A touch that moves. *)
LEMMA TouchMoveDoes ==
  ASSUME Tracking(gh, onScreen, gesture), NEW id \in Fingers, NEW x \in Nat, TouchMove(id, x)
  PROVE  \E evs : /\ Legit(gesture, evs) /\ Dispatch(evs)
                  /\ Tracking(gh', onScreen', Finally(gesture, evs))
<1> DEFINE moved == MoveTouch(gh, id, x)
           g == Narrow(moved, id)
           Goal == \E evs : /\ Legit(gesture, evs) /\ Dispatch(evs)
                            /\ Tracking(gh', onScreen', Finally(gesture, evs))
<1>1. /\ gh \in Handlers /\ onScreen \subseteq Fingers /\ Phase(gh) /\ Known(gh, onScreen)
      /\ Believed(gh, gesture) /\ Tracks(gh, id) /\ onScreen' = onScreen
  BY DEF TouchMove, Tracking
<1>2. \/ HasDetected(gh) /\ gh' = moved /\ Dispatch(<<Event(moved, "move")>>)
      \/ ~HasDetected(gh) /\ gh' = moved /\ Dispatch(<<>>)
      \/ ~HasDetected(gh) /\ ~HasDetected(g) /\ gh' = g /\ Dispatch(<<>>)
      \/ /\ ~HasDetected(gh) /\ HasDetected(g) /\ gh' = g
         /\ Dispatch(<<Event(g, "start"), Event(g, "move")>>)
  BY Zenon DEF TouchMove
<1>3. /\ moved \in Handlers /\ SameTouches(gh, moved)
      /\ moved.state = gh.state /\ moved.longpress = gh.longpress
      /\ moved.twoTouch = gh.twoTouch
  BY <1>1, MoveTouchDoes
<1> HIDE DEF moved
<1>4. Known(moved, onScreen)
  BY <1>1, <1>3, SameKnown
<1>5. Phase(moved)
  BY <1>1, <1>3 DEF Phase, SameTouches
<1>6. Tracks(moved, id) /\ moved.tracked # <<>>
  <2>1. gh.tracked \in Seq(Touches) /\ moved.tracked \in Seq(Touches)
    BY <1>1, <1>3 DEF Handlers
  <2>2. PICK i \in DOMAIN gh.tracked : gh.tracked[i].id = id
    BY <1>1 DEF Tracks
  <2>3. i \in DOMAIN moved.tracked /\ moved.tracked[i].id = id
    BY <1>3, <2>1, <2>2 DEF SameTouches
  <2> QED
    BY <2>1, <2>3 DEF Tracks
<1>7. /\ HasDetected(gh) <=> gh.state \in Detected
      /\ HasDetected(moved) <=> gh.state \in Detected
  BY <1>1, <1>3, <1>4, <1>5, DetectedDoes
<1>8. Legit(gesture, <<>>) /\ Finally(gesture, <<>>) = gesture
  BY DEF Legit, Finally
<1>9. ASSUME ~HasDetected(gh) PROVE gesture \notin Holding
  BY <1>1, <1>7, <1>9 DEF Believed, Holding, Detected
<1>10. ASSUME HasDetected(gh), gh' = moved, Dispatch(<<Event(moved, "move")>>) PROVE Goal
  <2> DEFINE e == Event(moved, "move")
  <2>1. PICK what \in AllGestures : gh.state = {what}
    BY <1>7, <1>10 DEF Detected, AllGestures, Taps
  <2>2. gesture = what
    BY <1>1, <1>7, <1>10, <2>1 DEF Believed
  <2>3. e \in Events /\ e.type = "move" /\ e.gesture = what
    BY <1>3, <1>6, <2>1, EventDoes
  <2> HIDE DEF e
  <2>4. Follows(gesture, e) /\ After(gesture, e) = gesture
    BY <2>2, <2>3 DEF Follows, After
  <2>5. Legit(gesture, <<e>>)
    BY <2>3, <2>4, Zenon DEF Legit
  <2>6. Len(<<e>>) = 1 /\ <<e>>[1] = e /\ <<e>> # <<>>
    OBVIOUS
  <2>7. Finally(gesture, <<e>>) = gesture
    BY <2>4, <2>6, Zenon DEF Finally
  <2>8. Tracking(moved, onScreen, gesture)
    BY <1>1, <1>3, <1>4, <1>5 DEF Tracking, Believed
  <2> QED
    BY <1>1, <1>10, <2>5, <2>7, <2>8, Zenon DEF e
<1>11. ASSUME ~HasDetected(gh), gh' = moved, Dispatch(<<>>) PROVE Goal
  <2>1. Tracking(moved, onScreen, gesture)
    BY <1>1, <1>3, <1>4, <1>5 DEF Tracking, Believed
  <2> QED
    BY <1>1, <1>8, <1>11, <2>1, Zenon
<1>12. ASSUME ~HasDetected(gh)
       PROVE  /\ g \in Handlers /\ Phase(g) /\ Known(g, onScreen)
              /\ g.tracked # <<>>
              /\ HasDetected(g) <=> g.state \in Detected
  <2>1. /\ g \in Handlers /\ SameTouches(moved, g) /\ Phase(g)
    BY <1>3, <1>4, <1>5, <1>6, <1>7, <1>12, NarrowDoes
  <2> HIDE DEF g
  <2>2. Known(g, onScreen)
    BY <1>3, <1>4, <2>1, SameKnown
  <2>3. g.tracked # <<>>
    BY <1>3, <1>6, <2>1 DEF SameTouches, Handlers
  <2>4. HasDetected(g) <=> g.state \in Detected
    BY <2>1, <2>2, DetectedDoes
  <2> QED
    BY <2>1, <2>2, <2>3, <2>4
<1> HIDE DEF g
<1>13. ASSUME ~HasDetected(gh), ~HasDetected(g), gh' = g, Dispatch(<<>>) PROVE Goal
  <2>1. Tracking(g, onScreen, gesture)
    BY <1>1, <1>9, <1>12, <1>13 DEF Tracking, Believed
  <2> QED
    BY <1>1, <1>8, <1>13, <2>1, Zenon
<1>14. ASSUME ~HasDetected(gh), HasDetected(g), gh' = g,
              Dispatch(<<Event(g, "start"), Event(g, "move")>>)
       PROVE  Goal
  <2>1. /\ Legit(gesture, <<Event(g, "start"), Event(g, "move")>>)
        /\ Tracking(g, onScreen, Finally(gesture, <<Event(g, "start"), Event(g, "move")>>))
    BY <1>1, <1>9, <1>12, <1>14, DetectedNow, Zenon
  <2> QED
    BY <1>1, <1>14, <2>1, Zenon
<1> QED
  BY <1>2, <1>10, <1>11, <1>13, <1>14, Zenon

\* Of the touches of g, l has the one named id lifted, or none.
Lifted(g, l, id) ==
  /\ l \in Handlers /\ Len(l.tracked) = Len(g.tracked)
  /\ \A i \in 1 .. Len(g.tracked) :
       /\ l.tracked[i].id = g.tracked[i].id
       /\ l.tracked[i].active => g.tracked[i].active
       /\ g.tracked[i].active /\ g.tracked[i].id # id => l.tracked[i].active
  /\ l.ignored = g.ignored /\ ~l.longpress /\ ~l.twoTouch

(* A gesture given up leaves the other fingers to be ignored; if there are *)
(* none, the handler is as new.                                            *)
LEMMA GiveUpDoes ==
  ASSUME NEW g \in Handlers, NEW on, on \subseteq Fingers, Known(g, on), NEW id \in on,
         NEW l, Lifted(g, l, id), NEW what, what \notin Holding
  PROVE  Tracking(GiveUp(l, id), on \ {id}, what)
<1> DEFINE active == {l.tracked[i].id : i \in {j \in DOMAIN l.tracked : l.tracked[j].active}}
           rest == (l.ignored \union active) \ {id}
           none == [l EXCEPT !.tracked = <<>>, !.state = {}, !.ignored = (@ \union active) \ {id}]
           new == [none EXCEPT !.state = AllGestures, !.waiting = FALSE]
           h == GiveUp(l, id)
           n == Len(g.tracked)
<1>1. /\ l \in Handlers /\ g.tracked \in Seq(Touches) /\ l.tracked \in Seq(Touches)
      /\ l.ignored = g.ignored /\ ~l.longpress /\ ~l.twoTouch
      /\ n \in Nat /\ DOMAIN g.tracked = 1 .. n /\ DOMAIN l.tracked = 1 .. n
  BY DEF Lifted, Handlers
<1>2. \A i \in 1 .. n : /\ l.tracked[i].id = g.tracked[i].id
                        /\ l.tracked[i].active => g.tracked[i].active
                        /\ g.tracked[i].active /\ g.tracked[i].id # id => l.tracked[i].active
  BY DEF Lifted
<1>3. h = IF rest = {} THEN new ELSE none
  <2>1. none.ignored = rest
    BY <1>1 DEF Handlers
  <2>2. h = IF none.ignored = {} THEN new ELSE none
    BY DEF GiveUp, Reset
  <2> QED
    BY <2>1, <2>2
<1> HIDE DEF n
<1>4. rest \subseteq on \ {id}
  <2>1. active \subseteq on
    BY <1>1, <1>2 DEF Known
  <2> QED
    BY <1>1, <2>1 DEF Known
<1>5. \A f \in on \ {id} : f \in rest
  <2> SUFFICES ASSUME NEW f \in on, f # id, f \notin g.ignored PROVE f \in active
    BY <1>1
  <2>1. PICK i \in 1 .. n : g.tracked[i].id = f /\ g.tracked[i].active
    BY <1>1 DEF Known
  <2>2. l.tracked[i].active /\ l.tracked[i].id = f
    BY <1>2, <2>1
  <2> QED
    BY <1>1, <2>1, <2>2
<1>6. /\ none \in Handlers /\ none.tracked = <<>> /\ none.state = {} /\ none.ignored = rest
      /\ ~none.longpress /\ ~none.twoTouch
  <2>1. rest \in SUBSET Fingers
    BY <1>4
  <2>2. none = [l EXCEPT !.tracked = <<>>, !.state = {}, !.ignored = rest]
    BY <1>1 DEF Handlers
  <2>3. <<>> \in Seq(Touches) /\ {} \in SUBSET AllGestures
    OBVIOUS
  <2> HIDE DEF none, rest
  <2>4. none \in Handlers
    BY <1>1, <2>1, <2>2, <2>3 DEF Handlers
  <2>5. none.tracked = <<>> /\ none.state = {} /\ none.ignored = rest
    BY <1>1, <2>2 DEF Handlers
  <2>6. ~none.longpress /\ ~none.twoTouch
    BY <1>1, <2>2 DEF Handlers
  <2> QED
    BY <2>4, <2>5, <2>6
<1> HIDE DEF none, rest
<1>7. /\ new \in Handlers /\ new.tracked = <<>> /\ new.state = AllGestures
      /\ new.ignored = rest /\ ~new.longpress /\ ~new.twoTouch /\ ~new.waiting
  BY <1>6 DEF Handlers
<1> HIDE DEF new, h
<1>8. /\ h \in Handlers /\ h.tracked = <<>> /\ h.ignored = rest
      /\ ~h.longpress /\ ~h.twoTouch
      /\ IF rest = {} THEN h.state = AllGestures /\ ~h.waiting ELSE h.state = {}
  BY <1>3, <1>6, <1>7
<1>9. Len(h.tracked) = 0 /\ DOMAIN h.tracked = {}
  BY <1>8
<1>10. Phase(h)
  BY <1>8, <1>9 DEF Phase
<1>11. Known(h, on \ {id})
  BY <1>4, <1>5, <1>8, <1>9 DEF Known
<1>12. Believed(h, what)
  <2>1. AllGestures \notin Detected /\ {} \notin Detected
    BY DEF Detected, AllGestures, Taps
  <2> QED
    BY <1>8, <2>1 DEF Believed
<1>13. Tracking(h, on \ {id}, what)
  BY <1>8, <1>10, <1>11, <1>12 DEF Tracking
<1> QED
  BY <1>13 DEF h

(* An ignored touch is forgotten when it is lifted. *)
LEMMA ForgetDoes ==
  ASSUME NEW g, NEW on, NEW what, Tracking(g, on, what), NEW id \in on, id \in g.ignored
  PROVE  Tracking(Forget(g, id), on \ {id}, what)
<1> DEFINE left == [g EXCEPT !.ignored = @ \ {id}]
           rest == g.ignored \ {id}
           new == [left EXCEPT !.state = AllGestures, !.waiting = FALSE]
           h == Forget(g, id)
<1>1. /\ g \in Handlers /\ on \subseteq Fingers /\ Phase(g) /\ Known(g, on)
      /\ Believed(g, what) /\ g.tracked \in Seq(Touches)
  BY DEF Tracking, Handlers
<1>2. /\ left \in Handlers /\ left.tracked = g.tracked /\ left.ignored = rest
      /\ left.state = g.state /\ left.waiting = g.waiting
      /\ left.longpress = g.longpress /\ left.twoTouch = g.twoTouch
  BY <1>1 DEF Handlers
<1>3. h = IF g.tracked = <<>> /\ rest = {} THEN new ELSE left
  <2>1. h = IF left.tracked = <<>> THEN Reset(left) ELSE left
    BY DEF Forget
  <2>2. Reset(left) = IF left.ignored = {} THEN new ELSE left
    BY DEF Reset
  <2> HIDE DEF left, new, h
  <2> QED
    BY <1>2, <2>1, <2>2
<1> HIDE DEF left
<1>4. /\ new \in Handlers /\ new.tracked = g.tracked /\ new.ignored = rest
      /\ new.state = AllGestures /\ ~new.waiting
      /\ new.longpress = g.longpress /\ new.twoTouch = g.twoTouch
  BY <1>2 DEF Handlers
<1> HIDE DEF new, h
<1>5. g.tracked = <<>> => g.state = {} /\ ~g.longpress /\ ~g.twoTouch
  <2>1. g.tracked = <<>> => Len(g.tracked) = 0
    BY <1>1
  <2> QED
    BY <1>1, <2>1 DEF Phase
<1>6. Phase(h)
  <2>1. CASE g.tracked = <<>>
    <3>1. Len(h.tracked) = 0
      BY <1>2, <1>3, <1>4, <2>1
    <3>2. /\ ~h.longpress /\ ~h.twoTouch /\ h.ignored = rest
          /\ IF rest = {} THEN h.state = AllGestures /\ ~h.waiting ELSE h.state = {}
      BY <1>2, <1>3, <1>4, <1>5, <2>1
    <3> QED
      BY <3>1, <3>2 DEF Phase
  <2>2. CASE g.tracked # <<>>
    <3>1. h = left
      BY <1>3, <2>2
    <3>2. Len(g.tracked) # 0
      BY <1>1, <2>2
    <3> QED
      BY <1>1, <1>2, <3>1, <3>2 DEF Phase
  <2> QED
    BY <2>1, <2>2
<1>7. Known(left, on \ {id})
  BY <1>1, <1>2 DEF Known
<1>8. Known(h, on \ {id})
  <2>1. CASE h = left
    BY <1>7, <2>1
  <2>2. CASE h = new /\ g.tracked = <<>>
    <3>1. DOMAIN g.tracked = {}
      BY <2>2
    <3> QED
      BY <1>1, <1>4, <2>2, <3>1 DEF Known
  <2> QED
    BY <1>3, <2>1, <2>2
<1>9. Believed(h, what)
  <2>1. CASE h = left
    BY <1>1, <1>2, <2>1 DEF Believed
  <2>2. CASE h = new /\ g.tracked = <<>>
    <3>1. what \notin Holding
      BY <1>1, <1>5, <2>2 DEF Believed
    <3> QED
      BY <1>4, <2>2, <3>1 DEF Believed, Detected, AllGestures, Taps
  <2> QED
    BY <1>3, <2>1, <2>2
<1>10. h \in Handlers
  BY <1>2, <1>3, <1>4
<1>11. Tracking(h, on \ {id}, what)
  BY <1>1, <1>6, <1>8, <1>9, <1>10 DEF Tracking
<1> QED
  BY <1>11 DEF h

(* What was detected with a finger already lifted starts and ends at once. *)
LEMMA StartsAndEnds ==
  ASSUME NEW l, l \in Handlers, l.tracked # <<>>, NEW what \in AllGestures, l.state = {what},
         NEW was, was \notin Holding
  PROVE  LET evs == <<Event(l, "start"), Event(l, "end")>> IN
         Legit(was, evs) /\ Finally(was, evs) = None
<1> DEFINE d == Event(l, "start")
           e == Event(l, "end")
<1>1. /\ d \in Events /\ d.type = "start" /\ d.gesture = what
      /\ e \in Events /\ e.type = "end" /\ e.gesture = what
  BY EventDoes
<1> HIDE DEF d, e
<1>2. After(was, d) = what /\ \A x : After(x, e) = None
  BY <1>1 DEF After
<1>3. Follows(was, d) /\ Follows(what, e)
  BY <1>1 DEF Follows
<1>4. Legit(was, <<d, e>>)
  BY <1>1, <1>2, <1>3, Zenon DEF Legit
<1>5. Len(<<d, e>>) = 2 /\ <<d, e>>[2] = e /\ <<d, e>> # <<>>
  OBVIOUS
<1>6. Finally(was, <<d, e>>) = None
  BY <1>2, <1>5, Zenon DEF Finally
<1> QED
  BY <1>4, <1>6, Zenon DEF d, e

(* The touch that is lifted is marked so, if its gesture may be a tap.     *)
LEMMA LiftDoes ==
  ASSUME NEW g \in Handlers, NEW id, NEW slow \in BOOLEAN, NEW r \in Handlers,
         r.tracked = g.tracked, r.ignored = g.ignored, ~r.longpress, ~r.twoTouch
  PROVE  LET l == Lift(r, id, slow) IN
         /\ Lifted(g, l, id) /\ l.waiting = r.waiting
         /\ l.state = (IF slow THEN {} ELSE r.state)
         /\ \A i \in 1 .. Len(g.tracked) : g.tracked[i].id = id => ~l.tracked[i].active
<1> DEFINE n == Len(g.tracked)
           off(t) == IF t.id = id THEN [t EXCEPT !.active = FALSE] ELSE t
           list == [i \in DOMAIN g.tracked |-> off(g.tracked[i])]
           s == IF slow THEN {} ELSE r.state
           l == [r EXCEPT !.state = s, !.tracked = list]
<1>1. /\ g.tracked \in Seq(Touches) /\ n \in Nat /\ DOMAIN g.tracked = 1 .. n
      /\ \A i \in 1 .. n : g.tracked[i] \in Touches
  BY DEF Handlers
<1>2. Lift(r, id, slow) = l
  BY DEF Lift, Handlers
<1>3. \A t \in Touches : /\ off(t) \in Touches /\ off(t).id = t.id
                         /\ off(t).active => t.active
                         /\ t.active /\ t.id # id => off(t).active
                         /\ t.id = id => ~off(t).active
  BY DEF Touches
<1> HIDE DEF off, n
<1>4. /\ list \in Seq(Touches) /\ Len(list) = n
      /\ \A i \in 1 .. n : list[i] = off(g.tracked[i])
  BY <1>1, <1>3
<1> HIDE DEF list
<1>5. s \in SUBSET AllGestures
  BY DEF Handlers
<1> HIDE DEF s
<1>6. /\ l \in Handlers /\ l.tracked = list /\ l.state = s /\ l.waiting = r.waiting
      /\ l.ignored = g.ignored /\ ~l.longpress /\ ~l.twoTouch
  BY <1>4, <1>5 DEF Handlers
<1> HIDE DEF l
<1>7. \A i \in 1 .. n : /\ l.tracked[i].id = g.tracked[i].id
                        /\ l.tracked[i].active => g.tracked[i].active
                        /\ g.tracked[i].active /\ g.tracked[i].id # id => l.tracked[i].active
                        /\ g.tracked[i].id = id => ~l.tracked[i].active
  BY <1>1, <1>3, <1>4, <1>6
<1>8. Lifted(g, l, id)
  BY <1>4, <1>6, <1>7 DEF Lifted, n
<1> QED
  BY <1>2, <1>6, <1>7, <1>8 DEF n, s

(* The first touch released: only the tap of so many fingers is possible.  *)
LEMMA Release1stDoes ==
  ASSUME NEW g \in Handlers, NEW on, Phase(g), Known(g, on), g.tracked # <<>>, ~HasDetected(g)
  PROVE  LET r == Release1st(g) IN
         /\ r \in Handlers /\ r.tracked = g.tracked /\ r.ignored = g.ignored
         /\ r.waiting /\ ~r.longpress /\ ~r.twoTouch
         /\ \/ r.state = {}
            \/ Len(g.tracked) = 1 /\ r.state = {"onetap"}
            \/ Len(g.tracked) = 2 /\ r.state = {"twotap"}
            \/ Len(g.tracked) = 3 /\ r.state = {"threetap"}
<1> DEFINE n == Len(g.tracked)
           calm == IF g.twoTouch THEN [g EXCEPT !.twoTouch = FALSE, !.state = {}] ELSE g
           notTaps == CASE ~g.waiting /\ n = 1 -> {"twotap", "threetap"}
                        [] ~g.waiting /\ n = 2 -> {"onetap", "threetap"}
                        [] OTHER -> {}
           gone == notTaps \union (AllGestures \ Taps)
           still == [calm EXCEPT !.longpress = FALSE]
           r == [still EXCEPT !.waiting = TRUE, !.state = @ \ gone]
<1>1. g.tracked \in Seq(Touches) /\ n \in Nat /\ n # 0
  BY DEF Handlers
<1>2. Release1st(g) = r
  BY DEF Release1st, StopLongpress
<1> DEFINE s == IF g.twoTouch THEN {} ELSE g.state
<1>3. /\ calm \in Handlers /\ calm.state = s /\ calm.tracked = g.tracked
      /\ calm.ignored = g.ignored /\ ~calm.twoTouch
  BY DEF Handlers
<1> HIDE DEF calm
<1>4. /\ still \in Handlers /\ still.state = s /\ still.tracked = g.tracked
      /\ still.ignored = g.ignored /\ ~still.twoTouch /\ ~still.longpress
  BY <1>3 DEF Handlers
<1> HIDE DEF still
<1>5. /\ r \in Handlers /\ r.tracked = g.tracked /\ r.ignored = g.ignored
      /\ r.waiting /\ ~r.longpress /\ ~r.twoTouch /\ r.state = s \ gone
  <2>1. s \ gone \in SUBSET AllGestures
    BY <1>4 DEF Handlers
  <2>2. r = [still EXCEPT !.waiting = TRUE, !.state = s \ gone]
    BY <1>4
  <2> HIDE DEF r, s, gone
  <2> QED
    BY <1>4, <2>1, <2>2 DEF Handlers
<1> HIDE DEF r
<1>6. /\ AllGestures \ ({"twotap", "threetap"} \union (AllGestures \ Taps)) = {"onetap"}
      /\ ManyLeft \ ({"onetap", "threetap"} \union (AllGestures \ Taps)) = {"twotap"}
      /\ {"twotap"} \ (AllGestures \ Taps) = {"twotap"}
      /\ {"threetap"} \ (AllGestures \ Taps) = {"threetap"}
  BY DEF AllGestures, Taps, ManyLeft
<1>7. \/ s = {}
      \/ n = 1 /\ ~g.waiting /\ s = AllGestures
      \/ n = 2 /\ (IF g.waiting THEN s = {"twotap"} ELSE s = ManyLeft)
      \/ n = 3 /\ s = {"threetap"}
  <2>1. CASE g.state = {}
    BY <2>1
  <2>2. CASE g.state # {}
    BY <1>1, <2>2, UndetectedDoes
  <2> QED
    BY <2>1, <2>2
<1> HIDE DEF s
<1>8. /\ n = 1 /\ ~g.waiting => notTaps = {"twotap", "threetap"}
      /\ n = 2 /\ ~g.waiting => notTaps = {"onetap", "threetap"}
      /\ n = 2 /\ g.waiting => notTaps = {}
      /\ n = 3 => notTaps = {}
  <2> HIDE DEF n
  <2>1. ASSUME n = 1, ~g.waiting PROVE notTaps = {"twotap", "threetap"}
    <3>1. n # 2
      BY <2>1
    <3> QED
      BY <2>1, <3>1
  <2>2. ASSUME n = 2, ~g.waiting PROVE notTaps = {"onetap", "threetap"}
    <3>1. n # 1
      BY <2>2
    <3> QED
      BY <2>2, <3>1
  <2>3. ASSUME n = 2, g.waiting PROVE notTaps = {}
    BY <2>3
  <2>4. ASSUME n = 3 PROVE notTaps = {}
    <3>1. n # 1 /\ n # 2
      BY <2>4
    <3> QED
      BY <2>4, <3>1
  <2> QED
    BY <2>1, <2>2, <2>3, <2>4
<1> HIDE DEF notTaps
<1>9. \/ s \ gone = {}
      \/ n = 1 /\ s \ gone = {"onetap"}
      \/ n = 2 /\ s \ gone = {"twotap"}
      \/ n = 3 /\ s \ gone = {"threetap"}
  BY <1>6, <1>7, <1>8
<1> HIDE DEF gone
<1>10. \/ r.state = {}
       \/ n = 1 /\ r.state = {"onetap"}
       \/ n = 2 /\ r.state = {"twotap"}
       \/ n = 3 /\ r.state = {"threetap"}
  BY <1>5, <1>9
<1> QED
  BY <1>2, <1>5, <1>10 DEF n

(* A touch lifted while others of its tap are still down stays tracked.    *)
LEMMA StillDown ==
  ASSUME NEW g \in Handlers, NEW on, on \subseteq Fingers, Known(g, on),
         NEW id \in on, id \notin g.ignored,
         NEW l, Lifted(g, l, id), l.waiting,
         \A i \in 1 .. Len(g.tracked) : g.tracked[i].id = id => ~l.tracked[i].active,
         \/ Len(g.tracked) = 1 /\ l.state = {"onetap"}
         \/ Len(g.tracked) = 2 /\ l.state = {"twotap"}
         \/ Len(g.tracked) = 3 /\ l.state = {"threetap"},
         ~HasDetected(l), NEW what, what \notin Holding
  PROVE  Tracking(l, on \ {id}, what)
<1> DEFINE n == Len(g.tracked)
<1>1. /\ l \in Handlers /\ g.tracked \in Seq(Touches) /\ l.tracked \in Seq(Touches)
      /\ l.ignored = g.ignored /\ ~l.longpress /\ ~l.twoTouch
      /\ n \in Nat /\ Len(l.tracked) = n /\ DOMAIN g.tracked = 1 .. n /\ DOMAIN l.tracked = 1 .. n
  BY DEF Lifted, Handlers
<1>2. \A i \in 1 .. n : /\ l.tracked[i].id = g.tracked[i].id
                        /\ l.tracked[i].active => g.tracked[i].active
                        /\ g.tracked[i].active /\ g.tracked[i].id # id => l.tracked[i].active
                        /\ g.tracked[i].id = id => ~l.tracked[i].active
  BY DEF Lifted
<1> HIDE DEF n
<1>3. PICK k \in 1 .. n : l.tracked[k].active
  <2>1. \E one \in Taps : l.state = {one}
    BY DEF Taps
  <2>2. l.state \subseteq Taps /\ \E one \in AllGestures : l.state = {one}
    BY <2>1 DEF AllGestures
  <2> QED
    BY <1>1, <2>2 DEF HasDetected
<1>4. n # 1
  <2>1. PICK i \in 1 .. n : g.tracked[i].id = id
    BY <1>1 DEF Known
  <2>2. i # k
    BY <1>2, <1>3, <2>1
  <2> QED
    BY <2>1, <2>2
<1>5. Phase(l)
  <2>1. \/ Len(l.tracked) = 2 /\ l.state = {"twotap"}
        \/ Len(l.tracked) = 3 /\ l.state = {"threetap"}
    BY <1>1, <1>4 DEF n
  <2> QED
    BY <1>1, <2>1 DEF Phase
<1>6. Known(l, on \ {id})
  <2>1. \A i, j \in 1 .. n : l.tracked[i].id = l.tracked[j].id => i = j
    <3>1. \A i, j \in 1 .. n : g.tracked[i].id = g.tracked[j].id => i = j
      BY <1>1 DEF Known
    <3> QED
      BY <1>2, <3>1
  <2>2. \A i \in 1 .. n : l.tracked[i].active => /\ l.tracked[i].id \in on \ {id}
                                                 /\ l.tracked[i].id \notin l.ignored
    BY <1>1, <1>2 DEF Known
  <2>3. l.ignored \subseteq on \ {id}
    BY <1>1 DEF Known
  <2>4. \A f \in on \ {id} :
          f \in l.ignored \/ \E i \in 1 .. n : l.tracked[i].id = f /\ l.tracked[i].active
    <3> SUFFICES ASSUME NEW f \in on, f # id, f \notin g.ignored
                 PROVE  \E i \in 1 .. n : l.tracked[i].id = f /\ l.tracked[i].active
      BY <1>1
    <3>1. PICK i \in 1 .. n : g.tracked[i].id = f /\ g.tracked[i].active
      BY <1>1 DEF Known
    <3> QED
      BY <1>2, <3>1
  <2> QED
    BY <1>1, <1>3, <2>1, <2>2, <2>3, <2>4 DEF Known
<1>7. Believed(l, what)
  BY DEF Believed, Detected
<1> QED
  BY <1>1, <1>5, <1>6, <1>7 DEF Tracking

(* A touch that is lifted. *)
LEMMA TouchEndDoes ==
  ASSUME Tracking(gh, onScreen, gesture), NEW id \in Fingers, NEW slow \in BOOLEAN,
         TouchEnd(id, slow)
  PROVE  \E evs : /\ Legit(gesture, evs) /\ Dispatch(evs)
                  /\ Tracking(gh', onScreen', Finally(gesture, evs))
<1> DEFINE released == IF HasDetected(gh) THEN gh ELSE Release1st(gh)
           lifted == IF released.waiting THEN Lift(released, id, slow) ELSE released
           n == Len(gh.tracked)
           Goal == \E evs : /\ Legit(gesture, evs) /\ Dispatch(evs)
                            /\ Tracking(gh', onScreen', Finally(gesture, evs))
<1>1. /\ gh \in Handlers /\ onScreen \subseteq Fingers /\ Phase(gh) /\ Known(gh, onScreen)
      /\ Believed(gh, gesture) /\ id \in onScreen /\ onScreen' = onScreen \ {id}
  BY DEF TouchEnd, Tracking
<1>2. \/ id \in gh.ignored /\ gh' = Forget(gh, id) /\ Dispatch(<<>>)
      \/ /\ id \notin gh.ignored /\ HasDetected(lifted)
         /\ gh' = GiveUp(lifted, id)
         /\ Dispatch(IF lifted.waiting
                     THEN <<Event(lifted, "start"), Event(lifted, "end")>>
                     ELSE <<Event(lifted, "end")>>)
      \/ /\ id \notin gh.ignored /\ ~HasDetected(lifted) /\ lifted.state # {}
         /\ gh' = lifted /\ Dispatch(<<>>)
      \/ /\ id \notin gh.ignored /\ ~HasDetected(lifted) /\ lifted.state = {}
         /\ gh' = GiveUp(lifted, id) /\ Dispatch(<<>>)
  BY Zenon DEF TouchEnd
<1>3. Legit(gesture, <<>>) /\ Finally(gesture, <<>>) = gesture
  BY DEF Legit, Finally
<1>4. CASE id \in gh.ignored
  <2>1. gh' = Forget(gh, id) /\ Dispatch(<<>>)
    BY <1>2, <1>4, Zenon
  <2>2. Tracking(Forget(gh, id), onScreen \ {id}, gesture)
    BY <1>1, <1>4, ForgetDoes
  <2> QED
    BY <1>1, <1>3, <2>1, <2>2, Zenon
<1>5. HasDetected(gh) <=> gh.state \in Detected
  BY <1>1, DetectedDoes
<1>6. ASSUME id \notin gh.ignored PROVE gh.tracked # <<>>
  BY <1>1, <1>6 DEF Known
\* Detected before any touch was lifted: it ends.
<1>7. ASSUME id \notin gh.ignored, HasDetected(gh), ~gh.waiting PROVE Goal
  <2> DEFINE e == Event(gh, "end")
  <2>1. lifted = gh
    BY <1>7
  <2>2. gh' = GiveUp(gh, id) /\ Dispatch(<<e>>)
    BY <1>2, <1>7, <2>1, Zenon
  <2>3. PICK what \in AllGestures : gh.state = {what}
    BY <1>5, <1>7 DEF Detected, AllGestures, Taps
  <2>4. gesture = what
    BY <1>1, <1>5, <1>7, <2>3 DEF Believed
  <2>5. e \in Events /\ e.type = "end" /\ e.gesture = what
    BY <1>1, <1>6, <1>7, <2>3, EventDoes
  <2> HIDE DEF e
  <2>6. Follows(gesture, e) /\ After(gesture, e) = None
    BY <2>4, <2>5 DEF Follows, After
  <2>7. Legit(gesture, <<e>>)
    BY <2>5, <2>6, Zenon DEF Legit
  <2>8. Len(<<e>>) = 1 /\ <<e>>[1] = e /\ <<e>> # <<>>
    OBVIOUS
  <2>9. Finally(gesture, <<e>>) = None
    BY <2>6, <2>8, Zenon DEF Finally
  <2>10. ~gh.longpress /\ ~gh.twoTouch
    <3>1. /\ gh.state \notin {AllGestures, {}} /\ gh.state \notin {TwoLeft, ManyLeft}
          /\ gh.state \notin {{"twotap"}, {"threetap"}}
      BY <2>3, <1>5, <1>7 DEF Detected, AllGestures, Taps, TwoLeft, ManyLeft
    <3> QED
      BY <1>1, <3>1 DEF Phase
  <2>11. Lifted(gh, gh, id)
    BY <1>1, <2>10 DEF Lifted
  <2>12. None \notin Holding
    BY DEF None, Holding
  <2>13. Tracking(GiveUp(gh, id), onScreen \ {id}, None)
    BY <1>1, <2>11, <2>12, GiveUpDoes
  <2> QED
    BY <1>1, <2>2, <2>7, <2>9, <2>13, Zenon
\* Whatever else was lifted, nothing that holds a button is in progress.
<1>8. ASSUME ~(HasDetected(gh) /\ ~gh.waiting) PROVE gesture \notin Holding
  <2>1. CASE ~HasDetected(gh)
    BY <1>1, <1>5, <2>1 DEF Believed, Holding, Detected
  <2>2. CASE gh.waiting
    <3>1. gh.state \notin {{"drag"}, {"longpress"}}
      BY <1>1, <2>2 DEF Phase, AllGestures, Taps, TwoLeft, ManyLeft
    <3> QED
      BY <1>1, <3>1 DEF Believed, Holding
  <2> QED
    BY <1>8, <2>1, <2>2
<1>9. ASSUME id \notin gh.ignored, ~(HasDetected(gh) /\ ~gh.waiting)
      PROVE  /\ Lifted(gh, lifted, id) /\ lifted.waiting
             /\ \A i \in 1 .. n : gh.tracked[i].id = id => ~lifted.tracked[i].active
             /\ \/ lifted.state = {}
                \/ HasDetected(lifted) /\ lifted.state \in Detected
                \/ n = 1 /\ lifted.state = {"onetap"}
                \/ n = 2 /\ lifted.state = {"twotap"}
                \/ n = 3 /\ lifted.state = {"threetap"}
  <2>1. /\ released \in Handlers /\ released.tracked = gh.tracked
        /\ released.ignored = gh.ignored /\ released.waiting
        /\ ~released.longpress /\ ~released.twoTouch
        /\ \/ released.state = {}
           \/ released.state \in Detected
           \/ n = 1 /\ released.state = {"onetap"}
           \/ n = 2 /\ released.state = {"twotap"}
           \/ n = 3 /\ released.state = {"threetap"}
    <3>1. CASE HasDetected(gh)
      <4>1. gh.waiting /\ gh.state \in Detected /\ released = gh
        BY <1>5, <1>9, <3>1
      <4>2. /\ gh.state \notin {AllGestures, {}} /\ gh.state \notin {TwoLeft, ManyLeft}
            /\ gh.state \notin {{"twotap"}, {"threetap"}}
        BY <4>1 DEF Detected, AllGestures, Taps, TwoLeft, ManyLeft
      <4>3. ~gh.longpress /\ ~gh.twoTouch
        BY <1>1, <4>2 DEF Phase
      <4> QED
        BY <1>1, <4>1, <4>3
    <3>2. CASE ~HasDetected(gh)
      <4> DEFINE r == Release1st(gh)
      <4>1. released = r
        BY <3>2
      <4>2. /\ r \in Handlers /\ r.tracked = gh.tracked /\ r.ignored = gh.ignored
            /\ r.waiting /\ ~r.longpress /\ ~r.twoTouch
            /\ \/ r.state = {}
               \/ n = 1 /\ r.state = {"onetap"}
               \/ n = 2 /\ r.state = {"twotap"}
               \/ n = 3 /\ r.state = {"threetap"}
        BY <1>1, <1>6, <1>9, <3>2, Release1stDoes
      <4> HIDE DEF r, released, n
      <4> QED
        BY <4>1, <4>2
    <3> QED
      BY <3>1, <3>2
  <2> DEFINE l == Lift(released, id, slow)
  <2>2. lifted = l
    BY <2>1
  <2> HIDE DEF released, n
  <2>3. /\ Lifted(gh, l, id) /\ l.waiting = released.waiting
        /\ l.state = (IF slow THEN {} ELSE released.state)
        /\ \A i \in 1 .. Len(gh.tracked) : gh.tracked[i].id = id => ~l.tracked[i].active
    <3>1. /\ gh \in Handlers /\ released \in Handlers /\ released.tracked = gh.tracked
          /\ released.ignored = gh.ignored /\ ~released.longpress /\ ~released.twoTouch
      BY <1>1, <2>1
    <3> QED
      BY <3>1, LiftDoes
  <2> HIDE DEF l
  <2>4. l.state \in Detected => HasDetected(l)
    <3>1. l.state \in Detected => \E what \in AllGestures : what \notin Taps /\ l.state = {what}
      BY DEF Detected, AllGestures, Taps
    <3> QED
      BY <3>1 DEF HasDetected
  <2>5. /\ Lifted(gh, l, id) /\ l.waiting
        /\ \A i \in 1 .. n : gh.tracked[i].id = id => ~l.tracked[i].active
    BY <2>1, <2>3 DEF n
  <2>6. \/ l.state = {}
        \/ HasDetected(l) /\ l.state \in Detected
        \/ n = 1 /\ l.state = {"onetap"}
        \/ n = 2 /\ l.state = {"twotap"}
        \/ n = 3 /\ l.state = {"threetap"}
    BY <2>1, <2>3, <2>4
  <2> HIDE DEF lifted
  <2> QED
    BY <2>2, <2>5, <2>6
<1> HIDE DEF lifted, n
<1>10. ASSUME id \notin gh.ignored, ~(HasDetected(gh) /\ ~gh.waiting), HasDetected(lifted)
       PROVE  Goal
  <2>1. /\ gh' = GiveUp(lifted, id)
        /\ Dispatch(<<Event(lifted, "start"), Event(lifted, "end")>>)
    BY <1>2, <1>9, <1>10, Zenon
  <2>2. Tracking(GiveUp(lifted, id), onScreen \ {id}, None)
    <3>1. None \notin Holding
      BY DEF None, Holding
    <3> QED
      BY <1>1, <1>9, <1>10, <3>1, GiveUpDoes
  <2>3. lifted \in Handlers /\ lifted.tracked # <<>>
    BY <1>1, <1>6, <1>9, <1>10 DEF Lifted, Handlers
  <2>4. PICK what \in AllGestures : lifted.state = {what}
    BY <1>10 DEF HasDetected
  <2>5. gesture \notin Holding
    BY <1>8, <1>10
  <2>6. /\ Legit(gesture, <<Event(lifted, "start"), Event(lifted, "end")>>)
        /\ Finally(gesture, <<Event(lifted, "start"), Event(lifted, "end")>>) = None
    BY <2>3, <2>4, <2>5, StartsAndEnds, Zenon
  <2> QED
    BY <1>1, <2>1, <2>2, <2>6, Zenon
<1>11. ASSUME id \notin gh.ignored, ~(HasDetected(gh) /\ ~gh.waiting), ~HasDetected(lifted),
              lifted.state = {}
       PROVE  Goal
  <2>1. gh' = GiveUp(lifted, id) /\ Dispatch(<<>>)
    BY <1>2, <1>11, Zenon
  <2>2. Tracking(GiveUp(lifted, id), onScreen \ {id}, gesture)
    BY <1>1, <1>8, <1>9, <1>11, GiveUpDoes
  <2> QED
    BY <1>1, <1>3, <2>1, <2>2, Zenon
<1>12. ASSUME id \notin gh.ignored, ~(HasDetected(gh) /\ ~gh.waiting), ~HasDetected(lifted),
              lifted.state # {}
       PROVE  Goal
  <2>1. gh' = lifted /\ Dispatch(<<>>)
    BY <1>2, <1>12, Zenon
  <2>2. \/ n = 1 /\ lifted.state = {"onetap"}
        \/ n = 2 /\ lifted.state = {"twotap"}
        \/ n = 3 /\ lifted.state = {"threetap"}
    BY <1>9, <1>12
  <2>3. gesture \notin Holding
    BY <1>8, <1>12
  <2>4. Tracking(lifted, onScreen \ {id}, gesture)
    BY <1>1, <1>9, <1>12, <2>2, <2>3, StillDown DEF n
  <2> QED
    BY <1>1, <1>3, <2>1, <2>4, Zenon
<1> QED
  BY <1>4, <1>7, <1>10, <1>11, <1>12

(* The long press fires. *)
LEMMA LongpressDoes ==
  ASSUME Tracking(gh, onScreen, gesture), LongpressTimeout
  PROVE  \E evs : /\ Legit(gesture, evs) /\ Dispatch(evs)
                  /\ Tracking(gh', onScreen', Finally(gesture, evs))
<1> DEFINE g == [gh EXCEPT !.longpress = FALSE, !.state = {"longpress"}]
<1>1. /\ gh \in Handlers /\ onScreen \subseteq Fingers /\ Phase(gh) /\ Known(gh, onScreen)
      /\ Believed(gh, gesture) /\ onScreen' = onScreen
  BY DEF LongpressTimeout, Tracking
<1>2. gh.longpress /\ gh' = g /\ Dispatch(<<Event(g, "start")>>)
  BY Zenon DEF LongpressTimeout
<1>3. /\ Len(gh.tracked) = 1 /\ ~gh.twoTouch /\ ~gh.waiting /\ gh.state \in {AllGestures, {}}
  BY <1>1, <1>2 DEF Phase
<1>4. gesture \notin Holding
  <2>1. gh.state \notin {{"drag"}, {"longpress"}}
    BY <1>3 DEF AllGestures, Taps
  <2> QED
    BY <1>1, <2>1 DEF Believed, Holding
<1>5. /\ g \in Handlers /\ g.state = {"longpress"} /\ g.tracked = gh.tracked
      /\ g.ignored = gh.ignored /\ g.waiting = gh.waiting /\ ~g.longpress
      /\ g.twoTouch = gh.twoTouch
  <2>1. {"longpress"} \in SUBSET AllGestures
    BY DEF AllGestures
  <2> QED
    BY <1>1, <2>1 DEF Handlers
<1> HIDE DEF g
<1>6. Phase(g)
  BY <1>3, <1>5 DEF Phase
<1>7. Known(g, onScreen)
  BY <1>1, <1>5 DEF Known
<1>8. g.tracked # <<>> /\ g.state \in Detected
  <2>1. Len(g.tracked) = 1
    BY <1>3, <1>5
  <2>2. g.tracked # <<>>
    BY <2>1
  <2>3. g.state \in Detected
    BY <1>5, Zenon DEF Detected
  <2> QED
    BY <2>2, <2>3
<1>9. /\ Legit(gesture, <<Event(g, "start")>>)
      /\ Tracking(g, onScreen, Finally(gesture, <<Event(g, "start")>>))
  BY <1>1, <1>4, <1>5, <1>6, <1>7, <1>8, DetectedNow, Zenon
<1> QED
  BY <1>1, <1>2, <1>9, Zenon

(* The timer of two touches decides. *)
LEMMA TwoTouchDoes ==
  ASSUME Tracking(gh, onScreen, gesture), TwoTouchTimeout
  PROVE  \E evs : /\ Legit(gesture, evs) /\ Dispatch(evs)
                  /\ Tracking(gh', onScreen', Finally(gesture, evs))
<1>1. /\ gh \in Handlers /\ onScreen \subseteq Fingers /\ Phase(gh) /\ Known(gh, onScreen)
      /\ Believed(gh, gesture) /\ onScreen' = onScreen /\ gh.twoTouch
  BY DEF TwoTouchTimeout, Tracking
<1>2. PICK what \in {"pinch", "twodrag"} :
        LET g == [gh EXCEPT !.twoTouch = FALSE, !.state = {what}]
        IN  gh' = g /\ Dispatch(<<Event(g, "start"), Event(g, "move")>>)
  <2> DEFINE apart == AbsDiff(Distance(gh, LAMBDA t : t.first), Distance(gh, LAMBDA t : t.last))
             pinch == AbsDiff(AverageMovement(gh), 0) < apart
             what == IF pinch THEN "pinch" ELSE "twodrag"
  <2>1. what \in {"pinch", "twodrag"}
    OBVIOUS
  <2>2. LET g == [gh EXCEPT !.twoTouch = FALSE, !.state = {what}]
        IN  gh' = g /\ Dispatch(<<Event(g, "start"), Event(g, "move")>>)
    BY Zenon DEF TwoTouchTimeout
  <2> HIDE DEF what
  <2> QED
    BY <2>1, <2>2, Zenon
<1> DEFINE g == [gh EXCEPT !.twoTouch = FALSE, !.state = {what}]
<1>3. gh' = g /\ Dispatch(<<Event(g, "start"), Event(g, "move")>>)
  BY <1>2, Zenon
<1>4. /\ Len(gh.tracked) >= 2 /\ ~gh.longpress /\ gh.state \in {TwoLeft, {}}
  BY <1>1 DEF Phase
<1>5. gesture \notin Holding
  <2>1. gh.state \notin {{"drag"}, {"longpress"}}
    BY <1>4 DEF TwoLeft
  <2> QED
    BY <1>1, <2>1 DEF Believed, Holding
<1>6. /\ g \in Handlers /\ g.state = {what} /\ g.tracked = gh.tracked
      /\ g.ignored = gh.ignored /\ g.waiting = gh.waiting /\ ~g.twoTouch
      /\ g.longpress = gh.longpress
  <2>1. {what} \in SUBSET AllGestures
    BY DEF AllGestures
  <2> QED
    BY <1>1, <2>1 DEF Handlers
<1> HIDE DEF g
<1>7. g.state \in {{"twodrag"}, {"pinch"}}
  BY <1>6
<1>8. Phase(g)
  BY <1>4, <1>6, <1>7 DEF Phase
<1>9. Known(g, onScreen)
  BY <1>1, <1>6 DEF Known
<1>10. g.tracked # <<>> /\ g.state \in Detected
  BY <1>4, <1>6, <1>7 DEF Detected
<1>11. /\ Legit(gesture, <<Event(g, "start"), Event(g, "move")>>)
       /\ Tracking(g, onScreen, Finally(gesture, <<Event(g, "start"), Event(g, "move")>>))
  BY <1>1, <1>5, <1>6, <1>8, <1>9, <1>10, DetectedNow, Zenon
<1> QED
  BY <1>1, <1>3, <1>11, Zenon

-----------------------------------------------------------------------------
(***************************************************************************)
(* What holds of the touches at all times: while the session lives, the    *)
(* fingers on the canvas and the handler's touches agree, and so do the    *)
(* gesture that the listeners believe in and the server's buttons.  Later  *)
(* no timer runs.                                                          *)
(***************************************************************************)
GInv ==
  /\ connState \in ConnStates /\ viewOnly \in BOOLEAN /\ dragViewport \in BOOLEAN
  /\ wheel \in 1 - WheelStep .. WheelStep - 1
  /\ captured \in BOOLEAN /\ chorded \in BOOLEAN /\ pressed \subseteq Buttons
  /\ HandInv
  /\ gh \in Handlers /\ onScreen \subseteq Fingers /\ gesture \in AllGestures \union {None}
  /\ IF Live THEN Tracking(gh, onScreen, gesture) ELSE ~gh.longpress /\ ~gh.twoTouch

(* It holds of a page just opened, and of a session just connected. *)
LEMMA GesturesStart ==
  ASSUME GesturesInit, connState \in {"connecting", "connected"},
         viewOnly \in BOOLEAN, dragViewport \in BOOLEAN,
         ptr = [pos |-> Nowhere, buttons |-> {}, timer |-> FALSE, dragging |-> FALSE,
                dragPos |-> Nowhere, moved |-> FALSE, seen |-> Nowhere,
                at |-> Nowhere, down |-> {}],
         wheel = 0, captured = FALSE, pressed = {}, chorded = FALSE
  PROVE  GInv
<1>1. ptr \in Ptrs /\ ptr.buttons = {} /\ ptr.dragging = FALSE /\ ptr.down = {}
  BY DEF Ptrs, Pos
<1>2. Hand(ptr, HeldBy(None))
  <2>1. HeldBy(None) = {}
    BY DEF HeldBy, None, Holding
  <2> QED
    BY <1>1, <2>1 DEF Hand, Told
<1>3. gesture = None /\ magnitude = 0 /\ tap \in [type : Taps \union {None}, pos : Nat]
  BY DEF GesturesInit
<1>4. HandInv
  <2> DEFINE r == [ptr |-> ptr, tap |-> tap, mag |-> magnitude]
  <2>1. r \in Results /\ r.ptr = ptr
    <3>1. magnitude \in Int
      BY <1>3
    <3> QED
      BY <1>1, <1>3, <3>1, Zenon DEF Results
  <2> HIDE DEF r
  <2>2. Firm(r, HeldBy(None))
    BY <1>2, <2>1 DEF Firm
  <2> QED
    BY <1>3, <2>2 DEF HandInv, r
<1>5. /\ gh.state = AllGestures /\ gh.tracked = <<>> /\ gh.ignored = {} /\ ~gh.waiting
      /\ ~gh.longpress /\ ~gh.twoTouch /\ gh \in Handlers
  BY DEF GesturesInit, Handlers
<1>6. Len(gh.tracked) = 0 /\ DOMAIN gh.tracked = {} /\ onScreen = {}
  BY <1>5 DEF GesturesInit
<1>7. Phase(gh)
  BY <1>5, <1>6 DEF Phase
<1>8. Known(gh, onScreen)
  BY <1>5, <1>6 DEF Known
<1>9. Believed(gh, gesture)
  <2>1. gesture \notin Holding
    BY <1>3 DEF Holding, None
  <2>2. AllGestures \notin Detected
    BY DEF Detected, AllGestures, Taps
  <2> QED
    BY <1>5, <2>1, <2>2 DEF Believed
<1>10. Tracking(gh, onScreen, gesture)
  BY <1>5, <1>6, <1>7, <1>8, <1>9 DEF Tracking
<1>11. wheel \in 1 - WheelStep .. WheelStep - 1
  BY PointerAssumption DEF PointerAssumption
<1> QED
  BY <1>3, <1>4, <1>5, <1>6, <1>10, <1>11 DEF GInv, ConnStates, Live

(* A gesture that was begun has a name. *)
LEMMA LegitNames ==
  ASSUME NEW was \in AllGestures \union {None}, NEW evs, Legit(was, evs)
  PROVE  Finally(was, evs) \in AllGestures \union {None}
<1>1. ASSUME NEW e \in Events, evs = <<e>>
      PROVE  Finally(was, evs) \in AllGestures \union {None}
  <2>1. Len(evs) = 1 /\ evs[1] = e /\ evs # <<>>
    BY <1>1
  <2> QED
    BY <2>1 DEF Finally, After, Events
<1>2. ASSUME NEW d \in Events, NEW e \in Events, evs = <<d, e>>
      PROVE  Finally(was, evs) \in AllGestures \union {None}
  <2>1. Len(evs) = 2 /\ evs[2] = e /\ evs # <<>>
    BY <1>2
  <2> QED
    BY <2>1 DEF Finally, After, Events
<1>3. evs = <<>> => Finally(was, evs) = was
  BY DEF Finally
<1> QED
  BY <1>1, <1>2, <1>3, Zenon DEF Legit

(* So whatever the touches do, what was dispatched keeps it. *)
LEMMA DispatchedInv ==
  ASSUME GInv, Live, NEW evs, Legit(gesture, evs), Dispatch(evs),
         Tracking(gh', onScreen', Finally(gesture, evs))
  PROVE  GInv' /\ EventsPaired
<1>1. HandInv
  BY DEF GInv
<1>2. /\ HandInv' /\ EventsPaired /\ gesture' = Finally(gesture, evs)
      /\ UNCHANGED <<connState, viewOnly, dragViewport, wheel, captured, pressed, chorded>>
  BY <1>1, DispatchDoes
<1>3. gesture' \in AllGestures \union {None}
  BY <1>2, LegitNames DEF GInv
<1>4. Tracking(gh', onScreen', gesture')
  BY <1>2
<1>5. gh' \in Handlers /\ onScreen' \subseteq Fingers
  BY <1>4 DEF Tracking
<1>6. Live'
  BY <1>2 DEF Live
<1> QED
  BY <1>2, <1>3, <1>4, <1>5, <1>6 DEF GInv

(* The delayed move of a touch goes out. *)
LEMMA DelayedTouch ==
  ASSUME GInv, HandleDelayedMouseMove,
         UNCHANGED <<gh, onScreen, gesture, tap, magnitude>>
  PROVE  GInv'
<1> DEFINE calm == [ptr EXCEPT !.timer = FALSE]
           s == SendMouse(calm, ptr.pos, ptr.buttons)
           held == HeldBy(gesture)
           r == [ptr |-> ptr, tap |-> tap, mag |-> magnitude]
           q == [ptr |-> ptr', tap |-> tap, mag |-> magnitude]
<1>1. /\ ptr' = s /\ Live
      /\ UNCHANGED <<connState, viewOnly, dragViewport, wheel, captured, pressed, chorded>>
  BY DEF HandleDelayedMouseMove
<1>2. r \in Results /\ Hand(ptr, held)
  BY DEF GInv, HandInv, Firm
<1>3. ptr \in Ptrs /\ ptr.pos \in Pos /\ ptr.buttons \in SUBSET All
  BY <1>2 DEF Hand, Ptrs
<1>4. /\ calm \in Ptrs /\ calm.buttons = ptr.buttons /\ calm.dragging = ptr.dragging
      /\ calm.down = ptr.down
  BY <1>3 DEF Ptrs
<1> HIDE DEF calm
<1>5. /\ s \in Ptrs /\ s.buttons = calm.buttons /\ s.dragging = calm.dragging
      /\ s.down = (IF Sending THEN ptr.buttons ELSE calm.down)
  BY <1>3, <1>4, SendMouseDoes
<1> HIDE DEF s
<1>6. Hand(ptr', held)
  BY <1>1, <1>2, <1>4, <1>5 DEF Hand, Told
<1>7. q \in Results /\ q.ptr = ptr'
  BY <1>1, <1>2, <1>5 DEF Results
<1> HIDE DEF q, held
<1>8. Firm(q, held)
  BY <1>6, <1>7 DEF Firm
<1>9. HandInv'
  BY <1>1, <1>8 DEF HandInv, Firm, Hand, Told, Sending, Live, HeldBy, q, held
<1>10. Tracking(gh, onScreen, gesture)
  BY <1>1 DEF GInv
<1>11. Tracking(gh', onScreen', gesture') /\ Live'
  BY <1>1, <1>10 DEF Live
<1> QED
  BY <1>1, <1>9, <1>11 DEF GInv

(* The session is connected. *)
LEMMA ConnectTouch ==
  ASSUME GInv, PointerConnect, UNCHANGED <<gh, onScreen, gesture, tap, magnitude>>
  PROVE  GInv'
<1>1. /\ connState = "connecting" /\ connState' = "connected"
      /\ UNCHANGED <<viewOnly, dragViewport, ptr, wheel, captured, pressed, chorded>>
  BY DEF PointerConnect, Connect
<1>2. Live /\ Live' /\ ~Sending
  BY <1>1 DEF Live, Sending
<1>3. HandInv'
  <2>1. /\ Firm([ptr |-> ptr, tap |-> tap, mag |-> magnitude], HeldBy(gesture))
    BY DEF GInv, HandInv
  <2>2. Told(ptr) => Told(ptr)'
    BY <1>1, <1>2 DEF Told
  <2> DEFINE r == [ptr |-> ptr, tap |-> tap, mag |-> magnitude]
  <2>3. r' = r /\ HeldBy(gesture)' = HeldBy(gesture) /\ r.ptr = ptr
    BY <1>1 DEF HeldBy
  <2>4. r \in Results /\ Hand(ptr, HeldBy(gesture))
    BY <2>1 DEF Firm
  <2> HIDE DEF r
  <2>5. Hand(ptr, HeldBy(gesture))'
    BY <1>1, <1>2, <2>2, <2>3, <2>4 DEF Hand
  <2>6. Firm(r, HeldBy(gesture))'
    BY <1>1, <2>3, <2>4, <2>5 DEF Firm, Results
  <2> QED
    BY <2>6 DEF HandInv, r
<1>4. Tracking(gh, onScreen, gesture)
  BY <1>2 DEF GInv
<1>5. Tracking(gh', onScreen', gesture')
  BY <1>4
<1> QED
  BY <1>1, <1>2, <1>3, <1>5 DEF GInv, ConnStates

(* The session ends, and the timers with it. *)
LEMMA DropTouch ==
  ASSUME GInv, TouchDrop
  PROVE  GInv'
<1> DEFINE calm == [gh EXCEPT !.longpress = FALSE]
           g == [calm EXCEPT !.twoTouch = FALSE]
           p == [ptr EXCEPT !.timer = FALSE]
           r == [ptr |-> ptr, tap |-> tap, mag |-> magnitude]
           q == [ptr |-> ptr', tap |-> tap, mag |-> magnitude]
           held == HeldBy(gesture)
<1>1. /\ connState' \in {"disconnecting", "disconnected"} /\ ptr' = p /\ gh' = g
      /\ UNCHANGED <<viewOnly, dragViewport, wheel, captured, pressed, chorded>>
      /\ UNCHANGED <<onScreen, gesture, tap, magnitude>>
  BY DEF TouchDrop, PointerDrop, Drop, StopLongpress
<1>2. ~Live'
  BY <1>1 DEF Live
<1>3. g \in Handlers /\ ~g.longpress /\ ~g.twoTouch
  BY DEF GInv, Handlers
<1> HIDE DEF g
<1>4. r \in Results /\ Hand(ptr, held)
  BY DEF GInv, HandInv, Firm
<1>5. p \in Ptrs /\ p.buttons = ptr.buttons /\ p.dragging = ptr.dragging
  BY <1>4 DEF Hand, Ptrs
<1> HIDE DEF p
<1>6. q \in Results /\ q.ptr = ptr'
  BY <1>1, <1>4, <1>5 DEF Results
<1> HIDE DEF q, held
<1>7. HandInv'
  <2>1. Hand(ptr, held)'
    BY <1>1, <1>2, <1>4, <1>5 DEF Hand, held, HeldBy
  <2>2. r' = q
    BY <1>1 DEF q
  <2> HIDE DEF r
  <2>3. Firm(r, held)'
    BY <1>6, <2>1, <2>2 DEF Firm, Results
  <2> QED
    BY <2>3 DEF HandInv, r, held
<1> QED
  BY <1>1, <1>2, <1>3, <1>7 DEF GInv, ConnStates

-----------------------------------------------------------------------------
(* Every step keeps the invariant, and dispatches events that follow.      *)
LEMMA GesturesKeep ==
  ASSUME GInv, [GesturesNext]_gesturesVars
  PROVE  GInv' /\ [EventsPaired]_gesturesVars
<1>0. ASSUME NEW evs, Legit(gesture, evs), Dispatch(evs), Live,
             Tracking(gh', onScreen', Finally(gesture, evs))
      PROVE  GInv' /\ EventsPaired
  BY <1>0, DispatchedInv, Zenon
<1>1. Live => Tracking(gh, onScreen, gesture)
  BY DEF GInv
<1>2. ASSUME NEW id \in Fingers, NEW late \in BOOLEAN, TouchStart(id, StartSpot, late)
      PROVE  GInv' /\ EventsPaired
  <2>1. Live
    BY <1>2 DEF TouchStart
  <2>2. StartSpot \in Nat
    BY GesturesAssumption DEF GesturesAssumption
  <2>3. Tracking(gh', onScreen', gesture) /\ Dispatch(<<>>)
    BY <1>1, <1>2, <2>1, <2>2, TouchStartDoes
  <2>4. Legit(gesture, <<>>) /\ Finally(gesture, <<>>) = gesture
    BY DEF Legit, Finally
  <2>5. Tracking(gh', onScreen', Finally(gesture, <<>>))
    BY <2>3, <2>4, Zenon
  <2> QED
    BY <1>0, <2>1, <2>3, <2>4, <2>5, Zenon
<1>3. ASSUME NEW id \in Fingers, NEW x \in Reach[id], TouchMove(id, x)
      PROVE  GInv' /\ EventsPaired
  <2>1. Live
    BY <1>3 DEF TouchMove
  <2>2. x \in Nat
    BY GesturesAssumption DEF GesturesAssumption
  <2> QED
    BY <1>0, <1>1, <1>3, <2>1, <2>2, TouchMoveDoes, Zenon
<1>4. ASSUME NEW id \in Fingers, NEW slow \in BOOLEAN, TouchEnd(id, slow)
      PROVE  GInv' /\ EventsPaired
  <2>1. Live
    BY <1>4 DEF TouchEnd
  <2> QED
    BY <1>0, <1>1, <1>4, <2>1, TouchEndDoes, Zenon
<1>5. ASSUME LongpressTimeout PROVE GInv' /\ EventsPaired
  <2>1. Live
    BY <1>5 DEF LongpressTimeout, GInv
  <2> QED
    BY <1>0, <1>1, <1>5, <2>1, LongpressDoes, Zenon
<1>6. ASSUME TwoTouchTimeout PROVE GInv' /\ EventsPaired
  <2>1. Live
    BY <1>6 DEF TwoTouchTimeout, GInv
  <2> QED
    BY <1>0, <1>1, <1>6, <2>1, TwoTouchDoes, Zenon
<1>7. ASSUME events' = <<>> PROVE EventsPaired
  <2>1. DOMAIN events' = {}
    BY <1>7
  <2> QED
    BY <2>1 DEF EventsPaired
<1>8. ASSUME TouchDrop PROVE GInv' /\ EventsPaired
  BY <1>7, <1>8, DropTouch DEF TouchDrop
<1>9. ASSUME PointerAlone PROVE GInv' /\ EventsPaired
  BY <1>7, <1>9, DelayedTouch, ConnectTouch DEF PointerAlone
<1>10. ASSUME UNCHANGED gesturesVars PROVE GInv'
  <2>1. /\ UNCHANGED <<connState, viewOnly, dragViewport, ptr, wheel, captured, pressed, chorded>>
        /\ UNCHANGED <<gh, onScreen, gesture, tap, magnitude>>
    BY <1>10 DEF gesturesVars, pointerVars, touchVars
  <2>2. HandInv'
    BY <2>1 DEF GInv, HandInv, Firm, Hand, Told, Sending, Live, HeldBy
  <2>3. Live' = Live
    BY <2>1 DEF Live
  <2>4. IF Live THEN Tracking(gh', onScreen', gesture') ELSE ~gh'.longpress /\ ~gh'.twoTouch
    BY <2>1 DEF GInv
  <2> QED
    BY <2>1, <2>2, <2>3, <2>4 DEF GInv
<1> QED
  BY <1>2, <1>3, <1>4, <1>5, <1>6, <1>8, <1>9, <1>10, Zenon DEF GesturesNext

-----------------------------------------------------------------------------
(* What the invariant says once every finger is lifted.                    *)
LEMMA AllLifted == GInv => LiftedIsReset
<1> SUFFICES ASSUME GInv, Live, onScreen = {}
             PROVE  /\ gh.state = AllGestures /\ gh.tracked = <<>> /\ ~gh.waiting
                    /\ ~gh.longpress /\ ~gh.twoTouch
                    /\ gesture \notin Holding
                    /\ connState = "connected" => ptr.down = {}
  BY DEF LiftedIsReset
<1>1. /\ gh \in Handlers /\ Phase(gh) /\ Known(gh, onScreen) /\ Believed(gh, gesture)
  BY DEF GInv, Tracking
<1>2. gh.ignored = {} /\ gh.tracked = <<>>
  BY <1>1 DEF Known
<1>3. Len(gh.tracked) = 0
  BY <1>2
<1>4. gh.state = AllGestures /\ ~gh.waiting /\ ~gh.longpress /\ ~gh.twoTouch
  BY <1>2, <1>3, <1>1 DEF Phase
<1>5. gesture \notin Holding
  BY <1>1, <1>4 DEF Believed, AllGestures, Taps
<1>6. HeldBy(gesture) = {}
  BY <1>5 DEF HeldBy
<1> DEFINE r == [ptr |-> ptr, tap |-> tap, mag |-> magnitude]
<1>7. r \in Results /\ Hand(ptr, HeldBy(gesture))
  BY DEF GInv, HandInv, Firm
<1>8. ptr.down = {}
  BY <1>6, <1>7 DEF Hand, Told
<1> QED
  BY <1>2, <1>4, <1>5, <1>8

(* And that no handler throws. *)
LEMMA NoThrow == GInv => HandlersNeverThrow
<1> SUFFICES ASSUME GInv, Live
             PROVE  /\ gh.longpress => ~HasDetected(gh) /\ gh.tracked # <<>>
                    /\ gh.twoTouch => gh.tracked # <<>>
                    /\ \A id \in onScreen : id \in gh.ignored \/ Tracks(gh, id)
  BY DEF HandlersNeverThrow
<1>1. /\ gh \in Handlers /\ Phase(gh) /\ Known(gh, onScreen)
      /\ HasDetected(gh) <=> gh.state \in Detected
  BY DetectedDoes DEF GInv, Tracking
<1>2. gh.tracked = <<>> => Len(gh.tracked) = 0
  OBVIOUS
<1>3. ASSUME gh.longpress PROVE gh.state \in {AllGestures, {}} /\ gh.tracked # <<>>
  <2>1. Len(gh.tracked) = 1 /\ gh.state \in {AllGestures, {}}
    BY <1>1, <1>3 DEF Phase
  <2> QED
    BY <1>2, <2>1
<1>4. AllGestures \notin Detected /\ {} \notin Detected
  BY DEF Detected, AllGestures, Taps
<1>5. gh.twoTouch => gh.tracked # <<>>
  BY <1>1, <1>2 DEF Phase
<1>6. \A id \in onScreen : id \in gh.ignored \/ Tracks(gh, id)
  BY <1>1 DEF Known, Tracks
<1> QED
  BY <1>1, <1>3, <1>4, <1>5, <1>6

(* And the types. *)
LEMMA GesturesTyped == GInv => GesturesTypeOK /\ PointerTypeOK
<1> SUFFICES ASSUME GInv PROVE GesturesTypeOK /\ PointerTypeOK
  OBVIOUS
<1>1. gh.state \subseteq AllGestures /\ gh.ignored \subseteq Fingers /\ gh.tracked \in Seq(Touches)
  BY DEF GInv, Handlers
<1>2. \A i \in DOMAIN gh.tracked : gh.tracked[i].id \in Fingers
  <2>1. \A i \in DOMAIN gh.tracked : gh.tracked[i] \in Touches
    BY <1>1
  <2> QED
    BY <2>1 DEF Touches
<1>3. ptr \in Ptrs
  BY DEF GInv, HandInv, Firm, Hand
<1>4. GesturesTypeOK
  BY <1>1, <1>2 DEF GInv, GesturesTypeOK
<1>5. PointerTypeOK
  BY <1>3 DEF GInv, PointerTypeOK, Ptrs, Pos, All
<1> QED
  BY <1>4, <1>5

(* The specification of the touches starts in the invariant. *)
LEMMA GesturesSpecStarts == PointerInit /\ GesturesInit => GInv
BY GesturesStart DEF PointerInit

(***************************************************************************)
(* For any number of fingers, however they move: no handler throws.  A     *)
(* long press never fires on top of a gesture, the timer of two touches    *)
(* finds touches, and every finger on the canvas is known.                 *)
(***************************************************************************)
THEOREM TouchesNeverThrow == GesturesSpec => []HandlersNeverThrow
<1>1. GInv /\ [GesturesNext]_gesturesVars => GInv'
  BY GesturesKeep
<1> QED
  BY <1>1, NoThrow, GesturesSpecStarts, PTL DEF GesturesSpec

(***************************************************************************)
(* For any number of fingers: a gesture moves and ends only under the name *)
(* it started with, and none interrupts one that holds a button.           *)
(***************************************************************************)
THEOREM EveryGesturePaired == GesturesSpec => GesturesPaired
<1>1. GInv /\ [GesturesNext]_gesturesVars => GInv' /\ [EventsPaired]_gesturesVars
  BY GesturesKeep
<1> QED
  BY <1>1, GesturesSpecStarts, PTL DEF GesturesSpec, GesturesPaired

(***************************************************************************)
(* For any number of fingers: with all of them lifted the handler is as    *)
(* new, and the server has no button down.                                 *)
(***************************************************************************)
THEOREM LiftedHoldsNothing == GesturesSpec => []LiftedIsReset
<1>1. GInv /\ [GesturesNext]_gesturesVars => GInv'
  BY GesturesKeep
<1> QED
  BY <1>1, AllLifted, GesturesSpecStarts, PTL DEF GesturesSpec

-----------------------------------------------------------------------------
\* The invariant of the part that runs, and the types of the others.
MCInv ==
  /\ part \in {"keyboard", "pointer", "gestures"}
  /\ KeyboardTypeOK /\ PointerTypeOK /\ GesturesTypeOK
  /\ part = "keyboard" => KInv
  /\ part = "pointer" => PInv
  /\ part = "gestures" => GInv

(* Each part starts as it does alone, but for the touches of a session     *)
(* that is connected already.                                              *)
LEMMA MCStarts == MCInit => MCInv
<1> SUFFICES ASSUME MCInit PROVE MCInv
  OBVIOUS
<1>1. /\ part \in {"keyboard", "pointer", "gestures"}
      /\ connState = IF part = "gestures" THEN "connected" ELSE "connecting"
      /\ viewOnly \in BOOLEAN /\ dragViewport \in BOOLEAN
      /\ platform \in Platforms /\ qemu = FALSE
      /\ grabbed = FALSE /\ focus = "canvas" /\ altGr = FALSE
      /\ keys = [down |-> [c \in Codes |-> Up], held |-> {}, remoteLock |-> Unknown,
                 lock |-> "off", sent |-> <<>>]
      /\ localLock = "off" /\ led = <<>>
      /\ ptr = [pos |-> Nowhere, buttons |-> {}, timer |-> FALSE, dragging |-> FALSE,
                dragPos |-> Nowhere, moved |-> FALSE, seen |-> Nowhere,
                at |-> Nowhere, down |-> {}]
      /\ wheel = 0 /\ captured = FALSE /\ pressed = {} /\ chorded = FALSE
      /\ GesturesInit
  BY DEF MCInit
<1>2. connState \in {"connecting", "connected"}
  BY <1>1
<1>3. GInv
  BY <1>1, <1>2, GesturesStart
<1>4. GesturesTypeOK /\ PointerTypeOK
  BY <1>3, GesturesTyped
<1>5. KeyboardTypeOK
  <2>1. keys \in K
    BY <1>1 DEF K, Locks
  <2>2. <<>> \in Seq(Locks) /\ localLock \in Locks
    BY <1>1 DEF Locks
  <2> QED
    BY <1>1, <1>2, <2>1, <2>2 DEF KeyboardTypeOK, ConnStates, K, Syms
<1>6. ASSUME part = "keyboard" PROVE KInv
  <2>1. connState = "connecting"
    BY <1>1, <1>6
  <2>2. KeyboardInit
    BY <1>1, <2>1 DEF KeyboardInit
  <2> QED
    BY <2>2, KeyboardStarts
<1>7. ASSUME part = "pointer" PROVE PInv
  <2>1. connState = "connecting"
    BY <1>1, <1>7
  <2>2. PointerInit
    BY <1>1, <2>1 DEF PointerInit
  <2> QED
    BY <2>2, PointerStarts
<1> QED
  BY <1>1, <1>3, <1>4, <1>5, <1>6, <1>7 DEF MCInv

(* A step of one part leaves the types of what stands still. *)
LEMMA MCKeeps == MCInv /\ [MCNext]_MCVars => MCInv'
<1> SUFFICES ASSUME MCInv, [MCNext]_MCVars PROVE MCInv'
  OBVIOUS
<1>1. CASE KeyboardPart
  <2>1. /\ part = "keyboard" /\ KeyboardNext /\ UNCHANGED part
        /\ UNCHANGED <<dragViewport, ptr, wheel, captured, pressed, chorded>>
        /\ UNCHANGED <<gh, onScreen, gesture, events, tap, magnitude>>
    BY <1>1 DEF KeyboardPart, ownPointer, touchVars
  <2>2. KInv'
    BY <2>1, KeyboardKeeps DEF MCInv
  <2>3. KeyboardTypeOK' /\ connState' \in ConnStates /\ viewOnly' \in BOOLEAN
    BY <2>2 DEF KInv, KeyboardTypeOK
  <2>4. PointerTypeOK'
    BY <2>1, <2>3 DEF MCInv, PointerTypeOK
  <2>5. GesturesTypeOK'
    BY <2>1 DEF MCInv, GesturesTypeOK
  <2> QED
    BY <2>1, <2>2, <2>3, <2>4, <2>5 DEF MCInv
<1>2. CASE PointerPart
  <2>1. /\ part = "pointer" /\ PointerNext /\ UNCHANGED part
        /\ UNCHANGED <<platform, qemu, grabbed, focus, altGr, keys, localLock, led>>
        /\ UNCHANGED <<gh, onScreen, gesture, events, tap, magnitude>>
    BY <1>2 DEF PointerPart, ownKeyboard, touchVars
  <2>2. PInv'
    BY <2>1, PointerKeeps DEF MCInv
  <2>3. PointerTypeOK' /\ connState' \in ConnStates /\ viewOnly' \in BOOLEAN
    BY <2>2 DEF PInv, PointerTypeOK, Ptrs, Pos, All
  <2>4. KeyboardTypeOK'
    BY <2>1, <2>3 DEF MCInv, KeyboardTypeOK
  <2>5. GesturesTypeOK'
    BY <2>1 DEF MCInv, GesturesTypeOK
  <2> QED
    BY <2>1, <2>2, <2>3, <2>4, <2>5 DEF MCInv
<1>3. CASE GesturesPart
  <2>1. /\ part = "gestures" /\ GesturesNext /\ UNCHANGED part
        /\ UNCHANGED <<platform, qemu, grabbed, focus, altGr, keys, localLock, led>>
    BY <1>3 DEF GesturesPart, ownKeyboard
  <2>2. GInv'
    BY <2>1, GesturesKeep DEF MCInv
  <2>3. connState' \in ConnStates /\ viewOnly' \in BOOLEAN
    BY <2>2 DEF GInv
  <2>4. GesturesTypeOK' /\ PointerTypeOK'
    BY <2>2, GesturesTyped, PTL
  <2>5. KeyboardTypeOK'
    BY <2>1, <2>3 DEF MCInv, KeyboardTypeOK
  <2> QED
    BY <2>1, <2>2, <2>4, <2>5 DEF MCInv
<1>4. CASE UNCHANGED MCVars
  <2>1. /\ UNCHANGED part
        /\ UNCHANGED <<platform, qemu, grabbed, focus, altGr, keys, localLock, led>>
        /\ UNCHANGED gesturesVars
    BY <1>4 DEF MCVars, ownKeyboard
  <2>2. /\ UNCHANGED <<connState, viewOnly, dragViewport, ptr, wheel, captured, pressed, chorded>>
        /\ UNCHANGED <<gh, onScreen, gesture, events, tap, magnitude>>
    BY <2>1 DEF gesturesVars, pointerVars, touchVars
  <2>3. UNCHANGED keyboardVars /\ UNCHANGED pointerVars
    BY <2>1, <2>2 DEF keyboardVars, pointerVars
  <2>4. KInv => KInv'
    BY <2>3, KeyboardKeeps
  <2>5. PInv => PInv'
    BY <2>3, PointerKeeps
  <2>6. GInv => GInv'
    BY <2>1, GesturesKeep
  <2>7. KeyboardTypeOK' /\ PointerTypeOK' /\ GesturesTypeOK'
    BY <2>1, <2>2 DEF MCInv, KeyboardTypeOK, PointerTypeOK, GesturesTypeOK
  <2> QED
    BY <2>1, <2>4, <2>5, <2>6, <2>7 DEF MCInv
<1> QED
  BY <1>1, <1>2, <1>3, <1>4 DEF MCNext

(* The fields of the whole input's state have their types. *)
THEOREM InputTyped == MCSpec => []InputTypeOK
<1>1. MCInv => InputTypeOK
  BY DEF MCInv, InputTypeOK
<1> QED
  BY <1>1, MCStarts, MCKeeps, PTL DEF MCSpec

(* With touches and a keyboard beside it, too, the mouse leaves no button  *)
(* down.                                                                   *)
THEOREM MouseLetsGo == MCSpec => []ButtonsLetGo
<1>1. MCInv => ButtonsLetGo
  BY DEF MCInv, ButtonsLetGo, PInv, NoStuckButton, Single, Told, Live
<1> QED
  BY <1>1, MCStarts, MCKeeps, PTL DEF MCSpec

(***************************************************************************)
(* The touches of a session that is connected already: with every finger   *)
(* lifted the handler is as new, and the server has no button down.        *)
(***************************************************************************)
THEOREM TouchesHoldNothing == MCSpec => []TouchesLetGo
<1>1. MCInv => TouchesLetGo
  BY AllLifted DEF MCInv, TouchesLetGo
<1> QED
  BY <1>1, MCStarts, MCKeeps, PTL DEF MCSpec
=============================================================================
