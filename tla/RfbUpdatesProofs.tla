--------------------------- MODULE RfbUpdatesProofs ---------------------------
(***************************************************************************)
(* A connected session, whatever its server sends by the grammar of        *)
(* RfbProtocol.  First the render queue: what an update draws is painted   *)
(* in the order it came, whichever images come late.  Then the stream: the *)
(* handlers stay in step with it, however it is cut into pieces, and       *)
(* neither side ever waits for the other.  The argument of the second part *)
(* is a pair of places in the grammar, the client's, which its handler and *)
(* the rectangle it is in determine, and the server's.  What has been sent *)
(* and not been read is a path from the one to the other (`Aligned`); every   *)
(* handler reads the path from its start, every step of the server makes   *)
(* it longer at its end, and a client with nothing to read stands between  *)
(* two messages with an update asked for.                                  *)
(***************************************************************************)
EXTENDS RfbUpdates, FiniteSetTheorems, WellFoundedInduction, TLAPS

(***************************************************************************)
(* The render queue.  The actions in it are numbered on from the last one  *)
(* painted, up to the last one drawn, and the first one waits for its      *)
(* image: what need not wait is painted at once.                           *)
(***************************************************************************)
Waiting == {"loading", "broken"}
Images == {"none", "loaded"} \union Waiting
Actions == [n : Nat, image : Images]
Screens == [q : Seq(Actions), drawn : Nat, painted : Nat, ok : BOOLEAN]

Numbered(s) ==
  /\ s \in Screens /\ s.ok
  /\ \A i \in 1 .. Len(s.q) : s.q[i].n = s.painted + i
  /\ s.painted + Len(s.q) = s.drawn

InOrder(s) == Numbered(s) /\ (s.q # <<>> => s.q[1].image \in Waiting)

ScreenInv == InOrder(screen) /\ (flushing => Pending)

(* A bounded set of numbers that is not empty has a least one: of the      *)
(* intervals up to its members, which the strict subset relation orders,   *)
(* one is minimal.                                                         *)
LEMMA LeastOf ==
  ASSUME NEW N \in Nat, NEW I \in SUBSET (0 .. N), I # {}
  PROVE  \E x \in I : \A y \in I : x <= y
<1> DEFINE T == {0 .. k : k \in I}
           R == StrictSubsetOrdering(0 .. N)
<1>1. IsWellFoundedOn(R, FiniteSubsetsOf(0 .. N))
  BY FS_StrictSubsetOrderingWellFounded, Zenon
<1>2. T \subseteq FiniteSubsetsOf(0 .. N)
  <2>1. ASSUME NEW k \in I PROVE 0 .. k \in SUBSET (0 .. N) /\ IsFiniteSet(0 .. k)
    <3>1. k \in Int /\ 0 \in Int /\ 0 .. k \in SUBSET (0 .. N)
      OBVIOUS
    <3> QED  BY <3>1, FS_Interval, Zenon
  <2> QED
    BY <2>1 DEF FiniteSubsetsOf
<1>3. T # {}
  OBVIOUS
<1>4. PICK X \in T : \A Y \in T : ~(<<Y, X>> \in R)
  <2> HIDE DEF T, R
  <2> QED  BY <1>1, <1>2, <1>3, WFMin, Zenon
<1>5. PICK x \in I : X = 0 .. x
  OBVIOUS
<1>6. ASSUME NEW y \in I, y < x PROVE FALSE
  <2>1. 0 .. y \subseteq 0 .. x /\ 0 .. y # 0 .. x
    BY <1>6
  <2>2. 0 .. y \in SUBSET (0 .. N) /\ 0 .. x \in SUBSET (0 .. N)
    OBVIOUS
  <2>3. <<0 .. y, X>> \in R
    BY <1>5, <2>1, <2>2 DEF StrictSubsetOrdering
  <2> QED
    BY <1>4, <2>3
<1> QED
  BY <1>6

(* _scanRenderQ stops at the first image that has not come, if there is one. *)
Ready(q, n) == \A j \in 1 .. n : q[j].image \notin {"loading", "broken"}

(* So a scan has a place where it stops. *)
LEMMA ScanStops ==
  ASSUME NEW q \in Seq(Actions)
  PROVE  \E n \in 0 .. Len(q) : Ready(q, n) /\ (n = Len(q) \/ ~Ready(q, n + 1))
<1> DEFINE I == {n \in 0 .. Len(q) : n = Len(q) \/ ~Ready(q, n + 1)}
<1>1. Len(q) \in Nat /\ I \in SUBSET (0 .. Len(q)) /\ I # {}
  OBVIOUS
<1>2. PICK n \in I : \A k \in I : n <= k
  <2> HIDE DEF I
  <2> QED  BY <1>1, LeastOf
<1>3. ASSUME NEW j \in 1 .. n PROVE q[j].image \notin {"loading", "broken"}
  <2>1. j - 1 \in 0 .. Len(q) /\ j - 1 \notin I /\ j - 1 + 1 = j
    <3>1. n \in 0 .. Len(q) /\ Len(q) \in Nat
      BY <1>1
    <3> HIDE DEF I
    <3> QED  BY <1>2, <3>1
  <2>2. Ready(q, j)
    BY <2>1
  <2> QED
    BY <2>2 DEF Ready
<1> QED
  BY <1>2, <1>3 DEF Ready

(* Scanning paints in order, and leaves a queue whose first image is to come. *)
LEMMA ScanKeeps ==
  ASSUME NEW s, Numbered(s)
  PROVE  InOrder(Scan(s))
<1> DEFINE n == CHOOSE n \in 0 .. Len(s.q) :
                  Ready(s.q, n) /\ (n = Len(s.q) \/ ~Ready(s.q, n + 1))
           t == Scan(s)
<1>1. /\ s.q \in Seq(Actions) /\ s.drawn \in Nat /\ s.painted \in Nat /\ s.ok = TRUE
      /\ \A k \in 1 .. Len(s.q) : s.q[k].n = s.painted + k
      /\ s.painted + Len(s.q) = s.drawn /\ Len(s.q) \in Nat
  BY DEF Numbered, Screens
<1>2. /\ n \in 0 .. Len(s.q) /\ Ready(s.q, n)
      /\ n = Len(s.q) \/ ~Ready(s.q, n + 1)
  BY <1>1, ScanStops
<1>3. t = [s EXCEPT !.q = SubSeq(s.q, n + 1, Len(s.q)), !.painted = s.painted + n,
                    !.ok = s.ok /\ \A j \in 1 .. n : s.q[j].n = s.painted + j]
  BY DEF Scan, Ready
<1> HIDE DEF n, t
<1>4. n < Len(s.q) => s.q[n + 1].image \in Waiting
  <2> SUFFICES ASSUME n < Len(s.q) PROVE s.q[n + 1].image \in Waiting
    OBVIOUS
  <2>1. PICK j \in 1 .. n + 1 : s.q[j].image \in {"loading", "broken"}
    BY <1>2 DEF Ready
  <2>2. j = n + 1
    BY <1>2, <2>1 DEF Ready
  <2> QED
    BY <2>1, <2>2 DEF Waiting
<1>5. \A j \in 1 .. n : s.q[j].n = s.painted + j
  BY <1>1, <1>2
<1>6. t = [q |-> SubSeq(s.q, n + 1, Len(s.q)), drawn |-> s.drawn,
           painted |-> s.painted + n, ok |-> TRUE]
  BY <1>1, <1>3, <1>5 DEF Numbered, Screens
<1> DEFINE r == SubSeq(s.q, n + 1, Len(s.q))
<1>7. /\ r \in Seq(Actions) /\ Len(r) = Len(s.q) - n
      /\ \A k \in 1 .. Len(r) : r[k] = s.q[n + k]
  BY <1>1, <1>2
<1> HIDE DEF r
<1>8. t.q = r /\ t.drawn = s.drawn /\ t.painted = s.painted + n /\ t.ok = TRUE /\ t \in Screens
  BY <1>1, <1>2, <1>6, <1>7 DEF Screens, r
<1>9. ASSUME NEW k \in 1 .. Len(r) PROVE r[k].n = s.painted + n + k
  <2>1. r[k] = s.q[n + k]
    BY <1>7
  <2>2. n + k \in 1 .. Len(s.q)
    BY <1>1, <1>2, <1>4, <1>7
  <2>3. s.q[n + k].n = s.painted + (n + k)
    BY <1>1, <2>2
  <2> QED
    BY <1>1, <1>2, <2>1, <2>3
<1>10. r # <<>> => r[1].image \in Waiting
  BY <1>1, <1>2, <1>4, <1>7
<1> QED
  BY <1>1, <1>2, <1>4, <1>7, <1>8, <1>9, <1>10 DEF InOrder, Numbered, t

(* What an assignment to some of the fields of the display leaves. *)
LEMMA Restarted ==
  ASSUME NEW s \in Screens, NEW t, t = [s EXCEPT !.drawn = 0, !.painted = 0, !.ok = TRUE]
  PROVE  t \in Screens /\ t.q = s.q /\ t.drawn = 0 /\ t.painted = 0 /\ t.ok = TRUE
BY DEF Screens

(* A drawing operation is numbered on; it is painted if nothing waits. *)
LEMMA DrawKeeps ==
  ASSUME NEW s, InOrder(s), NEW image \in Images
  PROVE  InOrder(Draw(s, image))
<1> DEFINE a == [n |-> s.drawn + 1, image |-> image]
           t == [s EXCEPT !.q = Append(@, a), !.drawn = @ + 1]
<1>1. /\ s \in Screens /\ s.q \in Seq(Actions) /\ s.drawn \in Nat /\ s.painted \in Nat
      /\ s.ok = TRUE /\ s.painted + Len(s.q) = s.drawn /\ Len(s.q) \in Nat
      /\ \A k \in 1 .. Len(s.q) : s.q[k].n = s.painted + k
  BY DEF InOrder, Numbered, Screens
<1>2. a \in Actions
  BY <1>1 DEF Actions
<1> HIDE DEF a
<1> DEFINE r == Append(s.q, a)
<1>3. /\ r \in Seq(Actions) /\ Len(r) = Len(s.q) + 1 /\ r[Len(s.q) + 1] = a
      /\ \A k \in 1 .. Len(s.q) : r[k] = s.q[k]
  BY <1>1, <1>2
<1>4. t = [s EXCEPT !.q = r, !.drawn = s.drawn + 1]
  OBVIOUS
<1> HIDE DEF r, t
<1>5. /\ t \in Screens /\ t.q = r /\ t.drawn = s.drawn + 1 /\ t.painted = s.painted
      /\ t.ok = TRUE
  <2>1. s \in Screens /\ r \in Seq(Actions) /\ s.drawn + 1 \in Nat
    BY <1>1, <1>3
  <2>2. t \in Screens /\ t.q = r /\ t.drawn = s.drawn + 1 /\ t.painted = s.painted
        /\ t.ok = s.ok
    BY <1>4, <2>1 DEF Screens
  <2> QED
    BY <1>1, <2>2
<1>6. a.n = s.drawn + 1
  BY DEF a
<1>7. ASSUME NEW k \in 1 .. Len(r) PROVE r[k].n = s.painted + k
  <2>1. k \in 1 .. Len(s.q) \/ k = Len(s.q) + 1
    BY <1>1, <1>3
  <2>2. CASE k \in 1 .. Len(s.q)
    BY <1>1, <1>3, <2>2
  <2>3. CASE k = Len(s.q) + 1
    <3>1. r[k].n = s.drawn + 1
      BY <1>3, <1>6, <2>3
    <3> QED
      BY <1>1, <2>3, <3>1
  <2> QED
    BY <2>1, <2>2, <2>3
<1>8. Numbered(t)
  <2>1. t.painted + Len(t.q) = t.drawn
    <3>1. Len(t.q) = Len(s.q) + 1 /\ t.painted = s.painted /\ t.drawn = s.drawn + 1
      BY <1>3, <1>5
    <3> HIDE DEF r, t
    <3> QED
      BY <1>1, <3>1
  <2> QED
    BY <1>5, <1>7, <2>1 DEF Numbered
<1>9. Draw(s, image) = IF s.q = <<>> THEN Scan(t) ELSE t
  BY DEF Draw, t, r, a
<1>10. CASE s.q = <<>>
  BY <1>8, <1>9, <1>10, ScanKeeps
<1>11. CASE s.q # <<>>
  <2>1. s.q[1].image \in Waiting /\ r[1] = s.q[1]
    BY <1>1, <1>3, <1>11 DEF InOrder
  <2> QED
    BY <1>5, <1>8, <1>9, <1>11, <2>1 DEF InOrder
<1> QED
  BY <1>10, <1>11

(* A new update starts when nothing of the one before is queued. *)
LEMMA NewUpdateKeeps ==
  ASSUME NEW s, InOrder(s), s.q = <<>>
  PROVE  InOrder(NewUpdate(s))
<1>1. s \in Screens /\ s.ok = TRUE /\ s.q = <<>> /\ s.q \in Seq(Actions)
  BY DEF InOrder, Numbered, Screens
<1>2. NewUpdate(s) = [s EXCEPT !.drawn = 0, !.painted = 0, !.ok = TRUE]
  BY <1>1 DEF NewUpdate
<1>3. /\ NewUpdate(s) \in Screens /\ NewUpdate(s).q = s.q /\ NewUpdate(s).drawn = 0
      /\ NewUpdate(s).painted = 0 /\ NewUpdate(s).ok = TRUE
  BY <1>1, <1>2, Restarted
<1> QED
  BY <1>1, <1>3 DEF InOrder, Numbered

(* An image that loads, or breaks, stays in its place. *)
LEMMA ImageKeeps ==
  ASSUME NEW s, InOrder(s), NEW i \in DOMAIN s.q, NEW image \in Images
  PROVE  LET t == [s EXCEPT !.q[i].image = image] IN
         /\ Numbered(t)
         /\ i # 1 \/ image \in Waiting => InOrder(t)
<1> DEFINE r == [s.q EXCEPT ![i].image = image]
           t == [s EXCEPT !.q[i].image = image]
<1>1. /\ s \in Screens /\ s.q \in Seq(Actions) /\ s.drawn \in Nat /\ s.painted \in Nat
      /\ s.ok = TRUE /\ s.painted + Len(s.q) = s.drawn /\ Len(s.q) \in Nat
      /\ \A k \in 1 .. Len(s.q) : s.q[k].n = s.painted + k
      /\ i \in 1 .. Len(s.q) /\ s.q # <<>> /\ s.q[1].image \in Waiting
  BY DEF InOrder, Numbered, Screens
<1>2. /\ [s.q[i] EXCEPT !.image = image] \in Actions
      /\ [s.q[i] EXCEPT !.image = image].n = s.q[i].n
      /\ [s.q[i] EXCEPT !.image = image].image = image
  <2>1. s.q[i] \in Actions
    BY <1>1
  <2> QED
    BY <2>1 DEF Actions
<1> DEFINE b == [s.q[i] EXCEPT !.image = image]
<1>3. r = [s.q EXCEPT ![i] = b]
  BY <1>1
<1> HIDE DEF b, r
<1>4. /\ r \in Seq(Actions) /\ Len(r) = Len(s.q) /\ r[i] = b
      /\ \A k \in 1 .. Len(s.q) : k # i => r[k] = s.q[k]
  BY <1>1, <1>2, <1>3 DEF b
<1>5. t = [s EXCEPT !.q = r]
  BY DEF r
<1> HIDE DEF t
<1>6. /\ t \in Screens /\ t.q = r /\ t.drawn = s.drawn /\ t.painted = s.painted
      /\ t.ok = TRUE
  BY <1>1, <1>4, <1>5 DEF Screens
<1>7. ASSUME NEW k \in 1 .. Len(r) PROVE r[k].n = s.painted + k
  <2>1. CASE k = i
    BY <1>1, <1>2, <1>4, <2>1 DEF b
  <2>2. CASE k # i
    BY <1>1, <1>4, <2>2
  <2> QED
    BY <2>1, <2>2
<1>8. Numbered(t)
  BY <1>1, <1>4, <1>6, <1>7 DEF Numbered
<1>9. i # 1 \/ image \in Waiting => r[1].image \in Waiting
  <2>1. CASE i = 1
    BY <1>2, <1>4, <2>1 DEF b
  <2>2. CASE i # 1
    BY <1>1, <1>4, <2>2
  <2> QED
    BY <2>1, <2>2
<1> QED
  BY <1>6, <1>8, <1>9 DEF InOrder, t

-----------------------------------------------------------------------------
(* What a decoder draws keeps the order: a picture, or an image. *)
LEMMA Painted ==
  ASSUME InOrder(screen)
  PROVE  InOrder(Paint) /\ \A s \in PaintImage : InOrder(s)
<1>1. "none" \in Images /\ "loading" \in Images /\ "loaded" \in Images
  BY Zenon DEF Images, Waiting
<1>2. InOrder(Draw(screen, "none")) /\ InOrder(Draw(screen, "loading")) /\ InOrder(Draw(screen, "loaded"))
  BY <1>1, DrawKeeps, Zenon
<1> QED
  BY <1>2, Zenon DEF Paint, PaintImage

\* What a handler may do to the display: draw in order.
Orderly == InOrder(screen') /\ UNCHANGED flushing

(* A rectangle that goes on, or is complete. *)
LEMMA RectKeeps ==
  ASSUME NEW s, InOrder(s), NEW last, Keep(s) \/ Complete(s, last) \/ Done(s)
  PROVE  Orderly
<1>1. "none" \in Images
  BY Zenon DEF Images
<1>2. InOrder(Draw(s, "none"))
  BY <1>1, DrawKeeps, Zenon
<1> QED
  BY <1>2, Zenon DEF Keep, Complete, Done, Finished, Orderly

(* The messages besides updates draw nothing. *)
LEMMA MessagesKeep == Messages => UNCHANGED <<screen, flushing>>
<1> USE DEF Handled, Reject, EndSession
<1>1. Bell => UNCHANGED <<screen, flushing>>
  BY DEF Bell
<1>2. SetColourMap => UNCHANGED <<screen, flushing>>
  BY DEF SetColourMap
<1>3. UnknownType => UNCHANGED <<screen, flushing>>
  BY DEF UnknownType
<1>4. ServerCutText => UNCHANGED <<screen, flushing>>
  BY DEF ServerCutText
<1>5. EndOfContinuousUpdates => UNCHANGED <<screen, flushing>>
  BY DEF EndOfContinuousUpdates
<1>6. ServerFence => UNCHANGED <<screen, flushing>>
  BY DEF ServerFence
<1>7. Xvp => UNCHANGED <<screen, flushing>>
  BY DEF Xvp
<1> QED
  BY <1>1, <1>2, <1>3, <1>4, <1>5, <1>6, <1>7 DEF Messages

(* Each rectangle draws in order. *)
LEMMA RectsKeep == InOrder(screen) /\ Rects => Orderly
<1> SUFFICES ASSUME InOrder(screen), Rects PROVE Orderly
  OBVIOUS
<1>1. InOrder(Paint) /\ \A s \in PaintImage : InOrder(s)
  BY Painted
<1>2. ASSUME Throw PROVE Orderly
  BY <1>2 DEF Throw, EndSession, Orderly
<1>3. ASSUME RectHeader PROVE Orderly
  BY <1>3 DEF RectHeader, Orderly
<1>4. ASSUME PseudoRect PROVE Orderly
  <2>1. CASE LastRect \/ QEMUExtendedKeyEvent \/ LedEvent \/ DesktopName \/ Cursor
    BY <2>1, RectKeeps, Zenon DEF LastRect, QEMUExtendedKeyEvent, LedEvent, DesktopName, Cursor
  <2>2. CASE DesktopSize \/ ExtendedDesktopSize
    <3>1. \E s \in {screen, Paint} : Done(s)
      BY <2>2, Zenon DEF DesktopSize, ExtendedDesktopSize
    <3> QED
      BY <1>1, <3>1, RectKeeps, Zenon
  <2>3. CASE VMwareCursor
    <3>1. Done(screen) \/ UNCHANGED <<flushing, screen>>
      BY <2>3 DEF VMwareCursor
    <3> QED
      BY <3>1, RectKeeps DEF Orderly
  <2> QED
    BY <1>4, <2>1, <2>2, <2>3 DEF PseudoRect
<1>5. ASSUME Raw \/ CopyRect \/ RRE PROVE Orderly
  <2>1. \E s \in {screen, Paint} : Done(s) \/ Keep(s)
    BY <1>5, Zenon DEF Raw, CopyRect, RRE
  <2> QED
    BY <1>1, <2>1, RectKeeps, Zenon
<1>6. ASSUME Hextile PROVE Orderly
  <2>1. \E s \in {screen, Paint} : Done(s) \/ Keep(s)
    BY <1>6, Zenon DEF Hextile
  <2> QED
    BY <1>1, <2>1, RectKeeps, Zenon
<1>7. ASSUME TightControl \/ TightFill \/ TightFilter \/ TightPalette \/ TightPixels
      PROVE  Orderly
  <2>1. \E s \in {screen, Paint} : Done(s) \/ Keep(s)
    BY <1>7, Zenon DEF TightControl, TightFill, TightFilter, TightPalette, TightPixels, ReadLength
  <2> QED
    BY <1>1, <2>1, RectKeeps, Zenon
<1>8. ASSUME TightImage \/ JPEGEnd PROVE Orderly
  <2>1. Keep(screen) \/ \E s \in {screen} \union PaintImage : Done(s)
    BY <1>8, Zenon DEF TightImage, JPEGEnd, ReadLength
  <2> QED
    BY <1>1, <2>1, RectKeeps, Zenon
<1>9. ASSUME ZRLE \/ JPEGSegment PROVE Orderly
  <2>1. \E s \in {screen, Paint} : Done(s) \/ Keep(s)
    BY <1>9, Zenon DEF ZRLE, JPEGSegment
  <2> QED
    BY <1>1, <2>1, RectKeeps, Zenon
<1>10. ASSUME ZRLEThrows PROVE Orderly
  BY <1>10 DEF ZRLEThrows, EndSession, Orderly
<1> QED
  BY <1>2, <1>3, <1>4, <1>5, <1>6, <1>7, <1>8, <1>9, <1>10
     DEF Rects, UnknownEncoding, HextileThrows, TightThrows, JPEGThrows

(* No rectangle is handled, and nothing else drawn, while a flush is awaited. *)
LEMMA RectsIdle == Rects \/ FramebufferUpdate => ~flushing
BY DEF Rects, FramebufferUpdate, Next1, InRect, RectHeader, PseudoRect, LastRect,
  QEMUExtendedKeyEvent, DesktopSize, ExtendedDesktopSize, LedEvent, DesktopName, Cursor,
  VMwareCursor, UnknownEncoding, Raw, CopyRect, RRE, Hextile, HextileThrows, TightControl,
  TightFill, TightImage, TightThrows, TightFilter, TightPalette, TightPixels, Basic, ZRLE,
  ZRLEThrows, JPEGSegment, JPEGEnd, JPEGThrows, Handling

(* Each step keeps the render queue in order. *)
LEMMA ScreenStep == ScreenInv /\ [UpdatesNext]_updatesVars => ScreenInv'
<1> SUFFICES ASSUME ScreenInv, [UpdatesNext]_updatesVars PROVE ScreenInv'
  OBVIOUS
<1>1. InOrder(screen) /\ (flushing => Pending)
  BY DEF ScreenInv
<1>2. ASSUME UNCHANGED <<screen, flushing>> PROVE ScreenInv'
  BY <1>1, <1>2 DEF ScreenInv, Pending
<1>3. CASE MessageEvent \/ Blocked \/ WaitForMore \/ ServerUpdate \/ ServerRect \/ ServerNote
  BY <1>2, <1>3 DEF MessageEvent, Blocked, WaitForMore, ServerUpdate, ServerRect, ServerNote
<1>4. CASE Messages
  BY <1>2, <1>4, MessagesKeep
<1>5. CASE Rects
  <2>1. Orderly /\ ~flushing
    BY <1>1, <1>5, RectsKeep, RectsIdle
  <2> QED
    BY <2>1 DEF Orderly, ScreenInv
<1>6. CASE FramebufferUpdate
  <2>1. ~flushing
    BY <1>6, RectsIdle
  <2>2. CASE Pending /\ flushing' = TRUE /\ UNCHANGED screen
    BY <1>1, <2>2 DEF ScreenInv, Pending
  <2>3. CASE ~Pending /\ UNCHANGED flushing
             /\ (Finished(NewUpdate(screen)) \/ screen' = NewUpdate(screen))
    <3>1. InOrder(NewUpdate(screen))
      BY <1>1, <2>3, NewUpdateKeeps DEF Pending
    <3>2. InOrder(Draw(NewUpdate(screen), "none"))
      <4>1. "none" \in Images
        BY Zenon DEF Images
      <4> QED  BY <3>1, <4>1, DrawKeeps, Zenon
    <3> QED
      BY <2>1, <2>3, <3>1, <3>2, Zenon DEF Finished, ScreenInv
  <2> QED
    BY <1>6, <2>2, <2>3, Zenon DEF FramebufferUpdate
<1>7. ASSUME NEW s, InOrder(s), Resumed(s), flushing => Pending
      PROVE  ScreenInv'
  <2>1. CASE flushing /\ s.q = <<>>
    <3>1. screen' = NewUpdate(s) /\ flushing' = FALSE
      BY <1>7, <2>1 DEF Resumed
    <3> QED
      BY <1>7, <2>1, <3>1, NewUpdateKeeps DEF ScreenInv
  <2>2. CASE ~(flushing /\ s.q = <<>>)
    <3>1. screen' = s /\ flushing' = flushing
      BY <1>7, <2>2 DEF Resumed
    <3> QED
      BY <1>7, <2>2, <3>1 DEF ScreenInv, Pending
  <2> QED
    BY <2>1, <2>2
<1>8. CASE ImageLoads
  <2>1. PICK i \in DOMAIN screen.q :
          LET t == [screen EXCEPT !.q[i].image = "loaded"]
          IN  Resumed(IF i = 1 THEN Scan(t) ELSE t)
    BY <1>8, Zenon DEF ImageLoads
  <2> DEFINE t == [screen EXCEPT !.q[i].image = "loaded"]
  <2>2. "loaded" \in Images
    BY Zenon DEF Images
  <2>3. Numbered(t) /\ (i # 1 => InOrder(t))
    BY <1>1, <2>2, ImageKeeps, Zenon
  <2> HIDE DEF t
  <2>4. InOrder(IF i = 1 THEN Scan(t) ELSE t)
    BY <2>3, ScanKeeps
  <2> QED
    BY <1>1, <1>7, <2>1, <2>4 DEF t
<1>9. CASE ImageBreaks
  <2>1. PICK i \in DOMAIN screen.q : screen' = [screen EXCEPT !.q[i].image = "broken"]
    BY <1>9, Zenon DEF ImageBreaks
  <2>2. "broken" \in Images /\ "broken" \in Waiting
    BY Zenon DEF Images, Waiting
  <2>3. InOrder(screen')
    BY <1>1, <2>1, <2>2, ImageKeeps, Zenon
  <2>4. flushing' = flushing
    BY <1>9 DEF ImageBreaks
  <2>5. flushing => Pending'
    <3>1. screen.q # <<>>
      BY <2>1, <1>1 DEF InOrder, Numbered, Screens
    <3> QED
      BY <1>1, <2>1, <2>3, <3>1 DEF Pending, InOrder, Numbered, Screens
  <2> QED
    BY <2>3, <2>4, <2>5 DEF ScreenInv
<1>10. CASE UNCHANGED updatesVars
  BY <1>2, <1>10 DEF updatesVars
<1> QED
  BY <1>3, <1>4, <1>5, <1>6, <1>8, <1>9, <1>10 DEF UpdatesNext

(* At the start nothing is drawn and nothing queued. *)
LEMMA ScreenStarts == UpdatesInit => ScreenInv
<1> SUFFICES ASSUME UpdatesInit PROVE ScreenInv
  OBVIOUS
<1>1. screen = [q |-> <<>>, drawn |-> 0, painted |-> 0, ok |-> TRUE] /\ flushing = FALSE
  BY Zenon DEF UpdatesInit
<1> QED
  BY <1>1 DEF ScreenInv, InOrder, Numbered, Screens

(***************************************************************************)
(* display.js _renderQPush and _scanRenderQ, rfb.js _framebufferUpdate:    *)
(* what an update draws is painted in the order it came, also when images  *)
(* in it load late, out of order or never, and the next update draws       *)
(* nothing before all of it is painted.                                    *)
(***************************************************************************)
THEOREM PaintsInOrder == UpdatesSpec => []PaintedInOrder
<1>1. ScreenInv => PaintedInOrder
  BY DEF ScreenInv, InOrder, Numbered, PaintedInOrder
<1> QED
  BY <1>1, ScreenStarts, ScreenStep, PTL DEF UpdatesSpec

(***************************************************************************)
(* The page holds the stream back, in _flushing, only while drawing        *)
(* operations are queued, and these only wait for an image that has not    *)
(* loaded: the part of NeverStarved that is about the render queue.        *)
(***************************************************************************)
WaitsForImage ==
  (flushing => Pending) /\ (Pending => Head(screen.q).image \in {"loading", "broken"})

(* The render queue keeps it so. *)
LEMMA ImagesAwaited == ScreenInv => WaitsForImage
<1> SUFFICES ASSUME ScreenInv PROVE WaitsForImage
  OBVIOUS
<1>1. screen.q \in Seq(Actions) /\ (screen.q # <<>> => screen.q[1].image \in Waiting)
  BY DEF ScreenInv, InOrder, Numbered, Screens
<1>2. screen.q # <<>> => Head(screen.q) = screen.q[1]
  BY <1>1
<1> QED
  BY <1>1, <1>2 DEF ScreenInv, WaitsForImage, Pending, Waiting

(* So the page waits for an image at most, whatever the server sends. *)
THEOREM WaitsOnlyForImages == UpdatesSpec => []WaitsForImage
BY ImagesAwaited, ScreenStarts, ScreenStep, PTL DEF UpdatesSpec

-----------------------------------------------------------------------------
-----------------------------------------------------------------------------
(***************************************************************************)
(* The stream.  A path leads from one place of the protocol to another     *)
(* over some cells.                                                        *)
(***************************************************************************)
\* Strings; the provers do not know those of the code for strings.
Strings == STRING \union {"null", "type", "fbu", "header", "area", "encoding", "0", "1", "2",
                       "many", "last", "copyFilter"}

WireCells == [role : Strings, val : Strings]

Walk(p, s, st) ==
  /\ st[0] = p
  /\ \A i \in 1 .. Len(s) : Expects(st[i - 1], s[i]) /\ st[i] = PlaceAfter(st[i - 1], s[i])

Path(p, s, q) == \E st : Walk(p, s, st) /\ st[Len(s)] = q

(* No cells, no way. *)
LEMMA PathOfNone == \A p, q : Path(p, <<>>, q) <=> p = q
<1>1. Len(<<>>) = 0
  OBVIOUS
<1>2. ASSUME NEW p PROVE Path(p, <<>>, p)
  <2> DEFINE st == [i \in 0 .. 0 |-> p]
  <2>1. st[0] = p
    OBVIOUS
  <2> HIDE DEF st
  <2>2. Walk(p, <<>>, st)
    BY <1>1, <2>1 DEF Walk
  <2> QED
    BY <1>1, <2>1, <2>2 DEF Path
<1>3. ASSUME NEW p, NEW q, Path(p, <<>>, q) PROVE p = q
  BY <1>1, <1>3 DEF Path, Walk
<1> QED
  BY <1>2, <1>3

(* The first cell is expected, and the others lead on from the place after it. *)
LEMMA PathFirst ==
  ASSUME NEW s \in Seq(WireCells), s # <<>>, NEW p, NEW q, Path(p, s, q)
  PROVE  Expects(p, s[1]) /\ Path(PlaceAfter(p, s[1]), SubSeq(s, 2, Len(s)), q)
<1>1. PICK st : Walk(p, s, st) /\ st[Len(s)] = q
  BY DEF Path
<1> DEFINE n == Len(s)
           r == SubSeq(s, 2, n)
           on == [i \in 0 .. n - 1 |-> st[i + 1]]
<1>2. n \in Nat /\ n > 0 /\ Len(r) = n - 1 /\ \A i \in 1 .. n - 1 : r[i] = s[i + 1]
  <2>1. n \in Nat /\ n > 0
    OBVIOUS
  <2>2. \A i \in 2 .. n : s[i] \in WireCells
    OBVIOUS
  <2>3. Len(r) = n - 1 /\ \A i \in 1 .. n - 1 : r[i] = s[i + 1]
    BY <2>1, <2>2
  <2> QED
    BY <2>1, <2>3
<1>3. \A i \in 0 .. n - 1 : on[i] = st[i + 1]
  OBVIOUS
<1> HIDE DEF r, on
<1>4. Expects(st[0], s[1]) /\ st[1] = PlaceAfter(st[0], s[1]) /\ st[0] = p
  <2>1. 1 \in 1 .. Len(s) /\ 1 - 1 = 0
    BY <1>2
  <2> QED
    BY <1>1, <2>1 DEF Walk
<1>5. on[0] = PlaceAfter(p, s[1])
  BY <1>2, <1>3, <1>4
<1>6. ASSUME NEW i \in 1 .. n - 1
      PROVE  Expects(on[i - 1], r[i]) /\ on[i] = PlaceAfter(on[i - 1], r[i])
  <2>1. i + 1 \in 1 .. Len(s) /\ (i + 1) - 1 = i /\ i - 1 \in 0 .. n - 1 /\ i \in 0 .. n - 1
    BY <1>2
  <2>2. Expects(st[i], s[i + 1]) /\ st[i + 1] = PlaceAfter(st[i], s[i + 1])
    BY <1>1, <2>1 DEF Walk
  <2>3. on[i - 1] = st[i - 1 + 1] /\ on[i] = st[i + 1] /\ r[i] = s[i + 1] /\ i - 1 + 1 = i
    BY <1>2, <1>3, <2>1
  <2> QED
    BY <2>2, <2>3
<1>7. Walk(PlaceAfter(p, s[1]), r, on)
  BY <1>2, <1>5, <1>6 DEF Walk
<1>8. on[Len(r)] = q
  <2>1. n - 1 \in 0 .. n - 1 /\ n - 1 + 1 = Len(s)
    BY <1>2
  <2> QED
    BY <1>1, <1>2, <1>3, <2>1
<1>9. Path(PlaceAfter(p, s[1]), r, q)
  BY <1>7, <1>8 DEF Path
<1> QED
  BY <1>4, <1>9 DEF r

(* One way after another. *)
LEMMA PathJoin ==
  ASSUME NEW s \in Seq(WireCells), NEW t \in Seq(WireCells), NEW p, NEW q, NEW r,
         Path(p, s, q), Path(q, t, r)
  PROVE  Path(p, s \o t, r)
<1>1. PICK st : Walk(p, s, st) /\ st[Len(s)] = q
  BY DEF Path
<1>2. PICK tt : Walk(q, t, tt) /\ tt[Len(t)] = r
  BY DEF Path
<1> DEFINE m == Len(s)
           n == Len(t)
           c == s \o t
           both == [i \in 0 .. m + n |-> IF i <= m THEN st[i] ELSE tt[i - m]]
<1>3. /\ m \in Nat /\ n \in Nat /\ Len(c) = m + n
      /\ \A i \in 1 .. m : c[i] = s[i]
      /\ \A i \in m + 1 .. m + n : c[i] = t[i - m]
  OBVIOUS
<1>4. /\ \A i \in 0 .. m : both[i] = st[i]
      /\ \A i \in m + 1 .. m + n : both[i] = tt[i - m]
  BY <1>3
<1>5. both[m] = tt[0]
  <2>1. m \in 0 .. m
    BY <1>3
  <2> QED
    BY <1>1, <1>2, <1>4, <2>1 DEF Walk
<1> HIDE DEF c, both
<1>6. ASSUME NEW i \in 1 .. m + n
      PROVE  Expects(both[i - 1], c[i]) /\ both[i] = PlaceAfter(both[i - 1], c[i])
  <2>1. CASE i <= m
    <3>1. i \in 1 .. m /\ i \in 0 .. m /\ i - 1 \in 0 .. m
      BY <1>3, <2>1
    <3>2. Expects(st[i - 1], s[i]) /\ st[i] = PlaceAfter(st[i - 1], s[i])
      BY <1>1, <3>1 DEF Walk
    <3> QED
      BY <1>3, <1>4, <3>1, <3>2
  <2>2. CASE i > m
    <3> DEFINE k == i - m
    <3>1. k \in 1 .. n /\ i \in m + 1 .. m + n
      BY <1>3, <2>2
    <3>2. Expects(tt[k - 1], t[k]) /\ tt[k] = PlaceAfter(tt[k - 1], t[k])
      BY <1>2, <3>1 DEF Walk
    <3>3. both[i] = tt[k] /\ c[i] = t[k]
      BY <1>3, <1>4, <3>1
    <3>4. both[i - 1] = tt[k - 1]
      <4>1. CASE k = 1
        <5>1. i - 1 = m /\ k - 1 = 0
          BY <1>3, <4>1
        <5> HIDE DEF k
        <5> QED
          BY <1>5, <5>1
      <4>2. CASE k # 1
        <5>1. i - 1 \in m + 1 .. m + n /\ (i - 1) - m = k - 1
          BY <1>3, <3>1, <4>2
        <5> QED
          BY <1>4, <5>1
      <4> QED  BY <4>1, <4>2
    <3> HIDE DEF k
    <3> QED
      BY <3>2, <3>3, <3>4
  <2> QED
    BY <1>3, <2>1, <2>2
<1>7. Walk(p, c, both)
  <2>1. 0 \in 0 .. m
    BY <1>3
  <2>2. both[0] = p
    BY <1>1, <1>4, <2>1 DEF Walk
  <2> QED
    BY <1>3, <1>6, <2>2 DEF Walk
<1>8. both[Len(c)] = r
  <2>1. CASE n = 0
    BY <1>2, <1>3, <1>5, <2>1
  <2>2. CASE n # 0
    <3>1. m + n \in m + 1 .. m + n /\ m + n - m = n
      BY <1>3, <2>2
    <3> QED
      BY <1>2, <1>3, <1>4, <3>1
  <2> QED
    BY <2>1, <2>2
<1> QED
  BY <1>7, <1>8 DEF Path, c

(* The beginning of a way is one. *)
LEMMA PathBegins ==
  ASSUME NEW s \in Seq(WireCells), NEW t \in Seq(WireCells), NEW p, NEW q, Path(p, s \o t, q)
  PROVE  \E r : Path(p, s, r)
<1>1. PICK st : Walk(p, s \o t, st)
  BY DEF Path
<1>2. /\ Len(s) \in Nat /\ Len(t) \in Nat /\ Len(s \o t) = Len(s) + Len(t)
      /\ \A i \in 1 .. Len(s) : (s \o t)[i] = s[i]
  OBVIOUS
<1>3. Walk(p, s, st)
  BY <1>1, <1>2 DEF Walk
<1> QED
  BY <1>3 DEF Path

\* What a client cannot go on from, it stays at.
LEMMA LostStays == \A s \in Seq(WireCells) : Path(Lost, s, Lost)
<1> SUFFICES ASSUME NEW s \in Seq(WireCells) PROVE Path(Lost, s, Lost)
  OBVIOUS
<1> DEFINE st == [i \in 0 .. Len(s) |-> Lost]
<1>1. Lost.next = "lost" /\ Len(s) \in Nat
  BY DEF Lost, At
<1>2. \A i \in 0 .. Len(s) : st[i] = Lost
  OBVIOUS
<1> HIDE DEF st
<1>3. \A c : Expects(Lost, c) /\ PlaceAfter(Lost, c) = Lost
  BY <1>1 DEF Expects, PlaceAfter
<1>4. Walk(Lost, s, st)
  <2>1. \A i \in 1 .. Len(s) : i - 1 \in 0 .. Len(s) /\ i \in 0 .. Len(s)
    BY <1>1
  <2> QED
    BY <1>1, <1>2, <1>3, <2>1 DEF Walk
<1> QED
  BY <1>1, <1>2, <1>4 DEF Path
\* The places on the way from p over the first cells of s.
PlacesOf(p, s, n, f) == f = [k \in 0 .. n |-> IF k = 0 THEN p ELSE PlaceAfter(f[k - 1], s[k])]

(* There are such places, over any number of cells. *)
LEMMA PlacesExist ==
  ASSUME NEW p, NEW s
  PROVE  \A n \in Nat : \E f : PlacesOf(p, s, n, f)
<1> DEFINE S == {n \in Nat : \E f : PlacesOf(p, s, n, f)}
<1>1. 0 \in S
  <2> DEFINE f == [k \in 0 .. 0 |-> p]
  <2>1. f = [k \in 0 .. 0 |-> IF k = 0 THEN p ELSE PlaceAfter(f[k - 1], s[k])]
    OBVIOUS
  <2> HIDE DEF f
  <2>2. PlacesOf(p, s, 0, f)
    BY <2>1 DEF PlacesOf
  <2> QED
    BY <2>2
<1>2. ASSUME NEW n \in S PROVE n + 1 \in S
  <2>1. PICK f : f = [k \in 0 .. n |-> IF k = 0 THEN p ELSE PlaceAfter(f[k - 1], s[k])]
    BY DEF PlacesOf
  <2> DEFINE g == [k \in 0 .. n + 1 |-> IF k = n + 1 THEN PlaceAfter(f[n], s[n + 1]) ELSE f[k]]
  <2>2. n \in Nat
    OBVIOUS
  <2>3. \A k \in 0 .. n : g[k] = f[k]
    BY <2>2
  <2>4. \A k \in 0 .. n + 1 : g[k] = IF k = 0 THEN p ELSE PlaceAfter(g[k - 1], s[k])
    <3> SUFFICES ASSUME NEW k \in 0 .. n + 1
                 PROVE  g[k] = IF k = 0 THEN p ELSE PlaceAfter(g[k - 1], s[k])
      OBVIOUS
    <3>1. CASE k = n + 1
      <4>1. g[n + 1] = PlaceAfter(f[n], s[n + 1])
        BY <2>2
      <4>2. g[n] = f[n] /\ k # 0 /\ k - 1 = n
        BY <2>2, <2>3, <3>1
      <4> HIDE DEF g
      <4> QED
        BY <3>1, <4>1, <4>2
    <3>2. CASE k # n + 1
      <4>1. k \in 0 .. n /\ (k # 0 => k - 1 \in 0 .. n)
        BY <2>2, <3>2
      <4>2. g[k] = f[k] /\ (k # 0 => g[k - 1] = f[k - 1])
        BY <2>3, <4>1
      <4>3. f[k] = IF k = 0 THEN p ELSE PlaceAfter(f[k - 1], s[k])
        BY <2>1, <4>1
      <4> HIDE DEF g
      <4> QED
        BY <4>2, <4>3
    <3> QED
      BY <3>1, <3>2
  <2>5. g = [k \in 0 .. n + 1 |-> g[k]]
    OBVIOUS
  <2> HIDE DEF g
  <2>6. PlacesOf(p, s, n + 1, g)
    BY <2>4, <2>5 DEF PlacesOf
  <2> QED
    BY <2>2, <2>6
<1> HIDE DEF S
<1>3. ASSUME NEW n \in Nat, n \notin S PROVE FALSE
  <2> DEFINE I == {k \in 0 .. n : k \notin S}
  <2>1. I \in SUBSET (0 .. n) /\ I # {}
    BY <1>3
  <2>2. PICK m \in I : \A k \in I : m <= k
    <3> HIDE DEF I
    <3> QED  BY <1>3, <2>1, LeastOf
  <2>3. m # 0 /\ m - 1 \in 0 .. n /\ m - 1 + 1 = m /\ ~(m <= m - 1)
    BY <1>1
  <2>4. m - 1 \in S
    BY <2>2, <2>3
  <2>5. m - 1 + 1 \in S
    BY <1>2, <2>4
  <2> QED
    BY <2>3, <2>5
<1> QED
  BY <1>3 DEF S

(* What is written by the protocol is a path. *)
LEMMA WrittenLeads ==
  ASSUME NEW p, NEW s \in Seq(WireCells), NEW ends, Written(p, s, ends)
  PROVE  \E q \in ends : Path(p, s, q)
<1> DEFINE n == Len(s)
           f == CHOOSE f : PlacesOf(p, s, n, f)
<1>1. n \in Nat
  OBVIOUS
<1>2. PlacesOf(p, s, n, f)
  BY <1>1, PlacesExist
<1>3. (\A i \in 1 .. n : Expects(f[i - 1], s[i])) /\ f[n] \in ends
  BY DEF Written, PlacesOf
<1> HIDE DEF f
<1>4. f[0] = p /\ \A i \in 1 .. n : f[i] = PlaceAfter(f[i - 1], s[i])
  BY <1>1, <1>2 DEF PlacesOf
<1>5. Walk(p, s, f)
  BY <1>3, <1>4 DEF Walk
<1> QED
  BY <1>3, <1>5 DEF Path
-----------------------------------------------------------------------------
(* What comes leads on: while the session is open to where the server      *)
(* stands, or to a field that ends it.                                     *)
Leads(p, s, open, left) == \E q : Path(p, s, q) /\ (open => q \in {Between(left), Lost})

(* From the place of a cell, a handler may read it.                        *)
LEMMA Reading ==
  ASSUME NEW s \in Seq(WireCells), NEW t \in Seq(WireCells), NEW k \in Nat, k > 0, k <= Len(s),
         NEW p, NEW open, NEW left, Leads(p, SubSeq(s, k, Len(s)) \o t, open, left)
  PROVE  /\ Expects(p, s[k]) /\ s[k] \in WireCells
         /\ Leads(PlaceAfter(p, s[k]), SubSeq(s, k + 1, Len(s)) \o t, open, left)
<1> DEFINE n == Len(s)
           r == SubSeq(s, k, n)
           c == r \o t
<1>1. n \in Nat /\ k \in 1 .. n /\ s[k] \in WireCells
  OBVIOUS
<1>2. \A i \in 1 .. n : s[i] \in WireCells
  OBVIOUS
<1>3. r \in Seq(WireCells) /\ Len(r) = n - k + 1 /\ \A i \in 1 .. n - k + 1 : r[i] = s[i + k - 1]
  BY <1>1, <1>2
<1>4. r[1] = s[k] /\ 1 \in 1 .. Len(r)
  BY <1>1, <1>3
<1>5. SubSeq(r, 2, Len(r)) = SubSeq(s, k + 1, n)
  <2>1. SubSeq(r, 2, Len(r)) = [i \in 1 .. n - k |-> r[i + 1]]
    BY <1>1, <1>3
  <2>2. SubSeq(s, k + 1, n) = [i \in 1 .. n - k |-> s[i + k]]
    BY <1>1, <1>2
  <2>3. \A i \in 1 .. n - k : r[i + 1] = s[i + k]
    BY <1>1, <1>3
  <2> HIDE DEF r
  <2> QED
    BY <2>1, <2>2, <2>3
<1> HIDE DEF r
<1>6. c \in Seq(WireCells) /\ Len(c) = Len(r) + Len(t) /\ Len(t) \in Nat /\ Len(r) \in Nat
  <2>1. r \in Seq(WireCells)
    BY <1>3
  <2>2. Len(r) \in Nat /\ Len(t) \in Nat
    BY <2>1
  <2> QED
    BY <2>1, <2>2
<1>7. c # <<>> /\ c[1] = r[1]
  BY <1>3, <1>4, <1>6
<1>8. SubSeq(c, 2, Len(c)) = SubSeq(r, 2, Len(r)) \o t
  <2> DEFINE m == Len(r)
             l == Len(t)
  <2>1. m \in Nat /\ l \in Nat /\ m > 0
    BY <1>4, <1>6
  <2>2. \A i \in 1 .. m + l : c[i] = IF i <= m THEN r[i] ELSE t[i - m]
    BY <1>3, <2>1
  <2>3. SubSeq(r, 2, m) \in Seq(WireCells) /\ Len(SubSeq(r, 2, m)) = m - 1
        /\ \A i \in 1 .. m - 1 : SubSeq(r, 2, m)[i] = r[i + 1]
    <3>1. \A i \in 1 .. m : r[i] \in WireCells
      BY <1>3
    <3> QED
      BY <1>3, <2>1, <3>1
  <2> DEFINE u == SubSeq(r, 2, m)
  <2>4. u \o t = [i \in 1 .. m - 1 + l |-> IF i <= m - 1 THEN u[i] ELSE t[i - (m - 1)]]
    <3>1. u \in Seq(WireCells) /\ Len(u) = m - 1
      BY <2>3
    <3> HIDE DEF u, m
    <3>2. u \o t \in Seq(WireCells) /\ Len(u \o t) = m - 1 + l
      BY <2>1, <3>1
    <3>3. \A i \in 1 .. m - 1 + l : (u \o t)[i] = IF i <= m - 1 THEN u[i] ELSE t[i - (m - 1)]
      BY <2>1, <3>1
    <3> DEFINE v == u \o t
    <3>4. v \in Seq(WireCells) /\ Len(v) = m - 1 + l
      BY <3>2
    <3>5. \A i \in 1 .. m - 1 + l : v[i] = IF i <= m - 1 THEN u[i] ELSE t[i - (m - 1)]
      BY <3>3
    <3> HIDE DEF v
    <3>6. v = [i \in 1 .. m - 1 + l |-> v[i]]
      BY <3>4
    <3>7. v = [i \in 1 .. m - 1 + l |-> IF i <= m - 1 THEN u[i] ELSE t[i - (m - 1)]]
      BY <3>5, <3>6
    <3> QED
      BY <3>7 DEF v
  <2>5. SubSeq(c, 2, Len(c)) = [i \in 1 .. m + l - 1 |-> c[i + 1]]
    <3>1. \A i \in 1 .. Len(c) : c[i] \in WireCells
      BY <1>6
    <3> HIDE DEF c
    <3> QED
      BY <1>6, <2>1, <3>1
  <2>6. \A i \in 1 .. m + l - 1 : c[i + 1] = IF i <= m - 1 THEN u[i] ELSE t[i - (m - 1)]
    <3> SUFFICES ASSUME NEW i \in 1 .. m + l - 1
                 PROVE  c[i + 1] = IF i <= m - 1 THEN u[i] ELSE t[i - (m - 1)]
      OBVIOUS
    <3>1. i + 1 \in 1 .. m + l /\ (i <= m - 1 <=> i + 1 <= m) /\ (i + 1) - m = i - (m - 1)
      BY <2>1
    <3>2. i <= m - 1 => u[i] = r[i + 1]
      BY <2>1, <2>3
    <3> HIDE DEF c, u, m
    <3> QED
      BY <2>2, <3>1, <3>2
  <2>7. m + l - 1 = m - 1 + l
    BY <2>1
  <2> HIDE DEF c, u, m, l
  <2>8. SubSeq(c, 2, Len(c)) = u \o t
    BY <2>4, <2>5, <2>6, <2>7
  <2> QED
    BY <2>8 DEF u, m
<1> HIDE DEF c
<1>9. PICK q : Path(p, c, q) /\ (open => q \in {Between(left), Lost})
  BY DEF Leads, c, r
<1>10. Expects(p, c[1]) /\ Path(PlaceAfter(p, c[1]), SubSeq(c, 2, Len(c)), q)
  BY <1>6, <1>7, <1>9, PathFirst
<1>11. c[1] = s[k] /\ SubSeq(c, 2, Len(c)) = SubSeq(s, k + 1, n) \o t
  BY <1>4, <1>5, <1>7, <1>8
<1>12. Path(PlaceAfter(p, s[k]), SubSeq(s, k + 1, n) \o t, q) /\ Expects(p, s[k])
  BY <1>10, <1>11
<1> QED
  BY <1>1, <1>9, <1>12 DEF Leads
-----------------------------------------------------------------------------
(***************************************************************************)
(* What has its type, whatever the server writes.                          *)
(***************************************************************************)
Fbus == [rects : 0 .. Many, encoding : Strings, area : 0 .. Many]

Decs == [lines : Nat, subrects : Nat, tiles : Nat, ctl : Strings, filter : Strings,
         colours : BOOLEAN, len : BOOLEAN, zlen : BOOLEAN, segments : SUBSET Strings]

Leftovers == {"none", "provide", "fence", "palette", "cursor", "update"}

UpdatesTyped ==
  /\ alive \in BOOLEAN /\ flushing \in BOOLEAN /\ asked \in BOOLEAN /\ misread \in BOOLEAN
  /\ fbu \in Fbus /\ dec \in Decs
  /\ rQ \in Seq(WireCells) /\ net \in Seq(WireCells) /\ run \in {"idle", "loop"}
  /\ cu \in [on : BOOLEAN, offered : BOOLEAN]
  /\ owed \in 0 .. Many /\ leftover \in Leftovers

(* A read of n cells.                                                      *)
Reads(n) == Has(n) /\ rQ' = SubSeq(rQ, n + 1, Len(rQ)) /\ net' = net

(* What a read of one to four fields takes off the queue, and misreads. *)
LEMMA ReadOne ==
  ASSUME NEW r1, Read(<<r1>>)
  PROVE  Reads(1) /\ misread' = (misread \/ rQ[1].role # r1)
<1>1. Len(<<r1>>) = 1 /\ DOMAIN <<r1>> = {1} /\ <<r1>>[1] = r1
  OBVIOUS
<1>2. Reads(1)
  BY <1>1 DEF Read, Reads, Has
<1>3. misread' = (misread \/ \E i \in {1} : rQ[i].role # <<r1>>[i])
  BY <1>1, Zenon DEF Read
<1> QED
  BY <1>1, <1>2, <1>3, Zenon

(* Two fields. *)
LEMMA ReadTwo ==
  ASSUME NEW r1, NEW r2, Read(<<r1, r2>>)
  PROVE  Reads(2) /\ misread' = (misread \/ rQ[1].role # r1 \/ rQ[2].role # r2)
<1>1. /\ Len(<<r1, r2>>) = 2 /\ DOMAIN <<r1, r2>> = {1, 2}
      /\ <<r1, r2>>[1] = r1 /\ <<r1, r2>>[2] = r2
  OBVIOUS
<1>2. Reads(2)
  BY <1>1 DEF Read, Reads, Has
<1>3. misread' = (misread \/ \E i \in {1, 2} : rQ[i].role # <<r1, r2>>[i])
  BY <1>1, Zenon DEF Read
<1> QED
  BY <1>1, <1>2, <1>3, Zenon

(* Three fields. *)
LEMMA ReadThree ==
  ASSUME NEW r1, NEW r2, NEW r3, Read(<<r1, r2, r3>>)
  PROVE  /\ Reads(3)
         /\ misread' = (misread \/ rQ[1].role # r1 \/ rQ[2].role # r2 \/ rQ[3].role # r3)
<1> DEFINE r == <<r1, r2, r3>>
<1>1. Len(r) = 3 /\ DOMAIN r = {1, 2, 3} /\ r[1] = r1 /\ r[2] = r2 /\ r[3] = r3
  OBVIOUS
<1>2. Reads(3)
  BY <1>1 DEF Read, Reads, Has
<1>3. misread' = (misread \/ \E i \in {1, 2, 3} : rQ[i].role # r[i])
  BY <1>1, Zenon DEF Read
<1> HIDE DEF r
<1> QED
  BY <1>1, <1>2, <1>3, Zenon

(* Four fields. *)
LEMMA ReadFour ==
  ASSUME NEW r1, NEW r2, NEW r3, NEW r4, Read(<<r1, r2, r3, r4>>)
  PROVE  /\ Reads(4)
         /\ misread' = (misread \/ rQ[1].role # r1 \/ rQ[2].role # r2
                                \/ rQ[3].role # r3 \/ rQ[4].role # r4)
<1> DEFINE r == <<r1, r2, r3, r4>>
<1>1. Len(r) = 4 /\ DOMAIN r = 1 .. 4 /\ r[1] = r1 /\ r[2] = r2 /\ r[3] = r3 /\ r[4] = r4
  OBVIOUS
<1>2. Reads(4)
  BY <1>1 DEF Read, Reads, Has
<1>3. misread' = (misread \/ \E i \in 1 .. 4 : rQ[i].role # r[i])
  BY <1>1, Zenon DEF Read
<1>4. (\E i \in 1 .. 4 : rQ[i].role # r[i])
        <=> (rQ[1].role # r[1] \/ rQ[2].role # r[2] \/ rQ[3].role # r[3] \/ rQ[4].role # r[4])
  <2> HIDE DEF r
  <2>1. \A i : i \in 1 .. 4 <=> i = 1 \/ i = 2 \/ i = 3 \/ i = 4
    OBVIOUS
  <2> QED
    BY <2>1, Zenon
<1> HIDE DEF r
<1> QED
  BY <1>1, <1>2, <1>3, <1>4, Zenon

(* What a read leaves, and what it has read, are cells.                    *)
LEMMA ReadCells ==
  ASSUME UpdatesTyped, NEW n \in Nat, Reads(n)
  PROVE  rQ' \in Seq(WireCells) /\ net' \in Seq(WireCells) /\ \A i \in 1 .. n : rQ[i] \in WireCells
<1>1. rQ \in Seq(WireCells) /\ Len(rQ) \in Nat /\ n <= Len(rQ)
  BY DEF UpdatesTyped, Reads, Has
<1>2. \A i \in 1 .. Len(rQ) : rQ[i] \in WireCells
  BY <1>1
<1>3. SubSeq(rQ, n + 1, Len(rQ)) \in Seq(WireCells)
  BY <1>1, <1>2
<1> QED
  BY <1>1, <1>2, <1>3 DEF Reads, UpdatesTyped

(* The same, of a read by its roles.                                       *)
LEMMA ReadTyped ==
  ASSUME UpdatesTyped, NEW roles, Len(roles) \in Nat, Read(roles)
  PROVE  /\ rQ' \in Seq(WireCells) /\ net' \in Seq(WireCells) /\ misread' \in BOOLEAN
         /\ \A i \in 1 .. Len(roles) : rQ[i] \in WireCells
<1>1. Reads(Len(roles))
  BY DEF Read, Reads
<1>2. misread' \in BOOLEAN
  BY Zenon DEF Read
<1> QED
  BY <1>1, <1>2, ReadCells, Zenon

(* A handler returns to the loop, or to nobody. *)
LEMMA ReturnTyped ==
  \A goOn : run \in {"idle", "loop"} /\ Return(goOn) => run' \in {"idle", "loop"}
BY DEF Return

(* The ways a handler ends keep the types of what they write.              *)
LEMMA HandledTyped ==
  ASSUME UpdatesTyped, NEW roles, Len(roles) \in Nat, Read(roles), Handled,
         cu' \in [on : BOOLEAN, offered : BOOLEAN], leftover' \in Leftovers
  PROVE  UpdatesTyped'
<1>1. rQ' \in Seq(WireCells) /\ net' \in Seq(WireCells) /\ misread' \in BOOLEAN
  BY ReadTyped
<1>2. run' \in {"idle", "loop"}
  BY ReturnTyped DEF Handled, UpdatesTyped
<1> QED
  BY <1>1, <1>2 DEF Handled, UpdatesTyped

(* A message that ends the session keeps the types. *)
LEMMA RejectTyped ==
  ASSUME UpdatesTyped, NEW roles, Len(roles) \in Nat, NEW goOn, Reject(roles, goOn)
  PROVE  UpdatesTyped'
<1>1. Has(Len(roles)) /\ rQ' = SubSeq(rQ, Len(roles) + 1, Len(rQ))
  BY DEF Reject
<1>2. rQ \in Seq(WireCells) /\ Len(rQ) \in Nat /\ Len(roles) <= Len(rQ)
  BY <1>1 DEF Has, UpdatesTyped
<1>3. \A i \in 1 .. Len(rQ) : rQ[i] \in WireCells
  BY <1>2
<1>4. rQ' \in Seq(WireCells)
  BY <1>1, <1>2, <1>3
<1>5. run' \in {"idle", "loop"}
  BY ReturnTyped DEF Reject, EndSession, UpdatesTyped
<1>6. <<>> \in Seq(WireCells)
  OBVIOUS
<1> QED
  BY <1>4, <1>5, <1>6 DEF Reject, EndSession, UpdatesTyped

(* So does an exception. *)
LEMMA ThrowTyped == UpdatesTyped /\ Throw => UpdatesTyped'
<1> SUFFICES ASSUME UpdatesTyped, Throw PROVE UpdatesTyped'
  OBVIOUS
<1>1. run' \in {"idle", "loop"}
  BY ReturnTyped DEF Throw, EndSession, UpdatesTyped
<1>2. <<>> \in Seq(WireCells)
  OBVIOUS
<1> QED
  BY <1>1, <1>2 DEF Throw, EndSession, UpdatesTyped

QueueTyped ==
  /\ rQ' \in Seq(WireCells) /\ net' \in Seq(WireCells) /\ misread' \in BOOLEAN
  /\ leftover' \in Leftovers

(* A rectangle that goes on keeps the types. *)
LEMMA KeepTyped ==
  ASSUME UpdatesTyped, NEW s, Keep(s), dec' \in Decs, QueueTyped
  PROVE  UpdatesTyped'
<1>1. run' \in {"idle", "loop"}
  BY ReturnTyped DEF Keep, UpdatesTyped
<1> QED
  BY <1>1 DEF Keep, Updating, QueueTyped, UpdatesTyped

(* So does one that is complete. *)
LEMMA CompleteTyped ==
  ASSUME UpdatesTyped, fbu.rects > 0, NEW s, NEW last \in BOOLEAN, Complete(s, last),
         dec' \in Decs, QueueTyped
  PROVE  UpdatesTyped'
<1>1. run' \in {"idle", "loop"}
  BY ReturnTyped DEF Complete, UpdatesTyped
<1> DEFINE n == IF last THEN 0 ELSE fbu.rects - 1
<1>2. n \in 0 .. Many
  BY DEF UpdatesTyped, Fbus, Many
<1>3. fbu' = [fbu EXCEPT !.rects = n, !.encoding = "null"]
  BY DEF Complete
<1> HIDE DEF n
<1>4. fbu' \in Fbus
  <2>0. "null" \in Strings
    BY DEF Strings
  <2>1. fbu \in Fbus
    BY DEF UpdatesTyped
  <2>2. fbu' = [rects |-> n, encoding |-> "null", area |-> fbu.area]
    BY <1>3, <2>1 DEF Fbus
  <2> QED
    BY <1>2, <2>0, <2>1, <2>2 DEF Fbus
<1>5. asked' \in BOOLEAN
  <2>1. asked' = asked \/ asked' = (asked \/ ~cu.on)
    BY Zenon DEF Complete, Finished, Request
  <2> QED
    BY <2>1, Zenon DEF UpdatesTyped
<1> QED
  BY <1>1, <1>4, <1>5 DEF Complete, Updating, QueueTyped, UpdatesTyped

(* Each message.                                                           *)
LEMMA MessagesTyped == UpdatesTyped /\ Messages => UpdatesTyped'
<1> SUFFICES ASSUME UpdatesTyped, Messages PROVE UpdatesTyped'
  OBVIOUS
<1>1. \A a, b, c, d : /\ Len(<<a>>) \in Nat /\ Len(<<a, b>>) \in Nat
                       /\ Len(<<a, b, c>>) \in Nat /\ Len(<<a, b, c, d>>) \in Nat
  OBVIOUS
<1>2. ASSUME cu' = cu PROVE cu' \in [on : BOOLEAN, offered : BOOLEAN]
  BY <1>2 DEF UpdatesTyped
<1>3. ASSUME leftover' = leftover PROVE leftover' \in Leftovers
  BY <1>3 DEF UpdatesTyped
<1>4. CASE Bell
  BY <1>1, <1>2, <1>3, <1>4, HandledTyped DEF Bell
<1>5. CASE SetColourMap
  BY <1>1, <1>5, RejectTyped DEF SetColourMap
<1>6. CASE UnknownType
  BY <1>1, <1>2, <1>3, <1>6, HandledTyped, RejectTyped DEF UnknownType
<1>7. CASE ServerCutText
  <2>1. "provide" \in Leftovers
    BY DEF Leftovers
  <2> QED
    BY <1>1, <1>2, <1>3, <1>7, <2>1, HandledTyped, RejectTyped DEF ServerCutText
<1>8. CASE EndOfContinuousUpdates
  <2>1. cu' \in [on : BOOLEAN, offered : BOOLEAN]
    <3>1. (~cu.offered) \in BOOLEAN
      OBVIOUS
    <3> QED
      BY <1>8, <3>1 DEF EndOfContinuousUpdates
  <2> QED
    BY <1>1, <1>3, <1>8, <2>1, HandledTyped DEF EndOfContinuousUpdates
<1>9. CASE ServerFence
  <2>1. "fence" \in Leftovers
    BY DEF Leftovers
  <2> QED
    BY <1>1, <1>2, <1>3, <1>9, <2>1, HandledTyped, RejectTyped DEF ServerFence
<1>10. CASE Xvp
  BY <1>1, <1>2, <1>3, <1>10, HandledTyped, RejectTyped DEF Xvp
<1> QED
  BY <1>4, <1>5, <1>6, <1>7, <1>8, <1>9, <1>10 DEF Messages

(* What a decoder reads is strings of the server, and numbers it counts.   *)
LEMMA NumTyped == \A val : Num(val) \in 0 .. Many
BY DEF Num, Many

(* A rectangle, its header first.                                          *)
LEMMA RectHeaderTyped == UpdatesTyped /\ RectHeader => UpdatesTyped'
<1> SUFFICES ASSUME UpdatesTyped, RectHeader PROVE UpdatesTyped'
  OBVIOUS
<1>1. Read(<<"area", "encoding">>) /\ Len(<<"area", "encoding">>) = 2
  BY DEF RectHeader
<1>2. /\ rQ' \in Seq(WireCells) /\ net' \in Seq(WireCells) /\ misread' \in BOOLEAN
      /\ \A i \in 1 .. 2 : rQ[i] \in WireCells
  BY <1>1, ReadTyped
<1>3. Num(rQ[1].val) \in 0 .. Many /\ rQ[2].val \in Strings
  BY <1>2, NumTyped DEF WireCells
<1>4. fbu' = [fbu EXCEPT !.area = Num(rQ[1].val), !.encoding = rQ[2].val] /\ fbu \in Fbus
  BY DEF RectHeader, UpdatesTyped
<1> DEFINE n == Num(rQ[1].val)
           e == rQ[2].val
<1>5. n \in 0 .. Many /\ e \in Strings /\ fbu' = [fbu EXCEPT !.area = n, !.encoding = e]
  BY <1>3, <1>4
<1> HIDE DEF n, e
<1>6. fbu' = [rects |-> fbu.rects, encoding |-> e, area |-> n]
  BY <1>4, <1>5 DEF Fbus
<1>7. fbu' \in Fbus
  BY <1>4, <1>5, <1>6 DEF Fbus
<1>8. run' \in {"idle", "loop"}
  BY ReturnTyped DEF RectHeader, UpdatesTyped
<1> QED
  BY <1>2, <1>7, <1>8 DEF RectHeader, Updating, UpdatesTyped

(* What remains of what a decoder keeps.                                   *)
LEMMA SkippedTyped ==
  UpdatesTyped => (dec' = dec => dec' \in Decs) /\ (leftover' = leftover => leftover' \in Leftovers)
                  /\ (NothingRead /\ leftover' \in Leftovers => QueueTyped)
BY DEF UpdatesTyped, NothingRead, QueueTyped

(* Each rectangle counts for one. *)
LEMMA DoneTyped ==
  ASSUME UpdatesTyped, fbu.rects > 0, NEW s, Done(s), dec' \in Decs, QueueTyped
  PROVE  UpdatesTyped'
BY CompleteTyped, FALSE \in BOOLEAN DEF Done

(* A read leaves a queue of cells. *)
LEMMA QueueOfRead ==
  ASSUME UpdatesTyped, NEW roles, Len(roles) \in Nat, Read(roles), leftover' \in Leftovers
  PROVE  QueueTyped
BY ReadTyped DEF QueueTyped

(* The rectangles that draw nothing keep the types. *)
LEMMA PseudoTyped == UpdatesTyped /\ PseudoRect => UpdatesTyped'
<1> SUFFICES ASSUME UpdatesTyped, PseudoRect PROVE UpdatesTyped'
  OBVIOUS
<1>1. \A a, b : Len(<<a>>) \in Nat /\ Len(<<a, b>>) \in Nat
  OBVIOUS
<1>2. ASSUME NEW S, InRect(S) PROVE fbu.rects > 0
  BY <1>2 DEF InRect
<1>3. CASE LastRect
  <2>1. TRUE \in BOOLEAN
    OBVIOUS
  <2> QED
    BY <1>2, <1>3, <2>1, SkippedTyped, CompleteTyped, Zenon DEF LastRect, Skipped
<1>4. CASE QEMUExtendedKeyEvent
  BY <1>2, <1>4, SkippedTyped, DoneTyped, Zenon DEF QEMUExtendedKeyEvent, Skipped
<1>5. CASE DesktopSize
  BY <1>2, <1>5, SkippedTyped, DoneTyped, Zenon DEF DesktopSize, Skipped
<1>6. CASE ExtendedDesktopSize
  BY <1>1, <1>2, <1>6, SkippedTyped, QueueOfRead, DoneTyped, Zenon
     DEF ExtendedDesktopSize, Skipped
<1>7. CASE LedEvent
  BY <1>1, <1>2, <1>7, SkippedTyped, QueueOfRead, DoneTyped, Zenon DEF LedEvent, Skipped
<1>8. CASE DesktopName
  BY <1>1, <1>2, <1>8, SkippedTyped, QueueOfRead, DoneTyped, Zenon DEF DesktopName, Skipped
<1>9. CASE Cursor
  BY <1>1, <1>2, <1>9, SkippedTyped, QueueOfRead, DoneTyped, Zenon DEF Cursor, Skipped
<1>10. CASE VMwareCursor
  <2>1. CASE Read(<<"vmHead", "vmCursor">>) /\ Done(screen) /\ UNCHANGED leftover
    BY <1>1, <1>2, <1>10, <2>1, SkippedTyped, QueueOfRead, DoneTyped, Zenon DEF VMwareCursor
  <2>2. CASE Read(<<"vmHead">>) /\ leftover' = "cursor" /\ run' = "idle"
             /\ UNCHANGED <<fbu, flushing, screen, asked>> /\ Updating
    <3>1. UNCHANGED dec
      BY <1>10, Zenon DEF VMwareCursor
    <3>2. leftover' \in Leftovers
      BY <2>2 DEF Leftovers
    <3>3. QueueTyped
      BY <1>1, <2>2, <3>2, QueueOfRead, Zenon
    <3> QED
      BY <2>2, <3>1, <3>3 DEF Updating, QueueTyped, UpdatesTyped
  <2> QED
    BY <1>10, <2>1, <2>2, Zenon DEF VMwareCursor
<1> QED
  BY <1>3, <1>4, <1>5, <1>6, <1>7, <1>8, <1>9, <1>10, Zenon DEF PseudoRect

(* A decoder that changes one of its fields is still one. *)
LEMMA DecsChange ==
  ASSUME NEW d \in Decs
  PROVE  /\ \A n \in Nat : /\ [d EXCEPT !.lines = n] \in Decs
                           /\ [d EXCEPT !.subrects = n] \in Decs
                           /\ [d EXCEPT !.tiles = n] \in Decs
         /\ \A w \in Strings : /\ [d EXCEPT !.ctl = w] \in Decs
                               /\ [d EXCEPT !.filter = w] \in Decs
         /\ \A b \in BOOLEAN : /\ [d EXCEPT !.colours = b] \in Decs
                               /\ [d EXCEPT !.len = b] \in Decs
                               /\ [d EXCEPT !.zlen = b] \in Decs
         /\ \A S \in SUBSET Strings : [d EXCEPT !.segments = S] \in Decs
<1>1. ASSUME NEW n \in Nat
      PROVE  /\ [d EXCEPT !.lines = n] \in Decs
             /\ [d EXCEPT !.subrects = n] \in Decs
             /\ [d EXCEPT !.tiles = n] \in Decs
  BY DEF Decs
<1>2. ASSUME NEW w \in Strings
      PROVE  [d EXCEPT !.ctl = w] \in Decs /\ [d EXCEPT !.filter = w] \in Decs
  BY DEF Decs
<1>3. ASSUME NEW b \in BOOLEAN
      PROVE  /\ [d EXCEPT !.colours = b] \in Decs
             /\ [d EXCEPT !.len = b] \in Decs
             /\ [d EXCEPT !.zlen = b] \in Decs
  BY DEF Decs
<1>4. ASSUME NEW S \in SUBSET Strings PROVE [d EXCEPT !.segments = S] \in Decs
  BY DEF Decs
<1> QED
  BY <1>1, <1>2, <1>3, <1>4, Zenon

(* The decoder of Tight as it is after a rectangle. *)
LEMMA TightDoneTyped ==
  ASSUME NEW d \in Decs
  PROVE  /\ TightDone(d) \in Decs
         /\ [TightDone(d) EXCEPT !.colours = d.colours] \in Decs
         /\ [d EXCEPT !.len = FALSE, !.ctl = "null"] \in Decs
<1>1. "null" \in Strings /\ FALSE \in BOOLEAN
  BY DEF Strings
<1>2. [d EXCEPT !.len = FALSE, !.ctl = "null"] \in Decs
  BY <1>1 DEF Decs
<1>3. TightDone(d) \in Decs
  BY <1>1 DEF Decs, TightDone
<1>4. d.colours \in BOOLEAN
  BY DEF Decs
<1> QED
  BY <1>2, <1>3, <1>4, DecsChange

(* Each decoder.                                                           *)
LEMMA RawTyped == UpdatesTyped /\ Raw => UpdatesTyped'
<1> SUFFICES ASSUME UpdatesTyped, Raw PROVE UpdatesTyped'
  OBVIOUS
<1>1. fbu.rects > 0 /\ leftover' \in Leftovers /\ dec \in Decs /\ dec.lines \in Nat /\ fbu.area \in Nat
  BY DEF Raw, InRect, UpdatesTyped, Decs, Fbus, Many
<1>2. CASE Done(screen) /\ UNCHANGED <<dec, net, rQ, misread>>
  BY <1>1, <1>2, SkippedTyped, DoneTyped DEF NothingRead
<1>3. CASE /\ fbu.area > 0 /\ Read(<<"line">>)
           /\ LET lines == IF dec.lines = 0 THEN fbu.area ELSE dec.lines IN
              /\ dec' = [dec EXCEPT !.lines = lines - 1]
              /\ IF lines = 1 THEN Done(Paint) ELSE Keep(Paint)
  <2>1. QueueTyped
    BY <1>1, <1>3, Len(<<"line">>) \in Nat, QueueOfRead, Zenon
  <2> DEFINE n == (IF dec.lines = 0 THEN fbu.area ELSE dec.lines) - 1
  <2>2. n \in Nat
    BY <1>1, <1>3
  <2>3. dec' = [dec EXCEPT !.lines = n] /\ (Done(Paint) \/ Keep(Paint))
    BY <1>3
  <2> HIDE DEF n
  <2>4. dec' \in Decs
    BY <1>1, <2>2, <2>3, DecsChange
  <2> QED
    BY <1>1, <2>1, <2>3, <2>4, DoneTyped, KeepTyped, Zenon
<1> QED
  BY <1>2, <1>3, Zenon DEF Raw

(* Each decoder keeps the types: CopyRect, *)
LEMMA CopyRectTyped == UpdatesTyped /\ CopyRect => UpdatesTyped'
<1> SUFFICES ASSUME UpdatesTyped, CopyRect PROVE UpdatesTyped'
  OBVIOUS
<1>1. fbu.rects > 0 /\ leftover' \in Leftovers /\ dec' \in Decs
  BY DEF CopyRect, InRect, UpdatesTyped
<1>2. QueueTyped
  BY <1>1, Len(<<"source">>) \in Nat, QueueOfRead, Zenon DEF CopyRect
<1> QED
  BY <1>1, <1>2, DoneTyped, Zenon DEF CopyRect

(* RRE, *)
LEMMA RRETyped == UpdatesTyped /\ RRE => UpdatesTyped'
<1> SUFFICES ASSUME UpdatesTyped, RRE PROVE UpdatesTyped'
  OBVIOUS
<1>1. fbu.rects > 0 /\ leftover' \in Leftovers /\ dec \in Decs /\ dec.subrects \in Nat
  BY DEF RRE, InRect, UpdatesTyped, Decs
<1> DEFINE n == IF dec.subrects = 0 THEN Num(rQ[1].val) ELSE dec.subrects - 1
<1>2. n \in Nat
  BY <1>1, NumTyped DEF Many
<1>3. QueueTyped
  <2>1. Len(<<"rreHead">>) \in Nat /\ Len(<<"subrect">>) \in Nat
    OBVIOUS
  <2>2. Read(<<"rreHead">>) \/ Read(<<"subrect">>)
    BY DEF RRE
  <2> QED
    BY <1>1, <2>1, <2>2, QueueOfRead, Zenon
<1>4. dec' = [dec EXCEPT !.subrects = n] /\ (Done(Paint) \/ Keep(Paint))
  BY DEF RRE
<1> HIDE DEF n
<1>5. dec' \in Decs
  BY <1>1, <1>2, <1>4, DecsChange
<1> QED
  BY <1>1, <1>3, <1>4, <1>5, DoneTyped, KeepTyped, Zenon

(* Hextile, *)
LEMMA HextileTyped == UpdatesTyped /\ Hextile => UpdatesTyped'
<1> SUFFICES ASSUME UpdatesTyped, Hextile PROVE UpdatesTyped'
  OBVIOUS
<1>1. fbu.rects > 0 /\ leftover' \in Leftovers /\ dec \in Decs /\ dec.tiles \in Nat /\ fbu.area \in Nat
  BY DEF Hextile, InRect, UpdatesTyped, Decs, Fbus, Many
<1>2. CASE Done(screen) /\ UNCHANGED <<dec, net, rQ, misread>>
  BY <1>1, <1>2, SkippedTyped, DoneTyped DEF NothingRead
<1>3. CASE /\ Has(1) /\ (fbu.area > 0 \/ dec.tiles > 0)
           /\ rQ[1].val # "bad" /\ Read(Tile(rQ[1].val))
           /\ LET tiles == IF dec.tiles = 0 THEN fbu.area ELSE dec.tiles IN
              /\ dec' = [dec EXCEPT !.tiles = tiles - 1]
              /\ \E s \in (IF rQ[1].val = "blank" THEN {screen, Paint} ELSE {Paint}) :
                   IF tiles = 1 THEN Done(s) ELSE Keep(s)
  <2>1. QueueTyped
    <3>1. \A w : Len(Tile(w)) \in Nat
      <4>1. \A a, b, c : Len(<<a>>) \in Nat /\ Len(<<a, b>>) \in Nat /\ Len(<<a, b, c>>) \in Nat
        OBVIOUS
      <4>2. \A w : \/ Tile(w) = <<"subencoding", "tile">>
                   \/ Tile(w) = <<"subencoding", "nsubrects", "tile">>
                   \/ Tile(w) = <<"subencoding">>
        BY DEF Tile
      <4> QED
        BY <4>1, <4>2, Zenon
    <3> QED
      BY <1>1, <1>3, <3>1, QueueOfRead, Zenon
  <2> DEFINE n == (IF dec.tiles = 0 THEN fbu.area ELSE dec.tiles) - 1
  <2>2. n \in Nat
    BY <1>1, <1>3
  <2>3. dec' = [dec EXCEPT !.tiles = n] /\ \E s : Done(s) \/ Keep(s)
    BY <1>3
  <2> HIDE DEF n
  <2>4. dec' \in Decs
    BY <1>1, <2>2, <2>3, DecsChange
  <2> QED
    BY <1>1, <2>1, <2>3, <2>4, DoneTyped, KeepTyped, Zenon
<1> QED
  BY <1>2, <1>3, Zenon DEF Hextile

(* the length of compressed data, *)
LEMMA ReadLengthTyped ==
  ASSUME UpdatesTyped, ReadLength
  PROVE  UpdatesTyped'
<1>1. dec \in Decs /\ leftover' \in Leftovers /\ TRUE \in BOOLEAN
  BY DEF UpdatesTyped, ReadLength
<1>2. dec' \in Decs
  BY <1>1, DecsChange DEF ReadLength
<1>3. QueueTyped
  BY <1>1, Len(<<"len">>) \in Nat, QueueOfRead, Zenon DEF ReadLength
<1> QED
  BY <1>2, <1>3, KeepTyped, Zenon DEF ReadLength

(* the handlers of Tight, *)
LEMMA TightTyped ==
  ASSUME UpdatesTyped,
         \/ TightControl \/ TightFill \/ TightImage
         \/ TightFilter \/ TightPalette \/ TightPixels
  PROVE  UpdatesTyped'
<1>1. /\ "null" \in Strings /\ "copyFilter" \in Strings
      /\ FALSE \in BOOLEAN /\ TRUE \in BOOLEAN /\ dec \in Decs
  BY DEF Strings, UpdatesTyped
<1>2. ASSUME leftover' = leftover PROVE leftover' \in Leftovers
  BY <1>2 DEF UpdatesTyped
<1>3. \A a : Len(<<a>>) = 1
  OBVIOUS
<1>4. ASSUME NEW a, Read(<<a>>) PROVE rQ[1].val \in Strings
  <2>1. \A i \in 1 .. 1 : rQ[i] \in WireCells
    BY <1>3, <1>4, ReadTyped
  <2>2. rQ[1] \in WireCells
    BY <2>1
  <2> QED
    BY <2>2 DEF WireCells
<1>5. ASSUME NEW a, Read(<<a>>), leftover' = leftover PROVE QueueTyped
  <2>1. Len(<<a>>) \in Nat
    OBVIOUS
  <2> QED
    BY <1>2, <1>5, <2>1, QueueOfRead, Zenon
<1>6. ASSUME NEW S, InRect(S) PROVE fbu.rects > 0
  BY <1>6 DEF InRect
<1>7. CASE TightControl
  <2>1. dec' \in Decs
    BY <1>1, <1>4, <1>7, DecsChange, Zenon DEF TightControl
  <2> QED
    BY <1>5, <1>7, <2>1, KeepTyped, Zenon DEF TightControl
<1>8. CASE TightFill
  <2>1. dec' \in Decs
    BY <1>1, <1>8, DecsChange, Zenon DEF TightFill
  <2> QED
    BY <1>5, <1>6, <1>8, <2>1, DoneTyped, Zenon DEF TightFill
<1>9. CASE TightImage
  <2>1. CASE ReadLength
    BY <2>1, ReadLengthTyped
  <2>2. CASE /\ dec.len /\ Read(<<"data">>)
             /\ dec' = [dec EXCEPT !.len = FALSE, !.ctl = "null"]
             /\ \E s \in (IF fbu.area = 0 THEN {screen} ELSE PaintImage) : Done(s)
             /\ UNCHANGED leftover
    <3>1. dec' \in Decs
      BY <1>1, <2>2, TightDoneTyped
    <3>2. fbu.rects > 0
      BY <1>6, <1>9, Zenon DEF TightImage
    <3> QED
      BY <1>5, <2>2, <3>1, <3>2, DoneTyped, Zenon
  <2> QED
    BY <1>9, <2>1, <2>2, Zenon DEF TightImage
<1>10. CASE TightFilter
  <2>1. CASE Read(<<"filter">>) /\ dec' = [dec EXCEPT !.filter = rQ[1].val]
    <3>1. dec' \in Decs
      BY <1>1, <1>4, <2>1, DecsChange, Zenon
    <3> QED
      BY <1>5, <1>10, <2>1, <3>1, KeepTyped, Zenon DEF TightFilter
  <2>2. CASE dec' = [dec EXCEPT !.filter = "copyFilter"] /\ UNCHANGED <<net, rQ, misread>>
    <3>1. dec' \in Decs
      BY <1>1, <2>2, DecsChange, Zenon
    <3>2. QueueTyped
      BY <1>2, <1>10, <2>2, SkippedTyped, Zenon DEF NothingRead, TightFilter
    <3> QED
      BY <1>10, <3>1, <3>2, KeepTyped, Zenon DEF TightFilter
  <2> QED
    BY <1>10, <2>1, <2>2, Zenon DEF TightFilter
<1>11. CASE TightPalette
  <2>1. dec' \in Decs
    BY <1>1, <1>11, DecsChange, Zenon DEF TightPalette
  <2> QED
    BY <1>5, <1>11, <2>1, KeepTyped, Zenon DEF TightPalette
<1>12. CASE TightPixels
  <2>0. fbu.rects > 0
    BY <1>6, <1>12, Zenon DEF TightPixels, Basic
  <2>1. CASE /\ dec' = [TightDone(dec) EXCEPT !.colours = dec.colours]
             /\ leftover' = IF dec.colours THEN "palette" ELSE leftover
             /\ Done(screen) /\ UNCHANGED <<net, rQ, misread>>
    <3>1. dec' \in Decs
      BY <1>1, <2>1, TightDoneTyped
    <3>2. leftover' \in Leftovers
      BY <2>1 DEF UpdatesTyped, Leftovers
    <3>3. QueueTyped
      BY <2>1, <3>2, SkippedTyped, Zenon DEF NothingRead
    <3> QED
      BY <2>0, <2>1, <3>1, <3>3, DoneTyped, Zenon
  <2>2. CASE \E a : /\ Read(<<a>>) /\ dec' = TightDone(dec)
                    /\ Done(Paint) /\ UNCHANGED leftover
    <3>1. dec' \in Decs
      BY <1>1, <2>2, TightDoneTyped
    <3> QED
      BY <1>5, <2>0, <2>2, <3>1, DoneTyped, Zenon
  <2>3. CASE ReadLength
    BY <2>3, ReadLengthTyped
  <2> QED
    BY <1>12, <2>1, <2>2, <2>3, Zenon DEF TightPixels
<1> QED
  BY <1>7, <1>8, <1>9, <1>10, <1>11, <1>12

(* ZRLE, *)
LEMMA ZRLETyped == UpdatesTyped /\ ZRLE => UpdatesTyped'
<1> SUFFICES ASSUME UpdatesTyped, ZRLE PROVE UpdatesTyped'
  OBVIOUS
<1>1. /\ fbu.rects > 0 /\ leftover' \in Leftovers /\ dec \in Decs
      /\ FALSE \in BOOLEAN /\ TRUE \in BOOLEAN
  BY DEF ZRLE, InRect, UpdatesTyped
<1>2. \A a : Len(<<a>>) \in Nat
  OBVIOUS
<1>3. QueueTyped
  BY <1>1, <1>2, QueueOfRead, Zenon DEF ZRLE
<1>4. dec' \in Decs
  BY <1>1, DecsChange, Zenon DEF ZRLE
<1> QED
  BY <1>1, <1>3, <1>4, DoneTyped, KeepTyped, Zenon DEF ZRLE

(* JPEG. *)
LEMMA JPEGTyped == UpdatesTyped /\ (JPEGSegment \/ JPEGEnd) => UpdatesTyped'
<1> SUFFICES ASSUME UpdatesTyped, JPEGSegment \/ JPEGEnd PROVE UpdatesTyped'
  OBVIOUS
<1>1. fbu.rects > 0 /\ leftover' \in Leftovers /\ dec \in Decs /\ dec.segments \in SUBSET Strings
  BY DEF JPEGSegment, JPEGEnd, InRect, UpdatesTyped, Decs
<1>2. Len(<<"marker">>) = 1 /\ Len(<<"marker", "segment">>) = 2
  OBVIOUS
<1>3. CASE JPEGSegment
  <2>1. \A w : Segment(w) = <<"marker">> \/ Segment(w) = <<"marker", "segment">>
    BY DEF Segment
  <2>2. Len(Segment(rQ[1].val)) \in Nat /\ 1 \in 1 .. Len(Segment(rQ[1].val))
    BY <1>2, <2>1
  <2>3. QueueTyped
    BY <1>1, <1>3, <2>2, QueueOfRead, Zenon DEF JPEGSegment
  <2>4. rQ[1] \in WireCells
    BY <1>3, <2>2, ReadTyped, Zenon DEF JPEGSegment
  <2>5. rQ[1].val \in Strings
    BY <2>4 DEF WireCells
  <2>6. (dec.segments \union {rQ[1].val}) \in SUBSET Strings
    BY <1>1, <2>5
  <2>7. dec' = [dec EXCEPT !.segments = dec.segments \union {rQ[1].val}]
    BY <1>3 DEF JPEGSegment
  <2>8. dec' \in Decs
    BY <1>1, <2>6, <2>7, DecsChange, Zenon
  <2> QED
    BY <1>3, <2>3, <2>8, KeepTyped, Zenon DEF JPEGSegment
<1>4. CASE JPEGEnd
  <2>1. QueueTyped
    BY <1>1, <1>2, <1>4, QueueOfRead DEF JPEGEnd
  <2>2. dec' \in Decs
    BY <1>1, <1>4, {} \in SUBSET Strings, DecsChange, Zenon DEF JPEGEnd
  <2> QED
    BY <1>1, <1>4, <2>1, <2>2, DoneTyped, Zenon DEF JPEGEnd
<1> QED
  BY <1>3, <1>4

(* An exception reads nothing more, or the data it comes from.             *)
LEMMA ThrowsTyped ==
  ASSUME UpdatesTyped,
         UnknownEncoding \/ HextileThrows \/ TightThrows \/ JPEGThrows \/ ZRLEThrows
  PROVE  UpdatesTyped'
<1>1. CASE UnknownEncoding \/ HextileThrows \/ TightThrows \/ JPEGThrows
  BY <1>1, ThrowTyped, Zenon DEF UnknownEncoding, HextileThrows, TightThrows, JPEGThrows
<1>2. CASE ZRLEThrows
  <2>1. rQ \in Seq(WireCells) /\ rQ # <<>> /\ rQ' = Tail(rQ)
    BY <1>2 DEF ZRLEThrows, Has, UpdatesTyped
  <2>2. rQ' \in Seq(WireCells) /\ <<>> \in Seq(WireCells)
    BY <2>1
  <2>3. run' \in {"idle", "loop"}
    BY <1>2, ReturnTyped DEF ZRLEThrows, EndSession, UpdatesTyped
  <2> QED
    BY <1>2, <2>2, <2>3 DEF ZRLEThrows, EndSession, UpdatesTyped
<1> QED
  BY <1>1, <1>2

(* Whatever the server writes, each decoder keeps the types.               *)
LEMMA RectsTyped == UpdatesTyped /\ Rects => UpdatesTyped'
BY RectHeaderTyped, PseudoTyped, RawTyped, CopyRectTyped, RRETyped, HextileTyped, TightTyped,
   ZRLETyped, JPEGTyped, ThrowsTyped, Zenon DEF Rects

(* The head of an update keeps the types. *)
LEMMA UpdateTyped == UpdatesTyped /\ FramebufferUpdate => UpdatesTyped'
<1> SUFFICES ASSUME UpdatesTyped, FramebufferUpdate PROVE UpdatesTyped'
  OBVIOUS
<1>1. /\ rQ' \in Seq(WireCells) /\ net' \in Seq(WireCells) /\ misread' \in BOOLEAN
  BY Len(<<"type", "header">>) \in Nat, ReadTyped, Zenon DEF FramebufferUpdate
<1>2. fbu' \in Fbus
  <2>1. Num(rQ[2].val) \in 0 .. Many /\ fbu \in Fbus
    BY NumTyped DEF UpdatesTyped
  <2>2. fbu' = [fbu EXCEPT !.rects = Num(rQ[2].val)]
    BY DEF FramebufferUpdate
  <2> QED
    BY <2>1, <2>2 DEF Fbus
<1>3. run' \in {"idle", "loop"} /\ flushing' \in BOOLEAN
  BY ReturnTyped DEF FramebufferUpdate, UpdatesTyped
<1>4. leftover' \in Leftovers
  BY DEF FramebufferUpdate, UpdatesTyped, Leftovers
<1>5. asked' \in BOOLEAN
  <2>1. asked' = asked \/ asked' = (asked \/ ~cu.on)
    BY Zenon DEF FramebufferUpdate, Finished, Request
  <2> QED
    BY <2>1, Zenon DEF UpdatesTyped
<1> QED
  BY <1>1, <1>2, <1>3, <1>4, <1>5 DEF FramebufferUpdate, Updating, UpdatesTyped

(* The events around the handlers.                                         *)
LEMMA ReceiveTyped == UpdatesTyped /\ MessageEvent => UpdatesTyped'
<1> SUFFICES ASSUME UpdatesTyped, MessageEvent PROVE UpdatesTyped'
  OBVIOUS
<1>1. PICK n \in 1 .. Len(net) : /\ rQ' = rQ \o SubSeq(net, 1, n)
                                 /\ net' = SubSeq(net, n + 1, Len(net))
  BY DEF MessageEvent, Receive
<1>2. rQ \in Seq(WireCells) /\ net \in Seq(WireCells) /\ Len(net) \in Nat
  BY DEF UpdatesTyped
<1>3. \A i \in 1 .. Len(net) : net[i] \in WireCells
  BY <1>2
<1>4. SubSeq(net, 1, n) \in Seq(WireCells) /\ SubSeq(net, n + 1, Len(net)) \in Seq(WireCells)
  BY <1>2, <1>3
<1>5. rQ' \in Seq(WireCells) /\ net' \in Seq(WireCells)
  BY <1>1, <1>2, <1>4
<1> QED
  BY <1>5 DEF MessageEvent, Receive, UpdatesTyped

(* A handler that waits keeps the types. *)
LEMMA WaitTyped == UpdatesTyped /\ (WaitForMore \/ Blocked) => UpdatesTyped'
BY DEF UpdatesTyped, WaitForMore, Await, PutBack, Blocked

(* So do the images of the render queue. *)
LEMMA ImagesTyped == UpdatesTyped /\ (ImageLoads \/ ImageBreaks) => UpdatesTyped'
<1> SUFFICES ASSUME UpdatesTyped, ImageLoads \/ ImageBreaks PROVE UpdatesTyped'
  OBVIOUS
<1>1. CASE ImageBreaks
  BY <1>1 DEF ImageBreaks, streamVars, UpdatesTyped
<1>2. CASE ImageLoads
  <2>1. PICK s : Resumed(s)
    BY <1>2, Zenon DEF ImageLoads
  <2>2. flushing' \in BOOLEAN /\ run' \in {"idle", "loop"}
    BY <2>1 DEF Resumed, UpdatesTyped
  <2> QED
    BY <1>2, <2>2 DEF ImageLoads, UpdatesTyped
<1> QED
  BY <1>1, <1>2

(* A sequence over a set is one over any larger set. *)
LEMMA WiderSeq ==
  ASSUME NEW S, NEW T, S \subseteq T, NEW s \in Seq(S)
  PROVE  s \in Seq(T)
OBVIOUS

(* The server writes cells.                                                *)
LEMMA ServerTyped == UpdatesTyped /\ (ServerUpdate \/ ServerRect \/ ServerNote) => UpdatesTyped'
<1> SUFFICES ASSUME UpdatesTyped, ServerUpdate \/ ServerRect \/ ServerNote PROVE UpdatesTyped'
  OBVIOUS
<1>0. net \in Seq(WireCells) /\ \A s \in Seq(WireCells) : net \o s \in Seq(WireCells)
  BY DEF UpdatesTyped
<1>1. CASE ServerUpdate
  <2>1. PICK n \in {"0", "1", "2", "many"} :
          net' = net \o <<Cell("type", "fbu"), Cell("header", n)>> /\ owed' = Num(n)
    BY <1>1 DEF ServerUpdate
  <2>2. Cell("type", "fbu") \in WireCells /\ Cell("header", n) \in WireCells
    BY DEF Cell, WireCells, Strings
  <2>3. <<Cell("type", "fbu"), Cell("header", n)>> \in Seq(WireCells)
    BY <2>2
  <2>4. net' \in Seq(WireCells) /\ owed' \in 0 .. Many
    BY <1>0, <2>1, <2>3, NumTyped
  <2>5. asked' = FALSE /\ FALSE \in BOOLEAN
    BY <1>1 DEF ServerUpdate
  <2>6. asked' \in BOOLEAN
    BY <2>5, Zenon
  <2> QED
    BY <1>1, <2>4, <2>6 DEF ServerUpdate, UpdatesTyped
<1>2. CASE ServerRect
  <2>1. PICK area \in {"0", "1", "2"}, encoding \in Strings, body \in Seq(WireCells) :
          net' = net \o Rect(area, encoding, body)
    <3>1. CASE \E encoding \in DOMAIN Bodies : \E body \in Bodies[encoding] :
                 net' = net \o Rect(body[1], encoding, body[2])
      <4>1. PICK encoding \in DOMAIN Bodies : \E body \in Bodies[encoding] :
                 net' = net \o Rect(body[1], encoding, body[2])
        BY <3>1
      <4>2. PICK body \in Bodies[encoding] : net' = net \o Rect(body[1], encoding, body[2])
        BY <4>1
      <4>3. /\ Expects(At("area", 0, 1), Cell("area", body[1])) /\ encoding \in STRING
            /\ body[2] \in Seq([role : STRING, val : STRING])
        BY BodiesAssumption, Zenon
      <4>4. body[1] \in {"0", "1", "2"}
        BY <4>3 DEF Expects, Values, Listed, Cell, At
      <4>5. [role : STRING, val : STRING] \subseteq WireCells
        BY DEF WireCells, Strings
      <4>6. body[2] \in Seq(WireCells)
        <5> DEFINE b == body[2]
        <5>1. b \in Seq([role : STRING, val : STRING])
          BY <4>3
        <5> HIDE DEF b
        <5>2. b \in Seq(WireCells)
          BY <4>5, <5>1, WiderSeq, Zenon
        <5> QED
          BY <5>2 DEF b
      <4>7. encoding \in Strings
        BY <4>3 DEF Strings
      <4> QED
        BY <4>2, <4>4, <4>6, <4>7
    <3>2. CASE net' = net \o Rect("0", "last", <<>>)
      <4>1. "last" \in Strings /\ <<>> \in Seq(WireCells) /\ "0" \in {"0", "1", "2"}
        BY DEF Strings
      <4> QED
        BY <3>2, <4>1
    <3> QED
      BY <1>2, <3>1, <3>2 DEF ServerRect
  <2>2. Cell("area", area) \in WireCells /\ Cell("encoding", encoding) \in WireCells
    BY DEF Cell, WireCells, Strings
  <2>3. Rect(area, encoding, body) \in Seq(WireCells)
    <3>1. <<Cell("area", area), Cell("encoding", encoding)>> \in Seq(WireCells)
      BY <2>2
    <3> QED
      BY <3>1 DEF Rect
  <2>4. net' \in Seq(WireCells)
    BY <1>0, <2>1, <2>3
  <2>5. owed' \in 0 .. Many
    BY <1>2 DEF ServerRect, Many, UpdatesTyped
  <2> QED
    BY <1>2, <2>4, <2>5 DEF ServerRect, UpdatesTyped
<1>3. CASE ServerNote
  <2>1. PICK note \in Notes : net' = net \o note
    BY <1>3 DEF ServerNote
  <2>2. note \in Seq([role : STRING, val : STRING])
    BY NotesAssumption
  <2>3. [role : STRING, val : STRING] \subseteq WireCells
    BY DEF WireCells, Strings
  <2>4. note \in Seq(WireCells)
    BY <2>2, <2>3, WiderSeq, Zenon
  <2>5. net' \in Seq(WireCells)
    BY <1>0, <2>1, <2>4
  <2> QED
    BY <1>3, <2>5 DEF ServerNote, UpdatesTyped
<1> QED
  BY <1>1, <1>2, <1>3

(* Every step keeps the types. *)
LEMMA TypesKept == UpdatesTyped /\ [UpdatesNext]_updatesVars => UpdatesTyped'
<1> SUFFICES ASSUME UpdatesTyped, [UpdatesNext]_updatesVars PROVE UpdatesTyped'
  OBVIOUS
<1>1. CASE UNCHANGED updatesVars
  BY <1>1 DEF updatesVars, streamVars, UpdatesTyped
<1>2. CASE UpdatesNext
  BY <1>2, MessagesTyped, RectsTyped, UpdateTyped, ReceiveTyped, WaitTyped, ImagesTyped, ServerTyped,
     Zenon DEF UpdatesNext
<1> QED
  BY <1>1, <1>2

(* At the start they hold. *)
LEMMA TypesStart == UpdatesInit => UpdatesTyped
<1> SUFFICES ASSUME UpdatesInit PROVE UpdatesTyped
  OBVIOUS
<1>1. <<>> \in Seq(WireCells) /\ "null" \in Strings /\ 0 \in 0 .. Many
  BY DEF Strings, Many
<1>2. fbu \in Fbus /\ dec \in Decs
  BY <1>1 DEF UpdatesInit, Fresh, Fbus, Decs
<1> QED
  BY <1>1, <1>2 DEF UpdatesInit, StreamInit, UpdatesTyped, Leftovers

(* What is typed for the proofs has the types that the run checks. *)
LEMMA UpdatesAreTyped == UpdatesTyped => UpdatesTypeOK
<1>1. dec \in Decs => DOMAIN dec = DOMAIN Fresh
  BY DEF Decs, Fresh
<1> QED
  BY <1>1 DEF UpdatesTyped, Fbus, Leftovers, UpdatesTypeOK

(* For every server, the state of a connected session has its type. *)
THEOREM UpdatesTypes == UpdatesSpec => []UpdatesTypeOK
BY UpdatesAreTyped, TypesStart, TypesKept, PTL DEF UpdatesSpec

-----------------------------------------------------------------------------
(***************************************************************************)
(* Where a decoder stands in its rectangle, by what it remembers.          *)
(***************************************************************************)
TightPlace(f, d) ==
  CASE d.ctl = "null" -> Body(f.encoding, f.area, f.rects)
    [] d.ctl = "fill" -> At("pixel", 0, f.rects)
    [] d.ctl = "jpegRect" \/ (d.ctl = "pngRect" /\ f.encoding = "tightpng") ->
         At(IF d.len THEN "data" ELSE "len", 0, f.rects)
    [] d.ctl \in {"basic", "plain"} /\ f.encoding = "tight" ->
         CASE d.filter = "null" /\ d.ctl = "basic" -> At("filter", f.area, f.rects)
           [] d.filter = "paletteFilter" /\ ~d.colours -> At("palette", f.area, f.rects)
           [] d.filter = "badFilter" -> Lost
           [] OTHER -> IF d.len THEN At("data", 0, f.rects) ELSE TightData(f.area, f.rects)
    [] OTHER -> Lost

BodyPlace(f, d) ==
  CASE f.encoding = "raw" /\ d.lines > 0 -> At("line", d.lines, f.rects)
    [] f.encoding = "rre" /\ d.subrects > 0 -> At("subrect", d.subrects, f.rects)
    [] f.encoding = "hextile" /\ d.tiles > 0 -> At("subencoding", d.tiles, f.rects)
    [] f.encoding \in Tight -> TightPlace(f, d)
    [] f.encoding = "zrle" /\ d.zlen -> At("tiles", 0, f.rects)
    [] f.encoding = "jpeg" -> At("marker", IF "sof" \in d.segments THEN 1 ELSE 0, f.rects)
    [] OTHER -> Body(f.encoding, f.area, f.rects)

\* What the client reads next.
NextPlace(f, d) ==
  IF f.rects = 0 \/ f.encoding = "null" THEN Between(f.rects) ELSE BodyPlace(f, d)

Controls == {"null", "fill", "jpegRect", "pngRect", "basic", "plain", "badCtl"}
Filters == {"null", "copyFilter", "gradientFilter", "paletteFilter", "badFilter"}

\* A decoder remembers only what the rectangle in hand has brought.
Remembers(f, d) ==
  /\ d.ctl \in Controls /\ d.filter \in Filters
  /\ f.rects = 0 => f.encoding = "null"
  /\ d.lines > 0 => f.encoding = "raw" /\ f.area > 0
  /\ d.subrects > 0 => f.encoding = "rre"
  /\ d.tiles > 0 => f.encoding = "hextile" /\ f.area > 0
  /\ d.ctl # "null" => f.encoding \in Tight
  /\ d.filter # "null" => f.encoding = "tight" /\ d.ctl \in {"basic", "plain"}
  /\ d.filter \in {"paletteFilter", "gradientFilter"} => d.ctl = "basic"
  /\ d.colours => d.filter = "paletteFilter"
  /\ d.len => \/ d.ctl = "jpegRect" \/ (d.ctl = "pngRect" /\ f.encoding = "tightpng")
              \/ /\ f.area > 1 /\ d.filter \notin {"null", "badFilter"}
                 /\ d.filter = "paletteFilter" => d.colours
  /\ d.zlen => f.encoding = "zrle"
  /\ d.segments # {} => f.encoding = "jpeg"

\* What has come, and what is on its way.
Ahead == rQ \o net

\* The messages of a type in it.
Heads(type) == {i \in 1 .. Len(Ahead) : Ahead[i].role = "type" /\ Ahead[i].val = type}

\* A handler that has returned to an open session waits for more.
HasToWait ==
  run = "idle" /\ ~flushing =>
    ~Has(IF fbu.rects = 0 THEN NeededByMessage ELSE NeededByRect)

\* The next update is asked for, or comes, or is in hand.
NextDue == asked \/ cu.on \/ fbu.rects > 0 \/ Heads("fbu") # {}

\* The server offers continuous updates once, and the first offer is taken.
Offered ==
  /\ cu.on = cu.offered /\ (Heads("end") # {} => ~cu.offered)
  /\ \A i, j \in Heads("end") : i = j

Served == HasToWait /\ NextDue /\ Offered

Aligned ==
  /\ ~misread
  /\ alive \/ run = "loop" =>
       /\ Remembers(fbu, dec)
       /\ Leads(NextPlace(fbu, dec), Ahead, alive, owed)
       /\ flushing => fbu.encoding = "null"
  /\ alive => Served

UInv == UpdatesTyped /\ (~alive => net = <<>>) /\ (leftover = "none" => Aligned)

(* Two pieces of the stream in one. *)
LEMMA Concat ==
  ASSUME NEW s \in Seq(WireCells), NEW t \in Seq(WireCells)
  PROVE  /\ s \o t \in Seq(WireCells) /\ Len(s) \in Nat /\ Len(t) \in Nat
         /\ Len(s \o t) = Len(s) + Len(t)
         /\ \A i \in 1 .. Len(s) + Len(t) :
              (s \o t)[i] = IF i <= Len(s) THEN s[i] ELSE t[i - Len(s)]
OBVIOUS

(* The cells that come, after a read.                                      *)
LEMMA AheadRead ==
  ASSUME UpdatesTyped, NEW k \in Nat, Reads(k)
  PROVE  /\ Ahead' = SubSeq(rQ, k + 1, Len(rQ)) \o net
         /\ Len(Ahead) \in Nat /\ k <= Len(Ahead) /\ Len(Ahead') = Len(Ahead) - k
         /\ \A i \in 1 .. Len(Ahead) - k : Ahead'[i] = Ahead[i + k]
         /\ \A i \in 1 .. k : Ahead[i] = rQ[i]
<1>1. /\ rQ \in Seq(WireCells) /\ net \in Seq(WireCells)
      /\ k <= Len(rQ) /\ Len(rQ) \in Nat /\ Len(net) \in Nat
  BY DEF UpdatesTyped, Reads, Has
<1>2. Ahead' = SubSeq(rQ, k + 1, Len(rQ)) \o net
  BY DEF Ahead, Reads
<1> DEFINE r == SubSeq(rQ, k + 1, Len(rQ))
           m == Len(rQ)
<1>3. r \in Seq(WireCells) /\ Len(r) = m - k /\ \A i \in 1 .. m - k : r[i] = rQ[i + k]
  <2>1. \A i \in 1 .. m : rQ[i] \in WireCells
    BY <1>1
  <2> QED
    BY <1>1, <2>1
<1>4. /\ Len(Ahead) = m + Len(net)
      /\ \A i \in 1 .. m + Len(net) : Ahead[i] = IF i <= m THEN rQ[i] ELSE net[i - m]
  BY <1>1 DEF Ahead
<1> DEFINE l == Len(net)
           c == r \o net
<1>a. m \in Nat /\ k <= m /\ l \in Nat /\ l = Len(net) /\ m = Len(rQ)
  BY <1>1
<1> HIDE DEF r, m, l
<1>5. /\ Len(c) = m - k + l
      /\ \A i \in 1 .. m - k + l : c[i] = IF i <= m - k THEN r[i] ELSE net[i - (m - k)]
  <2>1. /\ Len(r \o net) = Len(r) + Len(net)
        /\ \A i \in 1 .. Len(r) + Len(net) :
             (r \o net)[i] = IF i <= Len(r) THEN r[i] ELSE net[i - Len(r)]
    BY <1>1, <1>3, Concat
  <2>2. /\ Len(c) = Len(r) + Len(net)
        /\ \A i \in 1 .. Len(r) + Len(net) : c[i] = IF i <= Len(r) THEN r[i] ELSE net[i - Len(r)]
    BY <2>1 DEF c
  <2>3. Len(r) = m - k /\ Len(net) = l
    BY <1>3, <1>a
  <2> QED
    BY <2>2, <2>3
<1>b. /\ Len(Ahead) = m + l
      /\ \A i \in 1 .. m + l : Ahead[i] = IF i <= m THEN rQ[i] ELSE net[i - m]
  BY <1>4, <1>a
<1> HIDE DEF c
<1>6. ASSUME NEW i \in 1 .. Len(Ahead) - k PROVE c[i] = Ahead[i + k]
  <2>1. /\ i \in 1 .. m - k + l /\ i + k \in 1 .. m + l
        /\ (i <= m - k <=> i + k <= m) /\ (i + k) - m = i - (m - k)
    BY <1>a, <1>b
  <2>2. i <= m - k => i \in 1 .. m - k
    BY <1>a
  <2> QED
    BY <1>3, <1>b, <1>5, <2>1, <2>2
<1>7. Ahead' = c
  BY <1>2 DEF r, c
<1>8. /\ Len(Ahead) \in Nat /\ k <= Len(Ahead) /\ Len(c) = Len(Ahead) - k
      /\ \A i \in 1 .. k : Ahead[i] = rQ[i]
  BY <1>a, <1>b, <1>5
<1> QED
  BY <1>2, <1>6, <1>7, <1>8

(* An update that is coming comes, unless it is read.                      *)
LEMMA DueAfterRead ==
  ASSUME UpdatesTyped, NEW k \in Nat, Reads(k), Heads("fbu") # {},
         \A i \in 1 .. k : ~(rQ[i].role = "type" /\ rQ[i].val = "fbu")
  PROVE  Heads("fbu")' # {}
<1>1. PICK i \in 1 .. Len(Ahead) : Ahead[i].role = "type" /\ Ahead[i].val = "fbu"
  BY DEF Heads
<1>2. /\ Len(Ahead) \in Nat /\ k <= Len(Ahead) /\ Len(Ahead') = Len(Ahead) - k
      /\ \A j \in 1 .. Len(Ahead) - k : Ahead'[j] = Ahead[j + k]
      /\ \A j \in 1 .. k : Ahead[j] = rQ[j]
  BY AheadRead
<1>3. i > k
  BY <1>1, <1>2
<1>4. i - k \in 1 .. Len(Ahead) - k /\ i - k + k = i
  BY <1>2, <1>3
<1>5. Ahead'[i - k] = Ahead[i] /\ i - k \in 1 .. Len(Ahead')
  BY <1>2, <1>4
<1>6. i - k \in Heads("fbu")'
  BY <1>1, <1>5 DEF Heads
<1> QED
  BY <1>6

(* What is offered once is offered once after a read.                      *)
LEMMA OffersAfterRead ==
  ASSUME UpdatesTyped, NEW k \in Nat, Reads(k)
  PROVE  \A i \in Heads("end")' : i + k \in Heads("end") /\ i \in Int
<1>1. /\ Len(Ahead) \in Nat /\ k <= Len(Ahead) /\ Len(Ahead') = Len(Ahead) - k
      /\ \A j \in 1 .. Len(Ahead) - k : Ahead'[j] = Ahead[j + k]
  BY AheadRead
<1> SUFFICES ASSUME NEW i \in Heads("end")' PROVE i + k \in Heads("end") /\ i \in Int
  OBVIOUS
<1>2. i \in 1 .. Len(Ahead') /\ Ahead'[i].role = "type" /\ Ahead'[i].val = "end"
  BY DEF Heads
<1>3. i \in 1 .. Len(Ahead) - k /\ i + k \in 1 .. Len(Ahead)
  BY <1>1, <1>2
<1>4. Ahead[i + k].role = "type" /\ Ahead[i + k].val = "end"
  BY <1>1, <1>2, <1>3
<1> QED
  BY <1>3, <1>4 DEF Heads

(* A read leaves no more offers than there were. *)
LEMMA OfferedAfterRead ==
  ASSUME UpdatesTyped, NEW k \in Nat, Reads(k), Offered, cu' = cu
  PROVE  Offered'
<1>1. \A i \in Heads("end")' : i + k \in Heads("end") /\ i \in Int
  BY OffersAfterRead
<1>2. Heads("end")' # {} => ~cu.offered
  BY <1>1 DEF Offered
<1>3. ASSUME NEW i \in Heads("end")', NEW j \in Heads("end")' PROVE i = j
  <2>1. i + k = j + k /\ i \in Int /\ j \in Int
    BY <1>1 DEF Offered
  <2> QED
    BY <2>1
<1>4. cu'.on = cu'.offered /\ (Heads("end")' # {} => ~cu'.offered)
  BY <1>2 DEF Offered
<1> QED
  BY <1>3, <1>4 DEF Offered

\* Nothing is remembered between two rectangles.
Blank(d) ==
  /\ d.lines = 0 /\ d.subrects = 0 /\ d.tiles = 0 /\ d.ctl = "null" /\ d.filter = "null"
  /\ ~d.colours /\ ~d.len /\ ~d.zlen /\ d.segments = {}

Remembering == {"raw", "rre", "hextile", "tight", "tightpng", "zrle", "jpeg"}

(* Only some encodings remember anything between two calls. *)
LEMMA BlankElsewhere ==
  ASSUME NEW f, NEW d \in Decs, Remembers(f, d), f.encoding \notin Remembering
  PROVE  Blank(d)
<1>1. d.lines \in Nat /\ d.subrects \in Nat /\ d.tiles \in Nat
  BY DEF Decs
<1>2. d.lines = 0 /\ d.subrects = 0 /\ d.tiles = 0
  BY <1>1 DEF Remembers, Remembering
<1>3. d.ctl = "null" /\ d.filter = "null" /\ ~d.zlen /\ d.segments = {}
  BY DEF Remembers, Remembering, Tight
<1>4. ~d.colours /\ ~d.len
  BY <1>3 DEF Remembers
<1> QED
  BY <1>2, <1>3, <1>4 DEF Blank

(* A blank memory fits any rectangle, and stands at its beginning.         *)
LEMMA BlankFits ==
  ASSUME NEW f, NEW d, Blank(d), f.rects = 0 => f.encoding = "null"
  PROVE  Remembers(f, d) /\ BodyPlace(f, d) = Body(f.encoding, f.area, f.rects)
<1>1. Remembers(f, d)
  BY DEF Blank, Remembers, Controls, Filters
<1>2. BodyPlace(f, d) = Body(f.encoding, f.area, f.rects)
  <2>1. d.lines = 0 /\ d.subrects = 0 /\ d.tiles = 0 /\ d.ctl = "null" /\ ~d.zlen /\ d.segments = {}
    BY DEF Blank
  <2>2. CASE f.encoding \in Tight
    BY <2>1, <2>2 DEF BodyPlace, Tight, TightPlace
  <2>3. CASE f.encoding = "jpeg"
    BY <2>1, <2>3 DEF BodyPlace, Tight, Body
  <2>4. CASE f.encoding \notin Tight /\ f.encoding # "jpeg"
    BY <2>1, <2>4 DEF BodyPlace
  <2> QED
    BY <2>2, <2>3, <2>4
<1> QED
  BY <1>1, <1>2

(* A decoder that reads what comes, and remembers it, stays sane.          *)
GoesOn ==
  /\ run' = "loop"
  /\ UNCHANGED <<alive, cu, owed, flushing>>
  /\ fbu'.rects > 0 \/ asked' = (asked \/ ~cu.on)

(* A handler within an update reads on: its new place leads to where the   *)
(* server is, over what it has left.                                       *)
LEMMA RectGoesOn ==
  ASSUME UpdatesTyped, UpdatesTyped', Aligned, Handling, fbu.rects > 0, fbu.rects \in Nat,
         GoesOn, ~misread', Remembers(fbu', dec'),
         NEW k \in Nat, Reads(k),
         Leads(NextPlace(fbu', dec'), SubSeq(rQ, k + 1, Len(rQ)) \o net, alive, owed)
  PROVE  Aligned'
<1>1. /\ Ahead' = SubSeq(rQ, k + 1, Len(rQ)) \o net
      /\ ~flushing' /\ run' = "loop" /\ alive' = alive /\ owed' = owed /\ cu' = cu
  <2>1. Ahead' = SubSeq(rQ, k + 1, Len(rQ)) \o net
    BY AheadRead
  <2> QED
    BY <2>1 DEF GoesOn, Handling
<1>2. Leads(NextPlace(fbu', dec'), Ahead', alive', owed')
  BY <1>1
<1>3. ASSUME alive' PROVE HasToWait' /\ NextDue' /\ Offered'
  <2>1. alive /\ Offered
    BY <1>1, <1>3 DEF Aligned, Served
  <2>2. Offered'
    BY <1>1, <2>1, OfferedAfterRead
  <2>3. NextDue'
    <3>1. fbu'.rects > 0 \/ asked' \/ cu'.on
      BY <1>1 DEF GoesOn
    <3> QED
      BY <3>1 DEF NextDue
  <2>4. HasToWait'
    BY <1>1 DEF HasToWait
  <2> QED
    BY <2>2, <2>3, <2>4
<1> QED
  BY <1>1, <1>2, <1>3 DEF Aligned, Served

(* What a handler may read at its place.                                   *)
LEMMA AtFirst ==
  ASSUME UpdatesTyped, NEW p, NEW open, NEW left, Leads(p, Ahead, open, left)
  PROVE  /\ Leads(p, SubSeq(rQ, 1, Len(rQ)) \o net, open, left)
         /\ SubSeq(rQ, 0 + 1, Len(rQ)) = rQ
         /\ Leads(p, SubSeq(rQ, 0 + 1, Len(rQ)) \o net, open, left)
<1>1. rQ \in Seq(WireCells)
  BY DEF UpdatesTyped
<1>2. SubSeq(rQ, 1, Len(rQ)) = rQ /\ 0 + 1 = 1
  BY <1>1
<1> QED
  BY <1>2 DEF Ahead

(* The first cell in the queue stands at the client's place. *)
LEMMA FirstCell ==
  ASSUME UpdatesTyped, Has(1), NEW p, NEW open, NEW left, Leads(p, Ahead, open, left)
  PROVE  /\ Expects(p, rQ[1]) /\ rQ[1] \in WireCells
         /\ Leads(PlaceAfter(p, rQ[1]), SubSeq(rQ, 1 + 1, Len(rQ)) \o net, open, left)
<1>1. rQ \in Seq(WireCells) /\ net \in Seq(WireCells) /\ 1 \in Nat /\ 1 > 0 /\ 1 <= Len(rQ)
  BY DEF UpdatesTyped, Has
<1> QED
  BY <1>1, AtFirst, Reading

(* The second cell stands at the place after the first, *)
LEMMA SecondCell ==
  ASSUME UpdatesTyped, Has(2), NEW p, NEW open, NEW left, Leads(p, Ahead, open, left),
         NEW p1, PlaceAfter(p, rQ[1]) = p1
  PROVE  /\ Has(1) /\ Expects(p1, rQ[2]) /\ rQ[2] \in WireCells
         /\ Leads(PlaceAfter(p1, rQ[2]), SubSeq(rQ, 2 + 1, Len(rQ)) \o net, open, left)
<1>1. /\ rQ \in Seq(WireCells) /\ net \in Seq(WireCells) /\ 2 \in Nat /\ 2 > 0 /\ 2 <= Len(rQ)
      /\ Has(1) /\ 1 + 1 = 2
  BY DEF UpdatesTyped, Has
<1>2. Leads(p1, SubSeq(rQ, 2, Len(rQ)) \o net, open, left)
  BY <1>1, FirstCell
<1> QED
  BY <1>1, <1>2, Reading

(* and so does the third *)
LEMMA ThirdCell ==
  ASSUME UpdatesTyped, Has(3), NEW p, NEW open, NEW left, Leads(p, Ahead, open, left),
         NEW p1, PlaceAfter(p, rQ[1]) = p1, NEW p2, PlaceAfter(p1, rQ[2]) = p2
  PROVE  /\ Has(2) /\ Expects(p2, rQ[3]) /\ rQ[3] \in WireCells
         /\ Leads(PlaceAfter(p2, rQ[3]), SubSeq(rQ, 3 + 1, Len(rQ)) \o net, open, left)
<1>1. /\ rQ \in Seq(WireCells) /\ net \in Seq(WireCells) /\ 3 \in Nat /\ 3 > 0 /\ 3 <= Len(rQ)
      /\ Has(2) /\ 2 + 1 = 3
  BY DEF UpdatesTyped, Has
<1>2. Leads(p2, SubSeq(rQ, 3, Len(rQ)) \o net, open, left)
  BY <1>1, SecondCell
<1> QED
  BY <1>1, <1>2, Reading

(* and the fourth. *)
LEMMA FourthCell ==
  ASSUME UpdatesTyped, Has(4), NEW p, NEW open, NEW left, Leads(p, Ahead, open, left),
         NEW p1, PlaceAfter(p, rQ[1]) = p1, NEW p2, PlaceAfter(p1, rQ[2]) = p2,
         NEW p3, PlaceAfter(p2, rQ[3]) = p3
  PROVE  /\ Has(3) /\ Expects(p3, rQ[4]) /\ rQ[4] \in WireCells
         /\ Leads(PlaceAfter(p3, rQ[4]), SubSeq(rQ, 4 + 1, Len(rQ)) \o net, open, left)
<1>1. /\ rQ \in Seq(WireCells) /\ net \in Seq(WireCells) /\ 4 \in Nat /\ 4 > 0 /\ 4 <= Len(rQ)
      /\ Has(3) /\ 3 + 1 = 4
  BY DEF UpdatesTyped, Has
<1>2. Leads(p3, SubSeq(rQ, 4, Len(rQ)) \o net, open, left)
  BY <1>1, ThirdCell
<1> QED
  BY <1>1, <1>2, Reading

(* In the body of a rectangle.                                             *)
LEMMA InRectFacts ==
  ASSUME UpdatesTyped, Aligned, NEW S, InRect(S), "null" \notin S
  PROVE  /\ Handling /\ fbu.rects > 0 /\ fbu.rects \in Nat /\ fbu.area \in Nat
         /\ fbu.encoding \in S /\ fbu.encoding # "null" /\ dec \in Decs /\ run = "loop"
         /\ Remembers(fbu, dec) /\ Leads(BodyPlace(fbu, dec), Ahead, alive, owed)
<1>1. /\ Handling /\ fbu.rects > 0 /\ fbu.encoding \in S /\ fbu.encoding # "null" /\ run = "loop"
      /\ fbu.rects \in Nat /\ fbu.area \in Nat /\ dec \in Decs
  BY DEF InRect, Handling, UpdatesTyped, Fbus, Many
<1>2. Remembers(fbu, dec) /\ Leads(NextPlace(fbu, dec), Ahead, alive, owed)
  BY <1>1 DEF Aligned
<1>3. NextPlace(fbu, dec) = BodyPlace(fbu, dec)
  BY <1>1 DEF NextPlace
<1> QED
  BY <1>1, <1>2, <1>3

(* A rectangle that goes on, from its new place, *)
LEMMA KeepAligned ==
  ASSUME UpdatesTyped, UpdatesTyped', Aligned, NEW S, InRect(S), "null" \notin S,
         NEW s, Keep(s), ~misread', Remembers(fbu, dec'), NEW k \in Nat, Reads(k),
         Leads(BodyPlace(fbu, dec'), SubSeq(rQ, k + 1, Len(rQ)) \o net, alive, owed)
  PROVE  Aligned'
<1>1. Handling /\ fbu.rects > 0 /\ fbu.rects \in Nat /\ fbu.encoding # "null" /\ run = "loop"
  BY InRectFacts
<1>2. fbu' = fbu /\ GoesOn
  BY <1>1 DEF Keep, Updating, GoesOn, Return
<1>3. NextPlace(fbu', dec') = BodyPlace(fbu, dec')
  BY <1>1, <1>2 DEF NextPlace
<1>4. Remembers(fbu', dec')
  BY <1>2
<1>5. Leads(NextPlace(fbu', dec'), SubSeq(rQ, k + 1, Len(rQ)) \o net, alive, owed)
  BY <1>3
<1> QED
  BY <1>1, <1>2, <1>4, <1>5, RectGoesOn

(* one that is complete, from the next rectangle or message, *)
LEMMA CompleteAligned ==
  ASSUME UpdatesTyped, UpdatesTyped', Aligned, NEW S, InRect(S), "null" \notin S,
         NEW s, NEW last \in BOOLEAN, Complete(s, last), ~misread', Blank(dec'),
         NEW k \in Nat, Reads(k),
         Leads(Between(IF last THEN 0 ELSE fbu.rects - 1),
               SubSeq(rQ, k + 1, Len(rQ)) \o net, alive, owed)
  PROVE  Aligned'
<1> DEFINE n == IF last THEN 0 ELSE fbu.rects - 1
<1>1. Handling /\ fbu.rects > 0 /\ fbu.rects \in Nat /\ fbu.encoding # "null" /\ run = "loop"
  BY InRectFacts
<1>2. /\ fbu' = [fbu EXCEPT !.rects = n, !.encoding = "null"] /\ fbu \in Fbus
      /\ n = 0 => asked' = (asked \/ ~cu.on)
      /\ run' = "loop" /\ UNCHANGED <<alive, cu, owed, flushing>>
  BY <1>1 DEF Complete, Finished, Request, Updating, Return, UpdatesTyped
<1>3. n \in Nat
  BY <1>1
<1> HIDE DEF n
<1>4. fbu'.rects = n /\ fbu'.encoding = "null"
  BY <1>2 DEF Fbus
<1>5. GoesOn
  BY <1>2, <1>3, <1>4 DEF GoesOn
<1>6. Remembers(fbu', dec')
  BY <1>4, BlankFits
<1>7. NextPlace(fbu', dec') = Between(n)
  BY <1>4 DEF NextPlace
<1>8. Leads(NextPlace(fbu', dec'), SubSeq(rQ, k + 1, Len(rQ)) \o net, alive, owed)
  BY <1>7 DEF n
<1> QED
  BY <1>1, <1>5, <1>6, <1>8, RectGoesOn

(* and one that leaves the others of the update to come. *)
LEMMA DoneAligned ==
  ASSUME UpdatesTyped, UpdatesTyped', Aligned, NEW S, InRect(S), "null" \notin S,
         NEW s, Done(s), ~misread', Blank(dec'), NEW k \in Nat, Reads(k),
         Leads(Between(fbu.rects - 1), SubSeq(rQ, k + 1, Len(rQ)) \o net, alive, owed)
  PROVE  Aligned'
<1>1. FALSE \in BOOLEAN /\ (IF FALSE THEN 0 ELSE fbu.rects - 1) = fbu.rects - 1 /\ Complete(s, FALSE)
  BY DEF Done
<1> QED
  BY <1>1, CompleteAligned

(* The role of a cell that may stand at a place. *)
LEMMA ExpectsRole ==
  ASSUME NEW x, x # "lost", NEW n, NEW left, NEW c, Expects(At(x, n, left), c)
  PROVE  c.role = IF x = "png" THEN "ctl" ELSE x
BY DEF Expects, At

(* A decoder that reads one cell reads the one that comes.                 *)
LEMMA ReadsNext ==
  ASSUME UpdatesTyped, Aligned, NEW S, InRect(S), "null" \notin S, NEW role, Read(<<role>>),
         NEW x, NEW n, NEW left, BodyPlace(fbu, dec) = At(x, n, left),
         x # "lost", role = IF x = "png" THEN "ctl" ELSE x
  PROVE  /\ Reads(1) /\ ~misread' /\ rQ[1] \in WireCells
         /\ Expects(At(x, n, left), rQ[1])
         /\ Leads(PlaceAfter(At(x, n, left), rQ[1]),
                  SubSeq(rQ, 1 + 1, Len(rQ)) \o net, alive, owed)
<1>1. Reads(1) /\ misread' = (misread \/ rQ[1].role # role)
  BY ReadOne
<1>2. Has(1)
  BY <1>1 DEF Reads
<1>3. Leads(At(x, n, left), Ahead, alive, owed)
  BY InRectFacts
<1>4. /\ Expects(At(x, n, left), rQ[1]) /\ rQ[1] \in WireCells
      /\ Leads(PlaceAfter(At(x, n, left), rQ[1]),
               SubSeq(rQ, 1 + 1, Len(rQ)) \o net, alive, owed)
  BY <1>2, <1>3, FirstCell
<1>5. rQ[1].role = role
  BY <1>4, ExpectsRole
<1>6. ~misread'
  BY <1>1, <1>5, Zenon DEF Aligned
<1> QED
  BY <1>1, <1>4, <1>6

(* To read nothing is to read no cells. *)
LEMMA NothingReads ==
  ASSUME UpdatesTyped, Aligned, NothingRead
  PROVE  Reads(0) /\ ~misread'
<1>1. rQ \in Seq(WireCells) /\ Len(rQ) \in Nat
  BY DEF UpdatesTyped
<1>2. SubSeq(rQ, 0 + 1, Len(rQ)) = rQ
  BY <1>1
<1>3. ~misread'
  BY Zenon DEF Aligned, NothingRead
<1> QED
  BY <1>1, <1>2, <1>3 DEF Reads, Has, NothingRead

(* A rectangle without a picture is read, and the next comes.              *)
LEMMA BodyElsewhere ==
  ASSUME UpdatesTyped, Aligned, NEW S, InRect(S), "null" \notin S, S \cap Remembering = {}
  PROVE  Blank(dec) /\ BodyPlace(fbu, dec) = Body(fbu.encoding, fbu.area, fbu.rects)
<1>1. Remembers(fbu, dec) /\ dec \in Decs /\ fbu.encoding \notin Remembering /\ fbu.rects > 0
      /\ fbu.rects \in Nat
  BY InRectFacts
<1>2. Blank(dec)
  BY <1>1, BlankElsewhere
<1> QED
  BY <1>1, <1>2, BlankFits

(* A rectangle that ends with one more field. *)
LEMMA LastField ==
  ASSUME UpdatesTyped, UpdatesTyped', Aligned, NEW S, InRect(S), "null" \notin S,
         NEW role, Read(<<role>>), NEW s, Done(s), Blank(dec'), NEW n,
         BodyPlace(fbu, dec) = At(role, n, fbu.rects), role # "lost", role # "png",
         PlaceAfter(At(role, n, fbu.rects), rQ[1]) = Between(fbu.rects - 1)
  PROVE  Aligned'
<1>1. /\ Reads(1) /\ ~misread'
      /\ Leads(Between(fbu.rects - 1), SubSeq(rQ, 1 + 1, Len(rQ)) \o net, alive, owed)
  BY ReadsNext
<1> QED
  BY <1>1, DoneAligned

(* The fields that are the last of their rectangle. *)
LEMMA EndOfRect ==
  \A n, left, c :
    \A role \in {"source", "layout", "led", "cursor", "pixel", "pixels", "data", "name",
                "vmCursor"} :
      PlaceAfter(At(role, n, left), c) = Between(left - 1)
BY DEF PlaceAfter, At

(* A decoder that reads two cells.                                         *)
LEMMA ReadsBoth ==
  ASSUME UpdatesTyped, Aligned, NEW S, InRect(S), "null" \notin S,
         NEW r1, NEW r2, Read(<<r1, r2>>), r1 \notin {"lost", "png"}, r2 \notin {"lost", "png"},
         NEW n1, NEW left1, BodyPlace(fbu, dec) = At(r1, n1, left1),
         NEW n2, NEW left2, PlaceAfter(At(r1, n1, left1), rQ[1]) = At(r2, n2, left2)
  PROVE  /\ Reads(2) /\ ~misread' /\ rQ[1] \in WireCells
         /\ Expects(At(r1, n1, left1), rQ[1]) /\ Expects(At(r2, n2, left2), rQ[2])
         /\ Leads(PlaceAfter(At(r2, n2, left2), rQ[2]),
                  SubSeq(rQ, 2 + 1, Len(rQ)) \o net, alive, owed)
<1>1. Reads(2) /\ misread' = (misread \/ rQ[1].role # r1 \/ rQ[2].role # r2)
  BY ReadTwo
<1>2. Has(2)
  BY <1>1 DEF Reads
<1>3. Leads(At(r1, n1, left1), Ahead, alive, owed)
  BY InRectFacts
<1>4. /\ Has(1) /\ Expects(At(r2, n2, left2), rQ[2])
      /\ Leads(PlaceAfter(At(r2, n2, left2), rQ[2]),
               SubSeq(rQ, 2 + 1, Len(rQ)) \o net, alive, owed)
  BY <1>2, <1>3, SecondCell
<1>5. Expects(At(r1, n1, left1), rQ[1]) /\ rQ[1] \in WireCells
  BY <1>3, <1>4, FirstCell
<1>6. rQ[1].role = r1 /\ rQ[2].role = r2
  BY <1>4, <1>5, ExpectsRole
<1>7. ~misread'
  BY <1>1, <1>6, Zenon DEF Aligned
<1> QED
  BY <1>1, <1>4, <1>5, <1>7

(* A rectangle that ends with two more fields. *)
LEMMA LastTwoFields ==
  ASSUME UpdatesTyped, UpdatesTyped', Aligned, NEW S, InRect(S), "null" \notin S,
         NEW r1, NEW r2, Read(<<r1, r2>>), r1 \notin {"lost", "png"}, r2 \notin {"lost", "png"},
         NEW s, Done(s), Blank(dec'), NEW n1, NEW n2,
         BodyPlace(fbu, dec) = At(r1, n1, fbu.rects),
         PlaceAfter(At(r1, n1, fbu.rects), rQ[1]) = At(r2, n2, fbu.rects),
         PlaceAfter(At(r2, n2, fbu.rects), rQ[2]) = Between(fbu.rects - 1)
  PROVE  Aligned'
<1>1. /\ Reads(2) /\ ~misread'
      /\ Leads(Between(fbu.rects - 1), SubSeq(rQ, 2 + 1, Len(rQ)) \o net, alive, owed)
  BY ReadsBoth
<1> QED
  BY <1>1, DoneAligned

(* The rectangles that draw nothing. *)
LEMMA PseudoAligned ==
  ASSUME UpdatesTyped, UpdatesTyped', Aligned, PseudoRect, leftover = "none", leftover' = "none"
  PROVE  Aligned'
<1>1. CASE LastRect
  <2> DEFINE S == {"last"}
  <2>1. InRect(S) /\ "null" \notin S /\ S \cap Remembering = {} /\ fbu.encoding = "last"
        /\ Complete(screen, TRUE) /\ TRUE \in BOOLEAN
    BY <1>1 DEF LastRect, Remembering, InRect
  <2>2. Reads(0) /\ ~misread'
    BY <1>1, NothingReads DEF LastRect
  <2>3. BodyPlace(fbu, dec) = Between(0) /\ Blank(dec')
    <3>1. dec' = dec
      BY <1>1 DEF LastRect, Skipped
    <3> QED
      BY <2>1, <3>1, BodyElsewhere DEF Body
  <2>4. Leads(Between(0), SubSeq(rQ, 0 + 1, Len(rQ)) \o net, alive, owed)
    BY <2>1, <2>3, InRectFacts, AtFirst
  <2>5. Between(IF TRUE THEN 0 ELSE fbu.rects - 1) = Between(0)
    OBVIOUS
  <2> HIDE DEF S
  <2> QED
    BY <2>1, <2>2, <2>3, <2>4, <2>5, CompleteAligned
<1>2. CASE QEMUExtendedKeyEvent \/ DesktopSize
  <2> DEFINE S == {"qemu", "size"}
  <2>1. InRect(S) /\ "null" \notin S /\ S \cap Remembering = {} /\ fbu.encoding \in {"qemu", "size"}
    BY <1>2 DEF QEMUExtendedKeyEvent, DesktopSize, Remembering, InRect
  <2>2. Reads(0) /\ ~misread'
    BY <1>2, NothingReads DEF QEMUExtendedKeyEvent, DesktopSize
  <2>3. BodyPlace(fbu, dec) = Between(fbu.rects - 1) /\ Blank(dec')
    <3>1. dec' = dec
      BY <1>2 DEF QEMUExtendedKeyEvent, DesktopSize, Skipped
    <3> QED
      BY <2>1, <3>1, BodyElsewhere DEF Body
  <2>4. Leads(Between(fbu.rects - 1), SubSeq(rQ, 0 + 1, Len(rQ)) \o net, alive, owed)
    BY <2>1, <2>3, InRectFacts, AtFirst
  <2>5. \E s : Done(s)
    BY <1>2 DEF QEMUExtendedKeyEvent, DesktopSize
  <2> HIDE DEF S
  <2> QED
    BY <2>1, <2>2, <2>3, <2>4, <2>5, DoneAligned
<1>3. CASE ExtendedDesktopSize \/ LedEvent \/ Cursor
  <2>1. PICK role \in {"layout", "led", "cursor"} : \E S :
          /\ InRect(S) /\ "null" \notin S /\ S \cap Remembering = {}
          /\ Read(<<role>>) /\ (\E s : Done(s)) /\ dec' = dec
          /\ Body(fbu.encoding, fbu.area, fbu.rects) = At(role, 0, fbu.rects)
    <3>1. CASE ExtendedDesktopSize
      <4>1. /\ InRect({"extsize"}) /\ fbu.encoding = "extsize" /\ Read(<<"layout">>)
            /\ (\E s : Done(s)) /\ dec' = dec /\ {"extsize"} \cap Remembering = {}
            /\ "null" \notin {"extsize"} /\ "layout" \in {"layout", "led", "cursor"}
        BY <3>1 DEF ExtendedDesktopSize, Skipped, InRect, Remembering
      <4>2. Body(fbu.encoding, fbu.area, fbu.rects) = At("layout", 0, fbu.rects)
        BY <4>1 DEF Body
      <4> QED
        BY <4>1, <4>2, Zenon
    <3>2. CASE LedEvent
      <4>1. /\ InRect({"led"}) /\ fbu.encoding = "led" /\ Read(<<"led">>)
            /\ (\E s : Done(s)) /\ dec' = dec /\ {"led"} \cap Remembering = {}
            /\ "null" \notin {"led"} /\ "led" \in {"layout", "led", "cursor"}
        BY <3>2 DEF LedEvent, Skipped, InRect, Remembering
      <4>2. Body(fbu.encoding, fbu.area, fbu.rects) = At("led", 0, fbu.rects)
        BY <4>1 DEF Body
      <4> QED
        BY <4>1, <4>2, Zenon
    <3>3. CASE Cursor
      <4>1. /\ InRect({"cursor"}) /\ fbu.encoding = "cursor" /\ Read(<<"cursor">>)
            /\ (\E s : Done(s)) /\ dec' = dec /\ {"cursor"} \cap Remembering = {}
            /\ "null" \notin {"cursor"} /\ "cursor" \in {"layout", "led", "cursor"}
        BY <3>3 DEF Cursor, Skipped, InRect, Remembering
      <4>2. Body(fbu.encoding, fbu.area, fbu.rects) = At("cursor", 0, fbu.rects)
        BY <4>1 DEF Body
      <4> QED
        BY <4>1, <4>2, Zenon
    <3> QED
      BY <1>3, <3>1, <3>2, <3>3
  <2>p. PICK S : /\ InRect(S) /\ "null" \notin S /\ S \cap Remembering = {}
               /\ Read(<<role>>) /\ (\E s : Done(s)) /\ dec' = dec
               /\ Body(fbu.encoding, fbu.area, fbu.rects) = At(role, 0, fbu.rects)
    BY <2>1
  <2>2. Blank(dec') /\ BodyPlace(fbu, dec) = At(role, 0, fbu.rects)
    BY <2>p, BodyElsewhere
  <2>3. PlaceAfter(At(role, 0, fbu.rects), rQ[1]) = Between(fbu.rects - 1)
    BY EndOfRect
  <2>4. role # "lost" /\ role # "png"
    OBVIOUS
  <2> QED
    BY <2>p, <2>2, <2>3, <2>4, LastField, Zenon
<1>4. CASE DesktopName
  <2>1. /\ InRect({"name"}) /\ fbu.encoding = "name" /\ Read(<<"nameLen", "name">>)
        /\ Done(screen) /\ dec' = dec /\ {"name"} \cap Remembering = {} /\ "null" \notin {"name"}
    BY <1>4 DEF DesktopName, Skipped, InRect, Remembering
  <2>2. Blank(dec') /\ BodyPlace(fbu, dec) = At("nameLen", 0, fbu.rects)
    BY <2>1, BodyElsewhere DEF Body
  <2>3. /\ PlaceAfter(At("nameLen", 0, fbu.rects), rQ[1]) = At("name", 0, fbu.rects)
        /\ PlaceAfter(At("name", 0, fbu.rects), rQ[2]) = Between(fbu.rects - 1)
    BY DEF PlaceAfter, At
  <2>4. "nameLen" \notin {"lost", "png"} /\ "name" \notin {"lost", "png"}
    OBVIOUS
  <2> QED
    BY <2>1, <2>2, <2>3, <2>4, LastTwoFields, Zenon
<1>5. CASE VMwareCursor
  <2>1. /\ InRect({"vmware"}) /\ fbu.encoding = "vmware" /\ Read(<<"vmHead", "vmCursor">>)
        /\ rQ[1].val # "other"
        /\ Done(screen) /\ dec' = dec /\ {"vmware"} \cap Remembering = {} /\ "null" \notin {"vmware"}
    BY <1>5 DEF VMwareCursor, InRect, Remembering
  <2>2. Blank(dec') /\ BodyPlace(fbu, dec) = At("vmHead", 0, fbu.rects)
    BY <2>1, BodyElsewhere DEF Body
  <2>3. /\ PlaceAfter(At("vmHead", 0, fbu.rects), rQ[1]) = At("vmCursor", 0, fbu.rects)
        /\ PlaceAfter(At("vmCursor", 0, fbu.rects), rQ[2]) = Between(fbu.rects - 1)
    BY <2>1 DEF PlaceAfter, At
  <2>4. "vmHead" \notin {"lost", "png"} /\ "vmCursor" \notin {"lost", "png"}
    OBVIOUS
  <2> QED
    BY <2>1, <2>2, <2>3, <2>4, LastTwoFields, Zenon
<1> QED
  BY <1>1, <1>2, <1>3, <1>4, <1>5, Zenon DEF PseudoRect

(* A header gives the rectangle its decoder.                               *)
LEMMA RectHeaderAligned ==
  ASSUME UpdatesTyped, UpdatesTyped', Aligned, RectHeader
  PROVE  Aligned'
<1>1. /\ Handling /\ fbu.rects > 0 /\ fbu.encoding = "null" /\ Read(<<"area", "encoding">>)
      /\ fbu' = [fbu EXCEPT !.area = Num(rQ[1].val), !.encoding = rQ[2].val]
      /\ Return(TRUE) /\ UNCHANGED <<dec, flushing, asked>> /\ Updating
      /\ fbu \in Fbus /\ dec \in Decs /\ run = "loop" /\ fbu.rects \in Nat
  <2>1. fbu \in Fbus /\ dec \in Decs /\ fbu.rects \in Nat
    BY DEF UpdatesTyped, Fbus, Many
  <2> QED
    BY <2>1, Zenon DEF RectHeader, Handling
<1>2. Remembers(fbu, dec) /\ Leads(NextPlace(fbu, dec), Ahead, alive, owed)
  BY <1>1 DEF Aligned
<1>3. NextPlace(fbu, dec) = At("area", 0, fbu.rects)
  BY <1>1 DEF NextPlace, Between
<1>4. Reads(2) /\ misread' = (misread \/ rQ[1].role # "area" \/ rQ[2].role # "encoding")
  BY <1>1, ReadTwo
<1>5. PlaceAfter(At("area", 0, fbu.rects), rQ[1]) = At("encoding", Num(rQ[1].val), fbu.rects)
  BY DEF PlaceAfter, At
<1> DEFINE n == Num(rQ[1].val)
           e == rQ[2].val
<1>6. Has(2) /\ Leads(At("area", 0, fbu.rects), Ahead, alive, owed)
  BY <1>2, <1>3, <1>4 DEF Reads
<1>7. /\ Has(1) /\ Expects(At("encoding", n, fbu.rects), rQ[2])
      /\ Leads(PlaceAfter(At("encoding", n, fbu.rects), rQ[2]),
               SubSeq(rQ, 2 + 1, Len(rQ)) \o net, alive, owed)
  BY <1>5, <1>6, SecondCell
<1>8. Expects(At("area", 0, fbu.rects), rQ[1])
  BY <1>6, <1>7, FirstCell
<1>9. rQ[1].role = "area" /\ rQ[2].role = "encoding" /\ e # "null"
  <2>1. e # "null"
    BY <1>7 DEF Expects, At
  <2>2. rQ[1].role = "area" /\ rQ[2].role = "encoding"
    BY <1>7, <1>8, ExpectsRole
  <2> QED
    BY <2>1, <2>2
<1>10. PlaceAfter(At("encoding", n, fbu.rects), rQ[2]) = Body(e, n, fbu.rects)
  BY DEF PlaceAfter, At
<1>11. ~misread'
  BY <1>4, <1>9, Zenon DEF Aligned
<1> HIDE DEF n, e
<1>12. /\ fbu'.rects = fbu.rects /\ fbu'.encoding = e /\ fbu'.area = n
  <2>1. fbu' = [fbu EXCEPT !.area = n, !.encoding = e]
    BY <1>1 DEF n, e
  <2> QED
    BY <1>1, <2>1 DEF Fbus
<1>13. Blank(dec) /\ dec' = dec
  BY <1>1, <1>2, BlankElsewhere DEF Remembering
<1>14. Remembers(fbu', dec') /\ BodyPlace(fbu', dec') = Body(e, n, fbu.rects)
  <2>1. fbu'.rects = 0 => fbu'.encoding = "null"
    BY <1>1, <1>12
  <2>2. /\ Remembers(fbu', dec')
        /\ BodyPlace(fbu', dec') = Body(fbu'.encoding, fbu'.area, fbu'.rects)
    BY <1>13, <2>1, BlankFits
  <2> QED
    BY <1>12, <2>2
<1>15. NextPlace(fbu', dec') = Body(e, n, fbu.rects)
  BY <1>1, <1>9, <1>12, <1>14 DEF NextPlace
<1>16. GoesOn
  BY <1>1, <1>12 DEF GoesOn, Return, Updating
<1>17. Leads(NextPlace(fbu', dec'), SubSeq(rQ, 2 + 1, Len(rQ)) \o net, alive, owed)
  BY <1>7, <1>10, <1>15
<1> QED
  BY <1>1, <1>4, <1>11, <1>14, <1>16, <1>17, RectGoesOn

(* CopyRect. *)
LEMMA CopyRectAligned ==
  ASSUME UpdatesTyped, UpdatesTyped', Aligned, CopyRect
  PROVE  Aligned'
<1>1. /\ InRect({"copy"}) /\ fbu.encoding = "copy" /\ Read(<<"source">>)
      /\ (\E s : Done(s)) /\ dec' = dec /\ {"copy"} \cap Remembering = {} /\ "null" \notin {"copy"}
  BY DEF CopyRect, InRect, Remembering
<1>2. Blank(dec') /\ BodyPlace(fbu, dec) = At("source", 0, fbu.rects)
  BY <1>1, BodyElsewhere DEF Body
<1>3. PlaceAfter(At("source", 0, fbu.rects), rQ[1]) = Between(fbu.rects - 1)
  BY EndOfRect
<1>4. "source" # "lost" /\ "source" # "png"
  OBVIOUS
<1> QED
  BY <1>1, <1>2, <1>3, <1>4, LastField, Zenon

(* A decoder that counts: what is left of a rectangle.                     *)
LEMMA RawAligned ==
  ASSUME UpdatesTyped, UpdatesTyped', Aligned, Raw
  PROVE  Aligned'
<1> DEFINE S == {"raw"}
<1>1. InRect(S) /\ "null" \notin S /\ fbu.encoding = "raw"
  BY DEF Raw, InRect
<1> HIDE DEF S
<1>2. /\ Remembers(fbu, dec) /\ dec \in Decs /\ fbu.area \in Nat /\ dec.lines \in Nat
      /\ fbu.rects \in Nat /\ fbu.rects > 0
      /\ Leads(BodyPlace(fbu, dec), Ahead, alive, owed)
  BY <1>1, InRectFacts DEF Decs
<1>3. CASE fbu.area = 0 /\ Done(screen) /\ UNCHANGED <<dec, net, rQ, misread>>
  <2>1. dec.lines = 0
    BY <1>2, <1>3 DEF Remembers
  <2>2. BodyPlace(fbu, dec) = Between(fbu.rects - 1)
    BY <1>1, <1>3, <2>1 DEF BodyPlace, Tight, Body, Times
  <2>3. Blank(dec')
    BY <1>1, <1>2, <1>3, <2>1 DEF Remembers, Blank, Tight, Decs
  <2>4. Reads(0) /\ ~misread'
    BY <1>3, NothingReads DEF NothingRead
  <2>5. Leads(Between(fbu.rects - 1), SubSeq(rQ, 0 + 1, Len(rQ)) \o net, alive, owed)
    BY <1>2, <2>2, AtFirst
  <2> QED
    BY <1>1, <1>3, <2>3, <2>4, <2>5, DoneAligned
<1>4. CASE /\ fbu.area > 0 /\ Read(<<"line">>)
           /\ LET lines == IF dec.lines = 0 THEN fbu.area ELSE dec.lines IN
              /\ dec' = [dec EXCEPT !.lines = lines - 1]
              /\ IF lines = 1 THEN Done(Paint) ELSE Keep(Paint)
  <2> DEFINE n == IF dec.lines = 0 THEN fbu.area ELSE dec.lines
  <2>1. n \in Nat /\ n > 0
    BY <1>2, <1>4
  <2>2. BodyPlace(fbu, dec) = At("line", n, fbu.rects)
    BY <1>1, <1>2, <1>4 DEF BodyPlace, Tight, Body, Times
  <2>3. /\ Read(<<"line">>) /\ dec' = [dec EXCEPT !.lines = n - 1]
        /\ IF n = 1 THEN Done(Paint) ELSE Keep(Paint)
    BY <1>4
  <2> HIDE DEF n
  <2>4. PlaceAfter(At("line", n, fbu.rects), rQ[1]) = Times("line", n - 1, fbu.rects)
    BY DEF PlaceAfter, At
  <2>5. /\ Reads(1) /\ ~misread'
        /\ Leads(Times("line", n - 1, fbu.rects), SubSeq(rQ, 1 + 1, Len(rQ)) \o net, alive, owed)
    <3>1. "line" # "lost" /\ "line" = IF "line" = "png" THEN "ctl" ELSE "line"
      OBVIOUS
    <3> QED
      BY <1>1, <2>2, <2>3, <2>4, <3>1, ReadsNext
  <2>6. CASE n = 1
    <3>1. Blank(dec')
      BY <1>1, <1>2, <2>3, <2>6 DEF Remembers, Blank, Tight, Decs
    <3>2. Leads(Between(fbu.rects - 1), SubSeq(rQ, 1 + 1, Len(rQ)) \o net, alive, owed)
      BY <2>5, <2>6 DEF Times
    <3> QED
      BY <1>1, <2>3, <2>5, <2>6, <3>1, <3>2, DoneAligned
  <2>7. CASE n # 1
    <3>1. Remembers(fbu, dec')
      BY <1>1, <1>2, <1>4, <2>3 DEF Remembers, Decs
    <3>2. BodyPlace(fbu, dec') = Times("line", n - 1, fbu.rects)
      <4>1. dec'.lines = n - 1 /\ n - 1 > 0
        BY <1>2, <2>1, <2>3, <2>7 DEF Decs
      <4> QED
        BY <1>1, <4>1 DEF BodyPlace, Tight, Times
    <3> QED
      BY <1>1, <2>3, <2>5, <2>7, <3>1, <3>2, KeepAligned
  <2> QED
    BY <2>6, <2>7
<1> QED
  BY <1>3, <1>4, Zenon DEF Raw

(* RRE: the number of subrectangles, then each of them. *)
LEMMA RREAligned ==
  ASSUME UpdatesTyped, UpdatesTyped', Aligned, RRE
  PROVE  Aligned'
<1> DEFINE S == {"rre"}
           role == IF dec.subrects = 0 THEN "rreHead" ELSE "subrect"
           n == IF dec.subrects = 0 THEN Num(rQ[1].val) ELSE dec.subrects - 1
<1>1. InRect(S) /\ "null" \notin S /\ fbu.encoding = "rre"
  BY DEF RRE, InRect
<1> HIDE DEF S
<1>2. /\ Remembers(fbu, dec) /\ dec \in Decs /\ dec.subrects \in Nat
      /\ fbu.rects \in Nat /\ fbu.rects > 0
  BY <1>1, InRectFacts DEF Decs
<1>3. n \in Nat
  BY <1>2, NumTyped DEF Many
<1>4. \E m : /\ BodyPlace(fbu, dec) = At(role, m, fbu.rects)
             /\ PlaceAfter(At(role, m, fbu.rects), rQ[1]) = Times("subrect", n, fbu.rects)
  <2>1. CASE dec.subrects = 0
    <3>1. BodyPlace(fbu, dec) = At("rreHead", 0, fbu.rects)
      BY <1>1, <2>1 DEF BodyPlace, Tight, Body
    <3>2. PlaceAfter(At("rreHead", 0, fbu.rects), rQ[1]) = Times("subrect", Num(rQ[1].val), fbu.rects)
      BY DEF PlaceAfter, At
    <3> QED
      BY <2>1, <3>1, <3>2
  <2>2. CASE dec.subrects # 0
    <3>1. BodyPlace(fbu, dec) = At("subrect", dec.subrects, fbu.rects)
      BY <1>1, <1>2, <2>2 DEF BodyPlace, Tight
    <3>2. PlaceAfter(At("subrect", dec.subrects, fbu.rects), rQ[1])
            = Times("subrect", dec.subrects - 1, fbu.rects)
      BY DEF PlaceAfter, At
    <3> QED
      BY <2>2, <3>1, <3>2
  <2> QED
    BY <2>1, <2>2
<1>5. Read(<<role>>) /\ dec' = [dec EXCEPT !.subrects = n]
      /\ IF n = 0 THEN Done(Paint) ELSE Keep(Paint)
  <2>1. Read(IF dec.subrects = 0 THEN <<"rreHead">> ELSE <<"subrect">>)
    BY Zenon DEF RRE
  <2>2. (IF dec.subrects = 0 THEN <<"rreHead">> ELSE <<"subrect">>) = <<role>>
    OBVIOUS
  <2>3. dec' = [dec EXCEPT !.subrects = n] /\ IF n = 0 THEN Done(Paint) ELSE Keep(Paint)
    BY DEF RRE
  <2> HIDE DEF role, n
  <2> QED
    BY <2>1, <2>2, <2>3, Zenon
<1>6. role # "lost" /\ role = IF role = "png" THEN "ctl" ELSE role
  OBVIOUS
<1> HIDE DEF role, n
<1>7. /\ Reads(1) /\ ~misread'
      /\ Leads(Times("subrect", n, fbu.rects), SubSeq(rQ, 1 + 1, Len(rQ)) \o net, alive, owed)
  BY <1>1, <1>4, <1>5, <1>6, ReadsNext
<1>8. CASE n = 0
  <2>1. Blank(dec')
    BY <1>1, <1>2, <1>5, <1>8 DEF Remembers, Blank, Tight, Decs
  <2>2. Leads(Between(fbu.rects - 1), SubSeq(rQ, 1 + 1, Len(rQ)) \o net, alive, owed)
    BY <1>7, <1>8 DEF Times
  <2> QED
    BY <1>1, <1>5, <1>7, <1>8, <2>1, <2>2, DoneAligned
<1>9. CASE n # 0
  <2>1. Remembers(fbu, dec')
    BY <1>1, <1>2, <1>5 DEF Remembers, Decs
  <2>2. BodyPlace(fbu, dec') = Times("subrect", n, fbu.rects)
    <3>1. dec'.subrects = n /\ n > 0
      BY <1>2, <1>3, <1>5, <1>9 DEF Decs
    <3> QED
      BY <1>1, <3>1 DEF BodyPlace, Tight, Times
  <2> QED
    BY <1>1, <1>5, <1>7, <1>9, <2>1, <2>2, KeepAligned
<1> QED
  BY <1>8, <1>9

(* A decoder that reads three cells.                                       *)
LEMMA ReadsAllThree ==
  ASSUME UpdatesTyped, Aligned, NEW S, InRect(S), "null" \notin S,
         NEW r1, NEW r2, NEW r3, Read(<<r1, r2, r3>>), r1 \notin {"lost", "png"},
         r2 \notin {"lost", "png"}, r3 \notin {"lost", "png"},
         NEW n1, NEW left1, BodyPlace(fbu, dec) = At(r1, n1, left1),
         NEW n2, NEW left2, PlaceAfter(At(r1, n1, left1), rQ[1]) = At(r2, n2, left2),
         NEW n3, NEW left3, PlaceAfter(At(r2, n2, left2), rQ[2]) = At(r3, n3, left3)
  PROVE  /\ Reads(3) /\ ~misread'
         /\ Leads(PlaceAfter(At(r3, n3, left3), rQ[3]),
                  SubSeq(rQ, 3 + 1, Len(rQ)) \o net, alive, owed)
<1>1. Reads(3) /\ misread' = (misread \/ rQ[1].role # r1 \/ rQ[2].role # r2 \/ rQ[3].role # r3)
  BY ReadThree
<1>2. Has(3)
  BY <1>1 DEF Reads
<1>3. Leads(At(r1, n1, left1), Ahead, alive, owed)
  BY InRectFacts
<1>4. /\ Has(2) /\ Expects(At(r3, n3, left3), rQ[3])
      /\ Leads(PlaceAfter(At(r3, n3, left3), rQ[3]),
               SubSeq(rQ, 3 + 1, Len(rQ)) \o net, alive, owed)
  BY <1>2, <1>3, ThirdCell
<1>5. Has(1) /\ Expects(At(r2, n2, left2), rQ[2])
  BY <1>3, <1>4, SecondCell
<1>6. Expects(At(r1, n1, left1), rQ[1])
  BY <1>3, <1>5, FirstCell
<1>7. rQ[1].role = r1 /\ rQ[2].role = r2 /\ rQ[3].role = r3
  BY <1>4, <1>5, <1>6, ExpectsRole
<1>8. ~misread'
  BY <1>1, <1>7, Zenon DEF Aligned
<1> QED
  BY <1>1, <1>4, <1>8

(* A tile of Hextile, which is read whole. *)
LEMMA TileRead ==
  ASSUME UpdatesTyped, Aligned, NEW S, InRect(S), "null" \notin S, NEW n,
         BodyPlace(fbu, dec) = At("subencoding", n, fbu.rects),
         rQ[1].val # "bad", Read(Tile(rQ[1].val))
  PROVE  \E k \in Nat : /\ Reads(k) /\ ~misread'
                        /\ Leads(Times("subencoding", n - 1, fbu.rects),
                                 SubSeq(rQ, k + 1, Len(rQ)) \o net, alive, owed)
<1>0. /\ "subencoding" \notin {"lost", "png"} /\ "tile" \notin {"lost", "png"}
      /\ "nsubrects" \notin {"lost", "png"}
  OBVIOUS
<1>1. PlaceAfter(At("tile", n, fbu.rects), rQ[2]) = Times("subencoding", n - 1, fbu.rects)
      /\ PlaceAfter(At("tile", n, fbu.rects), rQ[3]) = Times("subencoding", n - 1, fbu.rects)
  BY DEF PlaceAfter, At
<1>2. CASE rQ[1].val = "rawTile"
  <2>1. Read(<<"subencoding", "tile">>)
    BY <1>2 DEF Tile
  <2>2. PlaceAfter(At("subencoding", n, fbu.rects), rQ[1]) = At("tile", n, fbu.rects)
    BY <1>2 DEF PlaceAfter, At
  <2>3. /\ Reads(2) /\ ~misread'
        /\ Leads(PlaceAfter(At("tile", n, fbu.rects), rQ[2]),
                 SubSeq(rQ, 2 + 1, Len(rQ)) \o net, alive, owed)
    BY <1>0, <2>1, <2>2, ReadsBoth, Zenon
  <2> QED
    BY <1>1, <2>3
<1>3. CASE rQ[1].val = "subrects"
  <2>1. Read(<<"subencoding", "nsubrects", "tile">>)
    BY <1>3 DEF Tile
  <2>2. PlaceAfter(At("subencoding", n, fbu.rects), rQ[1]) = At("nsubrects", n, fbu.rects)
    BY <1>3 DEF PlaceAfter, At
  <2>3. PlaceAfter(At("nsubrects", n, fbu.rects), rQ[2]) = At("tile", n, fbu.rects)
    BY DEF PlaceAfter, At
  <2>4. /\ Reads(3) /\ ~misread'
        /\ Leads(PlaceAfter(At("tile", n, fbu.rects), rQ[3]),
                 SubSeq(rQ, 3 + 1, Len(rQ)) \o net, alive, owed)
    BY <1>0, <2>1, <2>2, <2>3, ReadsAllThree, Zenon
  <2> QED
    BY <1>1, <2>4
<1>4. CASE rQ[1].val \notin {"rawTile", "subrects"}
  <2>1. Read(<<"subencoding">>)
    BY <1>4 DEF Tile
  <2>2. PlaceAfter(At("subencoding", n, fbu.rects), rQ[1]) = Times("subencoding", n - 1, fbu.rects)
    BY <1>4 DEF PlaceAfter, At
  <2>3. "subencoding" # "lost" /\ "subencoding" = IF "subencoding" = "png" THEN "ctl" ELSE "subencoding"
    OBVIOUS
  <2>4. /\ Reads(1) /\ ~misread'
        /\ Leads(PlaceAfter(At("subencoding", n, fbu.rects), rQ[1]),
                 SubSeq(rQ, 1 + 1, Len(rQ)) \o net, alive, owed)
    BY <2>1, <2>3, ReadsNext, Zenon
  <2> QED
    BY <2>2, <2>4
<1> QED
  BY <1>2, <1>3, <1>4

(* Hextile, tile by tile. *)
LEMMA HextileAligned ==
  ASSUME UpdatesTyped, UpdatesTyped', Aligned, Hextile
  PROVE  Aligned'
<1> DEFINE S == {"hextile"}
<1>1. InRect(S) /\ "null" \notin S /\ fbu.encoding = "hextile"
  BY DEF Hextile, InRect
<1> HIDE DEF S
<1>2. /\ Remembers(fbu, dec) /\ dec \in Decs /\ fbu.area \in Nat /\ dec.tiles \in Nat
      /\ fbu.rects \in Nat /\ fbu.rects > 0
      /\ Leads(BodyPlace(fbu, dec), Ahead, alive, owed)
  BY <1>1, InRectFacts DEF Decs
<1>3. CASE fbu.area = 0 /\ dec.tiles = 0 /\ Done(screen) /\ UNCHANGED <<dec, net, rQ, misread>>
  <2>2. BodyPlace(fbu, dec) = Between(fbu.rects - 1)
    BY <1>1, <1>3 DEF BodyPlace, Tight, Body, Times
  <2>3. Blank(dec')
    BY <1>1, <1>2, <1>3 DEF Remembers, Blank, Tight, Decs
  <2>4. Reads(0) /\ ~misread'
    BY <1>3, NothingReads DEF NothingRead
  <2>5. Leads(Between(fbu.rects - 1), SubSeq(rQ, 0 + 1, Len(rQ)) \o net, alive, owed)
    BY <1>2, <2>2, AtFirst
  <2> QED
    BY <1>1, <1>3, <2>3, <2>4, <2>5, DoneAligned
<1>4. CASE /\ Has(1) /\ (fbu.area > 0 \/ dec.tiles > 0)
           /\ rQ[1].val # "bad" /\ Read(Tile(rQ[1].val))
           /\ LET tiles == IF dec.tiles = 0 THEN fbu.area ELSE dec.tiles IN
              /\ dec' = [dec EXCEPT !.tiles = tiles - 1]
              /\ \E s \in (IF rQ[1].val = "blank" THEN {screen, Paint} ELSE {Paint}) :
                   IF tiles = 1 THEN Done(s) ELSE Keep(s)
  <2> DEFINE n == IF dec.tiles = 0 THEN fbu.area ELSE dec.tiles
  <2>1. n \in Nat /\ n > 0 /\ fbu.area > 0
    BY <1>2, <1>4 DEF Remembers
  <2>2. BodyPlace(fbu, dec) = At("subencoding", n, fbu.rects)
    BY <1>1, <1>2, <2>1 DEF BodyPlace, Tight, Body, Times
  <2>3. /\ rQ[1].val # "bad" /\ Read(Tile(rQ[1].val)) /\ dec' = [dec EXCEPT !.tiles = n - 1]
        /\ \E s : IF n = 1 THEN Done(s) ELSE Keep(s)
    BY <1>4
  <2> HIDE DEF n
  <2>4. PICK k \in Nat : /\ Reads(k) /\ ~misread'
                         /\ Leads(Times("subencoding", n - 1, fbu.rects),
                                  SubSeq(rQ, k + 1, Len(rQ)) \o net, alive, owed)
    BY <1>1, <2>2, <2>3, TileRead, Zenon
  <2>6. CASE n = 1
    <3>1. Blank(dec')
      BY <1>1, <1>2, <2>3, <2>6 DEF Remembers, Blank, Tight, Decs
    <3>2. Leads(Between(fbu.rects - 1), SubSeq(rQ, k + 1, Len(rQ)) \o net, alive, owed)
      BY <2>4, <2>6 DEF Times
    <3> QED
      BY <1>1, <2>3, <2>4, <2>6, <3>1, <3>2, DoneAligned
  <2>7. CASE n # 1
    <3>1. Remembers(fbu, dec')
      BY <1>1, <1>2, <2>1, <2>3 DEF Remembers, Decs
    <3>2. BodyPlace(fbu, dec') = Times("subencoding", n - 1, fbu.rects)
      <4>1. dec'.tiles = n - 1 /\ n - 1 > 0
        BY <1>2, <2>1, <2>3, <2>7 DEF Decs
      <4> QED
        BY <1>1, <4>1 DEF BodyPlace, Tight, Times
    <3> QED
      BY <1>1, <2>3, <2>4, <2>7, <3>1, <3>2, KeepAligned
  <2> QED
    BY <2>6, <2>7
<1> QED
  BY <1>3, <1>4, Zenon DEF Hextile

(* The place of a Tight rectangle. *)
LEMMA InTight ==
  ASSUME NEW f, NEW d, f.encoding \in Tight
  PROVE  BodyPlace(f, d) = TightPlace(f, d)
BY DEF BodyPlace, Tight

(* The length of the data that follows.                                    *)
LEMMA ReadLengthAligned ==
  ASSUME UpdatesTyped, UpdatesTyped', Aligned, NEW S, InRect(S), "null" \notin S,
         fbu.encoding \in Tight, ReadLength,
         BodyPlace(fbu, dec) = At("len", 0, fbu.rects),
         Remembers(fbu, dec'), BodyPlace(fbu, dec') = At("data", 0, fbu.rects)
  PROVE  Aligned'
<1>1. Read(<<"len">>) /\ Keep(screen)
  BY DEF ReadLength
<1>2. "len" # "lost" /\ "len" = IF "len" = "png" THEN "ctl" ELSE "len"
  OBVIOUS
<1>3. /\ Reads(1) /\ ~misread'
      /\ Leads(PlaceAfter(At("len", 0, fbu.rects), rQ[1]),
               SubSeq(rQ, 1 + 1, Len(rQ)) \o net, alive, owed)
  BY <1>1, <1>2, ReadsNext, Zenon
<1>4. PlaceAfter(At("len", 0, fbu.rects), rQ[1]) = At("data", 0, fbu.rects)
  BY DEF PlaceAfter, At
<1> QED
  BY <1>1, <1>3, <1>4, KeepAligned

(* Tight: the control byte, *)
LEMMA TightControlAligned ==
  ASSUME UpdatesTyped, UpdatesTyped', Aligned, TightControl
  PROVE  Aligned'
<1>1. InRect(Tight) /\ "null" \notin Tight /\ Read(<<"ctl">>) /\ Keep(screen)
      /\ dec.ctl = "null" /\ dec' = [dec EXCEPT !.ctl = rQ[1].val]
  BY DEF TightControl, Tight
<1>2. Remembers(fbu, dec) /\ dec \in Decs /\ fbu.encoding \in Tight
  BY <1>1, InRectFacts
<1>3. dec.filter = "null" /\ ~dec.len /\ ~dec.colours
  BY <1>1, <1>2 DEF Remembers
<1> DEFINE x == IF fbu.encoding = "tight" THEN "ctl" ELSE "png"
           n == IF fbu.encoding = "tight" THEN fbu.area ELSE 0
           v == rQ[1].val
<1>4. BodyPlace(fbu, dec) = At(x, n, fbu.rects)
  BY <1>1, <1>2, InTight DEF TightPlace, Body, Tight
<1>5. x # "lost" /\ "ctl" = IF x = "png" THEN "ctl" ELSE x
  OBVIOUS
<1>6. /\ Reads(1) /\ ~misread' /\ Expects(At(x, n, fbu.rects), rQ[1])
      /\ Leads(PlaceAfter(At(x, n, fbu.rects), rQ[1]),
               SubSeq(rQ, 1 + 1, Len(rQ)) \o net, alive, owed)
  <2> HIDE DEF x, n
  <2> QED
    BY <1>1, <1>4, <1>5, ReadsNext, Zenon
<1>7. v \in {"fill", "jpegRect", "pngRect", "basic", "plain", "badCtl"}
  BY <1>6 DEF Expects, Values, Listed, At
<1>8. PlaceAfter(At(x, n, fbu.rects), rQ[1])
        = CASE v = "fill" -> At("pixel", 0, fbu.rects)
            [] v = "jpegRect" -> At("len", 0, fbu.rects)
            [] v = "pngRect" /\ fbu.encoding = "tightpng" -> At("len", 0, fbu.rects)
            [] v = "basic" /\ fbu.encoding = "tight" -> At("filter", fbu.area, fbu.rects)
            [] v = "plain" /\ fbu.encoding = "tight" -> TightData(fbu.area, fbu.rects)
            [] OTHER -> Lost
  <2>1. CASE fbu.encoding = "tight"
    <3>1. PlaceAfter(At("ctl", fbu.area, fbu.rects), rQ[1]) = AfterControl(v, fbu.area, fbu.rects)
      BY DEF PlaceAfter, At
    <3> QED
      BY <1>7, <2>1, <3>1 DEF AfterControl
  <2>2. CASE fbu.encoding = "tightpng"
    <3>1. PlaceAfter(At("png", 0, fbu.rects), rQ[1])
            = CASE v = "pngRect" -> At("len", 0, fbu.rects)
                [] v \in {"fill", "jpegRect"} -> AfterControl(v, 0, fbu.rects)
                [] OTHER -> Lost
      BY DEF PlaceAfter, At
    <3> QED
      BY <1>7, <2>2, <3>1 DEF AfterControl
  <2> QED
    BY <1>2, <2>1, <2>2 DEF Tight
<1>9. dec'.ctl = v /\ dec'.filter = "null" /\ ~dec'.len /\ ~dec'.colours
  BY <1>1, <1>2, <1>3 DEF Decs
<1>10. BodyPlace(fbu, dec') = TightPlace(fbu, dec')
  BY <1>2, InTight
<1> HIDE DEF x, n, v
<1>11. TightPlace(fbu, dec')
        = CASE v = "fill" -> At("pixel", 0, fbu.rects)
            [] v = "jpegRect" -> At("len", 0, fbu.rects)
            [] v = "pngRect" /\ fbu.encoding = "tightpng" -> At("len", 0, fbu.rects)
            [] v = "basic" /\ fbu.encoding = "tight" -> At("filter", fbu.area, fbu.rects)
            [] v = "plain" /\ fbu.encoding = "tight" -> TightData(fbu.area, fbu.rects)
            [] OTHER -> Lost
  BY <1>2, <1>7, <1>9 DEF TightPlace, Tight
<1>12. Remembers(fbu, dec')
  <2>1. dec' = [dec EXCEPT !.ctl = v]
    BY <1>1 DEF v
  <2> QED
    BY <1>2, <1>3, <1>7, <2>1 DEF Remembers, Controls, Decs
<1>13. Leads(BodyPlace(fbu, dec'), SubSeq(rQ, 1 + 1, Len(rQ)) \o net, alive, owed)
  BY <1>6, <1>8, <1>10, <1>11
<1> QED
  BY <1>1, <1>6, <1>12, <1>13, KeepAligned

(* a colour to fill with, *)
LEMMA TightFillAligned ==
  ASSUME UpdatesTyped, UpdatesTyped', Aligned, TightFill
  PROVE  Aligned'
<1>1. InRect(Tight) /\ "null" \notin Tight /\ Read(<<"pixel">>) /\ Done(Paint)
      /\ dec.ctl = "fill" /\ dec' = [dec EXCEPT !.ctl = "null"]
  BY DEF TightFill, Tight
<1>2. Remembers(fbu, dec) /\ dec \in Decs /\ fbu.encoding \in Tight
  BY <1>1, InRectFacts
<1>3. BodyPlace(fbu, dec) = At("pixel", 0, fbu.rects)
  BY <1>1, <1>2, InTight DEF TightPlace
<1>4. Blank(dec')
  BY <1>1, <1>2 DEF Remembers, Blank, Tight, Decs
<1>5. PlaceAfter(At("pixel", 0, fbu.rects), rQ[1]) = Between(fbu.rects - 1)
  BY EndOfRect
<1>6. "pixel" # "lost" /\ "pixel" # "png"
  OBVIOUS
<1> QED
  BY <1>1, <1>3, <1>4, <1>5, <1>6, LastField, Zenon

(* a picture, *)
LEMMA TightImageAligned ==
  ASSUME UpdatesTyped, UpdatesTyped', Aligned, TightImage
  PROVE  Aligned'
<1>1. /\ InRect(Tight) /\ "null" \notin Tight
      /\ dec.ctl = "jpegRect" \/ (dec.ctl = "pngRect" /\ fbu.encoding = "tightpng")
  BY DEF TightImage, Tight
<1>2. Remembers(fbu, dec) /\ dec \in Decs /\ fbu.encoding \in Tight
  BY <1>1, InRectFacts
<1>3. BodyPlace(fbu, dec) = At(IF dec.len THEN "data" ELSE "len", 0, fbu.rects)
  BY <1>1, <1>2, InTight DEF TightPlace
<1>4. CASE ReadLength
  <2>1. ~dec.len /\ dec' = [dec EXCEPT !.len = TRUE]
    BY <1>4 DEF ReadLength
  <2>2. BodyPlace(fbu, dec) = At("len", 0, fbu.rects)
    BY <1>3, <2>1
  <2>3. dec'.ctl = dec.ctl /\ dec'.len
    BY <1>2, <2>1 DEF Decs
  <2>4. BodyPlace(fbu, dec') = At("data", 0, fbu.rects)
    BY <1>1, <1>2, <2>3, InTight DEF TightPlace
  <2>5. Remembers(fbu, dec')
    BY <1>1, <1>2, <2>1 DEF Remembers, Decs
  <2> QED
    BY <1>1, <1>2, <1>4, <2>2, <2>4, <2>5, ReadLengthAligned, Zenon
<1>5. CASE /\ dec.len /\ Read(<<"data">>)
           /\ dec' = [dec EXCEPT !.len = FALSE, !.ctl = "null"]
           /\ \E s \in (IF fbu.area = 0 THEN {screen} ELSE PaintImage) : Done(s)
           /\ UNCHANGED leftover
  <2>1. dec.len /\ Read(<<"data">>) /\ \E s : Done(s)
    BY <1>5, Zenon
  <2>2. BodyPlace(fbu, dec) = At("data", 0, fbu.rects)
    BY <1>3, <2>1
  <2>3. dec'.len = FALSE /\ dec'.ctl = "null" /\ dec'.lines = dec.lines /\ dec'.subrects = dec.subrects
        /\ dec'.tiles = dec.tiles /\ dec'.filter = dec.filter /\ dec'.colours = dec.colours
        /\ dec'.zlen = dec.zlen /\ dec'.segments = dec.segments
    BY <1>2, <1>5 DEF Decs
  <2>4. Blank(dec')
    BY <1>1, <1>2, <2>3 DEF Remembers, Blank, Tight, Decs
  <2>5. PlaceAfter(At("data", 0, fbu.rects), rQ[1]) = Between(fbu.rects - 1)
    BY EndOfRect
  <2>6. "data" # "lost" /\ "data" # "png"
    OBVIOUS
  <2> QED
    BY <1>1, <2>1, <2>2, <2>4, <2>5, <2>6, LastField, Zenon
<1> QED
  BY <1>4, <1>5, Zenon DEF TightImage

(* Where Tight stands once it has its filter.                              *)
LEMMA BasicPlace ==
  ASSUME NEW f, NEW d, f.encoding = "tight", d.ctl \in {"basic", "plain"}
  PROVE  /\ d.filter = "null" /\ d.ctl = "basic" => BodyPlace(f, d) = At("filter", f.area, f.rects)
         /\ d.filter = "paletteFilter" /\ ~d.colours =>
              BodyPlace(f, d) = At("palette", f.area, f.rects)
         /\ d.filter = "badFilter" => BodyPlace(f, d) = Lost
         /\ ~(d.filter = "null" /\ d.ctl = "basic") /\ d.filter # "badFilter"
              /\ ~(d.filter = "paletteFilter" /\ ~d.colours) =>
              BodyPlace(f, d) = IF d.len THEN At("data", 0, f.rects) ELSE TightData(f.area, f.rects)
<1>1. BodyPlace(f, d) = TightPlace(f, d)
  BY InTight DEF Tight
<1>2. TightPlace(f, d) =
         CASE d.filter = "null" /\ d.ctl = "basic" -> At("filter", f.area, f.rects)
           [] d.filter = "paletteFilter" /\ ~d.colours -> At("palette", f.area, f.rects)
           [] d.filter = "badFilter" -> Lost
           [] OTHER -> IF d.len THEN At("data", 0, f.rects) ELSE TightData(f.area, f.rects)
  BY DEF TightPlace
<1> QED
  BY <1>1, <1>2

(* What a basic or plain Tight rectangle has to start from. *)
LEMMA BasicFacts ==
  ASSUME UpdatesTyped, Aligned, Basic
  PROVE  /\ InRect({"tight"}) /\ "null" \notin {"tight"} /\ dec.ctl \in {"basic", "plain"}
         /\ fbu.encoding = "tight" /\ fbu.encoding \in Tight
         /\ Remembers(fbu, dec) /\ dec \in Decs /\ fbu.area \in Nat
         /\ Leads(BodyPlace(fbu, dec), Ahead, alive, owed)
<1>1. InRect({"tight"}) /\ "null" \notin {"tight"} /\ dec.ctl \in {"basic", "plain"}
  BY DEF Basic
<1>2. Remembers(fbu, dec) /\ dec \in Decs /\ fbu.area \in Nat
      /\ Leads(BodyPlace(fbu, dec), Ahead, alive, owed)
  BY <1>1, InRectFacts
<1> QED
  BY <1>1, <1>2 DEF InRect, Tight

(* The filter, *)
LEMMA TightFilterAligned ==
  ASSUME UpdatesTyped, UpdatesTyped', Aligned, TightFilter
  PROVE  Aligned'
<1>1. Basic /\ dec.filter = "null" /\ Keep(screen)
  BY DEF TightFilter
<1>2. /\ InRect({"tight"}) /\ "null" \notin {"tight"} /\ dec.ctl \in {"basic", "plain"}
      /\ fbu.encoding = "tight" /\ Remembers(fbu, dec) /\ dec \in Decs
      /\ Leads(BodyPlace(fbu, dec), Ahead, alive, owed)
  BY <1>1, BasicFacts
<1>3. ~dec.len /\ ~dec.colours
  BY <1>1, <1>2 DEF Remembers
<1>4. CASE dec.ctl = "basic" /\ Read(<<"filter">>) /\ dec' = [dec EXCEPT !.filter = rQ[1].val]
  <2> DEFINE v == rQ[1].val
  <2>1. BodyPlace(fbu, dec) = At("filter", fbu.area, fbu.rects)
    BY <1>1, <1>2, <1>4, BasicPlace
  <2>2. "filter" # "lost" /\ "filter" = IF "filter" = "png" THEN "ctl" ELSE "filter"
    OBVIOUS
  <2>3. /\ Reads(1) /\ ~misread' /\ Expects(At("filter", fbu.area, fbu.rects), rQ[1])
        /\ Leads(PlaceAfter(At("filter", fbu.area, fbu.rects), rQ[1]),
                 SubSeq(rQ, 1 + 1, Len(rQ)) \o net, alive, owed)
    BY <1>2, <1>4, <2>1, <2>2, ReadsNext, Zenon
  <2>4. v \in {"copyFilter", "gradientFilter", "paletteFilter", "badFilter"}
    BY <2>3 DEF Expects, Values, Listed, At
  <2>5. PlaceAfter(At("filter", fbu.area, fbu.rects), rQ[1])
          = CASE v = "paletteFilter" -> At("palette", fbu.area, fbu.rects)
              [] v = "badFilter" -> Lost
              [] OTHER -> TightData(fbu.area, fbu.rects)
    BY DEF PlaceAfter, At
  <2>6. dec' = [dec EXCEPT !.filter = v]
    BY <1>4
  <2> HIDE DEF v
  <2>7. dec'.filter = v /\ dec'.ctl = "basic" /\ dec'.len = dec.len /\ dec'.colours = dec.colours
    BY <1>2, <1>4, <2>6 DEF Decs
  <2>8. BodyPlace(fbu, dec') = PlaceAfter(At("filter", fbu.area, fbu.rects), rQ[1])
    <3>1. CASE v = "paletteFilter"
      BY <1>2, <1>3, <2>5, <2>7, <3>1, BasicPlace
    <3>2. CASE v = "badFilter"
      BY <1>2, <1>3, <2>5, <2>7, <3>2, BasicPlace
    <3>3. CASE v \in {"copyFilter", "gradientFilter"}
      BY <1>2, <1>3, <2>5, <2>7, <3>3, BasicPlace
    <3> QED
      BY <2>4, <3>1, <3>2, <3>3
  <2>9. Remembers(fbu, dec')
    BY <1>2, <1>3, <1>4, <2>4, <2>6 DEF Remembers, Filters, Decs
  <2>10. Leads(BodyPlace(fbu, dec'), SubSeq(rQ, 1 + 1, Len(rQ)) \o net, alive, owed)
    BY <2>3, <2>8
  <2> QED
    BY <1>1, <1>2, <2>3, <2>9, <2>10, KeepAligned
<1>5. CASE /\ dec.ctl = "plain" /\ dec' = [dec EXCEPT !.filter = "copyFilter"]
           /\ UNCHANGED <<net, rQ, misread>>
  <2>1. Reads(0) /\ ~misread'
    BY <1>5, NothingReads DEF NothingRead
  <2>2. BodyPlace(fbu, dec) = TightData(fbu.area, fbu.rects)
    BY <1>1, <1>2, <1>3, <1>5, BasicPlace
  <2>3. /\ dec'.filter = "copyFilter" /\ dec'.ctl = "plain" /\ dec'.len = dec.len
        /\ dec'.colours = dec.colours
    BY <1>2, <1>5 DEF Decs
  <2>4. BodyPlace(fbu, dec') = TightData(fbu.area, fbu.rects)
    BY <1>2, <1>3, <2>3, BasicPlace
  <2>5. Remembers(fbu, dec')
    BY <1>2, <1>3, <1>5 DEF Remembers, Filters, Decs
  <2>6. Leads(BodyPlace(fbu, dec'), SubSeq(rQ, 0 + 1, Len(rQ)) \o net, alive, owed)
    BY <1>2, <2>2, <2>4, AtFirst
  <2> QED
    BY <1>1, <1>2, <2>1, <2>5, <2>6, KeepAligned
<1> QED
  BY <1>4, <1>5, Zenon DEF TightFilter

(* the palette, *)
LEMMA TightPaletteAligned ==
  ASSUME UpdatesTyped, UpdatesTyped', Aligned, TightPalette
  PROVE  Aligned'
<1>1. /\ Basic /\ dec.filter = "paletteFilter" /\ ~dec.colours /\ Keep(screen)
      /\ Read(<<"palette">>) /\ dec' = [dec EXCEPT !.colours = TRUE]
  BY DEF TightPalette
<1>2. /\ InRect({"tight"}) /\ "null" \notin {"tight"} /\ dec.ctl \in {"basic", "plain"}
      /\ fbu.encoding = "tight" /\ Remembers(fbu, dec) /\ dec \in Decs
  BY <1>1, BasicFacts
<1>3. BodyPlace(fbu, dec) = At("palette", fbu.area, fbu.rects)
  BY <1>1, <1>2, BasicPlace
<1>4. "palette" # "lost" /\ "palette" = IF "palette" = "png" THEN "ctl" ELSE "palette"
  OBVIOUS
<1>5. /\ Reads(1) /\ ~misread'
      /\ Leads(PlaceAfter(At("palette", fbu.area, fbu.rects), rQ[1]),
               SubSeq(rQ, 1 + 1, Len(rQ)) \o net, alive, owed)
  BY <1>1, <1>2, <1>3, <1>4, ReadsNext, Zenon
<1>6. PlaceAfter(At("palette", fbu.area, fbu.rects), rQ[1]) = TightData(fbu.area, fbu.rects)
  BY DEF PlaceAfter, At
<1>7. ~dec.len
  BY <1>1, <1>2 DEF Remembers
<1>8. /\ dec'.filter = "paletteFilter" /\ dec'.ctl = dec.ctl /\ dec'.len = dec.len /\ dec'.colours
  BY <1>1, <1>2 DEF Decs
<1>9. BodyPlace(fbu, dec') = TightData(fbu.area, fbu.rects)
  BY <1>2, <1>7, <1>8, BasicPlace
<1>10. Remembers(fbu, dec')
  BY <1>1, <1>2, <1>7 DEF Remembers, Decs
<1>11. Leads(BodyPlace(fbu, dec'), SubSeq(rQ, 1 + 1, Len(rQ)) \o net, alive, owed)
  BY <1>5, <1>6, <1>9
<1> QED
  BY <1>1, <1>2, <1>5, <1>10, <1>11, KeepAligned

(* and the pixels, with or without a length. *)
LEMMA TightPixelsAligned ==
  ASSUME UpdatesTyped, UpdatesTyped', Aligned, TightPixels, leftover = "none", leftover' = "none"
  PROVE  Aligned'
<1> DEFINE S == {"tight"}
<1>1. Basic /\ (dec.filter \in {"copyFilter", "gradientFilter"}
                  \/ (dec.filter = "paletteFilter" /\ dec.colours))
  BY DEF TightPixels
<1>2. /\ InRect(S) /\ "null" \notin S /\ dec.ctl \in {"basic", "plain"}
      /\ fbu.encoding = "tight" /\ fbu.encoding \in Tight
      /\ Remembers(fbu, dec) /\ dec \in Decs /\ fbu.area \in Nat
      /\ Leads(BodyPlace(fbu, dec), Ahead, alive, owed)
  BY <1>1, BasicFacts
<1> HIDE DEF S
<1>3. BodyPlace(fbu, dec) = IF dec.len THEN At("data", 0, fbu.rects) ELSE TightData(fbu.area, fbu.rects)
  BY <1>1, <1>2, BasicPlace
<1>4. /\ dec.lines = 0 /\ dec.subrects = 0 /\ dec.tiles = 0 /\ ~dec.zlen /\ dec.segments = {}
  BY <1>2 DEF Remembers, Decs
<1>5. ASSUME dec' = TightDone(dec) PROVE Blank(dec')
  <2>1. /\ dec'.ctl = "null" /\ dec'.filter = "null" /\ dec'.len = FALSE /\ dec'.colours = FALSE
        /\ dec'.lines = dec.lines /\ dec'.subrects = dec.subrects /\ dec'.tiles = dec.tiles
        /\ dec'.zlen = dec.zlen /\ dec'.segments = dec.segments
    BY <1>2, <1>5 DEF TightDone, Decs
  <2> QED
    BY <1>4, <2>1 DEF Blank
<1>6. CASE /\ fbu.area = 0
           /\ dec' = [TightDone(dec) EXCEPT !.colours = dec.colours]
           /\ leftover' = IF dec.colours THEN "palette" ELSE leftover
           /\ Done(screen) /\ UNCHANGED <<net, rQ, misread>>
  <2>1. ~dec.colours /\ ~dec.len
    BY <1>2, <1>6 DEF Remembers
  <2>2. Reads(0) /\ ~misread'
    BY <1>6, NothingReads DEF NothingRead
  <2>3. BodyPlace(fbu, dec) = Between(fbu.rects - 1)
    BY <1>3, <1>6, <2>1 DEF TightData
  <2>4. Blank(dec')
    <3>1. /\ dec'.ctl = "null" /\ dec'.filter = "null" /\ dec'.len = FALSE
          /\ dec'.colours = dec.colours
          /\ dec'.lines = dec.lines /\ dec'.subrects = dec.subrects /\ dec'.tiles = dec.tiles
          /\ dec'.zlen = dec.zlen /\ dec'.segments = dec.segments
      BY <1>2, <1>6 DEF TightDone, Decs
    <3> QED
      BY <1>4, <2>1, <3>1 DEF Blank
  <2>5. Leads(Between(fbu.rects - 1), SubSeq(rQ, 0 + 1, Len(rQ)) \o net, alive, owed)
    BY <1>2, <2>3, AtFirst
  <2> QED
    BY <1>2, <1>6, <2>2, <2>4, <2>5, DoneAligned
<1>7. CASE /\ fbu.area = 1 /\ Read(<<"pixels">>)
           /\ dec' = TightDone(dec) /\ Done(Paint) /\ UNCHANGED leftover
  <2>1. ~dec.len
    BY <1>1, <1>2, <1>7 DEF Remembers
  <2>2. BodyPlace(fbu, dec) = At("pixels", 0, fbu.rects)
    BY <1>3, <1>7, <2>1 DEF TightData
  <2>3. PlaceAfter(At("pixels", 0, fbu.rects), rQ[1]) = Between(fbu.rects - 1)
    BY EndOfRect
  <2>4. "pixels" # "lost" /\ "pixels" # "png"
    OBVIOUS
  <2> QED
    BY <1>2, <1>5, <1>7, <2>2, <2>3, <2>4, LastField, Zenon
<1>8. CASE fbu.area > 1 /\ ReadLength
  <2>1. ~dec.len /\ dec' = [dec EXCEPT !.len = TRUE]
    BY <1>8 DEF ReadLength
  <2>2. BodyPlace(fbu, dec) = At("len", 0, fbu.rects)
    BY <1>2, <1>3, <1>8, <2>1 DEF TightData
  <2>3. /\ dec'.ctl = dec.ctl /\ dec'.filter = dec.filter /\ dec'.colours = dec.colours /\ dec'.len
    BY <1>2, <2>1 DEF Decs
  <2>4. BodyPlace(fbu, dec') = At("data", 0, fbu.rects)
    BY <1>1, <1>2, <2>3, BasicPlace
  <2>5. Remembers(fbu, dec')
    BY <1>1, <1>2, <1>8, <2>1 DEF Remembers, Decs
  <2> QED
    BY <1>2, <1>8, <2>2, <2>4, <2>5, ReadLengthAligned, Zenon
<1>9. CASE /\ fbu.area > 1 /\ dec.len /\ Read(<<"data">>)
           /\ dec' = TightDone(dec) /\ Done(Paint) /\ UNCHANGED leftover
  <2>2. BodyPlace(fbu, dec) = At("data", 0, fbu.rects)
    BY <1>3, <1>9
  <2>3. PlaceAfter(At("data", 0, fbu.rects), rQ[1]) = Between(fbu.rects - 1)
    BY EndOfRect
  <2>4. "data" # "lost" /\ "data" # "png"
    OBVIOUS
  <2> QED
    BY <1>2, <1>5, <1>9, <2>2, <2>3, <2>4, LastField, Zenon
<1> QED
  BY <1>6, <1>7, <1>8, <1>9, Zenon DEF TightPixels

(* ZRLE: the length, then the tiles. *)
LEMMA ZRLEAligned ==
  ASSUME UpdatesTyped, UpdatesTyped', Aligned, ZRLE
  PROVE  Aligned'
<1> DEFINE S == {"zrle"}
<1>1. InRect(S) /\ "null" \notin S /\ fbu.encoding = "zrle"
  BY DEF ZRLE, InRect
<1> HIDE DEF S
<1>2. Remembers(fbu, dec) /\ dec \in Decs
  BY <1>1, InRectFacts
<1>3. CASE /\ ~dec.zlen /\ Read(<<"zlen">>)
           /\ dec' = [dec EXCEPT !.zlen = TRUE] /\ Keep(screen)
  <2>1. BodyPlace(fbu, dec) = At("zlen", 0, fbu.rects)
    BY <1>1, <1>3 DEF BodyPlace, Tight, Body
  <2>2. "zlen" # "lost" /\ "zlen" = IF "zlen" = "png" THEN "ctl" ELSE "zlen"
    OBVIOUS
  <2>3. /\ Reads(1) /\ ~misread'
        /\ Leads(PlaceAfter(At("zlen", 0, fbu.rects), rQ[1]),
                 SubSeq(rQ, 1 + 1, Len(rQ)) \o net, alive, owed)
    BY <1>1, <1>3, <2>1, <2>2, ReadsNext, Zenon
  <2>4. PlaceAfter(At("zlen", 0, fbu.rects), rQ[1]) = At("tiles", 0, fbu.rects)
    BY DEF PlaceAfter, At
  <2>5. dec'.zlen
    BY <1>2, <1>3 DEF Decs
  <2>6. BodyPlace(fbu, dec') = At("tiles", 0, fbu.rects)
    BY <1>1, <2>5 DEF BodyPlace, Tight
  <2>7. Remembers(fbu, dec')
    BY <1>1, <1>2, <1>3 DEF Remembers, Decs
  <2>8. Leads(BodyPlace(fbu, dec'), SubSeq(rQ, 1 + 1, Len(rQ)) \o net, alive, owed)
    BY <2>3, <2>4, <2>6
  <2> QED
    BY <1>1, <1>3, <2>3, <2>7, <2>8, KeepAligned
<1>4. CASE /\ dec.zlen /\ Read(<<"tiles">>) /\ rQ[1].val # "bad"
           /\ dec' = [dec EXCEPT !.zlen = FALSE]
           /\ Done(IF fbu.area = 0 THEN screen ELSE Paint)
  <2>1. BodyPlace(fbu, dec) = At("tiles", 0, fbu.rects)
    BY <1>1, <1>4 DEF BodyPlace, Tight
  <2>2. PlaceAfter(At("tiles", 0, fbu.rects), rQ[1]) = Between(fbu.rects - 1)
    BY <1>4 DEF PlaceAfter, At
  <2>3. Blank(dec')
    BY <1>1, <1>2, <1>4 DEF Remembers, Blank, Tight, Decs
  <2>4. "tiles" # "lost" /\ "tiles" # "png"
    OBVIOUS
  <2> QED
    BY <1>1, <1>4, <2>1, <2>2, <2>3, <2>4, LastField, Zenon
<1> QED
  BY <1>3, <1>4, Zenon DEF ZRLE

(* A JPEG rectangle stands before a marker, and knows whether its size has *)
(* come.                                                                   *)
LEMMA JPEGFacts ==
  ASSUME UpdatesTyped, Aligned, InRect({"jpeg"})
  PROVE  /\ "null" \notin {"jpeg"} /\ fbu.encoding = "jpeg" /\ Remembers(fbu, dec) /\ dec \in Decs
         /\ \A d : BodyPlace(fbu, d) = At("marker", IF "sof" \in d.segments THEN 1 ELSE 0, fbu.rects)
<1>1. "null" \notin {"jpeg"}
  OBVIOUS
<1>2. fbu.encoding = "jpeg" /\ Remembers(fbu, dec) /\ dec \in Decs
  BY <1>1, InRectFacts
<1>3. \A d : BodyPlace(fbu, d) = At("marker", IF "sof" \in d.segments THEN 1 ELSE 0, fbu.rects)
  BY <1>2 DEF BodyPlace, Tight
<1> QED
  BY <1>1, <1>2, <1>3

(* JPEG: segments up to the end of the picture. *)
LEMMA JPEGAligned ==
  ASSUME UpdatesTyped, UpdatesTyped', Aligned, JPEGSegment \/ JPEGEnd
  PROVE  Aligned'
<1> DEFINE n == IF "sof" \in dec.segments THEN 1 ELSE 0
           v == rQ[1].val
<1>1. /\ InRect({"jpeg"}) /\ "null" \notin {"jpeg"} /\ fbu.encoding = "jpeg" /\ Remembers(fbu, dec)
      /\ dec \in Decs /\ BodyPlace(fbu, dec) = At("marker", n, fbu.rects)
      /\ \A d : BodyPlace(fbu, d) = At("marker", IF "sof" \in d.segments THEN 1 ELSE 0, fbu.rects)
  <2>1. InRect({"jpeg"})
    BY DEF JPEGSegment, JPEGEnd
  <2> QED
    BY <2>1, JPEGFacts
<1>2. PlaceAfter(At("marker", n, fbu.rects), rQ[1]) = AfterMarker(v, n, fbu.rects)
  BY DEF PlaceAfter, At
<1>3. "marker" # "lost" /\ "marker" = (IF "marker" = "png" THEN "ctl" ELSE "marker") /\ "marker" # "png"
      /\ "marker" \notin {"lost", "png"} /\ "segment" \notin {"lost", "png"}
  OBVIOUS
<1>4. CASE JPEGSegment
  <2>1. /\ v \notin {"eoi", "bad"} /\ Read(Segment(v)) /\ Keep(screen)
        /\ dec' = [dec EXCEPT !.segments = @ \union {v}]
    BY <1>4, Zenon DEF JPEGSegment
  <2> DEFINE m == IF v = "sof" THEN 1 ELSE n
  <2>2. BodyPlace(fbu, dec') = At("marker", m, fbu.rects)
    <3>1. dec'.segments = dec.segments \union {v}
      BY <1>1, <2>1 DEF Decs
    <3>2. "sof" \in dec'.segments <=> v = "sof" \/ "sof" \in dec.segments
      BY <3>1
    <3> QED
      BY <1>1, <3>2
  <2>3. Remembers(fbu, dec')
    <3> HIDE DEF v
    <3> QED
      BY <1>1, <2>1 DEF Remembers, Decs
  <2>4. CASE v = "start"
    <3>1. Read(<<"marker">>) /\ AfterMarker(v, n, fbu.rects) = At("marker", m, fbu.rects)
      BY <2>1, <2>4 DEF Segment, AfterMarker
    <3> HIDE DEF n, v
    <3>2. /\ Reads(1) /\ ~misread'
          /\ Leads(PlaceAfter(At("marker", n, fbu.rects), rQ[1]),
                   SubSeq(rQ, 1 + 1, Len(rQ)) \o net, alive, owed)
      BY <1>1, <1>3, <3>1, ReadsNext, Zenon
    <3>3. Leads(BodyPlace(fbu, dec'), SubSeq(rQ, 1 + 1, Len(rQ)) \o net, alive, owed)
      BY <1>2, <2>2, <3>1, <3>2
    <3> QED
      BY <1>1, <2>1, <2>3, <3>2, <3>3, KeepAligned
  <2>5. CASE v # "start"
    <3>1. Read(<<"marker", "segment">>) /\ AfterMarker(v, n, fbu.rects) = At("segment", m, fbu.rects)
      BY <2>1, <2>5 DEF Segment, AfterMarker
    <3>2. PlaceAfter(At("segment", m, fbu.rects), rQ[2]) = At("marker", m, fbu.rects)
      BY DEF PlaceAfter, At
    <3> HIDE DEF n, v, m
    <3>3. PlaceAfter(At("marker", n, fbu.rects), rQ[1]) = At("segment", m, fbu.rects)
      BY <1>2, <3>1
    <3>4. /\ Reads(2) /\ ~misread'
          /\ Leads(PlaceAfter(At("segment", m, fbu.rects), rQ[2]),
                   SubSeq(rQ, 2 + 1, Len(rQ)) \o net, alive, owed)
      BY <1>1, <1>3, <3>1, <3>3, ReadsBoth, Zenon
    <3>5. Leads(BodyPlace(fbu, dec'), SubSeq(rQ, 2 + 1, Len(rQ)) \o net, alive, owed)
      BY <2>2, <3>2, <3>4
    <3> QED
      BY <1>1, <2>1, <2>3, <3>4, <3>5, KeepAligned
  <2> QED
    BY <2>4, <2>5
<1>5. CASE JPEGEnd
  <2>1. /\ v = "eoi" /\ "sof" \in dec.segments /\ Read(<<"marker">>)
        /\ dec' = [dec EXCEPT !.segments = {}] /\ \E s : Done(s)
    BY <1>5, Zenon DEF JPEGEnd
  <2>2. PlaceAfter(At("marker", n, fbu.rects), rQ[1]) = Between(fbu.rects - 1)
    BY <1>2, <2>1 DEF AfterMarker
  <2>3. Blank(dec')
    BY <1>1, <2>1 DEF Remembers, Blank, Tight, Decs
  <2> HIDE DEF n
  <2> QED
    BY <1>1, <1>3, <2>1, <2>2, <2>3, LastField, Zenon
<1> QED
  BY <1>4, <1>5

(* An exception ends the session, and the loop.                            *)
LEMMA ThrowsAligned ==
  ASSUME Aligned, run \in {"idle", "loop"},
         UnknownEncoding \/ HextileThrows \/ TightThrows \/ JPEGThrows \/ ZRLEThrows
  PROVE  Aligned' /\ net' = <<>>
<1>1. EndSession(FALSE) /\ UNCHANGED misread
  BY Zenon DEF UnknownEncoding, HextileThrows, TightThrows, JPEGThrows, ZRLEThrows, Throw
<1>2. ~alive' /\ run' = "idle" /\ net' = <<>>
  BY <1>1 DEF EndSession, Return
<1>3. ~misread'
  BY <1>1, Zenon DEF Aligned
<1> QED
  BY <1>2, <1>3 DEF Aligned

(* So every rectangle is read in step. *)
LEMMA RectsAligned ==
  ASSUME UpdatesTyped, UpdatesTyped', Aligned, Rects, leftover = "none", leftover' = "none"
  PROVE  Aligned'
<1>1. run \in {"idle", "loop"}
  BY DEF UpdatesTyped
<1> QED
  BY <1>1, RectHeaderAligned, PseudoAligned, RawAligned, CopyRectAligned, RREAligned,
     HextileAligned, TightControlAligned, TightFillAligned, TightImageAligned,
     TightFilterAligned, TightPaletteAligned, TightPixelsAligned, ZRLEAligned, JPEGAligned,
     ThrowsAligned, Zenon DEF Rects

(* Between two messages.                                                   *)
LEMMA BetweenFacts ==
  ASSUME UpdatesTyped, Aligned, Handling, fbu.rects = 0
  PROVE  /\ run = "loop" /\ ~flushing /\ fbu.encoding = "null" /\ Remembers(fbu, dec)
         /\ NextPlace(fbu, dec) = At("type", 0, 0) /\ Between(0) = At("type", 0, 0)
         /\ Leads(At("type", 0, 0), Ahead, alive, owed)
         /\ alive => NextDue /\ Offered
<1>1. run = "loop" /\ ~flushing
  BY DEF Handling
<1>2. Remembers(fbu, dec) /\ Leads(NextPlace(fbu, dec), Ahead, alive, owed)
  BY <1>1 DEF Aligned
<1>3. NextPlace(fbu, dec) = At("type", 0, 0) /\ Between(0) = At("type", 0, 0)
  BY DEF NextPlace, Between
<1>4. fbu.encoding = "null"
  BY <1>2 DEF Remembers
<1>5. alive => NextDue /\ Offered
  BY DEF Aligned, Served
<1> QED
  BY <1>1, <1>2, <1>3, <1>4, <1>5

(* A message that is read whole, and the session goes on.                  *)
LEMMA MessageGoesOn ==
  ASSUME UpdatesTyped, UpdatesTyped', Aligned, Handling, fbu.rects = 0, Handled,
         ~misread', NEW k \in Nat, Reads(k),
         Leads(At("type", 0, 0), SubSeq(rQ, k + 1, Len(rQ)) \o net, alive, owed),
         alive => NextDue' /\ Offered'
  PROVE  Aligned'
<1>1. /\ run = "loop" /\ ~flushing /\ Remembers(fbu, dec) /\ NextPlace(fbu, dec) = At("type", 0, 0)
  BY BetweenFacts
<1>2. run' = "loop" /\ UNCHANGED <<alive, fbu, dec, flushing, owed>>
  BY <1>1 DEF Handled, Return
<1>3. Ahead' = SubSeq(rQ, k + 1, Len(rQ)) \o net
  BY AheadRead
<1>4. NextPlace(fbu', dec') = At("type", 0, 0) /\ Remembers(fbu', dec')
  BY <1>1, <1>2
<1>5. Leads(NextPlace(fbu', dec'), Ahead', alive', owed')
  BY <1>2, <1>3, <1>4
<1>6. HasToWait'
  BY <1>2 DEF HasToWait
<1>7. ~flushing'
  BY <1>1, <1>2
<1> QED
  BY <1>2, <1>4, <1>5, <1>6, <1>7 DEF Aligned, Served

(* A message that is read whole, and asks for nothing, leaves the client   *)
(* before the next.                                                        *)
LEMMA SimpleMessage ==
  ASSUME UpdatesTyped, UpdatesTyped', Aligned, Handling, fbu.rects = 0, Handled, cu' = cu,
         ~misread', NEW k \in Nat, Reads(k), rQ[1].val # "fbu",
         \A i \in 2 .. k : rQ[i].role # "type",
         Leads(At("type", 0, 0), SubSeq(rQ, k + 1, Len(rQ)) \o net, alive, owed)
  PROVE  Aligned'
<1>1. ASSUME alive PROVE NextDue' /\ Offered'
  <2>1. NextDue /\ Offered
    BY <1>1, BetweenFacts
  <2>2. Offered'
    BY <2>1, OfferedAfterRead
  <2>3. \A i \in 1 .. k : ~(rQ[i].role = "type" /\ rQ[i].val = "fbu")
    <3> SUFFICES ASSUME NEW i \in 1 .. k PROVE ~(rQ[i].role = "type" /\ rQ[i].val = "fbu")
      OBVIOUS
    <3>1. i = 1 \/ i \in 2 .. k
      OBVIOUS
    <3> QED
      BY <3>1
  <2>4. Heads("fbu") # {} => Heads("fbu")' # {}
    BY <2>3, DueAfterRead
  <2>5. asked' = asked /\ cu' = cu /\ fbu' = fbu
    BY DEF Handled
  <2>6. NextDue'
    BY <2>1, <2>4, <2>5 DEF NextDue
  <2> QED
    BY <2>2, <2>6
<1> QED
  BY <1>1, MessageGoesOn

(* The cells of a message, by their roles.                                 *)
LEMMA MessageOne ==
  ASSUME UpdatesTyped, Aligned, Handling, fbu.rects = 0, Read(<<"type">>)
  PROVE  /\ Reads(1) /\ ~misread' /\ \A i \in 2 .. 1 : rQ[i].role # "type"
         /\ rQ[1].role = "type" /\ rQ[1] \in WireCells
         /\ Leads(AfterType(rQ[1].val), SubSeq(rQ, 1 + 1, Len(rQ)) \o net, alive, owed)
<1>1. Reads(1) /\ misread' = (misread \/ rQ[1].role # "type")
  BY ReadOne
<1>2. /\ Expects(At("type", 0, 0), rQ[1]) /\ rQ[1] \in WireCells
      /\ Leads(PlaceAfter(At("type", 0, 0), rQ[1]),
               SubSeq(rQ, 1 + 1, Len(rQ)) \o net, alive, owed)
  <2>1. Has(1) /\ Leads(At("type", 0, 0), Ahead, alive, owed)
    BY <1>1, BetweenFacts DEF Reads
  <2> QED
    BY <2>1, FirstCell
<1>3. PlaceAfter(At("type", 0, 0), rQ[1]) = AfterType(rQ[1].val)
  BY DEF PlaceAfter, At
<1>4. rQ[1].role = "type"
  BY <1>2, ExpectsRole
<1>5. ~misread'
  BY <1>1, <1>4, Zenon DEF Aligned
<1> QED
  BY <1>1, <1>2, <1>3, <1>4, <1>5

(* The fields of a message of three, *)
LEMMA MessageThree ==
  ASSUME UpdatesTyped, Aligned, Handling, fbu.rects = 0,
         NEW r2, NEW r3, Read(<<"type", r2, r3>>),
         r2 \notin {"lost", "png", "type"}, r3 \notin {"lost", "png", "type"},
         AfterType(rQ[1].val) = At(r2, 0, 0),
         NEW n3, PlaceAfter(At(r2, 0, 0), rQ[2]) = At(r3, n3, 0)
  PROVE  /\ Reads(3) /\ ~misread' /\ \A i \in 2 .. 3 : rQ[i].role # "type"
         /\ Leads(PlaceAfter(At(r3, n3, 0), rQ[3]), SubSeq(rQ, 3 + 1, Len(rQ)) \o net, alive, owed)
<1>1. Reads(3) /\ misread' = (misread \/ rQ[1].role # "type" \/ rQ[2].role # r2 \/ rQ[3].role # r3)
  BY ReadThree
<1>2. Has(3) /\ Leads(At("type", 0, 0), Ahead, alive, owed)
  BY <1>1, BetweenFacts DEF Reads
<1>3. PlaceAfter(At("type", 0, 0), rQ[1]) = At(r2, 0, 0)
  BY DEF PlaceAfter, At
<1>4. /\ Has(2) /\ Expects(At(r3, n3, 0), rQ[3])
      /\ Leads(PlaceAfter(At(r3, n3, 0), rQ[3]), SubSeq(rQ, 3 + 1, Len(rQ)) \o net, alive, owed)
  BY <1>2, <1>3, ThirdCell
<1>5. Has(1) /\ Expects(At(r2, 0, 0), rQ[2])
  BY <1>2, <1>3, <1>4, SecondCell
<1>6. Expects(At("type", 0, 0), rQ[1])
  BY <1>2, <1>5, FirstCell
<1>7. rQ[1].role = "type" /\ rQ[2].role = r2 /\ rQ[3].role = r3
  BY <1>4, <1>5, <1>6, ExpectsRole
<1>8. ~misread'
  BY <1>1, <1>7, Zenon DEF Aligned
<1>9. \A i \in 2 .. 3 : i = 2 \/ i = 3
  OBVIOUS
<1>10. \A i \in 2 .. 3 : rQ[i].role # "type"
  BY <1>7, <1>9
<1> QED
  BY <1>1, <1>4, <1>8, <1>10
(* of two, *)
LEMMA MessageTwo ==
  ASSUME UpdatesTyped, Aligned, Handling, fbu.rects = 0,
         NEW r2, Read(<<"type", r2>>), r2 \notin {"lost", "png", "type"},
         AfterType(rQ[1].val) = At(r2, 0, 0)
  PROVE  /\ Reads(2) /\ ~misread' /\ \A i \in 2 .. 2 : rQ[i].role # "type"
         /\ Expects(At(r2, 0, 0), rQ[2]) /\ rQ[1].role = "type"
         /\ Leads(PlaceAfter(At(r2, 0, 0), rQ[2]), SubSeq(rQ, 2 + 1, Len(rQ)) \o net, alive, owed)
<1>1. Reads(2) /\ misread' = (misread \/ rQ[1].role # "type" \/ rQ[2].role # r2)
  BY ReadTwo
<1>2. Has(2) /\ Leads(At("type", 0, 0), Ahead, alive, owed)
  BY <1>1, BetweenFacts DEF Reads
<1>3. PlaceAfter(At("type", 0, 0), rQ[1]) = At(r2, 0, 0)
  BY DEF PlaceAfter, At
<1>4. /\ Has(1) /\ Expects(At(r2, 0, 0), rQ[2])
      /\ Leads(PlaceAfter(At(r2, 0, 0), rQ[2]), SubSeq(rQ, 2 + 1, Len(rQ)) \o net, alive, owed)
  BY <1>2, <1>3, SecondCell
<1>5. Expects(At("type", 0, 0), rQ[1])
  BY <1>2, <1>4, FirstCell
<1>6. rQ[1].role = "type" /\ rQ[2].role = r2
  BY <1>4, <1>5, ExpectsRole
<1>7. ~misread'
  BY <1>1, <1>6, Zenon DEF Aligned
<1> QED
  BY <1>1, <1>4, <1>6, <1>7

(* and of four. *)
LEMMA MessageFour ==
  ASSUME UpdatesTyped, Aligned, Handling, fbu.rects = 0,
         NEW r2, NEW r3, NEW r4, Read(<<"type", r2, r3, r4>>),
         r2 \notin {"lost", "png", "type"}, r3 \notin {"lost", "png", "type"},
         r4 \notin {"lost", "png", "type"},
         AfterType(rQ[1].val) = At(r2, 0, 0),
         NEW n3, PlaceAfter(At(r2, 0, 0), rQ[2]) = At(r3, n3, 0),
         NEW n4, PlaceAfter(At(r3, n3, 0), rQ[3]) = At(r4, n4, 0)
  PROVE  /\ Reads(4) /\ ~misread' /\ \A i \in 2 .. 4 : rQ[i].role # "type"
         /\ Leads(PlaceAfter(At(r4, n4, 0), rQ[4]), SubSeq(rQ, 4 + 1, Len(rQ)) \o net, alive, owed)
<1>1. /\ Reads(4)
      /\ misread' = (misread \/ rQ[1].role # "type" \/ rQ[2].role # r2
                             \/ rQ[3].role # r3 \/ rQ[4].role # r4)
  BY ReadFour
<1>2. Has(4) /\ Leads(At("type", 0, 0), Ahead, alive, owed)
  BY <1>1, BetweenFacts DEF Reads
<1>3. PlaceAfter(At("type", 0, 0), rQ[1]) = At(r2, 0, 0)
  BY DEF PlaceAfter, At
<1>4. /\ Has(3) /\ Expects(At(r4, n4, 0), rQ[4])
      /\ Leads(PlaceAfter(At(r4, n4, 0), rQ[4]), SubSeq(rQ, 4 + 1, Len(rQ)) \o net, alive, owed)
  BY <1>2, <1>3, FourthCell
<1>5. Has(2) /\ Expects(At(r3, n3, 0), rQ[3])
  BY <1>2, <1>3, <1>4, ThirdCell
<1>6. Has(1) /\ Expects(At(r2, 0, 0), rQ[2])
  BY <1>2, <1>3, <1>5, SecondCell
<1>7. Expects(At("type", 0, 0), rQ[1])
  BY <1>2, <1>6, FirstCell
<1>8. rQ[1].role = "type" /\ rQ[2].role = r2 /\ rQ[3].role = r3 /\ rQ[4].role = r4
  BY <1>4, <1>5, <1>6, <1>7, ExpectsRole
<1>9. ~misread'
  BY <1>1, <1>8, Zenon DEF Aligned
<1>10. \A i \in 2 .. 4 : i = 2 \/ i = 3 \/ i = 4
  OBVIOUS
<1>11. \A i \in 2 .. 4 : rQ[i].role # "type"
  BY <1>8, <1>10
<1> QED
  BY <1>1, <1>4, <1>9, <1>11

(* What has come by the end of a session.                                  *)
LEMMA LeadsCut ==
  ASSUME NEW s \in Seq(WireCells), NEW t \in Seq(WireCells), NEW p, NEW open, NEW left,
         Leads(p, s \o t, open, left)
  PROVE  Leads(p, s \o <<>>, FALSE, left)
<1>1. \E r : Path(p, s, r)
  BY PathBegins DEF Leads
<1>2. s \o <<>> = s
  OBVIOUS
<1> QED
  BY <1>1, <1>2 DEF Leads

(* A message that ends the session: the loop stops, or reads on.           *)
LEMMA StopAligned ==
  ASSUME Aligned, EndSession(FALSE), misread' = misread
  PROVE  Aligned' /\ net' = <<>>
<1>1. ~alive' /\ run' = "idle" /\ net' = <<>>
  BY DEF EndSession, Return
<1>2. ~misread'
  BY Zenon DEF Aligned
<1> QED
  BY <1>1, <1>2 DEF Aligned

(* A message that ends the session. *)
LEMMA RejectAligned ==
  ASSUME UpdatesTyped, Aligned, Handling, fbu.rects = 0, EndSession(TRUE), misread' = misread,
         NEW k \in Nat, Has(k), rQ' = SubSeq(rQ, k + 1, Len(rQ)),
         Leads(At("type", 0, 0), SubSeq(rQ, k + 1, Len(rQ)) \o net, alive, owed)
  PROVE  Aligned' /\ net' = <<>>
<1>1. /\ run = "loop" /\ ~flushing /\ Remembers(fbu, dec) /\ NextPlace(fbu, dec) = At("type", 0, 0)
  BY BetweenFacts
<1>2. ~alive' /\ net' = <<>> /\ UNCHANGED <<fbu, dec, flushing, owed>>
  BY DEF EndSession
<1>3. ~misread'
  BY Zenon DEF Aligned
<1>4. SubSeq(rQ, k + 1, Len(rQ)) \in Seq(WireCells) /\ net \in Seq(WireCells)
  <2>1. rQ \in Seq(WireCells) /\ Len(rQ) \in Nat /\ net \in Seq(WireCells)
    BY DEF UpdatesTyped
  <2>2. \A i \in 1 .. Len(rQ) : rQ[i] \in WireCells
    BY <2>1
  <2> QED
    BY <2>1, <2>2
<1>5. Leads(At("type", 0, 0), Ahead', alive', owed')
  <2>1. Leads(At("type", 0, 0), SubSeq(rQ, k + 1, Len(rQ)) \o <<>>, FALSE, owed)
    BY <1>4, LeadsCut
  <2>2. Ahead' = SubSeq(rQ, k + 1, Len(rQ)) \o <<>>
    BY <1>2 DEF Ahead
  <2>3. Leads(At("type", 0, 0), Ahead', FALSE, owed')
    BY <1>2, <2>1, <2>2
  <2> QED
    BY <1>2, <2>3 DEF Leads
<1>6. NextPlace(fbu', dec') = At("type", 0, 0) /\ Remembers(fbu', dec') /\ ~flushing'
  BY <1>1, <1>2
<1> QED
  BY <1>2, <1>3, <1>5, <1>6 DEF Aligned

(* ServerCutText, plain or extended, but for the zlib data it may leave. *)
LEMMA CutTextAligned ==
  ASSUME UpdatesTyped, UpdatesTyped', Aligned, ServerCutText, leftover = "none", leftover' = "none"
  PROVE  Aligned'
<1>1. Handling /\ fbu.rects = 0 /\ rQ[1].val = "cut" /\ rQ[1].val # "fbu"
  BY DEF ServerCutText, Next1
<1>2. AfterType(rQ[1].val) = At("cutHead", 0, 0)
  BY <1>1 DEF AfterType
<1>3. /\ "cutHead" \notin {"lost", "png", "type"} /\ "flags" \notin {"lost", "png", "type"}
      /\ "text" \notin {"lost", "png", "type"} /\ "zlib" \notin {"lost", "png", "type"}
  OBVIOUS
<1>4. \A c : /\ PlaceAfter(At("text", 0, 0), c) = At("type", 0, 0)
             /\ PlaceAfter(At("zlib", 0, 0), c) = At("type", 0, 0)
             /\ PlaceAfter(At("flags", 0, 0), c) = At("type", 0, 0)
             /\ PlaceAfter(At("flags", 1, 0), c) = At("zlib", 0, 0)
  BY DEF PlaceAfter, At, Between
<1>5. \A c : PlaceAfter(At("cutHead", 0, 0), c) =
               IF c.val = "plain" THEN At("text", 0, 0)
               ELSE At("flags", IF c.val = "provide" THEN 1 ELSE 0, 0)
  BY DEF PlaceAfter, At
<1>6. CASE rQ[2].val = "plain" /\ Read(<<"type", "cutHead", "text">>) /\ Handled /\ cu' = cu
  <2>1. PlaceAfter(At("cutHead", 0, 0), rQ[2]) = At("text", 0, 0)
    BY <1>5, <1>6
  <2>2. /\ Reads(3) /\ ~misread' /\ \A i \in 2 .. 3 : rQ[i].role # "type"
        /\ Leads(PlaceAfter(At("text", 0, 0), rQ[3]), SubSeq(rQ, 3 + 1, Len(rQ)) \o net, alive, owed)
    BY <1>1, <1>2, <1>3, <1>6, <2>1, MessageThree, Zenon
  <2>3. Leads(At("type", 0, 0), SubSeq(rQ, 3 + 1, Len(rQ)) \o net, alive, owed)
    BY <1>4, <2>2
  <2> QED
    BY <1>1, <1>6, <2>2, <2>3, SimpleMessage
<1>7. CASE EndSession(FALSE) /\ misread' = misread
  BY <1>7, StopAligned
<1>8. CASE rQ[2].val = "extended" /\ Read(<<"type", "cutHead", "flags">>) /\ Handled /\ cu' = cu
  <2>1. PlaceAfter(At("cutHead", 0, 0), rQ[2]) = At("flags", 0, 0)
    BY <1>5, <1>8
  <2>2. /\ Reads(3) /\ ~misread' /\ \A i \in 2 .. 3 : rQ[i].role # "type"
        /\ Leads(PlaceAfter(At("flags", 0, 0), rQ[3]), SubSeq(rQ, 3 + 1, Len(rQ)) \o net, alive, owed)
    BY <1>1, <1>2, <1>3, <1>8, <2>1, MessageThree, Zenon
  <2>3. Leads(At("type", 0, 0), SubSeq(rQ, 3 + 1, Len(rQ)) \o net, alive, owed)
    BY <1>4, <2>2
  <2> QED
    BY <1>1, <1>8, <2>2, <2>3, SimpleMessage
<1>9. CASE rQ[2].val = "provide" /\ Read(<<"type", "cutHead", "flags", "zlib">>) /\ Handled /\ cu' = cu
  <2>1. PlaceAfter(At("cutHead", 0, 0), rQ[2]) = At("flags", 1, 0)
    BY <1>5, <1>9
  <2>2. PlaceAfter(At("flags", 1, 0), rQ[3]) = At("zlib", 0, 0)
    BY <1>4
  <2>3. /\ Reads(4) /\ ~misread' /\ \A i \in 2 .. 4 : rQ[i].role # "type"
        /\ Leads(PlaceAfter(At("zlib", 0, 0), rQ[4]), SubSeq(rQ, 4 + 1, Len(rQ)) \o net, alive, owed)
    BY <1>1, <1>2, <1>3, <1>9, <2>1, <2>2, MessageFour, Zenon
  <2>4. Leads(At("type", 0, 0), SubSeq(rQ, 4 + 1, Len(rQ)) \o net, alive, owed)
    BY <1>4, <2>3
  <2> QED
    BY <1>1, <1>9, <2>3, <2>4, SimpleMessage
<1> QED
  <2>1. "none" # "provide"
    OBVIOUS
  <2> QED
    BY <1>6, <1>7, <1>8, <1>9, <2>1, Zenon DEF ServerCutText, Reject

\* The first offer of continuous updates is taken, and there is no second.
LEMMA EndAligned ==
  ASSUME UpdatesTyped, UpdatesTyped', Aligned, EndOfContinuousUpdates
  PROVE  Aligned'
<1>1. /\ Handling /\ fbu.rects = 0 /\ rQ[1].val = "end" /\ rQ[1].val # "fbu" /\ Handled
      /\ Read(<<"type">>) /\ cu' = [on |-> ~cu.offered, offered |-> TRUE]
  BY DEF EndOfContinuousUpdates, Next1
<1>2. /\ Reads(1) /\ ~misread' /\ rQ[1].role = "type"
      /\ Leads(AfterType(rQ[1].val), SubSeq(rQ, 1 + 1, Len(rQ)) \o net, alive, owed)
  BY <1>1, MessageOne
<1>3. AfterType(rQ[1].val) = At("type", 0, 0)
  BY <1>1 DEF AfterType, Between
<1>4. Leads(At("type", 0, 0), SubSeq(rQ, 1 + 1, Len(rQ)) \o net, alive, owed)
  BY <1>2, <1>3
<1>5. ASSUME alive PROVE NextDue' /\ Offered'
  <2>1. Offered
    BY <1>1, <1>5, BetweenFacts
  <2>2. 1 \in Heads("end")
    <3>1. Len(Ahead) \in Nat /\ 1 <= Len(Ahead) /\ \A i \in 1 .. 1 : Ahead[i] = rQ[i]
      BY <1>2, AheadRead
    <3> QED
      BY <1>1, <1>2, <3>1 DEF Heads
  <2>3. ~cu.offered
    BY <2>1, <2>2 DEF Offered
  <2>4. cu'.on /\ cu'.offered
    BY <1>1, <2>3
  <2>5. Heads("end")' = {}
    <3>1. \A i \in Heads("end")' : i + 1 \in Heads("end") /\ i \in Int
      BY <1>2, OffersAfterRead
    <3>2. ASSUME NEW i \in Heads("end")' PROVE FALSE
      <4>1. i + 1 = 1 /\ i \in Int
        BY <2>1, <2>2, <3>1 DEF Offered
      <4>2. i = 0
        BY <4>1
      <4> QED
        BY <4>2 DEF Heads
    <3> QED
      BY <3>2
  <2> QED
    BY <2>4, <2>5 DEF NextDue, Offered
<1> QED
  BY <1>1, <1>2, <1>4, <1>5, MessageGoesOn

(* A type the client does not know. *)
LEMMA UnknownTypeAligned ==
  ASSUME UpdatesTyped, UpdatesTyped', Aligned, UnknownType
  PROVE  Aligned'
<1>1. /\ Handling /\ fbu.rects = 0 /\ Has(1)
      /\ rQ[1].val \notin {"fbu", "colourmap", "bell", "cut", "end", "fence", "xvp"}
      /\ IF rQ[1].role = "type" THEN Reject(<<"type">>, TRUE)
         ELSE Read(<<"type">>) /\ Handled /\ UNCHANGED <<cu, leftover>>
  BY DEF UnknownType
<1>2. Leads(At("type", 0, 0), Ahead, alive, owed)
  BY <1>1, BetweenFacts
<1>3. /\ Expects(At("type", 0, 0), rQ[1])
      /\ Leads(PlaceAfter(At("type", 0, 0), rQ[1]), SubSeq(rQ, 1 + 1, Len(rQ)) \o net, alive, owed)
  BY <1>1, <1>2, FirstCell
<1>4. rQ[1].role = "type"
  BY <1>3, ExpectsRole
<1>5. PlaceAfter(At("type", 0, 0), rQ[1]) = At("type", 0, 0)
  BY <1>1 DEF PlaceAfter, At, AfterType, Between
<1>6. Leads(At("type", 0, 0), SubSeq(rQ, 1 + 1, Len(rQ)) \o net, alive, owed)
  BY <1>3, <1>5
<1>7. rQ' = SubSeq(rQ, 1 + 1, Len(rQ)) /\ EndSession(TRUE) /\ misread' = misread
  <2>1. Reject(<<"type">>, TRUE) /\ Len(<<"type">>) = 1
    BY <1>1, <1>4
  <2> QED
    BY <2>1, Zenon DEF Reject
<1> QED
  BY <1>1, <1>6, <1>7, RejectAligned

(* XVP. *)
LEMMA XvpAligned ==
  ASSUME UpdatesTyped, UpdatesTyped', Aligned, Xvp
  PROVE  Aligned'
<1>1. Handling /\ fbu.rects = 0 /\ rQ[1].val = "xvp" /\ rQ[1].val # "fbu" /\ Has(2)
  BY DEF Xvp, Next1
<1>2. AfterType(rQ[1].val) = At("xvpBody", 0, 0)
  BY <1>1 DEF AfterType
<1>3. \A c : PlaceAfter(At("xvpBody", 0, 0), c) = At("type", 0, 0)
  BY DEF PlaceAfter, At, Between
<1>4. CASE rQ[2].val = "bad"
  <2>1. Leads(At("type", 0, 0), Ahead, alive, owed)
    BY <1>1, BetweenFacts
  <2>2. PlaceAfter(At("type", 0, 0), rQ[1]) = At("xvpBody", 0, 0)
    BY <1>2 DEF PlaceAfter, At
  <2>3. Leads(PlaceAfter(At("xvpBody", 0, 0), rQ[2]), SubSeq(rQ, 2 + 1, Len(rQ)) \o net, alive, owed)
    BY <1>1, <2>1, <2>2, SecondCell
  <2>4. Leads(At("type", 0, 0), SubSeq(rQ, 2 + 1, Len(rQ)) \o net, alive, owed)
    BY <1>3, <2>3
  <2>5. rQ' = SubSeq(rQ, 2 + 1, Len(rQ)) /\ EndSession(TRUE) /\ misread' = misread
    <3>1. Reject(<<"type", "xvpBody">>, TRUE) /\ Len(<<"type", "xvpBody">>) = 2
      BY <1>4 DEF Xvp
    <3> QED
      BY <3>1, Zenon DEF Reject
  <2> QED
    BY <1>1, <2>4, <2>5, RejectAligned
<1>5. CASE rQ[2].val # "bad"
  <2>1. Read(<<"type", "xvpBody">>) /\ Handled /\ cu' = cu
    BY <1>5 DEF Xvp
  <2>2. "xvpBody" \notin {"lost", "png", "type"}
    OBVIOUS
  <2>3. /\ Reads(2) /\ ~misread' /\ \A i \in 2 .. 2 : rQ[i].role # "type"
        /\ Leads(PlaceAfter(At("xvpBody", 0, 0), rQ[2]), SubSeq(rQ, 2 + 1, Len(rQ)) \o net, alive, owed)
    BY <1>1, <1>2, <2>1, <2>2, MessageTwo, Zenon
  <2>4. Leads(At("type", 0, 0), SubSeq(rQ, 2 + 1, Len(rQ)) \o net, alive, owed)
    BY <1>3, <2>3
  <2> QED
    BY <1>1, <2>1, <2>3, <2>4, SimpleMessage
<1> QED
  BY <1>4, <1>5

(* So every message besides the updates is read in step. *)
LEMMA MessagesAligned ==
  ASSUME UpdatesTyped, UpdatesTyped', Aligned, Messages, leftover = "none", leftover' = "none"
  PROVE  Aligned'
<1>1. CASE Bell
  <2>1. Handling /\ fbu.rects = 0 /\ rQ[1].val = "bell" /\ rQ[1].val # "fbu" /\ Handled
        /\ Read(<<"type">>) /\ cu' = cu
    BY <1>1 DEF Bell, Next1
  <2>2. /\ Reads(1) /\ ~misread' /\ \A i \in 2 .. 1 : rQ[i].role # "type"
        /\ Leads(AfterType(rQ[1].val), SubSeq(rQ, 1 + 1, Len(rQ)) \o net, alive, owed)
    BY <2>1, MessageOne
  <2>3. AfterType(rQ[1].val) = At("type", 0, 0)
    BY <2>1 DEF AfterType, Between
  <2>4. Leads(At("type", 0, 0), SubSeq(rQ, 1 + 1, Len(rQ)) \o net, alive, owed)
    BY <2>2, <2>3
  <2> QED
    BY <2>1, <2>2, <2>4, SimpleMessage
<1>2. CASE SetColourMap
  BY <1>2, StopAligned, Zenon DEF SetColourMap, Reject
<1>3. CASE ServerFence
  <2>1. Handling /\ fbu.rects = 0 /\ rQ[1].val = "fence" /\ rQ[1].val # "fbu"
    BY <1>3 DEF ServerFence, Next1
  <2>2. CASE EndSession(FALSE) /\ misread' = misread
    BY <2>2, StopAligned
  <2>3. CASE rQ[2].val = "request" /\ Read(<<"type", "fenceHead", "payload">>) /\ Handled /\ cu' = cu
    <3>1. AfterType(rQ[1].val) = At("fenceHead", 0, 0)
      BY <2>1 DEF AfterType
    <3>2. PlaceAfter(At("fenceHead", 0, 0), rQ[2]) = At("payload", 0, 0)
      BY <2>3 DEF PlaceAfter, At
    <3>3. "fenceHead" \notin {"lost", "png", "type"} /\ "payload" \notin {"lost", "png", "type"}
      OBVIOUS
    <3>4. /\ Reads(3) /\ ~misread' /\ \A i \in 2 .. 3 : rQ[i].role # "type"
          /\ Leads(PlaceAfter(At("payload", 0, 0), rQ[3]),
                   SubSeq(rQ, 3 + 1, Len(rQ)) \o net, alive, owed)
      BY <2>1, <2>3, <3>1, <3>2, <3>3, MessageThree, Zenon
    <3>5. PlaceAfter(At("payload", 0, 0), rQ[3]) = At("type", 0, 0)
      BY DEF PlaceAfter, At, Between
    <3>6. Leads(At("type", 0, 0), SubSeq(rQ, 3 + 1, Len(rQ)) \o net, alive, owed)
      BY <3>4, <3>5
    <3> QED
      BY <2>1, <2>3, <3>4, <3>6, SimpleMessage
  <2>4. "fence" # "none"
    OBVIOUS
  <2> QED
    BY <1>3, <2>2, <2>3, <2>4, Zenon DEF ServerFence, Reject
<1> QED
  BY <1>1, <1>2, <1>3, CutTextAligned, EndAligned, UnknownTypeAligned, XvpAligned, Zenon DEF Messages

\* The header of an update gives its rectangles, now or when the page is painted.
LEMMA UpdateAligned ==
  ASSUME UpdatesTyped, UpdatesTyped', Aligned, FramebufferUpdate, leftover = "none", leftover' = "none"
  PROVE  Aligned'
<1> DEFINE n == Num(rQ[2].val)
<1>1. /\ Handling /\ fbu.rects = 0 /\ rQ[1].val = "fbu" /\ Read(<<"type", "header">>)
      /\ fbu' = [fbu EXCEPT !.rects = n]
      /\ \/ flushing' = TRUE /\ run' = "idle" /\ n # 0
         \/ (n = 0 => asked' = (asked \/ ~cu.on)) /\ Return(TRUE) /\ flushing' = flushing
      /\ UNCHANGED dec /\ Updating
  <2>1. "update" # "none"
    OBVIOUS
  <2> QED
    BY <2>1, Zenon DEF FramebufferUpdate, Next1, Finished, Request
<1>2. /\ run = "loop" /\ ~flushing /\ fbu.encoding = "null" /\ Remembers(fbu, dec)
      /\ alive => NextDue /\ Offered
  BY <1>1, BetweenFacts
<1>3. AfterType(rQ[1].val) = At("header", 0, 0) /\ "header" \notin {"lost", "png", "type"}
  BY <1>1 DEF AfterType
<1>4. /\ Reads(2) /\ ~misread'
      /\ Leads(PlaceAfter(At("header", 0, 0), rQ[2]), SubSeq(rQ, 2 + 1, Len(rQ)) \o net, alive, owed)
  BY <1>1, <1>3, MessageTwo, Zenon
<1>5. PlaceAfter(At("header", 0, 0), rQ[2]) = Between(n)
  BY DEF PlaceAfter, At
<1>6. n \in Nat
  BY NumTyped DEF Many
<1> HIDE DEF n
<1>7. fbu'.rects = n /\ fbu'.encoding = "null" /\ fbu'.area = fbu.area
  BY <1>1, <1>2 DEF UpdatesTyped, Fbus
<1>8. Ahead' = SubSeq(rQ, 2 + 1, Len(rQ)) \o net
  BY <1>4, AheadRead
<1>9. NextPlace(fbu', dec') = Between(n)
  BY <1>7 DEF NextPlace
<1>10. UNCHANGED <<alive, cu, owed, dec>>
  BY <1>1 DEF Updating
<1>11. Leads(NextPlace(fbu', dec'), Ahead', alive', owed')
  BY <1>4, <1>5, <1>8, <1>9, <1>10
<1>12. Remembers(fbu', dec')
  BY <1>2, <1>7, <1>10 DEF Remembers
<1>13. ASSUME alive' PROVE Served'
  <2>1. Offered'
    BY <1>2, <1>4, <1>10, <1>13, OfferedAfterRead
  <2>2. NextDue'
    <3>1. CASE n = 0
      <4>1. ASSUME asked' = (asked \/ ~cu.on) PROVE asked' \/ cu.on
        BY <4>1, Zenon
      <4>2. asked' \/ cu.on
        BY <1>1, <3>1, <4>1
      <4> QED
        BY <1>10, <4>2 DEF NextDue
    <3>2. CASE n # 0
      BY <1>6, <1>7, <3>2 DEF NextDue
    <3> QED
      BY <3>1, <3>2
  <2>3. HasToWait'
    <3>1. run' = "loop" \/ flushing'
      BY <1>1, <1>2 DEF Return
    <3> QED
      BY <3>1 DEF HasToWait
  <2> QED
    BY <2>1, <2>2, <2>3 DEF Served
<1> QED
  BY <1>4, <1>7, <1>11, <1>12, <1>13 DEF Aligned

(* A step that neither reads nor writes.                                   *)
LEMMA StaysAligned ==
  ASSUME Aligned, Ahead' = Ahead, UNCHANGED <<alive, fbu, dec, cu, asked, owed, misread>>,
         alive' => HasToWait', run' = "loop" => alive \/ run = "loop", flushing' => flushing
  PROVE  Aligned'
<1>1. ~misread'
  BY Zenon DEF Aligned
<1>2. ASSUME alive' \/ run' = "loop"
      PROVE  /\ Remembers(fbu', dec') /\ Leads(NextPlace(fbu', dec'), Ahead', alive', owed')
             /\ flushing' => fbu'.encoding = "null"
  <2>1. alive \/ run = "loop"
    BY <1>2
  <2> QED
    BY <2>1 DEF Aligned
<1>3. ASSUME alive' PROVE Served'
  <2>1. NextDue /\ Offered
    BY <1>3 DEF Aligned, Served
  <2>2. \A type : Heads(type)' = Heads(type)
    BY DEF Heads
  <2>3. Heads("fbu")' = Heads("fbu") /\ Heads("end")' = Heads("end")
    BY <2>2
  <2> QED
    BY <1>3, <2>1, <2>3 DEF NextDue, Offered, Served
<1> QED
  BY <1>1, <1>2, <1>3 DEF Aligned

(* A handler that waits has read nothing, and has too little to go on. *)
LEMMA WaitAligned ==
  ASSUME UpdatesTyped, Aligned, WaitForMore
  PROVE  Aligned'
<1>1. /\ run = "loop" /\ rQ' = rQ /\ net' = net
      /\ UNCHANGED <<alive, fbu, dec, flushing, cu, asked, owed, misread>>
      /\ ~Has(IF fbu.rects = 0 THEN NeededByMessage ELSE NeededByRect) /\ run' = "idle"
  BY DEF WaitForMore, Await, PutBack, Handling
<1>2. Ahead' = Ahead
  BY <1>1 DEF Ahead
<1>3. NeededByMessage' = NeededByMessage /\ NeededByRect' = NeededByRect
  BY <1>1 DEF NeededByMessage, NeededByRect, TightReady, Unreadable, Has
<1>4. ~Has(IF fbu.rects = 0 THEN NeededByMessage ELSE NeededByRect)'
  BY <1>1, <1>3 DEF Has
<1>5. HasToWait'
  BY <1>4 DEF HasToWait
<1> QED
  BY <1>1, <1>2, <1>5, StaysAligned

(* A piece of what was on its way is received.                             *)
LEMMA PieceComes ==
  ASSUME NEW s \in Seq(WireCells), NEW t \in Seq(WireCells), NEW n \in 1 .. Len(t)
  PROVE  (s \o SubSeq(t, 1, n)) \o SubSeq(t, n + 1, Len(t)) = s \o t
<1>1. \A i \in 1 .. Len(t) : t[i] \in WireCells
  OBVIOUS
<1> DEFINE a == SubSeq(t, 1, n)
           b == SubSeq(t, n + 1, Len(t))
<1>2. /\ a \in Seq(WireCells) /\ Len(a) = n /\ \A i \in 1 .. n : a[i] = t[i]
      /\ b \in Seq(WireCells) /\ Len(b) = Len(t) - n /\ \A i \in 1 .. Len(t) - n : b[i] = t[n + i]
  BY <1>1
<1>3. Len(s) \in Nat /\ Len(t) \in Nat /\ n \in Nat /\ n <= Len(t)
  OBVIOUS
<1> HIDE DEF a, b
<1>4. /\ s \o a \in Seq(WireCells) /\ Len(s \o a) = Len(s) + n
      /\ \A i \in 1 .. Len(s) + n : (s \o a)[i] = IF i <= Len(s) THEN s[i] ELSE a[i - Len(s)]
  BY <1>2, <1>3, Concat
<1> DEFINE c == s \o a
<1> HIDE DEF c
<1>5. /\ c \o b \in Seq(WireCells) /\ Len(c \o b) = Len(c) + Len(b)
      /\ \A i \in 1 .. Len(c) + Len(b) : (c \o b)[i] = IF i <= Len(c) THEN c[i] ELSE b[i - Len(c)]
  BY <1>2, <1>4, Concat DEF c
<1>6. /\ s \o t \in Seq(WireCells) /\ Len(s \o t) = Len(s) + Len(t)
      /\ \A i \in 1 .. Len(s) + Len(t) : (s \o t)[i] = IF i <= Len(s) THEN s[i] ELSE t[i - Len(s)]
  BY Concat
<1>7. Len(c) = Len(s) + n /\ Len(c) + Len(b) = Len(s) + Len(t)
  BY <1>2, <1>3, <1>4 DEF c
<1>8. ASSUME NEW i \in 1 .. Len(s) + Len(t) PROVE (c \o b)[i] = (s \o t)[i]
  <2>1. CASE i <= Len(s)
    <3>1. i <= Len(c) /\ i \in 1 .. Len(s) + n
      BY <1>3, <1>7, <2>1
    <3>2. c[i] = s[i]
      BY <1>4, <2>1, <3>1 DEF c
    <3> QED
      BY <1>5, <1>6, <1>7, <2>1, <3>1, <3>2
  <2>2. CASE i > Len(s) /\ i <= Len(s) + n
    <3>1. i <= Len(c) /\ i \in 1 .. Len(s) + n /\ ~(i <= Len(s)) /\ i - Len(s) \in 1 .. n
      BY <1>3, <1>7, <2>2
    <3>2. c[i] = a[i - Len(s)] /\ a[i - Len(s)] = t[i - Len(s)]
      BY <1>2, <1>4, <3>1 DEF c
    <3> QED
      BY <1>5, <1>6, <1>7, <3>1, <3>2
  <2>3. CASE i > Len(s) + n
    <3>1. ~(i <= Len(c)) /\ ~(i <= Len(s)) /\ i - Len(c) \in 1 .. Len(t) - n
          /\ n + (i - Len(c)) = i - Len(s)
      BY <1>3, <1>7, <2>3
    <3>2. b[i - Len(c)] = t[i - Len(s)]
      BY <1>2, <3>1
    <3> QED
      BY <1>5, <1>6, <1>7, <3>1, <3>2
  <2>4. i <= Len(s) \/ (i > Len(s) /\ i <= Len(s) + n) \/ i > Len(s) + n
    BY <1>3
  <2> QED
    BY <2>1, <2>2, <2>3, <2>4
<1> DEFINE u == c \o b
           v == s \o t
           m == Len(s) + Len(t)
<1>9. u = [i \in 1 .. m |-> u[i]] /\ v = [i \in 1 .. m |-> v[i]]
  <2>1. u \in Seq(WireCells) /\ Len(u) = m /\ v \in Seq(WireCells) /\ Len(v) = m
    BY <1>5, <1>6, <1>7
  <2> HIDE DEF u, v, m
  <2> QED
    BY <2>1
<1>10. \A i \in 1 .. m : u[i] = v[i]
  BY <1>8
<1> HIDE DEF u, v, m
<1>11. u = v
  BY <1>9, <1>10
<1> QED
  BY <1>11 DEF u, v, c, a, b

(* A piece of the stream moves from the network to the queue. *)
LEMMA MessageEventAligned ==
  ASSUME UpdatesTyped, Aligned, MessageEvent
  PROVE  Aligned'
<1>1. /\ alive /\ run' = "loop"
      /\ UNCHANGED <<alive, fbu, dec, flushing, cu, asked, owed, misread>>
      /\ rQ \in Seq(WireCells) /\ net \in Seq(WireCells)
  BY DEF MessageEvent, Receive, UpdatesTyped
<1>2. PICK n \in 1 .. Len(net) :
        rQ' = rQ \o SubSeq(net, 1, n) /\ net' = SubSeq(net, n + 1, Len(net))
  BY DEF MessageEvent, Receive
<1>3. Ahead' = Ahead
  BY <1>1, <1>2, PieceComes DEF Ahead
<1>4. HasToWait'
  BY <1>1 DEF HasToWait
<1> QED
  BY <1>1, <1>3, <1>4, StaysAligned

(* A handler that a flush holds back. *)
LEMMA BlockedAligned ==
  ASSUME Aligned, Blocked
  PROVE  Aligned'
<1>1. /\ flushing' /\ flushing /\ run' = "idle"
      /\ UNCHANGED <<alive, fbu, dec, cu, asked, owed, misread, rQ, net>>
  BY DEF Blocked
<1>2. Ahead' = Ahead
  BY <1>1 DEF Ahead
<1>3. HasToWait'
  BY <1>1 DEF HasToWait
<1> QED
  BY <1>1, <1>2, <1>3, StaysAligned

(* The images: what has arrived while the page was painted is handled.     *)
LEMMA ImagesAligned ==
  ASSUME UpdatesTyped, Aligned, ImageLoads \/ ImageBreaks
  PROVE  Aligned'
<1>1. /\ run = "idle" /\ UNCHANGED <<alive, fbu, dec, cu, asked, owed, misread, rQ, net>>
      /\ rQ \in Seq(WireCells)
  BY DEF ImageLoads, ImageBreaks, streamVars, UpdatesTyped
<1>2. Ahead' = Ahead
  BY <1>1 DEF Ahead
<1>3. \/ UNCHANGED <<flushing, run>>
      \/ flushing /\ flushing' = FALSE /\ run' = IF rQ # <<>> /\ alive THEN "loop" ELSE "idle"
  BY Zenon DEF ImageLoads, ImageBreaks, Resumed, streamVars
<1>4. NeededByMessage' = NeededByMessage /\ NeededByRect' = NeededByRect
  BY <1>1 DEF NeededByMessage, NeededByRect, TightReady, Unreadable, Has
<1>5. CASE UNCHANGED <<flushing, run>>
  <2>1. HasToWait' <=> HasToWait
    BY <1>1, <1>4, <1>5 DEF HasToWait, Has
  <2>2. alive => HasToWait
    BY DEF Aligned, Served
  <2> QED
    BY <1>1, <1>2, <1>5, <2>1, <2>2, StaysAligned
<1>6. CASE flushing /\ flushing' = FALSE /\ run' = IF rQ # <<>> /\ alive THEN "loop" ELSE "idle"
  <2>1. ASSUME alive' PROVE HasToWait'
    <3>1. CASE rQ = <<>>
      <4>1. fbu.encoding = "null"
        BY <1>1, <1>6, <2>1 DEF Aligned
      <4>2. ~Has(1) /\ ~Has(2)
        BY <3>1 DEF Has
      <4>3. NeededByMessage = 1 /\ NeededByRect = 2
        <5>1. NeededByMessage = 1
          BY <4>2 DEF NeededByMessage
        <5>2. NeededByRect = 2
          BY <4>1 DEF NeededByRect, Tight
        <5> QED
          BY <5>1, <5>2
      <4>4. ~Has(IF fbu.rects = 0 THEN NeededByMessage ELSE NeededByRect)
        BY <4>2, <4>3
      <4> QED
        BY <1>1, <1>4, <4>4 DEF HasToWait, Has
    <3>2. CASE rQ # <<>>
      <4>1. run' = "loop"
        BY <1>1, <1>6, <2>1, <3>2
      <4> QED
        BY <4>1 DEF HasToWait
    <3> QED
      BY <3>1, <3>2
  <2>2. run' = "loop" => alive
    BY <1>6
  <2> QED
    BY <1>1, <1>2, <1>6, <2>1, <2>2, StaysAligned
<1> QED
  BY <1>3, <1>5, <1>6

(* The messages on their way when the server has written more.             *)
LEMMA HeadsGrow ==
  ASSUME UpdatesTyped, NEW s \in Seq(WireCells), net' = net \o s, rQ' = rQ
  PROVE  /\ Ahead' = Ahead \o s /\ Len(Ahead) \in Nat
         /\ \A type : \A i \in Heads(type) : i \in Heads(type)'
         /\ \A type : \A i \in Heads(type)' :
              \/ i \in Heads(type)
              \/ \E j \in 1 .. Len(s) : i = Len(Ahead) + j /\ s[j].role = "type" /\ s[j].val = type
         /\ \A type : \A j \in 1 .. Len(s) :
              s[j].role = "type" /\ s[j].val = type => Len(Ahead) + j \in Heads(type)'
<1>1. rQ \in Seq(WireCells) /\ net \in Seq(WireCells)
  BY DEF UpdatesTyped
<1>2. Ahead \in Seq(WireCells)
  BY <1>1 DEF Ahead
<1> DEFINE c == Ahead
<1>3. Ahead' = c \o s
  <2>1. rQ \o (net \o s) = (rQ \o net) \o s
    BY <1>1
  <2> QED
    BY <2>1 DEF Ahead
<1> HIDE DEF c
<1>4. c \in Seq(WireCells) /\ c = Ahead
  BY <1>2 DEF c
<1>5. /\ Len(c) \in Nat /\ Len(s) \in Nat /\ Len(c \o s) = Len(c) + Len(s)
      /\ \A i \in 1 .. Len(c) + Len(s) :
           (c \o s)[i] = IF i <= Len(c) THEN c[i] ELSE s[i - Len(c)]
  BY <1>4, Concat
<1> DEFINE d == c \o s
           m == Len(c)
           l == Len(s)
<1>6. /\ m \in Nat /\ l \in Nat /\ Len(d) = m + l /\ m = Len(Ahead) /\ l = Len(s)
      /\ \A i \in 1 .. m + l : d[i] = IF i <= m THEN Ahead[i] ELSE s[i - m]
  BY <1>4, <1>5
<1>7. Ahead' = d
  BY <1>3
<1> HIDE DEF d, m, l
<1>8. ASSUME NEW type, NEW i \in Heads(type) PROVE i \in Heads(type)'
  <2>1. i \in 1 .. m /\ Ahead[i].role = "type" /\ Ahead[i].val = type
    BY <1>6 DEF Heads
  <2>2. i \in 1 .. Len(d) /\ d[i] = Ahead[i]
    BY <1>6, <2>1
  <2> QED
    BY <1>7, <2>1, <2>2 DEF Heads
<1>9. ASSUME NEW type, NEW i \in Heads(type)'
      PROVE  \/ i \in Heads(type)
             \/ \E j \in 1 .. l : i = m + j /\ s[j].role = "type" /\ s[j].val = type
  <2>1. i \in 1 .. m + l /\ d[i].role = "type" /\ d[i].val = type
    BY <1>6, <1>7 DEF Heads
  <2>2. CASE i <= m
    <3>1. i \in 1 .. Len(Ahead) /\ d[i] = Ahead[i]
      BY <1>6, <2>1, <2>2
    <3> QED
      BY <2>1, <3>1 DEF Heads
  <2>3. CASE i > m
    <3> DEFINE j == i - m
    <3>1. j \in 1 .. l /\ i = m + j /\ d[i] = s[j]
      BY <1>6, <2>1, <2>3
    <3> HIDE DEF j
    <3> QED
      BY <2>1, <3>1
  <2> QED
    BY <1>6, <2>1, <2>2, <2>3
<1>10. ASSUME NEW type, NEW j \in 1 .. l, s[j].role = "type", s[j].val = type
       PROVE  m + j \in Heads(type)'
  <2> DEFINE i == m + j
  <2>1. i \in 1 .. m + l /\ ~(i <= m) /\ i - m = j
    BY <1>6
  <2> HIDE DEF i
  <2>2. d[i] = s[j] /\ i \in 1 .. Len(d)
    BY <1>6, <2>1
  <2>3. i \in Heads(type)'
    BY <1>7, <1>10, <2>2 DEF Heads
  <2> QED
    BY <2>3 DEF i
<1>11. Ahead' = Ahead \o s
  BY <1>3 DEF c
<1> QED
  BY <1>6, <1>8, <1>9, <1>10, <1>11

(* The server writes on from where it stands.                              *)
LEMMA ServerAligned ==
  ASSUME UpdatesTyped, Aligned, alive, run = "idle", NEW s \in Seq(WireCells), net' = net \o s,
         UNCHANGED <<alive, fbu, dec, flushing, cu, rQ, run, misread>>,
         NEW left, owed' = left, \E q \in {Between(left), Lost} : Path(Between(owed), s, q),
         NextDue', Offered'
  PROVE  Aligned'
<1>1. ~misread'
  BY Zenon DEF Aligned
<1>2. /\ Remembers(fbu, dec) /\ Leads(NextPlace(fbu, dec), Ahead, TRUE, owed)
      /\ flushing => fbu.encoding = "null"
  <2>1. alive = TRUE
    BY DEF UpdatesTyped
  <2>2. /\ Remembers(fbu, dec) /\ Leads(NextPlace(fbu, dec), Ahead, alive, owed)
        /\ flushing => fbu.encoding = "null"
    BY DEF Aligned
  <2>3. Leads(NextPlace(fbu, dec), Ahead, TRUE, owed)
    BY <2>2 DEF Leads
  <2> QED
    BY <2>2, <2>3
<1>3. Ahead' = Ahead \o s /\ Ahead \in Seq(WireCells)
  <2>1. Ahead \in Seq(WireCells)
    BY DEF Ahead, UpdatesTyped
  <2> QED
    BY <2>1, HeadsGrow
<1>4. PICK q \in {Between(owed), Lost} : Path(NextPlace(fbu, dec), Ahead, q)
  BY <1>2 DEF Leads
<1>5. PICK r \in {Between(left), Lost} : Path(q, s, r)
  BY <1>4, LostStays
<1>6. Path(NextPlace(fbu, dec), Ahead \o s, r)
  BY <1>3, <1>4, <1>5, PathJoin
<1>7. Leads(NextPlace(fbu, dec), Ahead', TRUE, owed')
  BY <1>3, <1>5, <1>6 DEF Leads
<1>8. NextPlace(fbu', dec') = NextPlace(fbu, dec) /\ Remembers(fbu', dec')
  BY <1>2
<1>9. Leads(NextPlace(fbu', dec'), Ahead', alive', owed')
  BY <1>7, <1>8 DEF Leads
<1>10. HasToWait'
  <2>1. NeededByMessage' = NeededByMessage /\ NeededByRect' = NeededByRect
    BY DEF NeededByMessage, NeededByRect, TightReady, Unreadable, Has
  <2>2. HasToWait
    BY DEF Aligned, Served
  <2> QED
    BY <2>1, <2>2 DEF HasToWait, Has
<1>11. flushing' => fbu'.encoding = "null"
  BY <1>2
<1> QED
  BY <1>1, <1>8, <1>9, <1>10, <1>11 DEF Aligned, Served

\* What stays due and offered when the server writes.
LEMMA StaysDue ==
  ASSUME UpdatesTyped, Aligned, alive, NEW s \in Seq(WireCells), net' = net \o s,
         UNCHANGED <<fbu, cu, rQ, asked>>
  PROVE  NextDue'
<1>1. NextDue
  BY DEF Aligned, Served
<1>2. \A i \in Heads("fbu") : i \in Heads("fbu")'
  BY HeadsGrow
<1>3. Heads("fbu") # {} => Heads("fbu")' # {}
  BY <1>2
<1> QED
  BY <1>1, <1>3 DEF NextDue

(* What the server writes offers nothing again. *)
LEMMA StaysOffered ==
  ASSUME UpdatesTyped, Aligned, alive, NEW s \in Seq(WireCells), net' = net \o s,
         UNCHANGED <<cu, rQ>>,
         \A i \in 1 .. Len(s) : ~(s[i].role = "type" /\ s[i].val = "end")
  PROVE  Offered'
<1>1. Offered
  BY DEF Aligned, Served
<1>2. \A i \in Heads("end")' : i \in Heads("end")
  BY HeadsGrow
<1>3. Heads("end")' # {} => ~cu.offered
  BY <1>1, <1>2 DEF Offered
<1>4. ASSUME NEW i \in Heads("end")', NEW j \in Heads("end")' PROVE i = j
  BY <1>1, <1>2 DEF Offered
<1> QED
  BY <1>1, <1>3, <1>4 DEF Offered

(* Two cells.                                                              *)
LEMMA PathOfTwo ==
  ASSUME NEW p, NEW c1, NEW c2, Expects(p, c1), NEW q, PlaceAfter(p, c1) = q, Expects(q, c2),
         NEW r, PlaceAfter(q, c2) = r
  PROVE  Path(p, <<c1, c2>>, r)
<1> DEFINE s == <<c1, c2>>
           st == [i \in 0 .. 2 |-> IF i = 0 THEN p ELSE IF i = 1 THEN q ELSE r]
<1>1. Len(s) = 2 /\ s[1] = c1 /\ s[2] = c2
  OBVIOUS
<1>2. st[0] = p /\ st[1] = q /\ st[2] = r
  OBVIOUS
<1>3. \A i \in 1 .. 2 : (i = 1 /\ i - 1 = 0) \/ (i = 2 /\ i - 1 = 1)
  OBVIOUS
<1> HIDE DEF s, st
<1>4. \A i \in 1 .. 2 : Expects(st[i - 1], s[i]) /\ st[i] = PlaceAfter(st[i - 1], s[i])
  BY <1>1, <1>2, <1>3
<1>5. Walk(p, s, st) /\ st[Len(s)] = r
  BY <1>1, <1>2, <1>4 DEF Walk
<1> QED
  BY <1>5 DEF Path, s

(* The server starts an update: the head of it leads on from its place. *)
LEMMA ServerUpdateAligned ==
  ASSUME UpdatesTyped, Aligned, ServerUpdate
  PROVE  Aligned'
<1>1. PICK n \in {"0", "1", "2", "many"} :
        net' = net \o <<Cell("type", "fbu"), Cell("header", n)>> /\ owed' = Num(n)
  BY DEF ServerUpdate
<1>2. /\ alive /\ run = "idle" /\ owed = 0
      /\ UNCHANGED <<alive, fbu, dec, flushing, cu, rQ, run, misread>>
  BY DEF ServerUpdate, Writes
<1> DEFINE c1 == Cell("type", "fbu")
           c2 == Cell("header", n)
           s == <<c1, c2>>
<1>3. c1 \in WireCells /\ c2 \in WireCells
  BY DEF Cell, WireCells, Strings
<1>4. Len(s) = 2 /\ s[1] = c1 /\ s[2] = c2
  OBVIOUS
<1>5. c1.role = "type" /\ c1.val = "fbu" /\ c2.role = "header" /\ c2.val = n
  BY DEF Cell
<1>6. net' = net \o s
  BY <1>1
<1> HIDE DEF c1, c2
<1>7. s \in Seq(WireCells)
  BY <1>3
<1>8. Path(Between(owed), s, Between(owed'))
  <2>1. Between(owed) = At("type", 0, 0)
    BY <1>2 DEF Between
  <2>2. Expects(At("type", 0, 0), c1) /\ PlaceAfter(At("type", 0, 0), c1) = At("header", 0, 0)
    BY <1>5 DEF Expects, At, Listed, PlaceAfter, AfterType
  <2>3. Expects(At("header", 0, 0), c2)
    BY <1>5 DEF Expects, At, Listed, Values
  <2>4. PlaceAfter(At("header", 0, 0), c2) = Between(owed')
    BY <1>1, <1>5 DEF At, PlaceAfter
  <2> QED
    BY <2>1, <2>2, <2>3, <2>4, PathOfTwo
<1> HIDE DEF s
<1>9. NextDue'
  <2>1. Len(Ahead) + 1 \in Heads("fbu")'
    <3>1. 1 \in 1 .. Len(s) /\ s[1].role = "type" /\ s[1].val = "fbu"
      BY <1>4, <1>5
    <3> QED
      BY <1>2, <1>6, <1>7, <3>1, HeadsGrow
  <2> QED
    BY <2>1 DEF NextDue
<1>10. Offered'
  <2>1. \A i \in 1 .. Len(s) : i = 1 \/ i = 2
    BY <1>4
  <2>2. \A i \in 1 .. Len(s) : ~(s[i].role = "type" /\ s[i].val = "end")
    BY <1>4, <1>5, <2>1
  <2> QED
    BY <1>2, <1>6, <1>7, <2>2, StaysOffered
<1>11. \E q \in {Between(owed'), Lost} : Path(Between(owed), s, q)
  BY <1>8
<1> DEFINE left == owed'
<1>12. owed' = left /\ \E q \in {Between(left), Lost} : Path(Between(owed), s, q)
  BY <1>11
<1> HIDE DEF left
<1> QED
  BY <1>2, <1>6, <1>7, <1>9, <1>10, <1>12, ServerAligned

\* What the server may write, as cells of the wire.
LEMMA ServerCells ==
  /\ \A encoding \in DOMAIN Bodies : \A body \in Bodies[encoding] :
       /\ body[1] \in {"0", "1", "2"} /\ encoding \in Strings /\ encoding # "null"
       /\ body[2] \in Seq(WireCells)
       /\ \A i \in 1 .. Len(body[2]) : body[2][i].role # "type"
  /\ \A note \in Notes :
       /\ note \in Seq(WireCells) /\ note # <<>>
       /\ \A i \in 2 .. Len(note) : note[i].role # "type"
       /\ Written(Between(0), note, {Between(0)})
<1>0. [role : STRING, val : STRING] \subseteq WireCells
  BY DEF WireCells, Strings
<1>1. ASSUME NEW encoding \in DOMAIN Bodies, NEW body \in Bodies[encoding]
      PROVE  /\ body[1] \in {"0", "1", "2"} /\ encoding \in Strings /\ encoding # "null"
             /\ body[2] \in Seq(WireCells)
             /\ \A i \in 1 .. Len(body[2]) : body[2][i].role # "type"
  <2>1. /\ Expects(At("area", 0, 1), Cell("area", body[1])) /\ encoding \in STRING /\ encoding # "null"
        /\ body[2] \in Seq([role : STRING, val : STRING])
        /\ \A i \in DOMAIN body[2] : body[2][i].role # "type"
    BY BodiesAssumption, Zenon
  <2>2. body[1] \in {"0", "1", "2"}
    BY <2>1 DEF Expects, Values, Listed, Cell, At
  <2> DEFINE b == body[2]
  <2>3. b \in Seq([role : STRING, val : STRING]) /\ \A i \in DOMAIN b : b[i].role # "type"
    BY <2>1
  <2> HIDE DEF b
  <2>4. b \in Seq(WireCells)
    BY <1>0, <2>3, WiderSeq, Zenon
  <2>5. DOMAIN b = 1 .. Len(b)
    BY <2>4
  <2>6. \A i \in 1 .. Len(b) : b[i].role # "type"
    BY <2>3, <2>5
  <2>7. encoding \in Strings
    BY <2>1 DEF Strings
  <2> QED
    BY <2>1, <2>2, <2>4, <2>6, <2>7 DEF b
<1>2. ASSUME NEW note \in Notes
      PROVE  /\ note \in Seq(WireCells) /\ note # <<>>
             /\ \A i \in 2 .. Len(note) : note[i].role # "type"
             /\ Written(Between(0), note, {Between(0)})
  <2>1. /\ note \in Seq([role : STRING, val : STRING]) /\ note # <<>>
        /\ \A i \in 2 .. Len(note) : note[i].role # "type"
        /\ Written(Between(0), note, {Between(0)})
    BY NotesAssumption, Zenon
  <2>2. note \in Seq(WireCells)
    BY <1>0, <2>1, WiderSeq, Zenon
  <2> QED
    BY <2>1, <2>2
<1> QED
  BY <1>1, <1>2

(* A rectangle is a path to the next one.                                  *)
LEMMA RectPath ==
  ASSUME NEW area \in {"0", "1", "2"}, NEW encoding \in Strings, encoding # "null",
         NEW body \in Seq(WireCells), NEW m \in Nat, m > 0,
         NEW q, Path(Body(encoding, Num(area), m), body, q)
  PROVE  /\ Rect(area, encoding, body) \in Seq(WireCells)
         /\ Path(Between(m), Rect(area, encoding, body), q)
<1> DEFINE c1 == Cell("area", area)
           c2 == Cell("encoding", encoding)
           n == Num(area)
<1>1. c1 \in WireCells /\ c2 \in WireCells
  BY DEF Cell, WireCells, Strings
<1>2. c1.role = "area" /\ c1.val = area /\ c2.role = "encoding" /\ c2.val = encoding
  BY DEF Cell
<1> HIDE DEF c1, c2
<1>3. Expects(At("area", 0, m), c1)
  BY <1>2 DEF Expects, At, Listed, Values
<1>4. PlaceAfter(At("area", 0, m), c1) = At("encoding", n, m)
  BY <1>2 DEF PlaceAfter, At
<1> HIDE DEF n
<1>5. Expects(At("encoding", n, m), c2)
  BY <1>2 DEF Expects, At, Listed
<1>6. PlaceAfter(At("encoding", n, m), c2) = Body(encoding, n, m)
  BY <1>2 DEF PlaceAfter, At
<1> DEFINE b == Body(encoding, n, m)
<1>7. PlaceAfter(At("encoding", n, m), c2) = b
  BY <1>6
<1>8. Path(b, body, q)
  BY DEF n
<1> HIDE DEF b
<1>9. Path(At("area", 0, m), <<c1, c2>>, b)
  BY <1>3, <1>4, <1>5, <1>7, PathOfTwo
<1>10. Between(m) = At("area", 0, m)
  BY DEF Between
<1>11. <<c1, c2>> \in Seq(WireCells)
  BY <1>1
<1>12. Path(At("area", 0, m), <<c1, c2>> \o body, q)
  BY <1>8, <1>9, <1>11, PathJoin
<1>13. Rect(area, encoding, body) = <<c1, c2>> \o body
  BY DEF Rect, c1, c2
<1>14. <<c1, c2>> \o body \in Seq(WireCells)
  BY <1>11, Concat
<1> QED
  BY <1>10, <1>12, <1>13, <1>14

(* The server writes a rectangle of the update. *)
LEMMA ServerRectAligned ==
  ASSUME UpdatesTyped, Aligned, ServerRect
  PROVE  Aligned'
<1>1. /\ alive /\ run = "idle" /\ owed > 0 /\ owed \in 1 .. Many /\ owed \in Nat
      /\ UNCHANGED <<alive, fbu, dec, flushing, cu, asked, rQ, run, misread>>
  BY DEF ServerRect, Writes, UpdatesTyped, Many
<1>2. PICK area \in {"0", "1", "2"}, encoding \in Strings, body \in Seq(WireCells) :
        /\ net' = net \o Rect(area, encoding, body) /\ encoding # "null"
        /\ \A i \in 1 .. Len(body) : body[i].role # "type"
        /\ \E q \in {Between(owed'), Lost} : Path(Body(encoding, Num(area), owed), body, q)
  <2>1. CASE /\ \E encoding \in DOMAIN Bodies : \E body \in Bodies[encoding] :
                  net' = net \o Rect(body[1], encoding, body[2])
             /\ owed' = owed - 1
    <3>1. PICK encoding \in DOMAIN Bodies : \E body \in Bodies[encoding] :
                  net' = net \o Rect(body[1], encoding, body[2])
      BY <2>1
    <3>2. PICK body \in Bodies[encoding] : net' = net \o Rect(body[1], encoding, body[2])
      BY <3>1
    <3> DEFINE a == body[1]
               b == body[2]
    <3>3. /\ a \in {"0", "1", "2"} /\ encoding \in Strings /\ encoding # "null"
          /\ b \in Seq(WireCells) /\ \A i \in 1 .. Len(b) : b[i].role # "type"
      BY ServerCells
    <3>4. Written(Body(encoding, Num(a), owed), b, {Between(owed - 1), Lost})
      BY <1>1, BodiesAssumption, Zenon
    <3>5. net' = net \o Rect(a, encoding, b)
      BY <3>2
    <3> HIDE DEF a, b
    <3>6. \E q \in {Between(owed - 1), Lost} : Path(Body(encoding, Num(a), owed), b, q)
      BY <3>3, <3>4, WrittenLeads
    <3>7. \E q \in {Between(owed'), Lost} : Path(Body(encoding, Num(a), owed), b, q)
      BY <2>1, <3>6
    <3> QED
      BY <3>3, <3>5, <3>7
  <2>2. CASE net' = net \o Rect("0", "last", <<>>) /\ owed' = 0
    <3>1. /\ "0" \in {"0", "1", "2"} /\ "last" \in Strings /\ "last" # "null"
          /\ <<>> \in Seq(WireCells) /\ \A i \in 1 .. Len(<<>>) : <<>>[i].role # "type"
      BY DEF Strings
    <3>2. Body("last", Num("0"), owed) = Between(owed')
      BY <2>2 DEF Body
    <3>3. Path(Body("last", Num("0"), owed), <<>>, Between(owed'))
      BY <3>2, PathOfNone
    <3> QED
      BY <2>2, <3>1, <3>3
  <2> QED
    BY <2>1, <2>2 DEF ServerRect
<1>3. PICK q \in {Between(owed'), Lost} : Path(Body(encoding, Num(area), owed), body, q)
  BY <1>2
<1> DEFINE s == Rect(area, encoding, body)
<1>4. s \in Seq(WireCells) /\ Path(Between(owed), s, q)
  BY <1>1, <1>2, <1>3, RectPath
<1>5. net' = net \o s
  BY <1>2
<1>6. \A i \in 1 .. Len(s) : ~(s[i].role = "type")
  <2> DEFINE c == <<Cell("area", area), Cell("encoding", encoding)>>
  <2>1. Cell("area", area) \in WireCells /\ Cell("encoding", encoding) \in WireCells
    BY DEF Cell, WireCells, Strings
  <2>2. c[1].role = "area" /\ c[2].role = "encoding"
    BY DEF Cell
  <2>3. c \in Seq(WireCells) /\ Len(c) = 2
    BY <2>1
  <2>4. s = c \o body
    BY DEF Rect
  <2> HIDE DEF c, s
  <2>5. /\ Len(c \o body) = Len(c) + Len(body) /\ Len(body) \in Nat
        /\ \A i \in 1 .. Len(c) + Len(body) :
             (c \o body)[i] = IF i <= Len(c) THEN c[i] ELSE body[i - Len(c)]
    BY <2>3, Concat
  <2> SUFFICES ASSUME NEW i \in 1 .. Len(s) PROVE s[i].role # "type"
    OBVIOUS
  <2>6. i \in 1 .. Len(c) + Len(body) /\ s[i] = IF i <= Len(c) THEN c[i] ELSE body[i - Len(c)]
    BY <2>4, <2>5
  <2>7. CASE i <= 2
    <3>1. (i = 1 \/ i = 2) /\ s[i] = c[i]
      BY <2>3, <2>6, <2>7
    <3> QED
      BY <2>2, <3>1
  <2>8. CASE ~(i <= 2)
    <3>1. s[i] = body[i - 2] /\ i - 2 \in 1 .. Len(body)
      BY <2>3, <2>5, <2>6, <2>8
    <3> QED
      BY <1>2, <3>1
  <2> QED
    BY <2>7, <2>8
<1> HIDE DEF s
<1>7. NextDue'
  BY <1>1, <1>4, <1>5, StaysDue
<1>8. Offered'
  BY <1>1, <1>4, <1>5, <1>6, StaysOffered
<1> DEFINE left == owed'
<1>9. owed' = left /\ \E r \in {Between(left), Lost} : Path(Between(owed), s, r)
  BY <1>3, <1>4
<1> HIDE DEF left
<1> QED
  BY <1>1, <1>4, <1>5, <1>7, <1>8, <1>9, ServerAligned

(* The server writes another message. *)
LEMMA ServerNoteAligned ==
  ASSUME UpdatesTyped, Aligned, ServerNote
  PROVE  Aligned'
<1>1. /\ alive /\ run = "idle" /\ owed = 0 /\ owed' = 0
      /\ UNCHANGED <<alive, fbu, dec, flushing, cu, asked, rQ, run, misread>>
  BY DEF ServerNote, Writes
<1>2. PICK s \in Notes :
        /\ s[1].val = "end" =>
             ~cu.offered /\ \A i \in DOMAIN (net \o rQ) : (net \o rQ)[i].val # "end"
        /\ net' = net \o s
  BY Zenon DEF ServerNote
<1>3. /\ s \in Seq(WireCells) /\ s # <<>> /\ Written(Between(0), s, {Between(0)})
      /\ \A i \in 2 .. Len(s) : s[i].role # "type"
  BY ServerCells
<1>4. \E q \in {Between(0), Lost} : Path(Between(owed), s, q)
  <2>1. \E q \in {Between(0)} : Path(Between(0), s, q)
    BY <1>3, WrittenLeads
  <2> QED
    BY <1>1, <2>1
<1>5. NextDue'
  BY <1>1, <1>2, <1>3, StaysDue
<1>6. Offered'
  <2>1. CASE s[1].val # "end"
    <3>1. \A i \in 1 .. Len(s) : i = 1 \/ i \in 2 .. Len(s)
      BY <1>3
    <3>2. \A i \in 1 .. Len(s) : ~(s[i].role = "type" /\ s[i].val = "end")
      BY <1>3, <2>1, <3>1
    <3> QED
      BY <1>1, <1>2, <1>3, <3>2, StaysOffered
  <2>2. CASE s[1].val = "end"
    <3>1. ~cu.offered /\ \A i \in DOMAIN (net \o rQ) : (net \o rQ)[i].val # "end"
      BY <1>2, <2>2
    <3>2. Heads("end") = {}
      <4> DEFINE m == Len(rQ)
                 l == Len(net)
      <4>1. rQ \in Seq(WireCells) /\ net \in Seq(WireCells)
        BY DEF UpdatesTyped
      <4>2. m \in Nat /\ l \in Nat /\ DOMAIN (net \o rQ) = 1 .. l + m
            /\ \A i \in 1 .. l + m : (net \o rQ)[i] = IF i <= l THEN net[i] ELSE rQ[i - l]
        <5>1. net \o rQ \in Seq(WireCells) /\ Len(net \o rQ) = l + m
              /\ \A i \in 1 .. l + m : (net \o rQ)[i] = IF i <= l THEN net[i] ELSE rQ[i - l]
          BY <4>1, Concat
        <5> DEFINE d == net \o rQ
        <5>2. d \in Seq(WireCells) /\ Len(d) = l + m
          BY <5>1
        <5> HIDE DEF d
        <5>3. DOMAIN d = 1 .. l + m
          BY <5>2
        <5> QED
          BY <4>1, <5>1, <5>3 DEF d
      <4>3. Len(Ahead) = m + l
            /\ \A i \in 1 .. m + l : Ahead[i] = IF i <= m THEN rQ[i] ELSE net[i - m]
        BY <4>1, Concat DEF Ahead
      <4>4. \A i \in 1 .. l : net[i].val # "end"
        <5> SUFFICES ASSUME NEW i \in 1 .. l PROVE net[i].val # "end"
          OBVIOUS
        <5>1. i \in 1 .. l + m /\ i <= l
          BY <4>2
        <5> QED
          BY <3>1, <4>2, <5>1
      <4>5. \A i \in 1 .. m : rQ[i].val # "end"
        <5> SUFFICES ASSUME NEW i \in 1 .. m PROVE rQ[i].val # "end"
          OBVIOUS
        <5> DEFINE j == i + l
        <5>1. j \in 1 .. l + m /\ ~(j <= l) /\ j - l = i
          BY <4>2
        <5> HIDE DEF j
        <5> QED
          BY <3>1, <4>2, <5>1
      <4> HIDE DEF m, l
      <4> SUFFICES ASSUME NEW i \in Heads("end") PROVE FALSE
        OBVIOUS
      <4>6. i \in 1 .. m + l /\ Ahead[i].val = "end"
        BY <4>3 DEF Heads
      <4>7. i <= m => i \in 1 .. m
        BY <4>6
      <4>8. ~(i <= m) => i - m \in 1 .. l
        BY <4>2, <4>6
      <4> QED
        BY <4>3, <4>4, <4>5, <4>6, <4>7, <4>8
    <3>3. \A i \in Heads("end")' : \E j \in 1 .. Len(s) : i = Len(Ahead) + j /\ s[j].role = "type"
      <4>1. net' = net \o s /\ rQ' = rQ
        BY <1>1, <1>2
      <4>2. \A type : \A i \in Heads(type)' :
              \/ i \in Heads(type)
              \/ \E j \in 1 .. Len(s) : i = Len(Ahead) + j /\ s[j].role = "type" /\ s[j].val = type
        BY <1>3, <4>1, HeadsGrow
      <4> QED
        BY <3>2, <4>2, Zenon
    <3>4. \A j \in 1 .. Len(s) : s[j].role = "type" => j = 1
      <4>1. \A j \in 1 .. Len(s) : j = 1 \/ j \in 2 .. Len(s)
        BY <1>3
      <4> QED
        BY <1>3, <4>1
    <3>5. \A i \in Heads("end")' : i = Len(Ahead) + 1
      BY <3>3, <3>4
    <3>6. cu' = cu /\ cu.on = cu.offered
      BY <1>1 DEF Aligned, Served, Offered
    <3> QED
      BY <3>1, <3>5, <3>6, Zenon DEF Offered
  <2> QED
    BY <2>1, <2>2
<1> DEFINE left == owed'
<1>7. owed' = left /\ \E r \in {Between(left), Lost} : Path(Between(owed), s, r)
  BY <1>1, <1>4
<1> HIDE DEF left
<1> QED
  BY <1>1, <1>2, <1>3, <1>5, <1>6, <1>7, ServerAligned

(* Of an ended session nothing is delivered, and what is left behind stays *)
(* behind.                                                                 *)
Quiet == (net' = net \/ net' = <<>>) /\ (alive' = alive \/ net' = <<>>)

(* What a read leaves alone. *)
LEMMA QuietRead == \A roles : Read(roles) /\ alive' = alive => Quiet
BY DEF Read, Quiet

(* What the end of the session leaves alone. *)
LEMMA QuietEnd == \A goOn : EndSession(goOn) => Quiet
BY DEF EndSession, Quiet

(* What the messages leave alone. *)
LEMMA MessagesQuiet == Messages => Quiet /\ (leftover' = leftover \/ leftover' \in {"provide", "fence"})
<1> SUFFICES ASSUME Messages PROVE Quiet /\ (leftover' = leftover \/ leftover' \in {"provide", "fence"})
  OBVIOUS
<1>1. ASSUME NEW roles, NEW goOn, Reject(roles, goOn)
      PROVE  Quiet /\ leftover' = leftover
  BY <1>1, QuietEnd DEF Reject
<1>2. ASSUME NEW roles, Read(roles), Handled PROVE Quiet
  BY <1>2, QuietRead DEF Handled
<1>3. CASE Bell
  BY <1>2, <1>3, Zenon DEF Bell
<1>4. CASE SetColourMap
  BY <1>1, <1>4, Zenon DEF SetColourMap
<1>5. CASE UnknownType
  BY <1>1, <1>2, <1>5, Zenon DEF UnknownType
<1>6. CASE ServerCutText
  BY <1>1, <1>2, <1>6, Zenon DEF ServerCutText
<1>7. CASE EndOfContinuousUpdates
  BY <1>2, <1>7, Zenon DEF EndOfContinuousUpdates
<1>8. CASE ServerFence
  BY <1>1, <1>2, <1>8, Zenon DEF ServerFence
<1>9. CASE Xvp
  BY <1>1, <1>2, <1>9, Zenon DEF Xvp
<1> QED
  BY <1>3, <1>4, <1>5, <1>6, <1>7, <1>8, <1>9, Zenon DEF Messages

(* What a rectangle leaves alone, *)
LEMMA QuietGoesOn ==
  /\ \A s : Keep(s) => alive' = alive
  /\ \A s : Done(s) => alive' = alive
  /\ \A s, last : Complete(s, last) => alive' = alive
BY DEF Keep, Done, Complete, Updating

(* one that reads nothing, *)
LEMMA QuietNothing == NothingRead /\ alive' = alive => Quiet
BY DEF NothingRead, Quiet

(* one that draws nothing, *)
LEMMA PseudoQuiet == PseudoRect => Quiet /\ (leftover' = leftover \/ leftover' = "cursor")
<1> SUFFICES ASSUME PseudoRect PROVE Quiet /\ (leftover' = leftover \/ leftover' = "cursor")
  OBVIOUS
<1>1. CASE LastRect \/ QEMUExtendedKeyEvent \/ DesktopSize
  BY <1>1, QuietGoesOn, QuietNothing, Zenon
  DEF LastRect, QEMUExtendedKeyEvent, DesktopSize, Skipped
<1>2. CASE ExtendedDesktopSize \/ LedEvent \/ DesktopName \/ Cursor
  BY <1>2, QuietGoesOn, QuietRead, Zenon
  DEF ExtendedDesktopSize, LedEvent, DesktopName, Cursor, Skipped
<1>3. CASE VMwareCursor
  BY <1>3, QuietGoesOn, QuietRead, Zenon DEF VMwareCursor, Updating
<1> QED
  BY <1>1, <1>2, <1>3, Zenon DEF PseudoRect

(* and a length. *)
LEMMA QuietLength == ReadLength => Quiet /\ leftover' = leftover
BY QuietGoesOn, QuietRead, Zenon DEF ReadLength

(* What the rectangles leave alone. *)
LEMMA RectsQuiet == Rects => Quiet /\ (leftover' = leftover \/ leftover' \in {"cursor", "palette"})
<1> SUFFICES ASSUME Rects
             PROVE  Quiet /\ (leftover' = leftover \/ leftover' \in {"cursor", "palette"})
  OBVIOUS
<1>1. CASE RectHeader
  BY <1>1, QuietRead, Zenon DEF RectHeader, Updating
<1>2. CASE PseudoRect
  BY <1>2, PseudoQuiet, Zenon
<1>3. CASE UnknownEncoding \/ HextileThrows \/ TightThrows \/ ZRLEThrows \/ JPEGThrows
  BY <1>3, QuietEnd, Zenon
  DEF UnknownEncoding, HextileThrows, TightThrows, ZRLEThrows, JPEGThrows, Throw
<1>4. ASSUME UNCHANGED <<net, rQ, misread>>, alive' = alive PROVE Quiet
  BY <1>4 DEF Quiet
<1>5. CASE Raw
  BY <1>4, <1>5, QuietGoesOn, QuietRead, Zenon DEF Raw
<1>6. CASE CopyRect \/ RRE
  BY <1>6, QuietGoesOn, QuietRead, Zenon DEF CopyRect, RRE
<1>7. CASE Hextile
  BY <1>4, <1>7, QuietGoesOn, QuietRead, Zenon DEF Hextile
<1>8. CASE TightControl \/ TightFill
  BY <1>8, QuietGoesOn, QuietRead, Zenon DEF TightControl, TightFill
<1>9. CASE TightImage
  BY <1>9, QuietGoesOn, QuietRead, QuietLength, Zenon DEF TightImage
<1>10. CASE TightFilter \/ TightPalette
  BY <1>4, <1>10, QuietGoesOn, QuietRead, Zenon DEF TightFilter, TightPalette
<1>11. CASE TightPixels
  BY <1>4, <1>11, QuietGoesOn, QuietRead, QuietLength, Zenon DEF TightPixels
<1>12. CASE ZRLE \/ JPEGSegment \/ JPEGEnd
  BY <1>12, QuietGoesOn, QuietRead, Zenon DEF ZRLE, JPEGSegment, JPEGEnd
<1> QED
  BY <1>1, <1>2, <1>3, <1>5, <1>6, <1>7, <1>8, <1>9, <1>10, <1>11, <1>12, Zenon DEF Rects

(* What the head of an update leaves alone. *)
LEMMA UpdateQuiet ==
  FramebufferUpdate => Quiet /\ (leftover' = leftover \/ leftover' = "update")
<1> SUFFICES ASSUME FramebufferUpdate
             PROVE  Quiet /\ (leftover' = leftover \/ leftover' = "update")
  OBVIOUS
<1> QED
  BY QuietRead, Zenon DEF FramebufferUpdate, Updating

(* The steps keep the invariant of a connected session.                    *)
LEMMA UpdatesKept == UInv /\ [UpdatesNext]_updatesVars => UInv'
<1> SUFFICES ASSUME UInv, [UpdatesNext]_updatesVars PROVE UInv'
  OBVIOUS
<1>1. UpdatesTyped /\ UpdatesTyped' /\ (~alive => net = <<>>) /\ (leftover = "none" => Aligned)
  BY TypesKept DEF UInv
<1>2. CASE UNCHANGED updatesVars
  <2>1. UNCHANGED <<alive, fbu, dec, flushing, cu, asked, owed, leftover, net, rQ, run, misread>>
    BY <1>2 DEF updatesVars, streamVars
  <2>2. Ahead' = Ahead
    BY <2>1 DEF Ahead
  <2>3. ASSUME leftover' = "none" PROVE Aligned'
    <3>1. Aligned
      BY <1>1, <2>1, <2>3
    <3>2. HasToWait' <=> HasToWait
      BY <2>1 DEF HasToWait, NeededByMessage, NeededByRect, TightReady, Unreadable, Has
    <3>3. alive => HasToWait
      BY <3>1 DEF Aligned, Served
    <3> QED
      BY <2>1, <2>2, <3>1, <3>2, <3>3, StaysAligned
  <2> QED
    BY <1>1, <2>1, <2>3 DEF UInv
<1>3. CASE UpdatesNext
  <2>1. CASE Messages \/ Rects \/ FramebufferUpdate
    <3>1. /\ Quiet
          /\ leftover' = leftover \/ leftover' \in {"provide", "fence", "cursor", "palette", "update"}
      BY <2>1, MessagesQuiet, RectsQuiet, UpdateQuiet
    <3>2. ~alive' => net' = <<>>
      BY <1>1, <3>1 DEF Quiet
    <3>3. ASSUME leftover' = "none" PROVE Aligned'
      <4>1. leftover = "none" /\ Aligned
        BY <1>1, <3>1, <3>3
      <4> QED
        BY <1>1, <2>1, <3>3, <4>1, MessagesAligned, RectsAligned, UpdateAligned
    <3> QED
      BY <1>1, <3>2, <3>3 DEF UInv
  <2>2. CASE MessageEvent
    <3>1. alive' /\ leftover' = leftover
      BY <2>2 DEF MessageEvent
    <3> QED
      BY <1>1, <2>2, <3>1, MessageEventAligned DEF UInv
  <2>3. CASE Blocked \/ WaitForMore \/ ImageLoads \/ ImageBreaks
    <3>1. alive' = alive /\ leftover' = leftover /\ net' = net
      BY <2>3 DEF Blocked, WaitForMore, Await, ImageLoads, ImageBreaks, streamVars
    <3> QED
      BY <1>1, <2>3, <3>1, BlockedAligned, WaitAligned, ImagesAligned DEF UInv
  <2>4. CASE ServerUpdate \/ ServerRect \/ ServerNote
    <3>1. alive' /\ leftover' = leftover
      BY <2>4 DEF ServerUpdate, ServerRect, ServerNote, Writes
    <3> QED
      BY <1>1, <2>4, <3>1, ServerUpdateAligned, ServerRectAligned, ServerNoteAligned DEF UInv
  <2> QED
    BY <1>3, <2>1, <2>2, <2>3, <2>4, Zenon DEF UpdatesNext
<1> QED
  BY <1>2, <1>3

(* At the start nothing has come and an update is asked for. *)
LEMMA UpdatesStart == UpdatesInit => UInv
<1> SUFFICES ASSUME UpdatesInit PROVE UInv
  OBVIOUS
<1>1. UpdatesTyped
  BY TypesStart
<1>2. /\ alive = TRUE /\ fbu.rects = 0 /\ fbu.encoding = "null" /\ dec = Fresh /\ flushing = FALSE
      /\ cu.on = FALSE /\ cu.offered = FALSE /\ asked = TRUE /\ owed = 0 /\ leftover = "none"
      /\ net = <<>> /\ rQ = <<>> /\ run = "idle" /\ misread = FALSE
  BY DEF UpdatesInit, StreamInit
<1>3. Blank(dec)
  BY <1>2 DEF Blank, Fresh
<1>4. Remembers(fbu, dec)
  BY <1>2, <1>3, BlankFits
<1>5. Ahead = <<>> /\ Len(Ahead) = 0
  BY <1>2 DEF Ahead
<1>6. NextPlace(fbu, dec) = Between(0)
  BY <1>2 DEF NextPlace
<1>7. Leads(NextPlace(fbu, dec), Ahead, alive, owed)
  <2>1. Path(Between(0), <<>>, Between(0))
    BY PathOfNone
  <2> QED
    BY <1>2, <1>5, <1>6, <2>1 DEF Leads
<1>8. Heads("fbu") = {} /\ Heads("end") = {}
  BY <1>5 DEF Heads
<1>9. HasToWait
  <2>1. ~Has(1)
    BY <1>2 DEF Has
  <2>2. NeededByMessage = 1
    BY <2>1 DEF NeededByMessage
  <2> QED
    BY <1>2, <2>1, <2>2 DEF HasToWait
<1>10. Served
  BY <1>2, <1>8, <1>9 DEF Served, NextDue, Offered
<1>11. ~misread /\ ~flushing
  BY <1>2, Zenon
<1>12. Aligned
  BY <1>4, <1>7, <1>10, <1>11 DEF Aligned
<1> QED
  BY <1>1, <1>2, <1>12 DEF UInv

(* For every server, a connected session reads every field as what it is.  *)
THEOREM UpdatesKeepStep == UpdatesSpec => []UpdatesInStep
<1>1. UInv => UpdatesInStep
  BY DEF UInv, Aligned, UpdatesInStep
<1> QED
  BY <1>1, UpdatesStart, UpdatesKept, PTL DEF UpdatesSpec

(***************************************************************************)
(* Nothing is left half read: where all that came leads to the end of a    *)
(* message, or of an update, the handler in charge does not wait.          *)
(***************************************************************************)
Rests(q) == q.next \in {"type", "lost"}

(* A path of up to three cells, place by place. *)
LEMMA PathOfFew ==
  ASSUME NEW s \in Seq(WireCells), NEW p, NEW q, Path(p, s, q), Rests(q)
  PROVE  /\ Len(s) = 0 => Rests(p)
         /\ Len(s) = 1 => Expects(p, s[1]) /\ Rests(PlaceAfter(p, s[1]))
         /\ Len(s) = 2 => \A p1 : PlaceAfter(p, s[1]) = p1 => Rests(PlaceAfter(p1, s[2]))
         /\ Len(s) = 3 => \A p1, p2 : PlaceAfter(p, s[1]) = p1 /\ PlaceAfter(p1, s[2]) = p2
                                        => Rests(PlaceAfter(p2, s[3]))
<1>1. PICK st : Walk(p, s, st) /\ st[Len(s)] = q
  BY DEF Path
<1>2. st[0] = p /\ \A i \in 1 .. Len(s) : Expects(st[i - 1], s[i]) /\ st[i] = PlaceAfter(st[i - 1], s[i])
  BY <1>1 DEF Walk
<1>3. CASE Len(s) = 0
  BY <1>1, <1>2, <1>3
<1>4. CASE Len(s) = 1
  <2>1. 1 \in 1 .. Len(s) /\ 1 - 1 = 0
    BY <1>4
  <2>2. Expects(p, s[1]) /\ st[1] = PlaceAfter(p, s[1])
    BY <1>2, <2>1
  <2> QED
    BY <1>1, <1>4, <2>2
<1>5. CASE Len(s) = 2
  <2>1. 1 \in 1 .. Len(s) /\ 1 - 1 = 0 /\ 2 \in 1 .. Len(s) /\ 2 - 1 = 1
    BY <1>5
  <2>2. st[1] = PlaceAfter(p, s[1]) /\ st[2] = PlaceAfter(st[1], s[2])
    BY <1>2, <2>1
  <2> QED
    BY <1>1, <1>5, <2>2
<1>6. CASE Len(s) = 3
  <2>1. /\ 1 \in 1 .. Len(s) /\ 1 - 1 = 0 /\ 2 \in 1 .. Len(s) /\ 2 - 1 = 1
        /\ 3 \in 1 .. Len(s) /\ 3 - 1 = 2
    BY <1>6
  <2>2. /\ st[1] = PlaceAfter(p, s[1]) /\ st[2] = PlaceAfter(st[1], s[2])
        /\ st[3] = PlaceAfter(st[2], s[3])
    BY <1>2, <2>1
  <2> QED
    BY <1>1, <1>6, <2>2
<1> QED
  BY <1>3, <1>4, <1>5, <1>6

(* A message of which all has come is not waited for. *)
LEMMA MessageWhole ==
  ASSUME rQ \in Seq(WireCells), NEW q, Path(At("type", 0, 0), rQ, q), Rests(q), rQ # <<>>
  PROVE  Has(NeededByMessage)
<1> SUFFICES ASSUME ~Has(NeededByMessage) PROVE FALSE
  OBVIOUS
<1> DEFINE m == Len(rQ)
           v == rQ[1].val
<1>1. m \in Nat /\ m > 0 /\ Has(1) /\ (\A n \in Nat : Has(n) <=> m >= n)
  BY DEF Has
<1>l. m = Len(rQ)
  OBVIOUS
<1> HIDE DEF m
<1>2. PlaceAfter(At("type", 0, 0), rQ[1]) = AfterType(v)
  BY DEF PlaceAfter, At
<1>3. ASSUME NEW x, NEW n, NEW left, x \notin {"type", "lost"} PROVE ~Rests(At(x, n, left))
  BY <1>3 DEF Rests, At
<1>4. CASE v = "fbu" \/ v = "xvp"
  <2>1. NeededByMessage = 2
    BY <1>1, <1>4 DEF NeededByMessage
  <2>2. m = 1
    BY <1>1, <2>1
  <2>3. AfterType(v) = At("header", 0, 0) \/ AfterType(v) = At("xvpBody", 0, 0)
    BY <1>4 DEF AfterType
  <2>4. Rests(AfterType(v))
    BY <1>2, <2>2, <1>l, PathOfFew
  <2>5. ~Rests(At("header", 0, 0)) /\ ~Rests(At("xvpBody", 0, 0))
    BY <1>3
  <2> QED
    BY <2>3, <2>4, <2>5
<1>5. CASE v = "fence"
  <2>1. AfterType(v) = At("fenceHead", 0, 0)
    BY <1>5 DEF AfterType
  <2> DEFINE p2 == PlaceAfter(At("fenceHead", 0, 0), rQ[2])
             w == rQ[2].val
  <2>2. /\ p2 = At("payload", 0, 0) \/ p2 = At("payload", 1, 0)
        /\ w = "long" => p2 = At("payload", 1, 0)
    BY DEF PlaceAfter, At
  <2>3. PlaceAfter(At("payload", 1, 0), rQ[3]) = At("rest", 0, 0)
    BY DEF PlaceAfter, At
  <2> HIDE DEF p2
  <2>4. ~Rests(At("fenceHead", 0, 0)) /\ ~Rests(p2) /\ ~Rests(At("rest", 0, 0))
    <3>1. /\ ~Rests(At("fenceHead", 0, 0)) /\ ~Rests(At("rest", 0, 0))
          /\ ~Rests(At("payload", 0, 0)) /\ ~Rests(At("payload", 1, 0))
      BY <1>3
    <3> QED
      BY <2>2, <3>1
  <2>5. m # 1
    BY <1>2, <2>1, <2>4, <1>l, PathOfFew
  <2>6. m # 2
    BY <1>2, <2>1, <2>4, <1>l, PathOfFew DEF p2
  <2>7. m = 3 => w # "long"
    <3> SUFFICES ASSUME m = 3, w = "long" PROVE FALSE
      OBVIOUS
    <3>1. PlaceAfter(At("fenceHead", 0, 0), rQ[2]) = At("payload", 1, 0)
      BY <2>2 DEF p2
    <3> QED
      BY <1>2, <2>1, <2>3, <2>4, <3>1, <1>l, PathOfFew
  <2>8. NeededByMessage = IF Has(2) /\ w = "long" THEN 4 ELSE 3
    BY <1>1, <1>5 DEF NeededByMessage
  <2>9. m < 3 \/ (m < 4 /\ w = "long")
    <3>1. CASE Has(2) /\ w = "long"
      BY <1>1, <2>8, <3>1
    <3>2. CASE ~(Has(2) /\ w = "long")
      <4>1. NeededByMessage = 3
        BY <2>8, <3>2
      <4> QED
        BY <1>1, <4>1
    <3> QED
      BY <3>1, <3>2
  <2> QED
    BY <1>1, <2>5, <2>6, <2>7, <2>9
<1>6. CASE v = "cut"
  <2>1. AfterType(v) = At("cutHead", 0, 0)
    BY <1>6 DEF AfterType
  <2> DEFINE p2 == PlaceAfter(At("cutHead", 0, 0), rQ[2])
             w == rQ[2].val
  <2>2. /\ p2 = At("text", 0, 0) \/ p2 = At("flags", 0, 0) \/ p2 = At("flags", 1, 0)
        /\ w = "provide" => p2 = At("flags", 1, 0)
    BY DEF PlaceAfter, At
  <2>3. PlaceAfter(At("flags", 1, 0), rQ[3]) = At("zlib", 0, 0)
    BY DEF PlaceAfter, At
  <2> HIDE DEF p2
  <2>4. ~Rests(At("cutHead", 0, 0)) /\ ~Rests(p2) /\ ~Rests(At("zlib", 0, 0))
    <3>1. /\ ~Rests(At("cutHead", 0, 0)) /\ ~Rests(At("zlib", 0, 0)) /\ ~Rests(At("text", 0, 0))
          /\ ~Rests(At("flags", 0, 0)) /\ ~Rests(At("flags", 1, 0))
      BY <1>3
    <3> QED
      BY <2>2, <3>1
  <2>5. m # 1
    BY <1>2, <2>1, <2>4, <1>l, PathOfFew
  <2>6. m # 2
    BY <1>2, <2>1, <2>4, <1>l, PathOfFew DEF p2
  <2>7. m = 3 => w # "provide"
    <3> SUFFICES ASSUME m = 3, w = "provide" PROVE FALSE
      OBVIOUS
    <3>1. PlaceAfter(At("cutHead", 0, 0), rQ[2]) = At("flags", 1, 0)
      BY <2>2 DEF p2
    <3> QED
      BY <1>2, <2>1, <2>3, <2>4, <3>1, <1>l, PathOfFew
  <2>8. NeededByMessage = IF Has(2) /\ w = "provide" THEN 4 ELSE 3
    BY <1>1, <1>6 DEF NeededByMessage
  <2>9. m < 3 \/ (m < 4 /\ w = "provide")
    <3>1. CASE Has(2) /\ w = "provide"
      BY <1>1, <2>8, <3>1
    <3>2. CASE ~(Has(2) /\ w = "provide")
      <4>1. NeededByMessage = 3
        BY <2>8, <3>2
      <4> QED
        BY <1>1, <4>1
    <3> QED
      BY <3>1, <3>2
  <2> QED
    BY <1>1, <2>5, <2>6, <2>7, <2>9
<1>7. CASE v \notin {"fbu", "xvp", "fence", "cut"}
  <2>1. NeededByMessage = 1
    BY <1>1, <1>7 DEF NeededByMessage
  <2> QED
    BY <1>1, <2>1
<1> QED
  BY <1>4, <1>5, <1>6, <1>7

(* A Tight rectangle that waits is not at its end. *)
LEMMA TightWhole ==
  ASSUME fbu.encoding \in Tight, fbu.area \in Nat, dec \in Decs, Remembers(fbu, dec), ~TightReady
  PROVE  ~Rests(TightPlace(fbu, dec))
<1>1. /\ fbu.encoding = "tight" \/ fbu.encoding = "tightpng"
      /\ dec.ctl \in Controls /\ dec.filter \in Filters
  BY DEF Tight, Remembers
<1>2. ASSUME NEW x, NEW n, NEW left, x \notin {"type", "lost"} PROVE ~Rests(At(x, n, left))
  BY <1>2 DEF Rests, At
<1>3. CASE dec.ctl = "null"
  <2>1. \E n : \E x \in {"ctl", "png"} : TightPlace(fbu, dec) = At(x, n, fbu.rects)
    BY <1>1, <1>3 DEF TightPlace, Body
  <2> QED
    BY <1>2, <2>1
<1>4. CASE dec.ctl = "fill"
  <2>1. TightPlace(fbu, dec) = At("pixel", 0, fbu.rects)
    BY <1>4 DEF TightPlace
  <2> QED
    BY <1>2, <2>1
<1>5. CASE dec.ctl = "jpegRect" \/ (dec.ctl = "pngRect" /\ fbu.encoding = "tightpng")
  <2>1. \E x \in {"data", "len"} : TightPlace(fbu, dec) = At(x, 0, fbu.rects)
    BY <1>5 DEF TightPlace
  <2> QED
    BY <1>2, <2>1
<1>6. CASE dec.ctl \in {"basic", "plain"} /\ fbu.encoding = "tight"
  <2> DEFINE t == TightPlace(fbu, dec)
  <2>1. t = CASE dec.filter = "null" /\ dec.ctl = "basic" -> At("filter", fbu.area, fbu.rects)
              [] dec.filter = "paletteFilter" /\ ~dec.colours -> At("palette", fbu.area, fbu.rects)
              [] dec.filter = "badFilter" -> Lost
              [] OTHER -> IF dec.len THEN At("data", 0, fbu.rects) ELSE TightData(fbu.area, fbu.rects)
    BY <1>6 DEF TightPlace
  <2> HIDE DEF t
  <2>2. dec.filter # "badFilter" /\ ~(dec.filter = "null" /\ dec.ctl = "plain")
    BY DEF TightReady, Unreadable
  <2>3. CASE dec.filter = "null" /\ dec.ctl = "basic"
    <3>1. t = At("filter", fbu.area, fbu.rects)
      BY <2>1, <2>3
    <3> QED
      BY <1>2, <3>1 DEF t
  <2>4. CASE dec.filter = "paletteFilter" /\ ~dec.colours
    <3>1. t = At("palette", fbu.area, fbu.rects)
      BY <2>1, <2>4
    <3> QED
      BY <1>2, <3>1 DEF t
  <2>5. CASE ~(dec.filter = "null" /\ dec.ctl = "basic") /\ ~(dec.filter = "paletteFilter" /\ ~dec.colours)
    <3>1. t = IF dec.len THEN At("data", 0, fbu.rects) ELSE TightData(fbu.area, fbu.rects)
      BY <2>1, <2>2, <2>5
    <3>2. fbu.area # 0
      <4>1. dec.filter \in {"copyFilter", "gradientFilter"}
              \/ (dec.filter = "paletteFilter" /\ dec.colours)
        BY <1>1, <1>6, <2>2, <2>5 DEF Filters
      <4> QED
        BY <1>6, <4>1 DEF TightReady
    <3>3. \E x \in {"data", "pixels", "len"} : t = At(x, 0, fbu.rects)
      BY <3>1, <3>2 DEF TightData
    <3> QED
      BY <1>2, <3>3 DEF t
  <2> QED
    BY <2>3, <2>4, <2>5
<1>7. CASE /\ dec.ctl # "null" /\ dec.ctl # "fill" /\ dec.ctl # "jpegRect"
           /\ ~(dec.ctl = "pngRect" /\ fbu.encoding = "tightpng")
           /\ ~(dec.ctl \in {"basic", "plain"} /\ fbu.encoding = "tight")
  <2>1. \/ dec.ctl = "badCtl" \/ (fbu.encoding = "tight" /\ dec.ctl = "pngRect")
        \/ (fbu.encoding = "tightpng" /\ dec.ctl \in {"basic", "plain"})
    BY <1>1, <1>7 DEF Controls
  <2> QED
    BY <2>1 DEF TightReady, Unreadable
<1> QED
  BY <1>3, <1>4, <1>5, <1>6, <1>7

(* Cells that the queue has, by its length. *)
LEMMA NeedsOf ==
  ASSUME NEW m \in Nat, m = Len(rQ)
  PROVE  \A n \in Nat : Has(n) <=> m >= n
BY DEF Has

(* Nor is a rectangle waited for of which all has come. *)
LEMMA RectWhole ==
  ASSUME rQ \in Seq(WireCells), fbu \in Fbus, dec \in Decs, Remembers(fbu, dec), fbu.rects > 0,
         NEW q, Path(NextPlace(fbu, dec), rQ, q), Rests(q)
  PROVE  Has(NeededByRect)
<1> SUFFICES ASSUME ~Has(NeededByRect) PROVE FALSE
  OBVIOUS
<1> DEFINE m == Len(rQ)
           v == rQ[1].val
           e == fbu.encoding
           p == NextPlace(fbu, dec)
<1>l. m = Len(rQ) /\ m \in Nat
  OBVIOUS
<1> HIDE DEF m
<1>1. (\A n \in Nat : Has(n) <=> m >= n) /\ fbu.rects \in Nat /\ fbu.area \in Nat
  BY <1>l, NeedsOf DEF Fbus, Many
<1>2. ASSUME NEW x, NEW n, NEW left, x \notin {"type", "lost"} PROVE ~Rests(At(x, n, left))
  BY <1>2 DEF Rests, At
<1>3. Path(p, rQ, q)
  OBVIOUS
<1>4. e # "null" => p = BodyPlace(fbu, dec)
  BY <1>1 DEF NextPlace
<1>p. e = "null" => p = At("area", 0, fbu.rects)
  BY <1>1 DEF NextPlace, Between
<1> HIDE DEF p
<1>5. m = 0 => Rests(p)
  BY <1>3, <1>l, PathOfFew
<1>6. m = 1 => Expects(p, rQ[1]) /\ Rests(PlaceAfter(p, rQ[1]))
  BY <1>3, <1>l, PathOfFew
<1>7. m = 2 => \A p1 : PlaceAfter(p, rQ[1]) = p1 => Rests(PlaceAfter(p1, rQ[2]))
  BY <1>3, <1>l, PathOfFew
<1>8. CASE e = "null"
  <2>1. NeededByRect = 2
    BY <1>8 DEF NeededByRect, Tight
  <2>2. m = 0 \/ m = 1
    BY <1>1, <1>l, <2>1
  <2>3. PlaceAfter(At("area", 0, fbu.rects), rQ[1]) = At("encoding", Num(v), fbu.rects)
    BY DEF PlaceAfter, At
  <2>4. ~Rests(At("area", 0, fbu.rects)) /\ ~Rests(At("encoding", Num(v), fbu.rects))
    BY <1>2
  <2> QED
    BY <1>5, <1>6, <1>8, <1>p, <2>2, <2>3, <2>4
<1>9. CASE e \in {"last", "qemu", "size"} \/ e \notin Encodings \union Pseudo \union {"null"}
  <2>1. NeededByRect = 0
    <3>1. CASE e \in {"last", "qemu", "size"}
      BY <3>1 DEF NeededByRect, Tight
    <3>2. CASE e \notin Encodings \union Pseudo \union {"null"}
      <4>1. e \notin {"null", "last", "qemu", "size", "name", "vmware", "raw", "hextile", "jpeg",
                      "tight", "tightpng"}
        BY <3>2 DEF Encodings, Pseudo
      <4> QED
        BY <3>2, <4>1 DEF NeededByRect, Tight
    <3> QED
      BY <1>9, <3>1, <3>2
  <2> QED
    BY <1>1, <1>l, <2>1
<1>10. CASE e = "name"
  <2>1. NeededByRect = 2 /\ p = At("nameLen", 0, fbu.rects)
    BY <1>4, <1>10 DEF NeededByRect, Tight, BodyPlace, Body
  <2>2. m = 0 \/ m = 1
    BY <1>1, <1>l, <2>1
  <2>3. PlaceAfter(At("nameLen", 0, fbu.rects), rQ[1]) = At("name", 0, fbu.rects)
    BY DEF PlaceAfter, At
  <2>4. ~Rests(At("nameLen", 0, fbu.rects)) /\ ~Rests(At("name", 0, fbu.rects))
    BY <1>2
  <2> QED
    BY <1>5, <1>6, <2>1, <2>2, <2>3, <2>4
<1>11. CASE e = "vmware"
  <2>1. p = At("vmHead", 0, fbu.rects)
    BY <1>4, <1>11 DEF Tight, BodyPlace, Body
  <2>2. NeededByRect = IF Has(1) /\ v # "other" THEN 2 ELSE 1
    BY <1>11 DEF NeededByRect, Tight
  <2>3. m = 0 \/ (m = 1 /\ v # "other")
    <3>1. CASE Has(1) /\ v # "other"
      <4>1. NeededByRect = 2
        BY <2>2, <3>1
      <4> QED
        BY <1>1, <1>l, <3>1, <4>1
    <3>2. CASE ~(Has(1) /\ v # "other")
      <4>1. NeededByRect = 1
        BY <2>2, <3>2
      <4> QED
        BY <1>1, <1>l, <4>1
    <3> QED
      BY <3>1, <3>2
  <2>4. v # "other" => PlaceAfter(At("vmHead", 0, fbu.rects), rQ[1]) = At("vmCursor", 0, fbu.rects)
    BY DEF PlaceAfter, At
  <2>5. ~Rests(At("vmHead", 0, fbu.rects)) /\ ~Rests(At("vmCursor", 0, fbu.rects))
    BY <1>2
  <2> QED
    BY <1>5, <1>6, <2>1, <2>3, <2>4, <2>5
<1>12. CASE e = "raw"
  <2>1. NeededByRect = IF fbu.area = 0 THEN 0 ELSE 1
    BY <1>12 DEF NeededByRect, Tight
  <2>2. m = 0 /\ fbu.area # 0
    <3>1. CASE fbu.area = 0
      <4>1. NeededByRect = 0
        BY <2>1, <3>1
      <4> QED
        BY <1>1, <1>l, <4>1
    <3>2. CASE fbu.area # 0
      <4>1. NeededByRect = 1
        BY <2>1, <3>2
      <4> QED
        BY <1>1, <1>l, <3>2, <4>1
    <3> QED
      BY <3>1, <3>2
  <2>3. \E n : p = At("line", n, fbu.rects)
    BY <1>4, <1>12, <2>2 DEF Tight, BodyPlace, Body, Times
  <2> QED
    BY <1>2, <1>5, <2>2, <2>3
<1>13. CASE e = "hextile"
  <2>1. NeededByRect = IF fbu.area = 0 THEN 0
                       ELSE IF ~Has(1) \/ v = "bad" THEN 1 ELSE Len(Tile(v))
    BY <1>13 DEF NeededByRect, Tight
  <2>2. fbu.area # 0
    <3>1. ASSUME fbu.area = 0 PROVE FALSE
      <4>1. NeededByRect = 0
        BY <2>1, <3>1
      <4> QED
        BY <1>1, <1>l, <4>1
    <3> QED
      BY <3>1
  <2>3. PICK n : p = At("subencoding", n, fbu.rects)
    BY <1>4, <1>13, <2>2 DEF Tight, BodyPlace, Body, Times
  <2>4. m # 0
    BY <1>2, <1>5, <2>3
  <2>5. Has(1) /\ v # "bad" /\ NeededByRect = Len(Tile(v))
    <3>1. Has(1)
      BY <1>1, <1>l, <2>4
    <3>2. ASSUME v = "bad" PROVE FALSE
      <4>1. NeededByRect = 1
        BY <2>1, <2>2, <3>2
      <4> QED
        BY <3>1, <4>1
    <3> QED
      BY <2>1, <2>2, <3>1, <3>2
  <2>6. CASE v = "rawTile"
    <3>1. NeededByRect = 2
      BY <2>5, <2>6 DEF Tile
    <3>2. m = 1
      BY <1>1, <1>l, <2>4, <3>1
    <3>3. PlaceAfter(At("subencoding", n, fbu.rects), rQ[1]) = At("tile", n, fbu.rects)
      BY <2>6 DEF PlaceAfter, At
    <3> QED
      BY <1>2, <1>6, <2>3, <3>2, <3>3
  <2>7. CASE v = "subrects"
    <3>1. NeededByRect = 3
      BY <2>5, <2>7 DEF Tile
    <3>2. m = 1 \/ m = 2
      BY <1>1, <1>l, <2>4, <3>1
    <3>3. PlaceAfter(At("subencoding", n, fbu.rects), rQ[1]) = At("nsubrects", n, fbu.rects)
      BY <2>7 DEF PlaceAfter, At
    <3>4. PlaceAfter(At("nsubrects", n, fbu.rects), rQ[2]) = At("tile", n, fbu.rects)
      BY DEF PlaceAfter, At
    <3>5. ~Rests(At("nsubrects", n, fbu.rects)) /\ ~Rests(At("tile", n, fbu.rects))
      BY <1>2
    <3> QED
      BY <1>6, <1>7, <2>3, <3>2, <3>3, <3>4, <3>5
  <2>8. CASE v \notin {"rawTile", "subrects"}
    <3>1. NeededByRect = 1
      BY <2>5, <2>8 DEF Tile
    <3> QED
      BY <2>5, <3>1
  <2> QED
    BY <2>6, <2>7, <2>8
<1>14. CASE e = "jpeg"
  <2>1. NeededByRect = IF ~Has(1) \/ v = "bad" THEN 1
                       ELSE IF v = "scan" THEN 3 ELSE Len(Segment(v))
    BY <1>14 DEF NeededByRect, Tight
  <2>2. PICK n : p = At("marker", n, fbu.rects)
    BY <1>4, <1>14 DEF Tight, BodyPlace
  <2>3. m # 0
    BY <1>2, <1>5, <2>2
  <2>4. Has(1) /\ v # "bad" /\ NeededByRect = IF v = "scan" THEN 3 ELSE Len(Segment(v))
    <3>1. Has(1)
      BY <1>1, <1>l, <2>3
    <3>2. ASSUME v = "bad" PROVE FALSE
      <4>1. NeededByRect = 1
        BY <2>1, <3>2
      <4> QED
        BY <3>1, <4>1
    <3> QED
      BY <2>1, <3>1, <3>2
  <2>5. PlaceAfter(At("marker", n, fbu.rects), rQ[1]) = AfterMarker(v, n, fbu.rects)
    BY DEF PlaceAfter, At
  <2>6. CASE v \in {"start", "eoi"}
    <3>1. NeededByRect = 1
      BY <2>4, <2>6 DEF Segment
    <3> QED
      BY <2>4, <3>1
  <2>7. CASE v \notin {"start", "eoi"}
    <3>1. PICK k : AfterMarker(v, n, fbu.rects) = At("segment", k, fbu.rects)
      BY <2>4, <2>7 DEF AfterMarker
    <3>2. NeededByRect = IF v = "scan" THEN 3 ELSE 2
      BY <2>4, <2>7 DEF Segment
    <3>3. m = 1 \/ m = 2
      BY <1>1, <1>l, <2>3, <3>2
    <3>4. PlaceAfter(At("segment", k, fbu.rects), rQ[2]) = At("marker", k, fbu.rects)
      BY DEF PlaceAfter, At
    <3>5. ~Rests(At("segment", k, fbu.rects)) /\ ~Rests(At("marker", k, fbu.rects))
      BY <1>2
    <3> QED
      BY <1>6, <1>7, <2>2, <2>5, <3>1, <3>3, <3>4, <3>5
  <2> QED
    BY <2>6, <2>7
<1>15. CASE e \in Tight
  <2>1. NeededByRect = IF TightReady THEN 0 ELSE 1
    BY <1>15 DEF NeededByRect, Tight
  <2>2. ~TightReady /\ m = 0
    <3>1. CASE TightReady
      <4>1. NeededByRect = 0
        BY <2>1, <3>1
      <4> QED
        BY <1>1, <1>l, <4>1
    <3>2. CASE ~TightReady
      <4>1. NeededByRect = 1
        BY <2>1, <3>2
      <4> QED
        BY <1>1, <1>l, <3>2, <4>1
    <3> QED
      BY <3>1, <3>2
  <2>3. p = TightPlace(fbu, dec)
    BY <1>4, <1>15 DEF BodyPlace, Tight
  <2> QED
    BY <1>1, <1>5, <1>15, <2>2, <2>3, TightWhole
<1>16. CASE e \in {"copy", "rre", "zrle", "extsize", "led", "cursor"}
  <2>1. NeededByRect = 1
    BY <1>16 DEF NeededByRect, Tight, Encodings, Pseudo
  <2>2. m = 0
    BY <1>1, <1>l, <2>1
  <2>3. \E n : \E x \in {"source", "rreHead", "subrect", "zlen", "tiles", "layout", "led",
                        "cursor"} : p = At(x, n, fbu.rects)
    <3>1. CASE e = "rre" /\ dec.subrects > 0
      BY <1>4, <3>1 DEF BodyPlace, Tight
    <3>2. CASE e = "zrle" /\ dec.zlen
      BY <1>4, <3>2 DEF BodyPlace, Tight
    <3>3. CASE ~(e = "rre" /\ dec.subrects > 0) /\ ~(e = "zrle" /\ dec.zlen)
      <4>1. p = Body(fbu.encoding, fbu.area, fbu.rects)
        BY <1>4, <1>16, <3>3 DEF BodyPlace, Tight
      <4> QED
        BY <1>16, <4>1 DEF Body
    <3> QED
      BY <3>1, <3>2, <3>3
  <2> QED
    BY <1>2, <1>5, <2>2, <2>3
<1>17. \/ e = "null" \/ e \in {"last", "qemu", "size"} \/ e \notin Encodings \union Pseudo \union {"null"}
       \/ e = "name" \/ e = "vmware" \/ e = "raw" \/ e = "hextile" \/ e = "jpeg" \/ e \in Tight
       \/ e \in {"copy", "rre", "zrle", "extsize", "led", "cursor"}
  BY DEF Encodings, Pseudo, Tight
<1> QED
  BY <1>8, <1>9, <1>10, <1>11, <1>12, <1>13, <1>14, <1>15, <1>16, <1>17

(* Where all has come, all is handled, and the next update is due.         *)
LEMMA CaughtUp ==
  ASSUME UInv, alive, run = "idle", leftover = "none", net = <<>>, owed = 0, ~flushing
  PROVE  rQ = <<>> /\ fbu.rects = 0 /\ (asked \/ cu.on)
<1>1. /\ UpdatesTyped /\ rQ \in Seq(WireCells) /\ fbu \in Fbus /\ dec \in Decs /\ fbu.rects \in Nat
      /\ Remembers(fbu, dec) /\ Leads(NextPlace(fbu, dec), Ahead, alive, owed)
      /\ HasToWait /\ NextDue
  <2>1. UpdatesTyped /\ Aligned
    BY DEF UInv
  <2>2. rQ \in Seq(WireCells) /\ fbu \in Fbus /\ dec \in Decs
    BY <2>1 DEF UpdatesTyped
  <2>3. fbu.rects \in Nat
    BY <2>2 DEF Fbus, Many
  <2>4. Remembers(fbu, dec) /\ Leads(NextPlace(fbu, dec), Ahead, alive, owed) /\ Served
    BY <2>1 DEF Aligned
  <2>5. HasToWait /\ NextDue
    BY <2>4 DEF Served
  <2> QED
    BY <2>1, <2>2, <2>3, <2>4, <2>5
<1>2. Ahead = rQ
  BY <1>1 DEF Ahead
<1>3. PICK q \in {Between(0), Lost} : Path(NextPlace(fbu, dec), rQ, q)
  BY <1>1, <1>2 DEF Leads
<1>4. Rests(q)
  BY DEF Rests, Between, Lost, At
<1>5. ~Has(IF fbu.rects = 0 THEN NeededByMessage ELSE NeededByRect)
  BY <1>1 DEF HasToWait
<1>6. fbu.rects = 0
  BY <1>1, <1>3, <1>4, <1>5, RectWhole
<1>7. rQ = <<>>
  <2>1. NextPlace(fbu, dec) = At("type", 0, 0)
    BY <1>6 DEF NextPlace, Between
  <2> QED
    BY <1>1, <1>3, <1>4, <1>5, <1>6, <2>1, MessageWhole
<1>8. Heads("fbu") = {}
  <2>1. Len(Ahead) = 0
    BY <1>2, <1>7
  <2> QED
    BY <2>1 DEF Heads
<1> QED
  BY <1>1, <1>6, <1>7, <1>8 DEF NextDue

-----------------------------------------------------------------------------
(* What the run checks, from the two invariants. *)
LEMMA NobodyStarves == UInv /\ ScreenInv => NeverStarved
<1> SUFFICES ASSUME UInv, ScreenInv, alive, run = "idle", leftover = "none"
             PROVE  /\ net = <<>> /\ owed = 0 /\ ~flushing =>
                         rQ = <<>> /\ fbu.rects = 0 /\ (asked \/ cu.on)
                    /\ flushing => Pending
                    /\ Pending => Head(screen.q).image \in {"loading", "broken"}
  BY Zenon DEF NeverStarved
<1>1. WaitsForImage
  BY ImagesAwaited
<1> QED
  BY <1>1, CaughtUp DEF WaitsForImage

(***************************************************************************)
(* rfb.js _handleMessage, _normalMsg and _framebufferUpdate: for every     *)
(* server that writes by the grammar, a connected session that has all     *)
(* that was written has handled all of it, with no part of a message or of *)
(* a rectangle left over, and the server has a request it may answer,      *)
(* unless the page waits for an image that has not loaded.                 *)
(***************************************************************************)
THEOREM NeverStarves == UpdatesSpec => []NeverStarved
<1>1. UpdatesInit => UInv /\ ScreenInv
  BY UpdatesStart, ScreenStarts
<1>2. (UInv /\ ScreenInv) /\ [UpdatesNext]_updatesVars => (UInv /\ ScreenInv)'
  BY UpdatesKept, ScreenStep
<1> QED
  BY <1>1, <1>2, NobodyStarves, PTL DEF UpdatesSpec
=============================================================================
