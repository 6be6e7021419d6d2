------------------------------ MODULE Viewport ------------------------------
(***************************************************************************)
(* Which part of the remote picture the page shows: the viewport of        *)
(* display.js, and the settings and events of rfb.js that size it.  Two    *)
(* axes; a pair of them is a record [w, h], a place is [x, y].             *)
(***************************************************************************)
EXTENDS Integers

CONSTANTS FbSizes,      \* sizes the server gives to the picture
          ScreenSizes,  \* sizes the browser gives to the element around it
          Pans          \* how far a drag moves the viewport, in pixels

Pairs(S) == [w : S, h : S]

ASSUME ViewportAssumption ==
  FbSizes \subseteq Nat /\ ScreenSizes \subseteq Nat /\ Pans \subseteq Int

VARIABLES fb,           \* _fbWidth, _fbHeight
          vp,           \* _viewportLoc
          clip,         \* _clipViewport of the display
          clipViewport, \* the setting of the session
          scaleViewport,
          scaledTo,     \* the size autoscale was last given, 0 by 0: scale 1
          size,         \* the current size of the element
          expected,     \* _expectedClientWidth and _expectedClientHeight
          frame,        \* an animation frame is requested
          ignored       \* a change of size was ignored, and nothing refitted

viewVars == <<fb, vp, clip, scaledTo>>
viewportVars == <<viewVars, clipViewport, scaleViewport, size, expected, frame, ignored>>

Unscaled == [w |-> 0, h |-> 0]

ViewportInit ==
  /\ fb = [w |-> 0, h |-> 0] /\ vp = [x |-> 0, y |-> 0, w |-> 0, h |-> 0]
  /\ clip = FALSE /\ clipViewport = FALSE /\ scaleViewport = FALSE
  /\ scaledTo = Unscaled
  /\ size \in Pairs(ScreenSizes) /\ expected = size
  /\ frame = FALSE /\ ignored = FALSE

-----------------------------------------------------------------------------
(***************************************************************************)
(* viewportChangePos and viewportChangeSize of display.js.  Without        *)
(* clipping the viewport is all of the picture.                            *)
(***************************************************************************)
Least(a, b) == IF a <= b THEN a ELSE b

\* Mutant of Place: only the left and upper edges are kept.
PlaceFree(pos, len, full, by) == IF pos + by < 0 THEN 0 ELSE pos + by

\* Where an axis starts after a move: not left of 0, then not past the end.
Place(pos, len, full, by) ==
  LET to == IF pos + by < 0 THEN 0 ELSE pos + by
  IN  IF to + len > full THEN full - len ELSE to

ChangePos(v, f, clipping, dx, dy) ==
  [v EXCEPT !.x = Place(v.x, v.w, f.w, IF clipping THEN dx ELSE -v.w),
            !.y = Place(v.y, v.h, f.h, IF clipping THEN dy ELSE -v.h)]

ChangeSize(v, f, clipping, w, h) ==
  LET nw == IF clipping THEN Least(w, f.w) ELSE f.w
      nh == IF clipping THEN Least(h, f.h) ELSE f.h
  IN  IF v.w = nw /\ v.h = nh THEN v
      ELSE ChangePos([v EXCEPT !.w = nw, !.h = nh], f, clipping, 0, 0)

\* The setter clipViewport of the display, and the end of its resize().
Readjust(v, f, clipping) ==
  ChangePos(ChangeSize(v, f, clipping, v.w, v.h), f, clipping, 0, 0)

(***************************************************************************)
(* _updateClip and _updateScale of rfb.js: scaling trumps clipping.        *)
(***************************************************************************)
Clips(c, s) == c /\ ~s

UpdateClip(v, f, was, now, sz) ==
  LET u == IF was = now THEN v ELSE Readjust(v, f, now)
  IN  IF now THEN ChangeSize(u, f, now, sz.w, sz.h) ELSE u

Refit(v, f, was, c, s, sz) ==
  /\ vp' = UpdateClip(v, f, was, Clips(c, s), sz)
  /\ clip' = Clips(c, s)
  /\ scaledTo' = IF s THEN sz ELSE Unscaled

Setting == UNCHANGED <<fb, size, frame>>

\* Switching clipping on or off saves the size of the element as expected.
Saved == expected' = IF clip' # clip THEN size ELSE expected

SetClipViewport(on) ==
  /\ clipViewport' = on
  /\ vp' = UpdateClip(vp, fb, clip, Clips(on, scaleViewport), size)
  /\ clip' = Clips(on, scaleViewport)
  /\ Saved
  /\ ignored' = (ignored /\ ~clip')
  /\ Setting /\ UNCHANGED <<scaleViewport, scaledTo>>

SetScaleViewport(on) ==
  /\ scaleViewport' = on
  /\ scaledTo' = IF on THEN size ELSE Unscaled
  /\ IF clipViewport
     THEN vp' = UpdateClip(vp, fb, clip, ~on, size) /\ clip' = ~on
     ELSE UNCHANGED <<vp, clip>>
  /\ Saved
  /\ ignored' = FALSE
  /\ Setting /\ UNCHANGED clipViewport

(***************************************************************************)
(* _resize: the server has given the picture another size.                 *)
(***************************************************************************)
\* Mutant of Resized: the display keeps the viewport it has.
ResizedOnly(f) == vp

Resized(f) == Readjust(vp, f, clip)

ServerResize(f) ==
  /\ fb' = f
  /\ Refit(Resized(f), f, clip, clipViewport, scaleViewport, size)
  /\ expected' = size /\ ignored' = FALSE
  /\ UNCHANGED <<clipViewport, scaleViewport, size, frame>>

(***************************************************************************)
(* _handleResize: the element has another size.  The size that was current *)
(* at the last _resize is not acted upon.                                  *)
(***************************************************************************)
HandleResize(sz) ==
  /\ sz # size /\ size' = sz
  /\ \/ sz = expected /\ ignored' = TRUE /\ UNCHANGED frame
     \/ sz # expected /\ frame' = TRUE /\ UNCHANGED ignored
  /\ UNCHANGED <<viewVars, clipViewport, scaleViewport, expected>>

\* Mutant of AnimationFrame: only the clipping is brought up to date.
AnimationFrameClip ==
  /\ frame /\ frame' = FALSE
  /\ vp' = UpdateClip(vp, fb, clip, Clips(clipViewport, scaleViewport), size)
  /\ ignored' = FALSE
  /\ UNCHANGED <<clip, scaledTo, fb, size, clipViewport, scaleViewport, expected>>

AnimationFrame ==
  /\ frame /\ frame' = FALSE
  /\ Refit(vp, fb, clip, clipViewport, scaleViewport, size)
  /\ Saved
  /\ ignored' = FALSE
  /\ UNCHANGED <<fb, size, clipViewport, scaleViewport>>

\* A drag of the viewport.
Pan(dx, dy) ==
  /\ vp' = ChangePos(vp, fb, clip, dx, dy)
  /\ UNCHANGED <<fb, clip, scaledTo, clipViewport, scaleViewport, size, expected,
                 frame, ignored>>

ViewportNext ==
  \/ \E on \in BOOLEAN : SetClipViewport(on) \/ SetScaleViewport(on)
  \/ \E f \in Pairs(FbSizes) : ServerResize(f)
  \/ \E sz \in Pairs(ScreenSizes) : HandleResize(sz)
  \/ AnimationFrame
  \/ \E dx, dy \in Pans : Pan(dx, dy)

ViewportSpec == ViewportInit /\ [][ViewportNext]_viewportVars

-----------------------------------------------------------------------------
ViewportTypeOK ==
  /\ fb \in Pairs(Nat) /\ vp \in [x : Int, y : Int, w : Nat, h : Nat]
  /\ clip \in BOOLEAN /\ clipViewport \in BOOLEAN /\ scaleViewport \in BOOLEAN
  /\ scaledTo \in Pairs(Nat) /\ size \in Pairs(Nat) /\ expected \in Pairs(Nat)
  /\ frame \in BOOLEAN /\ ignored \in BOOLEAN

(***************************************************************************)
(* Whatever the server, the browser and the user resize and drag, in       *)
(* whatever order, the viewport is a part of the picture, and all of it    *)
(* unless it clips; it clips when it is told to and does not scale.        *)
(***************************************************************************)
ViewInside ==
  /\ vp.x >= 0 /\ vp.x + vp.w <= fb.w
  /\ vp.y >= 0 /\ vp.y + vp.h <= fb.h
  /\ ~clip => vp.w = fb.w /\ vp.h = fb.h
  /\ clip = Clips(clipViewport, scaleViewport)

(***************************************************************************)
(* What is shown fits the element, once the page has drawn a frame: a      *)
(* clipped viewport is as large as the element allows, a scaled one is     *)
(* scaled to it.  (But for a change of size that was ignored.)             *)
(***************************************************************************)
ViewFits ==
  ~frame /\ ~ignored =>
    /\ clip => vp.w = Least(size.w, fb.w) /\ vp.h = Least(size.h, fb.h)
    /\ scaledTo = IF scaleViewport THEN size ELSE Unscaled
=============================================================================
