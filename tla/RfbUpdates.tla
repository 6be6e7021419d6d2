----------------------------- MODULE RfbUpdates -----------------------------
(***************************************************************************)
(* A connected session of rfb.js: the messages of the server, the updates  *)
(* of the picture with every encoding the code decodes, and the queue in   *)
(* which display.js keeps what has to wait for an image.  A handler that   *)
(* lacks data returns, and is called again with the next message event;    *)
(* fields of the decoders remember how far it had come.  Pixels are not    *)
(* modelled.  The server is external: it writes complete messages.         *)
(***************************************************************************)
EXTENDS RfbStream, RfbProtocol

CONSTANTS Bodies,       \* [encoding -> bodies of rectangles the server writes]
          Notes,        \* the messages it writes besides updates
          MaxAhead      \* bound: cells on their way when it writes more

\* The server writes by the protocol: a body is one rectangle, whatever update
\* it is part of, and a note is one message.
ASSUME BodiesAssumption ==
  \A encoding \in DOMAIN Bodies : \A body \in Bodies[encoding] :
    /\ Expects(At("area", 0, 1), Cell("area", body[1]))
    /\ encoding \in STRING /\ encoding # "null"
    /\ body[2] \in Seq([role : STRING, val : STRING])
    /\ \A i \in DOMAIN body[2] : body[2][i].role # "type"
    /\ \A owed \in 1 .. Many :
         Written(Body(encoding, Num(body[1]), owed), body[2], {Between(owed - 1), Lost})

ASSUME NotesAssumption ==
  \A note \in Notes :
    /\ note \in Seq([role : STRING, val : STRING]) /\ note # <<>>
    /\ \A i \in 2 .. Len(note) : note[i].role # "type"
    /\ Written(Between(0), note, {Between(0)})

VARIABLES alive,        \* _rfbConnectionState is "connected"
          fbu,          \* _FBU: rects left, encoding, area
          dec,          \* what the decoders remember
          flushing,     \* _flushing
          screen,       \* display.js: the render queue, and what was drawn
          cu,           \* _enabledContinuousUpdates, and whether it was offered
          asked,        \* an update request the server has not answered
          owed,         \* rectangles the server has still to write
          leftover      \* "none" or the data a handler has left in the queue

updatesVars == <<alive, fbu, dec, flushing, screen, cu, asked, owed,
                 leftover, streamVars>>

Fresh == [lines |-> 0, subrects |-> 0, tiles |-> 0, ctl |-> "null", filter |-> "null",
          colours |-> FALSE, len |-> FALSE, zlen |-> FALSE, segments |-> {}]

UpdatesInit ==
  /\ alive = TRUE
  /\ fbu = [rects |-> 0, encoding |-> "null", area |-> 0]
  /\ dec = Fresh
  /\ flushing = FALSE
  /\ screen = [q |-> <<>>, drawn |-> 0, painted |-> 0, ok |-> TRUE]
  /\ cu = [on |-> FALSE, offered |-> FALSE]
  /\ asked = TRUE /\ owed = 0 /\ leftover = "none"
  /\ StreamInit

-----------------------------------------------------------------------------
(***************************************************************************)
(* display.js.  The drawing operations of an update are numbered.  While   *)
(* the render queue is empty they are painted at once, otherwise they are  *)
(* queued; an image is always queued.  _scanRenderQ paints up to the first *)
(* image that has not come, or that has come with other dimensions.        *)
(***************************************************************************)
Scan(s) ==
  LET Ready(n) == \A j \in 1 .. n : s.q[j].image \notin {"loading", "broken"}
      n == CHOOSE n \in 0 .. Len(s.q) : Ready(n) /\ (n = Len(s.q) \/ ~Ready(n + 1))
  IN  [s EXCEPT !.q = SubSeq(@, n + 1, Len(@)),
                !.painted = @ + n,
                !.ok = @ /\ \A j \in 1 .. n : s.q[j].n = s.painted + j]

\* Mutant of Draw: what is not an image does not queue.
DrawNow(s, image) ==
  LET a == [n |-> s.drawn + 1, image |-> image]
      t == [s EXCEPT !.drawn = @ + 1]
  IN  IF image = "none"
      THEN [t EXCEPT !.painted = @ + 1, !.ok = @ /\ a.n = s.painted + 1]
      ELSE IF s.q = <<>> THEN Scan([t EXCEPT !.q = <<a>>])
      ELSE [t EXCEPT !.q = Append(@, a)]

\* `image` is "none" for all but images: fillRect, copyImage, blitImage, flip.
Draw(s, image) ==
  LET a == [n |-> s.drawn + 1, image |-> image]
      t == [s EXCEPT !.q = Append(@, a), !.drawn = @ + 1]
  IN  IF s.q = <<>> THEN Scan(t) ELSE t

\* The numbers start again with each update; the queue must be empty then.
NewUpdate(s) ==
  [s EXCEPT !.drawn = 0, !.painted = 0, !.ok = @ /\ s.q = <<>>]

\* Mutant of Pending: an update never waits for the one before.
PendingNever == FALSE

Pending == screen.q # <<>>

(***************************************************************************)
(* An image loads or does not, at any time.  _resumeRenderQ listens for    *)
(* the load of the first one; nothing listens for errors.  When the queue  *)
(* has become empty the promise of flush() is fulfilled, and the handler   *)
(* goes on with what has arrived in the meantime.                          *)
(***************************************************************************)
Resumed(s) ==
  IF flushing /\ s.q = <<>>
  THEN /\ flushing' = FALSE
       /\ run' = IF rQ # <<>> /\ alive THEN "loop" ELSE "idle"
       /\ screen' = NewUpdate(s)
  ELSE screen' = s /\ UNCHANGED <<flushing, run>>

\* Mutant of ImageLoads: what has arrived waits for the next message.
ImageLoadsLater ==
  /\ run = "idle"
  /\ \E i \in DOMAIN screen.q : screen.q[i].image = "loading" /\
       LET s == [screen EXCEPT !.q[i].image = "loaded"]
           t == IF i = 1 THEN Scan(s) ELSE s
       IN  /\ screen' = IF flushing /\ t.q = <<>> THEN NewUpdate(t) ELSE t
           /\ flushing' = (flushing /\ t.q # <<>>)
  /\ UNCHANGED <<alive, fbu, dec, cu, asked, owed, leftover, streamVars>>

ImageLoads ==
  /\ run = "idle"
  /\ \E i \in DOMAIN screen.q : screen.q[i].image = "loading" /\
       LET s == [screen EXCEPT !.q[i].image = "loaded"]
       IN  Resumed(IF i = 1 THEN Scan(s) ELSE s)
  /\ UNCHANGED <<alive, fbu, dec, cu, asked, owed, leftover, net, rQ, misread>>

ImageBreaks ==
  /\ run = "idle"
  /\ \E i \in DOMAIN screen.q :
       screen.q[i].image = "loading" /\ screen' = [screen EXCEPT !.q[i].image = "broken"]
  /\ UNCHANGED <<alive, fbu, dec, flushing, cu, asked, owed, leftover, streamVars>>

-----------------------------------------------------------------------------
(***************************************************************************)
(* _handleMessage and _normalMsg.  While rectangles are left, no type is   *)
(* read: the update goes on.  A handler that calls _fail may still return  *)
(* true; then the loop goes on with what is in the queue.                  *)
(***************************************************************************)
Handling == run = "loop" /\ ~flushing /\ ~misread

EndSession(goOn) ==
  /\ alive' = FALSE /\ Return(goOn)
  /\ net' = <<>>
  /\ UNCHANGED <<fbu, dec, flushing, screen, cu, asked, owed>>

Handled ==
  /\ Return(TRUE)
  /\ UNCHANGED <<alive, fbu, dec, flushing, screen, asked, owed>>

Next1(type) == Handling /\ fbu.rects = 0 /\ Has(1) /\ rQ[1].val = type

Bell ==
  /\ Next1("bell") /\ Read(<<"type">>) /\ Handled /\ UNCHANGED <<cu, leftover>>

\* A read followed by _fail, which closes the socket.
Reject(roles, goOn) ==
  /\ Has(Len(roles))
  /\ rQ' = SubSeq(rQ, Len(roles) + 1, Len(rQ))
  /\ EndSession(goOn) /\ UNCHANGED <<misread, leftover>>

SetColourMap == Next1("colourmap") /\ Reject(<<"type">>, FALSE)

UnknownType ==
  /\ Handling /\ fbu.rects = 0 /\ Has(1)
  /\ rQ[1].val \notin {"fbu", "colourmap", "bell", "cut", "end", "fence", "xvp"}
  /\ IF rQ[1].role = "type" THEN Reject(<<"type">>, TRUE)
     ELSE Read(<<"type">>) /\ Handled /\ UNCHANGED <<cu, leftover>>

(***************************************************************************)
(* _handleServerCutText.  An extended message starts with its action.  A   *)
(* view-only session returns early, and leaves the data of a provide where *)
(* it is; so does a provide that has no text.  The page may have set the   *)
(* session to view-only, or back, at any time before.                      *)
(***************************************************************************)
ServerCutText ==
  /\ Next1("cut")
  /\ \/ /\ Has(3) /\ rQ[2].val = "plain"
        /\ Read(<<"type", "cutHead", "text">>)
        /\ Handled /\ UNCHANGED <<cu, leftover>>
     \/ /\ Has(3) /\ rQ[2].val = "extended" /\ rQ[3].val = "unknown"
        /\ Reject(<<"type", "cutHead", "flags">>, FALSE)
     \/ /\ Has(3) /\ rQ[2].val = "extended" /\ rQ[3].val # "unknown"
        /\ Read(<<"type", "cutHead", "flags">>)
        /\ Handled /\ UNCHANGED <<cu, leftover>>
     \/ /\ Has(4) /\ rQ[2].val = "provide" /\ rQ[3].val = "text"
        /\ Read(<<"type", "cutHead", "flags", "zlib">>)
        /\ Handled /\ UNCHANGED <<cu, leftover>>
     \/ /\ Has(4) /\ rQ[2].val = "provide"     \* view-only, or no text
        /\ Read(<<"type", "cutHead", "flags">>) /\ leftover' = "provide"
        /\ Handled /\ UNCHANGED cu

(***************************************************************************)
(* EndOfContinuousUpdates: the first offers them, and they are enabled; a  *)
(* later one ends them, and no request is sent.                            *)
(***************************************************************************)
EndOfContinuousUpdates ==
  /\ Next1("end") /\ Read(<<"type">>)
  /\ cu' = [on |-> ~cu.offered, offered |-> TRUE]
  /\ Handled /\ UNCHANGED leftover

(***************************************************************************)
(* A fence's whole payload is waited for, and 64 bytes of it are read: of  *)
(* a long one the rest stays in the queue.                                 *)
(***************************************************************************)
ServerFence ==
  /\ Next1("fence") /\ Has(3)
  /\ \/ /\ rQ[2].val = "request"
        /\ Read(<<"type", "fenceHead", "payload">>) /\ Handled /\ UNCHANGED <<cu, leftover>>
     \/ /\ rQ[2].val = "long" /\ Has(4)
        /\ Read(<<"type", "fenceHead", "payload">>) /\ leftover' = "fence"
        /\ Handled /\ UNCHANGED cu
     \/ /\ rQ[2].val \notin {"request", "long"}
        /\ Reject(<<"type", "fenceHead", "payload">>, FALSE)

Xvp ==
  /\ Next1("xvp") /\ Has(2)
  /\ IF rQ[2].val = "bad"
     THEN Reject(<<"type", "xvpBody">>, TRUE)
     ELSE Read(<<"type", "xvpBody">>) /\ Handled /\ UNCHANGED <<cu, leftover>>

-----------------------------------------------------------------------------
(***************************************************************************)
(* _framebufferUpdate.  When an image of the update before is still to be  *)
(* painted, the rectangles wait; an update of none is forgotten then.      *)
(* Otherwise the last rectangle is followed by a flip and by the request   *)
(* for the next update, unless the server sends them continuously.         *)
(***************************************************************************)
\* Mutant of Request: the next update is asked for only while nothing waits.
RequestIfPainted == asked' = (asked \/ (~cu.on /\ ~Pending))

Request == asked' = (asked \/ ~cu.on)

Finished(s) == screen' = Draw(s, "none") /\ Request

Updating == UNCHANGED <<alive, cu, owed>>

FramebufferUpdate ==
  /\ Next1("fbu") /\ Read(<<"type", "header">>)
  /\ LET n == Num(rQ[2].val) IN
     /\ fbu' = [fbu EXCEPT !.rects = n]
     /\ \/ /\ Pending
           /\ flushing' = TRUE /\ run' = "idle"
           /\ leftover' = IF n = 0 THEN "update" ELSE leftover
           /\ UNCHANGED <<screen, asked>>
        \/ /\ ~Pending
           /\ IF n = 0 THEN Finished(NewUpdate(screen))
              ELSE screen' = NewUpdate(screen) /\ UNCHANGED asked
           /\ Return(TRUE) /\ UNCHANGED <<flushing, leftover>>
  /\ UNCHANGED dec /\ Updating

RectHeader ==
  /\ Handling /\ fbu.rects > 0 /\ fbu.encoding = "null"
  /\ Read(<<"area", "encoding">>)
  /\ fbu' = [fbu EXCEPT !.area = Num(rQ[1].val), !.encoding = rQ[2].val]
  /\ Return(TRUE)
  /\ UNCHANGED <<dec, flushing, screen, asked, leftover>> /\ Updating

\* In a rectangle; what follows a step of its decoder.
InRect(encodings) == Handling /\ fbu.rects > 0 /\ fbu.encoding \in encodings

Keep(s) ==
  /\ screen' = s /\ Return(TRUE)
  /\ UNCHANGED <<fbu, flushing, asked>> /\ Updating

Complete(s, last) ==
  /\ LET left == IF last THEN 0 ELSE fbu.rects - 1 IN
     /\ fbu' = [fbu EXCEPT !.rects = left, !.encoding = "null"]
     /\ IF left = 0 THEN Finished(s) ELSE screen' = s /\ UNCHANGED asked
  /\ Return(TRUE)
  /\ UNCHANGED flushing /\ Updating

Done(s) == Complete(s, FALSE)

Paint == Draw(screen, "none")
PaintImage == {Draw(screen, state) : state \in {"loading", "loaded"}}

Throw ==
  /\ EndSession(FALSE) /\ UNCHANGED <<rQ, misread, leftover>>

(***************************************************************************)
(* The rectangles that carry no picture.  LastRect leaves one rectangle to *)
(* be counted down, itself.  A new size is applied at once.                *)
(***************************************************************************)
Skipped == UNCHANGED <<dec, leftover>>
NothingRead == UNCHANGED <<net, rQ, misread>>

LastRect == InRect({"last"}) /\ Complete(screen, TRUE) /\ Skipped /\ NothingRead

QEMUExtendedKeyEvent == InRect({"qemu"}) /\ Done(screen) /\ Skipped /\ NothingRead

\* A new size flips the display when it changes what the viewport shows.
DesktopSize ==
  /\ InRect({"size"}) /\ \E s \in {screen, Paint} : Done(s)
  /\ Skipped /\ NothingRead

\* A refused request for a size is answered with this rectangle too.
ExtendedDesktopSize ==
  /\ InRect({"extsize"}) /\ Read(<<"layout">>) /\ Skipped
  /\ \E s \in (IF rQ[1].val = "refused" THEN {screen} ELSE {screen, Paint}) : Done(s)

LedEvent == InRect({"led"}) /\ Read(<<"led">>) /\ Done(screen) /\ Skipped

DesktopName == InRect({"name"}) /\ Read(<<"nameLen", "name">>) /\ Done(screen) /\ Skipped

Cursor == InRect({"cursor"}) /\ Read(<<"cursor">>) /\ Done(screen) /\ Skipped

\* An unknown type is neither handled nor put back.
VMwareCursor ==
  /\ InRect({"vmware"}) /\ UNCHANGED dec
  /\ \/ /\ Has(1) /\ rQ[1].val # "other"
        /\ Read(<<"vmHead", "vmCursor">>) /\ Done(screen)
        /\ UNCHANGED leftover
     \/ /\ Read(<<"vmHead">>) /\ rQ[1].val = "other"
        /\ leftover' = "cursor" /\ run' = "idle"
        /\ UNCHANGED <<fbu, flushing, screen, asked>> /\ Updating

PseudoRect ==
  \/ LastRect \/ QEMUExtendedKeyEvent \/ DesktopSize \/ ExtendedDesktopSize
  \/ LedEvent \/ DesktopName \/ Cursor \/ VMwareCursor

Encodings == {"raw", "copy", "rre", "hextile", "tight", "tightpng", "zrle", "jpeg"}
Pseudo == {"last", "qemu", "size", "extsize", "led", "name", "cursor", "vmware"}

UnknownEncoding ==
  /\ Handling /\ fbu.rects > 0
  /\ fbu.encoding \notin Encodings \union Pseudo \union {"null"}
  /\ Throw

-----------------------------------------------------------------------------
(***************************************************************************)
(* The decoders.  Each says in a field that is zero or null that it starts *)
(* with a new rectangle.                                                   *)
(***************************************************************************)
Raw ==
  /\ InRect({"raw"}) /\ UNCHANGED leftover
  /\ \/ /\ fbu.area = 0
        /\ Done(screen) /\ UNCHANGED <<dec, net, rQ, misread>>
     \/ /\ fbu.area > 0 /\ Read(<<"line">>)
        /\ LET lines == IF dec.lines = 0 THEN fbu.area ELSE dec.lines IN
           /\ dec' = [dec EXCEPT !.lines = lines - 1]
           /\ IF lines = 1 THEN Done(Paint) ELSE Keep(Paint)

CopyRect ==
  /\ InRect({"copy"}) /\ Read(<<"source">>)
  /\ Done(IF fbu.area = 0 THEN screen ELSE Paint)
  /\ UNCHANGED <<dec, leftover>>

RRE ==
  /\ InRect({"rre"}) /\ UNCHANGED leftover
  /\ LET left == IF dec.subrects = 0 THEN Num(rQ[1].val) ELSE dec.subrects - 1 IN
     /\ Read(IF dec.subrects = 0 THEN <<"rreHead">> ELSE <<"subrect">>)
     /\ dec' = [dec EXCEPT !.subrects = left]
     /\ IF left = 0 THEN Done(Paint) ELSE Keep(Paint)

(***************************************************************************)
(* Hextile looks at all of a tile before it reads any of it.  A blank tile *)
(* after a raw one is not drawn.                                           *)
(***************************************************************************)
Tile(subencoding) ==
  CASE subencoding = "rawTile" -> <<"subencoding", "tile">>
    [] subencoding = "subrects" -> <<"subencoding", "nsubrects", "tile">>
    [] OTHER -> <<"subencoding">>

Hextile ==
  /\ InRect({"hextile"}) /\ UNCHANGED leftover
  /\ \/ /\ fbu.area = 0 /\ dec.tiles = 0
        /\ Done(screen) /\ UNCHANGED <<dec, net, rQ, misread>>
     \/ /\ Has(1) /\ (fbu.area > 0 \/ dec.tiles > 0)
        /\ rQ[1].val # "bad" /\ Read(Tile(rQ[1].val))
        /\ LET tiles == IF dec.tiles = 0 THEN fbu.area ELSE dec.tiles IN
           /\ dec' = [dec EXCEPT !.tiles = tiles - 1]
           /\ \E s \in (IF rQ[1].val = "blank" THEN {screen, Paint} ELSE {Paint}) :
                IF tiles = 1 THEN Done(s) ELSE Keep(s)

HextileThrows ==
  /\ InRect({"hextile"}) /\ fbu.area > 0 /\ Has(1) /\ rQ[1].val = "bad" /\ Throw

(***************************************************************************)
(* Tight and TightPNG.  _readData reads a length and then that much data;  *)
(* a few pixels come without a length.                                     *)
(***************************************************************************)
Tight == {"tight", "tightpng"}

TightControl ==
  /\ InRect(Tight) /\ dec.ctl = "null" /\ Read(<<"ctl">>)
  /\ dec' = [dec EXCEPT !.ctl = rQ[1].val]
  /\ Keep(screen) /\ UNCHANGED leftover

TightFill ==
  /\ InRect(Tight) /\ dec.ctl = "fill" /\ Read(<<"pixel">>)
  /\ dec' = [dec EXCEPT !.ctl = "null"]
  /\ Done(Paint) /\ UNCHANGED leftover

(***************************************************************************)
(* The length takes one to three bytes, and three are waited for: the cell *)
(* stands for those three, the first of the data among them when the       *)
(* length is shorter.                                                      *)
(***************************************************************************)
ReadLength ==
  /\ ~dec.len /\ Read(<<"len">>)
  /\ dec' = [dec EXCEPT !.len = TRUE] /\ Keep(screen) /\ UNCHANGED leftover

TightImage ==
  /\ InRect(Tight)
  /\ dec.ctl = "jpegRect" \/ (dec.ctl = "pngRect" /\ fbu.encoding = "tightpng")
  /\ \/ ReadLength
     \/ /\ dec.len /\ Read(<<"data">>)
        /\ dec' = [dec EXCEPT !.len = FALSE, !.ctl = "null"]
        /\ \E s \in (IF fbu.area = 0 THEN {screen} ELSE PaintImage) : Done(s)
        /\ UNCHANGED leftover

Unreadable ==
  \/ dec.ctl = "badCtl" \/ dec.filter = "badFilter"
  \/ fbu.encoding = "tight" /\ dec.ctl = "pngRect"
  \/ fbu.encoding = "tightpng" /\ dec.ctl \in {"basic", "plain"}

TightThrows == InRect(Tight) /\ Unreadable /\ Throw

Basic == InRect({"tight"}) /\ dec.ctl \in {"basic", "plain"}

TightFilter ==
  /\ Basic /\ dec.filter = "null"
  /\ \/ /\ dec.ctl = "basic" /\ Read(<<"filter">>)
        /\ dec' = [dec EXCEPT !.filter = rQ[1].val]
     \/ /\ dec.ctl = "plain"
        /\ dec' = [dec EXCEPT !.filter = "copyFilter"]
        /\ UNCHANGED <<net, rQ, misread>>
  /\ Keep(screen) /\ UNCHANGED leftover

TightPalette ==
  /\ Basic /\ dec.filter = "paletteFilter" /\ ~dec.colours
  /\ Read(<<"palette">>)
  /\ dec' = [dec EXCEPT !.colours = TRUE]
  /\ Keep(screen) /\ UNCHANGED leftover

\* Mutant of TightDone: the filter is kept for the next rectangle.
TightDoneKeep(d) == [d EXCEPT !.ctl = "null", !.len = FALSE, !.colours = FALSE]

TightDone(d) ==
  [d EXCEPT !.ctl = "null", !.filter = "null", !.len = FALSE, !.colours = FALSE]

\* An empty rectangle with a palette leaves _numColors set.
TightPixels ==
  /\ Basic
  /\ dec.filter \in {"copyFilter", "gradientFilter"}
       \/ (dec.filter = "paletteFilter" /\ dec.colours)
  /\ \/ /\ fbu.area = 0
        /\ dec' = [TightDone(dec) EXCEPT !.colours = dec.colours]
        /\ leftover' = IF dec.colours THEN "palette" ELSE leftover
        /\ Done(screen) /\ UNCHANGED <<net, rQ, misread>>
     \/ /\ fbu.area = 1 /\ Read(<<"pixels">>)
        /\ dec' = TightDone(dec) /\ Done(Paint) /\ UNCHANGED leftover
     \/ fbu.area > 1 /\ ReadLength
     \/ /\ fbu.area > 1 /\ dec.len /\ Read(<<"data">>)
        /\ dec' = TightDone(dec) /\ Done(Paint) /\ UNCHANGED leftover

ZRLE ==
  /\ InRect({"zrle"}) /\ UNCHANGED leftover
  /\ \/ /\ ~dec.zlen /\ Read(<<"zlen">>)
        /\ dec' = [dec EXCEPT !.zlen = TRUE] /\ Keep(screen)
     \/ /\ dec.zlen /\ Read(<<"tiles">>) /\ rQ[1].val # "bad"
        /\ dec' = [dec EXCEPT !.zlen = FALSE]
        /\ Done(IF fbu.area = 0 THEN screen ELSE Paint)

\* A bad tile inside the compressed data throws once the data is read.
ZRLEThrows ==
  /\ InRect({"zrle"}) /\ dec.zlen /\ Has(1) /\ rQ[1].val = "bad"
  /\ rQ' = Tail(rQ) /\ EndSession(FALSE) /\ UNCHANGED <<misread, leftover>>

(***************************************************************************)
(* A rectangle of JPEG is a sequence of segments up to the end of image.   *)
(* A scan has no length: the marker after it must have come.               *)
(***************************************************************************)
Segment(marker) ==
  IF marker \in {"start", "eoi"} THEN <<"marker">> ELSE <<"marker", "segment">>

JPEGSegment ==
  /\ InRect({"jpeg"}) /\ Has(1) /\ rQ[1].val \notin {"eoi", "bad"}
  /\ rQ[1].val = "scan" => Has(3)
  /\ Read(Segment(rQ[1].val))
  /\ dec' = [dec EXCEPT !.segments = @ \union {rQ[1].val}]
  /\ Keep(screen) /\ UNCHANGED leftover

JPEGEnd ==
  /\ InRect({"jpeg"}) /\ Has(1) /\ rQ[1].val = "eoi" /\ "sof" \in dec.segments
  /\ Read(<<"marker">>)
  /\ dec' = [dec EXCEPT !.segments = {}]
  /\ \E s \in (IF fbu.area = 0 THEN {screen} ELSE PaintImage) : Done(s)
  /\ UNCHANGED leftover

JPEGThrows ==
  /\ InRect({"jpeg"}) /\ Has(1)
  /\ rQ[1].val = "bad" \/ (rQ[1].val = "eoi" /\ "sof" \notin dec.segments)
  /\ Throw

-----------------------------------------------------------------------------
\* How many cells the handler in charge waits for.
NeededByMessage ==
  IF ~Has(1) THEN 1
  ELSE CASE rQ[1].val = "fbu" -> 2
         [] rQ[1].val = "xvp" -> 2
         [] rQ[1].val = "fence" -> IF Has(2) /\ rQ[2].val = "long" THEN 4 ELSE 3
         [] rQ[1].val = "cut" ->
              IF Has(2) /\ rQ[2].val = "provide" THEN 4 ELSE 3
         [] OTHER -> 1

TightReady ==
  \/ Unreadable
  \/ dec.ctl = "plain" /\ dec.filter = "null"
  \/ /\ dec.ctl \in {"basic", "plain"} /\ fbu.area = 0
     /\ dec.filter \in {"copyFilter", "gradientFilter"}
          \/ (dec.filter = "paletteFilter" /\ dec.colours)

NeededByRect ==
  CASE fbu.encoding = "null" -> 2
    [] fbu.encoding \in {"last", "qemu", "size"} -> 0
    [] fbu.encoding = "name" -> 2
    [] fbu.encoding = "vmware" -> IF Has(1) /\ rQ[1].val # "other" THEN 2 ELSE 1
    [] fbu.encoding = "raw" -> IF fbu.area = 0 THEN 0 ELSE 1
    [] fbu.encoding = "hextile" ->
         IF fbu.area = 0 THEN 0
         ELSE IF ~Has(1) \/ rQ[1].val = "bad" THEN 1 ELSE Len(Tile(rQ[1].val))
    [] fbu.encoding = "jpeg" ->
         IF ~Has(1) \/ rQ[1].val = "bad" THEN 1
         ELSE IF rQ[1].val = "scan" THEN 3 ELSE Len(Segment(rQ[1].val))
    [] fbu.encoding \in Tight -> IF TightReady THEN 0 ELSE 1
    [] OTHER -> IF fbu.encoding \in Encodings \union Pseudo THEN 1 ELSE 0

WaitForMore ==
  /\ Handling
  /\ Await(IF fbu.rects = 0 THEN NeededByMessage ELSE NeededByRect)
  /\ UNCHANGED <<alive, fbu, dec, flushing, screen, cu, asked, owed, leftover>>

\* A message event; while _flushing nothing is handled.
MessageEvent ==
  /\ alive /\ Receive
  /\ UNCHANGED <<alive, fbu, dec, flushing, screen, cu, asked, owed, leftover>>

Blocked ==
  /\ run = "loop" /\ flushing /\ run' = "idle"
  /\ UNCHANGED <<alive, fbu, dec, flushing, screen, cu, asked, owed, leftover,
                 net, rQ, misread>>

-----------------------------------------------------------------------------
(***************************************************************************)
(* The server (external).  An update answers a request, or none while      *)
(* continuous updates are on.                                              *)
(***************************************************************************)
Writes == alive /\ leftover = "none" /\ run = "idle" /\ Len(net \o rQ) <= MaxAhead

ServerUpdate ==
  /\ Writes /\ owed = 0 /\ (asked \/ cu.on)
  /\ \E n \in {"0", "1", "2", "many"} :
       /\ net' = net \o <<Cell("type", "fbu"), Cell("header", n)>>
       /\ owed' = Num(n)
  /\ asked' = FALSE
  /\ UNCHANGED <<alive, fbu, dec, flushing, screen, cu, leftover, rQ, run, misread>>

Rect(area, encoding, body) ==
  <<Cell("area", area), Cell("encoding", encoding)>> \o body

\* The bound on an update of `many` rectangles: two, and the last.
ServerRect ==
  /\ Writes /\ owed > 0
  /\ \/ /\ owed # Many - 2
        /\ \E encoding \in DOMAIN Bodies : \E body \in Bodies[encoding] :
             net' = net \o Rect(body[1], encoding, body[2])
        /\ owed' = owed - 1
     \/ /\ owed \in Many - 2 .. Many
        /\ net' = net \o Rect("0", "last", <<>>)
        /\ owed' = 0
  /\ UNCHANGED <<alive, fbu, dec, flushing, screen, cu, asked, leftover,
                 rQ, run, misread>>

\* It offers continuous updates once.
ServerNote ==
  /\ Writes /\ owed = 0
  /\ \E note \in Notes :
       /\ note[1].val = "end" =>
            ~cu.offered /\ \A i \in DOMAIN (net \o rQ) : (net \o rQ)[i].val # "end"
       /\ net' = net \o note
  /\ UNCHANGED <<alive, fbu, dec, flushing, screen, cu, asked, owed, leftover,
                 rQ, run, misread>>

Messages ==
  \/ Bell \/ SetColourMap \/ UnknownType \/ ServerCutText
  \/ EndOfContinuousUpdates \/ ServerFence \/ Xvp

Rects ==
  \/ RectHeader \/ PseudoRect \/ UnknownEncoding
  \/ Raw \/ CopyRect \/ RRE \/ Hextile \/ HextileThrows
  \/ TightControl \/ TightFill \/ TightImage \/ TightThrows
  \/ TightFilter \/ TightPalette \/ TightPixels
  \/ ZRLE \/ ZRLEThrows \/ JPEGSegment \/ JPEGEnd \/ JPEGThrows

UpdatesNext ==
  \/ MessageEvent \/ Blocked \/ Messages \/ FramebufferUpdate \/ Rects \/ WaitForMore
  \/ ImageLoads \/ ImageBreaks
  \/ ServerUpdate \/ ServerRect \/ ServerNote

UpdatesSpec == UpdatesInit /\ [][UpdatesNext]_updatesVars

-----------------------------------------------------------------------------
UpdatesTypeOK ==
  /\ alive \in BOOLEAN /\ flushing \in BOOLEAN
  /\ fbu.rects \in 0 .. Many /\ fbu.area \in 0 .. Many
  /\ DOMAIN dec = DOMAIN Fresh
  /\ cu \in [on : BOOLEAN, offered : BOOLEAN] /\ asked \in BOOLEAN
  /\ owed \in 0 .. Many
  /\ leftover \in {"none", "provide", "fence", "palette", "cursor", "update"}

(***************************************************************************)
(* In step: whatever pieces the stream comes in, a handler that is called  *)
(* again goes on where it stopped: no field is read as another one.  (But  *)
(* for the data that a handler is known to leave behind.)                  *)
(***************************************************************************)
UpdatesInStep == misread => leftover # "none"

(***************************************************************************)
(* What an update draws is painted in the order it came, images and all,   *)
(* and all of it before anything of the next update is drawn.              *)
(***************************************************************************)
PaintedInOrder == screen.ok

(***************************************************************************)
(* The picture never stops: when all that the server wrote has come, it    *)
(* has been handled, and the server may send the next update, unless the   *)
(* page waits for an image; and it waits only for one that has not come.   *)
(***************************************************************************)
NeverStarved ==
  alive /\ run = "idle" /\ leftover = "none" =>
    /\ net = <<>> /\ owed = 0 /\ ~flushing =>
         rQ = <<>> /\ fbu.rects = 0 /\ (asked \/ cu.on)
    /\ flushing => Pending
    /\ Pending => Head(screen.q).image \in {"loading", "broken"}
=============================================================================
