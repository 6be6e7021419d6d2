---------------------------- MODULE RfbProtocol ----------------------------
(***************************************************************************)
(* What a server of the RFB protocol writes to a connected client, cell by *)
(* cell (external).  A place in the stream is the field that comes next,   *)
(* how many of its kind are left or what size it is for (n), and how many  *)
(* rectangles the update still owes, the present one included.  RfbUpdates *)
(* assumes of its server that it writes by this grammar; what its handlers *)
(* wait for and read is their own affair.                                  *)
(***************************************************************************)
EXTENDS Naturals, Sequences

Many == 9               \* stands for 65535: the end is a LastRect

Num(val) == CASE val = "1" -> 1 [] val = "2" -> 2 [] val = "many" -> Many
              [] OTHER -> 0

At(next, n, owed) == [next |-> next, n |-> n, owed |-> owed]

\* Between two messages, or two rectangles of an update.
Between(owed) == At(IF owed = 0 THEN "type" ELSE "area", 0, owed)

\* After a field no client can go on from: it ends the session.
Lost == At("lost", 0, 0)

\* A number of fields, then the next rectangle.
Times(next, n, owed) == IF n = 0 THEN Between(owed - 1) ELSE At(next, n, owed)

\* Pixels of Tight: a few come without a length.
TightData(n, owed) ==
  CASE n = 0 -> Between(owed - 1) [] n = 1 -> At("pixels", 0, owed)
    [] OTHER -> At("len", 0, owed)

(***************************************************************************)
(* What follows the header of a rectangle, by its encoding and its area.   *)
(***************************************************************************)
Body(encoding, n, owed) ==
  CASE encoding = "raw" -> Times("line", n, owed)
    [] encoding = "copy" -> At("source", 0, owed)
    [] encoding = "rre" -> At("rreHead", 0, owed)
    [] encoding = "hextile" -> Times("subencoding", n, owed)
    [] encoding = "tight" -> At("ctl", n, owed)
    [] encoding = "tightpng" -> At("png", 0, owed)
    [] encoding = "zrle" -> At("zlen", 0, owed)
    [] encoding = "jpeg" -> At("marker", 0, owed)
    [] encoding = "extsize" -> At("layout", 0, owed)
    [] encoding = "led" -> At("led", 0, owed)
    [] encoding = "name" -> At("nameLen", 0, owed)
    [] encoding = "cursor" -> At("cursor", 0, owed)
    [] encoding = "vmware" -> At("vmHead", 0, owed)
    [] encoding \in {"size", "qemu"} -> Between(owed - 1)
    [] encoding = "last" -> Between(0)
    [] OTHER -> Lost

Values(next) ==
  CASE next = "header" -> {"0", "1", "2", "many"}
    [] next = "area" -> {"0", "1", "2"}
    [] next = "cutHead" -> {"plain", "extended", "provide"}
    [] next \in {"ctl", "png"} ->
         {"fill", "jpegRect", "pngRect", "basic", "plain", "badCtl"}
    [] next = "filter" -> {"copyFilter", "gradientFilter", "paletteFilter", "badFilter"}

Listed == {"header", "area", "cutHead", "ctl", "png", "filter"}

\* A cell that may stand at a place.
Expects(p, c) ==
  \/ p.next = "lost"
  \/ /\ c.role = IF p.next = "png" THEN "ctl" ELSE p.next
     /\ p.next \in Listed => c.val \in Values(p.next)
     /\ p.next = "encoding" => c.val # "null"

AfterType(val) ==
  CASE val = "fbu" -> At("header", 0, 0)
    [] val = "cut" -> At("cutHead", 0, 0)
    [] val = "fence" -> At("fenceHead", 0, 0)
    [] val = "xvp" -> At("xvpBody", 0, 0)
    [] OTHER -> Between(0)

AfterControl(val, n, owed) ==
  CASE val = "fill" -> At("pixel", 0, owed)
    [] val = "jpegRect" -> At("len", 0, owed)
    [] val = "basic" -> At("filter", n, owed)
    [] val = "plain" -> TightData(n, owed)
    [] OTHER -> Lost

AfterMarker(val, n, owed) ==
  CASE val = "bad" -> Lost
    [] val = "eoi" -> IF n = 0 THEN Lost ELSE Between(owed - 1)
    [] val = "start" -> At("marker", n, owed)
    [] OTHER -> At("segment", IF val = "sof" THEN 1 ELSE n, owed)

(***************************************************************************)
(* The place after a cell.  A field not listed is the last of a rectangle. *)
(***************************************************************************)
PlaceAfter(p, c) ==
  CASE p.next = "lost" -> p
    [] p.next = "type" -> AfterType(c.val)
    [] p.next = "header" -> Between(Num(c.val))
    [] p.next = "cutHead" ->
         IF c.val = "plain" THEN At("text", 0, 0)
         ELSE At("flags", IF c.val = "provide" THEN 1 ELSE 0, 0)
    [] p.next = "flags" -> IF p.n = 1 THEN At("zlib", 0, 0) ELSE Between(0)
    [] p.next = "fenceHead" -> At("payload", IF c.val = "long" THEN 1 ELSE 0, 0)
    [] p.next = "payload" -> IF p.n = 1 THEN At("rest", 0, 0) ELSE Between(0)
    [] p.next \in {"text", "zlib", "rest", "xvpBody"} -> Between(0)
    [] p.next = "area" -> At("encoding", Num(c.val), p.owed)
    [] p.next = "encoding" -> Body(c.val, p.n, p.owed)
    [] p.next \in {"line", "subrect"} -> Times(p.next, p.n - 1, p.owed)
    [] p.next = "rreHead" -> Times("subrect", Num(c.val), p.owed)
    [] p.next = "subencoding" ->
         CASE c.val = "bad" -> Lost
           [] c.val = "rawTile" -> At("tile", p.n, p.owed)
           [] c.val = "subrects" -> At("nsubrects", p.n, p.owed)
           [] OTHER -> Times("subencoding", p.n - 1, p.owed)
    [] p.next = "nsubrects" -> At("tile", p.n, p.owed)
    [] p.next = "tile" -> Times("subencoding", p.n - 1, p.owed)
    [] p.next = "ctl" -> AfterControl(c.val, p.n, p.owed)
    [] p.next = "png" ->
         CASE c.val = "pngRect" -> At("len", 0, p.owed)
           [] c.val \in {"fill", "jpegRect"} -> AfterControl(c.val, 0, p.owed)
           [] OTHER -> Lost
    [] p.next = "filter" ->
         CASE c.val = "paletteFilter" -> At("palette", p.n, p.owed)
           [] c.val = "badFilter" -> Lost
           [] OTHER -> TightData(p.n, p.owed)
    [] p.next = "palette" -> TightData(p.n, p.owed)
    [] p.next = "len" -> At("data", 0, p.owed)
    [] p.next = "zlen" -> At("tiles", 0, p.owed)
    [] p.next = "tiles" -> IF c.val = "bad" THEN Lost ELSE Between(p.owed - 1)
    [] p.next = "marker" -> AfterMarker(c.val, p.n, p.owed)
    [] p.next = "segment" -> At("marker", p.n, p.owed)
    [] p.next = "nameLen" -> At("name", 0, p.owed)
    [] p.next = "vmHead" ->
         IF c.val = "other" THEN Between(p.owed - 1) ELSE At("vmCursor", 0, p.owed)
    [] OTHER -> Between(p.owed - 1)

(***************************************************************************)
(* Some cells, written from a place, fit and end at a place of `ends`.     *)
(***************************************************************************)
Written(p, cells, ends) ==
  LET place[i \in 0 .. Len(cells)] ==
        IF i = 0 THEN p ELSE PlaceAfter(place[i - 1], cells[i])
  IN  /\ \A i \in 1 .. Len(cells) : Expects(place[i - 1], cells[i])
      /\ place[Len(cells)] \in ends
=============================================================================
