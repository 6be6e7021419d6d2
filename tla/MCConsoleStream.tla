-------------------------- MODULE MCConsoleStream ---------------------------
(***************************************************************************)
(* What noVNC does with the server's stream, on small instances: a session *)
(* up to its end, the updates of a connected one, the byte queues below    *)
(* them and the viewport above.  One part runs in a behaviour, and the     *)
(* others stand still: what they share is in what the modules say of each  *)
(* other's interface.                                                      *)
(***************************************************************************)
EXTENDS RfbSession, RfbUpdates, Websock, Viewport

VARIABLE part           \* the part that runs

MCInit ==
  /\ part \in {"session", "updates", "receive", "send", "viewport"}
  /\ SessionInit /\ UpdatesInit /\ WebsockInit /\ ViewportInit
  /\ part # "session" => ~viewOnly /\ creds = "none"
  /\ part # "viewport" => size = [w |-> 1, h |-> 1]

ownSession == <<viewOnly, link, init, authVars, out>>
ownUpdates == <<alive, fbu, dec, flushing, screen, cu, asked, owed, leftover>>

SessionPart  == part = "session" /\ SessionNext
                /\ UNCHANGED <<part, ownUpdates, websockVars, viewportVars>>
UpdatesPart  == part = "updates" /\ UpdatesNext
                /\ UNCHANGED <<part, ownSession, websockVars, viewportVars>>
ReceivePart  == part = "receive" /\ ReceiveNext
                /\ UNCHANGED <<part, sessionVars, ownUpdates, viewportVars>>
SendPart     == part = "send" /\ SendNext
                /\ UNCHANGED <<part, sessionVars, ownUpdates, viewportVars>>
ViewportPart == part = "viewport" /\ ViewportNext
                /\ UNCHANGED <<part, sessionVars, ownUpdates, websockVars>>

MCNext == SessionPart \/ UpdatesPart \/ ReceivePart \/ SendPart \/ ViewportPart

MCVars == <<part, sessionVars, ownUpdates, websockVars, viewportVars>>

MCSpec == MCInit /\ [][MCNext]_MCVars /\ SessionFairness

-----------------------------------------------------------------------------
MCOffers ==
  {<<type>> : type \in Supported} \union {<<"other">>, <<"other", "none", "vnc">>}

MCSubOffers ==
  [tight |-> {{"none", "vnc"}, {"vnc", "unix"}, {"unix"}, {"other"}},
   vencrypt |-> {<<"vencrypt", "plain">>, <<"vnc">>, <<"other">>}]

One(role, val) == <<Cell(role, val)>>

Data == One("len", "1") \o One("data", "1")
Filter(name) == One("ctl", "basic") \o One("filter", name)
Palette == Filter("paletteFilter") \o One("palette", "1")
JPEGStart == One("marker", "start")
Part(marker) == <<Cell("marker", marker), Cell("segment", "1")>>

\* Rectangles: an area (empty, small, large) and what follows the header.
MCBodies == [
  raw |-> {<<"0", <<>> >>, <<"2", One("line", "1") \o One("line", "1")>>},
  copy |-> {<<"1", One("source", "1")>>},
  rre |-> {<<"1", One("rreHead", "0")>>,
           <<"1", One("rreHead", "2") \o One("subrect", "1") \o One("subrect", "1")>>},
  hextile |-> {<<"0", <<>> >>,
               <<"2", One("subencoding", "rawTile") \o One("tile", "1")
                      \o One("subencoding", "blank")>>,
               <<"2", One("subencoding", "subrects") \o One("nsubrects", "1")
                      \o One("tile", "1") \o One("subencoding", "bad")>>},
  tight |-> {<<"1", One("ctl", "fill") \o One("pixel", "1")>>,
             <<"1", One("ctl", "jpegRect") \o Data>>,
             <<"1", One("ctl", "pngRect") \o Data>>,
             <<"1", One("ctl", "badCtl")>>,
             <<"0", One("ctl", "plain")>>,
             <<"1", One("ctl", "plain") \o One("pixels", "1")>>,
             <<"2", Filter("gradientFilter") \o Data>>,
             <<"0", Palette>>, <<"2", Palette \o Data>>,
             <<"2", Filter("badFilter")>>},
  tightpng |-> {<<"1", One("ctl", "pngRect") \o Data>>, <<"1", One("ctl", "plain")>>},
  zrle |-> {<<"1", One("zlen", "1") \o One("tiles", v)>> : v \in {"1", "bad"}},
  jpeg |-> {<<"1", JPEGStart \o Part("sof") \o Part("scan") \o One("marker", "eoi")>>,
            <<"1", JPEGStart \o One("marker", "eoi")>>, <<"1", One("marker", "bad")>>},
  qemu |-> {<<"0", <<>> >>}, size |-> {<<"0", <<>> >>}, other |-> {<<"1", <<>> >>},
  extsize |-> {<<"0", One("layout", v)>> : v \in {"refused", "applied"}},
  led |-> {<<"0", One("led", "1")>>},
  name |-> {<<"0", One("nameLen", "1") \o One("name", "1")>>},
  cursor |-> {<<"1", One("cursor", "1")>>},
  vmware |-> {<<"1", One("vmHead", "classic") \o One("vmCursor", "1")>>,
              <<"1", One("vmHead", "other")>>}]

Type(type) == One("type", type)
CutText(head, flags) == Type("cut") \o One("cutHead", head) \o One("flags", flags)

MCNotes ==
  {Type(type) : type \in {"bell", "colourmap", "end", "unknown"}}
  \union {Type("fence") \o One("fenceHead", v) \o One("payload", "1") :
            v \in {"request", "response"}}
  \union {Type("fence") \o One("fenceHead", "long") \o One("payload", "1") \o One("rest", "1")}
  \union {Type("xvp") \o One("xvpBody", v) : v \in {"ok", "bad"}}
  \union {Type("cut") \o One("cutHead", "plain") \o One("text", "1")}
  \union {CutText("extended", v) : v \in {"caps", "unknown"}}
  \union {CutText("provide", v) \o One("zlib", "1") : v \in {"text", "files"}}

MCPans == {-3, 1, 2}

-----------------------------------------------------------------------------
\* The fields of the state have their types.
StreamTypeOK ==
  SessionTypeOK /\ UpdatesTypeOK /\ WebsockTypeOK /\ ViewportTypeOK

(***************************************************************************)
(* In step: whatever pieces the stream comes in, during the handshake and  *)
(* after it, no field is read as another one or before it has come.        *)
(***************************************************************************)
InStep == IF part = "session" THEN HandshakeInStep ELSE UpdatesInStep

(***************************************************************************)
(* The client and the server never wait for each other: a handshake always *)
(* has something to go on with, and a connected session always gets its    *)
(* next update.                                                            *)
(***************************************************************************)
NeverHangs == IF part = "session" THEN HandshakeNeverHangs ELSE NeverStarved
=============================================================================
