------------------------------ MODULE Console ------------------------------
(***************************************************************************)
(* The RFB object of fleet/dashboard/novnc/core/rfb.js as its input        *)
(* handlers see it: which connection state it is in and whether it may     *)
(* send.  This is also the abstract specification of the connection: the   *)
(* session (RfbSession) is shown to take no other step than these.         *)
(***************************************************************************)
EXTENDS Naturals

VARIABLES connState,    \* _rfbConnectionState
          viewOnly      \* _viewOnly, which the page sets once, at the start

ConnStates == {"connecting", "connected", "disconnecting", "disconnected"}

Live == connState \in {"connecting", "connected"}

\* sendKey, _sendMouse and clipboardPasteFrom return at once otherwise.
Sending == connState = "connected" /\ ~viewOnly

Connect == connState = "connecting" /\ connState' = "connected"

(***************************************************************************)
(* disconnect() leaves the object waiting for the socket to close; _fail   *)
(* and a close by the server go through "disconnecting" to the end within  *)
(* one turn of the event loop.                                             *)
(***************************************************************************)
Drop == Live /\ connState' \in {"disconnecting", "disconnected"}

Closed == connState = "disconnecting" /\ connState' = "disconnected"

(***************************************************************************)
(* What _updateConnectionState promises: connecting once, connected only   *)
(* from there, and "disconnected" is permanent.                            *)
(***************************************************************************)
ConnectionSpec ==
  /\ connState = "connecting"
  /\ [][Connect \/ Drop \/ Closed]_connState
=============================================================================
