----------------------------- MODULE RfbStream -----------------------------
(***************************************************************************)
(* The byte stream between a VNC server and rfb.js, one cell to a field    *)
(* (or to a run of fields that the code always waits for as a whole).  The *)
(* network delivers what the server wrote in pieces of its own choosing;   *)
(* every piece is one message event, in which _handleMessage calls the     *)
(* handlers until one of them has to wait.  JavaScript runs an event to    *)
(* its end: while `run` is not "idle" nothing but a handler takes a step.  *)
(***************************************************************************)
EXTENDS Naturals, Sequences

CONSTANT MaxPiece       \* bound: cells that one message event brings

VARIABLES net,          \* cells written by the server, not yet delivered
          rQ,           \* cells received and not read: rQi to rQlen
          run,          \* "idle", "loop" (_handleMessage) or "once" (_initMsg)
          misread       \* a field was read as another, or past the queue

streamVars == <<net, rQ, run, misread>>

Cell(role, val) == [role |-> role, val |-> val]

StreamInit == net = <<>> /\ rQ = <<>> /\ run = "idle" /\ misread = FALSE

\* A message event: what arrived is appended, then the handlers are called.
Receive ==
  /\ run = "idle" /\ net # <<>>
  /\ \E n \in 1 .. Len(net) :
       /\ n <= MaxPiece
       /\ rQ' = rQ \o SubSeq(net, 1, n)
       /\ net' = SubSeq(net, n + 1, Len(net))
  /\ run' = "loop"
  /\ UNCHANGED misread

(***************************************************************************)
(* A handler either finds all it needs, and reads it, or rQwait puts back  *)
(* (goback) what it has read so far and the handler returns false.         *)
(***************************************************************************)
Has(n) == Len(rQ) >= n

\* Mutant of PutBack: what was read before the wait is lost.
PutBackNothing == <<>>

PutBack == rQ

Await(n) ==
  /\ run # "idle" /\ ~Has(n)
  /\ rQ' = PutBack /\ run' = "idle"
  /\ UNCHANGED <<net, misread>>

\* A handler that returns true is followed by the next one, but a resumed
\* handshake (_resumeAuthentication) calls only one.
Return(goOn) == run' = IF goOn /\ run = "loop" THEN "loop" ELSE "idle"

Read(roles) ==
  /\ Has(Len(roles))
  /\ rQ' = SubSeq(rQ, Len(roles) + 1, Len(rQ))
  /\ misread' = (misread \/ \E i \in DOMAIN roles : rQ[i].role # roles[i])
  /\ UNCHANGED net

\* A read of a field that nobody waited for.
ReadPast ==
  /\ ~Has(1)
  /\ misread' = TRUE
  /\ UNCHANGED <<net, rQ>>
=============================================================================
