--------------------------- MODULE MCStatusServer ---------------------------
(***************************************************************************)
(* Small instances of the dashboard server.  For the board: two handlers,  *)
(* two VMs and two reports, an empty one (idle, no attention) and one that *)
(* wants attention in a state ORDER does not know, so that the two sort    *)
(* keys disagree.  For the images: three handlers, one VM.                 *)
(***************************************************************************)
EXTENDS StatusServer

BoardIds == {1, 2}
ImageIds == {1}

EmptyReport == [x \in {} |-> 0]
PanicReport == [state |-> "panicked", attention |-> TRUE]

MCBodies == {EmptyReport, PanicReport}
NoBodies == {}

(***************************************************************************)
(* Handlers of images and replies keep running: the disk does, and a       *)
(* client sends its body or goes away.  Nothing is promised of the ones    *)
(* that work on the board, LOCK may be held for ever.                      *)
(***************************************************************************)
FairImages == Spec /\ \A t \in Threads : WF_vars(ImageStep(t) \/ Reply(t))

(***************************************************************************)
(* Screens flow past a stuck board: a PUT or GET of an image is answered   *)
(* whatever becomes of the thread that holds LOCK.                         *)
(***************************************************************************)
ImagesNeverWait ==
  \A t \in Threads : pc[t] \in {"open", "body", "read"} ~> pc[t] = "idle"
=============================================================================
