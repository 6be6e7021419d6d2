------------------------------- MODULE Board --------------------------------
(***************************************************************************)
(* What the dashboard promises its clients: a list of VM entries that      *)
(* every request reads or edits in one step, at some moment between the    *)
(* request's arrival and its answer.  A request that is answered has taken *)
(* effect exactly once; one whose connection drops has taken effect once   *)
(* or not at all; a restart of the server loses requests, never the list.  *)
(***************************************************************************)
EXTENDS Sequences

CONSTANTS Threads,      \* request handlers
          Requests,     \* the requests that touch the board, records with an op
          Edited(_, _)  \* the list an editing request makes of a list

VARIABLES board,        \* the list of entries
          phase,        \* [Threads -> {"idle", "called", "applied"}]
          request,      \* what each handler was asked
          answer        \* the list a status request will be answered with

boardVars == <<board, phase, request, answer>>

NoRequest == [op |-> "none"]

Quiet ==
  /\ phase = [t \in Threads |-> "idle"]
  /\ request = [t \in Threads |-> NoRequest]
  /\ answer = [t \in Threads |-> <<>>]

BoardInit == board = <<>> /\ Quiet

Call(t, r) ==
  /\ phase[t] = "idle"
  /\ phase' = [phase EXCEPT ![t] = "called"]
  /\ request' = [request EXCEPT ![t] = r]
  /\ UNCHANGED <<board, answer>>

Look(t) ==
  /\ phase[t] = "called" /\ request[t].op = "status"
  /\ phase' = [phase EXCEPT ![t] = "applied"]
  /\ answer' = [answer EXCEPT ![t] = board]
  /\ UNCHANGED <<board, request>>

Edit(t) ==
  /\ phase[t] = "called" /\ request[t].op # "status"
  /\ phase' = [phase EXCEPT ![t] = "applied"]
  /\ board' = Edited(request[t], board)
  /\ UNCHANGED <<request, answer>>

(***************************************************************************)
(* The answer goes out, or the connection drops, before the effect or      *)
(* after it.                                                               *)
(***************************************************************************)
End(t) ==
  /\ phase[t] # "idle"
  /\ phase' = [phase EXCEPT ![t] = "idle"]
  /\ request' = [request EXCEPT ![t] = NoRequest]
  /\ answer' = [answer EXCEPT ![t] = <<>>]
  /\ UNCHANGED board

Crash == Quiet' /\ UNCHANGED board

BoardNext ==
  \/ \E t \in Threads : \/ \E r \in Requests : Call(t, r)
                        \/ Look(t) \/ Edit(t) \/ End(t)
  \/ Crash

BoardSpec == BoardInit /\ [][BoardNext]_boardVars
=============================================================================
