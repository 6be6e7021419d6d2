------------------------------ MODULE Websock ------------------------------
(***************************************************************************)
(* The two byte queues of websock.js.  A byte is known by its place in the *)
(* stream: the array of the receive queue holds the places of the bytes    *)
(* that came, and that of the send queue those of the bytes pushed.        *)
(***************************************************************************)
EXTENDS Integers

CONSTANTS RQSize,       \* _rQbufferSize at the start: 4 MiB
          MaxGrow,      \* MAX_RQ_GROW_SIZE: 40 MiB
          Headroom,     \* room for what is unread and comes, times 8
          SQSize,       \* _sQbufferSize: 10 KiB
          Sizes,        \* the sizes of messages and of payloads
          MaxBytes      \* bound: bytes of either stream

ASSUME WebsockAssumption ==
  /\ RQSize \in Nat \ {0} /\ MaxGrow \in Nat /\ RQSize <= MaxGrow
  /\ Headroom \in Nat \ {0} /\ SQSize \in Nat \ {0}
  /\ Sizes \subseteq Nat \ {0} /\ MaxBytes \in Nat

VARIABLES rq,           \* arr: _rQ, i: _rQi, len: _rQlen, size: _rQbufferSize,
                        \* cap: the length that _rQ was allocated with
          received,     \* bytes that came
          taken,        \* bytes read by the handler since its last return
          lost,         \* a message was not kept
          sq,           \* arr: _sQ, len: _sQlen
          pushed,       \* bytes pushed before the payload in progress
          payload,      \* sQpushBytes: size and offset, size 0 is none
          wired,        \* bytes given to the socket
          straddled     \* a payload was longer than the room left for it

receiveVars == <<rq, received, taken, lost>>
sendVars == <<sq, pushed, payload, wired, straddled>>
websockVars == <<receiveVars, sendVars>>

WebsockInit ==
  /\ rq = [arr |-> [k \in 0 .. RQSize - 1 |-> 0], i |-> 0, len |-> 0,
           size |-> RQSize, cap |-> RQSize]
  /\ received = 0 /\ taken = 0 /\ lost = FALSE
  /\ sq = [arr |-> [k \in 0 .. SQSize - 1 |-> 0], len |-> 0]
  /\ pushed = 0 /\ payload = [size |-> 0, offset |-> 0]
  /\ wired = 0 /\ straddled = FALSE

-----------------------------------------------------------------------------
(***************************************************************************)
(* _recvMessage: an empty queue starts again at 0; a message that does not *)
(* fit at the end makes _expandCompactRQ move what is unread to the start, *)
(* of a longer array if the message and the unread take more than an       *)
(* eighth of this one.  Beyond the limit it throws, and the message is     *)
(* lost, as it is when set() finds the array shorter than rQbufferSize.    *)
(***************************************************************************)
Unread(q) == q.len - q.i

Emptied(q) == IF q.i = q.len THEN [q EXCEPT !.i = 0, !.len = 0] ELSE q

Required(q, n) == (Unread(q) + n) * Headroom

Wanted(q, n) ==
  IF q.size >= Required(q, n) THEN q.size
  ELSE IF 2 * q.size >= Required(q, n) THEN 2 * q.size ELSE Required(q, n)

NewSize(q, n) == IF Wanted(q, n) > MaxGrow THEN MaxGrow ELSE Wanted(q, n)

\* Mutant of Refuses: also when the message would fit after compaction.
RefusesEarly(q, n) == Wanted(q, n) > MaxGrow

Refuses(q, n) == Wanted(q, n) > MaxGrow /\ MaxGrow - Unread(q) < n

\* Mutant of Moved: the array is copied from its start.
MovedFromStart(q, cap) ==
  [k \in 0 .. cap - 1 |-> IF k < Unread(q) THEN q.arr[k] ELSE 0]

\* What is unread, at the start of an array (a new one is zeroed).
Moved(q, cap) ==
  [k \in 0 .. cap - 1 |-> IF k < Unread(q) THEN q.arr[q.i + k] ELSE 0]

\* _expandCompactRQ; the part of the array after the unread is not used.
Expanded(q, n) ==
  LET cap == IF q.size < Required(q, n) THEN NewSize(q, n) ELSE q.cap
  IN  [arr |-> Moved(q, cap), i |-> 0, len |-> Unread(q),
       size |-> NewSize(q, n), cap |-> cap]

Fitted(q, n) == IF n > q.size - q.len THEN Expanded(q, n) ELSE q

Appended(q, n, from) ==
  [q EXCEPT !.arr = [k \in 0 .. q.cap - 1 |->
                       IF k \in q.len .. q.len + n - 1 THEN from + (k - q.len)
                       ELSE q.arr[k]],
            !.len = q.len + n]

Keeps(q, n) == ~(n > q.size - q.len /\ Refuses(q, n))

RecvMessage(n) ==
  /\ taken = 0 /\ received + n <= MaxBytes
  /\ received' = received + n
  /\ LET q == Emptied(rq)
         f == Fitted(q, n)
     IN  \/ /\ Keeps(q, n) /\ f.len + n <= f.cap
            /\ rq' = Appended(f, n, received)
            /\ UNCHANGED lost
         \/ /\ Keeps(q, n) /\ f.len + n > f.cap
            /\ rq' = f /\ lost' = TRUE
         \/ /\ ~Keeps(q, n)
            /\ rq' = [q EXCEPT !.size = MaxGrow] /\ lost' = TRUE
  /\ UNCHANGED <<taken, sendVars>>

(***************************************************************************)
(* A handler reads what rQwait has found to be there.  When a later wait   *)
(* of the same call fails, `goback` puts back some of what it has read.    *)
(***************************************************************************)
Shift(n) ==
  /\ Unread(rq) >= n
  /\ rq' = [rq EXCEPT !.i = @ + n]
  /\ taken' = taken + n
  /\ UNCHANGED <<received, lost, sendVars>>

GoBack(n) ==
  /\ n <= taken
  /\ rq' = [rq EXCEPT !.i = @ - n]
  /\ taken' = 0
  /\ UNCHANGED <<received, lost, sendVars>>

HandlerReturns ==
  /\ taken > 0 /\ taken' = 0
  /\ UNCHANGED <<rq, received, lost, sendVars>>

-----------------------------------------------------------------------------
(***************************************************************************)
(* The send queue, while the socket is open.  sQpush8, 16 and 32 flush it  *)
(* when they do not fit, and sQpushBytes when it is full.                  *)
(***************************************************************************)
\* Mutant of Room: what is queued already takes no room.
RoomForever == SQSize

Room == SQSize - sq.len

\* Mutant of Flushed: the socket is given all of the array.
FlushAll(len) == SQSize

Flushed(len) == len

Put(arr, at, n, from) ==
  [k \in DOMAIN arr |-> IF k \in at .. at + n - 1 THEN from + (k - at) ELSE arr[k]]

Push(n) ==
  /\ payload.size = 0 /\ n <= SQSize /\ pushed + n <= MaxBytes
  /\ LET len == IF Room < n THEN 0 ELSE sq.len IN
     /\ wired' = IF Room < n THEN wired + Flushed(sq.len) ELSE wired
     /\ sq' = [arr |-> Put(sq.arr, len, n, pushed), len |-> len + n]
  /\ pushed' = pushed + n
  /\ UNCHANGED <<receiveVars, payload, straddled>>

Flush ==
  /\ payload.size = 0 /\ sq.len > 0
  /\ wired' = wired + Flushed(sq.len) /\ sq' = [sq EXCEPT !.len = 0]
  /\ UNCHANGED <<receiveVars, pushed, payload, straddled>>

PushBytes(n) ==
  /\ payload.size = 0 /\ pushed + n <= MaxBytes
  /\ payload' = [size |-> n, offset |-> 0]
  /\ UNCHANGED <<receiveVars, sq, pushed, wired, straddled>>

(***************************************************************************)
(* One pass of the loop of sQpushBytes.  It copies subarray(offset, chunk) *)
(* where offset + chunk would be the end: only the first pass is right.    *)
(***************************************************************************)
PushChunk ==
  /\ payload.size > 0
  /\ LET len   == IF Room = 0 THEN 0 ELSE sq.len
         left  == payload.size - payload.offset
         chunk == IF SQSize - len > left THEN left ELSE SQSize - len
         copied == IF chunk > payload.offset THEN chunk - payload.offset ELSE 0
     IN  /\ wired' = IF Room = 0 THEN wired + Flushed(sq.len) ELSE wired
         /\ sq' = [arr |-> Put(sq.arr, len, copied, pushed + payload.offset),
                   len |-> len + chunk]
         /\ IF chunk = left
            THEN pushed' = pushed + payload.size /\ payload' = [size |-> 0, offset |-> 0]
            ELSE payload' = [payload EXCEPT !.offset = @ + chunk] /\ UNCHANGED pushed
  /\ straddled' = (straddled \/ payload.offset > 0)
  /\ UNCHANGED receiveVars

ReceiveNext ==
  \/ \E n \in Sizes : RecvMessage(n) \/ Shift(n) \/ GoBack(n)
  \/ HandlerReturns

SendNext == (\E n \in Sizes : Push(n) \/ PushBytes(n)) \/ Flush \/ PushChunk

WebsockNext == ReceiveNext \/ SendNext

WebsockSpec == WebsockInit /\ [][WebsockNext]_websockVars

-----------------------------------------------------------------------------
WebsockTypeOK ==
  /\ rq.i \in Nat /\ rq.len \in Nat /\ rq.size \in Nat /\ rq.cap \in Nat
  /\ rq.arr \in [0 .. rq.cap - 1 -> Nat]
  /\ received \in Nat /\ taken \in Nat /\ lost \in BOOLEAN
  /\ sq.len \in 0 .. SQSize /\ sq.arr \in [0 .. SQSize - 1 -> Nat]
  /\ pushed \in Nat /\ wired \in Nat /\ straddled \in BOOLEAN
  /\ payload.size \in Nat /\ payload.offset \in Nat

(***************************************************************************)
(* However the queue is compacted, grown and read, the unread part of it   *)
(* is exactly the end of what came, in order, and what a handler may put   *)
(* back is still there before it; no index leaves the array.               *)
(***************************************************************************)
ReceiveHolds ==
  /\ taken <= rq.i /\ rq.i <= rq.len /\ rq.len <= rq.cap /\ rq.cap <= MaxGrow
  /\ ~lost => \A k \in rq.i - taken .. rq.len - 1 :
                rq.arr[k] = received - (rq.len - k)

\* What is pushed is in the queue or with the socket, in order, unless a
\* payload was longer than the room that was left.
SendHolds ==
  ~straddled =>
    /\ wired + sq.len = pushed + payload.offset
    /\ \A k \in 0 .. sq.len - 1 : sq.arr[k] = wired + k

QueueHolds == ReceiveHolds /\ SendHolds

(***************************************************************************)
(* A message is lost only when it and what is unread exceed the limit.     *)
(***************************************************************************)
LostAtLimit ==
  [][lost' /\ ~lost => Unread(rq) + (received' - received) > MaxGrow]_websockVars
=============================================================================
