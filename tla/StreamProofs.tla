---------------------------- MODULE StreamProofs ----------------------------
(***************************************************************************)
(* noVNC above and below the stream, and all of it together.  The byte     *)
(* queues of websock.js keep what they were given, for every size of       *)
(* queue, limit, message and payload.  The viewport never leaves the       *)
(* picture and fits the element, for all their sizes and every drag.       *)
(* The argument: viewportChangePos puts a viewport no larger than the      *)
(* picture inside it, viewportChangeSize makes it no larger, and every     *)
(* step ends in one of them, after the picture has changed or clipping was *)
(* switched, or leaves the viewport alone.  The last part composes these   *)
(* with RfbSessionProofs and RfbUpdatesProofs: what MCConsoleStream says   *)
(* of the whole.                                                           *)
(***************************************************************************)
EXTENDS MCConsoleStream, RfbSessionProofs, RfbUpdatesProofs

-----------------------------------------------------------------------------
(***************************************************************************)
(* The receive queue.  IsQueue says that the indices stay in the array and *)
(* the array within the limit; until a message is lost the array is as     *)
(* long as rQbufferSize says, and what it holds is the end of what came.   *)
(***************************************************************************)
IsQueue(q) ==
  /\ q \in [arr : [0 .. q.cap - 1 -> Nat], i : Nat, len : Nat, size : Nat, cap : Nat]
  /\ q.i <= q.len /\ q.len <= q.cap /\ q.cap <= q.size /\ q.size <= MaxGrow

Holds(q, from, got) == \A k \in from .. q.len - 1 : q.arr[k] = got - (q.len - k)

Exact(q, got) == q.size = q.cap /\ q.len <= got

ReceiveInv ==
  /\ IsQueue(rq)
  /\ received \in Nat /\ taken \in Nat /\ lost \in BOOLEAN
  /\ taken <= rq.i
  /\ ~lost => Exact(rq, received) /\ Holds(rq, rq.i - taken, received)

(***************************************************************************)
(* The send queue: the bytes before the payload in progress are all in.    *)
(***************************************************************************)
SendType ==
  /\ sq \in [arr : [0 .. SQSize - 1 -> Nat], len : 0 .. SQSize]
  /\ pushed \in Nat /\ wired \in Nat /\ straddled \in BOOLEAN
  /\ payload \in [size : Nat, offset : Nat]

Run(arr, upto, w) == \A k \in 0 .. upto - 1 : arr[k] = w + k

SendInv ==
  /\ SendType
  /\ ~straddled => wired + sq.len = pushed + payload.offset /\ Run(sq.arr, sq.len, wired)
  /\ payload.size = 0 => payload.offset = 0
  /\ payload.size > 0 => payload.offset < payload.size

-----------------------------------------------------------------------------
(* A factor of at least one does not make a number smaller. *)
LEMMA TimesHeadroom ==
  ASSUME NEW a \in Nat
  PROVE  a * Headroom \in Nat /\ a <= a * Headroom
<1>1. Headroom - 1 \in Nat /\ Headroom \in Nat
  BY WebsockAssumption
<1>2. \A h \in Nat : a * h \in Nat /\ a * (h + 1) = a * h + a
  OBVIOUS
<1> QED
  BY <1>1, <1>2

(* What a message needs is a number, and at least what is unread with it. *)
LEMMA RequiredEnough ==
  \A q, n : IsQueue(q) /\ n \in Nat =>
    /\ Unread(q) \in Nat
    /\ Required(q, n) \in Nat
    /\ Unread(q) + n <= Required(q, n)
<1> SUFFICES ASSUME NEW q, NEW n, IsQueue(q), n \in Nat
             PROVE  /\ Unread(q) \in Nat
                    /\ Required(q, n) \in Nat
                    /\ Unread(q) + n <= Required(q, n)
  OBVIOUS
<1>1. Unread(q) \in Nat
  BY DEF IsQueue, Unread
<1>2. Unread(q) + n \in Nat
  BY <1>1
<1> QED
  BY <1>1, <1>2, TimesHeadroom DEF Required

(* _expandCompactRQ wants at least the room it needs, if it does not throw. *)
LEMMA NewSizeEnough ==
  \A q, n : IsQueue(q) /\ n \in Nat /\ ~Refuses(q, n) =>
    /\ NewSize(q, n) \in Nat
    /\ q.size <= NewSize(q, n) /\ NewSize(q, n) <= MaxGrow
    /\ Unread(q) + n <= NewSize(q, n)
    /\ q.size >= Required(q, n) => NewSize(q, n) = q.size
<1> SUFFICES ASSUME NEW q, NEW n, IsQueue(q), n \in Nat, ~Refuses(q, n)
             PROVE  /\ NewSize(q, n) \in Nat
                    /\ q.size <= NewSize(q, n) /\ NewSize(q, n) <= MaxGrow
                    /\ Unread(q) + n <= NewSize(q, n)
                    /\ q.size >= Required(q, n) => NewSize(q, n) = q.size
  OBVIOUS
<1>1. Unread(q) \in Nat /\ Required(q, n) \in Nat /\ Unread(q) + n <= Required(q, n)
  BY RequiredEnough
<1>2. q.size \in Nat /\ q.size <= MaxGrow /\ MaxGrow \in Nat
  BY WebsockAssumption DEF IsQueue
<1>3. /\ Wanted(q, n) \in Nat /\ Wanted(q, n) >= Required(q, n)
      /\ Wanted(q, n) >= q.size
      /\ q.size >= Required(q, n) => Wanted(q, n) = q.size
  BY <1>1, <1>2 DEF Wanted
<1> QED
  BY <1>1, <1>2, <1>3 DEF NewSize, Refuses

(***************************************************************************)
(* _expandCompactRQ leaves a queue with room for the message, if it does   *)
(* not throw and the array was as long as it was thought to be.            *)
(***************************************************************************)
LEMMA FittedHolds ==
  \A q, n : IsQueue(q) /\ n \in Nat \ {0} /\ Keeps(q, n) =>
    LET f == Fitted(q, n) IN
    /\ IsQueue(f)
    /\ Unread(f) = Unread(q) /\ f.len <= q.len
    /\ \A k \in 0 .. Unread(q) - 1 : f.arr[f.i + k] = q.arr[q.i + k]
    /\ q.size = q.cap => f.size = f.cap /\ f.len + n <= f.cap
<1> SUFFICES ASSUME NEW q, NEW n, IsQueue(q), n \in Nat \ {0}, Keeps(q, n)
             PROVE  LET f == Fitted(q, n) IN
                    /\ IsQueue(f)
                    /\ Unread(f) = Unread(q) /\ f.len <= q.len
                    /\ \A k \in 0 .. Unread(q) - 1 : f.arr[f.i + k] = q.arr[q.i + k]
                    /\ q.size = q.cap => f.size = f.cap /\ f.len + n <= f.cap
  OBVIOUS
<1>1. CASE ~(n > q.size - q.len)
  <2>1. Fitted(q, n) = q
    BY <1>1 DEF Fitted
  <2> QED
    BY <1>1, <2>1 DEF IsQueue, Unread
<1>2. CASE n > q.size - q.len
  <2> DEFINE cap == IF q.size < Required(q, n) THEN NewSize(q, n) ELSE q.cap
             f == [arr |-> Moved(q, cap), i |-> 0, len |-> Unread(q),
                   size |-> NewSize(q, n), cap |-> cap]
  <2>1. Fitted(q, n) = f
    BY <1>2 DEF Fitted, Expanded
  <2>2. /\ NewSize(q, n) \in Nat /\ Unread(q) \in Nat /\ Required(q, n) \in Nat
        /\ q.size <= NewSize(q, n) /\ NewSize(q, n) <= MaxGrow
        /\ Unread(q) + n <= NewSize(q, n)
        /\ q.size >= Required(q, n) => NewSize(q, n) = q.size
    BY <1>2, NewSizeEnough, RequiredEnough DEF Keeps
  <2>3. /\ q.arr \in [0 .. q.cap - 1 -> Nat]
        /\ q.i \in Nat /\ q.len \in Nat /\ q.size \in Nat /\ q.cap \in Nat
        /\ q.i <= q.len /\ q.len <= q.cap /\ q.cap <= q.size /\ q.size <= MaxGrow
    BY DEF IsQueue
  <2>4. cap \in Nat /\ cap <= NewSize(q, n) /\ Unread(q) <= cap
    BY <2>2, <2>3 DEF Unread
  <2>5. Moved(q, cap) \in [0 .. cap - 1 -> Nat]
    <3>1. \A k \in 0 .. cap - 1 : k < Unread(q) => q.i + k \in 0 .. q.cap - 1
      BY <2>3, <2>4 DEF Unread
    <3> HIDE DEF cap
    <3> QED
      BY <2>3, <3>1 DEF Moved
  <2>6. \A k \in 0 .. Unread(q) - 1 : Moved(q, cap)[k] = q.arr[q.i + k]
    <3>1. \A k \in 0 .. Unread(q) - 1 : k \in 0 .. cap - 1 /\ k < Unread(q)
      BY <2>2, <2>4
    <3> HIDE DEF cap
    <3> QED
      BY <3>1 DEF Moved
  <2>7. q.size = q.cap => NewSize(q, n) = cap
    BY <2>2, <2>3
  <2>8. /\ f.arr = Moved(q, cap) /\ f.i = 0 /\ f.len = Unread(q)
        /\ f.size = NewSize(q, n) /\ f.cap = cap
    OBVIOUS
  <2>9. IsQueue(f)
    <3> HIDE DEF cap
    <3> QED
      BY <2>2, <2>4, <2>5 DEF IsQueue
  <2> HIDE DEF f, cap
  <2>10. \A k \in 0 .. Unread(q) - 1 : f.arr[f.i + k] = q.arr[q.i + k]
    BY <2>2, <2>6, <2>8
  <2> QED
    BY <2>1, <2>2, <2>3, <2>7, <2>8, <2>9, <2>10 DEF Unread
<1> QED
  BY <1>1, <1>2

(* The fields of a queue of which the array and the length are set. *)
LEMMA ArrSet ==
  ASSUME NEW A, NEW q \in [arr : A, i : Nat, len : Nat, size : Nat, cap : Nat],
         NEW x \in A, NEW y \in Nat, NEW a, a = [q EXCEPT !.arr = x, !.len = y]
  PROVE  /\ a \in [arr : A, i : Nat, len : Nat, size : Nat, cap : Nat]
         /\ a.arr = x /\ a.i = q.i /\ a.len = y /\ a.size = q.size /\ a.cap = q.cap
OBVIOUS

(* The fields of a queue that starts again at 0. *)
LEMMA StartSet ==
  ASSUME NEW A, NEW q \in [arr : A, i : Nat, len : Nat, size : Nat, cap : Nat],
         NEW e, e = [q EXCEPT !.i = 0, !.len = 0]
  PROVE  /\ e \in [arr : A, i : Nat, len : Nat, size : Nat, cap : Nat]
         /\ e.arr = q.arr /\ e.i = 0 /\ e.len = 0 /\ e.size = q.size /\ e.cap = q.cap
OBVIOUS

(***************************************************************************)
(* A message after the unread: the queue holds the end of what has come.   *)
(***************************************************************************)
LEMMA AppendedHolds ==
  \A q, n, got, a : /\ IsQueue(q) /\ n \in Nat \ {0} /\ got \in Nat
                    /\ q.len + n <= q.cap /\ a = Appended(q, n, got)
    => /\ IsQueue(a) /\ a.i = q.i
       /\ Exact(q, got) => Exact(a, got + n)
       /\ Holds(q, q.i, got) => Holds(a, a.i, got + n)
<1> SUFFICES ASSUME NEW q, NEW n, NEW got, NEW a,
                    IsQueue(q), n \in Nat \ {0}, got \in Nat,
                    q.len + n <= q.cap, a = Appended(q, n, got)
             PROVE  /\ IsQueue(a) /\ a.i = q.i
                    /\ Exact(q, got) => Exact(a, got + n)
                    /\ Holds(q, q.i, got) => Holds(a, a.i, got + n)
  OBVIOUS
<1> DEFINE arr == [k \in 0 .. q.cap - 1 |->
                     IF k \in q.len .. q.len + n - 1 THEN got + (k - q.len) ELSE q.arr[k]]
           Arrays == [0 .. q.cap - 1 -> Nat]
<1>1. /\ q \in [arr : Arrays, i : Nat, len : Nat, size : Nat, cap : Nat]
      /\ q.arr \in Arrays
      /\ q.i \in Nat /\ q.len \in Nat /\ q.size \in Nat /\ q.cap \in Nat
      /\ q.i <= q.len /\ q.len <= q.cap /\ q.cap <= q.size /\ q.size <= MaxGrow
  BY DEF IsQueue
<1>2. arr \in Arrays
  BY <1>1
<1>3. a = [q EXCEPT !.arr = arr, !.len = q.len + n]
  BY DEF Appended
<1>4. \A k \in 0 .. q.cap - 1 :
        arr[k] = IF k \in q.len .. q.len + n - 1 THEN got + (k - q.len) ELSE q.arr[k]
  OBVIOUS
<1> HIDE DEF arr, Arrays
<1>5. /\ a \in [arr : Arrays, i : Nat, len : Nat, size : Nat, cap : Nat]
      /\ a.arr = arr /\ a.i = q.i /\ a.len = q.len + n
      /\ a.size = q.size /\ a.cap = q.cap
  <2>1. q.len + n \in Nat
    BY <1>1
  <2> QED
    BY <1>1, <1>2, <1>3, <2>1, ArrSet, Zenon
<1>6. IsQueue(a)
  BY <1>1, <1>5 DEF IsQueue, Arrays
<1>7. ASSUME Holds(q, q.i, got), NEW k \in a.i .. a.len - 1
      PROVE  a.arr[k] = got + n - (a.len - k)
  <2>1. k \in 0 .. q.cap - 1 /\ k \in q.i .. q.len + n - 1 /\ k \in Int
    BY <1>1, <1>5
  <2>2. CASE k >= q.len
    BY <1>1, <1>4, <1>5, <2>1, <2>2
  <2>3. CASE k < q.len
    <3>1. k \in q.i .. q.len - 1
      BY <1>1, <2>1, <2>3
    <3>2. q.arr[k] = got - (q.len - k)
      BY <1>7, <3>1 DEF Holds
    <3>3. a.arr[k] = q.arr[k]
      BY <1>1, <1>4, <1>5, <2>1, <2>3
    <3>4. got - (q.len - k) = got + n - (a.len - k)
      BY <1>1, <1>5, <2>1
    <3> QED  BY <3>2, <3>3, <3>4
  <2> QED  BY <1>1, <2>1, <2>2, <2>3
<1>8. Holds(q, q.i, got) => Holds(a, a.i, got + n)
  BY <1>1, <1>5, <1>7 DEF Holds
<1> QED
  BY <1>1, <1>5, <1>6, <1>8 DEF Exact

(* An empty queue that starts again at 0 is still the queue it was. *)
LEMMA EmptiedHolds ==
  \A q, got, e : IsQueue(q) /\ got \in Nat /\ e = Emptied(q) =>
    /\ IsQueue(e) /\ Unread(e) = Unread(q)
    /\ Exact(q, got) => Exact(e, got)
    /\ Holds(q, q.i, got) => Holds(e, e.i, got)
<1> SUFFICES ASSUME NEW q, NEW got, NEW e, IsQueue(q), got \in Nat, e = Emptied(q)
             PROVE  /\ IsQueue(e) /\ Unread(e) = Unread(q)
                    /\ Exact(q, got) => Exact(e, got)
                    /\ Holds(q, q.i, got) => Holds(e, e.i, got)
  OBVIOUS
<1>1. CASE q.i # q.len
  BY <1>1 DEF Emptied
<1>2. CASE q.i = q.len
  <2>1. e = [q EXCEPT !.i = 0, !.len = 0]
    BY <1>2 DEF Emptied
  <2> DEFINE Arrays == [0 .. q.cap - 1 -> Nat]
  <2>2. /\ q \in [arr : Arrays, i : Nat, len : Nat, size : Nat, cap : Nat]
        /\ q.len <= q.cap /\ q.cap <= q.size /\ q.size <= MaxGrow
    BY DEF IsQueue
  <2> HIDE DEF Arrays
  <2>3. /\ e \in [arr : Arrays, i : Nat, len : Nat, size : Nat, cap : Nat]
        /\ e.arr = q.arr /\ e.i = 0 /\ e.len = 0 /\ e.size = q.size /\ e.cap = q.cap
    BY <2>1, <2>2, StartSet, Zenon
  <2>4. IsQueue(e) /\ Unread(e) = 0 /\ Unread(q) = 0
    BY <1>2, <2>2, <2>3 DEF IsQueue, Unread, Arrays
  <2>5. Exact(q, got) => Exact(e, got)
    BY <2>3 DEF Exact
  <2>6. Holds(e, e.i, got)
    BY <2>3 DEF Holds
  <2> QED  BY <2>4, <2>5, <2>6
<1> QED  BY <1>1, <1>2

(* A queue with the same unread bytes in another place holds the same. *)
LEMMA MovedHolds ==
  \A q, f, got : /\ IsQueue(q) /\ IsQueue(f) /\ Unread(f) = Unread(q) /\ got \in Nat
                 /\ \A k \in 0 .. Unread(q) - 1 : f.arr[f.i + k] = q.arr[q.i + k]
                 /\ Holds(q, q.i, got)
    => Holds(f, f.i, got)
<1> SUFFICES ASSUME NEW q, NEW f, NEW got,
                    IsQueue(q), IsQueue(f), Unread(f) = Unread(q), got \in Nat,
                    \A k \in 0 .. Unread(q) - 1 : f.arr[f.i + k] = q.arr[q.i + k],
                    Holds(q, q.i, got)
             PROVE  Holds(f, f.i, got)
  OBVIOUS
<1>1. /\ f.i \in Nat /\ f.len \in Nat /\ f.i <= f.len
      /\ q.i \in Nat /\ q.len \in Nat /\ q.i <= q.len
      /\ f.len - f.i = q.len - q.i
  BY DEF IsQueue, Unread
<1> SUFFICES ASSUME NEW k \in f.i .. f.len - 1
             PROVE  f.arr[k] = got - (f.len - k)
  BY <1>1 DEF Holds
<1>2. k - f.i \in 0 .. Unread(q) - 1 /\ f.i + (k - f.i) = k
  BY <1>1 DEF Unread
<1>3. f.arr[k] = q.arr[q.i + (k - f.i)]
  BY <1>2
<1>4. q.i + (k - f.i) \in q.i .. q.len - 1
  BY <1>1
<1>5. f.arr[k] = got - (q.len - (q.i + (k - f.i)))
  BY <1>3, <1>4 DEF Holds
<1>6. got - (q.len - (q.i + (k - f.i))) = got - (f.len - k)
  BY <1>1
<1> QED
  BY <1>5, <1>6

-----------------------------------------------------------------------------
(* The queue starts empty. *)
LEMMA ReceiveStarts == WebsockInit => ReceiveInv
<1> SUFFICES ASSUME WebsockInit PROVE ReceiveInv
  OBVIOUS
<1>1. /\ RQSize \in Nat \ {0} /\ MaxGrow \in Nat /\ RQSize <= MaxGrow
  BY WebsockAssumption
<1>2. /\ rq = [arr |-> [k \in 0 .. RQSize - 1 |-> 0], i |-> 0, len |-> 0,
               size |-> RQSize, cap |-> RQSize]
      /\ received = 0 /\ taken = 0 /\ lost = FALSE
  BY DEF WebsockInit
<1>3. /\ rq \in [arr : [0 .. RQSize - 1 -> Nat], i : Nat, len : Nat, size : Nat, cap : Nat]
      /\ rq.i = 0 /\ rq.len = 0 /\ rq.size = RQSize /\ rq.cap = RQSize
  BY <1>1, <1>2
<1>4. IsQueue(rq)
  BY <1>1, <1>3 DEF IsQueue
<1>5. Exact(rq, received) /\ Holds(rq, rq.i - taken, received)
  BY <1>2, <1>3 DEF Exact, Holds
<1>6. received \in Nat /\ taken \in Nat /\ taken <= rq.i
  BY <1>2, <1>3
<1>7. lost \in BOOLEAN
  BY <1>2
<1> QED
  BY <1>4, <1>5, <1>6, <1>7 DEF ReceiveInv

(* A message keeps the invariant, and is lost only at the limit. *)
LEMMA RecvMessageKeeps ==
  ASSUME ReceiveInv, NEW n \in Sizes, RecvMessage(n)
  PROVE  ReceiveInv' /\ (lost' /\ ~lost => Unread(rq) + n > MaxGrow)
<1> DEFINE q == Emptied(rq)
           f == Fitted(q, n)
<1>1. /\ n \in Nat \ {0} /\ received \in Nat /\ taken = 0 /\ taken' = 0
      /\ received' = received + n /\ received' \in Nat /\ IsQueue(rq)
      /\ lost \in BOOLEAN
  BY WebsockAssumption DEF ReceiveInv, RecvMessage
<1>2. rq.i - taken = rq.i
  BY <1>1 DEF IsQueue
<1>3. ~lost => Exact(rq, received) /\ Holds(rq, rq.i, received)
  BY <1>2 DEF ReceiveInv
<1>4. /\ IsQueue(q) /\ Unread(q) = Unread(rq)
      /\ ~lost => Exact(q, received) /\ Holds(q, q.i, received)
  BY <1>1, <1>3, EmptiedHolds
<1>5. /\ Keeps(q, n) /\ f.len + n <= f.cap => rq' = Appended(f, n, received) /\ lost' = lost
      /\ Keeps(q, n) /\ ~(f.len + n <= f.cap) => rq' = f /\ lost' = TRUE
      /\ ~Keeps(q, n) => rq' = [q EXCEPT !.size = MaxGrow] /\ lost' = TRUE
  <2>1. ASSUME Keeps(q, n) PROVE f.len + n \in Int /\ f.cap \in Int
    <3>1. IsQueue(f)
      BY <1>1, <1>4, <2>1, FittedHolds
    <3> HIDE DEF f
    <3> QED
      BY <1>1, <3>1 DEF IsQueue
  <2> QED
    BY <2>1 DEF RecvMessage
<1> HIDE DEF q, f
<1>6. CASE ~Keeps(q, n)
  <2>1. rq' = [q EXCEPT !.size = MaxGrow] /\ lost' = TRUE
    BY <1>5, <1>6
  <2>2. MaxGrow \in Nat
    BY WebsockAssumption
  <2>3. /\ rq' \in [arr : [0 .. q.cap - 1 -> Nat], i : Nat, len : Nat, size : Nat, cap : Nat]
        /\ rq'.i = q.i /\ rq'.len = q.len /\ rq'.size = MaxGrow /\ rq'.cap = q.cap
    BY <1>4, <2>1, <2>2 DEF IsQueue
  <2>4. IsQueue(rq')
    BY <1>4, <2>2, <2>3 DEF IsQueue
  <2>5. Unread(q) + n > MaxGrow
    <3>1. MaxGrow - Unread(q) < n
      BY <1>6 DEF Keeps, Refuses
    <3>2. Unread(q) \in Nat
      BY <1>4 DEF IsQueue, Unread
    <3> QED  BY <1>1, <2>2, <3>1, <3>2
  <2>6. 0 <= rq'.i
    BY <2>3
  <2> QED
    BY <1>1, <1>4, <2>1, <2>4, <2>5, <2>6 DEF ReceiveInv
<1>7. CASE Keeps(q, n)
  <2>1. /\ IsQueue(f) /\ Unread(f) = Unread(q)
        /\ \A k \in 0 .. Unread(q) - 1 : f.arr[f.i + k] = q.arr[q.i + k]
        /\ q.size = q.cap => f.size = f.cap /\ f.len + n <= f.cap
        /\ f.len <= q.len
    BY <1>1, <1>4, <1>7, FittedHolds DEF f
  <2>2. f.len \in Nat /\ q.len \in Nat /\ f.cap \in Nat /\ f.i \in Nat
    BY <1>4, <2>1 DEF IsQueue
  <2>3. ~lost => Exact(f, received) /\ Holds(f, f.i, received) /\ f.len + n <= f.cap
    <3> SUFFICES ASSUME ~lost PROVE Exact(f, received) /\ Holds(f, f.i, received) /\ f.len + n <= f.cap
      OBVIOUS
    <3>1. Exact(q, received) /\ Holds(q, q.i, received)
      BY <1>4
    <3>2. Holds(f, f.i, received)
      BY <1>1, <1>4, <2>1, <3>1, MovedHolds
    <3> QED
      BY <1>1, <2>1, <2>2, <3>1, <3>2 DEF Exact
  <2>4. CASE f.len + n <= f.cap
    <3>1. rq' = Appended(f, n, received) /\ lost' = lost
      BY <1>5, <1>7, <2>4
    <3>2. /\ IsQueue(rq') /\ rq'.i = f.i
          /\ ~lost => Exact(rq', received') /\ Holds(rq', rq'.i, received')
      BY <1>1, <2>1, <2>3, <2>4, <3>1, AppendedHolds
    <3>3. 0 <= rq'.i /\ rq'.i - 0 = rq'.i
      BY <2>2, <3>2
    <3> QED
      BY <1>1, <3>1, <3>2, <3>3 DEF ReceiveInv
  <2>5. CASE ~(f.len + n <= f.cap)
    <3>1. rq' = f /\ lost' = TRUE /\ lost
      BY <1>1, <1>5, <1>7, <2>3, <2>5
    <3> QED
      BY <1>1, <2>1, <2>2, <3>1 DEF ReceiveInv
  <2> QED
    BY <2>4, <2>5
<1> QED
  BY <1>6, <1>7

(* Reading and putting back move the start of the unread only. *)
LEMMA ReadKeeps ==
  ASSUME ReceiveInv, HandlerReturns \/ \E n \in Sizes : Shift(n) \/ GoBack(n)
  PROVE  ReceiveInv'
<1>1. /\ taken \in Nat /\ taken <= rq.i
      /\ received \in Nat /\ received' = received /\ lost' = lost /\ lost \in BOOLEAN
      /\ IsQueue(rq) /\ rq.i \in Nat /\ rq.len \in Nat /\ rq.i <= rq.len
  BY WebsockAssumption DEF ReceiveInv, IsQueue, Shift, GoBack, HandlerReturns
<1>2. \E i \in Nat : /\ rq' = [rq EXCEPT !.i = i] /\ i <= rq.len
                      /\ taken' \in Nat /\ taken' <= i /\ i - taken' >= rq.i - taken
  <2>1. ASSUME NEW n \in Sizes, Shift(n)
        PROVE  \E i \in Nat : /\ rq' = [rq EXCEPT !.i = i] /\ i <= rq.len
                             /\ taken' \in Nat /\ taken' <= i
                             /\ i - taken' >= rq.i - taken
    <3> DEFINE i == rq.i + n
    <3>1. /\ n \in Nat /\ i \in Nat /\ i <= rq.len
          /\ rq' = [rq EXCEPT !.i = i] /\ taken' = taken + n
      BY <1>1, <2>1, WebsockAssumption DEF Shift, Unread
    <3>2. taken' \in Nat /\ taken' <= i /\ i - taken' >= rq.i - taken
      BY <1>1, <3>1
    <3> HIDE DEF i
    <3> QED
      BY <3>1, <3>2, Zenon
  <2>2. ASSUME NEW n \in Sizes, GoBack(n)
        PROVE  \E i \in Nat : /\ rq' = [rq EXCEPT !.i = i] /\ i <= rq.len
                             /\ taken' \in Nat /\ taken' <= i
                             /\ i - taken' >= rq.i - taken
    BY <1>1, <2>2, WebsockAssumption DEF GoBack
  <2>3. CASE HandlerReturns
    <3>1. rq' = [rq EXCEPT !.i = rq.i]
      BY <1>1, <2>3 DEF HandlerReturns, IsQueue
    <3>2. taken' = 0
      BY <2>3 DEF HandlerReturns
    <3>3. /\ rq' = [rq EXCEPT !.i = rq.i] /\ rq.i <= rq.len
          /\ taken' \in Nat /\ taken' <= rq.i /\ rq.i - taken' >= rq.i - taken
      BY <1>1, <3>1, <3>2
    <3> QED
      BY <1>1, <3>3, Zenon
  <2> QED
    BY <2>1, <2>2, <2>3
<1>3. PICK i \in Nat : /\ rq' = [rq EXCEPT !.i = i] /\ i <= rq.len
                       /\ taken' \in Nat /\ taken' <= i /\ i - taken' >= rq.i - taken
  BY <1>2
<1>4. /\ rq'.arr = rq.arr /\ rq'.i = i /\ rq'.len = rq.len
      /\ rq'.size = rq.size /\ rq'.cap = rq.cap
  BY <1>1, <1>3 DEF IsQueue
<1>5. IsQueue(rq')
  <2>1. rq' \in [arr : [0 .. rq.cap - 1 -> Nat], i : Nat, len : Nat, size : Nat, cap : Nat]
    BY <1>1, <1>3 DEF IsQueue
  <2> QED
    BY <1>1, <1>3, <1>4, <2>1 DEF IsQueue
<1>6. ASSUME ~lost
      PROVE  Exact(rq', received') /\ Holds(rq', rq'.i - taken', received')
  <2>1. Exact(rq, received) /\ Holds(rq, rq.i - taken, received)
    BY <1>6 DEF ReceiveInv
  <2>2. \A k \in i - taken' .. rq.len - 1 : k \in rq.i - taken .. rq.len - 1
    BY <1>1, <1>3
  <2> QED
    BY <1>1, <1>4, <2>1, <2>2 DEF Exact, Holds
<1> QED
  BY <1>1, <1>3, <1>4, <1>5, <1>6 DEF ReceiveInv

-----------------------------------------------------------------------------
(* The send queue starts empty. *)
LEMMA SendStarts == WebsockInit => SendInv
<1> SUFFICES ASSUME WebsockInit PROVE SendInv
  OBVIOUS
<1>1. SQSize \in Nat \ {0}
  BY WebsockAssumption
<1>2. /\ sq = [arr |-> [k \in 0 .. SQSize - 1 |-> 0], len |-> 0]
      /\ pushed = 0 /\ payload = [size |-> 0, offset |-> 0] /\ wired = 0
      /\ straddled = FALSE
  BY DEF WebsockInit
<1>3. /\ sq \in [arr : [0 .. SQSize - 1 -> Nat], len : 0 .. SQSize] /\ sq.len = 0
      /\ payload \in [size : Nat, offset : Nat] /\ payload.size = 0 /\ payload.offset = 0
  BY <1>1, <1>2
<1>4. pushed \in Nat /\ wired \in Nat
  BY <1>2
<1>5. straddled \in BOOLEAN
  BY <1>2
<1>6. wired + sq.len = pushed + payload.offset /\ Run(sq.arr, sq.len, wired)
  BY <1>2, <1>3 DEF Run
<1> QED
  BY <1>3, <1>4, <1>5, <1>6 DEF SendInv, SendType

(* Put gives an array of the same length. *)
LEMMA PutType ==
  \A arr \in [0 .. SQSize - 1 -> Nat], at, n, from \in Nat :
    Put(arr, at, n, from) \in [0 .. SQSize - 1 -> Nat]
<1> SUFFICES ASSUME NEW arr \in [0 .. SQSize - 1 -> Nat],
                    NEW at \in Nat, NEW n \in Nat, NEW from \in Nat
             PROVE  Put(arr, at, n, from) \in [0 .. SQSize - 1 -> Nat]
  OBVIOUS
<1> DEFINE D == 0 .. SQSize - 1
<1>1. DOMAIN arr = D /\ \A k \in D : arr[k] \in Nat /\ k \in Int
  OBVIOUS
<1>2. Put(arr, at, n, from) = [k \in D |-> IF k \in at .. at + n - 1 THEN from + (k - at) ELSE arr[k]]
  BY <1>1 DEF Put
<1> QED
  BY <1>1, <1>2

(***************************************************************************)
(* What is written behind the end of the queue goes on where it ended: of  *)
(* n bytes from place `from` on, at `at`, the first is wired + at.         *)
(***************************************************************************)
LEMMA PutHolds ==
  \A arr \in [0 .. SQSize - 1 -> Nat], at, n, w, from \in Nat :
    from = w + at /\ at + n <= SQSize /\ Run(arr, at, w)
      => Run(Put(arr, at, n, from), at + n, w)
<1> TAKE arr \in [0 .. SQSize - 1 -> Nat], at, n, w, from \in Nat
<1> HAVE from = w + at /\ at + n <= SQSize /\ Run(arr, at, w)
<1>1. SQSize \in Nat
  BY WebsockAssumption
<1>2. \A k \in 0 .. SQSize - 1 :
        Put(arr, at, n, from)[k] = IF k >= at /\ k < at + n THEN from + (k - at) ELSE arr[k]
  <2>1. DOMAIN arr = 0 .. SQSize - 1
    OBVIOUS
  <2> QED
    BY <1>1, <2>1 DEF Put
<1> SUFFICES ASSUME NEW k \in 0 .. at + n - 1
             PROVE  Put(arr, at, n, from)[k] = w + k
  BY DEF Run
<1>3. k \in 0 .. SQSize - 1 /\ k \in Int
  BY <1>1
<1>4. CASE k >= at
  BY <1>2, <1>3, <1>4
<1>5. CASE k < at
  BY <1>2, <1>3, <1>5 DEF Run
<1> QED
  BY <1>3, <1>4, <1>5

(***************************************************************************)
(* Room for what comes next: the queue is flushed first or it is not, and  *)
(* either way it goes on where the socket or the queue ends.               *)
(***************************************************************************)
LEMMA RoomMade ==
  ASSUME SendInv, ~straddled
  PROVE  /\ wired + sq.len = pushed + payload.offset /\ Run(sq.arr, sq.len, wired)
         /\ (wired + Flushed(sq.len)) + 0 = pushed + payload.offset
         /\ Run(sq.arr, 0, wired + Flushed(sq.len))
BY WebsockAssumption DEF SendInv, SendType, Flushed, Run

(* A push of a few bytes keeps the invariant. *)
LEMMA PushKeeps ==
  ASSUME SendInv, NEW n \in Sizes, Push(n)
  PROVE  SendInv'
<1>1. /\ SQSize \in Nat /\ n \in Nat /\ n <= SQSize
      /\ sq.len \in 0 .. SQSize /\ pushed \in Nat /\ wired \in Nat
      /\ sq.arr \in [0 .. SQSize - 1 -> Nat]
      /\ payload.size = 0 /\ payload.offset = 0 /\ payload' = payload
      /\ straddled' = straddled /\ pushed' = pushed + n
  BY WebsockAssumption DEF SendInv, SendType, Push
<1>2. \E len \in Nat, w \in Nat :
         /\ len + n <= SQSize
         /\ (len = sq.len /\ w = wired) \/ (len = 0 /\ w = wired + Flushed(sq.len))
         /\ wired' = w
         /\ sq' = [arr |-> Put(sq.arr, len, n, pushed), len |-> len + n]
  <2>1. CASE Room < n
    <3>1. /\ wired' = wired + Flushed(sq.len)
          /\ sq' = [arr |-> Put(sq.arr, 0, n, pushed), len |-> 0 + n]
      BY <2>1 DEF Push
    <3>2. wired + Flushed(sq.len) \in Nat /\ 0 + n <= SQSize /\ 0 \in Nat
      BY <1>1 DEF Flushed
    <3> QED  BY <3>1, <3>2, Zenon
  <2>2. CASE ~(Room < n)
    <3>1. /\ wired' = wired
          /\ sq' = [arr |-> Put(sq.arr, sq.len, n, pushed), len |-> sq.len + n]
      BY <2>2 DEF Push
    <3>2. sq.len + n <= SQSize /\ sq.len \in Nat
      BY <1>1, <2>2 DEF Room
    <3> QED  BY <1>1, <3>1, <3>2, Zenon
  <2> QED  BY <2>1, <2>2
<1>3. PICK len \in Nat, w \in Nat :
         /\ len + n <= SQSize
         /\ (len = sq.len /\ w = wired) \/ (len = 0 /\ w = wired + Flushed(sq.len))
         /\ wired' = w
         /\ sq' = [arr |-> Put(sq.arr, len, n, pushed), len |-> len + n]
  BY <1>2
<1>4. sq'.len = len + n /\ sq'.arr = Put(sq.arr, len, n, pushed)
  BY <1>3
<1>5. Put(sq.arr, len, n, pushed) \in [0 .. SQSize - 1 -> Nat]
  BY <1>1, PutType
<1>6. sq' \in [arr : [0 .. SQSize - 1 -> Nat], len : 0 .. SQSize]
  BY <1>1, <1>3, <1>5
<1>7. ASSUME ~straddled
      PROVE  wired' + sq'.len = pushed' /\ Run(sq'.arr, sq'.len, wired')
  <2>1. w + len = pushed + payload.offset /\ Run(sq.arr, len, w)
    BY <1>3, <1>7, RoomMade
  <2>2. wired' + sq'.len = pushed' /\ pushed = w + len
    BY <1>1, <1>3, <1>4, <2>1
  <2>3. Run(Put(sq.arr, len, n, pushed), len + n, w)
    BY <1>1, <1>3, <2>1, <2>2, PutHolds
  <2> QED
    BY <1>3, <1>4, <2>2, <2>3
<1>8. pushed' \in Nat /\ wired' \in Nat /\ pushed' + payload'.offset = pushed'
  BY <1>1, <1>3
<1> QED
  BY <1>1, <1>6, <1>7, <1>8 DEF SendInv, SendType

(* So does flush(), and the start of a payload. *)
LEMMA FlushKeeps ==
  ASSUME SendInv, Flush \/ \E n \in Sizes : PushBytes(n)
  PROVE  SendInv'
<1>1. SQSize \in Nat /\ \A n \in Sizes : n \in Nat \ {0}
  BY WebsockAssumption
<1>2. CASE Flush
  <2>1. /\ sq' \in [arr : [0 .. SQSize - 1 -> Nat], len : 0 .. SQSize]
        /\ sq'.len = 0 /\ sq'.arr = sq.arr
        /\ wired' = wired + Flushed(sq.len) /\ wired' \in Nat
        /\ pushed' = pushed /\ payload' = payload /\ straddled' = straddled
    BY <1>1, <1>2 DEF SendInv, SendType, Flush, Flushed
  <2>2. ASSUME ~straddled
        PROVE  wired' + sq'.len = pushed' + payload'.offset /\ Run(sq'.arr, sq'.len, wired')
    BY <2>1, <2>2, RoomMade
  <2> QED
    BY <2>1, <2>2 DEF SendInv, SendType
<1>3. ASSUME NEW n \in Sizes, PushBytes(n)
      PROVE  SendInv'
  <2>1. /\ payload' = [size |-> n, offset |-> 0] /\ payload.offset = 0
        /\ sq' = sq /\ wired' = wired /\ pushed' = pushed /\ straddled' = straddled
    BY <1>3 DEF PushBytes, SendInv
  <2>2. /\ payload' \in [size : Nat, offset : Nat] /\ payload'.size = n
        /\ payload'.offset = 0
    BY <1>1, <2>1
  <2> QED
    BY <1>1, <2>1, <2>2 DEF SendInv, SendType
<1> QED
  BY <1>2, <1>3

(***************************************************************************)
(* A pass of the loop of sQpushBytes: the first one copies all it counts,  *)
(* a later one marks the payload as straddled.                             *)
(***************************************************************************)
LEMMA ChunkKeeps ==
  ASSUME SendInv, PushChunk
  PROVE  SendInv'
<1> DEFINE left == payload.size - payload.offset
           copied(chunk) == IF chunk > payload.offset THEN chunk - payload.offset ELSE 0
<1>1. /\ SQSize \in Nat \ {0} /\ sq.len \in 0 .. SQSize /\ pushed \in Nat /\ wired \in Nat
      /\ sq.arr \in [0 .. SQSize - 1 -> Nat]
      /\ payload.size \in Nat /\ payload.offset \in Nat /\ payload.offset < payload.size
      /\ straddled \in BOOLEAN
  BY WebsockAssumption DEF SendInv, SendType, PushChunk
<1>2. \E len \in Nat, w \in Nat, chunk \in Nat :
         /\ len + chunk <= SQSize /\ chunk <= left
         /\ (len = sq.len /\ w = wired) \/ (len = 0 /\ w = wired + Flushed(sq.len))
         /\ wired' = w
         /\ sq' = [arr |-> Put(sq.arr, len, copied(chunk), pushed + payload.offset),
                   len |-> len + chunk]
         /\ \/ /\ chunk = left /\ pushed' = pushed + payload.size
               /\ payload' = [size |-> 0, offset |-> 0]
            \/ /\ chunk # left /\ pushed' = pushed
               /\ payload' = [payload EXCEPT !.offset = @ + chunk]
  <2>1. CASE Room = 0
    <3> DEFINE chunk == IF SQSize - 0 > left THEN left ELSE SQSize - 0
    <3>1. /\ wired' = wired + Flushed(sq.len)
          /\ sq' = [arr |-> Put(sq.arr, 0, copied(chunk), pushed + payload.offset),
                    len |-> 0 + chunk]
          /\ \/ /\ chunk = left /\ pushed' = pushed + payload.size
                /\ payload' = [size |-> 0, offset |-> 0]
             \/ /\ chunk # left /\ pushed' = pushed
                /\ payload' = [payload EXCEPT !.offset = @ + chunk]
      BY <2>1 DEF PushChunk
    <3>2. /\ wired + Flushed(sq.len) \in Nat /\ 0 \in Nat /\ chunk \in Nat
          /\ 0 + chunk <= SQSize /\ chunk <= left
      BY <1>1 DEF Flushed
    <3> HIDE DEF chunk, left, copied
    <3> QED  BY <3>1, <3>2, Zenon
  <2>2. CASE Room # 0
    <3> DEFINE chunk == IF SQSize - sq.len > left THEN left ELSE SQSize - sq.len
    <3>1. /\ wired' = wired
          /\ sq' = [arr |-> Put(sq.arr, sq.len, copied(chunk), pushed + payload.offset),
                    len |-> sq.len + chunk]
          /\ \/ /\ chunk = left /\ pushed' = pushed + payload.size
                /\ payload' = [size |-> 0, offset |-> 0]
             \/ /\ chunk # left /\ pushed' = pushed
                /\ payload' = [payload EXCEPT !.offset = @ + chunk]
      BY <2>2 DEF PushChunk
    <3>2. /\ sq.len \in Nat /\ chunk \in Nat /\ sq.len + chunk <= SQSize /\ chunk <= left
      BY <1>1
    <3> HIDE DEF chunk, left, copied
    <3> QED  BY <1>1, <3>1, <3>2, Zenon
  <2> QED  BY <2>1, <2>2
<1>3. PICK len \in Nat, w \in Nat, chunk \in Nat :
         /\ len + chunk <= SQSize /\ chunk <= left
         /\ (len = sq.len /\ w = wired) \/ (len = 0 /\ w = wired + Flushed(sq.len))
         /\ wired' = w
         /\ sq' = [arr |-> Put(sq.arr, len, copied(chunk), pushed + payload.offset),
                   len |-> len + chunk]
         /\ \/ /\ chunk = left /\ pushed' = pushed + payload.size
               /\ payload' = [size |-> 0, offset |-> 0]
            \/ /\ chunk # left /\ pushed' = pushed
               /\ payload' = [payload EXCEPT !.offset = @ + chunk]
  BY <1>2
<1>4. /\ sq'.len = len + chunk
      /\ sq'.arr = Put(sq.arr, len, copied(chunk), pushed + payload.offset)
  BY <1>3
<1>5. copied(chunk) \in Nat /\ pushed + payload.offset \in Nat
  BY <1>1
<1>6. sq' \in [arr : [0 .. SQSize - 1 -> Nat], len : 0 .. SQSize]
  <2> HIDE DEF copied
  <2>1. Put(sq.arr, len, copied(chunk), pushed + payload.offset) \in [0 .. SQSize - 1 -> Nat]
    BY <1>1, <1>5, PutType
  <2> QED
    BY <1>1, <1>3, <2>1
<1>7. /\ payload' \in [size : Nat, offset : Nat] /\ pushed' \in Nat
      /\ payload'.size = 0 => payload'.offset = 0
      /\ payload'.size > 0 => payload'.offset < payload'.size
      /\ pushed' + payload'.offset = pushed + payload.offset + chunk
  <2>1. payload \in [size : Nat, offset : Nat]
    BY DEF SendInv, SendType
  <2>2. CASE chunk = left
    <3>1. payload' = [size |-> 0, offset |-> 0] /\ pushed' = pushed + payload.size
      BY <1>3, <2>2
    <3> QED  BY <1>1, <2>2, <3>1
  <2>3. CASE chunk # left
    <3>1. payload' = [payload EXCEPT !.offset = @ + chunk] /\ pushed' = pushed
      BY <1>3, <2>3
    <3>2. /\ payload' \in [size : Nat, offset : Nat] /\ payload'.size = payload.size
          /\ payload'.offset = payload.offset + chunk
      BY <1>1, <2>1, <3>1
    <3>3. payload.offset + chunk < payload.size
      <4>1. chunk <= payload.size - payload.offset /\ chunk # payload.size - payload.offset
        BY <1>3, <2>3
      <4> QED  BY <1>1, <4>1
    <3> QED  BY <1>1, <3>1, <3>2, <3>3
  <2> QED  BY <2>2, <2>3
<1>8. straddled' \in BOOLEAN /\ (~straddled' => ~straddled /\ payload.offset = 0)
  <2>1. straddled' = (straddled \/ payload.offset > 0)
    BY DEF PushChunk
  <2>2. payload.offset > 0 \/ payload.offset = 0
    BY <1>1
  <2> QED  BY <1>1, <2>1, <2>2, Zenon
<1>9. ASSUME ~straddled'
      PROVE  wired' + sq'.len = pushed' + payload'.offset /\ Run(sq'.arr, sq'.len, wired')
  <2>1. ~straddled /\ payload.offset = 0
    BY <1>8, <1>9
  <2>2. copied(chunk) = chunk /\ pushed + payload.offset = pushed
    BY <1>1, <2>1
  <2>3. w + len = pushed /\ Run(sq.arr, len, w)
    BY <1>3, <2>1, <2>2, RoomMade
  <2>4. Run(Put(sq.arr, len, chunk, pushed), len + chunk, w)
    BY <1>1, <1>3, <2>3, PutHolds
  <2> HIDE DEF copied
  <2> QED
    BY <1>1, <1>3, <1>4, <1>7, <2>2, <2>3, <2>4
<1>10. wired' \in Nat
  BY <1>3
<1> QED
  BY <1>6, <1>7, <1>8, <1>9, <1>10 DEF SendInv, SendType

-----------------------------------------------------------------------------
(* Each half of a step leaves the state of the other alone. *)
LEMMA Halves ==
  ASSUME [WebsockNext]_websockVars
  PROVE  \/ /\ UNCHANGED sendVars
            /\ \/ UNCHANGED receiveVars
               \/ \E n \in Sizes : RecvMessage(n) \/ Shift(n) \/ GoBack(n)
               \/ HandlerReturns
         \/ /\ UNCHANGED receiveVars
            /\ \/ \E n \in Sizes : Push(n) \/ PushBytes(n)
               \/ Flush \/ PushChunk
BY DEF WebsockNext, ReceiveNext, SendNext, RecvMessage, Shift, GoBack, HandlerReturns,
   Push, PushBytes, Flush, PushChunk, websockVars

(* The invariants are inductive. *)
LEMMA ReceiveQueueStep == ReceiveInv /\ [WebsockNext]_websockVars => ReceiveInv'
<1> SUFFICES ASSUME ReceiveInv, [WebsockNext]_websockVars
             PROVE  ReceiveInv'
  OBVIOUS
<1>1. CASE UNCHANGED receiveVars
  BY <1>1 DEF receiveVars, ReceiveInv
<1>2. ASSUME NEW n \in Sizes, RecvMessage(n)
      PROVE  ReceiveInv'
  BY <1>2, RecvMessageKeeps
<1>3. ASSUME NEW n \in Sizes, Shift(n) \/ GoBack(n)
      PROVE  ReceiveInv'
  BY <1>3, ReadKeeps
<1>4. CASE HandlerReturns
  BY <1>4, ReadKeeps
<1> QED
  BY <1>1, <1>2, <1>3, <1>4, Halves

(* The same of the send queue. *)
LEMMA SendStep == SendInv /\ [WebsockNext]_websockVars => SendInv'
<1> SUFFICES ASSUME SendInv, [WebsockNext]_websockVars
             PROVE  SendInv'
  OBVIOUS
<1>1. CASE UNCHANGED sendVars
  BY <1>1 DEF sendVars, SendInv, SendType
<1>2. ASSUME NEW n \in Sizes, Push(n)
      PROVE  SendInv'
  BY <1>2, PushKeeps
<1>3. ASSUME NEW n \in Sizes, PushBytes(n)
      PROVE  SendInv'
  BY <1>3, FlushKeeps
<1>4. CASE Flush
  BY <1>4, FlushKeeps
<1>5. CASE PushChunk
  BY <1>5, ChunkKeeps
<1> QED
  BY <1>1, <1>2, <1>3, <1>4, <1>5, Halves

(* They say what the runs check. *)
LEMMA QueueFromInv == ReceiveInv /\ SendInv => QueueHolds
<1> SUFFICES ASSUME ReceiveInv, SendInv PROVE QueueHolds
  OBVIOUS
<1>1. ReceiveHolds
  <2>1. /\ rq.cap \in Nat /\ rq.size \in Nat /\ MaxGrow \in Nat
        /\ taken <= rq.i /\ rq.i <= rq.len /\ rq.len <= rq.cap
        /\ rq.cap <= rq.size /\ rq.size <= MaxGrow
    BY WebsockAssumption DEF ReceiveInv, IsQueue
  <2>2. ~lost => \A k \in rq.i - taken .. rq.len - 1 : rq.arr[k] = received - (rq.len - k)
    BY DEF ReceiveInv, Holds
  <2>3. rq.cap <= MaxGrow
    BY <2>1
  <2> QED
    BY <2>1, <2>2, <2>3 DEF ReceiveHolds
<1>2. SendHolds
  BY DEF SendInv, SendHolds, Run
<1> QED
  BY <1>1, <1>2 DEF QueueHolds

-----------------------------------------------------------------------------
(***************************************************************************)
(* websock.js 98-364: whatever sizes messages and payloads have, and       *)
(* however the queues are compacted, grown, read and flushed, the receive  *)
(* queue holds the end of what came and the send queue what was pushed.    *)
(***************************************************************************)
THEOREM QueuesKept == WebsockSpec => []QueueHolds
<1>1. WebsockInit => ReceiveInv /\ SendInv
  BY ReceiveStarts, SendStarts
<1>2. (ReceiveInv /\ SendInv) /\ [WebsockNext]_websockVars => (ReceiveInv /\ SendInv)'
  BY ReceiveQueueStep, SendStep
<1> QED
  BY <1>1, <1>2, QueueFromInv, PTL DEF WebsockSpec

(***************************************************************************)
(* websock.js 312-364: a message is lost only when it and what is unread   *)
(* exceed MAX_RQ_GROW_SIZE, never because the array was not made longer.   *)
(***************************************************************************)
THEOREM LossNeedsLimit == WebsockSpec => LostAtLimit
<1> DEFINE AtLimit == lost' /\ ~lost => Unread(rq) + (received' - received) > MaxGrow
<1>1. ReceiveInv /\ [WebsockNext]_websockVars => [AtLimit]_websockVars
  <2> SUFFICES ASSUME ReceiveInv, [WebsockNext]_websockVars PROVE AtLimit
    OBVIOUS
  <2>1. ASSUME NEW n \in Sizes, RecvMessage(n)
        PROVE  AtLimit
    <3>1. received' - received = n
      BY <2>1, WebsockAssumption DEF RecvMessage, ReceiveInv
    <3>2. lost' /\ ~lost => Unread(rq) + n > MaxGrow
      BY <2>1, RecvMessageKeeps
    <3> QED  BY <3>1, <3>2
  <2>2. CASE UNCHANGED lost
    BY <2>2
  <2>3. UNCHANGED lost \/ \E n \in Sizes : RecvMessage(n)
    BY Halves DEF receiveVars, Shift, GoBack, HandlerReturns
  <2> QED
    BY <2>1, <2>2, <2>3
<1>2. WebsockInit => ReceiveInv
  BY ReceiveStarts
<1> QED
  BY <1>1, <1>2, ReceiveQueueStep, PTL DEF WebsockSpec, LostAtLimit

-----------------------------------------------------------------------------
(* The viewport. *)
Views == [x : Int, y : Int, w : Nat, h : Nat]

Small(v, f) == v.w <= f.w /\ v.h <= f.h

Inside(v, f, clipping) ==
  /\ v \in Views
  /\ v.x >= 0 /\ v.x + v.w <= f.w
  /\ v.y >= 0 /\ v.y + v.h <= f.h
  /\ ~clipping => v.w = f.w /\ v.h = f.h

ViewInv ==
  /\ ViewportTypeOK
  /\ Inside(vp, fb, clip)
  /\ clip = Clips(clipViewport, scaleViewport)

-----------------------------------------------------------------------------
(* Place keeps an axis no longer than the picture within it. *)
LEMMA PlaceInside ==
  \A pos, by \in Int, len, full \in Nat :
    len <= full =>
      LET p == Place(pos, len, full, by) IN p \in Int /\ p >= 0 /\ p + len <= full
BY DEF Place

(* viewportChangePos: so does it with both axes, and the size is kept. *)
LEMMA ChangePosInside ==
  \A v \in Views, f \in Pairs(Nat), c \in BOOLEAN, dx, dy \in Int :
    Small(v, f) /\ (~c => v.w = f.w /\ v.h = f.h) => Inside(ChangePos(v, f, c, dx, dy), f, c)
<1> SUFFICES ASSUME NEW v \in Views, NEW f \in Pairs(Nat), NEW c \in BOOLEAN,
                    NEW dx \in Int, NEW dy \in Int,
                    Small(v, f), ~c => v.w = f.w /\ v.h = f.h
             PROVE  Inside(ChangePos(v, f, c, dx, dy), f, c)
  OBVIOUS
<1> DEFINE bx == IF c THEN dx ELSE -v.w
           by == IF c THEN dy ELSE -v.h
<1>1. /\ v.x \in Int /\ v.y \in Int /\ v.w \in Nat /\ v.h \in Nat
      /\ f.w \in Nat /\ f.h \in Nat /\ v.w <= f.w /\ v.h <= f.h
  BY DEF Views, Pairs, Small
<1>2. bx \in Int /\ by \in Int
  BY <1>1
<1>3. ChangePos(v, f, c, dx, dy) =
        [v EXCEPT !.x = Place(v.x, v.w, f.w, bx), !.y = Place(v.y, v.h, f.h, by)]
  BY DEF ChangePos
<1> HIDE DEF bx, by
<1>4. /\ Place(v.x, v.w, f.w, bx) \in Int /\ Place(v.x, v.w, f.w, bx) >= 0
      /\ Place(v.x, v.w, f.w, bx) + v.w <= f.w
  BY <1>1, <1>2, PlaceInside
<1>5. /\ Place(v.y, v.h, f.h, by) \in Int /\ Place(v.y, v.h, f.h, by) >= 0
      /\ Place(v.y, v.h, f.h, by) + v.h <= f.h
  BY <1>1, <1>2, PlaceInside
<1> QED
  BY <1>1, <1>3, <1>4, <1>5 DEF Inside, Views

(* viewportChangeSize: the result is inside what was inside, or placed anew. *)
LEMMA ChangeSizeInside ==
  \A v \in Views, f \in Pairs(Nat), c \in BOOLEAN, w, h \in Nat :
    LET u == ChangeSize(v, f, c, w, h) IN
    /\ u \in Views /\ Small(u, f) /\ (~c => u.w = f.w /\ u.h = f.h)
    /\ Inside(v, f, c) => Inside(u, f, c)
<1> SUFFICES ASSUME NEW v \in Views, NEW f \in Pairs(Nat), NEW c \in BOOLEAN,
                    NEW w \in Nat, NEW h \in Nat
             PROVE  LET u == ChangeSize(v, f, c, w, h) IN
                    /\ u \in Views /\ Small(u, f) /\ (~c => u.w = f.w /\ u.h = f.h)
                    /\ Inside(v, f, c) => Inside(u, f, c)
  OBVIOUS
<1> DEFINE nw == IF c THEN Least(w, f.w) ELSE f.w
           nh == IF c THEN Least(h, f.h) ELSE f.h
           sized == [v EXCEPT !.w = nw, !.h = nh]
           u == ChangeSize(v, f, c, w, h)
<1>1. /\ nw \in Nat /\ nh \in Nat /\ nw <= f.w /\ nh <= f.h
      /\ ~c => nw = f.w /\ nh = f.h
  BY DEF Least, Pairs
<1>2. u = IF v.w = nw /\ v.h = nh THEN v ELSE ChangePos(sized, f, c, 0, 0)
  BY DEF ChangeSize
<1>3. sized \in Views /\ sized.w = nw /\ sized.h = nh
  <2> HIDE DEF nw, nh
  <2> QED  BY <1>1 DEF Views
<1>4. CASE v.w = nw /\ v.h = nh
  BY <1>1, <1>2, <1>4 DEF Small
<1>5. CASE ~(v.w = nw /\ v.h = nh)
  <2>1. u = ChangePos(sized, f, c, 0, 0)
    BY <1>2, <1>5
  <2> HIDE DEF nw, nh, sized, u
  <2>2. Small(sized, f) /\ (~c => sized.w = f.w /\ sized.h = f.h)
    BY <1>1, <1>3 DEF Small
  <2>3. Inside(u, f, c)
    BY <1>3, <2>1, <2>2, ChangePosInside
  <2> QED
    BY <2>3 DEF Inside, Small, Views, Pairs, u
<1> QED
  BY <1>4, <1>5

(* The setter of the display, and resize(): inside, whatever it was before. *)
LEMMA ReadjustInside ==
  \A v \in Views, f \in Pairs(Nat), c \in BOOLEAN : Inside(Readjust(v, f, c), f, c)
<1> SUFFICES ASSUME NEW v \in Views, NEW f \in Pairs(Nat), NEW c \in BOOLEAN
             PROVE  Inside(Readjust(v, f, c), f, c)
  OBVIOUS
<1> DEFINE u == ChangeSize(v, f, c, v.w, v.h)
<1>1. v.w \in Nat /\ v.h \in Nat
  BY DEF Views
<1>2. u \in Views /\ Small(u, f) /\ (~c => u.w = f.w /\ u.h = f.h)
  BY <1>1, ChangeSizeInside
<1>3. Readjust(v, f, c) = ChangePos(u, f, c, 0, 0)
  BY DEF Readjust
<1> HIDE DEF u
<1> QED
  BY <1>2, <1>3, ChangePosInside

(* _updateClip keeps the viewport inside while it switches the clipping. *)
LEMMA UpdateClipInside ==
  \A v \in Views, f, sz \in Pairs(Nat), was, now \in BOOLEAN :
    Inside(v, f, was) => Inside(UpdateClip(v, f, was, now, sz), f, now)
<1> SUFFICES ASSUME NEW v \in Views, NEW f \in Pairs(Nat), NEW sz \in Pairs(Nat),
                    NEW was \in BOOLEAN, NEW now \in BOOLEAN, Inside(v, f, was)
             PROVE  Inside(UpdateClip(v, f, was, now, sz), f, now)
  OBVIOUS
<1> DEFINE u == IF was = now THEN v ELSE Readjust(v, f, now)
<1>1. Inside(u, f, now)
  BY ReadjustInside
<1>2. UpdateClip(v, f, was, now, sz) = IF now THEN ChangeSize(u, f, now, sz.w, sz.h) ELSE u
  BY DEF UpdateClip
<1> HIDE DEF u
<1>3. u \in Views /\ sz.w \in Nat /\ sz.h \in Nat
  BY <1>1 DEF Inside, Pairs
<1> QED
  BY <1>1, <1>2, <1>3, ChangeSizeInside

SameSize(u, v) == u.w = v.w /\ u.h = v.h

FitsSize(v, f, c, sz) == c => v.w = Least(sz.w, f.w) /\ v.h = Least(sz.h, f.h)

(* viewportChangePos moves the viewport and never resizes it. *)
LEMMA ChangePosKeepsSize ==
  \A v \in Views, f \in Pairs(Nat), c \in BOOLEAN, dx, dy \in Int :
    SameSize(ChangePos(v, f, c, dx, dy), v)
BY DEF ChangePos, Views, SameSize

(* viewportChangeSize gives a clipped viewport the size of the element, or *)
(* as much of it as the picture has.                                       *)
LEMMA ChangeSizeFits ==
  \A v \in Views, f, sz \in Pairs(Nat), c \in BOOLEAN :
    FitsSize(ChangeSize(v, f, c, sz.w, sz.h), f, c, sz)
<1> SUFFICES ASSUME NEW v \in Views, NEW f \in Pairs(Nat), NEW sz \in Pairs(Nat),
                    NEW c \in BOOLEAN
             PROVE  FitsSize(ChangeSize(v, f, c, sz.w, sz.h), f, c, sz)
  OBVIOUS
<1> DEFINE nw == Least(sz.w, f.w)
           nh == Least(sz.h, f.h)
           sized == [v EXCEPT !.w = nw, !.h = nh]
           u == ChangeSize(v, f, c, sz.w, sz.h)
<1>1. nw \in Nat /\ nh \in Nat
  BY DEF Least, Pairs
<1>2. c => u = IF v.w = nw /\ v.h = nh THEN v ELSE ChangePos(sized, f, c, 0, 0)
  BY DEF ChangeSize
<1> HIDE DEF nw, nh, u
<1>3. sized \in Views /\ sized.w = nw /\ sized.h = nh
  BY <1>1 DEF Views
<1> HIDE DEF sized
<1>4. SameSize(ChangePos(sized, f, c, 0, 0), sized)
  BY <1>3, ChangePosKeepsSize
<1>5. c => u.w = nw /\ u.h = nh
  BY <1>2, <1>3, <1>4 DEF SameSize
<1> QED
  BY <1>5 DEF nw, nh, u, FitsSize

(* So a viewport that _updateClip leaves clipped fits the element. *)
LEMMA UpdateClipFits ==
  \A v \in Views, f, sz \in Pairs(Nat), was, now \in BOOLEAN :
    Inside(v, f, was) => FitsSize(UpdateClip(v, f, was, now, sz), f, now, sz)
<1> SUFFICES ASSUME NEW v \in Views, NEW f \in Pairs(Nat), NEW sz \in Pairs(Nat),
                    NEW was \in BOOLEAN, NEW now \in BOOLEAN, Inside(v, f, was), now
             PROVE  FitsSize(UpdateClip(v, f, was, now, sz), f, now, sz)
  BY DEF FitsSize
<1> DEFINE u == IF was = now THEN v ELSE Readjust(v, f, now)
<1>1. u \in Views
  BY ReadjustInside DEF Inside
<1>2. UpdateClip(v, f, was, now, sz) = ChangeSize(u, f, now, sz.w, sz.h)
  BY DEF UpdateClip
<1> HIDE DEF u
<1>3. FitsSize(ChangeSize(u, f, now, sz.w, sz.h), f, now, sz)
  BY <1>1, ChangeSizeFits
<1> QED
  BY <1>2, <1>3

-----------------------------------------------------------------------------
(* The constants hold sizes and moves. *)
LEMMA Sized ==
  /\ \A f \in Pairs(FbSizes) : f \in Pairs(Nat)
  /\ \A sz \in Pairs(ScreenSizes) : sz \in Pairs(Nat)
  /\ \A d \in Pans : d \in Int
BY ViewportAssumption DEF Pairs

(* At the start there is no picture, and no viewport. *)
LEMMA ViewStarts == ViewportInit => ViewInv
<1> SUFFICES ASSUME ViewportInit PROVE ViewInv
  OBVIOUS
<1>1. /\ fb = [w |-> 0, h |-> 0] /\ vp = [x |-> 0, y |-> 0, w |-> 0, h |-> 0]
      /\ clip = FALSE /\ clipViewport = FALSE /\ scaleViewport = FALSE
      /\ scaledTo = [w |-> 0, h |-> 0] /\ expected = size
      /\ frame = FALSE /\ ignored = FALSE
  BY DEF ViewportInit, Unscaled
<1>2. size \in Pairs(Nat)
  BY Sized DEF ViewportInit
<1>3. /\ fb \in Pairs(Nat) /\ fb.w = 0 /\ fb.h = 0 /\ scaledTo \in Pairs(Nat)
      /\ vp \in Views /\ vp.x = 0 /\ vp.y = 0 /\ vp.w = 0 /\ vp.h = 0
  BY <1>1 DEF Pairs, Views
<1>4. /\ clip \in BOOLEAN /\ clipViewport \in BOOLEAN /\ scaleViewport \in BOOLEAN
      /\ frame \in BOOLEAN /\ ignored \in BOOLEAN
      /\ clip = Clips(clipViewport, scaleViewport)
  BY <1>1, Zenon DEF Clips
<1>5. ViewportTypeOK
  BY <1>1, <1>2, <1>3, <1>4 DEF ViewportTypeOK, Views
<1>6. Inside(vp, fb, clip)
  BY <1>3 DEF Inside
<1> QED
  BY <1>4, <1>5, <1>6 DEF ViewInv

(* What _updateClip and _updateScale leave satisfies the invariant. *)
LEMMA RefitKeeps ==
  ASSUME ViewInv, NEW v \in Views, NEW f \in Pairs(Nat), Inside(v, f, clip),
         fb' = f, Refit(v, f, clip, clipViewport, scaleViewport, size),
         UNCHANGED <<clipViewport, scaleViewport, size>>,
         expected' \in Pairs(Nat), frame' \in BOOLEAN, ignored' \in BOOLEAN
  PROVE  ViewInv'
<1>1. /\ vp' = UpdateClip(v, f, clip, clip', size)
      /\ clip' = Clips(clipViewport, scaleViewport)
      /\ scaledTo' = IF scaleViewport THEN size ELSE Unscaled
      /\ clip \in BOOLEAN /\ size \in Pairs(Nat)
      /\ clipViewport \in BOOLEAN /\ scaleViewport \in BOOLEAN
  BY DEF Refit, ViewInv, ViewportTypeOK
<1>2. clip' \in BOOLEAN
  BY <1>1 DEF Clips
<1>3. Inside(vp', fb', clip')
  BY <1>1, <1>2, UpdateClipInside
<1>4. scaledTo' \in Pairs(Nat)
  BY <1>1 DEF Unscaled, Pairs
<1>5. vp' \in [x : Int, y : Int, w : Nat, h : Nat]
  BY <1>3 DEF Inside, Views
<1>6. ViewportTypeOK'
  BY <1>1, <1>2, <1>4, <1>5 DEF ViewportTypeOK
<1> QED
  BY <1>1, <1>3, <1>6 DEF ViewInv

(* Each step keeps the invariant. *)
LEMMA ViewStep == ViewInv /\ [ViewportNext]_viewportVars => ViewInv'
<1> SUFFICES ASSUME ViewInv, [ViewportNext]_viewportVars PROVE ViewInv'
  OBVIOUS
<1>1. /\ ViewportTypeOK /\ Inside(vp, fb, clip) /\ vp \in Views
      /\ clip = Clips(clipViewport, scaleViewport)
      /\ fb \in Pairs(Nat) /\ size \in Pairs(Nat) /\ clip \in BOOLEAN
      /\ clipViewport \in BOOLEAN /\ scaleViewport \in BOOLEAN
  BY DEF ViewInv, ViewportTypeOK, Inside
<1>2. ASSUME NEW on \in BOOLEAN, SetClipViewport(on)
      PROVE  ViewInv'
  <2>1. /\ clipViewport' = on /\ clip' = Clips(on, scaleViewport)
        /\ vp' = UpdateClip(vp, fb, clip, clip', size) /\ fb' = fb
        /\ expected' = (IF clip' # clip THEN size ELSE expected)
        /\ ignored' = (ignored /\ ~clip')
        /\ UNCHANGED <<size, frame, scaleViewport, scaledTo>>
    BY <1>2 DEF SetClipViewport, Saved, Setting
  <2>2. clip' \in BOOLEAN
    BY <1>1, <2>1 DEF Clips
  <2>3. Inside(vp', fb', clip')
    BY <1>1, <2>1, <2>2, UpdateClipInside
  <2>4. ViewportTypeOK'
    BY <1>1, <2>1, <2>2, <2>3 DEF ViewportTypeOK, Inside, Views
  <2> QED
    BY <2>1, <2>3, <2>4 DEF ViewInv
<1>3. ASSUME NEW on \in BOOLEAN, SetScaleViewport(on)
      PROVE  ViewInv'
  <2>1. /\ scaleViewport' = on /\ fb' = fb /\ ignored' = FALSE
        /\ scaledTo' = (IF on THEN size ELSE Unscaled)
        /\ expected' = (IF clip' # clip THEN size ELSE expected)
        /\ UNCHANGED <<size, frame, clipViewport>>
    BY <1>3 DEF SetScaleViewport, Saved, Setting
  <2>2. Inside(vp', fb', clip') /\ clip' \in BOOLEAN /\ clip' = Clips(clipViewport, on)
    <3>1. CASE clipViewport
      <4>1. vp' = UpdateClip(vp, fb, clip, ~on, size) /\ clip' = ~on
        BY <1>3, <3>1 DEF SetScaleViewport
      <4> QED
        BY <1>1, <2>1, <3>1, <4>1, UpdateClipInside DEF Clips
    <3>2. CASE ~clipViewport
      <4>1. vp' = vp /\ clip' = clip
        BY <1>3, <3>2 DEF SetScaleViewport
      <4> QED
        BY <1>1, <2>1, <3>2, <4>1 DEF Clips
    <3> QED  BY <3>1, <3>2
  <2>3. ViewportTypeOK'
    BY <1>1, <2>1, <2>2 DEF ViewportTypeOK, Inside, Views, Unscaled, Pairs
  <2> QED
    BY <2>1, <2>2, <2>3 DEF ViewInv
<1>4. ASSUME NEW f \in Pairs(FbSizes), ServerResize(f)
      PROVE  ViewInv'
  <2>1. f \in Pairs(Nat)
    BY Sized
  <2>2. Inside(Resized(f), f, clip) /\ Resized(f) \in Views
    BY <1>1, <2>1, ReadjustInside DEF Resized, Inside
  <2>3. /\ fb' = f /\ Refit(Resized(f), f, clip, clipViewport, scaleViewport, size)
        /\ UNCHANGED <<clipViewport, scaleViewport, size>>
        /\ expected' = size /\ ignored' = FALSE /\ frame' = frame
    BY <1>4 DEF ServerResize
  <2>4. frame' \in BOOLEAN /\ ignored' \in BOOLEAN /\ expected' \in Pairs(Nat)
    BY <1>1, <2>3 DEF ViewportTypeOK
  <2> QED
    BY <2>1, <2>2, <2>3, <2>4, RefitKeeps
<1>5. ASSUME NEW sz \in Pairs(ScreenSizes), HandleResize(sz)
      PROVE  ViewInv'
  <2>1. /\ size' = sz /\ frame' \in BOOLEAN /\ ignored' \in BOOLEAN
        /\ UNCHANGED <<fb, vp, clip, scaledTo, clipViewport, scaleViewport, expected>>
    BY <1>1, <1>5 DEF HandleResize, viewVars, ViewportTypeOK
  <2> QED
    BY <1>1, <2>1, Sized DEF ViewInv, ViewportTypeOK
<1>6. CASE AnimationFrame
  <2>1. /\ fb' = fb /\ Refit(vp, fb, clip, clipViewport, scaleViewport, size)
        /\ UNCHANGED <<clipViewport, scaleViewport, size>>
        /\ expected' = (IF clip' # clip THEN size ELSE expected)
        /\ ignored' = FALSE /\ frame' = FALSE
    BY <1>6 DEF AnimationFrame, Saved
  <2>2. frame' \in BOOLEAN /\ ignored' \in BOOLEAN /\ expected' \in Pairs(Nat)
    BY <1>1, <2>1 DEF ViewportTypeOK
  <2> QED
    BY <1>1, <2>1, <2>2, RefitKeeps
<1>7. ASSUME NEW dx \in Pans, NEW dy \in Pans, Pan(dx, dy)
      PROVE  ViewInv'
  <2>1. /\ vp' = ChangePos(vp, fb, clip, dx, dy)
        /\ UNCHANGED <<fb, clip, scaledTo, clipViewport, scaleViewport, size, expected,
                       frame, ignored>>
    BY <1>7 DEF Pan
  <2>2. Small(vp, fb) /\ (~clip => vp.w = fb.w /\ vp.h = fb.h)
    BY <1>1 DEF Small, Inside, Views, Pairs
  <2>3. Inside(vp', fb', clip')
    BY <1>1, <2>1, <2>2, Sized, ChangePosInside
  <2> QED
    BY <1>1, <2>1, <2>3 DEF ViewInv, ViewportTypeOK, Inside, Views
<1>8. CASE UNCHANGED viewportVars
  BY <1>1, <1>8 DEF viewportVars, viewVars, ViewInv, ViewportTypeOK
<1> QED
  BY <1>2, <1>3, <1>4, <1>5, <1>6, <1>7, <1>8 DEF ViewportNext

-----------------------------------------------------------------------------
(***************************************************************************)
(* What fits.  ViewFits alone is not inductive: switching clipping on      *)
(* forgets that a change of size was ignored, and is right to only because *)
(* a picture that is not scaled has no scale left.                         *)
(***************************************************************************)
FitInv == ViewInv /\ ViewFits /\ (~scaleViewport => scaledTo = Unscaled)

(* At the start nothing clips and nothing is scaled. *)
LEMMA FitStarts == ViewportInit => FitInv
BY ViewStarts DEF ViewportInit, FitInv, ViewFits

(* What _updateClip and _updateScale leave fits. *)
LEMMA RefitFits ==
  ASSUME ViewInv, NEW v \in Views, NEW f \in Pairs(Nat), Inside(v, f, clip),
         fb' = f, Refit(v, f, clip, clipViewport, scaleViewport, size),
         UNCHANGED <<clipViewport, scaleViewport, size>>
  PROVE  ViewFits' /\ (~scaleViewport => scaledTo = Unscaled)'
<1>1. /\ vp' = UpdateClip(v, f, clip, clip', size)
      /\ clip' = Clips(clipViewport, scaleViewport)
      /\ scaledTo' = IF scaleViewport THEN size ELSE Unscaled
      /\ clip \in BOOLEAN /\ size \in Pairs(Nat)
      /\ clipViewport \in BOOLEAN /\ scaleViewport \in BOOLEAN
  BY DEF Refit, ViewInv, ViewportTypeOK
<1>2. clip' \in BOOLEAN
  BY <1>1 DEF Clips
<1>3. FitsSize(vp', fb', clip', size')
  BY <1>1, <1>2, UpdateClipFits
<1> QED
  BY <1>1, <1>3 DEF ViewFits, FitsSize

(* Each step keeps what fits. *)
LEMMA FitStep == FitInv /\ [ViewportNext]_viewportVars => FitInv'
<1> SUFFICES ASSUME FitInv, [ViewportNext]_viewportVars
             PROVE  ViewFits' /\ (~scaleViewport => scaledTo = Unscaled)'
  BY ViewStep DEF FitInv
<1>1. /\ ViewInv /\ ViewFits /\ (~scaleViewport => scaledTo = Unscaled)
      /\ Inside(vp, fb, clip) /\ vp \in Views
      /\ clip = Clips(clipViewport, scaleViewport)
      /\ fb \in Pairs(Nat) /\ size \in Pairs(Nat) /\ clip \in BOOLEAN
      /\ clipViewport \in BOOLEAN /\ scaleViewport \in BOOLEAN
      /\ frame \in BOOLEAN /\ ignored \in BOOLEAN
  BY DEF FitInv, ViewInv, ViewportTypeOK, Inside
<1>2. ASSUME NEW on \in BOOLEAN, SetClipViewport(on)
      PROVE  ViewFits' /\ (~scaleViewport => scaledTo = Unscaled)'
  <2>1. /\ clip' = Clips(on, scaleViewport)
        /\ vp' = UpdateClip(vp, fb, clip, clip', size)
        /\ ignored' = (ignored /\ ~clip')
        /\ UNCHANGED <<fb, size, frame, scaleViewport, scaledTo>>
    BY <1>2 DEF SetClipViewport, Setting
  <2>2. clip' \in BOOLEAN
    BY <1>1, <2>1 DEF Clips
  <2>3. FitsSize(UpdateClip(vp, fb, clip, clip', size), fb, clip', size)
    BY <1>1, <2>2, UpdateClipFits
  <2>4. clip' => ~scaleViewport /\ scaledTo = Unscaled
    BY <1>1, <2>1 DEF Clips
  <2> QED
    BY <1>1, <2>1, <2>2, <2>3, <2>4 DEF ViewFits, FitsSize
<1>3. ASSUME NEW on \in BOOLEAN, SetScaleViewport(on)
      PROVE  ViewFits' /\ (~scaleViewport => scaledTo = Unscaled)'
  <2>1. /\ scaleViewport' = on /\ scaledTo' = (IF on THEN size ELSE Unscaled)
        /\ UNCHANGED <<fb, size, frame>>
    BY <1>3 DEF SetScaleViewport, Setting
  <2>2. FitsSize(vp', fb', clip', size')
    <3>1. CASE clipViewport
      <4>1. vp' = UpdateClip(vp, fb, clip, ~on, size) /\ clip' = ~on
        BY <1>3, <3>1 DEF SetScaleViewport
      <4>2. clip' \in BOOLEAN
        BY <4>1
      <4>3. FitsSize(UpdateClip(vp, fb, clip, clip', size), fb, clip', size)
        BY <1>1, <4>2, UpdateClipFits
      <4> QED
        BY <2>1, <4>1, <4>3
    <3>2. CASE ~clipViewport
      <4>1. clip' = clip /\ ~clip
        BY <1>1, <1>3, <3>2 DEF SetScaleViewport, Clips
      <4> QED
        BY <4>1 DEF FitsSize
    <3> QED  BY <3>1, <3>2
  <2> QED
    BY <2>1, <2>2 DEF ViewFits, FitsSize
<1>4. ASSUME NEW f \in Pairs(FbSizes), ServerResize(f)
      PROVE  ViewFits' /\ (~scaleViewport => scaledTo = Unscaled)'
  <2>1. f \in Pairs(Nat)
    BY Sized
  <2>2. Inside(Resized(f), f, clip) /\ Resized(f) \in Views
    BY <1>1, <2>1, ReadjustInside DEF Resized, Inside
  <2>3. /\ fb' = f /\ Refit(Resized(f), f, clip, clipViewport, scaleViewport, size)
        /\ UNCHANGED <<clipViewport, scaleViewport, size>>
    BY <1>4 DEF ServerResize
  <2> QED
    BY <1>1, <2>1, <2>2, <2>3, RefitFits
<1>5. ASSUME NEW sz \in Pairs(ScreenSizes), HandleResize(sz)
      PROVE  ViewFits' /\ (~scaleViewport => scaledTo = Unscaled)'
  <2>1. /\ frame' \/ ignored'
        /\ UNCHANGED <<scaledTo, scaleViewport>>
    BY <1>5 DEF HandleResize, viewVars
  <2> QED
    BY <1>1, <2>1 DEF ViewFits
<1>6. CASE AnimationFrame
  <2>1. /\ fb' = fb /\ Refit(vp, fb, clip, clipViewport, scaleViewport, size)
        /\ UNCHANGED <<clipViewport, scaleViewport, size>>
    BY <1>6 DEF AnimationFrame
  <2> QED
    BY <1>1, <2>1, RefitFits
<1>7. ASSUME NEW dx \in Pans, NEW dy \in Pans, Pan(dx, dy)
      PROVE  ViewFits' /\ (~scaleViewport => scaledTo = Unscaled)'
  <2>1. /\ vp' = ChangePos(vp, fb, clip, dx, dy)
        /\ UNCHANGED <<fb, clip, scaledTo, scaleViewport, size, frame, ignored>>
    BY <1>7 DEF Pan
  <2>2. SameSize(vp', vp)
    BY <1>1, <2>1, Sized, ChangePosKeepsSize
  <2> QED
    BY <1>1, <2>1, <2>2 DEF ViewFits, SameSize
<1>8. CASE UNCHANGED viewportVars
  BY <1>1, <1>8 DEF viewportVars, viewVars, ViewFits
<1> QED
  BY <1>2, <1>3, <1>4, <1>5, <1>6, <1>7, <1>8 DEF ViewportNext

-----------------------------------------------------------------------------
(***************************************************************************)
(* display.js 74-221 and rfb.js 704-787: in whatever order the server, the *)
(* browser and the user resize, switch and drag, the viewport stays inside *)
(* the picture and is all of it unless it clips, and it clips exactly when *)
(* it is told to and does not scale.                                       *)
(***************************************************************************)
THEOREM ViewStaysInside == ViewportSpec => []ViewInside
<1>1. ViewInv => ViewInside
  BY DEF ViewInv, Inside, ViewInside
<1> QED
  BY <1>1, ViewStarts, ViewStep, PTL DEF ViewportSpec

(***************************************************************************)
(* rfb.js 704-787: once the page has drawn a frame, a clipped viewport is  *)
(* as large as the element and the picture allow and a scaled picture is   *)
(* scaled to the element, whatever was resized and switched before; the    *)
(* one exception is the change of size that _handleResize ignores.         *)
(***************************************************************************)
THEOREM ViewFitsElement == ViewportSpec => []ViewFits
<1>1. FitInv => ViewFits
  BY DEF FitInv
<1> QED
  BY <1>1, FitStarts, FitStep, PTL DEF ViewportSpec

-----------------------------------------------------------------------------
(***************************************************************************)
(* The whole.  The queues and the viewport are nobody else's, so that what *)
(* holds of them alone holds beside the others; the stream belongs to the  *)
(* session up to its end, or to the updates of a connected one.            *)
(***************************************************************************)
MCInv ==
  /\ part \in {"session", "updates", "receive", "send", "viewport"}
  /\ SessionTypeOK /\ UpdatesTypeOK
  /\ ReceiveInv /\ SendInv /\ ViewInv
  /\ IF part = "session" THEN Handshake ELSE UInv /\ ScreenInv

(* A step of the whole is one of each part, or leaves it alone. *)
LEMMA MCStep ==
  ASSUME [MCNext]_MCVars
  PROVE  /\ UNCHANGED part
         /\ [WebsockNext]_websockVars /\ [ViewportNext]_viewportVars
         /\ part = "session" => [SessionNext]_sessionVars /\ UNCHANGED ownUpdates
         /\ part # "session" => [UpdatesNext]_updatesVars /\ UNCHANGED ownSession
<1>1. CASE SessionPart
  BY <1>1 DEF SessionPart
<1>2. CASE UpdatesPart
  BY <1>2 DEF UpdatesPart
<1>3. ASSUME UNCHANGED <<part, sessionVars, ownUpdates>>
      PROVE  UNCHANGED updatesVars /\ UNCHANGED ownSession
  BY <1>3 DEF sessionVars, ownSession, ownUpdates, updatesVars
<1>4. CASE ReceivePart \/ SendPart
  BY <1>3, <1>4 DEF ReceivePart, SendPart, WebsockNext
<1>5. CASE ViewportPart
  BY <1>3, <1>5 DEF ViewportPart
<1>6. CASE UNCHANGED MCVars
  BY <1>3, <1>6 DEF MCVars
<1> QED
  BY <1>1, <1>2, <1>4, <1>5, <1>6 DEF MCNext

(* Each part starts as it does alone. *)
LEMMA MCStarts == MCInit => MCInv
<1> SUFFICES ASSUME MCInit PROVE MCInv
  OBVIOUS
<1>1. /\ SessionInit /\ UpdatesInit /\ WebsockInit /\ ViewportInit
      /\ part \in {"session", "updates", "receive", "send", "viewport"}
  BY DEF MCInit
<1>2. Handshake /\ UInv /\ ScreenInv /\ ReceiveInv /\ SendInv /\ ViewInv
  BY <1>1, HandshakeStart, UpdatesStart, ScreenStarts, ReceiveStarts, SendStarts, ViewStarts
<1>3. SessionTypeOK /\ UpdatesTypeOK
  BY <1>2, HandshakeTyped, UpdatesAreTyped DEF UInv
<1> QED
  BY <1>1, <1>2, <1>3 DEF MCInv

(* A step of one part keeps what holds of it, and the types of the others. *)
LEMMA MCKeeps == MCInv /\ [MCNext]_MCVars => MCInv'
<1> SUFFICES ASSUME MCInv, [MCNext]_MCVars PROVE MCInv'
  OBVIOUS
<1>1. UNCHANGED part /\ [WebsockNext]_websockVars /\ [ViewportNext]_viewportVars
  BY MCStep
<1>2. ReceiveInv' /\ SendInv' /\ ViewInv'
  BY <1>1, ReceiveQueueStep, SendStep, ViewStep DEF MCInv
<1>3. CASE part = "session"
  <2>1. [SessionNext]_sessionVars /\ UNCHANGED ownUpdates
    BY <1>3, MCStep
  <2>2. Handshake'
    BY <1>3, <2>1, HandshakeStep DEF MCInv
  <2>3. SessionTypeOK'
    BY <2>2, HandshakeTyped, PTL
  <2>4. UpdatesTypeOK'
    BY <2>1 DEF MCInv, UpdatesTypeOK, ownUpdates
  <2> QED
    BY <1>1, <1>2, <1>3, <2>2, <2>3, <2>4 DEF MCInv
<1>4. CASE part # "session"
  <2>1. [UpdatesNext]_updatesVars /\ UNCHANGED ownSession
    BY <1>4, MCStep
  <2>2. UInv' /\ ScreenInv'
    BY <1>4, <2>1, UpdatesKept, ScreenStep DEF MCInv
  <2>3. UpdatesTyped'
    BY <2>2 DEF UInv
  <2>4. UpdatesTypeOK'
    BY <2>3, UpdatesAreTyped, PTL
  <2>5. misread' \in BOOLEAN /\ run' \in {"idle", "loop", "once"}
    BY <2>3 DEF UpdatesTyped
  <2>6. SessionTypeOK'
    BY <2>1, <2>5 DEF MCInv, SessionTypeOK, ownSession, authVars
  <2> QED
    BY <1>1, <1>2, <1>4, <2>2, <2>4, <2>6 DEF MCInv
<1> QED
  BY <1>3, <1>4

(* The fields of the whole stream's state have their types. *)
THEOREM StreamTyped == MCSpec => []StreamTypeOK
<1>1. MCInv => StreamTypeOK
  <2>1. ReceiveInv /\ SendInv => WebsockTypeOK
    BY DEF ReceiveInv, IsQueue, SendInv, SendType, WebsockTypeOK
  <2>2. ViewInv => ViewportTypeOK
    BY DEF ViewInv
  <2> QED
    BY <2>1, <2>2 DEF MCInv, StreamTypeOK
<1> QED
  BY <1>1, MCStarts, MCKeeps, PTL DEF MCSpec

(***************************************************************************)
(* For every server and however the network cuts the stream: from its      *)
(* first byte to the end of the session, no field is read as another one   *)
(* or before it has come, but for the data that a handler is known to      *)
(* leave behind.                                                           *)
(***************************************************************************)
THEOREM StaysInStep == MCSpec => []InStep
<1>1. Handshake => HandshakeInStep
  BY DEF Handshake, MisreadOver, HandshakeInStep
<1>2. UInv => UpdatesInStep
  BY DEF UInv, Aligned, UpdatesInStep
<1>3. MCInv => InStep
  BY <1>1, <1>2 DEF MCInv, InStep
<1> QED
  BY <1>3, MCStarts, MCKeeps, PTL DEF MCSpec

(***************************************************************************)
(* For every server: client and server never wait for each other, from the *)
(* first message of the handshake to the last update.                      *)
(***************************************************************************)
THEOREM NothingHangs == MCSpec => []NeverHangs
<1>1. MCInv => NeverHangs
  BY NobodyHangs, NobodyStarves DEF MCInv, NeverHangs
<1> QED
  BY <1>1, MCStarts, MCKeeps, PTL DEF MCSpec
=============================================================================
