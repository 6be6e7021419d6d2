------------------------- MODULE StatusServerProofs -------------------------
(***************************************************************************)
(* Proofs about the dashboard server, for any set of handler threads, any  *)
(* ids, reports and images.  The argument: whoever is between load and     *)
(* release holds LOCK (Exclusive), so the list it loaded and the temporary *)
(* file it writes stay its own (NoLostUpdate), so moving that file into    *)
(* place is one atomic edit of the board (AtomicBoard).  Then the lists:   *)
(* an insertion into a sorted list of distinct ids, and a removal from it, *)
(* leave one, so every list a handler holds or writes is sorted.           *)
(***************************************************************************)
EXTENDS StatusServer, FiniteSetTheorems, WellFoundedInduction, TLAPS

(***************************************************************************)
(* The shape of the state the proofs need: functions on the threads, known *)
(* program counters, and at each of them the kind of request it serves.    *)
(***************************************************************************)
Shape ==
  /\ pc \in [Threads -> PCs]
  /\ req = [t \in Threads |-> req[t]]
  /\ doc = [t \in Threads |-> doc[t]]

Serving(t) ==
  /\ pc[t] = "idle" => req[t] = NoRequest
  /\ pc[t] # "idle" => req[t] \in BoardRequests \union ImageRequests
  /\ pc[t] = "parse" => req[t].op = "state"
  /\ pc[t] \in {"edit", "dump", "replace", "release"} => req[t].op \in {"state", "remove"}
  /\ pc[t] \in {"lock", "load"} => req[t].op \in {"state", "remove", "status"}
  /\ pc[t] = "send" => req[t].op = "status"
  /\ pc[t] \in {"open", "body", "read"} => req[t].op \in {"shot", "png"}
  /\ pc[t] = "reply" => req[t].op \in {"state", "remove", "shot", "png"}

Exclusive == \A t \in Threads : pc[t] \in Inside <=> lock = t

Stored == status = Absent \/ status = Json(status.vms)

IndInv == Shape /\ (\A t \in Threads : Serving(t)) /\ Exclusive /\ NoLostUpdate /\ Stored

-----------------------------------------------------------------------------
\* Which requests are the board's and which are about pictures.
LEMMA RequestKinds ==
  /\ \A r \in BoardRequests : r.op \in {"state", "remove", "status"}
  /\ \A r \in ImageRequests : r.op \in {"shot", "png"}
  /\ NoRequest.op = "none"
BY DEF BoardRequests, ImageRequests, NoRequest

\* load() gives back what json.dump wrote, and an empty list for no file.
LEMMA LoadJson == Load(Absent) = <<>> /\ \A vms : Load(Json(vms)) = vms
BY DEF Load, Absent, Json

\* A server just started over no file satisfies IndInv.
LEMMA InitInv == Init => IndInv
BY ThreadsAssumption DEF Init, IndInv, Shape, Serving, Exclusive, NoLostUpdate,
   Stored, PCs, Inside

\* A request that reaches an idle thread keeps IndInv: do_GET, do_PUT, do_POST begin.
LEMMA ReceiveInv ==
  ASSUME IndInv, NEW t \in Threads, NEW r \in BoardRequests \union ImageRequests,
         Receive(t, r)
  PROVE  IndInv'
<1>1. r.op \in {"state", "remove", "status", "shot", "png"}
  BY RequestKinds
<1>2. pc'[t] \in {"parse", "lock", "open", "read"}
  BY <1>1 DEF IndInv, Shape, Receive, Goto
<1> QED
  BY <1>1, <1>2 DEF IndInv, Shape, Serving, Exclusive, NoLostUpdate, Stored,
     Receive, Goto, lockVars, PCs, Inside

(***************************************************************************)
(* A handler that ends: it serves nothing any more.                        *)
(***************************************************************************)
LEMMA FinishServing ==
  ASSUME IndInv, NEW t \in Threads, NEW from \in PCs, Finish(t, from)
  PROVE  Shape' /\ \A u \in Threads : Serving(u)'
BY DEF IndInv, Shape, Serving, Finish, Goto, PCs

(* It may leave the lock with the file as it found it: save() failed, or   *)
(* there was nothing to save.                                              *)
LEMMA LeaveInv ==
  ASSUME IndInv, NEW t \in Threads, NEW from \in Inside, Finish(t, from),
         lock' = NoThread, UNCHANGED <<status, tmp>>
  PROVE  IndInv'
<1>1. from \in PCs
  BY DEF Inside, PCs
<1>2. Shape' /\ \A u \in Threads : Serving(u)'
  BY <1>1, FinishServing
<1>3. /\ pc[t] = from /\ pc'[t] = "idle"
      /\ \A u \in Threads \ {t} : pc'[u] = pc[u] /\ req'[u] = req[u] /\ doc'[u] = doc[u]
  BY DEF IndInv, Shape, Finish, Goto
<1>4. lock = t /\ \A u \in Threads \ {t} : pc[u] \notin Inside
  BY <1>3 DEF IndInv, Exclusive
<1>5. Exclusive'
  BY <1>3, <1>4, ThreadsAssumption DEF Exclusive, Inside
<1>6. NoLostUpdate'
  <2>1. \A u \in Threads : pc'[u] \notin {"edit", "dump", "replace"}
    BY <1>3, <1>4 DEF Inside
  <2> QED
    BY <2>1 DEF NoLostUpdate
<1>7. Stored'
  BY DEF IndInv, Stored
<1> QED
  BY <1>2, <1>5, <1>6, <1>7 DEF IndInv

(***************************************************************************)
(* Every step of a handler keeps the invariant.                            *)
(***************************************************************************)
LEMMA StepInv ==
  ASSUME IndInv, NEW t \in Threads, Step(t)
  PROVE  IndInv'
<1> USE ThreadsAssumption DEF IndInv, Shape, Serving, Exclusive, NoLostUpdate, Stored,
        Goto, lockVars, shotVars, PCs, Inside
<1>1. CASE Parse(t)
  BY <1>1 DEF Parse
<1>2. CASE ParseFails(t)
  BY <1>2, FinishServing DEF ParseFails, Finish
<1>3. CASE Acquire(t)
  BY <1>3 DEF Acquire
<1>4. CASE LoadStatus(t)
  BY <1>4 DEF LoadStatus
<1>5. CASE SendStatus(t)
  <2>1. Finish(t, "send") /\ lock' = NoThread /\ UNCHANGED <<status, tmp>> /\ "send" \in Inside
    BY <1>5 DEF SendStatus
  <2> QED
    BY <2>1, LeaveInv
<1>6. CASE OpenTmp(t)
  BY <1>6 DEF OpenTmp
<1>7. CASE Dump(t)
  BY <1>7 DEF Dump
<1>8. CASE DumpFails(t)
  <2>1. Finish(t, "dump") /\ lock' = NoThread /\ UNCHANGED <<status, tmp>> /\ "dump" \in Inside
    BY <1>8 DEF DumpFails
  <2> QED
    BY <2>1, LeaveInv
<1>9. CASE Replace(t)
  BY <1>9, LoadJson DEF Replace, Json
<1>10. CASE Release(t)
  BY <1>10 DEF Release
<1>11. CASE Reply(t)
  BY <1>11, FinishServing DEF Reply, Finish
<1>12. CASE ImageStep(t)
  BY <1>12 DEF ImageStep, OpenShot, WriteShot, ClientLeaves, ReadShot
<1> QED
  BY <1>1, <1>2, <1>3, <1>4, <1>5, <1>6, <1>7, <1>8, <1>9, <1>10, <1>11, <1>12
  DEF Step, BoardStep

(***************************************************************************)
(* The process restarts with the files as they are.                        *)
(***************************************************************************)
LEMMA RestartInv ==
  ASSUME IndInv, Restart
  PROVE  IndInv'
BY ThreadsAssumption DEF IndInv, Shape, Serving, Exclusive, NoLostUpdate, Stored,
   Restart, PCs, Inside

\* Every step of the server keeps IndInv.
LEMMA NextInv == IndInv /\ [Next]_vars => IndInv'
<1> SUFFICES ASSUME IndInv, [Next]_vars PROVE IndInv'
  OBVIOUS
<1>1. CASE UNCHANGED vars
  BY <1>1 DEF vars, IndInv, Shape, Serving, Exclusive, NoLostUpdate, Stored
<1> QED
  BY <1>1, StepInv, ReceiveInv, RestartInv DEF Next

\* IndInv is an invariant of the server: lock, private copies and file agree.
THEOREM Invariance == Spec => []IndInv
BY InitInv, NextInv, PTL DEF Spec

(***************************************************************************)
(* From load to replace a handler's list and temporary file are its own:   *)
(* server.py's `with LOCK` around load() and save() loses no update.       *)
(***************************************************************************)
THEOREM UpdatesKept == Spec => []NoLostUpdate
BY Invariance, PTL DEF IndInv

(***************************************************************************)
(* status.json is never cut short, at any point a restart can strike.      *)
(***************************************************************************)
THEOREM NeverTorn == Spec => []StatusWhole
<1>1. IndInv => StatusWhole
  BY DEF IndInv, Stored, StatusWhole, Absent, Json
<1> QED
  BY <1>1, Invariance, PTL

(***************************************************************************)
(* A status.json that exists stays one: no step removes or empties it.     *)
(***************************************************************************)
THEOREM NeverErased == Spec => StatusStays
<1>1. IndInv /\ [Next]_vars => [status.kind = "json" => status'.kind = "json"]_vars
  <2> SUFFICES ASSUME IndInv, Next, status.kind = "json" PROVE status'.kind = "json"
    BY DEF vars
  <2>1. ASSUME NEW t \in Threads, Step(t) PROVE status'.kind = "json"
    <3>1. CASE Replace(t)
      BY <3>1 DEF Replace, Goto, IndInv, NoLostUpdate, Json
    <3>2. CASE ~Replace(t)
      BY <2>1, <3>2 DEF Step, BoardStep, ImageStep, Parse, ParseFails, Acquire,
         LoadStatus, SendStatus, OpenTmp, Dump, DumpFails, Release, Reply,
         OpenShot, WriteShot, ClientLeaves, ReadShot, lockVars
    <3> QED
      BY <3>1, <3>2
  <2>2. ASSUME NEW t \in Threads, NEW r \in BoardRequests \union ImageRequests,
               Receive(t, r)
        PROVE  status'.kind = "json"
    BY <2>2 DEF Receive, lockVars
  <2>3. CASE Restart
    BY <2>3 DEF Restart
  <2> QED
    BY <2>1, <2>2, <2>3 DEF Next
<1> QED
  BY <1>1, Invariance, PTL DEF Spec, StatusStays

-----------------------------------------------------------------------------
(***************************************************************************)
(* The refinement, step by step.  The board's step of a read is the load   *)
(* under LOCK, of an edit the os.replace; the rest are calls, ends and     *)
(* stutters.                                                               *)
(***************************************************************************)
LEMMA InitBoard == Init => TheBoard!BoardInit
BY DEF Init, TheBoard!BoardInit, TheBoard!Quiet, Phase, NoRequest,
   TheBoard!NoRequest, Load, Absent

\* A request received is a call of the board, or nothing if it is about a picture.
LEMMA ReceiveBoard ==
  ASSUME IndInv, NEW t \in Threads, NEW r \in BoardRequests \union ImageRequests,
         Receive(t, r)
  PROVE  [TheBoard!BoardNext]_TheBoard!boardVars
<1> USE DEF IndInv, Shape, Serving, Receive, Goto, lockVars, shotVars, PCs, Phase,
        NoRequest, TheBoard!NoRequest
<1>1. CASE r \in BoardRequests
  <2>1. TheBoard!Call(t, r)
    BY <1>1, RequestKinds DEF TheBoard!Call
  <2> QED
    BY <1>1, <2>1 DEF TheBoard!BoardNext
<1>2. CASE r \in ImageRequests
  BY <1>2, RequestKinds DEF TheBoard!boardVars
<1> QED
  BY <1>1, <1>2

\* Every step of a handler thread is a step of the board or a stutter.
LEMMA StepBoard ==
  ASSUME IndInv, NEW t \in Threads, Step(t)
  PROVE  [TheBoard!BoardNext]_TheBoard!boardVars
<1> USE ThreadsAssumption DEF IndInv, Shape, Serving, Exclusive, NoLostUpdate, Goto,
        lockVars, shotVars, PCs, Inside, Phase, NoRequest, TheBoard!NoRequest
<1>1. CASE Parse(t) \/ Acquire(t) \/ OpenTmp(t) \/ Dump(t) \/ Release(t)
  BY <1>1 DEF Parse, Acquire, OpenTmp, Dump, Release, TheBoard!boardVars
<1>2. CASE LoadStatus(t)
  <2>1. CASE req[t].op = "status"
    <3>1. TheBoard!Look(t)
      BY <1>2, <2>1 DEF LoadStatus, TheBoard!Look
    <3> QED
      BY <3>1 DEF TheBoard!BoardNext
  <2>2. CASE req[t].op # "status"
    BY <1>2, <2>2 DEF LoadStatus, TheBoard!boardVars
  <2> QED
    BY <2>1, <2>2
<1>3. CASE Replace(t)
  <2>1. Load(status') = Edited(req[t], Load(status))
    BY <1>3, LoadJson DEF Replace
  <2>2. TheBoard!Edit(t)
    BY <1>3, <2>1 DEF Replace, TheBoard!Edit
  <2> QED
    BY <2>2 DEF TheBoard!BoardNext
<1>4. CASE ParseFails(t) \/ SendStatus(t) \/ DumpFails(t) \/ Reply(t)
  <2>1. CASE Phase(t) = "idle"
    BY <1>4, <2>1 DEF ParseFails, SendStatus, DumpFails, Reply, Finish,
       TheBoard!boardVars
  <2>2. CASE Phase(t) # "idle"
    <3>1. /\ pc' = [pc EXCEPT ![t] = "idle"]
          /\ req' = [req EXCEPT ![t] = NoRequest]
          /\ doc' = [doc EXCEPT ![t] = <<>>]
          /\ status' = status
      BY <1>4 DEF ParseFails, SendStatus, DumpFails, Reply, Finish
    <3>2. \A u \in Threads : Phase(u)' = IF u = t THEN "idle" ELSE Phase(u)
      BY <3>1
    <3>3. \A u \in Threads : u # t => pc'[u] = pc[u] /\ req'[u] = req[u] /\ doc'[u] = doc[u]
      BY <3>1
    <3>4. pc'[t] = "idle" /\ req'[t] = NoRequest
      BY <3>1
    <3> HIDE DEF IndInv, Shape, Serving, Exclusive, NoLostUpdate, Phase
    <3>5. Phase(t) # "idle"
      BY <2>2
    <3>6. [u \in Threads |-> Phase(u)]' = [[u \in Threads |-> Phase(u)] EXCEPT ![t] = "idle"]
      BY <3>2
    <3>7. [u \in Threads |-> IF Phase(u) = "idle" THEN NoRequest ELSE req[u]]'
          = [[u \in Threads |-> IF Phase(u) = "idle" THEN NoRequest ELSE req[u]]
               EXCEPT ![t] = TheBoard!NoRequest]
      BY <3>2, <3>3, <3>4
    <3>8. [u \in Threads |-> IF pc[u] = "send" THEN doc[u] ELSE <<>>]'
          = [[u \in Threads |-> IF pc[u] = "send" THEN doc[u] ELSE <<>>] EXCEPT ![t] = <<>>]
      BY <3>3, <3>4
    <3>9. TheBoard!End(t)
      BY <3>1, <3>5, <3>6, <3>7, <3>8 DEF TheBoard!End
    <3> QED
      BY <3>9 DEF TheBoard!BoardNext
  <2> QED
    BY <2>1, <2>2
<1>5. CASE ImageStep(t)
  BY <1>5 DEF ImageStep, OpenShot, WriteShot, ClientLeaves, ReadShot,
     TheBoard!boardVars
<1> QED
  BY <1>1, <1>2, <1>3, <1>4, <1>5 DEF Step, BoardStep

\* Every step of the server, a restart included, maps to one of the board.
LEMMA NextBoard ==
  IndInv /\ [Next]_vars => [TheBoard!BoardNext]_TheBoard!boardVars
<1> SUFFICES ASSUME IndInv, [Next]_vars
             PROVE  [TheBoard!BoardNext]_TheBoard!boardVars
  OBVIOUS
<1>1. CASE Restart
  BY <1>1 DEF Restart, TheBoard!BoardNext, TheBoard!Crash, TheBoard!Quiet, Phase,
     NoRequest, TheBoard!NoRequest
<1>2. CASE UNCHANGED vars
  BY <1>2 DEF vars, TheBoard!boardVars, Phase
<1> QED
  BY <1>1, <1>2, ReceiveBoard, StepBoard DEF Next

(***************************************************************************)
(* The threaded server implements the atomic board: its handlers can be    *)
(* thought of as editing and reading the list one at a time.               *)
(***************************************************************************)
THEOREM ServerIsBoard == Spec => AtomicBoard
BY InitBoard, NextBoard, Invariance, PTL DEF Spec, AtomicBoard, TheBoard!BoardSpec
-----------------------------------------------------------------------------
(***************************************************************************)
(* The list itself.  A list of entries with one entry per VM, in order:    *)
(***************************************************************************)
Lists == Seq(Entry)

OnePerVM(vms) == \A i, k \in DOMAIN vms : i # k => vms[i].id # vms[k].id

Ascending(vms) == \A i, k \in DOMAIN vms : i < k => Precedes(vms[i], vms[k])

(* A bounded set of numbers that is not empty has a least one: of the      *)
(* intervals up to its members, which the strict subset relation orders,   *)
(* one is minimal.                                                         *)
LEMMA LeastOf ==
  ASSUME NEW N \in Nat, NEW I \in SUBSET (0 .. N), I # {}
  PROVE  \E x \in I : \A y \in I : x <= y
<1> DEFINE T == {0 .. k : k \in I}
           R == StrictSubsetOrdering(0 .. N)
<1>1. IsWellFoundedOn(R, FiniteSubsetsOf(0 .. N))
  BY FS_StrictSubsetOrderingWellFounded, Zenon
<1>2. T \subseteq FiniteSubsetsOf(0 .. N)
  <2>1. ASSUME NEW k \in I PROVE 0 .. k \in SUBSET (0 .. N) /\ IsFiniteSet(0 .. k)
    <3>1. k \in Int /\ 0 \in Int /\ 0 .. k \in SUBSET (0 .. N)
      OBVIOUS
    <3> QED  BY <3>1, FS_Interval, Zenon
  <2> QED
    BY <2>1 DEF FiniteSubsetsOf
<1>3. T # {}
  OBVIOUS
<1>4. PICK X \in T : \A Y \in T : ~(<<Y, X>> \in R)
  <2> HIDE DEF T, R
  <2> QED  BY <1>1, <1>2, <1>3, WFMin, Zenon
<1>5. PICK x \in I : X = 0 .. x
  OBVIOUS
<1>6. ASSUME NEW y \in I, y < x PROVE FALSE
  <2>1. 0 .. y \subseteq 0 .. x /\ 0 .. y # 0 .. x
    BY <1>6
  <2>2. 0 .. y \in SUBSET (0 .. N) /\ 0 .. x \in SUBSET (0 .. N)
    OBVIOUS
  <2>3. <<0 .. y, X>> \in R
    BY <1>5, <2>1, <2>2 DEF StrictSubsetOrdering
  <2> QED
    BY <1>4, <2>3
<1> QED
  BY <1>6

\* A rank is a number, whatever the state's name: ORDER.get(state, 9).
LEMMA Ranks == \A s : StateRank(s) \in Nat
BY DEF StateRank, Field, ORDER

\* What Precedes says of entries: the tuple comparison of the sort's keys.
LEMMA PrecedesIs ==
  ASSUME NEW v \in Entry, NEW w \in Entry
  PROVE  Precedes(v, w) <=>
           \/ v.attention /\ ~w.attention
           \/ /\ v.attention = w.attention
              /\ \/ StateRank(v.state) < StateRank(w.state)
                 \/ StateRank(v.state) = StateRank(w.state) /\ v.id < w.id
<1> DEFINE a == SortKey(v)
           b == SortKey(w)
<1>1. DOMAIN a = 1 .. 3
  BY DEF SortKey
<1>2. /\ a[1] = IF v.attention THEN 0 ELSE 1
      /\ b[1] = IF w.attention THEN 0 ELSE 1
      /\ a[2] = StateRank(v.state) /\ b[2] = StateRank(w.state)
      /\ a[3] = v.id /\ b[3] = w.id
  BY DEF SortKey
<1>3. Precedes(v, w) <=> \E i \in 1 .. 3 : a[i] < b[i] /\ \A k \in 1 .. (i - 1) : a[k] = b[k]
  BY <1>1 DEF Precedes
<1>4. v.attention \in BOOLEAN /\ w.attention \in BOOLEAN
  BY DEF Entry
<1> HIDE DEF a, b
<1>5. Precedes(v, w) <=> \/ a[1] < b[1]
                         \/ a[1] = b[1] /\ a[2] < b[2]
                         \/ a[1] = b[1] /\ a[2] = b[2] /\ a[3] < b[3]
  BY <1>3
<1>6. (a[1] < b[1] <=> v.attention /\ ~w.attention) /\ (a[1] = b[1] <=> (v.attention <=> w.attention))
  BY <1>2, <1>4
<1> QED
  BY <1>2, <1>4, <1>5, <1>6

\* On entries of different VMs it is a strict total order.
LEMMA PrecedesOrders ==
  /\ \A v \in Entry : ~Precedes(v, v)
  /\ \A v, w \in Entry : v.id # w.id => Precedes(v, w) \/ Precedes(w, v)
  /\ \A u, v, w \in Entry : Precedes(u, v) /\ Precedes(v, w) => Precedes(u, w)
<1>1. \A v \in Entry : v.id \in Nat /\ v.attention \in BOOLEAN
  BY IdsAssumption DEF Entry
<1>2. \A v \in Entry : StateRank(v.state) \in Nat
  BY Ranks
<1>3. \A v \in Entry : ~Precedes(v, v)
  BY <1>1, <1>2, PrecedesIs
<1>4. \A v, w \in Entry : v.id # w.id => Precedes(v, w) \/ Precedes(w, v)
  BY <1>1, <1>2, PrecedesIs
<1>5. \A u, v, w \in Entry : Precedes(u, v) /\ Precedes(v, w) => Precedes(u, w)
  BY <1>1, <1>2, PrecedesIs
<1> QED
  BY <1>3, <1>4, <1>5

(***************************************************************************)
(* The filter `[v for v in vms if v["id"] != vid]`: the positions kept, in *)
(* increasing order.                                                       *)
(***************************************************************************)
Kept(vms, vid) == {i \in DOMAIN vms : vms[i].id # vid}

Increasing(p) == \A i, k \in DOMAIN p : i < k => p[i] < p[k]

\* One entry per VM: the positions kept are all of them, or all but one.
LEMMA KeptListed ==
  ASSUME NEW vms \in Lists, OnePerVM(vms), NEW vid
  PROVE  /\ Cardinality(Kept(vms, vid)) \in Nat
         /\ \E p \in [1 .. Cardinality(Kept(vms, vid)) -> Kept(vms, vid)] : Increasing(p)
<1> DEFINE K == Kept(vms, vid)
           n == Len(vms)
<1>1. n \in Nat /\ DOMAIN vms = 1 .. n
  BY DEF Lists
<1>2. IsFiniteSet(1 .. n) /\ Cardinality(1 .. n) = n
  <2> HIDE DEF n
  <2>1. 1 \in Int /\ n \in Int /\ (IF 1 > n THEN 0 ELSE n - 1 + 1) = n
    BY <1>1
  <2> QED  BY <2>1, FS_Interval
<1>3. CASE \A i \in DOMAIN vms : vms[i].id # vid
  <2>1. K = 1 .. n
    BY <1>1, <1>3 DEF Kept
  <2>2. [i \in 1 .. n |-> i] \in [1 .. n -> K] /\ Increasing([i \in 1 .. n |-> i])
    BY <2>1 DEF Increasing
  <2> HIDE DEF n, K
  <2>3. Cardinality(K) = n
    BY <1>2, <2>1
  <2> QED
    BY <1>1, <2>2, <2>3 DEF K
<1>4. ASSUME NEW m \in DOMAIN vms, vms[m].id = vid
      PROVE  /\ Cardinality(K) \in Nat
             /\ \E p \in [1 .. Cardinality(K) -> K] : Increasing(p)
  <2>1. K = (1 .. n) \ {m}
    BY <1>1, <1>4 DEF Kept, OnePerVM
  <2>2. Cardinality(K) = n - 1
    <3> HIDE DEF n, K
    <3>1. m \in 1 .. n
      BY <1>1
    <3> QED  BY <1>2, <2>1, <3>1, FS_RemoveElement
  <2> DEFINE q == [i \in 1 .. (n - 1) |-> IF i < m THEN i ELSE i + 1]
  <2>3. q \in [1 .. (n - 1) -> K]
    BY <1>1, <2>1
  <2>4. Increasing(q)
    BY <1>1 DEF Increasing
  <2>5. n - 1 \in Nat
    BY <1>1
  <2> HIDE DEF n, K, q
  <2> QED
    BY <2>2, <2>3, <2>4, <2>5
<1> QED
  BY <1>3, <1>4

\* What the filter gives: a list of entries of other VMs, ordered as before.
LEMMA WithoutList ==
  ASSUME NEW vms \in Lists, OnePerVM(vms), Ascending(vms), NEW vid
  PROVE  /\ Without(vms, vid) \in Lists
         /\ OnePerVM(Without(vms, vid)) /\ Ascending(Without(vms, vid))
         /\ \A i \in DOMAIN Without(vms, vid) : Without(vms, vid)[i].id # vid
<1> DEFINE n == Cardinality(Kept(vms, vid))
           at == CHOOSE p \in [1 .. n -> Kept(vms, vid)] : Increasing(p)
<1>1. n \in Nat /\ at \in [1 .. n -> Kept(vms, vid)] /\ Increasing(at)
  BY KeptListed
<1>2. Without(vms, vid) = [i \in 1 .. n |-> vms[at[i]]]
  BY DEF Without, Kept, Increasing
<1> HIDE DEF n, at
<1>3. \A i \in 1 .. n : /\ at[i] \in DOMAIN vms /\ vms[at[i]].id # vid
                        /\ vms[at[i]] \in Entry
  BY <1>1 DEF Kept, Lists
<1>4. \A i, k \in 1 .. n : i < k => at[i] < at[k]
  BY <1>1 DEF Increasing
<1>5. \A i, k \in 1 .. n : i # k => at[i] # at[k]
  <2> SUFFICES ASSUME NEW i \in 1 .. n, NEW k \in 1 .. n, i # k PROVE at[i] # at[k]
    OBVIOUS
  <2>1. at[i] \in Nat /\ at[k] \in Nat
    BY <1>3 DEF Lists
  <2> QED
    BY <1>1, <1>4, <2>1
<1>6. Without(vms, vid) \in Lists
  BY <1>1, <1>2, <1>3 DEF Lists
<1>7. DOMAIN Without(vms, vid) = 1 .. n /\ \A i \in 1 .. n : Without(vms, vid)[i] = vms[at[i]]
  BY <1>2
<1> HIDE DEF Lists
<1>8. OnePerVM(Without(vms, vid))
  <2> SUFFICES ASSUME NEW i \in 1 .. n, NEW k \in 1 .. n, i # k
               PROVE  vms[at[i]].id # vms[at[k]].id
    BY <1>7 DEF OnePerVM
  <2> QED
    BY <1>3, <1>5 DEF OnePerVM
<1>9. Ascending(Without(vms, vid))
  <2> SUFFICES ASSUME NEW i \in 1 .. n, NEW k \in 1 .. n, i < k
               PROVE  Precedes(vms[at[i]], vms[at[k]])
    BY <1>7 DEF Ascending
  <2>1. at[i] \in DOMAIN vms /\ at[k] \in DOMAIN vms /\ at[i] < at[k]
    BY <1>3, <1>4
  <2> QED
    BY <2>1 DEF Ascending
<1> QED
  BY <1>3, <1>6, <1>7, <1>8, <1>9, Zenon

(***************************************************************************)
(* The sort of an ordered list with one entry added at its end: the entry  *)
(* belongs before the first one it precedes.                               *)
(***************************************************************************)
Arranges(vms, p) ==
  /\ p \in [DOMAIN vms -> DOMAIN vms]
  /\ \A i, k \in DOMAIN vms : i < k => Precedes(vms[p[i]], vms[p[k]])

\* vms.sort has an answer: the new entry's place exists.
LEMMA Insertion ==
  ASSUME NEW w \in Lists, Ascending(w), NEW e \in Entry,
         \A i \in DOMAIN w : w[i].id # e.id
  PROVE  \E p : Arranges(Append(w, e), p)
<1> DEFINE n == Len(w)
           x == Append(w, e)
           I == {i \in 0 .. (n + 1) : i > 0 /\ (i = n + 1 \/ Precedes(e, w[i]))}
<1>1. n \in Nat /\ DOMAIN w = 1 .. n /\ \A i \in 1 .. n : w[i] \in Entry
  BY DEF Lists
<1>2. DOMAIN x = 1 .. (n + 1) /\ x[n + 1] = e /\ \A i \in 1 .. n : x[i] = w[i]
  BY <1>1 DEF Lists
<1>3. PICK k \in I : \A y \in I : k <= y
  <2>1. I \in SUBSET (0 .. (n + 1)) /\ n + 1 \in I /\ n + 1 \in Nat
    BY <1>1
  <2> HIDE DEF I, n
  <2> QED  BY <2>1, LeastOf
<1>4. k \in 1 .. (n + 1) /\ (k = n + 1 \/ Precedes(e, w[k]))
  BY <1>1, <1>3
<1>5. \A i \in 1 .. n : i < k => Precedes(w[i], e)
  <2> SUFFICES ASSUME NEW i \in 1 .. n, i < k PROVE Precedes(w[i], e)
    OBVIOUS
  <2>1. ~Precedes(e, w[i])
    BY <1>1, <1>3, <1>4
  <2>2. w[i] \in Entry /\ w[i].id # e.id
    BY <1>1
  <2> QED
    BY <2>1, <2>2, PrecedesOrders
<1>6. \A i \in 1 .. n : i >= k => Precedes(e, w[i])
  <2> SUFFICES ASSUME NEW i \in 1 .. n, i >= k PROVE Precedes(e, w[i])
    OBVIOUS
  <2>1. k \in 1 .. n /\ Precedes(e, w[k])
    BY <1>1, <1>4
  <2>2. i = k \/ Precedes(w[k], w[i])
    BY <1>1, <2>1 DEF Ascending
  <2> QED
    BY <1>1, <2>1, <2>2, PrecedesOrders
<1> DEFINE p == [i \in 1 .. (n + 1) |-> IF i < k THEN i ELSE IF i = k THEN n + 1 ELSE i - 1]
<1>7. p \in [1 .. (n + 1) -> 1 .. (n + 1)]
  BY <1>1, <1>4
<1>8. ASSUME NEW i \in 1 .. (n + 1), NEW j \in 1 .. (n + 1), i < j
      PROVE  Precedes(x[p[i]], x[p[j]])
  <2>1. CASE i = k
    <3>1. p[i] = n + 1 /\ p[j] = j - 1 /\ j - 1 \in 1 .. n /\ j - 1 >= k
      BY <1>1, <1>4, <1>8, <2>1
    <3> HIDE DEF p, x, n
    <3> QED  BY <1>2, <1>6, <3>1
  <2>2. CASE j = k
    <3>1. p[j] = n + 1 /\ p[i] = i /\ i \in 1 .. n /\ i < k
      BY <1>1, <1>4, <1>8, <2>2
    <3> HIDE DEF p, x, n
    <3> QED  BY <1>2, <1>5, <3>1
  <2>3. CASE i # k /\ j # k
    <3>1. p[i] \in 1 .. n /\ p[j] \in 1 .. n /\ p[i] < p[j]
      BY <1>1, <1>4, <1>8, <2>3
    <3>2. Precedes(w[p[i]], w[p[j]])
      <4> HIDE DEF p
      <4> QED  BY <1>1, <3>1 DEF Ascending
    <3> HIDE DEF p, x, n
    <3> QED  BY <1>2, <3>1, <3>2
  <2> QED
    BY <2>1, <2>2, <2>3
<1> HIDE DEF p, x, n
<1>9. Arranges(x, p)
  BY <1>2, <1>7, <1>8 DEF Arranges
<1> QED
  BY <1>9 DEF x

\* A sort with an answer: the same entries, each once, ordered.
LEMMA SortedList ==
  ASSUME NEW vms \in Lists, OnePerVM(vms), NEW q, Arranges(vms, q)
  PROVE  /\ Sorted(vms) \in Lists
         /\ OnePerVM(Sorted(vms)) /\ Ascending(Sorted(vms))
<1> DEFINE at == CHOOSE p \in [DOMAIN vms -> DOMAIN vms] :
                   \A i, k \in DOMAIN vms : i < k => Precedes(vms[p[i]], vms[p[k]])
<1>1. at \in [DOMAIN vms -> DOMAIN vms]
      /\ \A i, k \in DOMAIN vms : i < k => Precedes(vms[at[i]], vms[at[k]])
  BY DEF Arranges
<1>2. Sorted(vms) = [i \in DOMAIN vms |-> vms[at[i]]]
  BY DEF Sorted
<1> HIDE DEF at
<1>3. DOMAIN vms = 1 .. Len(vms) /\ Len(vms) \in Nat /\ \A i \in DOMAIN vms : vms[i] \in Entry
  BY DEF Lists
<1>4. Sorted(vms) \in Lists
  BY <1>1, <1>2, <1>3 DEF Lists
<1>5. DOMAIN Sorted(vms) = DOMAIN vms
      /\ \A i \in DOMAIN vms : Sorted(vms)[i] = vms[at[i]]
  BY <1>2
<1>6. Ascending(Sorted(vms))
  <2> SUFFICES ASSUME NEW i \in DOMAIN vms, NEW k \in DOMAIN vms, i < k
               PROVE  Precedes(vms[at[i]], vms[at[k]])
    BY <1>5 DEF Ascending
  <2> QED
    BY <1>1
<1>7. ASSUME NEW i \in DOMAIN vms, NEW k \in DOMAIN vms, i # k
      PROVE  vms[at[i]].id # vms[at[k]].id
  <2>1. at[i] \in DOMAIN vms /\ at[k] \in DOMAIN vms
    BY <1>1
  <2>2. i < k \/ k < i
    BY <1>3, <1>7
  <2>3. at[i] # at[k]
    BY <1>1, <1>3, <2>1, <2>2, PrecedesOrders
  <2> QED
    BY <2>1, <2>3 DEF OnePerVM
<1> QED
  BY <1>4, <1>5, <1>6, <1>7 DEF OnePerVM

InOrder(vms) == vms \in Lists /\ OnePerVM(vms) /\ Ascending(vms)

\* POST /state on an ordered list of VMs gives one.
LEMMA UpsertedList ==
  ASSUME NEW vms, InOrder(vms), NEW e \in Entry
  PROVE  InOrder(Upserted(vms, e))
<1> DEFINE w == Without(vms, e.id)
<1>1. w \in Lists /\ OnePerVM(w) /\ Ascending(w) /\ \A i \in DOMAIN w : w[i].id # e.id
  BY WithoutList DEF InOrder
<1> HIDE DEF w
<1>2. Append(w, e) \in Lists /\ DOMAIN Append(w, e) = 1 .. (Len(w) + 1)
      /\ Append(w, e)[Len(w) + 1] = e /\ \A i \in DOMAIN w : Append(w, e)[i] = w[i]
      /\ DOMAIN w = 1 .. Len(w) /\ Len(w) \in Nat
  BY <1>1 DEF Lists
<1>3. OnePerVM(Append(w, e))
  <2> DEFINE x == Append(w, e)
  <2> SUFFICES ASSUME NEW i \in DOMAIN x, NEW k \in DOMAIN x, i # k
               PROVE  x[i].id # x[k].id
    BY DEF OnePerVM
  <2>1. (i \in DOMAIN w \/ i = Len(w) + 1) /\ (k \in DOMAIN w \/ k = Len(w) + 1)
    BY <1>2
  <2> HIDE DEF x
  <2> QED
    BY <1>1, <1>2, <2>1 DEF OnePerVM, x
<1>4. PICK p : Arranges(Append(w, e), p)
  BY <1>1, Insertion
<1> QED
  BY <1>2, <1>3, <1>4, SortedList DEF Upserted, InOrder, w

\* The entry do_POST builds from a parsed body.
LEMMA EntryBuilt ==
  ASSUME NEW i \in Ids, NEW j \in Bodies
  PROVE  EntryOf(i, j) \in Entry
BY BodiesAssumption DEF EntryOf, Entry, Field

(***************************************************************************)
(* A report's handler that is past the parse has a body json.loads took;   *)
(* only a push writes an image.                                            *)
(***************************************************************************)
Parsed(t) ==
  /\ pc[t] \in {"lock"} \union Inside /\ req[t].op = "state" => req[t].body \in Bodies
  /\ pc[t] \in {"open", "body"} => req[t].op = "shot"

ListInv == IndInv /\ TypeOK /\ InOrder(Load(status)) /\ \A t \in Threads : Parsed(t)

\* The edit of an ordered list, whichever request makes it.
LEMMA EditedList ==
  ASSUME NEW vms, InOrder(vms), NEW r \in BoardRequests,
         r.op \in {"state", "remove"}, r.op = "state" => r.body \in Bodies
  PROVE  InOrder(Edited(r, vms))
<1>1. r.id \in Ids
  BY DEF BoardRequests
<1>2. CASE r.op = "state"
  BY <1>1, <1>2, EntryBuilt, UpsertedList DEF Edited
<1>3. CASE r.op = "remove"
  BY <1>3, WithoutList DEF Edited, Removed, InOrder
<1> QED
  BY <1>2, <1>3

LEMMA InitList == Init => ListInv
<1> SUFFICES ASSUME Init PROVE ListInv
  OBVIOUS
<1>1. InOrder(Load(status))
  BY LoadJson DEF Init, InOrder, Lists, OnePerVM, Ascending
<1>2. TypeOK
  BY ThreadsAssumption DEF Init, TypeOK, PCs, Absent
<1> QED
  BY <1>1, <1>2, InitInv DEF Init, ListInv, Parsed, Inside

\* A request a client makes is of a known kind, with a body that may be malformed.
LEMMA ReceiveList ==
  ASSUME ListInv, NEW t \in Threads, NEW r \in BoardRequests \union ImageRequests,
         Receive(t, r)
  PROVE  ListInv'
<1>1. IndInv'
  BY ReceiveInv DEF ListInv
<1>2. pc'[t] \in {"parse", "lock", "open", "read"} /\ (r.op = "state" => pc'[t] = "parse")
      /\ (pc'[t] = "open" => r.op = "shot")
      /\ pc' = [pc EXCEPT ![t] = pc'[t]] /\ req' = [req EXCEPT ![t] = r]
      /\ UNCHANGED <<doc, lock, status, tmp, shot, frame>>
  <2>1. r.op \in {"state", "remove", "status", "shot", "png"}
    BY RequestKinds
  <2> QED
    BY <2>1 DEF Receive, Goto, lockVars, shotVars, ListInv, TypeOK
<1>3. TypeOK'
  <2>1. pc'[t] \in PCs
    BY <1>2 DEF PCs
  <2> QED
    BY <1>2, <2>1 DEF ListInv, TypeOK
<1>4. \A u \in Threads : Parsed(u)'
  BY <1>2 DEF ListInv, Parsed, TypeOK, Inside
<1> QED
  BY <1>1, <1>2, <1>3, <1>4 DEF ListInv

\* A handler that ends leaves no request, no list and no image behind.
LEMMA FinishList ==
  ASSUME ListInv, NEW t \in Threads, NEW from, Finish(t, from),
         lock' \in {lock, NoThread}, UNCHANGED <<status, tmp, shot>>, IndInv'
  PROVE  ListInv'
<1>1. TypeOK'
  BY DEF ListInv, TypeOK, Finish, Goto, PCs
<1>2. \A u \in Threads : Parsed(u)'
  BY DEF ListInv, Parsed, TypeOK, Finish, Goto, Inside
<1> QED
  BY <1>1, <1>2 DEF ListInv

\* A step that reads, edits or moves the list keeps it an ordered list of entries.
LEMMA BoardStepList ==
  ASSUME ListInv, NEW t \in Threads, BoardStep(t)
  PROVE  ListInv'
<1>1. IndInv'
  BY StepInv DEF ListInv, Step
<1>2. CASE Parse(t)
  <2>1. req[t] \in BoardRequests /\ req[t].body \in Bodies
    <3>1. req[t].op = "state" /\ req[t] \in BoardRequests \union ImageRequests
      BY <1>2 DEF Parse, Goto, ListInv, IndInv, Serving
    <3>2. req[t] \in BoardRequests
      BY <3>1, RequestKinds
    <3> QED
      BY <1>2, <3>1, <3>2 DEF Parse, BoardRequests
  <2>2. TypeOK'
    BY <1>2 DEF Parse, Goto, ListInv, TypeOK, PCs, lockVars, shotVars
  <2> QED
    BY <1>1, <1>2, <2>1, <2>2
    DEF ListInv, Parse, Goto, Parsed, TypeOK, Inside, lockVars, shotVars
<1>3. CASE ParseFails(t)
  BY <1>1, <1>3, FinishList DEF ParseFails
<1>4. CASE Acquire(t)
  BY <1>1, <1>4 DEF Acquire, Goto, ListInv, TypeOK, PCs, Parsed, Inside, shotVars
<1>5. CASE LoadStatus(t)
  <2>1. Load(status) \in Seq(Entry)
    BY DEF ListInv, InOrder, Lists
  <2> QED
    BY <1>1, <1>5, <2>1
    DEF LoadStatus, Goto, ListInv, TypeOK, PCs, Parsed, Inside, shotVars
<1>6. CASE SendStatus(t)
  BY <1>1, <1>6, FinishList DEF SendStatus
<1>7. CASE OpenTmp(t)
  <2>1. Edited(req[t], doc[t]) \in Seq(Entry)
    <3>1. pc[t] = "edit" /\ req[t].op \in {"state", "remove"} /\ req[t] \in BoardRequests
      <4>1. pc[t] = "edit" /\ Serving(t)
        BY <1>7 DEF OpenTmp, Goto, ListInv, IndInv
      <4> QED
        BY <4>1, RequestKinds DEF Serving
    <3>2. doc[t] = Load(status) /\ (req[t].op = "state" => req[t].body \in Bodies)
      BY <3>1 DEF ListInv, IndInv, NoLostUpdate, Parsed, Inside
    <3>3. InOrder(doc[t])
      BY <3>2 DEF ListInv
    <3> QED
      BY <3>1, <3>2, <3>3, EditedList DEF InOrder, Lists
  <2> QED
    BY <1>1, <1>7, <2>1
    DEF OpenTmp, Goto, ListInv, TypeOK, PCs, Parsed, Inside, shotVars, Torn
<1>8. CASE Dump(t)
  BY <1>1, <1>8 DEF Dump, Goto, ListInv, TypeOK, PCs, Parsed, Inside, shotVars, Json
<1>9. CASE DumpFails(t)
  BY <1>1, <1>9, FinishList DEF DumpFails
<1>10. CASE Replace(t)
  <2>1. pc[t] = "replace" /\ Serving(t) /\ Parsed(t)
    BY <1>10 DEF Replace, Goto, ListInv, IndInv
  <2>2. req[t].op \in {"state", "remove"} /\ req[t] \in BoardRequests
        /\ (req[t].op = "state" => req[t].body \in Bodies)
    BY <2>1, RequestKinds DEF Serving, Parsed, Inside
  <2>3. status' = Json(Edited(req[t], Load(status)))
    BY <1>10, <2>1 DEF Replace, ListInv, IndInv, NoLostUpdate
  <2>4. InOrder(Load(status'))
    BY <2>2, <2>3, EditedList, LoadJson DEF ListInv
  <2> QED
    BY <1>1, <1>10, <2>4
    DEF Replace, Goto, ListInv, TypeOK, PCs, Parsed, Inside, shotVars, Absent
<1>11. CASE Release(t)
  BY <1>1, <1>11 DEF Release, Goto, ListInv, TypeOK, PCs, Parsed, Inside, shotVars
<1> QED
  BY <1>2, <1>3, <1>4, <1>5, <1>6, <1>7, <1>8, <1>9, <1>10, <1>11 DEF BoardStep

\* Pictures, answers and a restart leave the list alone.
LEMMA OtherStepList ==
  ASSUME ListInv, NEW t \in Threads, ImageStep(t) \/ Reply(t)
  PROVE  ListInv'
<1>1. IndInv'
  BY StepInv DEF ListInv, Step
<1>2. CASE Reply(t)
  BY <1>1, <1>2, FinishList DEF Reply
<1>3. ASSUME pc[t] \in {"open", "body", "read"}
      PROVE  req[t].id \in Ids /\ (req[t].op = "shot" => req[t].png \in Frames)
             /\ (pc[t] \in {"open", "body"} => req[t].op = "shot")
  <2>1. req[t] \in ImageRequests
    <3>1. Serving(t)
      BY DEF ListInv, IndInv
    <3> QED
      BY <1>3, <3>1, RequestKinds DEF Serving
  <2> QED
    BY <2>1 DEF ImageRequests, ListInv, Parsed
<1>4. CASE OpenShot(t) \/ WriteShot(t) \/ ClientLeaves(t)
  BY <1>1, <1>3, <1>4
  DEF OpenShot, WriteShot, ClientLeaves, Goto, ListInv, TypeOK, PCs, Parsed, Inside, lockVars
<1>5. CASE ReadShot(t)
  BY <1>1, <1>3, <1>5
  DEF ReadShot, Goto, ListInv, TypeOK, PCs, Parsed, Inside, lockVars
<1> QED
  BY <1>2, <1>4, <1>5 DEF ImageStep

\* Every step keeps the stored list ordered and everything of its type.
LEMMA NextList == ListInv /\ [Next]_vars => ListInv'
<1> SUFFICES ASSUME ListInv, [Next]_vars PROVE ListInv'
  OBVIOUS
<1>1. CASE UNCHANGED vars
  BY <1>1, NextInv DEF vars, ListInv, TypeOK, Parsed
<1>2. CASE Restart
  BY <1>2, RestartInv DEF Restart, ListInv, TypeOK, Parsed, Inside, PCs
<1> QED
  BY <1>1, <1>2, ReceiveList, BoardStepList, OtherStepList DEF Next, Step

(***************************************************************************)
(* Every handler, list and file has its type, in particular a stored list  *)
(* holds only entries do_POST builds.                                      *)
(***************************************************************************)
THEOREM ServerTypes == Spec => []TypeOK
<1>1. ListInv => TypeOK
  BY DEF ListInv
<1> QED
  BY <1>1, InitList, NextList, PTL DEF Spec

(***************************************************************************)
(* The stored list has one entry per VM and is sorted, whatever handlers   *)
(* run at once and wherever a restart strikes: an upsert sorts the list, a *)
(* removal keeps the order it finds.                                       *)
(***************************************************************************)
THEOREM AlwaysSorted == Spec => []ListOrdered
<1>1. ListInv => ListOrdered
  <2> SUFFICES ASSUME ListInv, NEW i \in DOMAIN Load(status), NEW k \in DOMAIN Load(status), i < k
               PROVE  /\ Precedes(Load(status)[i], Load(status)[k])
                      /\ Load(status)[i].id # Load(status)[k].id
    BY DEF ListOrdered
  <2>1. i # k
    BY DEF ListInv, InOrder, Lists
  <2> QED
    BY <2>1 DEF ListInv, InOrder, OnePerVM, Ascending
<1> QED
  BY <1>1, InitList, NextList, PTL DEF Spec

=============================================================================
