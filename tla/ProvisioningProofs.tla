------------------------- MODULE ProvisioningProofs -------------------------
(***************************************************************************)
(* Proofs about the recovery images, for any number of VMs and of          *)
(* populate.sh runs, any products and versions, with and without a mirror. *)
(* First types, then what each file can hold, then the index; at the end   *)
(* what "ready" is printed over.                                           *)
(***************************************************************************)
EXTENDS Provisioning, TLAPS

Files == {"cnk", "dmg"}

\* The kinds of the possible contents of a file, for the provers.
LEMMA Kinds ==
  /\ NoFile.kind = "none" /\ Empty.kind = "empty"
  /\ \A x : Part(x).kind = "part" /\ Whole(x).kind = "whole"
  /\ \A x : Part(x).of = x /\ Whole(x).of = x
  /\ TornImg.kind = "torn"
BY DEF NoFile, Empty, Part, Whole, TornImg

\* A file's content is determined by its kind and product.
LEMMA ContentKinds ==
  ASSUME NEW c \in Content
  PROVE  /\ c.kind \in {"none", "empty", "part", "whole"}
         /\ c.kind = "none" => c = NoFile
         /\ c.kind = "empty" => c = Empty
         /\ c.kind = "part" => c.of \in Products /\ c = Part(c.of)
         /\ c.kind = "whole" => c.of \in Products /\ c = Whole(c.of)
BY DEF Content, NoFile, Empty, Part, Whole

\* The contents a step writes are contents.
LEMMA ContentMembers ==
  /\ NoFile \in Content /\ Empty \in Content
  /\ \A x \in Products : Part(x) \in Content /\ Whole(x) \in Content
BY DEF Content

-----------------------------------------------------------------------------
(***************************************************************************)
(* Types, and what a run has in memory where it needs it.                  *)
(***************************************************************************)
VmPCs  == FetchPCs \union {"idle", "img", "convert", "disk", "nvram", "copying", "ready"}
PopPCs == FetchPCs \union {"idle", "move dmg", "move cnk", "index", "truncate", "dump"}

Place(p, at, x) ==
  /\ p \in Vms => at \in VmPCs
  /\ p \in Populators => at \in PopPCs
  /\ at \in {"probe", "open", "body", "move dmg", "move cnk", "index"} => x \in Products

RestTypeOK ==
  /\ img \in [Vms -> {NoImg, TornImg} \union {Whole(x) : x \in Products}]
  /\ disk \in [Vms -> BOOLEAN]
  /\ nvram \in [Vms -> {"none", "partial", "template"}]
  /\ ready \subseteq Vms /\ hurt \subseteq Vms /\ skipped \subseteq Versions
  /\ index \in [Versions -> Products \union {NoProduct}] \union {Torn}
  /\ read \in [Populators -> [Versions -> Products \union {NoProduct}]]

Typed ==
  /\ FetchTypeOK /\ RestTypeOK
  /\ pc \in [Runs -> PCs]
  /\ \A p \in Runs : Place(p, pc[p], prod[p])

\* Directories belong to a VM, to a staging run or to a product, and to one only.
LEMMA RunFacts ==
  /\ Vms \subseteq Runs /\ Populators \subseteq Runs /\ Vms \cap Populators = {}
  /\ Runs \subseteq Dirs /\ Products \subseteq Dirs /\ Runs \cap Products = {}
  /\ \A p \in Runs : p \in Vms \/ p \in Populators
BY RunsAssumption, RunsAreEither DEF Dirs

(***************************************************************************)
(* A step of one run keeps the types if it keeps those of what it writes.  *)
(***************************************************************************)
LEMMA Stepped ==
  ASSUME Typed, NEW p \in Runs, NEW to, pc' = [pc EXCEPT ![p] = to],
         FetchTypeOK', RestTypeOK', Place(p, to, prod'[p]),
         \A q \in Runs \ {p} : prod'[q] = prod[q]
  PROVE  Typed'
<1>1. to \in PCs
  BY RunFacts DEF Place, PCs, VmPCs, PopPCs
<1>2. pc' \in [Runs -> PCs] /\ pc'[p] = to /\ \A q \in Runs \ {p} : pc'[q] = pc[q]
  BY <1>1 DEF Typed
<1>3. \A q \in Runs : Place(q, pc'[q], prod'[q])
  BY <1>2 DEF Typed
<1> QED
  BY <1>2, <1>3 DEF Typed, Place

\* fetch-macOS-v2.py keeps the types, and has a product in hand when it downloads.
LEMMA FetchTyped ==
  ASSUME Typed, NEW p \in Runs, Fetching(p), Others
  PROVE  Typed'
<1> USE RunFacts, ContentMembers DEF Goto
<1>0. RestTypeOK'
  BY DEF Typed, RestTypeOK, Others, vmVars, saidVars, indexVars
<1>1. version' = version
  BY DEF Others
<1>2. \A at \in FetchPCs \ {"probe", "open", "body"} : \A x : Place(p, at, x)
  BY DEF Place, FetchPCs, VmPCs, PopPCs
<1>3. \A at \in FetchPCs : \A x \in Products : Place(p, at, x)
  BY DEF Place, FetchPCs, VmPCs, PopPCs
<1>4. pc[p] \in {"probe", "open", "body"} => prod[p] \in Products
  BY DEF Typed, Place
<1>5. CASE Ask(p)
  <2>1. FetchTypeOK' /\ prod'[p] \in Products /\ \A q \in Runs \ {p} : prod'[q] = prod[q]
    BY <1>1, <1>5 DEF Ask, Typed, FetchTypeOK
  <2> QED
    BY <1>0, <1>3, <1>5, <2>1, Stepped DEF Ask, FetchPCs
<1>6. CASE AskFails(p) \/ HttpError(p) \/ Verify(p)
  <2>1. FetchTypeOK' /\ prod' = prod
    BY <1>1, <1>6 DEF AskFails, HttpError, Verify, fetchVars, Typed, FetchTypeOK
  <2> QED
    BY <1>0, <1>2, <1>6, <2>1, Stepped DEF AskFails, HttpError, Verify, FetchPCs
<1>7. CASE Probe(p)
  <2>1. FetchTypeOK' /\ prod' = prod
    BY <1>1, <1>7 DEF Probe, Typed, FetchTypeOK
  <2> QED
    BY <1>0, <1>3, <1>4, <1>7, <2>1, Stepped DEF Probe, FetchPCs
<1>8. CASE Open(p)
  <2>1. FetchTypeOK' /\ prod' = prod
    BY <1>1, <1>8 DEF Open, Typed, FetchTypeOK
  <2> QED
    BY <1>0, <1>3, <1>4, <1>8, <2>1, Stepped DEF Open, FetchPCs
<1>9. ASSUME NEW c \in Content, Saved(p, c), flaky' \in BOOLEAN
      PROVE  Typed'
  <2>1. FetchTypeOK' /\ prod' = prod
    BY <1>1, <1>9 DEF Saved, Typed, FetchTypeOK
  <2> QED
    BY <1>0, <1>3, <1>4, <1>9, <2>1, Stepped DEF Saved, FetchPCs
<1>10. CASE Served(p)
  <2>1. Source(p) \in Content /\ flaky' \in BOOLEAN
    BY <1>4, <1>10 DEF Source, Served, Saved, Typed, FetchTypeOK
  <2> QED
    BY <1>9, <1>10, <2>1 DEF Served
<1>11. CASE CutShort(p)
  BY <1>4, <1>9, <1>11 DEF CutShort, Saved
<1>12. CASE Dropped(p)
  <2>1. PICK left \in {Empty, Part(prod[p])} :
          /\ Goto(p, "body", IF via[p] = "mirror" THEN "open" ELSE "exit 1")
          /\ tree' = [tree EXCEPT ![p][what[p]] = left]
          /\ via' = [via EXCEPT ![p] = "apple"]
          /\ flaky' = (flaky \/ (via[p] = "apple" /\ left # Empty))
          /\ UNCHANGED <<prod, what, apple>>
    BY <1>12 DEF Dropped
  <2>2. left \in Content
    BY <1>4, <2>1
  <2>3. flaky' \in BOOLEAN
    BY <2>1 DEF Typed, FetchTypeOK
  <2>4. FetchTypeOK' /\ prod' = prod
    BY <1>1, <2>1, <2>2, <2>3 DEF Typed, FetchTypeOK
  <2> QED
    BY <1>0, <1>3, <1>4, <2>1, <2>4, Stepped DEF FetchPCs
<1> QED
  BY <1>5, <1>6, <1>7, <1>8, <1>10, <1>11, <1>12 DEF Fetching

\* A run that is over needs nothing in memory.
LEMMA IdlePlace == \A p \in Runs : \A x : Place(p, "idle", x)
BY DEF Place, VmPCs, PopPCs

(***************************************************************************)
(* The end of a run forgets what it had in memory.                         *)
(***************************************************************************)
LEMMA EndTyped ==
  ASSUME Typed, NEW p \in Runs, End(p),
         img' \in [Vms -> {NoImg, TornImg} \union {Whole(x) : x \in Products}],
         UNCHANGED <<disk, nvram>>, ready' \subseteq Vms, hurt' \subseteq Vms,
         index' \in [Versions -> Products \union {NoProduct}] \union {Torn}
  PROVE  Typed'
<1>1. FetchTypeOK'
  <2>1. NoFiles \in [{"cnk", "dmg"} -> Content]
    BY ContentMembers DEF NoFiles
  <2>2. tree' \in [Dirs -> [{"cnk", "dmg"} -> Content]]
    BY <2>1, RunFacts DEF End, Typed, FetchTypeOK
  <2> QED
    BY <2>2 DEF End, Typed, FetchTypeOK
<1>2. NoIndex \in [Versions -> Products \union {NoProduct}]
  BY DEF NoIndex
<1>3. RestTypeOK'
  BY <1>2 DEF End, Typed, RestTypeOK
<1> QED
  BY <1>1, <1>3, Stepped, IdlePlace DEF End, Typed, FetchTypeOK

\* A run that dies, by `set -e` or killed, keeps the types.
LEMMA FailTyped ==
  ASSUME Typed, NEW p \in Runs, Fail(p), UNCHANGED <<disk, nvram, index>>,
         img' \in [Vms -> {NoImg, TornImg} \union {Whole(x) : x \in Products}]
  PROVE  Typed'
<1>1. /\ ready' \subseteq Vms /\ hurt' \subseteq Vms
      /\ index' \in [Versions -> Products \union {NoProduct}] \union {Torn}
  BY DEF Fail, Typed, RestTypeOK
<1> QED
  BY <1>1, EndTyped DEF Fail

\* provision.sh keeps the types.
LEMMA ProvisionTyped ==
  ASSUME Typed, NEW p \in Vms, Provisioning(p) \/ \E v \in Versions : Provision(p, v)
  PROVE  Typed'
<1> USE RunFacts DEF Goto, Go
<1>1. \A at \in VmPCs \ {"probe", "open", "body"} : \A x : Place(p, at, x)
  BY DEF Place, VmPCs, FetchPCs
<1>2. CASE \E v \in Versions : Provision(p, v)
  <2>1. FetchTypeOK' /\ RestTypeOK' /\ prod' = prod
    BY <1>2 DEF Provision, fetchVars, vmVars, saidVars, indexVars, Typed, FetchTypeOK, RestTypeOK
  <2> QED
    BY <1>1, <1>2, <2>1, Stepped DEF Provision, VmPCs, FetchPCs
<1>3. ASSUME NEW from, NEW to \in VmPCs \ {"probe", "open", "body"}, Go(p, from, to),
             UNCHANGED <<fetchVars, index, read>>,
             img' \in [Vms -> {NoImg, TornImg} \union {Whole(x) : x \in Products}],
             disk' \in [Vms -> BOOLEAN],
             nvram' \in [Vms -> {"none", "partial", "template"}]
      PROVE  Typed'
  <2>1. FetchTypeOK' /\ RestTypeOK' /\ prod' = prod
    BY <1>3 DEF fetchVars, saidVars, Typed, FetchTypeOK, RestTypeOK
  <2> QED
    BY <1>1, <1>3, <2>1, Stepped
<1>4. CASE Fetched(p) \/ KeepImg(p) \/ KeepNvram(p)
  BY <1>3, <1>4 DEF Fetched, KeepImg, KeepNvram, vmVars, indexVars, VmPCs, Typed, RestTypeOK
<1>5. CASE StartConvert(p) \/ MakeDisk(p) \/ StartNvram(p) \/ CopyNvram(p)
  <2>1. CASE StartConvert(p)
    BY <1>3, <2>1 DEF StartConvert, indexVars, VmPCs, Typed, RestTypeOK
  <2>2. CASE MakeDisk(p)
    BY <1>3, <2>2 DEF MakeDisk, indexVars, VmPCs, Typed, RestTypeOK
  <2>3. CASE StartNvram(p)
    BY <1>3, <2>3 DEF StartNvram, indexVars, VmPCs, Typed, RestTypeOK
  <2>4. CASE CopyNvram(p)
    BY <1>3, <2>4 DEF CopyNvram, indexVars, VmPCs, Typed, RestTypeOK
  <2> QED
    BY <1>5, <2>1, <2>2, <2>3, <2>4
<1>6. CASE Convert(p)
  <2>1. tree[p]["dmg"] \in {Whole(x) : x \in Products}
    BY <1>6, ContentKinds DEF Convert, Typed, FetchTypeOK
  <2> QED
    BY <1>3, <1>6, <2>1 DEF Convert, indexVars, VmPCs, Typed, RestTypeOK
<1>7. CASE FetchFailed(p)
  BY <1>7, FailTyped DEF FetchFailed, vmVars, Typed, RestTypeOK
<1>8. CASE ConvertFails(p)
  BY <1>8, FailTyped DEF ConvertFails, Typed, RestTypeOK
<1>9. CASE Ready(p)
  BY <1>9, EndTyped DEF Ready, vmVars, Typed, RestTypeOK
<1> QED
  BY <1>2, <1>4, <1>5, <1>6, <1>7, <1>8, <1>9 DEF Provisioning

\* populate.sh keeps the types.
LEMMA PopulateTyped ==
  ASSUME Typed, NEW p \in Populators,
         Populating(p) \/ \E v \in Versions : Skip(p, v) \/ Stage(p, v)
  PROVE  Typed'
<1> USE RunFacts DEF Goto, Go
<1>1. /\ \A at \in {"ask", "truncate", "dump"} : \A x : Place(p, at, x)
      /\ \A at \in {"move dmg", "move cnk", "index"} : \A x \in Products : Place(p, at, x)
  BY DEF Place, PopPCs, FetchPCs
<1>2. pc[p] \in {"move dmg", "move cnk", "index"} => prod[p] \in Products
  BY DEF Typed, Place
<1>3. CASE \E v \in Versions : Skip(p, v)
  BY <1>3 DEF Skip, fetchVars, vmVars, indexVars, Typed, FetchTypeOK, RestTypeOK
<1>4. CASE \E v \in Versions : Stage(p, v)
  <2>1. FetchTypeOK' /\ RestTypeOK' /\ prod' = prod
    BY <1>4 DEF Stage, fetchVars, vmVars, saidVars, indexVars, Typed, FetchTypeOK, RestTypeOK
  <2> QED
    BY <1>1, <1>4, <2>1, Stepped DEF Stage
<1>5. CASE Accept(p)
  <2>1. prod[p] \in Products
    BY <1>5 DEF Accept, Staged, Typed, FetchTypeOK
  <2>2. FetchTypeOK' /\ RestTypeOK' /\ prod' = prod
    BY <1>5 DEF Accept, fetchVars, vmVars, saidVars, indexVars, Typed, FetchTypeOK, RestTypeOK
  <2> QED
    BY <1>1, <1>5, <2>1, <2>2, Stepped DEF Accept
<1>6. CASE GiveUp(p) \/ LoadIndexFails(p)
  BY <1>6, FailTyped DEF GiveUp, LoadIndexFails, vmVars, Typed, RestTypeOK
<1>7. ASSUME NEW from, NEW to \in {"move cnk", "index"}, NEW f \in {"cnk", "dmg"},
             Move(p, from, to, f), prod[p] \in Products
      PROVE  Typed'
  <2> DEFINE moved == [tree EXCEPT ![prod[p]][f] = tree[p][f]]
  <2>0. /\ p \in Dirs /\ f \in {"cnk", "dmg"}
        /\ tree \in [Dirs -> [{"cnk", "dmg"} -> Content]]
    BY <1>7 DEF Typed, FetchTypeOK
  <2>3. moved \in [Dirs -> [{"cnk", "dmg"} -> Content]]
    BY <1>7, <2>0
  <2>4. tree' = [moved EXCEPT ![p][f] = NoFile]
    BY <1>7 DEF Move
  <2> HIDE DEF moved
  <2>1. tree' \in [Dirs -> [{"cnk", "dmg"} -> Content]]
    BY <2>3, <2>4, ContentMembers
  <2>2. FetchTypeOK' /\ RestTypeOK' /\ prod' = prod
    <3>1. UNCHANGED <<version, prod, what, via, apple, flaky, img, disk, nvram,
                      ready, hurt, skipped, index, read>>
      BY <1>7 DEF Move, vmVars, saidVars, indexVars
    <3>2. FetchTypeOK'
      BY <2>1, <3>1 DEF Typed, FetchTypeOK
    <3> QED
      BY <3>1, <3>2 DEF Typed, RestTypeOK
  <2>5. pc' = [pc EXCEPT ![p] = to]
    BY <1>7 DEF Move
  <2>6. Place(p, to, prod'[p])
    BY <1>1, <1>7, <2>2
  <2> QED
    BY <2>2, <2>5, <2>6, Stepped
<1>8. CASE MoveDmg(p) \/ MoveCnk(p)
  BY <1>2, <1>7, <1>8 DEF MoveDmg, MoveCnk, Move
<1>9. CASE LoadIndex(p)
  <2>1. read' \in [Populators -> [Versions -> Products \union {NoProduct}]]
    BY <1>2, <1>9 DEF LoadIndex, Typed, RestTypeOK, FetchTypeOK
  <2>2. FetchTypeOK' /\ RestTypeOK' /\ prod' = prod
    BY <1>9, <2>1 DEF LoadIndex, fetchVars, vmVars, saidVars, Typed, FetchTypeOK, RestTypeOK
  <2> QED
    BY <1>1, <1>9, <2>2, Stepped DEF LoadIndex
<1>10. CASE TruncateIndex(p)
  <2>1. FetchTypeOK' /\ RestTypeOK' /\ prod' = prod
    BY <1>10 DEF TruncateIndex, fetchVars, vmVars, saidVars, Typed, FetchTypeOK, RestTypeOK
  <2> QED
    BY <1>1, <1>10, <2>1, Stepped DEF TruncateIndex
<1>11. CASE DumpIndex(p)
  BY <1>11, EndTyped DEF DumpIndex, vmVars, Typed, RestTypeOK
<1> QED
  BY <1>3, <1>4, <1>5, <1>6, <1>8, <1>9, <1>10, <1>11 DEF Populating

\* Every step keeps the types.
LEMMA TypedNext == Typed /\ [Next]_vars => Typed'
<1> SUFFICES ASSUME Typed, [Next]_vars PROVE Typed'
  OBVIOUS
<1>1. CASE UNCHANGED vars
  BY <1>1 DEF vars, fetchVars, vmVars, saidVars, indexVars, Typed, FetchTypeOK, RestTypeOK, Place
<1>2. CASE \E v \in Versions : NewBuild(v) /\ UNCHANGED pc /\ Others
  <2>1. FetchTypeOK' /\ RestTypeOK' /\ prod' = prod /\ pc' = pc
    BY <1>2 DEF NewBuild, Others, vmVars, saidVars, indexVars, Typed, FetchTypeOK, RestTypeOK
  <2> QED
    BY <2>1 DEF Typed, Place
<1>3. CASE \E p \in Runs : Killed(p)
  BY <1>3, FailTyped DEF Killed, vmVars, Typed, RestTypeOK
<1> QED
  BY <1>1, <1>2, <1>3, FetchTyped, ProvisionTyped, PopulateTyped, RunFacts DEF Next

\* The initial state has the types.
LEMMA InitTyped == Init => Typed
<1> SUFFICES ASSUME Init PROVE Typed
  OBVIOUS
<1>1. NoFiles \in [{"cnk", "dmg"} -> Content]
  BY ContentMembers DEF NoFiles
<1>2. FetchTypeOK
  BY <1>1 DEF Init, FetchInit, FetchTypeOK
<1>3. RestTypeOK
  BY DEF Init, RestTypeOK, NoIndex
<1> QED
  BY <1>2, <1>3, IdlePlace DEF Init, Typed, PCs

(***************************************************************************)
(* The state of the provisioning system keeps its type.                    *)
(***************************************************************************)
THEOREM TypesHold == Spec => []TypeOK
<1>1. Typed => TypeOK
  BY DEF Typed, TypeOK, RestTypeOK
<1>2. Spec => []Typed
  BY InitTyped, TypedNext, PTL DEF Spec
<1> QED
  BY <1>1, <1>2, PTL

-----------------------------------------------------------------------------
(***************************************************************************)
(* A fetch writes in its own directory only, and its own memory.           *)
(***************************************************************************)
LEMMA FetchFrame ==
  ASSUME Typed, NEW p \in Runs, Fetching(p)
  PROVE  /\ \A d \in Dirs \ {p} : tree'[d] = tree[d]
         /\ \A q \in Runs \ {p} : /\ pc'[q] = pc[q] /\ prod'[q] = prod[q]
                                  /\ what'[q] = what[q] /\ via'[q] = via[q]
         /\ flaky => flaky'
<1> USE DEF Goto, Typed, FetchTypeOK
<1>1. CASE Ask(p)
  BY <1>1 DEF Ask
<1>2. CASE AskFails(p) \/ HttpError(p) \/ Verify(p)
  BY <1>2 DEF AskFails, HttpError, Verify, fetchVars
<1>3. CASE Probe(p)
  BY <1>3 DEF Probe
<1>4. CASE Open(p)
  BY <1>4 DEF Open
<1>5. ASSUME NEW c, Saved(p, c)
      PROVE  /\ \A d \in Dirs \ {p} : tree'[d] = tree[d]
             /\ \A q \in Runs \ {p} : /\ pc'[q] = pc[q] /\ prod'[q] = prod[q]
                                      /\ what'[q] = what[q] /\ via'[q] = via[q]
  BY <1>5 DEF Saved
<1>6. CASE Served(p)
  BY <1>5, <1>6 DEF Served
<1>7. CASE CutShort(p)
  BY <1>5, <1>7 DEF CutShort
<1>8. CASE Dropped(p)
  BY <1>8 DEF Dropped
<1> QED
  BY <1>1, <1>2, <1>3, <1>4, <1>6, <1>7, <1>8 DEF Fetching

(***************************************************************************)
(* What the mirror and the staging directories hold: files of their own    *)
(* product, in the mirror never an empty one.  A file seen in the mirror   *)
(* is still there when it is asked for.                                    *)
(***************************************************************************)
Published ==
  \A x \in Products : \A f \in Files : tree[x][f] \in {NoFile, Part(x), Whole(x)}

StageOf(p) ==
  /\ pc[p] \in {"idle", "ask"} => tree[p] = NoFiles
  /\ \A f \in Files : tree[p][f] \in {NoFile, Empty, Part(prod[p]), Whole(prod[p])}
  /\ pc[p] = "move dmg" => Sized(p)
  /\ pc[p] = "move cnk" => tree[p]["cnk"].kind \notin {"none", "empty"}

MirroredOf(p) ==
  pc[p] \in {"open", "body"} /\ via[p] = "mirror" => tree[prod[p]][what[p]] # NoFile

Stock == /\ Published
         /\ \A p \in Populators : StageOf(p)
         /\ \A p \in Runs : MirroredOf(p)

\* A fetch keeps the stock of files: it writes no mirrored file, and its own product's.
LEMMA FetchStock ==
  ASSUME Typed, Stock, NEW p \in Runs, Fetching(p)
  PROVE  Stock'
<1> USE RunFacts, FetchFrame DEF Files
<1>1. /\ p \in Dirs /\ tree[p] \in [Files -> Content] /\ what[p] \in Files
      /\ pc[p] \in {"probe", "open", "body"} => prod[p] \in Products
  BY DEF Typed, FetchTypeOK, Place
<1>2. Published'
  BY DEF Stock, Published
<1>3. ASSUME NEW q \in Runs \ {p} PROVE MirroredOf(q)'
  <2>1. prod[q] \in Products \/ pc[q] \notin {"open", "body"}
    BY <1>3 DEF Typed, Place
  <2> QED
    BY <1>3, <2>1 DEF Stock, MirroredOf
<1>4. ASSUME NEW q \in Populators \ {p} PROVE StageOf(q)'
  <2>1. tree'[q] = tree[q] /\ pc'[q] = pc[q] /\ prod'[q] = prod[q] /\ StageOf(q)
    BY <1>4 DEF Stock
  <2> QED
    BY <2>1 DEF StageOf, Sized
<1>5. MirroredOf(p)' /\ (p \in Populators => StageOf(p)')
  <2> USE DEF Goto
  <2>1. CASE Ask(p)
    <3>1. pc'[p] = "probe" /\ tree' = tree /\ pc[p] = "ask"
      BY <2>1 DEF Ask, Typed
    <3>2. p \in Populators => tree[p] = NoFiles
      BY <3>1 DEF Stock, StageOf
    <3> QED
      BY <3>1, <3>2 DEF MirroredOf, StageOf, NoFiles
  <2>2. CASE AskFails(p) \/ HttpError(p) \/ Verify(p)
    <3>1. pc'[p] \in {"exit 0", "exit 1"} /\ tree' = tree /\ prod' = prod
      BY <2>2 DEF AskFails, HttpError, Verify, fetchVars, Typed
    <3> QED
      BY <3>1 DEF Stock, MirroredOf, StageOf
  <2>3. CASE Probe(p)
    <3>1. /\ pc'[p] = "open" /\ tree' = tree /\ prod' = prod /\ what' = what
          /\ via'[p] = "mirror" => tree[prod[p]][what[p]] # NoFile
      BY <2>3 DEF Probe, Typed, FetchTypeOK
    <3> QED
      BY <3>1 DEF Stock, MirroredOf, StageOf
  <2>4. ASSUME NEW c, NEW to \in {"body", "open", "probe", "verify", "exit 1"},
               pc[p] \in {"probe", "open", "body"}, prod'[p] = prod[p],
               tree' = [tree EXCEPT ![p][what[p]] = c],
               c \in {NoFile, Empty, Part(prod[p]), Whole(prod[p])}, pc'[p] = to
        PROVE  p \in Populators => StageOf(p)'
    <3>1. \A f \in Files : tree'[p][f] = IF f = what[p] THEN c ELSE tree[p][f]
      BY <1>1, <2>4 DEF Typed, FetchTypeOK
    <3> QED
      BY <2>4, <3>1 DEF Stock, StageOf
  <2>5. CASE Open(p)
    <3>1. /\ pc'[p] = "body" /\ pc[p] = "open" /\ prod' = prod /\ what' = what /\ via' = via
          /\ tree' = [tree EXCEPT ![p][what[p]] = Empty]
      BY <2>5 DEF Open, Typed
    <3>2. MirroredOf(p)'
      <4>1. tree'[prod[p]] = tree[prod[p]]
        BY <1>1, <3>1
      <4> QED
        BY <3>1, <4>1 DEF Stock, MirroredOf
    <3> QED
      BY <2>4, <3>1, <3>2
  <2>6. ASSUME NEW c \in {NoFile, Empty, Part(prod[p]), Whole(prod[p])}, Saved(p, c)
        PROVE  MirroredOf(p)' /\ (p \in Populators => StageOf(p)')
    <3>1. /\ pc'[p] \in {"probe", "verify"} /\ pc[p] = "body" /\ prod' = prod
          /\ tree' = [tree EXCEPT ![p][what[p]] = c]
      BY <2>6 DEF Saved, Typed
    <3> QED
      BY <2>4, <3>1 DEF MirroredOf
  <2>7. CASE Served(p)
    <3>1. pc[p] = "body"
      BY <2>7 DEF Served, Saved
    <3>2. Source(p) \in {NoFile, Part(prod[p]), Whole(prod[p])}
      BY <1>1, <3>1 DEF Source, Stock, Published
    <3> QED
      BY <2>6, <2>7, <3>2 DEF Served
  <2>8. CASE CutShort(p)
    BY <2>6, <2>8 DEF CutShort
  <2>9. CASE Dropped(p)
    <3>1. PICK left \in {Empty, Part(prod[p])} :
            /\ pc[p] = "body" /\ pc'[p] \in {"open", "exit 1"} /\ prod' = prod
            /\ tree' = [tree EXCEPT ![p][what[p]] = left]
            /\ via'[p] = "apple"
      BY <2>9 DEF Dropped, Typed, FetchTypeOK
    <3> QED
      BY <2>4, <3>1 DEF MirroredOf
  <2> QED
    BY <2>1, <2>2, <2>3, <2>5, <2>7, <2>8, <2>9 DEF Fetching
<1> QED
  BY <1>2, <1>3, <1>4, <1>5 DEF Stock

\* What the end of a run leaves alone: other runs and every product's directory.
LEMMA EndFrame ==
  ASSUME Typed, NEW p \in Runs, End(p)
  PROVE  /\ pc'[p] = "idle" /\ flaky' = flaky
         /\ tree'[p] = IF p \in Populators THEN NoFiles ELSE tree[p]
         /\ \A d \in Dirs \ {p} : tree'[d] = tree[d]
         /\ \A q \in Runs \ {p} : /\ pc'[q] = pc[q] /\ prod'[q] = prod[q]
                                  /\ what'[q] = what[q] /\ via'[q] = via[q]
                                  /\ q \in Populators => read'[q] = read[q]
         /\ p \in Populators => read'[p] = NoIndex
BY RunFacts DEF End, Typed, FetchTypeOK

\* The end of a run keeps the stock of files.
LEMMA EndStock ==
  ASSUME Typed, Stock, NEW p \in Runs, End(p)
  PROVE  Stock'
<1> USE RunFacts, EndFrame DEF Files
<1>1. Published'
  BY DEF Stock, Published
<1>2. ASSUME NEW q \in Runs PROVE MirroredOf(q)'
  <2>1. prod[q] \in Products \/ pc[q] \notin {"open", "body"}
    BY DEF Typed, Place
  <2> QED
    BY <2>1 DEF Stock, MirroredOf
<1>3. ASSUME NEW q \in Populators PROVE StageOf(q)'
  <2>1. CASE q = p
    <3>1. pc'[q] = "idle" /\ tree'[q] = NoFiles
      BY <1>3, <2>1
    <3>2. \A f \in Files : tree'[q][f] = NoFile
      BY <3>1 DEF NoFiles
    <3> QED
      BY <3>1, <3>2 DEF StageOf
  <2>2. CASE q # p
    <3>1. StageOf(q)
      BY <1>3 DEF Stock
    <3>2. tree'[q] = tree[q] /\ pc'[q] = pc[q] /\ prod'[q] = prod[q]
      BY <1>3, <2>2
    <3> QED
      BY <3>1, <3>2 DEF StageOf, Sized
  <2> QED
    BY <2>1, <2>2
<1> QED
  BY <1>1, <1>2, <1>3 DEF Stock

(***************************************************************************)
(* A step that moves one run on and touches no recovery image.             *)
(***************************************************************************)
LEMMA MoveOnStock ==
  ASSUME Typed, Stock, NEW p \in Runs,
         NEW to \in PCs \ {"open", "body", "idle"}, pc' = [pc EXCEPT ![p] = to],
         UNCHANGED <<tree, prod, what, via>>,
         p \in Populators => /\ to = "ask" => pc[p] = "idle"
                             /\ to = "move dmg" => Sized(p)
                             /\ to # "move cnk"
  PROVE  Stock'
<1>1. pc'[p] = to /\ \A q \in Runs \ {p} : pc'[q] = pc[q]
  BY DEF Typed
<1>2. Published' /\ \A q \in Runs : MirroredOf(q)'
  BY <1>1 DEF Stock, Published, MirroredOf
<1>3. ASSUME NEW q \in Populators PROVE StageOf(q)'
  <2>1. CASE q = p
    BY <1>1, <2>1 DEF Stock, StageOf, Sized
  <2>2. CASE q # p
    BY <1>1, <2>2, RunFacts DEF Stock, StageOf, Sized
  <2> QED
    BY <2>1, <2>2
<1> QED
  BY <1>2, <1>3 DEF Stock

\* provision.sh keeps the stock of files.
LEMMA VmStock ==
  ASSUME Typed, Stock, NEW p \in Vms, Provisioning(p) \/ \E v \in Versions : Provision(p, v)
  PROVE  Stock'
<1> USE RunFacts DEF Goto, Go, PCs, FetchPCs
<1>1. CASE \E v \in Versions : Provision(p, v)
  BY <1>1, MoveOnStock DEF Provision, fetchVars
<1>2. CASE Fetched(p) \/ KeepImg(p) \/ StartConvert(p) \/ Convert(p)
  BY <1>2, MoveOnStock DEF Fetched, KeepImg, StartConvert, Convert, fetchVars
<1>3. CASE MakeDisk(p) \/ KeepNvram(p) \/ StartNvram(p) \/ CopyNvram(p)
  BY <1>3, MoveOnStock DEF MakeDisk, KeepNvram, StartNvram, CopyNvram, fetchVars
<1>4. CASE FetchFailed(p) \/ ConvertFails(p) \/ Ready(p)
  BY <1>4, EndStock DEF FetchFailed, ConvertFails, Ready, Fail
<1> QED
  BY <1>1, <1>2, <1>3, <1>4 DEF Provisioning

(***************************************************************************)
(* mv: the mirror's directory gets the staged file, which is of that       *)
(* product and not empty.                                                  *)
(***************************************************************************)
Moved(p, to, f) ==
  /\ prod' = prod /\ what' = what /\ via' = via
  /\ pc' = [pc EXCEPT ![p] = to]
  /\ \A d \in Dirs : \A g \in Files :
       tree'[d][g] = IF d = p /\ g = f THEN NoFile
                     ELSE IF d = prod[p] /\ g = f THEN tree[p][f] ELSE tree[d][g]

\* One mv -f of populate.sh:36, file by file.
LEMMA MoveFrame ==
  ASSUME Typed, Stock, NEW p \in Populators, NEW from, NEW to, NEW f \in Files,
         Move(p, from, to, f), prod[p] \in Products
  PROVE  Moved(p, to, f) /\ pc[p] = from /\ UNCHANGED <<flaky, index, read, hurt, ready>>
<1> DEFINE moved == [tree EXCEPT ![prod[p]][f] = tree[p][f]]
<1>1. /\ prod' = prod /\ what' = what /\ via' = via /\ pc[p] = from
      /\ pc' = [pc EXCEPT ![p] = to] /\ UNCHANGED <<flaky, index, read, hurt, ready>>
      /\ tree' = [moved EXCEPT ![p][f] = NoFile]
  BY DEF Move, Go, Goto, vmVars, indexVars, saidVars
<1>2. /\ p \in Dirs /\ prod[p] \in Dirs /\ p # prod[p]
      /\ tree \in [Dirs -> [Files -> Content]]
  BY RunFacts DEF Typed, FetchTypeOK, Files
<1>3. /\ moved \in [Dirs -> [Files -> Content]]
      /\ \A d \in Dirs : \A g \in Files :
           moved[d][g] = IF d = prod[p] /\ g = f THEN tree[p][f] ELSE tree[d][g]
  BY <1>2
<1> HIDE DEF moved
<1> QED
  BY <1>1, <1>2, <1>3 DEF Moved

(***************************************************************************)
(* The staged file that is moved is of that product and not empty.         *)
(***************************************************************************)
MoveFact(p, f, to) ==
  /\ Moved(p, to, f) /\ prod[p] \in Products
  /\ tree[p][f] \in {Part(prod[p]), Whole(prod[p])}
  /\ \/ f = "dmg" /\ pc[p] = "move dmg" /\ to = "move cnk"
     \/ f = "cnk" /\ pc[p] = "move cnk" /\ to = "index"
  /\ UNCHANGED <<flaky, index, read, hurt, ready>>

\* populate.sh's two moves are such moves, image first.
LEMMA MoveFacts ==
  ASSUME Typed, Stock, NEW p \in Populators, MoveDmg(p) \/ MoveCnk(p)
  PROVE  \E f \in Files : \E to \in {"move cnk", "index"} : MoveFact(p, f, to)
<1>1. pc[p] \in {"move dmg", "move cnk"} /\ prod[p] \in Products
  BY RunFacts DEF MoveDmg, MoveCnk, Move, Go, Goto, Typed, Place
<1>2. PICK f \in Files, from \in {"move dmg", "move cnk"}, to \in {"move cnk", "index"} :
        /\ Move(p, from, to, f) /\ pc[p] = from
        /\ \/ f = "dmg" /\ pc[p] = "move dmg" /\ to = "move cnk"
           \/ f = "cnk" /\ pc[p] = "move cnk" /\ to = "index"
  <2>1. CASE MoveDmg(p)
    BY <2>1 DEF MoveDmg, Move, Go, Goto, Files
  <2>2. CASE MoveCnk(p)
    BY <2>2 DEF MoveCnk, Move, Go, Goto, Files
  <2> QED
    BY <2>1, <2>2
<1>3. tree[p][f] \in {Part(prod[p]), Whole(prod[p])}
  BY <1>2, Kinds DEF Stock, StageOf, Sized, Files
<1>4. Move(p, from, to, f) /\ prod[p] \in Products
  BY <1>1, <1>2
<1>5. Moved(p, to, f) /\ UNCHANGED <<flaky, index, read, hurt, ready>>
  BY <1>2, <1>4, MoveFrame
<1>6. MoveFact(p, f, to)
  BY <1>1, <1>2, <1>3, <1>5 DEF MoveFact
<1> QED
  BY <1>2, <1>6

\* A move puts a product's file into that product's directory and no other.
LEMMA MoveStock ==
  ASSUME Typed, Stock, NEW p \in Populators, MoveDmg(p) \/ MoveCnk(p)
  PROVE  Stock'
<1>1. PICK f \in Files, to \in {"move cnk", "index"} : MoveFact(p, f, to)
  BY MoveFacts
<1>2. \/ f = "dmg" /\ pc[p] = "move dmg" /\ to = "move cnk"
      \/ f = "cnk" /\ pc[p] = "move cnk" /\ to = "index"
  BY <1>1 DEF MoveFact
<1>3. prod[p] \in Products /\ tree[p][f] \in {Part(prod[p]), Whole(prod[p])}
  BY <1>1 DEF MoveFact
<1>4. /\ prod' = prod /\ what' = what /\ via' = via
      /\ pc' = [pc EXCEPT ![p] = to]
      /\ \A d \in Dirs : \A g \in Files :
           tree'[d][g] = IF d = p /\ g = f THEN NoFile
                         ELSE IF d = prod[p] /\ g = f THEN tree[p][f] ELSE tree[d][g]
  BY <1>1 DEF MoveFact, Moved
<1>5. pc'[p] = to /\ \A q \in Runs \ {p} : pc'[q] = pc[q]
  BY <1>4, RunFacts DEF Typed
<1>6. Published'
  <2>1. ASSUME NEW x \in Products, NEW g \in Files
        PROVE  tree'[x][g] \in {NoFile, Part(x), Whole(x)}
    <3>1. x # p /\ x \in Dirs
      BY <2>1, RunFacts
    <3>2. tree'[x][g] = IF x = prod[p] /\ g = f THEN tree[p][f] ELSE tree[x][g]
      BY <1>4, <2>1, <3>1
    <3> QED
      BY <1>3, <2>1, <3>2 DEF Stock, Published
  <2> QED
    BY <2>1 DEF Published
<1>7. ASSUME NEW q \in Runs PROVE MirroredOf(q)'
  <2>1. prod[q] \in Products \/ pc[q] \notin {"open", "body"}
    BY DEF Typed, Place
  <2>2. what[q] \in Files
    BY DEF Typed, FetchTypeOK, Files
  <2>3. CASE q = p
    BY <1>5, <2>3 DEF MirroredOf
  <2>4. CASE q # p
    <3>1. pc'[q] = pc[q] /\ prod' = prod /\ what' = what /\ via' = via
      BY <1>4, <1>5, <1>7, <2>4
    <3>2. ASSUME prod[q] \in Products, tree[prod[q]][what[q]] # NoFile
          PROVE  tree'[prod[q]][what[q]] # NoFile
      <4>1. prod[q] # p /\ prod[q] \in Dirs
        BY <3>2, RunFacts
      <4>2. tree'[prod[q]][what[q]] = IF prod[q] = prod[p] /\ what[q] = f
                                      THEN tree[p][f] ELSE tree[prod[q]][what[q]]
        BY <1>4, <2>2, <4>1
      <4> QED
        BY <1>3, <3>2, <4>2, Kinds
    <3> QED
      BY <1>7, <2>1, <3>1, <3>2 DEF Stock, MirroredOf
  <2> QED
    BY <2>3, <2>4
<1>8. ASSUME NEW q \in Populators PROVE StageOf(q)'
  <2>1. CASE q = p
    <3>1. \A g \in Files : tree'[p][g] = IF g = f THEN NoFile ELSE tree[p][g]
      BY <1>3, <1>4, RunFacts
    <3> QED
      BY <1>2, <1>4, <1>5, <2>1, <3>1, RunFacts DEF Stock, StageOf, Sized, Files
  <2>2. CASE q # p
    <3>1. tree'[q] = tree[q]
      <4>1. \A g \in Files : tree'[q][g] = tree[q][g]
        BY <1>3, <1>4, <2>2, RunFacts
      <4>2. tree[q] \in [Files -> Content] /\ tree'[q] \in [Files -> Content]
        <5>1. FetchTypeOK /\ FetchTypeOK'
          BY PopulateTyped DEF Typed, Populating
        <5> QED
          BY <5>1, RunFacts DEF FetchTypeOK, Files
      <4>3. /\ tree'[q] = [g \in Files |-> tree'[q][g]]
            /\ tree[q] = [g \in Files |-> tree[q][g]]
        BY <4>2
      <4> QED
        BY <4>1, <4>3
    <3> QED
      BY <1>4, <1>5, <1>8, <2>2, <3>1, RunFacts DEF Stock, StageOf, Sized
  <2> QED
    BY <2>1, <2>2
<1> QED
  BY <1>6, <1>7, <1>8 DEF Stock

\* populate.sh keeps the stock of files.
LEMMA PopulatorStock ==
  ASSUME Typed, Stock, NEW p \in Populators,
         Populating(p) \/ \E v \in Versions : Skip(p, v) \/ Stage(p, v)
  PROVE  Stock'
<1> USE RunFacts DEF Goto, Go, PCs, FetchPCs
<1>1. CASE \E v \in Versions : Skip(p, v)
  BY <1>1 DEF Skip, fetchVars, Stock, Published, StageOf, MirroredOf, Sized
<1>2. CASE \E v \in Versions : Stage(p, v)
  BY <1>2, MoveOnStock DEF Stage, fetchVars
<1>3. CASE Accept(p)
  BY <1>3, MoveOnStock DEF Accept, Staged, fetchVars
<1>4. CASE GiveUp(p) \/ LoadIndexFails(p) \/ DumpIndex(p)
  BY <1>4, EndStock DEF GiveUp, LoadIndexFails, DumpIndex, Fail
<1>5. CASE LoadIndex(p) \/ TruncateIndex(p)
  BY <1>5, MoveOnStock DEF LoadIndex, TruncateIndex, fetchVars
<1> QED
  BY <1>1, <1>2, <1>3, <1>4, <1>5, MoveStock DEF Populating

\* Every step keeps the stock of files.
LEMMA StockNext == Typed /\ Stock /\ [Next]_vars => Stock'
<1> SUFFICES ASSUME Typed, Stock, [Next]_vars PROVE Stock'
  OBVIOUS
<1>1. CASE UNCHANGED vars
  BY <1>1 DEF vars, fetchVars, Stock, Published, StageOf, MirroredOf, Sized
<1>2. CASE \E v \in Versions : NewBuild(v) /\ UNCHANGED pc /\ Others
  BY <1>2 DEF NewBuild, Stock, Published, StageOf, MirroredOf, Sized
<1>3. CASE \E p \in Runs : Killed(p)
  BY <1>3, EndStock DEF Killed, Fail
<1> QED
  BY <1>1, <1>2, <1>3, FetchStock, VmStock, PopulatorStock DEF Next

\* With no files at all the stock is in order.
LEMMA InitStock == Init => Stock
<1> SUFFICES ASSUME Init PROVE Stock
  OBVIOUS
<1>1. /\ \A p \in Runs : pc[p] = "idle"
      /\ \A d \in Dirs : tree[d] = NoFiles
      /\ \A d \in Dirs : \A f \in Files : tree[d][f] = NoFile
  BY DEF Init, FetchInit, NoFiles, Files
<1> QED
  BY <1>1, RunFacts DEF Stock, Published, StageOf, MirroredOf

(***************************************************************************)
(* Whatever Apple, the link and the other runs do, a file in the mirror is *)
(* of the product it is served as.                                         *)
(***************************************************************************)
THEOREM MirrorIsTrue == Spec => []MirrorByProduct
<1>1. Stock => MirrorByProduct
  BY Kinds DEF Stock, Published, MirrorByProduct, Files
<1>2. Spec => [](Typed /\ Stock)
  BY InitTyped, TypedNext, InitStock, StockNext, PTL DEF Spec
<1> QED
  BY <1>1, <1>2, PTL

-----------------------------------------------------------------------------
(***************************************************************************)
(* What a step of the VM's own run may overwrite is not finished yet.      *)
(***************************************************************************)
SteadyOf(p) ==
  /\ pc[p] \in {"ask", "probe", "open", "body"} => tree[p]["dmg"].kind # "whole"
  /\ pc[p] = "convert" => img[p].kind # "whole"
  /\ pc[p] = "copying" => nvram[p] = "partial"

Steady == \A p \in Vms : SteadyOf(p)

Kept(p) ==
  /\ tree[p]["dmg"].kind = "whole" => tree'[p]["dmg"] = tree[p]["dmg"]
  /\ img[p].kind = "whole" => img'[p] = img[p]
  /\ nvram[p] = "template" => nvram'[p] = "template"

(***************************************************************************)
(* A VM whose files and place a step leaves alone.                         *)
(***************************************************************************)
LEMMA SteadyFrame ==
  ASSUME NEW q \in Vms, SteadyOf(q), pc'[q] = pc[q], tree'[q] = tree[q],
         img'[q] = img[q], nvram'[q] = nvram[q]
  PROVE  SteadyOf(q)' /\ Kept(q)
BY DEF SteadyOf, Kept

(***************************************************************************)
(* A fetch is only on its way in a directory without a whole image.        *)
(***************************************************************************)
LEMMA FetchSteady ==
  ASSUME Typed, Steady, NEW p \in Runs, Fetching(p), Others, NEW q \in Vms
  PROVE  SteadyOf(q)' /\ Kept(q)
<1>1. img' = img /\ nvram' = nvram /\ SteadyOf(q) /\ q \in Runs
  BY RunFacts DEF Others, vmVars, Steady
<1>2. CASE q # p
  BY <1>1, <1>2, FetchFrame, SteadyFrame, RunFacts
<1>3. CASE q = p
  <2> USE DEF Goto
  <2>1. what[p] \in {"cnk", "dmg"} /\ p \in Dirs /\ tree[p] \in [Files -> Content]
    BY RunFacts DEF Typed, FetchTypeOK, Files
  <2>2. CASE Ask(p) \/ Probe(p)
    <3>1. tree' = tree /\ pc[p] \in {"ask", "probe"} /\ pc'[p] \in {"probe", "open"}
      BY <2>2 DEF Ask, Probe, Typed
    <3> QED
      BY <1>1, <1>3, <3>1 DEF SteadyOf, Kept
  <2>3. CASE AskFails(p) \/ HttpError(p) \/ Verify(p)
    <3>1. tree' = tree /\ pc'[p] \in {"exit 0", "exit 1"}
      BY <2>3 DEF AskFails, HttpError, Verify, fetchVars, Typed
    <3> QED
      BY <1>1, <1>3, <3>1 DEF SteadyOf, Kept
  <2> DEFINE Filling(c) ==
        /\ pc[p] \in {"open", "body"} /\ tree' = [tree EXCEPT ![p][what[p]] = c]
        /\ \/ pc'[p] \in {"verify", "exit 1"}
           \/ pc'[p] = "probe" /\ what[p] = "cnk"
           \/ pc'[p] \in {"open", "body"} /\ c.kind # "whole"
  <2>4. ASSUME NEW c, Filling(c) PROVE SteadyOf(q)' /\ Kept(q)
    <3>1. tree'[p]["dmg"] = IF what[p] = "dmg" THEN c ELSE tree[p]["dmg"]
      BY <2>1, <2>4 DEF Typed, FetchTypeOK
    <3> QED
      BY <1>1, <1>3, <2>1, <2>4, <3>1 DEF SteadyOf, Kept
  <2>5. CASE Open(p)
    <3>1. Filling(Empty)
      BY <2>5, Kinds DEF Open, Typed
    <3> HIDE DEF Filling
    <3> QED
      BY <2>4, <3>1
  <2>6. ASSUME NEW c, Saved(p, c) PROVE SteadyOf(q)' /\ Kept(q)
    <3>1. Filling(c)
      BY <2>1, <2>6 DEF Saved, Typed
    <3> HIDE DEF Filling
    <3> QED
      BY <2>4, <3>1
  <2>7. CASE Served(p)
    <3>1. PICK c : c = Source(p)
      OBVIOUS
    <3> QED
      BY <1>3, <2>6, <2>7, <3>1 DEF Served
  <2>8. CASE CutShort(p)
    BY <1>3, <2>6, <2>8 DEF CutShort
  <2>9. CASE Dropped(p)
    <3>1. PICK left \in {Empty, Part(prod[p])} : Filling(left)
      BY <2>9, Kinds DEF Dropped, Typed
    <3> HIDE DEF Filling
    <3> QED
      BY <2>4, <3>1
  <2> QED
    BY <2>2, <2>3, <2>5, <2>7, <2>8, <2>9 DEF Fetching
<1> QED
  BY <1>2, <1>3

(***************************************************************************)
(* A run that ends leaves the VMs' files alone.                            *)
(***************************************************************************)
LEMMA EndSteady ==
  ASSUME Typed, Steady, NEW p \in Runs, End(p), NEW q \in Vms,
         p # q => img'[q] = img[q] /\ nvram'[q] = nvram[q],
         p = q => Kept(q)
  PROVE  SteadyOf(q)' /\ Kept(q)
<1>1. SteadyOf(q)
  BY DEF Steady
<1>2. CASE q # p
  BY <1>1, <1>2, EndFrame, SteadyFrame, RunFacts
<1>3. CASE q = p
  BY <1>3, EndFrame DEF SteadyOf
<1> QED
  BY <1>2, <1>3

(***************************************************************************)
(* provision.sh makes a file only where none was when it looked.           *)
(***************************************************************************)
LEMMA VmSteady ==
  ASSUME Typed, Steady, NEW p \in Vms, NEW q \in Vms,
         Provisioning(p) \/ \E v \in Versions : Provision(p, v)
  PROVE  SteadyOf(q)' /\ Kept(q)
<1> USE DEF Goto, Go
<1>1. SteadyOf(p) /\ SteadyOf(q) /\ p \in Runs /\ q \in Runs
  BY RunFacts DEF Steady
<1>2. CASE \E v \in Versions : Provision(p, v)
  <2>1. /\ tree' = tree /\ img' = img /\ nvram' = nvram
        /\ pc' = [pc EXCEPT ![p] = IF tree[p]["dmg"] = NoFile THEN "ask" ELSE "img"]
    BY <1>2 DEF Provision, fetchVars, vmVars
  <2> QED
    BY <1>1, <2>1, Kinds DEF Typed, SteadyOf, Kept
<1>3. CASE Fetched(p) \/ KeepImg(p) \/ MakeDisk(p) \/ KeepNvram(p)
  <2>1. /\ tree' = tree /\ img' = img /\ nvram' = nvram
        /\ \E to \in {"img", "disk", "nvram", "ready"} : pc' = [pc EXCEPT ![p] = to]
    BY <1>3 DEF Fetched, KeepImg, MakeDisk, KeepNvram, fetchVars, vmVars
  <2> QED
    BY <1>1, <2>1 DEF Typed, SteadyOf, Kept
<1>4. CASE StartConvert(p)
  BY <1>1, <1>4, Kinds DEF StartConvert, fetchVars, Typed, RestTypeOK, SteadyOf, Kept, NoImg
<1>5. CASE Convert(p)
  BY <1>1, <1>5 DEF Convert, fetchVars, Typed, RestTypeOK, SteadyOf, Kept
<1>6. CASE StartNvram(p)
  BY <1>1, <1>6 DEF StartNvram, fetchVars, Typed, RestTypeOK, SteadyOf, Kept
<1>7. CASE CopyNvram(p)
  BY <1>1, <1>7 DEF CopyNvram, fetchVars, Typed, RestTypeOK, SteadyOf, Kept
<1>8. CASE FetchFailed(p) \/ Ready(p)
  <2>1. End(p) /\ img' = img /\ nvram' = nvram
    BY <1>8 DEF FetchFailed, Ready, Fail, vmVars
  <2>2. p = q => tree'[q] = tree[q]
    BY <2>1, EndFrame, RunFacts
  <2> QED
    BY <1>1, <2>1, <2>2, EndSteady DEF Kept
<1>9. CASE ConvertFails(p)
  <2>1. End(p) /\ nvram' = nvram /\ pc[p] = "convert"
    BY <1>9 DEF ConvertFails, Fail
  <2>2. q # p => img'[q] = img[q]
    BY <1>9 DEF ConvertFails, Typed, RestTypeOK
  <2>3. p = q => tree'[q] = tree[q] /\ img[q].kind # "whole"
    BY <1>1, <2>1, EndFrame, RunFacts DEF SteadyOf
  <2> QED
    BY <1>1, <2>1, <2>2, <2>3, EndSteady DEF Kept
<1> QED
  BY <1>2, <1>3, <1>4, <1>5, <1>6, <1>7, <1>8, <1>9 DEF Provisioning

(***************************************************************************)
(* populate.sh has nothing to do with the VMs' directories.                *)
(***************************************************************************)
LEMMA PopulatorSteady ==
  ASSUME Typed, Stock, Steady, NEW p \in Populators, NEW q \in Vms,
         Populating(p) \/ \E v \in Versions : Skip(p, v) \/ Stage(p, v)
  PROVE  SteadyOf(q)' /\ Kept(q)
<1> USE DEF Goto, Go
<1>1. SteadyOf(q) /\ p \in Runs /\ q \in Runs /\ p # q /\ q \in Dirs /\ q \notin Products
  BY RunFacts DEF Steady
<1>2. CASE \/ \E v \in Versions : Skip(p, v) \/ Stage(p, v)
           \/ Accept(p) \/ LoadIndex(p) \/ TruncateIndex(p)
  <2>1. /\ tree' = tree /\ img' = img /\ nvram' = nvram
        /\ pc' = pc \/ \E to : pc' = [pc EXCEPT ![p] = to]
    BY <1>2 DEF Skip, Stage, Accept, LoadIndex, TruncateIndex, fetchVars, vmVars
  <2> QED
    BY <1>1, <2>1, SteadyFrame DEF Typed
<1>3. CASE GiveUp(p) \/ LoadIndexFails(p) \/ DumpIndex(p)
  <2>1. End(p) /\ img' = img /\ nvram' = nvram
    BY <1>3 DEF GiveUp, LoadIndexFails, DumpIndex, Fail, vmVars
  <2> QED
    BY <1>1, <2>1, EndSteady
<1>4. CASE MoveDmg(p) \/ MoveCnk(p)
  <2>1. /\ tree' = [tree EXCEPT ![prod[p]] = tree'[prod[p]], ![p] = tree'[p]]
        /\ img' = img /\ nvram' = nvram /\ \E to : pc' = [pc EXCEPT ![p] = to]
        /\ prod[p] \in Products
    BY <1>1, <1>4 DEF MoveDmg, MoveCnk, Move, vmVars, Typed, FetchTypeOK, Place
  <2> QED
    BY <1>1, <2>1, SteadyFrame DEF Typed, FetchTypeOK
<1> QED
  BY <1>2, <1>3, <1>4 DEF Populating

\* Every step keeps a VM's finished images, and those of every other VM.
LEMMA SteadyNext ==
  ASSUME Typed, Stock, Steady, [Next]_vars, NEW q \in Vms
  PROVE  SteadyOf(q)' /\ Kept(q)
<1>1. SteadyOf(q) /\ q \in Runs
  BY RunFacts DEF Steady
<1>2. CASE UNCHANGED vars
  BY <1>1, <1>2, SteadyFrame DEF vars, fetchVars, vmVars
<1>3. CASE \E p \in Runs : Fetching(p) /\ Others
  BY <1>3, FetchSteady
<1>4. CASE \E v \in Versions : NewBuild(v) /\ UNCHANGED pc /\ Others
  BY <1>1, <1>4, SteadyFrame DEF NewBuild, Others, vmVars
<1>5. CASE \E p \in Vms : Provisioning(p) \/ \E v \in Versions : Provision(p, v)
  BY <1>5, VmSteady
<1>6. CASE \E p \in Populators : Populating(p) \/ \E v \in Versions : Skip(p, v) \/ Stage(p, v)
  BY <1>6, PopulatorSteady
<1>7. CASE \E p \in Runs : Killed(p)
  <2>1. PICK p \in Runs : End(p) /\ img' = img /\ nvram' = nvram
    BY <1>7 DEF Killed, Fail, vmVars
  <2>2. p = q => tree'[q] = tree[q]
    BY <2>1, EndFrame, RunFacts
  <2> QED
    BY <2>1, <2>2, EndSteady DEF Kept
<1> QED
  BY <1>2, <1>3, <1>4, <1>5, <1>6, <1>7 DEF Next

(***************************************************************************)
(* The whole state: types, the stock of files, the VMs' finished images.   *)
(***************************************************************************)
IndInv == Typed /\ Stock /\ Steady

\* Types, stock and finished images are an invariant of the fleet's provisioning.
THEOREM Invariance == Spec => []IndInv
<1>1. Init => Steady
  BY RunFacts DEF Init, Steady, SteadyOf
<1>2. IndInv /\ [Next]_vars => IndInv'
  BY TypedNext, StockNext, SteadyNext DEF IndInv, Steady
<1> QED
  BY <1>1, <1>2, InitTyped, InitStock, PTL DEF Spec, IndInv

(***************************************************************************)
(* provision.sh:3, "skips any step whose output already exists": a whole   *)
(* image, a converted one and a copied NVRAM file are never written again. *)
(***************************************************************************)
THEOREM ImagesStay == Spec => ImagesKept
<1>1. IndInv /\ [Next]_vars => \A p \in Vms : Kept(p)
  BY SteadyNext DEF IndInv
<1> QED
  BY <1>1, Invariance, PTL DEF Spec, ImagesKept, Kept

-----------------------------------------------------------------------------
(***************************************************************************)
(* A file that is in the mirror stays there: it is only replaced by        *)
(* another that is not empty.                                              *)
(***************************************************************************)
There(x, f) == tree[x][f].kind \notin {"none", "empty"}

\* No step takes a file out of the mirror or empties it.
LEMMA ThereStays ==
  ASSUME Typed, Stock, [Next]_vars, NEW x \in Products, NEW f \in Files, There(x, f)
  PROVE  There(x, f)'
<1>1. x \in Dirs /\ x \notin Runs
  BY RunFacts
<1>2. ASSUME tree'[x] = tree[x] PROVE There(x, f)'
  BY <1>2 DEF There
<1>3. ASSUME NEW p \in Runs, Fetching(p) PROVE There(x, f)'
  BY <1>1, <1>2, <1>3, FetchFrame
<1>4. ASSUME NEW p \in Runs, End(p) PROVE There(x, f)'
  BY <1>1, <1>2, <1>4, EndFrame
<1>5. ASSUME NEW p \in Populators, MoveDmg(p) \/ MoveCnk(p) PROVE There(x, f)'
  <2>1. PICK g \in Files, to \in {"move cnk", "index"} : MoveFact(p, g, to)
    BY <1>5, MoveFacts
  <2>2. tree[p][g] \in {Part(prod[p]), Whole(prod[p])} /\ Moved(p, to, g)
    BY <2>1 DEF MoveFact
  <2>3. tree[p][g].kind \in {"part", "whole"}
    BY <2>2, Kinds
  <2>4. x # p
    BY <1>1, <1>5, RunFacts
  <2>5. tree'[x][f] = IF x = prod[p] /\ f = g THEN tree[p][g] ELSE tree[x][f]
    BY <1>1, <2>2, <2>4 DEF Moved
  <2> QED
    BY <2>3, <2>5 DEF There
<1>6. ASSUME tree' = tree PROVE There(x, f)'
  BY <1>2, <1>6
<1>7. CASE UNCHANGED vars
  BY <1>6, <1>7 DEF vars, fetchVars
<1>8. CASE \E v \in Versions : NewBuild(v) /\ UNCHANGED pc /\ Others
  BY <1>6, <1>8 DEF NewBuild
<1>9. ASSUME NEW p \in Vms, Provisioning(p) \/ \E v \in Versions : Provision(p, v)
      PROVE  There(x, f)'
  <2>1. tree' = tree \/ End(p)
    BY <1>9 DEF Provisioning, Provision, Fetched, FetchFailed, KeepImg, StartConvert, Convert,
                ConvertFails, MakeDisk, KeepNvram, StartNvram, CopyNvram, Ready, Fail, fetchVars
  <2> QED
    BY <1>4, <1>6, <2>1, RunFacts
<1>10. ASSUME NEW p \in Populators,
              Populating(p) \/ \E v \in Versions : Skip(p, v) \/ Stage(p, v)
       PROVE  There(x, f)'
  <2>1. tree' = tree \/ End(p) \/ MoveDmg(p) \/ MoveCnk(p)
    BY <1>10 DEF Populating, Skip, Stage, Accept, GiveUp, LoadIndex, LoadIndexFails,
                 TruncateIndex, DumpIndex, Fail, fetchVars
  <2> QED
    BY <1>4, <1>5, <1>6, <2>1, RunFacts
<1>11. ASSUME NEW p \in Runs, Killed(p) PROVE There(x, f)'
  BY <1>4, <1>11 DEF Killed, Fail
<1> QED
  BY <1>3, <1>7, <1>8, <1>9, <1>10, <1>11 DEF Next

(***************************************************************************)
(* A fetch leads to places of fetch-macOS-v2.py only.                      *)
(***************************************************************************)
LEMMA FetchPlace ==
  ASSUME Typed, NEW p \in Runs, Fetching(p)
  PROVE  pc'[p] \in FetchPCs
<1>1. \E to \in FetchPCs : pc' = [pc EXCEPT ![p] = to]
  BY DEF Fetching, Ask, AskFails, Probe, Open, Served, Saved, CutShort, Dropped, HttpError,
         Verify, Goto, FetchPCs
<1> QED
  BY <1>1 DEF Typed

(***************************************************************************)
(* What is in the index, in a copy of it or about to be entered is there.  *)
(***************************************************************************)
IndexedOf(p) ==
  /\ pc[p] = "move cnk" => There(prod[p], "dmg")
  /\ pc[p] = "index" => Sized(prod[p])
  /\ \A v \in Versions : read[p][v] # NoProduct => Sized(read[p][v])

Indexed == IndexServed /\ \A p \in Populators : IndexedOf(p)

\* Every step keeps what the index, its copies and runs about to write it name.
LEMMA IndexedNext ==
  ASSUME Typed, Stock, Indexed, [Next]_vars
  PROVE  Indexed'
<1>1. \A x \in Products : /\ There(x, "dmg") => There(x, "dmg")'
                          /\ Sized(x) => Sized(x)'
  <2>1. \A x \in Products : \A f \in Files : There(x, f) => There(x, f)'
    BY ThereStays
  <2> QED
    BY <2>1 DEF There, Sized, Files
<1>2. /\ index # Torn => index \in [Versions -> Products \union {NoProduct}]
      /\ read \in [Populators -> [Versions -> Products \union {NoProduct}]]
  BY DEF Typed, RestTypeOK
<1>3. ASSUME index' = index PROVE IndexServed'
  BY <1>1, <1>2, <1>3 DEF Indexed, IndexServed
<1>4. ASSUME NEW q \in Populators, prod'[q] = prod[q], read'[q] = read[q],
             pc'[q] \in {"move cnk", "index"} => pc'[q] = pc[q]
      PROVE  IndexedOf(q)'
  <2>1. pc[q] \in {"move cnk", "index"} => prod[q] \in Products
    BY RunFacts DEF Typed, Place
  <2>2. IndexedOf(q) /\ \A v \in Versions : read[q][v] # NoProduct => read[q][v] \in Products
    BY <1>2 DEF Indexed
  <2> QED
    BY <1>1, <1>4, <2>1, <2>2 DEF IndexedOf
<1>5. ASSUME index' = index, read' = read,
             \A q \in Populators : /\ pc'[q] \in {"move cnk", "index"} => pc'[q] = pc[q]
                                   /\ prod'[q] = prod[q] \/ pc'[q] \notin {"move cnk", "index"}
      PROVE  Indexed'
  <2>1. ASSUME NEW q \in Populators, prod'[q] # prod[q] PROVE IndexedOf(q)'
    <3>1. pc'[q] \notin {"move cnk", "index"}
      BY <1>5, <2>1
    <3>2. \A v \in Versions : read[q][v] # NoProduct => Sized(read[q][v]) /\ read[q][v] \in Products
      BY <1>2, <2>1 DEF Indexed, IndexedOf
    <3> QED
      BY <1>1, <1>5, <3>1, <3>2 DEF IndexedOf
  <2> QED
    BY <1>3, <1>4, <1>5, <2>1 DEF Indexed
<1>6. ASSUME NEW p \in Runs, End(p) PROVE \A q \in Populators : IndexedOf(q)'
  <2>1. ASSUME NEW q \in Populators, q = p PROVE IndexedOf(q)'
    BY <1>6, <2>1, EndFrame DEF IndexedOf, NoIndex
  <2>2. ASSUME NEW q \in Populators, q # p PROVE IndexedOf(q)'
    BY <1>4, <1>6, <2>2, EndFrame, RunFacts
  <2> QED
    BY <2>1, <2>2
<1>7. CASE UNCHANGED vars
  BY <1>5, <1>7 DEF vars, fetchVars, indexVars
<1>8. CASE \E v \in Versions : NewBuild(v) /\ UNCHANGED pc /\ Others
  BY <1>5, <1>8 DEF NewBuild, Others, indexVars
<1>9. ASSUME NEW p \in Runs, Fetching(p), Others PROVE Indexed'
  <2>1. pc'[p] \notin {"move cnk", "index"}
    BY <1>9, FetchPlace DEF FetchPCs
  <2> QED
    BY <1>5, <1>9, <2>1, FetchFrame, RunFacts DEF Others, indexVars
<1>10. ASSUME NEW p \in Runs, Killed(p) PROVE Indexed'
  BY <1>3, <1>6, <1>10 DEF Killed, Fail, Indexed
<1>11. ASSUME NEW p \in Vms, Provisioning(p) \/ \E v \in Versions : Provision(p, v)
       PROVE  Indexed'
  <2>1. \/ End(p) /\ index' = index
        \/ /\ index' = index /\ read' = read /\ prod' = prod
           /\ \E to : pc' = [pc EXCEPT ![p] = to]
    BY <1>11 DEF Provisioning, Provision, Fetched, FetchFailed, KeepImg, StartConvert, Convert,
                 ConvertFails, MakeDisk, KeepNvram, StartNvram, CopyNvram, Ready, Fail, fetchVars,
                 indexVars, Go, Goto
  <2>2. CASE End(p) /\ index' = index
    BY <1>3, <1>6, <2>2, RunFacts DEF Indexed
  <2>3. CASE /\ index' = index /\ read' = read /\ prod' = prod
             /\ \E to : pc' = [pc EXCEPT ![p] = to]
    BY <1>5, <2>3, RunFacts DEF Typed
  <2> QED
    BY <2>1, <2>2, <2>3
<1>12. ASSUME NEW p \in Populators, Populating(p) \/ \E v \in Versions : Skip(p, v) \/ Stage(p, v)
       PROVE  Indexed'
  <2> USE DEF Go, Goto
  <2>1. CASE \E v \in Versions : Skip(p, v)
    BY <1>5, <2>1 DEF Skip, fetchVars, indexVars
  <2>2. CASE \/ \E v \in Versions : Stage(p, v)
             \/ Accept(p)
    <3>1. /\ index' = index /\ read' = read /\ prod' = prod
          /\ \E to \in {"ask", "move dmg"} : pc' = [pc EXCEPT ![p] = to]
      BY <2>2 DEF Stage, Accept, fetchVars, indexVars
    <3> QED
      BY <1>5, <3>1, RunFacts DEF Typed
  <2>3. CASE GiveUp(p) \/ LoadIndexFails(p)
    BY <1>3, <1>6, <2>3, RunFacts DEF GiveUp, LoadIndexFails, Fail, Indexed
  <2>4. CASE MoveDmg(p) \/ MoveCnk(p)
    <3>1. PICK f \in Files, to \in {"move cnk", "index"} : MoveFact(p, f, to)
      BY <2>4, MoveFacts
    <3>2. /\ prod' = prod /\ read' = read /\ index' = index /\ pc' = [pc EXCEPT ![p] = to]
          /\ prod[p] \in Products /\ Moved(p, to, f)
          /\ tree[p][f] \in {Part(prod[p]), Whole(prod[p])}
      BY <3>1 DEF MoveFact, Moved
    <3>3. prod[p] \in Dirs /\ prod[p] # p
      BY <3>2, RunFacts
    <3>4. tree'[prod[p]][f] = tree[p][f]
      BY <3>2, <3>3 DEF Moved
    <3>5. /\ prod' = prod /\ read' = read /\ index' = index /\ pc' = [pc EXCEPT ![p] = to]
          /\ There(prod[p], f)' /\ prod[p] \in Products
      BY <3>2, <3>4, Kinds DEF There
    <3>6. IndexedOf(p) /\ \A v \in Versions : read[p][v] # NoProduct => read[p][v] \in Products
      BY <1>2 DEF Indexed
    <3>7. \A v \in Versions : read[p][v] # NoProduct => Sized(read[p][v])'
      BY <1>1, <3>5, <3>6 DEF IndexedOf
    <3>8. /\ pc'[p] = "move cnk" => There(prod[p], "dmg")'
          /\ pc'[p] = "index" => Sized(prod[p])'
      <4>1. pc'[p] = to
        BY <3>5, RunFacts DEF Typed
      <4>2. CASE to = "move cnk"
        BY <3>1, <3>5, <4>1, <4>2 DEF MoveFact
      <4>3. CASE to = "index"
        <5>1. f = "cnk" /\ pc[p] = "move cnk"
          BY <3>1, <4>3 DEF MoveFact
        <5>2. There(prod[p], "dmg")' /\ There(prod[p], "cnk")'
          BY <1>1, <3>5, <3>6, <5>1 DEF IndexedOf
        <5> QED
          BY <4>1, <4>3, <5>2 DEF Sized, There
      <4> QED
        BY <3>1, <4>2, <4>3
    <3>9. IndexedOf(p)'
      BY <3>5, <3>7, <3>8 DEF IndexedOf
    <3>10. ASSUME NEW q \in Populators, q # p PROVE IndexedOf(q)'
      BY <1>4, <3>5, <3>10, RunFacts DEF Typed
    <3> QED
      BY <1>3, <3>5, <3>9, <3>10 DEF Indexed
  <2>5. CASE LoadIndex(p)
    <3>1. /\ index' = index /\ index # Torn /\ prod' = prod /\ pc[p] = "index"
          /\ pc' = [pc EXCEPT ![p] = "truncate"]
          /\ read' = [read EXCEPT ![p] = [index EXCEPT ![version[p]] = prod[p]]]
      BY <2>5 DEF LoadIndex, fetchVars
    <3>2. prod[p] \in Products /\ Sized(prod[p]) /\ pc'[p] = "truncate"
      BY <3>1, RunFacts DEF Typed, Place, Indexed, IndexedOf
    <3>3. \A v \in Versions : index[v] # NoProduct => index[v] \in Products /\ Sized(index[v])
      BY <1>2, <3>1 DEF Indexed, IndexServed
    <3>4. \A v \in Versions : read'[p][v] \in {index[v], prod[p]}
      BY <1>2, <3>1
    <3>5. IndexedOf(p)'
      BY <1>1, <3>2, <3>3, <3>4 DEF IndexedOf
    <3>6. ASSUME NEW q \in Populators, q # p PROVE IndexedOf(q)'
      BY <1>2, <1>4, <3>1, <3>6, RunFacts DEF Typed
    <3> QED
      BY <1>3, <3>1, <3>5, <3>6 DEF Indexed
  <2>6. CASE TruncateIndex(p)
    <3>1. /\ index' = Torn /\ read' = read /\ prod' = prod
          /\ pc' = [pc EXCEPT ![p] = "dump"]
      BY <2>6 DEF TruncateIndex, fetchVars
    <3>2. IndexServed'
      BY <3>1 DEF IndexServed, Torn
    <3>3. ASSUME NEW q \in Populators PROVE IndexedOf(q)'
      BY <1>4, <3>1, <3>3, RunFacts DEF Typed
    <3> QED
      BY <3>2, <3>3 DEF Indexed
  <2>7. CASE DumpIndex(p)
    <3>1. index' \in {read[p], Torn} /\ End(p)
      BY <2>7 DEF DumpIndex
    <3>2. \A v \in Versions : read[p][v] # NoProduct => read[p][v] \in Products /\ Sized(read[p][v])
      BY <1>2 DEF Indexed, IndexedOf
    <3>3. IndexServed'
      BY <1>1, <3>1, <3>2 DEF IndexServed, Torn
    <3> QED
      BY <1>6, <3>1, <3>3, RunFacts DEF Indexed
  <2> QED
    BY <1>12, <2>1, <2>2, <2>3, <2>4, <2>5, <2>6, <2>7 DEF Populating
<1> QED
  BY <1>7, <1>8, <1>9, <1>10, <1>11, <1>12 DEF Next

(***************************************************************************)
(* However runs over one mirror interleave, overwrite each other's index   *)
(* or die, an index that can be read names only what is there.             *)
(***************************************************************************)
THEOREM IndexNeverAhead == Spec => []IndexServed
<1>1. Init => Indexed
  <2> SUFFICES ASSUME Init PROVE Indexed
    OBVIOUS
  <2>1. /\ index = NoIndex /\ \A p \in Populators : read[p] = NoIndex /\ pc[p] = "idle"
    BY RunFacts DEF Init
  <2> QED
    BY <2>1 DEF Indexed, IndexServed, IndexedOf, NoIndex
<1>2. IndInv /\ Indexed /\ [Next]_vars => Indexed'
  BY IndexedNext DEF IndInv
<1>3. Indexed => IndexServed
  BY DEF Indexed
<1> QED
  BY <1>1, <1>2, <1>3, Invariance, PTL DEF Spec

-----------------------------------------------------------------------------
(***************************************************************************)
(* "ready" is the truth.  While no body has been cut short, a part of a    *)
(* file is nowhere but in the directory of a run that is about to open     *)
(* that file again, after its mirror dropped the connection.               *)
(***************************************************************************)
UncutOf(p) ==
  \A f \in Files : tree[p][f].kind = "part" => pc[p] = "open" /\ what[p] = f

Uncut == ~flaky => /\ \A x \in Products : \A f \in Files : tree[x][f].kind # "part"
                   /\ \A p \in Populators : UncutOf(p)

(***************************************************************************)
(* What a step of a fetch does that leaves no cut body behind.             *)
(***************************************************************************)
Fills(p, c) == \A f \in Files : tree'[p][f] = IF f = what[p] THEN c ELSE tree[p][f]

CleanFetch(p) ==
  \/ /\ tree'[p] = tree[p]
     /\ \/ pc[p] \in {"ask", "body"} /\ pc'[p] = "exit 1"
        \/ pc[p] = "ask" /\ pc'[p] = "probe"
        \/ pc[p] = "probe" /\ pc'[p] = "open"
        \/ pc[p] = "verify" /\ pc'[p] = "exit 0"
  \/ pc[p] = "open" /\ pc'[p] = "body" /\ Fills(p, Empty) /\ what' = what
  \/ /\ pc[p] = "body" /\ Fills(p, Whole(prod[p]))
     /\ \/ what[p] = "cnk" /\ pc'[p] = "probe"
        \/ what[p] = "dmg" /\ pc'[p] = "verify"
  \/ /\ pc[p] = "body" /\ pc'[p] = "open" /\ what' = what
     /\ \E c \in {Empty, Part(prod[p])} : Fills(p, c)
  \/ pc[p] = "body" /\ pc'[p] = "exit 1" /\ Fills(p, Empty)

\* A body that is served to its end is the product's file: mirrors hold whole ones.
LEMMA FetchIsClean ==
  ASSUME Typed, Stock, Uncut, NEW p \in Runs, Fetching(p), ~flaky'
  PROVE  CleanFetch(p)
<1> USE DEF Goto
<1>0. ~flaky
  BY FetchFrame
<1>1. /\ p \in Dirs /\ tree \in [Dirs -> [Files -> Content]] /\ what[p] \in Files
      /\ pc \in [Runs -> PCs] /\ what \in [Runs -> Files]
      /\ pc[p] = "body" => prod[p] \in Products
  BY RunFacts DEF Typed, FetchTypeOK, Place, Files
<1>2. ASSUME NEW c, tree' = [tree EXCEPT ![p][what[p]] = c] PROVE Fills(p, c)
  BY <1>1, <1>2 DEF Fills
<1>3. CASE Ask(p) \/ AskFails(p) \/ HttpError(p) \/ Verify(p) \/ Probe(p)
  <2>1. tree' = tree
    BY <1>3 DEF Ask, AskFails, HttpError, Verify, Probe, fetchVars
  <2>2. \/ pc[p] \in {"ask", "body"} /\ pc'[p] = "exit 1"
        \/ pc[p] = "ask" /\ pc'[p] = "probe"
        \/ pc[p] = "probe" /\ pc'[p] = "open"
        \/ pc[p] = "verify" /\ pc'[p] = "exit 0"
    BY <1>1, <1>3 DEF Ask, AskFails, HttpError, Verify, Probe
  <2> QED
    BY <2>1, <2>2 DEF CleanFetch
<1>4. CASE Open(p)
  <2>1. pc[p] = "open" /\ pc'[p] = "body" /\ what' = what /\ Fills(p, Empty)
    BY <1>1, <1>2, <1>4 DEF Open
  <2> QED
    BY <2>1 DEF CleanFetch
<1>5. CASE Served(p)
  <2>1. pc[p] = "body" /\ Saved(p, Source(p))
    BY <1>5 DEF Served, Saved
  <2>2. Source(p) = Whole(prod[p])
    <3>1. prod[p] \in Products /\ what[p] \in Files
      BY <1>1, <2>1
    <3>2. via[p] = "mirror" => tree[prod[p]][what[p]] # NoFile
      BY <2>1 DEF Stock, MirroredOf
    <3>3. tree[prod[p]][what[p]] \in {NoFile, Part(prod[p]), Whole(prod[p])}
      BY <3>1 DEF Stock, Published
    <3>4. tree[prod[p]][what[p]].kind # "part"
      BY <1>0, <3>1 DEF Uncut
    <3> QED
      BY <3>2, <3>3, <3>4, Kinds DEF Source
  <2>3. \/ what[p] = "cnk" /\ pc'[p] = "probe"
        \/ what[p] = "dmg" /\ pc'[p] = "verify"
    BY <1>1, <2>1 DEF Saved, Files
  <2>4. Fills(p, Whole(prod[p]))
    BY <1>2, <2>1, <2>2 DEF Saved
  <2> QED
    BY <2>1, <2>3, <2>4 DEF CleanFetch
<1>6. CASE CutShort(p)
  BY <1>6 DEF CutShort
<1>7. CASE Dropped(p)
  <2>1. PICK left \in {Empty, Part(prod[p])} :
          /\ pc[p] = "body"
          /\ pc' = [pc EXCEPT ![p] = IF via[p] = "mirror" THEN "open" ELSE "exit 1"]
          /\ tree' = [tree EXCEPT ![p][what[p]] = left]
          /\ flaky' = (flaky \/ (via[p] = "apple" /\ left # Empty))
          /\ what' = what
    BY <1>7 DEF Dropped
  <2>2. Fills(p, left)
    BY <1>2, <2>1
  <2>3. CASE via[p] = "mirror"
    BY <1>1, <2>1, <2>2, <2>3 DEF CleanFetch
  <2>4. CASE via[p] # "mirror"
    <3>1. via[p] = "apple"
      BY <2>4 DEF Typed, FetchTypeOK
    <3>2. left = Empty /\ pc'[p] = "exit 1"
      BY <1>1, <2>1, <3>1
    <3> QED
      BY <2>1, <2>2, <3>2 DEF CleanFetch
  <2> QED
    BY <2>3, <2>4
<1> QED
  BY <1>3, <1>4, <1>5, <1>6, <1>7 DEF Fetching

\* Everything but a fetch leaves flaky alone and makes no part of a file.
LEMMA UncutNext ==
  ASSUME Typed, Stock, Uncut, [Next]_vars
  PROVE  Uncut'
<1> USE RunFacts DEF Files
<1>1. ASSUME NEW p \in Runs, Fetching(p) PROVE Uncut'
  <2> SUFFICES ASSUME ~flaky' PROVE /\ \A x \in Products : \A f \in Files : tree'[x][f].kind # "part"
                                    /\ \A q \in Populators : UncutOf(q)'
    BY DEF Uncut
  <2>1. ~flaky /\ (\A d \in Dirs \ {p} : tree'[d] = tree[d])
        /\ \A q \in Runs \ {p} : pc'[q] = pc[q] /\ what'[q] = what[q]
    BY <1>1, FetchFrame
  <2>2. \A x \in Products : \A f \in Files : tree'[x][f].kind # "part"
    BY <2>1 DEF Uncut
  <2>3. ASSUME NEW q \in Populators, q # p PROVE UncutOf(q)'
    BY <2>1, <2>3 DEF Uncut, UncutOf
  <2>4. ASSUME p \in Populators PROVE UncutOf(p)'
    <3>1. CleanFetch(p) /\ UncutOf(p)
      BY <1>1, <2>1, <2>4, FetchIsClean DEF Uncut
    <3> QED
      BY <3>1, Kinds DEF CleanFetch, UncutOf, Fills
  <2> QED
    BY <2>2, <2>3, <2>4
<1>2. ASSUME NEW p \in Runs, End(p) PROVE Uncut'
  <2> SUFFICES ASSUME ~flaky' PROVE /\ \A x \in Products : \A f \in Files : tree'[x][f].kind # "part"
                                    /\ \A q \in Populators : UncutOf(q)'
    BY DEF Uncut
  <2>1. /\ ~flaky /\ tree'[p] = IF p \in Populators THEN NoFiles ELSE tree[p]
        /\ \A d \in Dirs \ {p} : tree'[d] = tree[d]
        /\ \A q \in Runs \ {p} : pc'[q] = pc[q] /\ what'[q] = what[q]
    BY <1>2, EndFrame
  <2>2. ASSUME NEW q \in Populators PROVE UncutOf(q)'
    <3>1. CASE q = p
      <4>1. \A f \in Files : tree'[q][f] = NoFile
        BY <2>1, <2>2, <3>1 DEF NoFiles
      <4> QED
        BY <4>1, Kinds DEF UncutOf
    <3>2. CASE q # p
      BY <2>1, <2>2, <3>2 DEF Uncut, UncutOf
    <3> QED
      BY <3>1, <3>2
  <2> QED
    BY <2>1, <2>2 DEF Uncut
<1>3. ASSUME flaky' = flaky, tree' = tree, what' = what,
             \A q \in Populators : pc[q] = "open" => pc'[q] = "open"
      PROVE  Uncut'
  BY <1>3 DEF Uncut, UncutOf
<1>4. ASSUME NEW p \in Populators, MoveDmg(p) \/ MoveCnk(p) PROVE Uncut'
  <2>1. PICK f \in Files, to \in {"move cnk", "index"} : MoveFact(p, f, to)
    BY <1>4, MoveFacts
  <2>2. /\ \A d \in Dirs : \A g \in Files :
             tree'[d][g] = IF d = p /\ g = f THEN NoFile
                           ELSE IF d = prod[p] /\ g = f THEN tree[p][f] ELSE tree[d][g]
        /\ what' = what /\ flaky' = flaky /\ prod[p] \in Products /\ pc[p] # "open"
        /\ \A q \in Runs \ {p} : pc'[q] = pc[q]
    BY <2>1 DEF MoveFact, Moved, Typed
  <2>3. ~flaky => tree[p][f].kind # "part"
    BY <2>2 DEF Uncut, UncutOf
  <2>4. ASSUME NEW x \in Products, NEW g \in Files, ~flaky
        PROVE  tree'[x][g].kind # "part"
    <3>1. x \in Dirs /\ x # p /\ tree[x][g].kind # "part"
      BY <2>4 DEF Uncut
    <3>2. tree'[x][g] \in {tree[p][f], tree[x][g]}
      BY <2>2, <3>1
    <3> QED
      BY <2>3, <2>4, <3>1, <3>2
  <2>5. ASSUME NEW q \in Populators, ~flaky PROVE UncutOf(q)'
    <3>1. q \in Dirs /\ q # prod[p] /\ UncutOf(q)
      BY <2>2, <2>5 DEF Uncut
    <3> SUFFICES ASSUME NEW g \in Files, tree'[q][g].kind = "part"
                 PROVE  pc'[q] = "open" /\ what'[q] = g
      BY DEF UncutOf
    <3>2. tree'[q][g] = tree[q][g]
      BY <2>2, <3>1, Kinds
    <3>3. pc[q] = "open" /\ what[q] = g
      BY <3>1, <3>2 DEF UncutOf
    <3> QED
      BY <2>2, <3>3
  <2> QED
    BY <2>2, <2>4, <2>5 DEF Uncut
<1>5. ASSUME NEW p \in Vms, Provisioning(p) \/ \E v \in Versions : Provision(p, v) PROVE Uncut'
  <2>1. CASE FetchFailed(p) \/ ConvertFails(p) \/ Ready(p)
    BY <1>2, <2>1 DEF FetchFailed, ConvertFails, Ready, Fail
  <2>2. CASE ~(FetchFailed(p) \/ ConvertFails(p) \/ Ready(p))
    <3>1. /\ flaky' = flaky /\ tree' = tree /\ what' = what
          /\ \E to : pc' = [pc EXCEPT ![p] = to]
      BY <1>5, <2>2, Zenon DEF Provisioning, Provision, Fetched, KeepImg, StartConvert, Convert,
         MakeDisk, KeepNvram, StartNvram, CopyNvram, fetchVars, Go, Goto
    <3>2. PICK to : pc' = [pc EXCEPT ![p] = to]
      BY <3>1
    <3>3. \A q \in Populators : pc'[q] = pc[q]
      BY <3>2 DEF Typed
    <3> QED
      BY <1>3, <3>1, <3>3
  <2> QED
    BY <2>1, <2>2
<1>6. ASSUME NEW p \in Populators,
             Populating(p) \/ \E v \in Versions : Skip(p, v) \/ Stage(p, v)
      PROVE  Uncut'
  <2>1. CASE GiveUp(p) \/ LoadIndexFails(p) \/ DumpIndex(p)
    BY <1>2, <2>1 DEF GiveUp, LoadIndexFails, DumpIndex, Fail
  <2>2. CASE Accept(p) \/ LoadIndex(p) \/ TruncateIndex(p)
             \/ \E v \in Versions : Skip(p, v) \/ Stage(p, v)
    <3>1. /\ flaky' = flaky /\ tree' = tree /\ what' = what
          /\ pc' = pc \/ (pc[p] # "open" /\ \E to : pc' = [pc EXCEPT ![p] = to])
      BY <2>2 DEF Accept, LoadIndex, TruncateIndex, Skip, Stage, fetchVars, Go, Goto
    <3>2. \A q \in Populators : pc[q] = "open" => pc'[q] = "open"
      BY <3>1 DEF Typed
    <3> QED
      BY <1>3, <3>1, <3>2
  <2> QED
    BY <1>4, <1>6, <2>1, <2>2 DEF Populating
<1>7. CASE \E p \in Runs : Killed(p)
  BY <1>2, <1>7 DEF Killed, Fail
<1>8. CASE UNCHANGED vars \/ \E v \in Versions : NewBuild(v) /\ UNCHANGED pc /\ Others
  BY <1>3, <1>8 DEF vars, fetchVars, NewBuild
<1> QED
  BY <1>1, <1>5, <1>6, <1>7, <1>8 DEF Next

(***************************************************************************)
(* How far a VM's image set is while nothing has gone wrong for it.        *)
(***************************************************************************)
HasDmg(q)  == tree[q]["dmg"].kind = "whole"
HasImg(q)  == HasDmg(q) /\ img[q] = tree[q]["dmg"]
HasDisk(q) == HasImg(q) /\ disk[q]
HasAll(q)  == HasDisk(q) /\ nvram[q] = "template"

Bare(q)  == nvram[q] = "none" /\ q \notin ready
Fresh(q) == img[q] = NoImg /\ Bare(q)

HonestOf(q) ==
  q \notin hurt /\ ~flaky =>
    /\ pc[q] = "idle" => HasAll(q) \/ (Fresh(q) /\ tree[q]["dmg"] = NoFile)
    /\ pc[q] \in {"ask", "probe", "open", "body", "exit 1"} => Fresh(q)
    /\ pc[q] \in {"verify", "exit 0"} => HasDmg(q) /\ Fresh(q)
    /\ pc[q] = "img" => HasAll(q) \/ (HasDmg(q) /\ Fresh(q))
    /\ pc[q] = "convert" => HasDmg(q) /\ Bare(q)
    /\ pc[q] = "disk" => HasAll(q) \/ (HasImg(q) /\ Bare(q))
    /\ pc[q] = "nvram" => HasAll(q) \/ (HasDisk(q) /\ Bare(q))
    /\ pc[q] = "copying" => HasDisk(q) /\ q \notin ready
    /\ pc[q] = "ready" => HasAll(q)

Honest == \A q \in Vms : HonestOf(q)

\* A VM whose files, place and history a step leaves alone.
LEMMA HonestFrame ==
  ASSUME NEW q \in Vms, HonestOf(q), pc'[q] = pc[q], tree'[q] = tree[q],
         img'[q] = img[q], disk'[q] = disk[q], nvram'[q] = nvram[q],
         q \in ready' <=> q \in ready, q \in hurt => q \in hurt', flaky => flaky'
  PROVE  HonestOf(q)'
BY DEF HonestOf, HasDmg, HasImg, HasDisk, HasAll, Bare, Fresh

\* A clean fetch brings the whole image, or no image at all and a failed run.
LEMMA FetchHonest ==
  ASSUME Typed, Stock, Uncut, Honest, NEW p \in Runs, Fetching(p), Others, NEW q \in Vms
  PROVE  HonestOf(q)'
<1> USE RunFacts
<1>1. /\ UNCHANGED <<img, disk, nvram, ready, hurt>> /\ (flaky => flaky')
      /\ \A d \in Dirs \ {p} : tree'[d] = tree[d]
      /\ \A r \in Runs \ {p} : pc'[r] = pc[r]
  BY FetchFrame, Zenon DEF Others, vmVars, saidVars
<1>2. HonestOf(q)
  BY DEF Honest
<1>3. CASE q # p
  BY <1>1, <1>2, <1>3, HonestFrame
<1>4. CASE q = p
  <2> SUFFICES ASSUME q \notin hurt, ~flaky, ~flaky'
               PROVE  HonestOf(q)'
    BY <1>1 DEF HonestOf
  <2>1. CleanFetch(q)
    BY <1>4, FetchIsClean
  <2>2. pc[q] \in {"ask", "probe", "open", "body", "verify"}
    BY <2>1 DEF CleanFetch
  <2>3. Fresh(q) /\ (pc[q] = "verify" => HasDmg(q))
    BY <1>2, <2>2 DEF HonestOf
  <2>4. Fresh(q)'
    BY <1>1, <2>3 DEF Fresh, Bare
  <2>5. \/ pc'[q] \in {"probe", "open", "body", "exit 1"}
        \/ pc[q] = "verify" /\ pc'[q] = "exit 0" /\ tree'[q] = tree[q]
        \/ pc'[q] = "verify" /\ Fills(q, Whole(prod[q])) /\ what[q] = "dmg"
    BY <2>1 DEF CleanFetch
  <2>6. pc'[q] \in {"verify", "exit 0"} => HasDmg(q)'
    BY <2>3, <2>5, Kinds DEF Fills, HasDmg, Files
  <2> QED
    BY <2>4, <2>5, <2>6 DEF HonestOf
<1> QED
  BY <1>3, <1>4

\* Every line of provision.sh leaves what the next one finds.
LEMMA VmHonest ==
  ASSUME Typed, Honest, NEW p \in Vms, NEW q \in Vms,
         Provisioning(p) \/ \E v \in Versions : Provision(p, v)
  PROVE  HonestOf(q)'
<1> USE RunFacts DEF Goto, Go
<1>0. /\ HonestOf(q) /\ p \in Runs /\ q \in Runs /\ p \in Dirs
      /\ pc \in [Runs -> PCs] /\ tree \in [Dirs -> [Files -> Content]]
      /\ img \in [Vms -> {NoImg, TornImg} \union {Whole(x) : x \in Products}]
      /\ disk \in [Vms -> BOOLEAN] /\ nvram \in [Vms -> {"none", "partial", "template"}]
  BY DEF Honest, Typed, RestTypeOK, FetchTypeOK, Files
<1>1. CASE FetchFailed(p) \/ ConvertFails(p) \/ Ready(p)
  <2>1. /\ End(p) /\ (img' = img \/ \E left : img' = [img EXCEPT ![p] = left])
        /\ UNCHANGED <<disk, nvram>>
        /\ \/ p \in hurt' /\ hurt \subseteq hurt' /\ ready' = ready
           \/ pc[p] = "ready" /\ ready' = ready \union {p} /\ hurt' = hurt /\ img' = img
    BY <1>1 DEF FetchFailed, ConvertFails, Ready, Fail, vmVars
  <2>2. CASE q # p
    <3>1. pc'[q] = pc[q] /\ tree'[q] = tree[q] /\ flaky' = flaky /\ img'[q] = img[q]
      BY <1>0, <2>1, <2>2, EndFrame
    <3>2. (q \in ready' <=> q \in ready) /\ (q \in hurt => q \in hurt')
      BY <2>1, <2>2
    <3> QED
      BY <1>0, <2>1, <3>1, <3>2, HonestFrame
  <2>3. CASE q = p /\ q \in hurt'
    BY <2>3 DEF HonestOf
  <2>4. CASE q = p /\ q \notin hurt'
    <3>1. pc[q] = "ready" /\ pc'[q] = "idle" /\ tree'[q] = tree[q] /\ flaky' = flaky
          /\ UNCHANGED <<img, disk, nvram, hurt>>
      BY <2>1, <2>4, EndFrame
    <3>2. ~flaky => HasAll(q)
      BY <1>0, <2>4, <3>1 DEF HonestOf
    <3>3. HasAll(q) => HasAll(q)'
      BY <3>1 DEF HasAll, HasDisk, HasImg, HasDmg
    <3>4. pc'[q] = "idle" /\ (~flaky' => HasAll(q)')
      BY <3>1, <3>2, <3>3
    <3> QED
      BY <3>4 DEF HonestOf
  <2> QED
    BY <2>2, <2>3, <2>4
<1>2. ASSUME UNCHANGED <<tree, flaky, ready, hurt>>,
             NEW to \in PCs, pc' = [pc EXCEPT ![p] = to],
             \A r \in Vms \ {p} : img'[r] = img[r] /\ disk'[r] = disk[r] /\ nvram'[r] = nvram[r],
             HonestOf(p) => HonestOf(p)'
      PROVE  HonestOf(q)'
  <2>1. CASE q # p
    <3>1. pc'[q] = pc[q]
      BY <1>0, <1>2, <2>1
    <3> QED
      BY <1>0, <1>2, <2>1, <3>1, HonestFrame
  <2>2. CASE q = p
    BY <1>0, <1>2, <2>2
  <2> QED
    BY <2>1, <2>2
<1> USE DEF PCs, HonestOf, HasAll, HasDisk, HasImg, HasDmg, Fresh, Bare
<1>3. CASE \E v \in Versions : Provision(p, v)
  <2>1. /\ UNCHANGED <<tree, flaky, ready, hurt, img, disk, nvram>> /\ pc[p] = "idle"
        /\ pc' = [pc EXCEPT ![p] = IF tree[p]["dmg"] = NoFile THEN "ask" ELSE "img"]
    BY <1>3 DEF Provision, fetchVars, vmVars, saidVars
  <2>2. PICK to \in {"ask", "img"} : pc' = [pc EXCEPT ![p] = to]
                                    /\ (to = "ask" <=> tree[p]["dmg"] = NoFile)
    BY <2>1
  <2>3. HonestOf(p) => HonestOf(p)'
    BY <1>0, <2>1, <2>2, Kinds
  <2>4. to \in PCs
    BY <2>2 DEF FetchPCs
  <2> HIDE DEF HonestOf
  <2> QED
    BY <1>2, <2>1, <2>2, <2>3, <2>4
<1>4. CASE Fetched(p) \/ KeepImg(p)
  BY <1>0, <1>2, <1>4 DEF Fetched, KeepImg, fetchVars, vmVars, saidVars
<1>5. CASE StartConvert(p)
  BY <1>0, <1>2, <1>5, Kinds DEF StartConvert, fetchVars, saidVars, NoImg
<1>6. CASE Convert(p)
  BY <1>0, <1>2, <1>6 DEF Convert, fetchVars, saidVars
<1>7. CASE MakeDisk(p)
  BY <1>0, <1>2, <1>7 DEF MakeDisk, fetchVars, saidVars
<1>8. CASE KeepNvram(p)
  BY <1>0, <1>2, <1>8 DEF KeepNvram, fetchVars, vmVars, saidVars
<1>9. CASE StartNvram(p)
  BY <1>0, <1>2, <1>9 DEF StartNvram, fetchVars, saidVars
<1>10. CASE CopyNvram(p)
  BY <1>0, <1>2, <1>10 DEF CopyNvram, fetchVars, saidVars
<1> QED
  BY <1>1, <1>3, <1>4, <1>5, <1>6, <1>7, <1>8, <1>9, <1>10 DEF Provisioning

\* The other runs and the end of a run keep what is said of a VM true.
LEMMA HonestNext ==
  ASSUME Typed, Stock, Uncut, Honest, [Next]_vars, NEW q \in Vms
  PROVE  HonestOf(q)'
<1> USE RunFacts
<1>1. HonestOf(q) /\ q \in Runs
  BY DEF Honest
<1>2. ASSUME NEW p \in Runs, End(p), UNCHANGED <<img, disk, nvram, ready>>,
             hurt \subseteq hurt', p \in Vms => p \in hurt'
      PROVE  HonestOf(q)'
  <2>1. CASE q = p
    BY <1>2, <2>1 DEF HonestOf
  <2>2. CASE q # p
    <3>1. pc'[q] = pc[q] /\ tree'[q] = tree[q] /\ flaky' = flaky
      BY <1>2, <2>2, EndFrame
    <3> QED
      BY <1>1, <1>2, <3>1, HonestFrame
  <2> QED
    BY <2>1, <2>2
<1>3. CASE \E p \in Runs : Fetching(p) /\ Others
  BY <1>3, FetchHonest
<1>4. CASE \E p \in Vms : Provisioning(p) \/ \E v \in Versions : Provision(p, v)
  BY <1>4, VmHonest
<1>5. CASE \E p \in Runs : Killed(p)
  BY <1>2, <1>5 DEF Killed, Fail, vmVars
<1>6. CASE UNCHANGED vars \/ \E v \in Versions : NewBuild(v) /\ UNCHANGED pc /\ Others
  BY <1>1, <1>6, HonestFrame DEF vars, fetchVars, vmVars, saidVars, NewBuild, Others
<1>7. ASSUME NEW p \in Populators,
             Populating(p) \/ \E v \in Versions : Skip(p, v) \/ Stage(p, v)
      PROVE  HonestOf(q)'
  <2>1. CASE GiveUp(p) \/ LoadIndexFails(p)
    BY <1>2, <2>1 DEF GiveUp, LoadIndexFails, Fail, vmVars
  <2>2. CASE DumpIndex(p)
    BY <1>2, <2>2 DEF DumpIndex, vmVars
  <2>3. CASE Accept(p) \/ LoadIndex(p) \/ TruncateIndex(p)
             \/ \E v \in Versions : Skip(p, v) \/ Stage(p, v)
    <3>1. /\ UNCHANGED <<flaky, tree, img, disk, nvram, ready, hurt>>
          /\ pc' = pc \/ \E to : pc' = [pc EXCEPT ![p] = to]
      BY <2>3, Zenon DEF Accept, LoadIndex, TruncateIndex, Skip, Stage, fetchVars, vmVars,
         saidVars, Go, Goto
    <3>2. pc'[q] = pc[q]
      BY <3>1 DEF Typed
    <3> QED
      BY <1>1, <3>1, <3>2, HonestFrame
  <2>4. CASE MoveDmg(p) \/ MoveCnk(p)
    <3>1. PICK f \in Files, to \in {"move cnk", "index"} : MoveFact(p, f, to)
      BY <2>4, MoveFacts
    <3>2. UNCHANGED <<img, disk, nvram>>
      BY <2>4 DEF MoveDmg, MoveCnk, Move, vmVars
    <3>3. pc'[q] = pc[q] /\ UNCHANGED <<flaky, ready, hurt>>
      BY <3>1 DEF MoveFact, Moved, Typed
    <3>4. q \in Dirs /\ q # p /\ q # prod[p] /\ p \in Dirs /\ prod[p] \in Dirs
      BY <3>1 DEF MoveFact
    <3>5. tree'[q] = tree[q]
      <4>1. tree' = [tree EXCEPT ![prod[p]] = tree'[prod[p]], ![p] = tree'[p]]
        BY <2>4, <3>4 DEF MoveDmg, MoveCnk, Move, Typed, FetchTypeOK
      <4> QED
        BY <3>4, <4>1 DEF Typed, FetchTypeOK
    <3> QED
      BY <1>1, <3>2, <3>3, <3>5, HonestFrame
  <2> QED
    BY <1>7, <2>1, <2>2, <2>3, <2>4 DEF Populating
<1> QED
  BY <1>3, <1>4, <1>5, <1>6, <1>7 DEF Next

(***************************************************************************)
(* "== ready" is the truth of every VM no run over which failed, if no     *)
(* body was cut short anywhere: its image is the whole download, its disk  *)
(* is there, its NVRAM file is the template.                               *)
(***************************************************************************)
THEOREM ReadyIsTrue == Spec => []ReadySound
<1> DEFINE All == Typed /\ Stock /\ Uncut /\ Honest
<1>1. Init => Uncut /\ Honest
  <2> SUFFICES ASSUME Init PROVE Uncut /\ Honest
    OBVIOUS
  <2>1. \A d \in Dirs : \A f \in Files : tree[d][f] = NoFile
    BY DEF Init, FetchInit, NoFiles, Files
  <2>2. Uncut
    BY <2>1, RunFacts, Kinds DEF Uncut, UncutOf
  <2>3. Honest
    BY <2>1, RunFacts DEF Init, Honest, HonestOf, Fresh, Bare, Files
  <2> QED
    BY <2>2, <2>3
<1>2. All /\ [Next]_vars => All'
  BY TypedNext, StockNext, UncutNext, HonestNext DEF Honest
<1>3. All => ReadySound
  <2> SUFFICES ASSUME All, NEW p \in ready \ hurt, ~flaky
               PROVE  HasAll(p)
    BY DEF ReadySound, HasAll, HasDisk, HasImg, HasDmg
  <2>1. p \in Vms /\ p \in Runs /\ pc[p] \in VmPCs /\ HonestOf(p)
    BY RunFacts DEF Typed, RestTypeOK, Place, Honest
  <2> QED
    BY <2>1 DEF HonestOf, HasDisk, HasImg, Fresh, Bare, VmPCs, FetchPCs
<1> QED
  BY <1>1, <1>2, <1>3, InitTyped, InitStock, PTL DEF Spec
=============================================================================
