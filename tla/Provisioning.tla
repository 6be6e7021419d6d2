---------------------------- MODULE Provisioning ----------------------------
(***************************************************************************)
(* Recovery images on their way to the VMs: runs of fleet/provision.sh     *)
(* (one VM directory each) and of fleet/mirror/populate.sh (a staging      *)
(* directory each, one mirror tree and index.json for all), both of which  *)
(* call fetch-macOS-v2.py, and every fetch may read what populate.sh has   *)
(* published.  Runs end, fail or are killed, and are run again.            *)
(***************************************************************************)
EXTENDS RecoveryFetch

CONSTANTS Vms, Populators

ASSUME NamesAssumption == NoProduct \notin Products
ASSUME RunsAreEither == Runs = Vms \union Populators /\ Vms \cap Populators = {}

VARIABLES img,          \* BaseSystem.img of each VM
          disk,         \* mac_hdd_ng.img of each VM exists
          nvram,        \* OVMF_VARS.fd of each VM
          ready,        \* VMs a run said "== ready" of
          hurt,         \* history: VMs a run over which failed or was killed
          skipped,      \* versions a run said "have <product>, skipping" of
          index,        \* index.json: the product of each version
          read          \* the copy of it a populate.sh has in memory

vmVars    == <<img, disk, nvram>>
indexVars == <<index, read>>
saidVars  == <<ready, hurt, skipped>>
vars == <<pc, version, fetchVars, vmVars, saidVars, indexVars>>

NoImg    == NoFile
TornImg  == [kind |-> "torn", of |-> NoProduct]
NoIndex  == [v \in Versions |-> NoProduct]
Torn     == [v \in Versions |-> "torn"]      \* a file json.load does not accept

Init ==
  /\ FetchInit
  /\ pc = [p \in Runs |-> "idle"]
  /\ version \in [Runs -> Versions]
  /\ img = [p \in Vms |-> NoImg]
  /\ disk = [p \in Vms |-> FALSE]
  /\ nvram = [p \in Vms |-> "none"]
  /\ ready = {} /\ hurt = {} /\ skipped = {}
  /\ index = NoIndex
  /\ read = [p \in Populators |-> NoIndex]

(***************************************************************************)
(* A run ends.  What it had in memory is gone; the files of a VM stay, a   *)
(* staging directory is removed or never looked at again.                  *)
(***************************************************************************)
End(p) ==
  /\ pc' = [pc EXCEPT ![p] = "idle"]
  /\ prod' = [prod EXCEPT ![p] = NoProduct]
  /\ what' = [what EXCEPT ![p] = "cnk"]
  /\ via' = [via EXCEPT ![p] = "apple"]
  /\ read' = [q \in Populators |-> IF q = p THEN NoIndex ELSE read[q]]
  /\ tree' = [tree EXCEPT ![p] = IF p \in Populators THEN NoFiles ELSE @]
  /\ UNCHANGED <<version, apple, flaky, skipped>>

Fail(p) ==
  /\ End(p)
  /\ hurt' = hurt \union ({p} \cap Vms)
  /\ UNCHANGED ready

Go(p, from, to) == Goto(p, from, to) /\ UNCHANGED <<version, saidVars>>
-----------------------------------------------------------------------------
(***************************************************************************)
(* provision.sh <version>, in the order of its lines.                      *)
(***************************************************************************)
\* Mutant of Provision: download again whenever the conversion is missing.
ProvisionAnew(p, v) ==
  /\ Goto(p, "idle", IF img[p] = NoImg THEN "ask" ELSE "img")
  /\ version' = [version EXCEPT ![p] = v]
  /\ UNCHANGED <<fetchVars, vmVars, saidVars, indexVars>>

Provision(p, v) ==
  /\ Goto(p, "idle", IF tree[p]["dmg"] = NoFile THEN "ask" ELSE "img")
  /\ version' = [version EXCEPT ![p] = v]
  /\ UNCHANGED <<fetchVars, vmVars, saidVars, indexVars>>

Fetched(p) ==
  /\ Go(p, "exit 0", "img")
  /\ UNCHANGED <<fetchVars, vmVars, indexVars>>

FetchFailed(p) ==
  /\ pc[p] = "exit 1"
  /\ Fail(p)
  /\ UNCHANGED <<vmVars, index>>

KeepImg(p) ==
  /\ Go(p, "img", "disk")
  /\ img[p] # NoImg
  /\ UNCHANGED <<fetchVars, vmVars, indexVars>>

(***************************************************************************)
(* dmg2img (external) creates its output and fills it; it refuses an image *)
(* that is not whole, and may have left something behind then.             *)
(***************************************************************************)
StartConvert(p) ==
  /\ Go(p, "img", "convert")
  /\ img[p] = NoImg
  /\ img' = [img EXCEPT ![p] = TornImg]
  /\ UNCHANGED <<fetchVars, disk, nvram, indexVars>>

\* Mutant of Convert: whatever dmg2img reads is converted.
ConvertAnything(p) ==
  /\ Go(p, "convert", "disk")
  /\ img' = [img EXCEPT ![p] = tree[p]["dmg"]]
  /\ UNCHANGED <<fetchVars, disk, nvram, indexVars>>

Convert(p) ==
  /\ Go(p, "convert", "disk")
  /\ tree[p]["dmg"].kind = "whole"
  /\ img' = [img EXCEPT ![p] = tree[p]["dmg"]]
  /\ UNCHANGED <<fetchVars, disk, nvram, indexVars>>

\* Mutant of ConvertFails: no `set -e`.
ConvertFailsUnseen(p) ==
  /\ Go(p, "convert", "disk")
  /\ UNCHANGED <<fetchVars, vmVars, indexVars>>

ConvertFails(p) ==
  /\ pc[p] = "convert"
  /\ \E left \in {NoImg, TornImg} : img' = [img EXCEPT ![p] = left]
  /\ Fail(p)
  /\ UNCHANGED <<disk, nvram, index>>

MakeDisk(p) ==
  /\ Go(p, "disk", "nvram")
  /\ disk' = [disk EXCEPT ![p] = TRUE]
  /\ UNCHANGED <<fetchVars, img, nvram, indexVars>>

KeepNvram(p) ==
  /\ Go(p, "nvram", "ready")
  /\ nvram[p] # "none"
  /\ UNCHANGED <<fetchVars, vmVars, indexVars>>

StartNvram(p) ==
  /\ Go(p, "nvram", "copying")
  /\ nvram[p] = "none"
  /\ nvram' = [nvram EXCEPT ![p] = "partial"]
  /\ UNCHANGED <<fetchVars, img, disk, indexVars>>

CopyNvram(p) ==
  /\ Go(p, "copying", "ready")
  /\ nvram' = [nvram EXCEPT ![p] = "template"]
  /\ UNCHANGED <<fetchVars, img, disk, indexVars>>

Ready(p) ==
  /\ pc[p] = "ready"
  /\ End(p) /\ ready' = ready \union {p} /\ UNCHANGED hurt
  /\ UNCHANGED <<vmVars, index>>

Provisioning(p) ==
  \/ Fetched(p) \/ FetchFailed(p)
  \/ KeepImg(p) \/ StartConvert(p) \/ Convert(p) \/ ConvertFails(p)
  \/ MakeDisk(p) \/ KeepNvram(p) \/ StartNvram(p) \/ CopyNvram(p) \/ Ready(p)
-----------------------------------------------------------------------------
(***************************************************************************)
(* populate.sh, for one of its versions.  -s: there, and not empty.        *)
(***************************************************************************)
Sized(d) == \A f \in {"cnk", "dmg"} : tree[d][f].kind \notin {"none", "empty"}

Have(v) == index[v] # NoProduct /\ Sized(index[v])

(***************************************************************************)
(* "== <version>: have <product>, skipping"                                *)
(***************************************************************************)
Skip(p, v) ==
  /\ pc[p] = "idle" /\ index # Torn /\ Have(v)
  /\ skipped' = skipped \union {v}
  /\ UNCHANGED <<pc, version, fetchVars, vmVars, ready, hurt, indexVars>>

(***************************************************************************)
(* mktemp -d: a staging directory no other run uses.                       *)
(***************************************************************************)
Stage(p, v) ==
  /\ index # Torn /\ ~Have(v)
  /\ Goto(p, "idle", "ask")
  /\ version' = [version EXCEPT ![p] = v]
  /\ UNCHANGED <<fetchVars, vmVars, saidVars, indexVars>>

(***************************************************************************)
(* Whatever the fetch returned: a product was named and both files are     *)
(* there, or the version is given up.                                      *)
(***************************************************************************)
\* Mutant of Staged: -f in place of -s.
StagedAtAll(p) == prod[p] # NoProduct /\ \A f \in {"cnk", "dmg"} : tree[p][f] # NoFile

Staged(p) == prod[p] # NoProduct /\ Sized(p)

\* Mutant of Accept: the product's name is asked for again.
AcceptAsNow(p) ==
  /\ pc[p] \in {"exit 0", "exit 1"} /\ Staged(p)
  /\ Go(p, pc[p], "move dmg")
  /\ prod' = [prod EXCEPT ![p] = apple[version[p]]]
  /\ UNCHANGED <<what, via, apple, tree, flaky, vmVars, indexVars>>

Accept(p) ==
  /\ pc[p] \in {"exit 0", "exit 1"} /\ Staged(p)
  /\ Go(p, pc[p], "move dmg")
  /\ UNCHANGED <<fetchVars, vmVars, indexVars>>

GiveUp(p) ==
  /\ pc[p] \in {"exit 0", "exit 1"} /\ ~Staged(p)
  /\ Fail(p)
  /\ UNCHANGED <<vmVars, index>>

(***************************************************************************)
(* mv -f of the two files, each a rename within the tree.                  *)
(***************************************************************************)
Move(p, from, to, f) ==
  /\ Go(p, from, to)
  /\ tree' = [tree EXCEPT ![prod[p]][f] = tree[p][f], ![p][f] = NoFile]
  /\ UNCHANGED <<prod, what, via, apple, flaky, vmVars, indexVars>>

MoveDmg(p) == Move(p, "move dmg", "move cnk", "dmg")
MoveCnk(p) == Move(p, "move cnk", "index", "cnk")

(***************************************************************************)
(* index.json: json.load, open("w"), json.dump; nothing keeps two runs     *)
(* apart, and a run that finds it cut short ends there.                    *)
(***************************************************************************)
LoadIndex(p) ==
  /\ index # Torn
  /\ Go(p, "index", "truncate")
  /\ read' = [read EXCEPT ![p] = [index EXCEPT ![version[p]] = prod[p]]]
  /\ UNCHANGED <<fetchVars, vmVars, index>>

LoadIndexFails(p) ==
  /\ pc[p] = "index" /\ index = Torn
  /\ Fail(p)
  /\ UNCHANGED <<vmVars, index>>

TruncateIndex(p) ==
  /\ Go(p, "truncate", "dump")
  /\ index' = Torn
  /\ UNCHANGED <<fetchVars, vmVars, read>>

(***************************************************************************)
(* The file is written from its start.  What another run has dumped since  *)
(* this one truncated it may be longer: the end of it stays behind, and    *)
(* json.load takes no such file.                                           *)
(***************************************************************************)
DumpIndex(p) ==
  /\ pc[p] = "dump"
  /\ \/ index' = read[p]
     \/ index # Torn /\ index' = Torn
  /\ End(p) /\ UNCHANGED <<ready, hurt>>
  /\ UNCHANGED vmVars

Populating(p) ==
  \/ Accept(p) \/ GiveUp(p) \/ MoveDmg(p) \/ MoveCnk(p)
  \/ LoadIndex(p) \/ LoadIndexFails(p) \/ TruncateIndex(p) \/ DumpIndex(p)
-----------------------------------------------------------------------------
(***************************************************************************)
(* A run is killed, at any point.                                          *)
(***************************************************************************)
Killed(p) ==
  /\ pc[p] # "idle"
  /\ Fail(p)
  /\ UNCHANGED <<vmVars, index>>

Others == UNCHANGED <<version, vmVars, saidVars, indexVars>>

Next ==
  \/ \E p \in Runs : Fetching(p) /\ Others
  \/ \E v \in Versions : NewBuild(v) /\ UNCHANGED pc /\ Others
  \/ \E p \in Vms : Provisioning(p) \/ \E v \in Versions : Provision(p, v)
  \/ \E p \in Populators : Populating(p) \/ \E v \in Versions : Skip(p, v) \/ Stage(p, v)
  \/ \E p \in Runs : Killed(p)

Spec == Init /\ [][Next]_vars
-----------------------------------------------------------------------------
PCs == FetchPCs \union
  {"idle", "img", "convert", "disk", "nvram", "copying", "ready",
   "move dmg", "move cnk", "index", "truncate", "dump"}

TypeOK ==
  /\ FetchTypeOK
  /\ pc \in [Runs -> PCs]
  /\ img \in [Vms -> {NoImg, TornImg} \union {Whole(x) : x \in Products}]
  /\ disk \in [Vms -> BOOLEAN]
  /\ nvram \in [Vms -> {"none", "partial", "template"}]
  /\ ready \subseteq Vms /\ hurt \subseteq Vms /\ skipped \subseteq Versions
  /\ index \in [Versions -> Products \union {NoProduct}] \union {Torn}
  /\ read \in [Populators -> [Versions -> Products \union {NoProduct}]]

(***************************************************************************)
(* A product's directory in the mirror never holds a file of another       *)
(* product, whatever builds Apple moves to between the query and the move. *)
(***************************************************************************)
MirrorByProduct ==
  \A x \in Products : \A f \in {"cnk", "dmg"} :
    tree[x][f] # NoFile => tree[x][f].of = x

(***************************************************************************)
(* What the index names is there to be served: it is never ahead of the    *)
(* mirror, though runs write it one over the other.                        *)
(***************************************************************************)
IndexServed ==
  index # Torn => \A v \in Versions : index[v] # NoProduct => Sized(index[v])

(***************************************************************************)
(* provision.sh:3 -- "skips any step whose output already exists": a VM's  *)
(* whole image set is not touched again, by reruns for any version, runs   *)
(* that fail or new builds.                                                *)
(***************************************************************************)
ImagesKept ==
  [][\A p \in Vms :
       /\ tree[p]["dmg"].kind = "whole" => tree'[p]["dmg"] = tree[p]["dmg"]
       /\ img[p].kind = "whole" => img'[p] = img[p]
       /\ nvram[p] = "template" => nvram'[p] = "template"]_vars

(***************************************************************************)
(* If no body was cut short and no run over a VM failed or was killed,     *)
(* "ready" is the truth: the image set is whole and of one product,        *)
(* whatever the mirror misses, loses or resets and whoever populates it.   *)
(***************************************************************************)
ReadySound ==
  \A p \in ready \ hurt : ~flaky =>
    /\ tree[p]["dmg"].kind = "whole" /\ img[p] = tree[p]["dmg"]
    /\ disk[p] /\ nvram[p] = "template"

(***************************************************************************)
(* deploy/DEPLOY.md:34 -- "Transfers already tolerate a flaky link": when  *)
(* provision.sh goes on after the download, the image has been downloaded. *)
(***************************************************************************)
TransfersTolerated ==
  \A p \in Vms : pc[p] = "exit 0" => tree[p]["dmg"].kind = "whole"

(***************************************************************************)
(* populate.sh:4 -- "a product dir that already verifies is skipped".      *)
(***************************************************************************)
SkippedVerifies ==
  index # Torn => \A v \in skipped : Verifies(index[v])
=============================================================================
