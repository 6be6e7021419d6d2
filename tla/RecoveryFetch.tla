--------------------------- MODULE RecoveryFetch ----------------------------
(***************************************************************************)
(* fetch-macOS-v2.py as provision.sh and populate.sh run it (-s <version>, *)
(* no --action): ask Apple which product a version is, then save its       *)
(* chunklist and its image into the run's directory, each from the mirror  *)
(* if that answers a HEAD and from Apple if not, then verify.              *)
(*                                                                         *)
(* A run is named by the directory it downloads into: one run at a time in *)
(* a directory.  A file is told apart by the product it belongs to and by  *)
(* how much of it is there.                                                *)
(***************************************************************************)
EXTENDS Naturals

CONSTANTS Runs,         \* directories fetched into, one run each
          Products,     \* product ids of Apple's recovery service
          Versions,     \* version keys
          UseMirror     \* whether MACOS_RECOVERY_MIRROR is set

Dirs == Runs \union Products      \* the mirror has a directory per product

ASSUME RunsAssumption == Runs \cap Products = {}

VARIABLES pc,           \* where each run is
          version,      \* the version it is for
          prod,         \* the product Apple named
          what,         \* the file being saved: "cnk", then "dmg"
          via,          \* where from: "mirror" or "apple"
          apple,        \* the product Apple hands out for each version
          tree,         \* BaseSystem.dmg and .chunklist of every directory
          flaky         \* history: some body was cut and nothing made up for it

fetchVars == <<prod, what, via, apple, tree, flaky>>

NoProduct == "noproduct"
NoFile    == [kind |-> "none", of |-> NoProduct]
Empty     == [kind |-> "empty", of |-> NoProduct]
Part(x)   == [kind |-> "part", of |-> x]
Whole(x)  == [kind |-> "whole", of |-> x]

Content == {NoFile, Empty} \union {Part(x) : x \in Products}
                           \union {Whole(x) : x \in Products}

NoFiles == [f \in {"cnk", "dmg"} |-> NoFile]

FetchInit ==
  /\ prod = [p \in Runs |-> NoProduct]
  /\ what = [p \in Runs |-> "cnk"]
  /\ via = [p \in Runs |-> "apple"]
  /\ apple \in [Versions -> Products]
  /\ tree = [d \in Dirs |-> NoFiles]
  /\ flaky = FALSE

Goto(p, from, to) == pc[p] = from /\ pc' = [pc EXCEPT ![p] = to]

(***************************************************************************)
(* The session, then the image information: "Downloading <product>...".    *)
(* An error ends the program before it has touched a file.                 *)
(***************************************************************************)
Ask(p) ==
  /\ Goto(p, "ask", "probe")
  /\ prod' = [prod EXCEPT ![p] = apple[version[p]]]
  /\ what' = [what EXCEPT ![p] = "cnk"]
  /\ UNCHANGED <<via, apple, tree, flaky>>

AskFails(p) == Goto(p, "ask", "exit 1") /\ UNCHANGED fetchVars

(***************************************************************************)
(* fetch_file: the HEAD fails, for whatever reason, or the mirror has it.  *)
(***************************************************************************)
Probe(p) ==
  /\ Goto(p, "probe", "open")
  /\ \E source \in {"apple", "mirror"} :
       /\ source = "mirror" => UseMirror /\ tree[prod[p]][what[p]] # NoFile
       /\ via' = [via EXCEPT ![p] = source]
  /\ UNCHANGED <<prod, what, apple, tree, flaky>>

(***************************************************************************)
(* save_image: the file is opened "wb" before the request is made.         *)
(***************************************************************************)
Open(p) ==
  /\ Goto(p, "open", "body")
  /\ tree' = [tree EXCEPT ![p][what[p]] = Empty]
  /\ UNCHANGED <<prod, what, via, apple, flaky>>

Saved(p, content) ==
  /\ Goto(p, "body", IF what[p] = "cnk" THEN "probe" ELSE "verify")
  /\ tree' = [tree EXCEPT ![p][what[p]] = content]
  /\ what' = [what EXCEPT ![p] = "dmg"]
  /\ UNCHANGED <<prod, via, apple>>

Source(p) == IF via[p] = "mirror" THEN tree[prod[p]][what[p]] ELSE Whole(prod[p])

Served(p) == Saved(p, Source(p)) /\ UNCHANGED flaky

(***************************************************************************)
(* The connection is closed early: read() returns what there was, then     *)
(* nothing, and the loop ends like any other ("Download complete!").       *)
(***************************************************************************)
CutShort(p) ==
  /\ \E left \in {Empty, Part(prod[p])} : Saved(p, left)
  /\ flaky' = TRUE

(***************************************************************************)
(* No connection, or one reset in the middle: an OSError.  fetch_file      *)
(* catches it for the mirror and starts again from Apple; from Apple it    *)
(* ends the program.                                                       *)
(***************************************************************************)
Dropped(p) ==
  \E left \in {Empty, Part(prod[p])} :
    /\ Goto(p, "body", IF via[p] = "mirror" THEN "open" ELSE "exit 1")
    /\ tree' = [tree EXCEPT ![p][what[p]] = left]
    /\ via' = [via EXCEPT ![p] = "apple"]
    /\ flaky' = (flaky \/ (via[p] = "apple" /\ left # Empty))
    /\ UNCHANGED <<prod, what, apple>>

(***************************************************************************)
(* An HTTP error on the GET, the mirror's too: run_query exits.            *)
(***************************************************************************)
HttpError(p) == Goto(p, "body", "exit 1") /\ UNCHANGED fetchVars

(***************************************************************************)
(* verify_image: every chunk of the image hashes as the signed chunklist   *)
(* says.  The outcome is printed; action_download returns it, main drops   *)
(* it, and the program exits 0 either way.                                 *)
(***************************************************************************)
Verifies(d) == tree[d]["cnk"].kind = "whole" /\ tree[d]["dmg"] = tree[d]["cnk"]

Verify(p) == Goto(p, "verify", "exit 0") /\ UNCHANGED fetchVars

(***************************************************************************)
(* Apple's service moves a version on to another build.                    *)
(***************************************************************************)
NewBuild(v) ==
  /\ \E x \in Products \ {apple[v]} : apple' = [apple EXCEPT ![v] = x]
  /\ UNCHANGED <<prod, what, via, tree, flaky>>

Fetching(p) ==
  \/ Ask(p) \/ AskFails(p) \/ Probe(p) \/ Open(p)
  \/ Served(p) \/ CutShort(p) \/ Dropped(p) \/ HttpError(p) \/ Verify(p)
-----------------------------------------------------------------------------
FetchPCs == {"ask", "probe", "open", "body", "verify", "exit 0", "exit 1"}

FetchTypeOK ==
  /\ version \in [Runs -> Versions]
  /\ prod \in [Runs -> Products \union {NoProduct}]
  /\ what \in [Runs -> {"cnk", "dmg"}]
  /\ via \in [Runs -> {"apple", "mirror"}]
  /\ apple \in [Versions -> Products]
  /\ tree \in [Dirs -> [{"cnk", "dmg"} -> Content]]
  /\ flaky \in BOOLEAN
=============================================================================
