----------------------------- MODULE StatusFile -----------------------------
(***************************************************************************)
(* The dashboard's status document (fleet/dashboard/server.py): what a     *)
(* POST /state or POST /remove makes of the list of VM entries, and the    *)
(* order the list is kept in.  The abstract board and the threaded server  *)
(* are both built from these operators.                                    *)
(*                                                                         *)
(* A VM id stands for its rank among the ids, so that the string order of  *)
(* the code is <.  Of an entry, host, title, sentence, endpoints and time  *)
(* stamp are data no property tells apart: an entry is its id, its state   *)
(* and whether it wants attention.                                         *)
(***************************************************************************)
EXTENDS Naturals, Sequences, FiniteSets

CONSTANTS Ids,          \* VM ids, by rank
          StateNames    \* the values workers send as "state"

ASSUME IdsAssumption == Ids \subseteq Nat

Entry == [id : Ids, state : StateNames \union {"idle"}, attention : BOOLEAN]

(***************************************************************************)
(* j.get(key, default) on the parsed request body.                         *)
(***************************************************************************)
Field(j, key, default) == IF key \in DOMAIN j THEN j[key] ELSE default

\* Mutant of EntryOf: j.get("state") with no default.
EntryWithoutDefault(vid, j) == [id        |-> vid,
                                state     |-> Field(j, "state", "none"),
                                attention |-> Field(j, "attention", FALSE)]

EntryOf(vid, j) == [id        |-> vid,
                    state     |-> Field(j, "state", "idle"),
                    attention |-> Field(j, "attention", FALSE)]

ORDER == [waiting |-> 0, installing |-> 1, booting |-> 2,
          ready   |-> 3, done       |-> 4, idle    |-> 5]

StateRank(s) == Field(ORDER, s, 9)

SortKey(v) == <<IF v.attention THEN 0 ELSE 1, StateRank(v.state), v.id>>

(***************************************************************************)
(* Tuple comparison: the first component that differs decides.             *)
(***************************************************************************)
Precedes(v, w) ==
  LET a == SortKey(v)  b == SortKey(w)
  IN  \E i \in DOMAIN a : a[i] < b[i] /\ \A k \in 1 .. (i - 1) : a[k] = b[k]

(***************************************************************************)
(* The entries of the other VMs, in the order they stand in.               *)
(***************************************************************************)
Without(vms, vid) ==
  LET kept == {i \in DOMAIN vms : vms[i].id # vid}
      at   == CHOOSE p \in [1 .. Cardinality(kept) -> kept] :
                \A i, k \in DOMAIN p : i < k => p[i] < p[k]
  IN  [i \in 1 .. Cardinality(kept) |-> vms[at[i]]]

(***************************************************************************)
(* The entries rearranged by their keys.                                   *)
(***************************************************************************)
Sorted(vms) ==
  LET at == CHOOSE p \in [DOMAIN vms -> DOMAIN vms] :
              \A i, k \in DOMAIN vms : i < k => Precedes(vms[p[i]], vms[p[k]])
  IN  [i \in DOMAIN vms |-> vms[at[i]]]

\* Mutant of Upserted: the entry is replaced, the list is not sorted again.
UpsertedUnsorted(vms, e) == Append(Without(vms, e.id), e)

(***************************************************************************)
(* POST /state: replace the entry of this VM, then sort the whole list.    *)
(* POST /remove: drop the entry; the filter keeps the order of the rest.   *)
(***************************************************************************)
Upserted(vms, e)  == Sorted(Append(Without(vms, e.id), e))
Removed(vms, vid) == Without(vms, vid)

(***************************************************************************)
(* What can stand under a file name: nothing, a file cut short, a document *)
(***************************************************************************)
Absent    == [kind |-> "absent", vms |-> <<>>]
Torn      == [kind |-> "torn",   vms |-> <<>>]
Json(vms) == [kind |-> "json",   vms |-> vms]

(***************************************************************************)
(* load(): any exception, a missing or an unparsable file, reads as no VMs *)
(* A whole file is taken to be readable: that open() fails for another     *)
(* reason (no descriptor left, an I/O error) is swallowed by the same      *)
(* `except`, and is left out.                                              *)
(***************************************************************************)
Load(file) == IF file.kind = "json" THEN file.vms ELSE <<>>
=============================================================================
