--------------------------- MODULE MCProvisioning ---------------------------
(***************************************************************************)
(* One version with two builds, VMs and populate.sh runs, with and without *)
(* a mirror to fetch from.                                                 *)
(***************************************************************************)
EXTENDS Provisioning, TLC

Alike == Permutations(Populators)
=============================================================================
