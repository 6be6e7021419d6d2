---------------------------- MODULE MCBootMacos -----------------------------
(***************************************************************************)
(* A host with two launches at a time: a Mojave, a second Mojave under its *)
(* own name and port block, and a Tiger, with and without their flags.     *)
(***************************************************************************)
EXTENDS BootMacos

Mojave(headless, install) ==
  [script |-> "boot-macos", version |-> "mojave", vmName |-> Unset,
   portOffset |-> Unset, headless |-> headless, install |-> install]

(***************************************************************************)
(* VM_NAME=mojave-media PORT_OFFSET=o ./boot-macos.sh mojave --headless    *)
(***************************************************************************)
MojaveMedia(o) ==
  [script |-> "boot-macos", version |-> "mojave", vmName |-> "mojave-media",
   portOffset |-> o, headless |-> TRUE, install |-> FALSE]

TigerVm(install) ==
  [script |-> "boot-tiger", headless |-> TRUE, install |-> install]

MCLaunches ==
  {Mojave(FALSE, FALSE), Mojave(TRUE, TRUE), MojaveMedia(20), MojaveMedia(21),
   TigerVm(TRUE)}

(***************************************************************************)
(* One VM name launched twice, with one port block and with two, beside    *)
(* another VM.                                                             *)
(***************************************************************************)
Relaunches == {Mojave(TRUE, FALSE), MojaveMedia(20), MojaveMedia(21)}
=============================================================================
