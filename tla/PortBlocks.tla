----------------------------- MODULE PortBlocks -----------------------------
(***************************************************************************)
(* Which name, port block and console a launch gets: versions.sh (the      *)
(* table's order), the naming and numbering part of boot-macos.sh and the  *)
(* fixed numbers of ppc/boot-tiger.sh.                                     *)
(*                                                                         *)
(* A launch is one command line with its environment: the script, and for  *)
(* boot-macos.sh the version key, VM_NAME and PORT_OFFSET (Unset when not  *)
(* in the environment), and the two flags.                                 *)
(***************************************************************************)
EXTENDS Naturals, Sequences

CONSTANT Unset

MACOS_VERSIONS ==
  << "high-sierra", "mojave", "catalina", "big-sur", "monterey",
     "ventura", "sonoma", "sequoia", "tahoe" >>

VersionKeys == {MACOS_VERSIONS[i] : i \in DOMAIN MACOS_VERSIONS}

(***************************************************************************)
(* The offset loop counts from 0 and keeps the row that matches.           *)
(***************************************************************************)
VersionIndex(version) ==
  CHOOSE i \in 0 .. Len(MACOS_VERSIONS) - 1 : MACOS_VERSIONS[i + 1] = version

Tiger == "tiger"
TigerOffset == 9      \* -vnc :19,websocket=5709 -- "tiger = offset 9"

VmName(l) ==
  CASE l.script = "boot-tiger" -> Tiger
    [] l.vmName = Unset        -> l.version
    [] OTHER                   -> l.vmName

Offset(l) ==
  CASE l.script = "boot-tiger" -> TigerOffset
    [] l.portOffset = Unset    -> VersionIndex(l.version)
    [] OTHER                   -> l.portOffset

\* Mutant of SshPort: the fixed forward of a single-VM script.
SharedSshPort(o) == 2222

SshPort(o)    == 2222 + o
VncDisplay(o) == 10 + o
RfbPort(o)    == 5900 + VncDisplay(o)
WsPort(o)     == 5700 + o

(***************************************************************************)
(* The console endpoints written to vnc.env.                               *)
(***************************************************************************)
Console(l) == [ws |-> WsPort(Offset(l)), rfb |-> RfbPort(Offset(l))]

(***************************************************************************)
(* The host ports the QEMU of a launch listens on: the ssh forward (Tiger  *)
(* has none) and, headless, the console.                                   *)
(***************************************************************************)
Ports(l) ==
       (IF l.script = "boot-macos" THEN {SshPort(Offset(l))} ELSE {})
  \union (IF l.headless THEN {WsPort(Offset(l)), RfbPort(Offset(l))} ELSE {})

MaxOffset == 209      \* from 210 on, a console's WsPort is another's RfbPort
=============================================================================
