----------------------------- MODULE BootMacos ------------------------------
(***************************************************************************)
(* One worker host: launches of fleet/boot-macos.sh and fleet/ppc/         *)
(* boot-tiger.sh running side by side, each ending in `exec` of a QEMU     *)
(* that shares nothing with the others but the host's ports and whatever   *)
(* files have the same VM name.  QEMU is external: it is modelled by the   *)
(* resources it takes in the order it takes them.                          *)
(***************************************************************************)
EXTENDS PortBlocks, FiniteSets

CONSTANTS Procs,             \* processes: a shell script, then the QEMU it becomes
          Launches,          \* the command lines operators type
          OneLaunchPerName   \* whether operators keep to one launch per VM name

Names == {VmName(l) : l \in Launches}

VARIABLES pc,        \* where each process is; "idle" when there is none
          launch,    \* the command line it runs
          why,       \* why the launch that ended last did
          disk,      \* mac_hdd_ng.img / tiger.qcow2 of each VM name exists
          nvram,     \* OVMF_VARS.fd of each VM name
          media,     \* BaseSystem.img of each VM name exists
          env,       \* vnc.env of each VM name
          sock       \* where the path of the QMP (and monitor) socket leads

files == <<disk, nvram, media, env>>
vars == <<pc, launch, why, disk, nvram, media, env, sock>>

NoConsole == [ws |-> 0, rfb |-> 0]        \* no vnc.env
NoSocket  == "nosocket"
Stale     == "stale"                      \* a path nobody listens on

NoLaunch  == [script |-> "none"]

ASSUME ProcsAssumption == {NoSocket, Stale} \cap Procs = {}
ASSUME DisciplineAssumption == OneLaunchPerName \in BOOLEAN
ASSUME LaunchesAssumption ==
  \A l \in Launches :
    /\ l.script \in {"boot-macos", "boot-tiger"}
    /\ l.headless \in BOOLEAN /\ l.install \in BOOLEAN
    /\ Offset(l) \in 0 .. MaxOffset

(***************************************************************************)
(* "needs its own name and port block": launches of different VMs are      *)
(* given different offsets.                                                *)
(***************************************************************************)
ASSUME OwnPortBlock ==
  \A l, m \in Launches : VmName(l) # VmName(m) => Offset(l) # Offset(m)

Name(p) == VmName(launch[p])

Active(p) == pc[p] # "idle"

(***************************************************************************)
(* provision.sh has been over the directories, each to the end or not: it  *)
(* makes the install image, then the disk, then the NVRAM file (see        *)
(* Provisioning), whose copy may have been cut short.                      *)
(***************************************************************************)
Init ==
  /\ pc = [p \in Procs |-> "idle"]
  /\ launch = [p \in Procs |-> NoLaunch]
  /\ why = "none"
  /\ \E made \in [Names -> 0 .. 4] :
       /\ media = [n \in Names |-> made[n] >= 1]
       /\ disk  = [n \in Names |-> made[n] >= 2]
       /\ nvram = [n \in Names |-> IF made[n] = 4 THEN "template"
                                 ELSE IF made[n] = 3 THEN "partial" ELSE "none"]
  /\ env = [n \in Names |-> NoConsole]
  /\ sock = [n \in Names |-> NoSocket]

Goto(p, from, to) == pc[p] = from /\ pc' = [pc EXCEPT ![p] = to]

\* Mutant of Exit: the process is not forgotten.
ExitLingering(p, reason) ==
  /\ pc' = [pc EXCEPT ![p] = "idle"]
  /\ why' = reason
  /\ UNCHANGED launch

Exit(p, reason) ==
  /\ pc' = [pc EXCEPT ![p] = "idle"]
  /\ why' = reason
  /\ launch' = [launch EXCEPT ![p] = NoLaunch]

Begin(p, l) ==
  /\ Goto(p, "idle", "disk")
  /\ OneLaunchPerName => \A q \in Procs : Active(q) => Name(q) # VmName(l)
  /\ launch' = [launch EXCEPT ![p] = l]
  /\ UNCHANGED <<why, files, sock>>

-----------------------------------------------------------------------------
(***************************************************************************)
(* boot-macos.sh, in the order of its lines.                               *)
(***************************************************************************)
IsMacos(p) == launch[p].script = "boot-macos"

CheckDisk(p) ==
  /\ pc[p] = "disk" /\ IsMacos(p)
  /\ IF disk[Name(p)] THEN Goto(p, "disk", "nvram") /\ UNCHANGED <<launch, why>>
                      ELSE Exit(p, "no disk")
  /\ UNCHANGED <<files, sock>>

\* Mutant of TestNvram: cp without `[ -f ... ] ||`.
TestNoNvram(p) ==
  /\ Goto(p, "nvram", "copy")
  /\ UNCHANGED <<launch, why, files, sock>>

TestNvram(p) ==
  /\ Goto(p, "nvram", IF nvram[Name(p)] = "none" THEN "copy" ELSE "media")
  /\ UNCHANGED <<launch, why, files, sock>>

(***************************************************************************)
(* cp: the target is created or truncated first, filled later.             *)
(***************************************************************************)
StartCopy(p) ==
  /\ Goto(p, "copy", "copying")
  /\ nvram' = [nvram EXCEPT ![Name(p)] = "partial"]
  /\ UNCHANGED <<launch, why, disk, media, env, sock>>

FinishCopy(p) ==
  /\ Goto(p, "copying", "media")
  /\ nvram' = [nvram EXCEPT ![Name(p)] = "template"]
  /\ UNCHANGED <<launch, why, disk, media, env, sock>>

CheckMedia(p) ==
  /\ pc[p] = "media" /\ IsMacos(p)
  /\ IF launch[p].install /\ ~media[Name(p)]
       THEN Exit(p, "no media")
       ELSE /\ Goto(p, "media", IF launch[p].headless THEN "env" ELSE "unlink")
            /\ UNCHANGED <<launch, why>>
  /\ UNCHANGED <<files, sock>>

\* Mutant of WriteEnv: an existing vnc.env is left alone.
WriteEnvOnce(p) ==
  /\ Goto(p, "env", IF IsMacos(p) THEN "unlink" ELSE "iso")
  /\ env' = [env EXCEPT ![Name(p)] = IF @ = NoConsole THEN Console(launch[p]) ELSE @]
  /\ UNCHANGED <<launch, why, disk, nvram, media, sock>>

(***************************************************************************)
(* Written before QEMU is started, and only with --headless: a launch      *)
(* without it leaves the vnc.env of an earlier one in place.               *)
(***************************************************************************)
WriteEnv(p) ==
  /\ Goto(p, "env", IF IsMacos(p) THEN "unlink" ELSE "iso")
  /\ env' = [env EXCEPT ![Name(p)] = Console(launch[p])]
  /\ UNCHANGED <<launch, why, disk, nvram, media, sock>>

\* Mutant of RemoveSockets: rm -f of every VM's sockets.
RemoveAllSockets(p) ==
  /\ Goto(p, "unlink", "exec")
  /\ sock' = [n \in Names |-> NoSocket]
  /\ UNCHANGED <<launch, why, files>>

RemoveSockets(p) ==
  /\ Goto(p, "unlink", "exec")
  /\ sock' = [sock EXCEPT ![Name(p)] = NoSocket]
  /\ UNCHANGED <<launch, why, files>>

-----------------------------------------------------------------------------
(***************************************************************************)
(* boot-tiger.sh: it creates a missing disk itself, has no NVRAM file,     *)
(* writes vnc.env before it looks for the install ISO, removes no socket.  *)
(***************************************************************************)
TigerDisk(p) ==
  /\ ~IsMacos(p)
  /\ Goto(p, "disk", IF launch[p].headless THEN "env" ELSE "iso")
  /\ disk' = [disk EXCEPT ![Name(p)] = TRUE]
  /\ UNCHANGED <<launch, why, nvram, media, env, sock>>

TigerIso(p) ==
  /\ pc[p] = "iso"
  /\ \/ Goto(p, "iso", "exec") /\ UNCHANGED <<launch, why>>
     \/ launch[p].install /\ Exit(p, "no media")
  /\ UNCHANGED <<files, sock>>

-----------------------------------------------------------------------------
(***************************************************************************)
(* QEMU (external): the sockets of -monitor and -qmp replace whatever has  *)
(* their path; then the images are opened and locked, and a pflash image   *)
(* that was cut short may be of a size that is refused; then the ports of  *)
(* -netdev and -vnc are bound.  A QEMU that fails leaves its socket path   *)
(* dead or removes it.                                                     *)
(***************************************************************************)
HoldsImages(q) == pc[q] \in {"ports", "running"}
HoldsPorts(q)  == pc[q] = "running"

BindSockets(p) ==
  /\ Goto(p, "exec", "images")
  /\ sock' = [sock EXCEPT ![Name(p)] = p]
  /\ UNCHANGED <<launch, why, files>>

LeaveSocket(p) ==
  \E left \in IF sock[Name(p)] = p THEN {Stale, NoSocket} ELSE {sock[Name(p)]} :
    sock' = [sock EXCEPT ![Name(p)] = left]

ImagesBusy(p) == \E q \in Procs \ {p} : HoldsImages(q) /\ Name(q) = Name(p)
PortsBusy(p)  == \E q \in Procs \ {p} :
                   HoldsPorts(q) /\ Ports(launch[q]) \cap Ports(launch[p]) # {}

LockImages(p) ==
  /\ pc[p] = "images"
  /\ \/ /\ ImagesBusy(p)
        /\ Exit(p, "images busy") /\ LeaveSocket(p)
     \/ /\ ~ImagesBusy(p) /\ IsMacos(p) /\ nvram[Name(p)] = "partial"
        /\ Exit(p, "bad nvram") /\ LeaveSocket(p)
     \/ /\ ~ImagesBusy(p)
        /\ Goto(p, "images", "ports") /\ UNCHANGED <<launch, why, sock>>
  /\ UNCHANGED files

BindPorts(p) ==
  /\ pc[p] = "ports"
  /\ IF PortsBusy(p) THEN Exit(p, "ports busy") /\ LeaveSocket(p)
     ELSE Goto(p, "ports", "running") /\ UNCHANGED <<launch, why, sock>>
  /\ UNCHANGED files

(***************************************************************************)
(* The guest's firmware saves boot entries.                                *)
(***************************************************************************)
GuestSaves(p) ==
  /\ pc[p] = "running" /\ IsMacos(p)
  /\ nvram' = [nvram EXCEPT ![Name(p)] = "saved"]
  /\ UNCHANGED <<pc, launch, why, disk, media, env, sock>>

(***************************************************************************)
(* A guest that powers off: QEMU removes its socket path, by name.         *)
(***************************************************************************)
PowerOff(p) ==
  /\ pc[p] = "running"
  /\ Exit(p, "ended")
  /\ sock' = [sock EXCEPT ![Name(p)] = NoSocket]
  /\ UNCHANGED files

(***************************************************************************)
(* The script or its QEMU is killed, at any point.                         *)
(***************************************************************************)
Killed(p) ==
  /\ Active(p)
  /\ Exit(p, "ended")
  /\ sock' = [sock EXCEPT ![Name(p)] = IF @ = p THEN Stale ELSE @]
  /\ UNCHANGED files

Macos(p) == \/ CheckDisk(p) \/ TestNvram(p) \/ StartCopy(p) \/ FinishCopy(p)
            \/ CheckMedia(p) \/ WriteEnv(p) \/ RemoveSockets(p)

TigerStep(p) == TigerDisk(p) \/ TigerIso(p)

Qemu(p) == \/ BindSockets(p) \/ LockImages(p) \/ BindPorts(p)
           \/ GuestSaves(p) \/ PowerOff(p)

Next == \E p \in Procs :
          \/ \E l \in Launches : Begin(p, l)
          \/ Macos(p) \/ TigerStep(p) \/ Qemu(p) \/ Killed(p)

Spec == Init /\ [][Next]_vars
-----------------------------------------------------------------------------
PCs == {"idle", "disk", "nvram", "copy", "copying", "media", "env", "unlink",
        "iso", "exec", "images", "ports", "running"}

TypeOK ==
  /\ pc \in [Procs -> PCs]
  /\ launch \in [Procs -> Launches \union {NoLaunch}]
  /\ \A p \in Procs : Active(p) <=> launch[p] # NoLaunch
  /\ why \in {"none", "no disk", "no media", "images busy", "bad nvram",
               "ports busy", "ended"}
  /\ disk \in [Names -> BOOLEAN]
  /\ nvram \in [Names -> {"none", "partial", "template", "saved"}]
  /\ media \in [Names -> BOOLEAN]
  /\ env \in [Names -> {NoConsole} \union {Console(l) : l \in Launches}]
  /\ sock \in [Names -> Procs \union {NoSocket, Stale}]

(***************************************************************************)
(* boot-macos.sh:2-4 and 46-49 -- versions run concurrently, each with its *)
(* own image, NVRAM, sockets and ports: no launch ever fails because       *)
(* another VM has what it needs.                                           *)
(***************************************************************************)
NoCollision == why \notin {"images busy", "ports busy"}

(***************************************************************************)
(* The QMP and monitor paths of a running VM lead to it, whatever other    *)
(* VMs start, fail, stop or die: vmctl, record and health reach the VM     *)
(* they name.                                                              *)
(***************************************************************************)
SocketsLead == \A p \in Procs : pc[p] = "running" => sock[Name(p)] = p

(***************************************************************************)
(* The vnc.env of a VM that runs headless names the ports it listens on,   *)
(* though it was written before QEMU started and survives it.              *)
(***************************************************************************)
ConsoleServed ==
  \A p \in Procs : pc[p] = "running" /\ launch[p].headless =>
    env[Name(p)] = Console(launch[p])

(***************************************************************************)
(* Boot entries a guest saved are never replaced by the template, nor cut  *)
(* short: the test-then-cp of a later launch finds the file.               *)
(***************************************************************************)
NvramKept ==
  [][\A n \in Names : nvram[n] = "saved" => nvram'[n] = "saved"]_vars

(***************************************************************************)
(* Even when operators launch a VM name twice, a launch is refused its     *)
(* images or ports only while a namesake is up: other VMs never collide.   *)
(***************************************************************************)
CollisionsAreNamesakes ==
  [][\A p \in Procs :
       Active(p) /\ ~Active(p)' /\ why' \in {"images busy", "ports busy"} =>
         \E q \in Procs \ {p} : Active(q) /\ Name(q) = Name(p)]_vars

(***************************************************************************)
(* publish.sh:8 -- "console endpoints (from boot-macos.sh --headless)":    *)
(* while a VM runs, a vnc.env that publish.sh would send to the dashboard  *)
(* comes from that VM's own headless launch.                               *)
(***************************************************************************)
AdvertisedConsole ==
  \A p \in Procs : pc[p] = "running" =>
    env[Name(p)] \in {NoConsole} \union
                     {Console(l) : l \in {l \in {launch[p]} : l.headless}}
=============================================================================
