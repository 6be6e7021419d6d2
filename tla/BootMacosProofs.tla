-------------------------- MODULE BootMacosProofs ---------------------------
(***************************************************************************)
(* Proofs about launches on one host, for any number of processes and any  *)
(* set of command lines whose VMs have their own offsets, up to MaxOffset. *)
(* Different offsets give disjoint port blocks (arithmetic); one launch    *)
(* per VM name makes the files and sockets of a name private to the        *)
(* process that runs it; the rest follows by following the script.  The    *)
(* last part lets a name be launched twice: then a launch is only ever     *)
(* refused by a VM of its own name.                                        *)
(***************************************************************************)
EXTENDS BootMacos, TLAPS

-----------------------------------------------------------------------------
(***************************************************************************)
(* The port blocks of two VMs of one host are disjoint: ssh ports, console *)
(* ports and WebSocket ports of different offsets never meet.              *)
(***************************************************************************)
THEOREM BlocksDisjoint ==
  ASSUME NEW l \in Launches, NEW m \in Launches, VmName(l) # VmName(m)
  PROVE  Ports(l) \cap Ports(m) = {}
<1> DEFINE a == Offset(l)  b == Offset(m)
<1>1. a \in 0 .. 209 /\ b \in 0 .. 209 /\ a # b
  BY LaunchesAssumption, OwnPortBlock DEF MaxOffset
<1>2. /\ Ports(l) \subseteq {2222 + a, 5700 + a, 5910 + a}
      /\ Ports(m) \subseteq {2222 + b, 5700 + b, 5910 + b}
  <2> HIDE DEF a, b
  <2> SUFFICES /\ SshPort(a) = 2222 + a /\ WsPort(a) = 5700 + a /\ RfbPort(a) = 5910 + a
               /\ SshPort(b) = 2222 + b /\ WsPort(b) = 5700 + b /\ RfbPort(b) = 5910 + b
    BY DEF Ports, a, b
  <2> QED
    BY <1>1 DEF SshPort, WsPort, RfbPort, VncDisplay
<1> HIDE DEF a, b
<1> QED
  BY <1>1, <1>2

-----------------------------------------------------------------------------
MacosPCs == {"nvram", "copy", "copying", "media", "unlink"}

Private ==
  \A p, q \in Procs : p # q /\ Active(p) /\ Active(q) => Name(p) # Name(q)

Following ==
  \A p \in Procs :
    /\ pc[p] \in MacosPCs => IsMacos(p)
    /\ pc[p] = "copy" => nvram[Name(p)] = "none"
    /\ pc[p] = "copying" => nvram[Name(p)] = "partial"
    /\ pc[p] \in {"images", "ports", "running"} => sock[Name(p)] = p
    /\ launch[p].headless /\ pc[p] \in {"unlink", "iso", "exec", "images", "ports", "running"}
         => env[Name(p)] = Console(launch[p])

IndInv == TypeOK /\ Private /\ Following /\ NoCollision

\* What the table's rows and the offsets given say of any command line.
LEMMA LaunchFacts ==
  /\ NoLaunch \notin Launches
  /\ \A l \in Launches : VmName(l) \in Names
  /\ \A l \in Launches : l.headless \in BOOLEAN
BY LaunchesAssumption DEF NoLaunch, Names

\* A host on which provision.sh has run and nothing is up satisfies IndInv.
LEMMA InitInv == Init => IndInv
BY DEF Init, IndInv, TypeOK, Private, Following, NoCollision, PCs, MacosPCs, Active

\* A launch that parses its arguments: its name is nobody else's by assumption.
LEMMA BeginInv ==
  ASSUME OneLaunchPerName, IndInv, NEW p \in Procs, NEW l \in Launches, Begin(p, l)
  PROVE  IndInv'
<1> USE DEF Begin, Goto
<1>1. TypeOK'
  BY LaunchFacts DEF IndInv, TypeOK, PCs, Active, files
<1>2. /\ pc'[p] = "disk" /\ launch'[p] = l
      /\ \A q \in Procs \ {p} : pc'[q] = pc[q] /\ launch'[q] = launch[q]
  BY DEF IndInv, TypeOK
<1>3. Private'
  <2> SUFFICES ASSUME NEW q \in Procs, NEW r \in Procs, q # r, Active(q)', Active(r)'
               PROVE  VmName(launch'[q]) # VmName(launch'[r])
    BY DEF Private, Name
  <2>1. CASE q # p /\ r # p
    BY <1>2, <2>1 DEF IndInv, Private, Active, Name
  <2>2. CASE q = p \/ r = p
    BY <1>2, <2>2 DEF Active, Name
  <2> QED
    BY <2>1, <2>2
<1>4. Following'
  BY <1>2 DEF IndInv, Following, MacosPCs, IsMacos, Name, files
<1> QED
  BY <1>1, <1>3, <1>4 DEF IndInv, NoCollision

(***************************************************************************)
(* A process that goes on or ends keeps the names of the active ones       *)
(* apart: only Begin adds a name.                                          *)
(***************************************************************************)
LEMMA PrivateKept ==
  ASSUME IndInv, NEW p \in Procs, Active(p),
         \A q \in Procs \ {p} : pc'[q] = pc[q] /\ launch'[q] = launch[q],
         pc'[p] = "idle" \/ launch'[p] = launch[p]
  PROVE  Private'
<1> SUFFICES ASSUME NEW q \in Procs, NEW r \in Procs, q # r, Active(q)', Active(r)'
             PROVE  VmName(launch'[q]) # VmName(launch'[r])
  BY DEF Private, Name
<1> QED
  BY DEF IndInv, Private, Active, Name

(***************************************************************************)
(* The steps of p concern the files of no other active process.            *)
(***************************************************************************)
LEMMA OthersFollow ==
  ASSUME IndInv, NEW p \in Procs, Active(p), NEW q \in Procs \ {p},
         pc'[q] = pc[q], launch'[q] = launch[q],
         \A n \in Names \ {Name(p)} :
           nvram'[n] = nvram[n] /\ env'[n] = env[n] /\ sock'[n] = sock[n]
  PROVE  /\ pc'[q] \in MacosPCs => IsMacos(q)'
         /\ pc'[q] = "copy" => nvram'[Name(q)'] = "none"
         /\ pc'[q] = "copying" => nvram'[Name(q)'] = "partial"
         /\ pc'[q] \in {"images", "ports", "running"} => sock'[Name(q)'] = q
         /\ launch'[q].headless
            /\ pc'[q] \in {"unlink", "iso", "exec", "images", "ports", "running"}
            => env'[Name(q)'] = Console(launch'[q])
<1>1. CASE Active(q)
  <2>1. Name(q) \in Names \ {Name(p)} /\ Name(q)' = Name(q)
    BY <1>1, LaunchFacts DEF IndInv, TypeOK, Private, Name
  <2> QED
    BY <2>1 DEF IndInv, Following, IsMacos
<1>2. CASE ~Active(q)
  BY <1>2 DEF Active, MacosPCs
<1> QED
  BY <1>1, <1>2

(***************************************************************************)
(* What a step of p gives: the type, its own files, nobody else's.         *)
(***************************************************************************)
Own(p) ==
  /\ pc'[p] \in MacosPCs => IsMacos(p)'
  /\ pc'[p] = "copy" => nvram'[Name(p)'] = "none"
  /\ pc'[p] = "copying" => nvram'[Name(p)'] = "partial"
  /\ pc'[p] \in {"images", "ports", "running"} => sock'[Name(p)'] = p
  /\ launch'[p].headless
     /\ pc'[p] \in {"unlink", "iso", "exec", "images", "ports", "running"}
     => env'[Name(p)'] = Console(launch'[p])

Apart(p) ==
  /\ \A q \in Procs \ {p} : pc'[q] = pc[q] /\ launch'[q] = launch[q]
  /\ pc'[p] = "idle" \/ launch'[p] = launch[p]
  /\ \A n \in Names \ {Name(p)} :
       nvram'[n] = nvram[n] /\ env'[n] = env[n] /\ sock'[n] = sock[n]

\* A step that keeps its own part of IndInv and stays off the others' keeps IndInv.
LEMMA Compose ==
  ASSUME IndInv, NEW p \in Procs, Active(p),
         TypeOK', Own(p), Apart(p), NoCollision'
  PROVE  IndInv'
<1>1. Private'
  BY PrivateKept DEF Apart
<1>2. Following'
  <2> SUFFICES ASSUME NEW q \in Procs
               PROVE  /\ pc'[q] \in MacosPCs => IsMacos(q)'
                      /\ pc'[q] = "copy" => nvram'[Name(q)'] = "none"
                      /\ pc'[q] = "copying" => nvram'[Name(q)'] = "partial"
                      /\ pc'[q] \in {"images", "ports", "running"} => sock'[Name(q)'] = q
                      /\ launch'[q].headless
                         /\ pc'[q] \in {"unlink", "iso", "exec", "images", "ports", "running"}
                         => env'[Name(q)'] = Console(launch'[q])
    BY DEF Following
  <2>1. CASE q = p
    BY <2>1 DEF Own
  <2>2. CASE q # p
    BY <2>2, OthersFollow DEF Apart
  <2> QED
    BY <2>1, <2>2
<1> QED
  BY <1>1, <1>2 DEF IndInv

\* A launch under way is one of the command lines, with a name of the fleet.
LEMMA ActiveFacts ==
  ASSUME IndInv, NEW p \in Procs, Active(p)
  PROVE  launch[p] \in Launches /\ Name(p) \in Names /\ launch[p].headless \in BOOLEAN
BY LaunchFacts DEF IndInv, TypeOK, Name

(***************************************************************************)
(* A launch that ends, whatever its socket path becomes.                   *)
(***************************************************************************)
LEMMA ExitInv ==
  ASSUME IndInv, NEW p \in Procs, Active(p), UNCHANGED files,
         NEW r \in {"no disk", "no media", "bad nvram", "ended"}, Exit(p, r),
         NEW left \in Procs \union {NoSocket, Stale},
         sock' = [sock EXCEPT ![Name(p)] = left]
  PROVE  IndInv'
<1>1. Name(p) \in Names
  BY ActiveFacts
<1>2. /\ pc'[p] = "idle" /\ launch'[p] = NoLaunch
      /\ \A q \in Procs \ {p} : pc'[q] = pc[q] /\ launch'[q] = launch[q]
  BY DEF IndInv, TypeOK, Exit
<1>3. /\ pc' \in [Procs -> PCs] /\ launch' \in [Procs -> Launches \union {NoLaunch}]
      /\ sock' \in [Names -> Procs \union {NoSocket, Stale}]
  BY <1>1 DEF IndInv, TypeOK, Exit, PCs
<1>4. \A q \in Procs : Active(q)' <=> launch'[q] # NoLaunch
  BY <1>2 DEF IndInv, TypeOK, Active
<1>5. TypeOK' /\ NoCollision'
  BY <1>3, <1>4 DEF IndInv, TypeOK, NoCollision, Exit, files
<1>6. Own(p)
  BY <1>2 DEF Own, MacosPCs
<1>7. Apart(p)
  BY <1>1, <1>2 DEF Apart, files, IndInv, TypeOK
<1> QED
  BY <1>5, <1>6, <1>7, Compose

\* The lines of boot-macos.sh and boot-tiger.sh up to exec keep IndInv.
LEMMA ScriptInv ==
  ASSUME IndInv, NEW p \in Procs, Macos(p) \/ TigerStep(p)
  PROVE  IndInv'
<1> DEFINE n == Name(p)
<1>1. Active(p)
  BY DEF Macos, TigerStep, CheckDisk, TestNvram, StartCopy, FinishCopy, CheckMedia,
     WriteEnv, RemoveSockets, TigerDisk, TigerIso, Goto, Active
<1>2. launch[p] \in Launches /\ Name(p) \in Names /\ launch[p].headless \in BOOLEAN
  BY <1>1, ActiveFacts
<1> USE <1>2 DEF IndInv, TypeOK, Following, NoCollision, PCs, MacosPCs, Active, Goto,
        Exit, files, Own, Apart, IsMacos, Name
<1>11. sock[Name(p)] \in Procs \union {NoSocket, Stale}
       /\ sock = [sock EXCEPT ![Name(p)] = sock[Name(p)]]
  OBVIOUS
<1>3. CASE CheckDisk(p)
  <2>1. CASE Goto(p, "disk", "nvram") /\ IsMacos(p) /\ UNCHANGED <<launch, why, files, sock>>
    <3>1. TypeOK' /\ NoCollision'
      BY <2>1
    <3>2. Own(p) /\ Apart(p)
      BY <2>1
    <3> QED
      BY <1>1, <3>1, <3>2, Compose
  <2>2. CASE Exit(p, "no disk") /\ UNCHANGED <<files, sock>>
    BY <1>1, <2>2, <1>11, ExitInv
  <2> QED
    BY <1>3, <2>1, <2>2 DEF CheckDisk
<1>4. CASE TestNvram(p)
  <2>1. TypeOK' /\ NoCollision'
    BY <1>4 DEF TestNvram
  <2>2. Own(p) /\ Apart(p)
    BY <1>4 DEF TestNvram
  <2> QED
    BY <1>1, <2>1, <2>2, Compose
<1>5. CASE StartCopy(p)
  <2>1. TypeOK' /\ NoCollision'
    BY <1>5 DEF StartCopy
  <2>2. Own(p) /\ Apart(p)
    BY <1>5 DEF StartCopy
  <2> QED
    BY <1>1, <2>1, <2>2, Compose
<1>12. CASE FinishCopy(p)
  <2>1. TypeOK' /\ NoCollision'
    BY <1>12 DEF FinishCopy
  <2>2. Own(p) /\ Apart(p)
    BY <1>12 DEF FinishCopy
  <2> QED
    BY <1>1, <2>1, <2>2, Compose
<1>6. CASE CheckMedia(p)
  <2>1. CASE Exit(p, "no media") /\ UNCHANGED <<files, sock>>
    BY <1>1, <1>11, <2>1, ExitInv
  <2>2. CASE /\ Goto(p, "media", IF launch[p].headless THEN "env" ELSE "unlink")
             /\ UNCHANGED <<launch, why, files, sock>>
    <3>1. TypeOK' /\ NoCollision'
      BY <2>2
    <3>2. Own(p) /\ Apart(p)
      BY <1>6, <2>2 DEF CheckMedia
    <3> QED
      BY <1>1, <3>1, <3>2, Compose
  <2> QED
    BY <1>6, <2>1, <2>2 DEF CheckMedia
<1>7. CASE WriteEnv(p)
  <2>1. TypeOK' /\ NoCollision'
    BY <1>7 DEF WriteEnv
  <2>2. Own(p) /\ Apart(p)
    BY <1>7 DEF WriteEnv
  <2> QED
    BY <1>1, <2>1, <2>2, Compose
<1>8. CASE RemoveSockets(p)
  <2>1. TypeOK' /\ NoCollision'
    BY <1>8 DEF RemoveSockets
  <2>2. Own(p) /\ Apart(p)
    BY <1>8 DEF RemoveSockets
  <2> QED
    BY <1>1, <2>1, <2>2, Compose
<1>9. CASE TigerDisk(p)
  <2>1. TypeOK' /\ NoCollision'
    BY <1>9 DEF TigerDisk
  <2>2. Own(p) /\ Apart(p)
    BY <1>9 DEF TigerDisk
  <2> QED
    BY <1>1, <2>1, <2>2, Compose
<1>10. CASE TigerIso(p)
  <2>1. CASE Exit(p, "no media") /\ UNCHANGED <<files, sock>>
    BY <1>1, <1>11, <2>1, ExitInv
  <2>2. CASE Goto(p, "iso", "exec") /\ UNCHANGED <<launch, why, files, sock>>
    <3>1. TypeOK' /\ NoCollision'
      BY <2>2
    <3>2. Own(p) /\ Apart(p)
      BY <2>2
    <3> QED
      BY <1>1, <3>1, <3>2, Compose
  <2> QED
    BY <1>10, <2>1, <2>2 DEF TigerIso
<1> QED
  BY <1>3, <1>4, <1>5, <1>6, <1>7, <1>8, <1>9, <1>10, <1>12 DEF Macos, TigerStep

(***************************************************************************)
(* The heart of NoCollision: nobody else active has p's name, so nobody    *)
(* holds its images, and the other port blocks are disjoint from p's.      *)
(***************************************************************************)
LEMMA NothingBusy ==
  ASSUME IndInv, NEW p \in Procs, Active(p)
  PROVE  ~ImagesBusy(p) /\ ~PortsBusy(p)
<1>1. ASSUME NEW q \in Procs \ {p}, HoldsImages(q) \/ HoldsPorts(q)
      PROVE  Name(q) # Name(p) /\ Ports(launch[q]) \cap Ports(launch[p]) = {}
  <2>1. Active(q)
    BY <1>1 DEF HoldsImages, HoldsPorts, Active
  <2>2. Name(q) # Name(p)
    BY <2>1 DEF IndInv, Private
  <2> QED
    BY <2>1, <2>2, ActiveFacts, BlocksDisjoint DEF Name
<1> QED
  BY <1>1 DEF ImagesBusy, PortsBusy

\* QEMU's start, its failures, the guest's saves, power-off and kills keep IndInv.
LEMMA QemuInv ==
  ASSUME IndInv, NEW p \in Procs, Qemu(p) \/ (Killed(p))
  PROVE  IndInv'
<1>1. Active(p)
  BY DEF Qemu, BindSockets, LockImages, BindPorts, GuestSaves, PowerOff, Killed, Goto, Active
<1>2. launch[p] \in Launches /\ Name(p) \in Names /\ launch[p].headless \in BOOLEAN
  BY <1>1, ActiveFacts
<1>3. ~ImagesBusy(p) /\ ~PortsBusy(p)
  BY <1>1, NothingBusy
<1> USE <1>2 DEF IndInv, TypeOK, Following, NoCollision, PCs, MacosPCs, Active, Goto,
        Exit, files, Own, Apart, IsMacos, Name
<1>4. CASE BindSockets(p)
  <2>1. TypeOK' /\ NoCollision'
    BY <1>4 DEF BindSockets
  <2>2. Own(p) /\ Apart(p)
    BY <1>4 DEF BindSockets
  <2> QED
    BY <1>1, <2>1, <2>2, Compose
<1>5. CASE LockImages(p)
  <2>1. CASE Exit(p, "bad nvram") /\ LeaveSocket(p) /\ UNCHANGED files
    <3>1. \E left \in Procs \union {NoSocket, Stale} :
            sock' = [sock EXCEPT ![Name(p)] = left]
      <4>1. sock[Name(p)] \in Procs \union {NoSocket, Stale}
        OBVIOUS
      <4> QED
        BY <2>1, <4>1 DEF LeaveSocket
    <3>2. PICK left \in Procs \union {NoSocket, Stale} :
            sock' = [sock EXCEPT ![Name(p)] = left]
      BY <3>1
    <3> QED
      BY <1>1, <2>1, <3>2, ExitInv
  <2>2. CASE Goto(p, "images", "ports") /\ UNCHANGED <<launch, why, sock, files>>
    <3>1. TypeOK' /\ NoCollision'
      BY <2>2
    <3>2. Own(p) /\ Apart(p)
      BY <2>2
    <3> QED
      BY <1>1, <3>1, <3>2, Compose
  <2> QED
    BY <1>3, <1>5, <2>1, <2>2 DEF LockImages
<1>6. CASE BindPorts(p)
  <2>1. Goto(p, "ports", "running") /\ UNCHANGED <<launch, why, sock, files>>
    BY <1>3, <1>6 DEF BindPorts
  <2>2. TypeOK' /\ NoCollision'
    BY <2>1
  <2>3. Own(p) /\ Apart(p)
    BY <2>1
  <2> QED
    BY <1>1, <2>2, <2>3, Compose
<1>7. CASE GuestSaves(p)
  <2>1. TypeOK' /\ NoCollision'
    BY <1>7 DEF GuestSaves
  <2>2. Own(p) /\ Apart(p)
    BY <1>7 DEF GuestSaves
  <2> QED
    BY <1>1, <2>1, <2>2, Compose
<1>8. CASE PowerOff(p) \/ Killed(p)
  <2>1. PICK left \in Procs \union {NoSocket, Stale} :
          sock' = [sock EXCEPT ![Name(p)] = left]
    BY <1>8 DEF PowerOff, Killed
  <2>2. Exit(p, "ended") /\ UNCHANGED files
    BY <1>8 DEF PowerOff, Killed
  <2> QED
    BY <1>1, <2>1, <2>2, ExitInv
<1> QED
  BY <1>4, <1>5, <1>6, <1>7, <1>8 DEF Qemu

\* Every step keeps IndInv.
LEMMA NextInv == OneLaunchPerName => (IndInv /\ [Next]_vars => IndInv')
<1> SUFFICES ASSUME OneLaunchPerName, IndInv, [Next]_vars PROVE IndInv'
  OBVIOUS
<1>1. CASE UNCHANGED vars
  BY <1>1 DEF vars, files, IndInv, TypeOK, Private, Following, NoCollision, Active,
     Name, IsMacos
<1> QED
  BY <1>1, BeginInv, ScriptInv, QemuInv DEF Next

\* IndInv is an invariant of fleets that give every launch a name of its own.
THEOREM Invariance == ASSUME OneLaunchPerName PROVE Spec => []IndInv
<1>1. IndInv /\ [Next]_vars => IndInv'
  BY NextInv
<1> QED
  BY <1>1, InitInv, PTL DEF Spec

(***************************************************************************)
(* Launches of different VMs never fail for what another one holds.        *)
(***************************************************************************)
THEOREM LaunchesNeverCollide ==
  ASSUME OneLaunchPerName PROVE Spec => []NoCollision
BY Invariance, PTL DEF IndInv

(***************************************************************************)
(* A running VM is what its QMP and monitor paths lead to, for good.       *)
(***************************************************************************)
THEOREM RunningReachable ==
  ASSUME OneLaunchPerName PROVE Spec => []SocketsLead
<1>1. IndInv => SocketsLead
  BY DEF IndInv, Following, SocketsLead
<1> QED
  BY <1>1, Invariance, PTL

(***************************************************************************)
(* The vnc.env of a headless VM names the ports it listens on.             *)
(***************************************************************************)
THEOREM HeadlessServed ==
  ASSUME OneLaunchPerName PROVE Spec => []ConsoleServed
<1>1. IndInv => ConsoleServed
  BY DEF IndInv, Following, ConsoleServed
<1> QED
  BY <1>1, Invariance, PTL

(***************************************************************************)
(* No launch overwrites NVRAM a guest has saved: a cp that runs was        *)
(* preceded by a test that found no file, and nobody made one since.       *)
(***************************************************************************)
THEOREM BootEntriesKept ==
  ASSUME OneLaunchPerName PROVE Spec => NvramKept
<1>1. IndInv /\ [Next]_vars =>
        [\A n \in Names : nvram[n] = "saved" => nvram'[n] = "saved"]_vars
  <2> SUFFICES ASSUME IndInv, Next, NEW n \in Names, nvram[n] = "saved"
               PROVE  nvram'[n] = "saved"
    BY DEF vars
  <2>1. PICK p \in Procs : \/ \E l \in Launches : Begin(p, l)
                           \/ Macos(p) \/ TigerStep(p) \/ Qemu(p) \/ Killed(p)
    BY DEF Next
  <2>2. CASE StartCopy(p) \/ FinishCopy(p)
    <3>1. Name(p) # n
      BY <2>2 DEF StartCopy, FinishCopy, Goto, IndInv, Following
    <3> QED
      BY <2>2, <3>1 DEF StartCopy, FinishCopy, IndInv, TypeOK
  <2>3. CASE GuestSaves(p)
    BY <2>3 DEF GuestSaves, IndInv, TypeOK
  <2>4. CASE ~(StartCopy(p) \/ FinishCopy(p) \/ GuestSaves(p))
    BY <2>1, <2>4 DEF Begin, Macos, TigerStep, Qemu, Killed, CheckDisk, TestNvram,
       CheckMedia, WriteEnv, RemoveSockets, TigerDisk, TigerIso, BindSockets,
       LockImages, BindPorts, PowerOff, files
  <2> QED
    BY <2>2, <2>3, <2>4
<1> QED
  BY <1>1, Invariance, PTL DEF Spec, NvramKept

-----------------------------------------------------------------------------
(***************************************************************************)
(* Operators who launch a VM name twice: what holds of any fleet.          *)
(***************************************************************************)
LEMMA TypeInit == Init => TypeOK
BY DEF Init, TypeOK, PCs, Active

\* A launch that ends keeps the types, whatever its socket path becomes.
LEMMA ExitType ==
  ASSUME TypeOK, NEW p \in Procs, Active(p), UNCHANGED files,
         NEW r \in {"no disk", "no media", "images busy", "bad nvram", "ports busy", "ended"},
         Exit(p, r), sock' \in [Names -> Procs \union {NoSocket, Stale}]
  PROVE  TypeOK'
<1>1. /\ pc'[p] = "idle" /\ launch'[p] = NoLaunch
      /\ \A q \in Procs \ {p} : pc'[q] = pc[q] /\ launch'[q] = launch[q]
  BY DEF TypeOK, Exit
<1>2. \A q \in Procs : Active(q)' <=> launch'[q] # NoLaunch
  BY <1>1 DEF TypeOK, Active
<1> QED
  BY <1>2 DEF TypeOK, Exit, PCs, files

\* A script or QEMU that goes on keeps the types.
LEMMA GotoType ==
  ASSUME TypeOK, NEW p \in Procs, Active(p), NEW to \in PCs \ {"idle"},
         pc' = [pc EXCEPT ![p] = to], UNCHANGED <<launch, why>>,
         disk' \in [Names -> BOOLEAN],
         nvram' \in [Names -> {"none", "partial", "template", "saved"}],
         media' \in [Names -> BOOLEAN],
         env' \in [Names -> {NoConsole} \union {Console(l) : l \in Launches}],
         sock' \in [Names -> Procs \union {NoSocket, Stale}]
  PROVE  TypeOK'
<1>1. /\ pc'[p] = to
      /\ \A q \in Procs \ {p} : pc'[q] = pc[q]
  BY DEF TypeOK
<1>2. \A q \in Procs : Active(q)' <=> launch'[q] # NoLaunch
  BY <1>1 DEF TypeOK, Active
<1> QED
  BY <1>2 DEF TypeOK

\* Every step keeps the types, with one launch per name or several.
LEMMA TypeNext == TypeOK /\ [Next]_vars => TypeOK'
<1> SUFFICES ASSUME TypeOK, [Next]_vars PROVE TypeOK'
  OBVIOUS
<1>1. CASE UNCHANGED vars
  BY <1>1 DEF vars, files, TypeOK, Active
<1>2. ASSUME NEW p \in Procs, NEW l \in Launches, Begin(p, l) PROVE TypeOK'
  BY <1>2, LaunchFacts DEF Begin, Goto, TypeOK, PCs, Active, files
<1>3. ASSUME NEW p \in Procs, Macos(p) \/ TigerStep(p) \/ Qemu(p) \/ Killed(p)
      PROVE  TypeOK'
  <2>1. Active(p)
    BY <1>3 DEF Macos, TigerStep, CheckDisk, TestNvram, StartCopy, FinishCopy, CheckMedia,
       WriteEnv, RemoveSockets, TigerDisk, TigerIso, Goto, Active,
       Qemu, BindSockets, LockImages, BindPorts, GuestSaves, PowerOff, Killed
  <2>2. launch[p] \in Launches /\ Name(p) \in Names
    BY <2>1, LaunchFacts DEF TypeOK, Name
  <2>3. sock[Name(p)] \in Procs \union {NoSocket, Stale}
    BY <2>2 DEF TypeOK
  <2>4. CASE CheckDisk(p)
    BY <2>1, <2>4, ExitType, GotoType DEF CheckDisk, Goto, PCs, files, TypeOK
  <2>5. CASE TestNvram(p)
    BY <2>1, <2>5, GotoType DEF TestNvram, Goto, PCs, files, TypeOK
  <2>6. CASE StartCopy(p)
    <3>1. nvram' \in [Names -> {"none", "partial", "template", "saved"}]
      BY <2>6 DEF StartCopy, TypeOK
    <3> QED
      BY <2>1, <2>6, <3>1, GotoType DEF StartCopy, Goto, PCs, TypeOK
  <2>7. CASE FinishCopy(p)
    <3>1. nvram' \in [Names -> {"none", "partial", "template", "saved"}]
      BY <2>7 DEF FinishCopy, TypeOK
    <3> QED
      BY <2>1, <2>7, <3>1, GotoType DEF FinishCopy, Goto, PCs, TypeOK
  <2>8. CASE CheckMedia(p)
    BY <2>1, <2>8, ExitType, GotoType DEF CheckMedia, Goto, PCs, files, TypeOK
  <2>9. CASE WriteEnv(p)
    <3>1. env' \in [Names -> {NoConsole} \union {Console(l) : l \in Launches}]
      BY <2>2, <2>9 DEF WriteEnv, TypeOK
    <3> QED
      BY <2>1, <2>9, <3>1, GotoType DEF WriteEnv, Goto, PCs, TypeOK
  <2>10. CASE RemoveSockets(p) \/ BindSockets(p)
    <3>1. sock' \in [Names -> Procs \union {NoSocket, Stale}]
      BY <2>10 DEF RemoveSockets, BindSockets, TypeOK
    <3>2. UNCHANGED <<launch, why, disk, nvram, media, env>>
          /\ \E to \in PCs \ {"idle"} : pc' = [pc EXCEPT ![p] = to]
      BY <2>10, Zenon DEF RemoveSockets, BindSockets, Goto, PCs, files
    <3> QED
      BY <2>1, <3>1, <3>2, GotoType DEF TypeOK
  <2>11. CASE TigerDisk(p)
    <3>1. disk' \in [Names -> BOOLEAN]
      BY <2>11 DEF TigerDisk, TypeOK
    <3> QED
      BY <2>1, <2>11, <3>1, GotoType DEF TigerDisk, Goto, PCs, TypeOK
  <2>12. CASE TigerIso(p)
    BY <2>1, <2>12, ExitType, GotoType DEF TigerIso, Goto, PCs, files, TypeOK
  <2>13. CASE LockImages(p) \/ BindPorts(p)
    <3>1. LeaveSocket(p) => sock' \in [Names -> Procs \union {NoSocket, Stale}]
      BY <2>3 DEF LeaveSocket, TypeOK
    <3>2. UNCHANGED files
      BY <2>13 DEF LockImages, BindPorts
    <3>3. CASE \E r \in {"images busy", "bad nvram", "ports busy"} : Exit(p, r) /\ LeaveSocket(p)
      <4>1. PICK r \in {"images busy", "bad nvram", "ports busy"} : Exit(p, r) /\ LeaveSocket(p)
        BY <3>3
      <4> QED  BY <2>1, <3>1, <3>2, <4>1, ExitType
    <3>4. CASE /\ UNCHANGED <<launch, why, sock>>
               /\ \E to \in {"ports", "running"} : pc' = [pc EXCEPT ![p] = to]
      <4>1. PICK to \in {"ports", "running"} : pc' = [pc EXCEPT ![p] = to]
        BY <3>4
      <4> QED  BY <2>1, <3>2, <3>4, <4>1, GotoType DEF PCs, files, TypeOK
    <3> QED
      BY <2>13, <3>3, <3>4, Zenon DEF LockImages, BindPorts, Goto
  <2>14. CASE GuestSaves(p)
    BY <2>14 DEF GuestSaves, TypeOK, Active
  <2>15. CASE PowerOff(p) \/ Killed(p)
    <3>1. sock' \in [Names -> Procs \union {NoSocket, Stale}]
      BY <2>15 DEF PowerOff, Killed, TypeOK
    <3> QED
      BY <2>1, <2>15, <3>1, ExitType DEF PowerOff, Killed
  <2> QED
    BY <1>3, <2>4, <2>5, <2>6, <2>7, <2>8, <2>9, <2>10, <2>11, <2>12, <2>13, <2>14, <2>15
    DEF Macos, TigerStep, Qemu
<1> QED
  BY <1>1, <1>2, <1>3 DEF Next

(***************************************************************************)
(* Every process runs one of the command lines or nothing, every file and  *)
(* socket has its type, whether operators repeat a VM name or not.         *)
(***************************************************************************)
THEOREM LaunchTypes == Spec => []TypeOK
BY TypeInit, TypeNext, PTL DEF Spec

(***************************************************************************)
(* Launched twice or not: who is refused its images or ports has a         *)
(* namesake that is up.  Images are locked by name; ports of other names   *)
(* are disjoint.                                                           *)
(***************************************************************************)
THEOREM OnlyNamesakesCollide == Spec => CollisionsAreNamesakes
<1> DEFINE Refused(p) == Active(p) /\ ~Active(p)' /\ why' \in {"images busy", "ports busy"}
           Namesake(p) == \E q \in Procs \ {p} : Active(q) /\ Name(q) = Name(p)
<1>1. ASSUME TypeOK, NEW p \in Procs, ImagesBusy(p) \/ PortsBusy(p), Active(p)
      PROVE  Namesake(p)
  <2>1. PICK q \in Procs \ {p} :
          \/ HoldsImages(q) /\ Name(q) = Name(p)
          \/ HoldsPorts(q) /\ Ports(launch[q]) \cap Ports(launch[p]) # {}
    BY <1>1 DEF ImagesBusy, PortsBusy
  <2>2. Active(q) /\ launch[q] \in Launches /\ launch[p] \in Launches
    BY <1>1, <2>1 DEF HoldsImages, HoldsPorts, Active, TypeOK
  <2>3. Name(q) = Name(p)
    BY <2>1, <2>2, BlocksDisjoint DEF Name
  <2> QED
    BY <2>2, <2>3
<1>2. ASSUME TypeOK, Next, NEW p \in Procs, Refused(p) PROVE Namesake(p)
  <2>1. PICK r \in Procs : \/ \E l \in Launches : Begin(r, l)
                           \/ Macos(r) \/ TigerStep(r) \/ Qemu(r) \/ Killed(r)
    BY <1>2 DEF Next
  <2>2. r = p
    <3>1. pc'[p] # pc[p]
      BY <1>2 DEF Active
    <3>2. pc' = pc \/ \E to : pc' = [pc EXCEPT ![r] = to]
      BY <2>1, Zenon DEF Begin, Macos, TigerStep, Qemu, Killed, CheckDisk,
         TestNvram, StartCopy, FinishCopy, CheckMedia, WriteEnv, RemoveSockets,
         TigerDisk, TigerIso, BindSockets, LockImages, BindPorts, GuestSaves, PowerOff,
         Exit, Goto
    <3>3. PICK to : pc' = [pc EXCEPT ![r] = to]
      BY <3>1, <3>2
    <3>4. pc \in [Procs -> PCs]
      BY <1>2 DEF TypeOK
    <3> QED
      BY <3>1, <3>3, <3>4
  <2>3. CASE LockImages(p) \/ BindPorts(p)
    <3>1. ImagesBusy(p) \/ PortsBusy(p)
      BY <1>2, <2>3 DEF LockImages, BindPorts, Exit, Goto, Active, TypeOK
    <3> QED
      BY <1>1, <1>2, <3>1
  <2>4. CASE ~(LockImages(p) \/ BindPorts(p))
    BY <1>2, <2>1, <2>2, <2>4 DEF TypeOK, Begin, Macos, TigerStep, Qemu, Killed, CheckDisk,
         TestNvram, StartCopy, FinishCopy, CheckMedia, WriteEnv, RemoveSockets,
         TigerDisk, TigerIso, BindSockets, GuestSaves, PowerOff, Exit, Goto, Active
  <2> QED
    BY <2>3, <2>4
<1>3. TypeOK /\ [Next]_vars => [\A p \in Procs : Refused(p) => Namesake(p)]_vars
  BY <1>2
<1> QED
  BY <1>3, LaunchTypes, PTL DEF Spec, CollisionsAreNamesakes
=============================================================================
